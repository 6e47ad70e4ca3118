------------------------- MODULE BoardNetworkProofs -------------------------
(***************************************************************************)
(* Theorems about BoardNetwork: its types, that addresses stay distinct,   *)
(* that "applied" is true and that provision_board verifies its own board, *)
(* for every set of boards, rows, threads and addresses.                   *)
(*                                                                         *)
(* A thread whose operation is alone (solo) can rely on what it read; any  *)
(* other thread may find everything changed.  The invariant therefore says *)
(* two things of a thread: what its call record is at each step (CallOK),  *)
(* whatever the others do, and what is true of boards and inventory while  *)
(* it is alone (SoloOK).                                                   *)
(***************************************************************************)
EXTENDS BoardNetwork, FiniteSetTheorems, TLAPS

Wants == PoolIps \cup AdminIps
Uids == {UidOf[d] : d \in Devices}
Working == {"stage", "restart", "confirm", "commit", "failed"}
OfRow(c) == c.kind \notin {"scan", "provision"}

\* What a call carries at each step of the operation it belongs to.
CallOK(c) ==
  /\ c \in Calls
  /\ c.pc # "end" =>
       /\ c.mac \in Devices /\ c.kind # "none"
       /\ c.kind # "recover" => c.kind = c.op
       /\ c.kind = "scan" => /\ c.pc \in {"allocate"} \cup Working /\ c.d \in Devices
                             /\ c.want \in DevIps /\ (c.pc # "allocate" => c.ip \in PoolIps)
       /\ c.kind = "provision" => c.pc \in Working /\ c.d \in Devices /\ c.ip \in PoolIps
       /\ c.kind = "get" => c.pc = "commit" /\ c.ip \in DevIps
       /\ c.kind = "refresh" => c.pc \in {"mark", "uid"}
       /\ c.kind = "recover" => c.pc \in {"pend"} \cup Working /\ c.op \in {"refresh", "apply", "restart"}
       /\ c.kind = "apply" => c.pc \in {"mark", "uid", "desire"} \cup Working
       /\ c.kind = "restart" => c.pc \in ({"mark", "uid"} \cup Working) \ {"stage"}
       /\ c.kind \notin {"scan", "provision", "get"} => c.ip \in Wants
       /\ OfRow(c) => c.r \in Rows
       /\ c.op = "apply" => c.want \in AdminIps
       /\ c.pc \in {"uid", "pend", "commit"} => c.d \in Devices

\* A call on a row is about a board of the inventory, and an administrator's
\* apply that has passed its check has told raced of an address of the pool.
CallInv ==
  \A t \in Threads :
    LET c == th[t] IN
    /\ CallOK(c)
    /\ c.pc # "end" /\ OfRow(c) => row[c.r].known
    /\ c.kind = "apply" /\ c.pc \in Working /\ c.want \in PoolIps => raced

\* An identity a row of the inventory has, and the address it wants.
RowInv ==
  \A r \in Rows :
    /\ row[r].enabled => row[r].known
    /\ row[r].known => row[r].desired \in Wants /\ row[r].mac \in Devices /\ row[r].uid \in Uids

Same(b, uid, mac) == b.uid = uid /\ b.mac = mac

\* No other board of the inventory rw wants the address.
Free(rw, ip, uid, mac) ==
  \A r \in Rows : rw[r].known /\ ~Same(rw[r], uid, mac) => rw[r].desired # ip

\* A board of dv on the link ln has the identity of the call.
Has(c, dv, ln) == \E d \in ln : dv[d].ip = c.ip /\ dv[d].mac = c.mac /\ UidOf[d] = UidOf[c.d]

\* What a thread that is alone can rely on, of the boards dv on the link ln, the
\* inventory rw and raced.
SoloOK(c, dv, ln, rw, rc) ==
  /\ c.kind \in {"scan", "provision"} => c.d \in ln
  /\ c.pc = "allocate" => dv[c.d].ip = c.want /\ dv[c.d].mac = c.mac
  /\ c.kind = "scan" /\ ln = {c.d} =>
       /\ c.pc = "restart" => dv[c.d].shadow = <<c.ip, c.mac>>
       /\ c.pc = "confirm" => dv[c.d].mac = c.mac
       /\ c.pc # "allocate" /\ ~rc => Free(rw, c.ip, UidOf[c.d], c.mac)
  /\ c.pc = "commit" /\ Cardinality(ln) = 1 => Has(c, dv, ln)
  /\ c.pc \in {"mark", "uid", "pend"} => c.ip = rw[c.r].desired

SoloInv ==
  \A t \in Threads :
    solo[t] /\ Alive(t) => SoloOK(th[t], dev, link, row, raced) /\ \A u \in Threads \ {t} : ~Alive(u)

\* As long as raced has nothing to tell, every board of the inventory has one
\* row, and no two rows want the same address of the pool.
KeyInv ==
  ~raced =>
    /\ \A r \in Rows : row[r].known => row[r].enabled
    /\ \A r, s \in Rows :
         r # s /\ row[r].known /\ row[s].known =>
           /\ ~Same(row[r], row[s].uid, row[s].mac)
           /\ row[r].desired \in PoolIps => row[r].desired # row[s].desired

IInv == TypeOK /\ RowInv /\ CallInv /\ SoloInv /\ KeyInv

-----------------------------------------------------------------------------
(* Constants and calls.                                                      *)

\* The addresses that are given away: boards may have them, the broadcast
\* address is not among them.
LEMMA Addresses ==
  /\ PoolIps \subseteq Wants /\ AdminIps \subseteq Wants /\ Wants \subseteq DevIps /\ DevIps \subseteq Ips
  /\ Bcast \notin DevIps /\ {Boot, LinkLocal, Bcast} \subseteq Ips
  /\ Pool[1] \in PoolIps /\ Boot \notin Wants
  /\ \A d \in Devices : ResetIp[d] \in DevIps
BY PoolAssumption, ResetAssumption DEF Wants, DevIps, Ips, PoolIps

\* A thread without an operation.
LEMMA NoCallFacts ==
  NoCall \in Calls /\ NoCall.pc = "end" /\ NoCall.kind = "none" /\ CallOK(NoCall)
<1>1. NoCall \in Calls
  BY Addresses DEF NoCall, Calls
<1>2. NoCall.pc = "end" /\ NoCall.kind = "none"
  BY DEF NoCall
<1> QED
  BY <1>1, <1>2 DEF CallOK

Pcs == {"mark", "uid", "pend", "desire", "allocate", "stage", "restart", "confirm", "commit", "failed"}

Alike(k, c) ==
  /\ k.op = c.op /\ k.kind = c.kind /\ k.r = c.r /\ k.d = c.d /\ k.to = c.to
  /\ k.want = c.want /\ k.ip = c.ip /\ k.mac = c.mac

\* A thread that goes on to another step keeps the rest of its call.
LEMMA GotoFacts ==
  ASSUME NEW c \in Calls, NEW pc \in Pcs
  PROVE  /\ [c EXCEPT !.pc = pc] \in Calls /\ [c EXCEPT !.pc = pc].pc = pc
         /\ Alike([c EXCEPT !.pc = pc], c)
BY DEF Calls, Pcs, Alike

-----------------------------------------------------------------------------
(* What a step of one thread does to the others.                             *)

CallKept(c, rw, rc) ==
  /\ CallOK(c)
  /\ c.pc # "end" /\ OfRow(c) => rw[c.r].known
  /\ c.kind = "apply" /\ c.pc \in Working /\ c.want \in PoolIps => rc

\* A thread that begins an operation is alone when no other has one, and the
\* others are alone no more.
LEMMA StartStep ==
  ASSUME IInv, NEW t \in Threads, NEW k, Start(t, k), UNCHANGED <<link, dev, row, raced>>,
         CallKept(k, row, raced), SoloOK(k, dev, link, row, raced)
  PROVE  /\ th' \in [Threads -> Calls] /\ CallInv' /\ SoloInv'
         /\ solo' \in [Threads -> BOOLEAN] /\ calls' \in 0..MaxCalls /\ events' \in 0..MaxEvents
<1>1. /\ th \in [Threads -> Calls] /\ solo \in [Threads -> BOOLEAN] /\ calls \in 0..MaxCalls
      /\ events \in 0..MaxEvents /\ CallInv /\ k \in Calls
  BY DEF IInv, TypeOK, CallKept, CallOK
<1>2. /\ th' = [th EXCEPT ![t] = k] /\ calls < MaxCalls /\ calls' = calls + 1 /\ events' = events
      /\ solo' = [u \in Threads |-> u = t /\ \A v \in Threads \ {t} : ~Alive(v)]
  BY DEF Start
<1>3. th' \in [Threads -> Calls] /\ th'[t] = k /\ \A u \in Threads \ {t} : th'[u] = th[u]
  BY <1>1, <1>2
<1>4. CallInv'
  BY <1>1, <1>3 DEF CallInv, CallKept
<1>5. SoloInv'
  <2> SUFFICES ASSUME NEW u \in Threads, solo'[u], th'[u].pc # "end"
               PROVE  SoloOK(th'[u], dev', link', row', raced') /\ \A v \in Threads \ {u} : th'[v].pc = "end"
    BY DEF SoloInv, Alive
  <2>1. u = t /\ \A v \in Threads \ {t} : th[v].pc = "end"
    BY <1>2 DEF Alive
  <2> QED
    BY <1>3, <2>1
<1>6. solo' \in [Threads -> BOOLEAN]
  BY <1>2
<1>7. calls' \in 0..MaxCalls
  BY <1>1, <1>2, BoundsAssumption
<1> QED
  BY <1>1, <1>2, <1>3, <1>4, <1>5, <1>6, <1>7

\* A step of a thread that works: another one that is alone does not exist.
LEMMA MoveStep ==
  ASSUME IInv, NEW t \in Threads, NEW k, Alive(t), th' = [th EXCEPT ![t] = k], solo' = solo,
         \A r \in Rows : row[r].known => row'[r].known, raced => raced',
         CallKept(k, row', raced'),
         solo[t] /\ k.pc # "end" => SoloOK(k, dev', link', row', raced')
  PROVE  th' \in [Threads -> Calls] /\ CallInv' /\ SoloInv'
<1>1. th \in [Threads -> Calls] /\ CallInv /\ SoloInv /\ k \in Calls
  BY DEF IInv, TypeOK, CallKept, CallOK
<1>2. th' \in [Threads -> Calls] /\ th'[t] = k /\ \A u \in Threads \ {t} : th'[u] = th[u]
  BY <1>1
<1>3. CallInv'
  <2> SUFFICES ASSUME NEW u \in Threads PROVE CallKept(th'[u], row', raced')
    BY DEF CallInv, CallKept
  <2>1. CASE u = t
    BY <1>2, <2>1
  <2>2. CASE u # t
    <3>1. CallKept(th[u], row, raced)
      BY <1>1 DEF CallInv, CallKept
    <3>2. th[u].pc # "end" /\ OfRow(th[u]) => th[u].r \in Rows
      BY <3>1 DEF CallKept, CallOK
    <3> QED
      BY <1>2, <2>2, <3>1, <3>2 DEF CallKept
  <2> QED
    BY <2>1, <2>2
<1>4. SoloInv'
  <2> SUFFICES ASSUME NEW u \in Threads, solo'[u], th'[u].pc # "end"
               PROVE  SoloOK(th'[u], dev', link', row', raced') /\ \A v \in Threads \ {u} : th'[v].pc = "end"
    BY DEF SoloInv, Alive
  <2>1. u = t
    BY <1>1, <1>2 DEF SoloInv, Alive
  <2>2. \A v \in Threads \ {t} : th[v].pc = "end"
    BY <1>1, <2>1 DEF SoloInv, Alive
  <2> QED
    BY <1>2, <2>1, <2>2
<1> QED
  BY <1>2, <1>3, <1>4

\* After an event nobody is alone.
LEMMA EventStep ==
  ASSUME IInv, UNCHANGED <<th, calls>>, solo' = [u \in Threads |-> FALSE],
         \A r \in Rows : row[r].known => row'[r].known, raced => raced'
  PROVE  CallInv' /\ SoloInv' /\ solo' \in [Threads -> BOOLEAN]
<1>1. CallInv'
  <2> SUFFICES ASSUME NEW u \in Threads PROVE CallKept(th[u], row', raced')
    BY DEF CallInv, CallKept
  <2>1. CallKept(th[u], row, raced)
    BY DEF IInv, CallInv, CallKept
  <2>2. th[u].pc # "end" /\ OfRow(th[u]) => th[u].r \in Rows
    BY <2>1 DEF CallKept, CallOK
  <2> QED
    BY <2>1, <2>2 DEF CallKept
<1>2. SoloInv'
  BY DEF SoloInv
<1> QED
  BY <1>1, <1>2

-----------------------------------------------------------------------------
(* What a step does to the inventory.                                        *)

\* A row of the inventory that is changed stays well formed.
LEMMA RowStep ==
  ASSUME IInv, NEW r \in Rows, NEW b \in BoardRows, row' = [row EXCEPT ![r] = b],
         b.enabled => b.known, row[r].known => b.known,
         b.known => b.desired \in Wants /\ b.mac \in Devices /\ b.uid \in Uids
  PROVE  /\ row' \in [Rows -> BoardRows] /\ RowInv' /\ row'[r] = b
         /\ \A s \in Rows \ {r} : row'[s] = row[s]
         /\ \A s \in Rows : row[s].known => row'[s].known
<1>1. row \in [Rows -> BoardRows] /\ RowInv
  BY DEF IInv, TypeOK
<1>2. row' \in [Rows -> BoardRows] /\ row'[r] = b /\ \A s \in Rows \ {r} : row'[s] = row[s]
  BY <1>1
<1>3. RowInv'
  BY <1>1, <1>2 DEF RowInv
<1> QED
  BY <1>2, <1>3

\* A row that keeps its identity and the address it wants, or wants one outside
\* the pool, takes no address of another.
LEMMA KeyStep ==
  ASSUME KeyInv, NEW r \in Rows, NEW b, row'[r] = b, \A s \in Rows \ {r} : row'[s] = row[s],
         ~raced' => /\ ~raced /\ b.uid = row[r].uid /\ b.mac = row[r].mac
                    /\ b.known = row[r].known /\ b.enabled = row[r].enabled
                    /\ b.desired = row[r].desired \/ b.desired \notin PoolIps
  PROVE  KeyInv'
BY DEF KeyInv, Same

-----------------------------------------------------------------------------
(* The initial states, and what happens to boards and inventory.             *)

\* A board after reset.
LEMMA Fresh ==
  \A d \in Devices : [ip |-> ResetIp[d], mac |-> d, shadow |-> <<>>, armed |-> FALSE] \in Identities
BY Addresses DEF Identities

LEMMA InitHolds == Init => IInv
<1> SUFFICES ASSUME Init PROVE IInv
  OBVIOUS
<1>1. dev \in [Devices -> Identities] /\ link \subseteq Devices
  BY Fresh DEF Init
<1>2. NoBoard \in BoardRows /\ ~NoBoard.known /\ ~NoBoard.enabled
  BY Addresses DEF NoBoard, BoardRows
<1>3. \A d \in Devices : /\ InventoryBoard(d) \in BoardRows /\ InventoryBoard(d).known /\ InventoryBoard(d).enabled
                         /\ InventoryBoard(d).desired \in Wants /\ InventoryBoard(d).mac \in Devices
                         /\ InventoryBoard(d).uid \in Uids
  BY Addresses DEF InventoryBoard, BoardRows, Uids
<1>4. PICK d \in Devices : \/ row = [r \in Rows |-> NoBoard]
                           \/ row = [r \in Rows |-> IF r = FirstRow THEN InventoryBoard(d) ELSE NoBoard]
  BY DEF Init
<1>5. \A r \in Rows : /\ row[r] \in BoardRows
                      /\ row[r] = NoBoard \/ (r = FirstRow /\ row[r] = InventoryBoard(d))
  BY <1>2, <1>3, <1>4
<1>6. row \in [Rows -> BoardRows]
  BY <1>4, <1>5
<1>7. RowInv
  BY <1>2, <1>3, <1>5 DEF RowInv
<1>8. KeyInv
  BY <1>2, <1>3, <1>5 DEF KeyInv
<1>9. cool \in [Rows -> BOOLEAN] /\ th \in [Threads -> Calls] /\ solo \in [Threads -> BOOLEAN] /\ raced \in BOOLEAN
  BY NoCallFacts DEF Init
<1>10. calls \in 0..MaxCalls /\ events \in 0..MaxEvents /\ faults \in 0..MaxFaults
  BY BoundsAssumption DEF Init
<1>11. TypeOK
  BY <1>1, <1>6, <1>9, <1>10 DEF TypeOK
<1>12. CallInv
  BY NoCallFacts DEF Init, CallInv
<1>13. SoloInv
  BY DEF Init, SoloInv
<1> QED
  BY <1>7, <1>8, <1>11, <1>12, <1>13 DEF IInv

\* A reset, a moved cable or playback leave the inventory alone.
LEMMA BoardEvent ==
  ASSUME IInv, Event, UNCHANGED <<row, raced>>, dev' \in [Devices -> Identities], link' \subseteq Devices
  PROVE  IInv'
<1>1. /\ events' \in 0..MaxEvents /\ calls' = calls /\ faults' = faults /\ cool' = cool /\ th' = th
      /\ solo' = [u \in Threads |-> FALSE]
  BY BoundsAssumption DEF Event, IInv, TypeOK
<1>2. CallInv' /\ SoloInv' /\ solo' \in [Threads -> BOOLEAN]
  BY <1>1, EventStep
<1>3. TypeOK'
  BY <1>1, <1>2 DEF IInv, TypeOK
<1>4. RowInv' /\ KeyInv'
  BY DEF IInv, RowInv, KeyInv
<1> QED
  BY <1>2, <1>3, <1>4 DEF IInv

LEMMA BoardEvents ==
  ASSUME IInv, replug \/ (\E d \in Devices : reset(d) \/ playback(d))
  PROVE  IInv'
<1>1. CASE replug
  BY <1>1, BoardEvent DEF replug, IInv, TypeOK
<1>2. CASE \E d \in Devices : reset(d)
  <2>1. PICK d \in Devices : reset(d)
    BY <1>2
  <2>2. dev' \in [Devices -> Identities]
    BY <2>1, Fresh DEF reset, IInv, TypeOK
  <2> QED
    BY <2>1, <2>2, BoardEvent DEF reset, IInv, TypeOK
<1>3. CASE \E d \in Devices : playback(d)
  <2>1. PICK d \in Devices : playback(d)
    BY <1>3
  <2>2. [dev[d] EXCEPT !.armed = ~dev[d].armed] \in Identities
    BY DEF IInv, TypeOK, Identities
  <2>3. dev' \in [Devices -> Identities]
    <3> DEFINE v == [dev[d] EXCEPT !.armed = ~dev[d].armed]
    <3>1. dev' = [dev EXCEPT ![d] = v]
      BY <2>1 DEF playback
    <3>2. v \in Identities
      BY <2>2
    <3> HIDE DEF v
    <3> QED
      BY <3>1, <3>2 DEF IInv, TypeOK
  <2> QED
    BY <2>1, <2>3, BoardEvent DEF playback, IInv, TypeOK
<1> QED
  BY <1>1, <1>2, <1>3

\* An administrator changes the inventory.
LEMMA Edits ==
  ASSUME IInv, NEW r \in Rows,
         update_board(r) \/ (\E ip \in AdminIps : set_network_config(r, ip))
  PROVE  IInv'
<1>1. PICK b \in BoardRows :
        /\ row' = [row EXCEPT ![r] = b]
        /\ b.enabled => b.known
        /\ row[r].known => b.known
        /\ b.known => b.desired \in Wants /\ b.mac \in Devices /\ b.uid \in Uids
        /\ ~raced' => /\ ~raced /\ b.uid = row[r].uid /\ b.mac = row[r].mac
                      /\ b.known = row[r].known /\ b.enabled = row[r].enabled
                      /\ b.desired = row[r].desired \/ b.desired \notin PoolIps
  <2>1. CASE update_board(r)
    <3> DEFINE b == [row[r] EXCEPT !.enabled = ~row[r].enabled]
    <3>1. row' = [row EXCEPT ![r] = b] /\ raced' /\ row[r].known
      BY <2>1 DEF update_board
    <3>2. b \in BoardRows /\ b.known = row[r].known /\ b.desired = row[r].desired /\ b.mac = row[r].mac /\ b.uid = row[r].uid
      BY DEF IInv, TypeOK, BoardRows
    <3> HIDE DEF b
    <3> QED
      BY <3>1, <3>2 DEF IInv, RowInv
  <2>2. CASE \E ip \in AdminIps : set_network_config(r, ip)
    <3>1. PICK ip \in AdminIps : set_network_config(r, ip)
      BY <2>2
    <3> DEFINE b == [row[r] EXCEPT !.desired = ip, !.status = "pending"]
    <3>2. row' = [row EXCEPT ![r] = b] /\ raced' = (raced \/ ip \in PoolIps) /\ row[r].enabled
      BY <3>1 DEF set_network_config, update_network_state
    <3>3. /\ b \in BoardRows /\ b.known = row[r].known /\ b.enabled = row[r].enabled
          /\ b.desired = ip /\ b.mac = row[r].mac /\ b.uid = row[r].uid
      BY Addresses, ZenonT(90) DEF IInv, TypeOK, BoardRows
    <3> HIDE DEF b
    <3> QED
      BY <3>2, <3>3, Addresses DEF IInv, RowInv
  <2> QED
    BY <2>1, <2>2
<1>2. /\ row' \in [Rows -> BoardRows] /\ RowInv' /\ row'[r] = b
      /\ \A s \in Rows \ {r} : row'[s] = row[s]
      /\ \A s \in Rows : row[s].known => row'[s].known
  BY <1>1, RowStep
<1>3. KeyInv'
  BY <1>1, <1>2, KeyStep DEF IInv
<1>4. /\ UNCHANGED <<dev, link, cool, th, calls, faults>> /\ solo' = [u \in Threads |-> FALSE]
      /\ events' \in 0..MaxEvents /\ raced' \in BOOLEAN /\ (raced => raced')
  <2>1. raced \in BOOLEAN /\ events \in 0..MaxEvents /\ MaxEvents \in Nat
    BY BoundsAssumption DEF IInv, TypeOK
  <2>2. /\ UNCHANGED <<dev, link, cool, th, calls, faults>> /\ solo' = [u \in Threads |-> FALSE]
        /\ events < MaxEvents /\ events' = events + 1
        /\ raced' = TRUE \/ (\E ip \in AdminIps : raced' = (raced \/ ip \in PoolIps))
    BY DEF update_board, set_network_config, Event
  <2>3. events' \in 0..MaxEvents
    BY <2>1, <2>2
  <2>4. raced' \in BOOLEAN /\ (raced => raced')
    BY <2>1, <2>2, Zenon
  <2> QED
    BY <2>2, <2>3, <2>4
<1>5. CallInv' /\ SoloInv' /\ solo' \in [Threads -> BOOLEAN]
  BY <1>2, <1>4, EventStep
<1>6. TypeOK'
  BY <1>2, <1>4, <1>5 DEF IInv, TypeOK
<1> QED
  BY <1>2, <1>3, <1>5, <1>6 DEF IInv

LEMMA CoolDown ==
  ASSUME IInv, NEW r \in Rows, cool_down(r)
  PROVE  IInv'
<1>1. UNCHANGED <<dev, link, row, th, faults, solo, raced, calls, events>> /\ cool' \in [Rows -> BOOLEAN]
  BY DEF cool_down, Quiet, IInv, TypeOK
<1> QED
  BY <1>1 DEF IInv, TypeOK, RowInv, CallInv, SoloInv, KeyInv, Alive

-----------------------------------------------------------------------------
(* The requests.                                                             *)

\* A lost packet is counted.
LEMMA FaultTypes ==
  ASSUME IInv, Lose \/ UNCHANGED faults
  PROVE  faults' \in 0..MaxFaults
BY BoundsAssumption DEF IInv, TypeOK, Lose

LEMMA SilentTypes ==
  ASSUME IInv, NEW a, Silent(a)
  PROVE  faults' \in 0..MaxFaults
BY FaultTypes DEF Silent

\* A request that begins well keeps the invariant.
LEMMA RequestStep ==
  ASSUME IInv, NEW t \in Threads, NEW k, Start(t, k), UNCHANGED <<dev, link, row, cool, raced>>,
         faults' \in 0..MaxFaults, CallKept(k, row, raced), SoloOK(k, dev, link, row, raced)
  PROVE  IInv'
<1>1. /\ th' \in [Threads -> Calls] /\ CallInv' /\ SoloInv'
      /\ solo' \in [Threads -> BOOLEAN] /\ calls' \in 0..MaxCalls /\ events' \in 0..MaxEvents
  BY StartStep
<1>2. TypeOK'
  BY <1>1 DEF IInv, TypeOK
<1>3. RowInv' /\ KeyInv'
  BY DEF IInv, RowInv, KeyInv
<1> QED
  BY <1>1, <1>2, <1>3 DEF IInv

LEMMA ScanBegins ==
  ASSUME IInv, NEW t \in Threads, scan_boards(t)
  PROVE  IInv'
<1>1. \E a \in ScanTargets, d \in link :
        /\ Lose \/ UNCHANGED faults
        /\ Start(t, [NoCall EXCEPT !.op = "scan", !.kind = "scan", !.pc = "allocate", !.d = d,
                                   !.to = a, !.want = dev[d].ip, !.mac = dev[d].mac])
        /\ UNCHANGED <<dev, link, row, cool, raced>>
  <2>1. \A a : Reach(a) \subseteq link
    BY DEF Reach
  <2>2. PICK a \in ScanTargets : \E d \in Reach(a) :
          /\ IF \E e \in ScanTargets : Rank(e) < Rank(a) /\ Reach(e) # {} THEN Lose ELSE UNCHANGED faults
          /\ Start(t, [NoCall EXCEPT !.op = "scan", !.kind = "scan", !.pc = "allocate", !.d = d,
                                     !.to = a, !.want = dev[d].ip, !.mac = dev[d].mac])
          /\ UNCHANGED <<dev, link, row, cool, raced>>
    BY DEF scan_boards
  <2> QED
    BY <2>1, <2>2
<1>2. PICK a \in ScanTargets, d \in link :
        /\ Lose \/ UNCHANGED faults
        /\ Start(t, [NoCall EXCEPT !.op = "scan", !.kind = "scan", !.pc = "allocate", !.d = d,
                                   !.to = a, !.want = dev[d].ip, !.mac = dev[d].mac])
        /\ UNCHANGED <<dev, link, row, cool, raced>>
  BY <1>1
<1>3. /\ d \in link /\ d \in Devices /\ dev[d].ip \in DevIps /\ dev[d].mac \in Devices
  BY DEF Reach, IInv, TypeOK, Identities
<1>4. a \in Ips
  <2>1. Known \subseteq Ips
    BY Addresses DEF Known, IInv, TypeOK, BoardRows
  <2>2. {discovery_targets_for_interface[i] : i \in 1..4} \subseteq Ips
    BY Addresses DEF discovery_targets_for_interface
  <2> QED
    BY <2>1, <2>2 DEF ScanTargets
<1> DEFINE ip == dev[d].ip
           mac == dev[d].mac
           k == [NoCall EXCEPT !.op = "scan", !.kind = "scan", !.pc = "allocate", !.d = d,
                               !.to = a, !.want = ip, !.mac = mac]
<1>5. ip \in DevIps /\ mac \in Devices /\ ip \in Ips /\ ip = dev[d].ip /\ mac = dev[d].mac
  BY <1>3, Addresses
<1>6. Start(t, k) /\ faults' \in 0..MaxFaults
  BY <1>2, FaultTypes
<1> HIDE DEF ip, mac
<1>7. /\ k \in Calls /\ k.op = "scan" /\ k.kind = "scan" /\ k.pc = "allocate" /\ k.d = d
      /\ k.want = ip /\ k.mac = mac
  BY <1>3, <1>4, <1>5, NoCallFacts DEF Calls
<1> HIDE DEF k
<1>8. CallKept(k, row, raced)
  BY <1>3, <1>5, <1>7 DEF CallKept, CallOK, OfRow
<1>9. SoloOK(k, dev, link, row, raced)
  BY <1>3, <1>5, <1>7 DEF SoloOK
<1> QED
  BY <1>2, <1>6, <1>8, <1>9, RequestStep

LEMMA ProvisionBegins ==
  ASSUME IInv, NEW t \in Threads, NEW d \in Devices, NEW ip \in PoolIps, NEW checked \in BOOLEAN,
         provision_board(t, d, ip, checked)
  PROVE  IInv'
<1> DEFINE to == dev[d].ip
           mac == dev[d].mac
           k == [NoCall EXCEPT !.op = "provision", !.kind = "provision", !.pc = "stage", !.d = d,
                               !.to = to, !.ip = ip, !.mac = mac]
<1>1. to \in Ips /\ mac \in Devices /\ ip \in Ips
  BY Addresses DEF IInv, TypeOK, Identities
<1>2. Start(t, k) /\ UNCHANGED <<dev, link, row, cool, raced, faults>> /\ d \in link
  BY DEF provision_board, discover_boards
<1>3. faults' \in 0..MaxFaults
  BY <1>2, FaultTypes
<1> HIDE DEF to, mac
<1>4. /\ k \in Calls /\ k.op = "provision" /\ k.kind = "provision" /\ k.pc = "stage" /\ k.d = d
      /\ k.ip = ip /\ k.mac = mac
  BY <1>1, NoCallFacts DEF Calls
<1> HIDE DEF k
<1>5. CallKept(k, row, raced)
  BY <1>1, <1>4 DEF CallKept, CallOK, OfRow, Working
<1>6. SoloOK(k, dev, link, row, raced)
  BY <1>2, <1>4 DEF SoloOK
<1> QED
  BY <1>2, <1>3, <1>5, <1>6, RequestStep

LEMMA GetBegins ==
  ASSUME IInv, NEW t \in Threads, NEW r \in Rows, get_network_config(t, r)
  PROVE  IInv'
<1>1. PICK d \in link :
        /\ network_get(r, d)
        /\ Start(t, [NoCall EXCEPT !.op = "get", !.kind = "get", !.pc = "commit", !.r = r,
                                   !.d = d, !.ip = dev[d].ip, !.mac = dev[d].mac])
        /\ UNCHANGED <<dev, link, row, cool, raced>> /\ row[r].enabled
  BY DEF get_network_config
<1> DEFINE ip == dev[d].ip
           mac == dev[d].mac
           k == [NoCall EXCEPT !.op = "get", !.kind = "get", !.pc = "commit", !.r = r,
                               !.d = d, !.ip = ip, !.mac = mac]
<1>2. /\ d \in Devices /\ ip \in DevIps /\ mac \in Devices /\ ip \in Ips /\ ip = dev[d].ip /\ mac = dev[d].mac
  BY Addresses DEF IInv, TypeOK, Identities
<1>3. faults' \in 0..MaxFaults
  BY <1>1, FaultTypes, SilentTypes DEF network_get
<1>4. Start(t, k) /\ row[r].known
  BY <1>1 DEF IInv, RowInv
<1> HIDE DEF ip, mac
<1>5. /\ k \in Calls /\ k.op = "get" /\ k.kind = "get" /\ k.pc = "commit" /\ k.d = d /\ k.r = r
      /\ k.ip = ip /\ k.mac = mac
  BY <1>2, NoCallFacts DEF Calls
<1> HIDE DEF k
<1>6. CallKept(k, row, raced)
  BY <1>2, <1>4, <1>5 DEF CallKept, CallOK
<1>7. SoloOK(k, dev, link, row, raced)
  BY <1>2, <1>5 DEF SoloOK, Has
<1> QED
  BY <1>1, <1>3, <1>4, <1>6, <1>7, RequestStep

Refreshing == {"refresh", "restart", "apply"}

\* A call that names no board names none when it goes on.
LEMMA SameBoard ==
  ASSUME NEW c \in Calls, c.d = NoDev, NEW pc
  PROVE  [c EXCEPT !.pc = pc] = [c EXCEPT !.pc = pc, !.d = NoDev]
BY DEF Calls

LEMMA RefreshBegins ==
  ASSUME IInv, NEW t \in Threads, NEW op \in Refreshing, NEW r \in Rows, NEW want \in Ips,
         op = "apply" => want \in AdminIps, refresh(t, op, r, want)
  PROVE  IInv'
<1> DEFINE b == row[r]
           to == b.active
           ip == b.desired
           mac == b.mac
           call == [NoCall EXCEPT !.op = op, !.kind = op, !.r = r, !.want = want,
                                  !.to = to, !.ip = ip, !.mac = mac]
<1>1. /\ b.known /\ to \in Ips /\ ip \in Wants /\ ip \in Ips /\ mac \in Devices /\ ip = row[r].desired
  <2>1. b \in BoardRows /\ b.enabled
    BY DEF refresh, IInv, TypeOK
  <2> QED
    BY <2>1, Addresses DEF IInv, RowInv, BoardRows, Ips
<1>2. /\ UNCHANGED <<dev, link, row, cool, raced>> /\ faults' \in 0..MaxFaults
      /\ \E pc \in {"mark", "uid", AfterRefresh(op)}, d \in link \cup {NoDev} :
           /\ pc = "uid" => d \in link
           /\ Start(t, [call EXCEPT !.pc = pc, !.d = d])
  <2>0. call \in Calls /\ call.d = NoDev
    <3> HIDE DEF to, ip, mac
    <3> QED
      BY <1>1, NoCallFacts DEF Calls, Refreshing, NoCall
  <2>1. UNCHANGED <<dev, link, row, cool, raced>>
    BY DEF refresh
  <2>2. CASE /\ UNCHANGED faults
             /\ Start(t, [call EXCEPT !.pc = IF b.active = b.desired /\ b.active \notin Reserved
                                                /\ b.status # "applied"
                                             THEN "mark" ELSE AfterRefresh(op)])
    <3> DEFINE pc == IF b.active = b.desired /\ b.active \notin Reserved /\ b.status # "applied"
                     THEN "mark" ELSE AfterRefresh(op)
    <3>1. pc \in {"mark", AfterRefresh(op)} /\ AfterRefresh(op) # "uid"
      BY DEF AfterRefresh
    <3>3. [call EXCEPT !.pc = pc] = [call EXCEPT !.pc = pc, !.d = NoDev]
      <4> HIDE DEF pc, call
      <4> QED
        BY <2>0, SameBoard
    <3>4. Start(t, [call EXCEPT !.pc = pc])
      BY <2>2
    <3>5. pc # "uid"
      BY <3>1
    <3> HIDE DEF pc, call
    <3> QED
      BY <2>1, <2>2, <3>1, <3>3, <3>4, <3>5, FaultTypes
  <2>3. CASE /\ IF b.active = Boot THEN UNCHANGED faults ELSE Silent(b.active)
             /\ \E d \in Reach(Boot) : Start(t, [call EXCEPT !.pc = "uid", !.d = d])
    <3>1. Reach(Boot) \subseteq link
      BY DEF Reach
    <3>2. faults' \in 0..MaxFaults
      BY <2>3, FaultTypes, SilentTypes
    <3> HIDE DEF call
    <3> QED
      BY <2>1, <2>3, <3>1, <3>2
  <2>4. CASE Silent(b.active) /\ Start(t, [call EXCEPT !.pc = AfterRefresh(op)])
    <3> DEFINE pc == AfterRefresh(op)
    <3>1. pc # "uid"
      BY DEF AfterRefresh
    <3>2. [call EXCEPT !.pc = pc] = [call EXCEPT !.pc = pc, !.d = NoDev]
      <4> HIDE DEF pc, call
      <4> QED
        BY <2>0, SameBoard
    <3>3. Start(t, [call EXCEPT !.pc = pc])
      BY <2>4
    <3> HIDE DEF call
    <3>4. faults' \in 0..MaxFaults
      BY <2>4, SilentTypes
    <3> QED
      BY <2>1, <3>1, <3>2, <3>3, <3>4
  <2> HIDE DEF call
  <2> QED
    BY <2>2, <2>3, <2>4 DEF refresh, call
<1>3. PICK pc \in {"mark", "uid", AfterRefresh(op)}, d \in link \cup {NoDev} :
        /\ pc = "uid" => d \in link
        /\ Start(t, [call EXCEPT !.pc = pc, !.d = d])
  BY <1>2
<1> DEFINE k == [call EXCEPT !.pc = pc, !.d = d]
<1>4. /\ pc \in {"mark", "uid"} \/ (op = "apply" /\ pc = "desire") \/ (op = "restart" /\ pc = "restart") \/ pc = "end"
      /\ d \in Devices \cup {NoDev} /\ (pc = "uid" => d \in Devices)
  BY <1>3 DEF AfterRefresh, Refreshing, IInv, TypeOK
<1> HIDE DEF to, ip, mac
<1>5. /\ k \in Calls /\ k.op = op /\ k.kind = op /\ k.pc = pc /\ k.d = d /\ k.r = r /\ k.want = want
      /\ k.ip = ip /\ k.mac = mac
  BY <1>1, <1>4, NoCallFacts, ZenonT(90) DEF Calls, Refreshing
<1> HIDE DEF k, b
<1>6. CallKept(k, row, raced)
  <2>1. row[r].known
    BY <1>1 DEF b
  <2> QED
    BY <1>1, <1>4, <1>5, <2>1 DEF CallKept, CallOK, Working, Refreshing
<1>7. SoloOK(k, dev, link, row, raced)
  BY <1>1, <1>4, <1>5 DEF SoloOK, Refreshing
<1> QED
  BY <1>2, <1>3, <1>6, <1>7, RequestStep DEF k

-----------------------------------------------------------------------------
(* The steps of an operation.                                                *)

\* What is known of a thread that works.
LEMMA Worker ==
  ASSUME IInv, NEW t \in Threads, Alive(t)
  PROVE  /\ th[t] \in Calls /\ CallOK(th[t]) /\ CallKept(th[t], row, raced)
         /\ OfRow(th[t]) => th[t].r \in Rows /\ row[th[t].r].known
         /\ solo[t] => SoloOK(th[t], dev, link, row, raced)
BY DEF IInv, CallInv, CallKept, CallOK, SoloInv, Alive

\* One board on the link is the only one.
LEMMA Single ==
  ASSUME IInv, NEW d \in link, ~(Cardinality(link) > 1)
  PROVE  link = {d} /\ Cardinality(link) = 1
<1>1. IsFiniteSet(link)
  BY DevicesAssumption, FS_Subset DEF IInv, TypeOK
<1>2. Cardinality(link) \in Nat /\ Cardinality(link) # 0
  BY <1>1, FS_CardinalityType, FS_EmptySet
<1>3. Cardinality(link) = 1
  BY <1>2
<1> QED
  BY <1>1, <1>3, FS_Singleton

\* What raced tells of a write: without it the writer was alone, with one board
\* on the link at most, and no row has changed its identity.
LEMMA WriteFacts ==
  ASSUME IInv, NEW t \in Threads, Write(t)
  PROVE  /\ raced' \in BOOLEAN /\ (raced => raced')
         /\ ~raced' => /\ ~raced /\ solo[t] /\ ~(Cardinality(link) > 1)
                       /\ \A r \in Rows : row[r].known => row'[r].uid = row[r].uid /\ row'[r].mac = row[r].mac
BY Zenon DEF Write, IInv, TypeOK

\* A thread writes a row.
LEMMA InventoryStep ==
  ASSUME IInv, NEW t \in Threads, Alive(t), NEW k, th' = [th EXCEPT ![t] = k],
         NEW r \in Rows, NEW b \in BoardRows, row' = [row EXCEPT ![r] = b],
         UNCHANGED <<dev, link, solo, netBounds>>, cool' \in [Rows -> BOOLEAN],
         raced' \in BOOLEAN, raced => raced',
         b.enabled = row[r].enabled, b.known = row[r].known,
         b.known => b.desired \in Wants /\ b.mac \in Devices /\ b.uid \in Uids,
         ~raced' => /\ b.uid = row[r].uid /\ b.mac = row[r].mac
                    /\ b.desired = row[r].desired \/ b.desired \notin PoolIps,
         CallKept(k, row', raced'),
         solo[t] /\ k.pc # "end" => SoloOK(k, dev, link, row', raced')
  PROVE  IInv'
<1>1. row[r].enabled => row[r].known
  BY DEF IInv, RowInv
<1>2. /\ row' \in [Rows -> BoardRows] /\ RowInv' /\ row'[r] = b
      /\ \A s \in Rows \ {r} : row'[s] = row[s]
      /\ \A s \in Rows : row[s].known => row'[s].known
  BY <1>1, RowStep
<1>3. KeyInv'
  BY <1>2, KeyStep DEF IInv
<1>4. dev' = dev /\ link' = link /\ solo' = solo
  OBVIOUS
<1>5. th' \in [Threads -> Calls] /\ CallInv' /\ SoloInv'
  BY <1>2, <1>4, MoveStep
<1>6. TypeOK'
  BY <1>2, <1>5 DEF IInv, TypeOK, netBounds
<1> QED
  BY <1>2, <1>3, <1>5, <1>6 DEF IInv

\* A thread makes a call on a board, or reads the inventory.
LEMMA BoardStep ==
  ASSUME IInv, NEW t \in Threads, Alive(t), NEW k, th' = [th EXCEPT ![t] = k],
         UNCHANGED <<link, row, cool, solo, calls, events>>,
         dev' \in [Devices -> Identities], faults' \in 0..MaxFaults,
         raced' \in BOOLEAN, raced => raced', CallKept(k, row, raced'),
         solo[t] /\ k.pc # "end" => SoloOK(k, dev', link, row, raced')
  PROVE  IInv'
<1>1. row' = row /\ link' = link /\ solo' = solo
  OBVIOUS
<1>2. th' \in [Threads -> Calls] /\ CallInv' /\ SoloInv'
  BY <1>1, MoveStep
<1>3. RowInv' /\ KeyInv'
  BY <1>1 DEF IInv, RowInv, KeyInv
<1>4. TypeOK'
  BY <1>2 DEF IInv, TypeOK
<1> QED
  BY <1>2, <1>3, <1>4 DEF IInv

\* A thread that ends.
LEMMA EndKept == \A rw, rc : CallKept(NoCall, rw, rc) /\ ~(NoCall.pc # "end")
BY NoCallFacts DEF CallKept

\* The step after the refresh at the start of an operation.
LEMMA AfterRefreshKept ==
  ASSUME IInv, NEW t \in Threads, Alive(t), th[t].pc \in {"mark", "uid"}, Goto(t, AfterRefresh(th[t].op)),
         \A s \in Rows : row[s].known => row'[s].known
  PROVE  \E k : /\ th' = [th EXCEPT ![t] = k] /\ CallKept(k, row', raced')
                /\ k.pc # "end" => SoloOK(k, dev, link, row', raced')
<1> DEFINE c == th[t]
           pc == AfterRefresh(c.op)
<1>1. c \in Calls /\ CallKept(c, row, raced) /\ (OfRow(c) => c.r \in Rows)
  BY Worker
<1>2. CASE pc = "end"
  <2>1. th' = [th EXCEPT ![t] = NoCall]
    BY <1>2 DEF Goto
  <2> QED
    BY <2>1, EndKept
<1>3. CASE pc # "end"
  <2> DEFINE k == [c EXCEPT !.pc = pc]
  <2>1. th' = [th EXCEPT ![t] = k]
    BY <1>3 DEF Goto
  <2>2. /\ pc \in Pcs /\ c.kind = c.op /\ OfRow(c)
        /\ (pc = "desire" /\ c.op = "apply") \/ (pc = "restart" /\ c.op = "restart")
    BY <1>1, <1>3 DEF AfterRefresh, Pcs, CallKept, CallOK, Working, OfRow
  <2> HIDE DEF pc
  <2>3. k \in Calls /\ k.pc = pc /\ Alike(k, c)
    BY <1>1, <2>2, GotoFacts
  <2> HIDE DEF k, c
  <2>4. CallKept(k, row', raced')
    BY <1>1, <2>2, <2>3 DEF CallKept, CallOK, Working, OfRow, Alike, c, Alive
  <2>5. SoloOK(k, dev, link, row', raced')
    BY <2>2, <2>3 DEF SoloOK, Alike
  <2> QED
    BY <2>1, <2>4, <2>5
<1> QED
  BY <1>2, <1>3

LEMMA MarkStep ==
  ASSUME IInv, NEW t \in Threads, refresh_mark(t)
  PROVE  IInv'
<1> DEFINE c == th[t]
           r == c.r
           b == [row[r] EXCEPT !.status = "applied"]
<1>1. Alive(t) /\ c.pc = "mark" /\ Write(t) /\ UNCHANGED <<dev, link, cool, solo, netBounds>>
  BY DEF refresh_mark, At, Alive
<1>2. OfRow(c) /\ r \in Rows /\ row[r].known
  BY <1>1, Worker DEF CallOK, OfRow, Working
<1>3. row' = [row EXCEPT ![r] = b]
  BY DEF refresh_mark, update_network_state
<1>4. /\ row[r] \in BoardRows /\ b \in BoardRows /\ b.known = row[r].known /\ b.enabled = row[r].enabled
      /\ b.uid = row[r].uid /\ b.mac = row[r].mac /\ b.desired = row[r].desired
  BY <1>2, ZenonT(60) DEF IInv, TypeOK, BoardRows
<1> HIDE DEF b
<1>5. raced' \in BOOLEAN /\ (raced => raced') /\ cool' \in [Rows -> BOOLEAN]
  BY <1>1, WriteFacts DEF IInv, TypeOK
<1>6. \A s \in Rows : row[s].known => row'[s].known
  BY <1>2, <1>3, <1>4 DEF IInv, TypeOK
<1>7. PICK k : /\ th' = [th EXCEPT ![t] = k] /\ CallKept(k, row', raced')
               /\ k.pc # "end" => SoloOK(k, dev, link, row', raced')
  BY <1>1, <1>6, AfterRefreshKept DEF refresh_mark
<1>8. row[r].desired \in Wants /\ row[r].mac \in Devices /\ row[r].uid \in Uids
  BY <1>2 DEF IInv, RowInv
<1> QED
  BY <1>1, <1>2, <1>3, <1>4, <1>5, <1>7, <1>8, InventoryStep

LEMMA BootstrapStep ==
  ASSUME IInv, NEW t \in Threads, refresh_bootstrap(t)
  PROVE  IInv'
<1> DEFINE c == th[t]
           r == c.r
           uid == UidOf[c.d]
           b == [row[r] EXCEPT !.uid = uid]
<1>1. Alive(t) /\ c.pc = "uid" /\ Write(t) /\ UNCHANGED <<dev, link, solo, netBounds>>
  BY DEF refresh_bootstrap, At, Alive
<1>2. OfRow(c) /\ r \in Rows /\ row[r].known /\ c.d \in Devices /\ uid \in Uids
  BY <1>1, Worker DEF CallOK, OfRow, Working, Uids
<1>3. row' = [row EXCEPT ![r] = b]
  BY DEF refresh_bootstrap, update_network_state
<1>4. /\ b \in BoardRows /\ b.known = row[r].known /\ b.enabled = row[r].enabled
      /\ b.uid = uid /\ b.mac = row[r].mac /\ b.desired = row[r].desired
  <2> HIDE DEF uid
  <2> QED
    BY <1>2, ZenonT(60) DEF IInv, TypeOK, BoardRows, Uids
<1> HIDE DEF b
<1>5. /\ raced' \in BOOLEAN /\ (raced => raced')
      /\ ~raced' => b.uid = row[r].uid
  <2>1. row'[r] = b
    BY <1>2, <1>3 DEF IInv, TypeOK
  <2> QED
    BY <1>1, <1>2, <2>1, WriteFacts
<1>6. \A s \in Rows : row[s].known => row'[s].known
  BY <1>2, <1>3, <1>4 DEF IInv, TypeOK
<1>7. cool' \in [Rows -> BOOLEAN]
  BY DEF refresh_bootstrap, IInv, TypeOK
<1>8. PICK k : /\ th' = [th EXCEPT ![t] = k] /\ CallKept(k, row', raced')
               /\ solo[t] /\ k.pc # "end" => SoloOK(k, dev, link, row', raced')
  <2>1. CASE Goto(t, AfterRefresh(c.op))
    BY <1>1, <1>6, <2>1, AfterRefreshKept
  <2>2. CASE th' = [th EXCEPT ![t].pc = "pend", ![t].kind = "recover", ![t].to = Boot]
    <3> DEFINE k == [c EXCEPT !.pc = "pend", !.kind = "recover", !.to = Boot]
    <3>1. c \in Calls /\ CallOK(c) /\ (solo[t] => SoloOK(c, dev, link, row, raced))
      BY <1>1, Worker
    <3>2. th' = [th EXCEPT ![t] = k]
      BY <2>2, <3>1 DEF IInv, TypeOK
    <3>3. /\ k \in Calls /\ k.pc = "pend" /\ k.kind = "recover" /\ k.op = c.op /\ k.r = r /\ k.d = c.d
          /\ k.ip = c.ip /\ k.mac = c.mac /\ k.want = c.want
      BY <3>1, Addresses DEF Calls
    <3> HIDE DEF k
    <3>4. CallKept(k, row', raced')
      <4>1. c.op \in Refreshing /\ c.ip \in Wants /\ c.mac \in Devices /\ (c.op = "apply" => c.want \in AdminIps)
        BY <1>1, <1>2, <3>1 DEF CallOK, OfRow, Refreshing, Calls
      <4> QED
        BY <1>2, <1>6, <3>3, <4>1 DEF CallKept, CallOK, OfRow, Refreshing
    <3>5. solo[t] => SoloOK(k, dev, link, row', raced')
      <4>1. row'[r].desired = row[r].desired
        BY <1>2, <1>3, <1>4 DEF IInv, TypeOK
      <4> QED
        BY <1>1, <3>1, <3>3, <4>1 DEF SoloOK
    <3> QED
      BY <3>2, <3>4, <3>5
  <2> QED
    BY <2>1, <2>2 DEF refresh_bootstrap
<1>9. row[r].desired \in Wants /\ row[r].mac \in Devices
  BY <1>2 DEF IInv, RowInv
<1> QED
  BY <1>1, <1>2, <1>3, <1>4, <1>5, <1>7, <1>8, <1>9, InventoryStep

LEMMA RecoverStep ==
  ASSUME IInv, NEW t \in Threads, _recover_network_identity(t)
  PROVE  IInv'
<1> DEFINE c == th[t]
           r == c.r
           ip == c.ip
           b == [row[r] EXCEPT !.desired = ip, !.status = "pending"]
           k == [c EXCEPT !.pc = "stage"]
<1>1. Alive(t) /\ c.pc = "pend" /\ Write(t) /\ UNCHANGED <<dev, link, cool, solo, netBounds>>
  BY DEF _recover_network_identity, At, Alive
<1>2. /\ c \in Calls /\ CallKept(c, row, raced) /\ (solo[t] => SoloOK(c, dev, link, row, raced))
      /\ OfRow(c) /\ r \in Rows /\ row[r].known /\ c.kind = "recover" /\ ip \in Wants
  <2>1. c \in Calls /\ CallOK(c)
    BY <1>1, Worker
  <2>2. c.kind = "recover"
    BY <1>1, <2>1 DEF CallOK, Calls, Working
  <2>3. OfRow(c) /\ ip \in Wants
    BY <1>1, <2>1, <2>2 DEF CallOK, OfRow
  <2> QED
    BY <1>1, <2>1, <2>2, <2>3, Worker
<1>3. row' = [row EXCEPT ![r] = b] /\ th' = [th EXCEPT ![t] = k]
  BY DEF _recover_network_identity, update_network_state, Goto
<1>4. /\ b \in BoardRows /\ b.known = row[r].known /\ b.enabled = row[r].enabled
      /\ b.uid = row[r].uid /\ b.mac = row[r].mac /\ b.desired = ip
  <2> HIDE DEF ip
  <2> QED
    BY <1>2, Addresses, ZenonT(90) DEF IInv, TypeOK, BoardRows
<1> HIDE DEF b
<1>5. raced' \in BOOLEAN /\ (raced => raced') /\ (~raced' => solo[t])
  BY <1>1, WriteFacts
<1>6. ~raced' => b.desired = row[r].desired
  BY <1>1, <1>2, <1>4, <1>5 DEF SoloOK
<1>7. k \in Calls /\ k.pc = "stage" /\ Alike(k, c)
  BY <1>2, GotoFacts DEF Pcs
<1> HIDE DEF k
<1>8. CallKept(k, row', raced')
  <2>1. row'[r].known
    BY <1>2, <1>3, <1>4 DEF IInv, TypeOK
  <2> QED
    BY <1>1, <1>2, <1>7, <2>1 DEF CallKept, CallOK, OfRow, Working, Alike
<1>9. SoloOK(k, dev, link, row', raced')
  BY <1>2, <1>7 DEF SoloOK, Alike
<1>10. row[r].desired \in Wants /\ row[r].mac \in Devices /\ row[r].uid \in Uids /\ cool' \in [Rows -> BOOLEAN]
  BY <1>1, <1>2 DEF IInv, RowInv, TypeOK
<1> QED
  BY <1>1, <1>2, <1>3, <1>4, <1>5, <1>6, <1>8, <1>9, <1>10, InventoryStep

LEMMA ApplyStep ==
  ASSUME IInv, NEW t \in Threads, apply_network_config(t)
  PROVE  IInv'
<1> DEFINE c == th[t]
           r == c.r
           want == c.want
           to == row[r].active
<1>1. Alive(t) /\ c.pc = "desire" /\ UNCHANGED <<dev, link, cool, solo, netBounds>>
  BY DEF apply_network_config, At, Alive
<1>2. /\ c \in Calls /\ CallKept(c, row, raced)
      /\ OfRow(c) /\ r \in Rows /\ row[r].known /\ c.kind = "apply" /\ c.op = "apply" /\ want \in AdminIps
  <2>1. c \in Calls /\ CallOK(c)
    BY <1>1, Worker
  <2>2. c.kind = "apply"
    BY <1>1, <2>1 DEF CallOK, Calls, Working
  <2>3. OfRow(c) /\ c.op = "apply" /\ want \in AdminIps
    BY <1>1, <2>1, <2>2 DEF CallOK, OfRow
  <2> QED
    BY <1>1, <2>1, <2>2, <2>3, Worker
<1>3. cool' \in [Rows -> BOOLEAN] /\ faults' \in 0..MaxFaults /\ raced \in BOOLEAN
  BY <1>1 DEF IInv, TypeOK, netBounds
<1>4. CASE /\ update_network_state(r, [row[r] EXCEPT !.desired = want, !.status = "pending"])
           /\ th' = [th EXCEPT ![t].pc = "stage", ![t].kind = "apply", ![t].ip = want, ![t].to = to]
           /\ raced' = (raced \/ ~solo[t] \/ Cardinality(link) > 1 \/ want \in PoolIps)
  <2> DEFINE b == [row[r] EXCEPT !.desired = want, !.status = "pending"]
             k == [c EXCEPT !.pc = "stage", !.kind = "apply", !.ip = want, !.to = to]
  <2>1. row' = [row EXCEPT ![r] = b] /\ th' = [th EXCEPT ![t] = k]
    BY <1>2, <1>4 DEF update_network_state, IInv, TypeOK
  <2>2. to \in Ips
    BY <1>2, Addresses DEF IInv, TypeOK, BoardRows
  <2> HIDE DEF want, to
  <2>3. /\ b \in BoardRows /\ b.known = row[r].known /\ b.enabled = row[r].enabled
        /\ b.uid = row[r].uid /\ b.mac = row[r].mac /\ b.desired = want
    BY <1>2, Addresses, ZenonT(90) DEF IInv, TypeOK, BoardRows
  <2>4. raced' \in BOOLEAN /\ (raced => raced') /\ (want \in PoolIps => raced')
    BY <1>3, <1>4, Zenon
  <2>5. /\ k \in Calls /\ k.pc = "stage" /\ k.kind = "apply" /\ k.op = "apply" /\ k.r = r /\ k.mac = c.mac
        /\ k.ip = want /\ k.want = want
    <3>1. c.want = want
      BY DEF want
    <3> QED
      BY <1>2, <2>2, <3>1, Addresses DEF Calls
  <2> HIDE DEF b, k
  <2>6. row'[r].known
    BY <1>2, <2>1, <2>3 DEF IInv, TypeOK
  <2>7. c.mac \in Devices /\ want \in Wants
    BY <1>1, <1>2, Addresses DEF CallKept, CallOK
  <2>8. CallKept(k, row', raced')
    BY <1>2, <2>4, <2>5, <2>6, <2>7 DEF CallKept, CallOK, OfRow, Working
  <2>9. SoloOK(k, dev, link, row', raced')
    BY <2>5 DEF SoloOK
  <2>10. row[r].desired \in Wants /\ row[r].mac \in Devices /\ row[r].uid \in Uids
    BY <1>2 DEF IInv, RowInv
  <2> QED
    BY <1>1, <1>2, <1>3, <2>1, <2>3, <2>4, <2>7, <2>8, <2>9, <2>10, InventoryStep
<1>5. CASE Goto(t, "end") /\ UNCHANGED <<row, raced>>
  <2>1. th' = [th EXCEPT ![t] = NoCall]
    BY <1>5 DEF Goto
  <2> QED
    BY <1>1, <1>3, <1>5, <2>1, EndKept, BoardStep DEF netBounds, IInv, TypeOK
<1> QED
  BY <1>4, <1>5 DEF apply_network_config

\* The address a scan gives away is one of the pool, and unless raced tells of
\* it, no other board of the inventory wants it.
LEMMA Allocated ==
  ASSUME IInv, NEW uid, NEW mac, NEW r \in Latest(uid, mac), NEW ip \in allocated_ip_for_discovery(r)
  PROVE  ip \in PoolIps /\ (raced \/ Adopted(uid, mac) \/ Free(row, ip, uid, mac))
<1>1. CASE r \in Rows /\ ip \in Kept(row[r])
  <2>1. r \in Keyed(uid, mac) /\ row[r].known /\ Same(row[r], uid, mac)
    BY <1>1, DevicesAssumption DEF Latest, Keyed, Same
  <2>2. CASE row[r].desired \in PoolIps
    <3>1. ip = row[r].desired
      BY <1>1, <2>2 DEF Kept
    <3>2. raced \/ Free(row, ip, uid, mac)
      BY <1>1, <2>1, <2>2, <3>1 DEF Free, Same, IInv, KeyInv
    <3> QED
      BY <2>2, <3>1, <3>2
  <2>3. CASE row[r].desired \notin PoolIps
    BY <1>1, <2>1, <2>3 DEF Adopted, Kept
  <2> QED
    BY <2>2, <2>3
<1>2. CASE ip \in {Pool[k] : k \in FirstFree}
  <2>1. PICK k \in 1..Len(Pool) : ip = Pool[k] /\ ip \notin Used
    BY <1>2 DEF FirstFree
  <2>2. ~raced => Free(row, ip, uid, mac)
    BY <2>1 DEF Free, Used, IInv, KeyInv
  <2> QED
    BY <2>1, <2>2 DEF PoolIps
<1> QED
  BY <1>1, <1>2 DEF allocated_ip_for_discovery

LEMMA AllocateStep ==
  ASSUME IInv, NEW t \in Threads, scan_allocate(t)
  PROVE  IInv'
<1> DEFINE c == th[t]
<1>1. /\ Alive(t) /\ c.pc = "allocate" /\ UNCHANGED <<dev, link, row, cool, solo, netBounds>>
      /\ raced' = (raced \/ Adopted(UidOf[c.d], c.mac))
  BY DEF scan_allocate, At, Alive
<1>2. /\ c \in Calls /\ CallKept(c, row, raced) /\ (solo[t] => SoloOK(c, dev, link, row, raced))
      /\ c.kind = "scan" /\ c.op = "scan" /\ c.d \in Devices /\ c.mac \in Devices /\ c.want \in DevIps
  <2>1. c \in Calls /\ CallOK(c)
    BY <1>1, Worker
  <2>2. c.kind = "scan"
    BY <1>1, <2>1 DEF CallOK, Calls, Working
  <2>3. c.op = "scan" /\ c.d \in Devices /\ c.mac \in Devices /\ c.want \in DevIps
    BY <1>1, <2>1, <2>2 DEF CallOK
  <2> QED
    BY <1>1, <2>1, <2>2, <2>3, Worker
<1>3. /\ dev' \in [Devices -> Identities] /\ faults' \in 0..MaxFaults
      /\ UNCHANGED <<link, row, cool, solo, calls, events>>
  BY <1>1 DEF IInv, TypeOK, netBounds
<1>4. raced' \in BOOLEAN /\ (raced => raced')
  <2>1. raced \in BOOLEAN
    BY DEF IInv, TypeOK
  <2> QED
    BY <1>1, <2>1, Zenon
<1>5. CASE Goto(t, "end")
  <2>1. th' = [th EXCEPT ![t] = NoCall]
    BY <1>5 DEF Goto
  <2> QED
    BY <1>1, <1>3, <1>4, <2>1, EndKept, BoardStep
<1>6. CASE \E r \in Latest(UidOf[c.d], c.mac) : \E ip \in allocated_ip_for_discovery(r) :
             th' = [th EXCEPT ![t].pc = IF c.want = ip THEN "commit" ELSE "stage", ![t].ip = ip]
  <2>10. PICK r \in Latest(UidOf[c.d], c.mac) : \E ip \in allocated_ip_for_discovery(r) :
               th' = [th EXCEPT ![t].pc = IF c.want = ip THEN "commit" ELSE "stage", ![t].ip = ip]
    BY <1>6
  <2>1. PICK ip \in allocated_ip_for_discovery(r) :
               th' = [th EXCEPT ![t].pc = IF c.want = ip THEN "commit" ELSE "stage", ![t].ip = ip]
    BY <2>10
  <2> DEFINE pc == IF c.want = ip THEN "commit" ELSE "stage"
             k == [c EXCEPT !.pc = pc, !.ip = ip]
  <2>2. th' = [th EXCEPT ![t] = k]
    BY <2>1 DEF IInv, TypeOK
  <2>3. ip \in PoolIps /\ (raced \/ Adopted(UidOf[c.d], c.mac) \/ Free(row, ip, UidOf[c.d], c.mac))
    BY Allocated
  <2>4. ip \in Ips
    BY <2>3, Addresses
  <2>5. ~raced' => Free(row, ip, UidOf[c.d], c.mac)
    BY <1>1, <2>3, Zenon
  <2>6. pc \in {"commit", "stage"} /\ (pc = "commit" => c.want = ip)
    OBVIOUS
  <2> HIDE DEF pc
  <2>7. /\ k \in Calls /\ k.pc = pc /\ k.ip = ip /\ k.kind = "scan" /\ k.op = "scan" /\ k.d = c.d
        /\ k.mac = c.mac /\ k.want = c.want
    BY <1>2, <2>4, <2>6 DEF Calls
  <2> HIDE DEF k
  <2>8. CallKept(k, row, raced')
    BY <1>2, <2>3, <2>6, <2>7 DEF CallKept, CallOK, OfRow, Working
  <2>9. solo[t] => SoloOK(k, dev, link, row, raced')
    <3> SUFFICES ASSUME solo[t] PROVE SoloOK(k, dev, link, row, raced')
      OBVIOUS
    <3>1. c.d \in link /\ dev[c.d].ip = c.want /\ dev[c.d].mac = c.mac
      BY <1>1, <1>2 DEF SoloOK
    <3>2. pc = "commit" => Has(k, dev, link)
      BY <2>6, <2>7, <3>1 DEF Has
    <3> QED
      BY <2>5, <2>6, <2>7, <3>1, <3>2 DEF SoloOK
  <2> QED
    BY <1>1, <1>3, <1>4, <2>2, <2>8, <2>9, BoardStep
<1> QED
  BY <1>5, <1>6 DEF scan_allocate

-----------------------------------------------------------------------------
(* The calls on the board.                                                   *)

Calling == {"stage", "restart", "confirm"}

\* The address and the MAC that are given are ones a board may have.
LEMMA Given ==
  ASSUME NEW c, CallOK(c), c.pc \in Calling
  PROVE  /\ c \in Calls /\ c.ip \in Wants /\ c.ip \in DevIps /\ c.mac \in Devices
         /\ c.kind \in {"scan", "provision", "recover", "apply", "restart"}
<1>1. c \in Calls /\ c.mac \in Devices /\ c.kind \notin {"none", "get", "refresh"}
  BY DEF CallOK, Calling
<1>2. c.kind \in {"scan", "provision", "recover", "apply", "restart"}
  BY <1>1 DEF Calls
<1>3. c.kind \in {"scan", "provision"} => c.ip \in PoolIps
  BY DEF CallOK, Calling
<1>4. c.kind \notin {"scan", "provision"} => c.ip \in Wants
  BY <1>1 DEF CallOK, Calling
<1> QED
  BY <1>1, <1>2, <1>3, <1>4, Addresses

\* The call of a thread that goes on to its next call on the board, or has failed.
LEMMA OnwardKept ==
  ASSUME NEW c, NEW k \in Calls, NEW rw, NEW rc, CallKept(c, rw, rc), c.pc \in Calling,
         k.pc \in {"restart", "confirm", "failed"}, k.op = c.op, k.kind = c.kind, k.r = c.r,
         k.d = c.d, k.want = c.want, k.ip = c.ip, k.mac = c.mac
  PROVE  CallKept(k, rw, rc)
BY DEF CallKept, CallOK, OfRow, Working, Calling

\* A step of a thread that calls a board.
LEMMA CallStep ==
  ASSUME IInv, NEW t \in Threads, th[t].pc \in Calling, NEW k \in Calls, th' = [th EXCEPT ![t] = k],
         UNCHANGED <<link, row, cool>>, Quiet, dev' \in [Devices -> Identities], faults' \in 0..MaxFaults,
         k.pc \in {"restart", "confirm", "failed"}, k.op = th[t].op, k.kind = th[t].kind, k.r = th[t].r,
         k.d = th[t].d, k.want = th[t].want, k.ip = th[t].ip, k.mac = th[t].mac,
         solo[t] /\ k.kind = "scan" /\ link = {k.d} =>
           /\ k.pc = "restart" => dev'[k.d].shadow = <<k.ip, k.mac>>
           /\ k.pc = "confirm" => dev'[k.d].mac = k.mac
  PROVE  IInv'
<1> DEFINE c == th[t]
<1>1. /\ Alive(t) /\ CallKept(c, row, raced) /\ (solo[t] => SoloOK(c, dev, link, row, raced))
      /\ UNCHANGED <<link, row, cool, solo, calls, events>> /\ raced' = raced /\ raced \in BOOLEAN
  BY Worker DEF Alive, Calling, Quiet, IInv, TypeOK
<1>2. CallKept(k, row, raced')
  BY <1>1, OnwardKept
<1>3. solo[t] => SoloOK(k, dev', link, row, raced')
  BY <1>1 DEF SoloOK, Calling
<1> QED
  BY <1>1, <1>2, <1>3, BoardStep

\* The call of a thread whose call on the board was refused or lost.
LEMMA FailStep ==
  ASSUME IInv, NEW t \in Threads, th[t].pc \in Calling, Goto(t, "failed"),
         UNCHANGED <<link, row, cool>>, Quiet, dev' \in [Devices -> Identities], faults' \in 0..MaxFaults
  PROVE  IInv'
<1> DEFINE c == th[t]
           k == [c EXCEPT !.pc = "failed"]
<1>1. c \in Calls
  BY DEF IInv, TypeOK
<1>2. th' = [th EXCEPT ![t] = k]
  BY DEF Goto
<1>3. k \in Calls /\ k.pc = "failed" /\ Alike(k, c)
  BY <1>1, GotoFacts DEF Pcs
<1> HIDE DEF k
<1> QED
  BY <1>2, <1>3, CallStep DEF Alike

\* APPLY: the boards that take it stage the identity of the call.
LEMMA StageStep ==
  ASSUME IInv, NEW t \in Threads, network_apply(t)
  PROVE  IInv'
<1> DEFINE c == th[t]
           ip == c.ip
           mac == c.mac
<1>1. /\ Alive(t) /\ c.pc = "stage" /\ c.pc \in Calling /\ UNCHANGED <<link, row, cool>> /\ Quiet
  BY DEF network_apply, At, Alive, Calling
<1>2. /\ c \in Calls /\ CallKept(c, row, raced) /\ (solo[t] => SoloOK(c, dev, link, row, raced))
      /\ ip \in DevIps /\ mac \in Devices /\ dev \in [Devices -> Identities] /\ link \subseteq Devices
  BY <1>1, Worker, Given DEF IInv, TypeOK
<1>3. \A a : Reach(a) \subseteq link
  BY DEF Reach
<1>4. ASSUME NEW d \in Reach(c.to), ~dev[d].armed,
             dev' = [e \in Devices |-> IF e \in Receivers(t, d) /\ ~dev[e].armed
                                       THEN [dev[e] EXCEPT !.shadow = <<ip, mac>>] ELSE dev[e]],
             (Goto(t, "restart") /\ UNCHANGED faults) \/ (Goto(t, "failed") /\ Lose)
      PROVE  IInv'
  <2>1. dev' \in [Devices -> Identities] /\ faults' \in 0..MaxFaults
    <3>1. \A e \in Devices : [dev[e] EXCEPT !.shadow = <<ip, mac>>] \in Identities
      <4> HIDE DEF ip, mac
      <4> QED
        BY <1>2 DEF Identities
    <3>2. faults' \in 0..MaxFaults
      BY <1>4, FaultTypes
    <3> QED
      BY <1>2, <1>4, <3>1, <3>2
  <2>2. CASE Goto(t, "failed")
    BY <1>1, <2>1, <2>2, FailStep
  <2>3. CASE Goto(t, "restart")
    <3> DEFINE k == [c EXCEPT !.pc = "restart"]
    <3>1. th' = [th EXCEPT ![t] = k]
      BY <2>3 DEF Goto
    <3>2. k \in Calls /\ k.pc = "restart" /\ Alike(k, c)
      BY <1>2, GotoFacts DEF Pcs
    <3> HIDE DEF k
    <3>3. link = {c.d} => dev'[c.d].shadow = <<c.ip, c.mac>>
      <4> SUFFICES ASSUME link = {c.d} PROVE dev'[c.d].shadow = <<c.ip, c.mac>>
        OBVIOUS
      <4>1. d = c.d /\ d \in Devices /\ d \in Receivers(t, d)
        BY <1>2, <1>3 DEF Receivers
      <4>2. dev'[d] = [dev[d] EXCEPT !.shadow = <<ip, mac>>]
        BY <1>4, <4>1
      <4> QED
        BY <1>2, <4>1, <4>2 DEF Identities
    <3> QED
      BY <1>1, <2>1, <3>1, <3>2, <3>3, CallStep DEF Alike
  <2> QED
    BY <1>4, <2>2, <2>3
<1>5. ASSUME NEW d \in Reach(c.to), _network_apply_with_recovery(t, d), UNCHANGED faults
      PROVE  IInv'
  <2>1. faults' \in 0..MaxFaults /\ d \in Devices
    BY <1>2, <1>3, <1>5, FaultTypes
  <2>2. CASE c.kind = "provision"
    <3>1. dev' = [dev EXCEPT ![d].armed = FALSE] /\ th' = th
      BY <1>5, <2>2 DEF _network_apply_with_recovery
    <3>2. [dev[d] EXCEPT !.armed = FALSE] \in Identities
      <4>1. dev[d] \in Identities
        BY <1>2, <2>1
      <4> QED
        BY <4>1 DEF Identities
    <3>3. dev' \in [Devices -> Identities]
      <4> DEFINE v == [dev[d] EXCEPT !.armed = FALSE]
      <4>1. dev' = [dev EXCEPT ![d] = v] /\ v \in Identities
        BY <3>1, <3>2
      <4> HIDE DEF v
      <4> QED
        BY <1>2, <4>1
    <3>4. th' = [th EXCEPT ![t] = c]
      BY <3>1 DEF IInv, TypeOK
    <3>5. raced' = raced /\ raced \in BOOLEAN /\ UNCHANGED <<link, row, cool, solo, calls, events>>
      BY <1>1 DEF Quiet, IInv, TypeOK
    <3>6. solo[t] => SoloOK(c, dev', link, row, raced')
      BY <1>1, <1>2, <2>2 DEF SoloOK
    <3> QED
      BY <1>1, <1>2, <2>1, <3>3, <3>4, <3>5, <3>6, BoardStep
  <2>3. CASE c.kind # "provision"
    BY <1>1, <1>2, <1>5, <2>1, <2>3, FailStep DEF _network_apply_with_recovery
  <2> QED
    BY <2>2, <2>3
<1>6. CASE Silent(c.to) /\ Goto(t, "failed") /\ UNCHANGED dev
  BY <1>1, <1>2, <1>6, SilentTypes, FailStep
<1> QED
  BY <1>4, <1>5, <1>6 DEF network_apply

\* RESTART: what is staged becomes the identity.
LEMMA CommittedTypes ==
  ASSUME IInv, NEW d \in Devices
  PROVE  Committed(d) \in Identities
<1>1. dev[d] \in Identities
  BY DEF IInv, TypeOK
<1>2. CASE dev[d].shadow = <<>>
  BY <1>1, <1>2 DEF Committed
<1>3. CASE dev[d].shadow # <<>>
  <2> DEFINE ip == dev[d].shadow[1]
             mac == dev[d].shadow[2]
  <2>1. dev[d].shadow \in DevIps \X Devices
    BY <1>1, <1>3 DEF Identities
  <2>2. ip \in DevIps /\ mac \in Devices
    BY <2>1
  <2>3. Committed(d) = [dev[d] EXCEPT !.ip = ip, !.mac = mac, !.shadow = <<>>]
    BY <1>3 DEF Committed
  <2> HIDE DEF ip, mac
  <2> QED
    BY <1>1, <2>2, <2>3 DEF Identities
<1> QED
  BY <1>2, <1>3

\* A board that has staged an identity has its MAC after RESTART.
LEMMA CommittedMac ==
  ASSUME IInv, NEW d \in Devices, NEW ip \in DevIps, NEW mac \in Devices, dev[d].shadow = <<ip, mac>>
  PROVE  Committed(d).mac = mac
<1>1. dev[d] \in Identities /\ <<ip, mac>> # <<>>
  BY DEF IInv, TypeOK
<1>2. Committed(d) = [dev[d] EXCEPT !.ip = ip, !.mac = mac, !.shadow = <<>>]
  BY <1>1 DEF Committed
<1> QED
  BY <1>1, <1>2 DEF Identities

LEMMA RestartStep ==
  ASSUME IInv, NEW t \in Threads, network_restart(t)
  PROVE  IInv'
<1> DEFINE c == th[t]
           a == RestartTarget(t)
<1>1. /\ Alive(t) /\ c.pc = "restart" /\ c.pc \in Calling /\ UNCHANGED <<link, row, cool>> /\ Quiet
  BY DEF network_restart, At, Alive, Calling
<1>2. /\ c \in Calls /\ CallOK(c) /\ (solo[t] => SoloOK(c, dev, link, row, raced))
      /\ c.ip \in DevIps /\ c.mac \in Devices /\ dev \in [Devices -> Identities] /\ link \subseteq Devices
  BY <1>1, Worker, Given DEF IInv, TypeOK
<1>3. Reach(a) \subseteq link
  BY DEF Reach
<1>4. ASSUME NEW d \in Reach(a),
             dev' = [e \in Devices |-> IF e \in Receivers(t, d) THEN Committed(e) ELSE dev[e]],
             \/ Goto(t, IF dev[d].shadow # <<>> THEN "confirm" ELSE "failed") /\ UNCHANGED faults
             \/ Goto(t, "failed") /\ Lose
      PROVE  IInv'
  <2>1. dev' \in [Devices -> Identities] /\ faults' \in 0..MaxFaults
    BY <1>2, <1>4, CommittedTypes, FaultTypes
  <2>2. CASE Goto(t, "failed")
    BY <1>1, <2>1, <2>2, FailStep
  <2>3. CASE Goto(t, "confirm")
    <3> DEFINE k == [c EXCEPT !.pc = "confirm"]
    <3>1. th' = [th EXCEPT ![t] = k]
      BY <2>3 DEF Goto
    <3>2. k \in Calls /\ k.pc = "confirm" /\ Alike(k, c)
      BY <1>2, GotoFacts DEF Pcs
    <3> HIDE DEF k
    <3>3. solo[t] /\ c.kind = "scan" /\ link = {c.d} => dev'[c.d].mac = c.mac
      <4> SUFFICES ASSUME solo[t], c.kind = "scan", link = {c.d} PROVE dev'[c.d].mac = c.mac
        OBVIOUS
      <4>1. d = c.d /\ d \in Devices /\ d \in Receivers(t, d)
        BY <1>2, <1>3 DEF Receivers
      <4>2. dev[d].shadow = <<c.ip, c.mac>>
        BY <1>1, <1>2, <4>1 DEF SoloOK
      <4>3. Committed(d).mac = c.mac
        BY <1>2, <4>1, <4>2, CommittedMac
      <4> QED
        BY <1>4, <4>1, <4>3
    <3> QED
      BY <1>1, <2>1, <3>1, <3>2, <3>3, CallStep DEF Alike
  <2> QED
    BY <1>4, <2>2, <2>3
<1>5. CASE Silent(a) /\ Goto(t, "failed") /\ UNCHANGED dev
  BY <1>1, <1>2, <1>5, SilentTypes, FailStep
<1> QED
  BY <1>4, <1>5 DEF network_restart

\* NETWORK_GET at the new address: a board answers that has it.
LEMMA ConfirmStep ==
  ASSUME IInv, NEW t \in Threads, network_confirm(t)
  PROVE  IInv'
<1> DEFINE c == th[t]
           a == ConfirmTarget(t)
<1>1. /\ Alive(t) /\ c.pc = "confirm" /\ c.pc \in Calling /\ UNCHANGED <<link, row, cool>> /\ Quiet
  BY DEF network_confirm, At, Alive, Calling
<1>2. /\ c \in Calls /\ CallOK(c) /\ CallKept(c, row, raced) /\ (solo[t] => SoloOK(c, dev, link, row, raced))
      /\ c.ip \in Wants /\ c.mac \in Devices /\ dev \in [Devices -> Identities] /\ link \subseteq Devices
  BY <1>1, Worker, Given DEF IInv, TypeOK
<1>3. a \in Wants /\ a \in Ips /\ a # Bcast
  <2>1. a \in Wants
    BY <1>2, Worker, <1>1 DEF ConfirmTarget, IInv, RowInv, OfRow
  <2> QED
    BY <2>1, Addresses
<1>4. faults' \in 0..MaxFaults /\ UNCHANGED <<link, row, cool, solo, calls, events>> /\ raced' = raced /\ raced \in BOOLEAN
  BY <1>1, FaultTypes DEF network_confirm, Quiet, IInv, TypeOK
<1>5. CASE Goto(t, "failed")
  <2>1. dev' = dev
    BY DEF network_confirm
  <2> QED
    BY <1>1, <1>2, <1>4, <1>5, <2>1, FailStep
<1>6. ASSUME NEW d \in Reach(a), verified(t, d),
             th' = [th EXCEPT ![t].pc = "commit", ![t].ip = a, ![t].mac = dev[d].mac,
                              ![t].d = IF c.kind \in {"scan", "provision"} THEN @ ELSE d]
      PROVE  IInv'
  <2> DEFINE mac == dev[d].mac
             e == IF c.kind \in {"scan", "provision"} THEN c.d ELSE d
             k == [c EXCEPT !.pc = "commit", !.ip = a, !.mac = mac, !.d = e]
  <2>1. th' = [th EXCEPT ![t] = k]
    BY <1>6 DEF IInv, TypeOK
  <2>2. /\ d \in link /\ d \in Devices /\ dev[d].ip = a /\ mac \in Devices
        /\ e \in Devices /\ (c.kind \in {"scan", "provision"} => e = c.d)
        /\ (c.kind \notin {"scan", "provision"} => e = d)
    BY <1>1, <1>2, <1>3, <1>6 DEF Reach, Identities, CallOK, Working
  <2>3. c.kind \in {"scan", "provision"} => a = c.ip
    BY DEF ConfirmTarget
  <2> HIDE DEF mac, e, a
  <2>4. /\ k \in Calls /\ k.pc = "commit" /\ k.op = c.op /\ k.kind = c.kind /\ k.r = c.r /\ k.d = e
        /\ k.want = c.want /\ k.ip = a /\ k.mac = mac
    BY <1>2, <1>3, <2>2 DEF Calls
  <2> HIDE DEF k
  <2>5. CallKept(k, row, raced)
    BY <1>1, <1>2, <1>3, <2>2, <2>3, <2>4 DEF CallKept, CallOK, OfRow, Working
  <2>6. solo[t] => SoloOK(k, dev, link, row, raced)
    <3> SUFFICES ASSUME solo[t] PROVE SoloOK(k, dev, link, row, raced)
      OBVIOUS
    <3>1. SoloOK(c, dev, link, row, raced)
      BY <1>2
    <3>2. Cardinality(link) = 1 => d = k.d
      <4> SUFFICES ASSUME Cardinality(link) = 1, c.kind \in {"scan", "provision"} PROVE d = c.d
        BY <2>2, <2>4
      <4>1. link = {d}
        BY <2>2, Single
      <4>2. c.d \in link
        BY <3>1 DEF SoloOK
      <4> QED
        BY <4>1, <4>2
    <3>3. Cardinality(link) = 1 => Has(k, dev, link)
      BY <2>2, <2>4, <3>2 DEF Has, mac
    <3>4. c.kind = "scan" /\ link = {c.d} => mac = c.mac
      BY <1>1, <2>2, <3>1 DEF SoloOK, mac
    <3> QED
      BY <1>1, <2>2, <2>3, <2>4, <3>1, <3>3, <3>4 DEF SoloOK
  <2>7. dev' = dev
    BY DEF network_confirm
  <2> QED
    BY <1>1, <1>2, <1>4, <2>1, <2>5, <2>6, <2>7, BoardStep
<1> QED
  BY <1>5, <1>6 DEF network_confirm

-----------------------------------------------------------------------------
(* The answer is written.                                                    *)

Ending == {"commit", "failed"}

\* An operation that ends, or goes on after a recovery.
LEMMA ResumeKept ==
  ASSUME IInv, NEW t \in Threads, th[t].pc \in Ending, Resume(t),
         \A s \in Rows : row[s].known => row'[s].known
  PROVE  \E k : /\ th' = [th EXCEPT ![t] = k] /\ CallKept(k, row', raced')
                /\ k.pc # "end" => SoloOK(k, dev, link, row', raced')
<1> DEFINE c == th[t]
           op == c.op
           pc == AfterRefresh(op)
<1>1. c \in Calls /\ CallOK(c) /\ CallKept(c, row, raced) /\ (OfRow(c) => c.r \in Rows)
  BY Worker DEF Alive, Ending
<1>2. CASE Goto(t, "end")
  <2>1. th' = [th EXCEPT ![t] = NoCall]
    BY <1>2 DEF Goto
  <2> QED
    BY <2>1, EndKept
<1>3. CASE /\ c.kind = "recover" /\ pc # "end"
           /\ th' = [th EXCEPT ![t].pc = pc, ![t].kind = op]
  <2> DEFINE k == [c EXCEPT !.pc = pc, !.kind = op]
  <2>1. th' = [th EXCEPT ![t] = k]
    BY <1>3 DEF IInv, TypeOK
  <2>2. /\ OfRow(c) /\ c.ip \in Wants /\ c.mac \in Devices /\ (op = "apply" => c.want \in AdminIps)
        /\ pc \in Pcs /\ ((op = "apply" /\ pc = "desire") \/ (op = "restart" /\ pc = "restart"))
    BY <1>1, <1>3 DEF CallOK, OfRow, Ending, AfterRefresh, Pcs
  <2> HIDE DEF pc
  <2>3. /\ k \in Calls /\ k.pc = pc /\ k.op = op /\ k.kind = op /\ k.r = c.r /\ k.d = c.d
        /\ k.want = c.want /\ k.ip = c.ip /\ k.mac = c.mac
    <3>1. op \in {"apply", "restart"} /\ op = c.op
      BY <2>2
    <3> HIDE DEF op
    <3> QED
      BY <1>1, <2>2, <3>1 DEF Calls, Pcs
  <2> HIDE DEF k
  <2>4. CallKept(k, row', raced')
    <3>1. row'[c.r].known
      BY <1>1, <2>2 DEF CallKept, Ending
    <3> QED
      BY <1>1, <2>2, <2>3, <3>1 DEF CallKept, CallOK, Working, OfRow
  <2>5. SoloOK(k, dev, link, row', raced')
    BY <2>2, <2>3 DEF SoloOK
  <2> QED
    BY <2>1, <2>4, <2>5
<1> QED
  BY <1>2, <1>3 DEF Resume

\* The scan's row is the only one of its board; unless raced tells of it, the
\* address is wanted by no other.
LEMMA UpsertFacts ==
  ASSUME IInv, NEW uid \in Uids, NEW mac \in Devices, NEW b \in BoardRows,
         upsert_discovered_board(uid, mac, b), b.known, b.enabled, Same(b, uid, mac), b.desired \in Wants,
         raced => raced', ~raced' => Free(row, b.desired, uid, mac)
  PROVE  /\ row' \in [Rows -> BoardRows] /\ RowInv' /\ KeyInv'
         /\ \A s \in Rows : row[s].known => row'[s].known
<1> DEFINE same == Keyed(uid, mac)
           best == IF \E r \in same : row[r].enabled THEN {r \in same : row[r].enabled} ELSE same
           new == {r \in Rows : ~row[r].known}
           first == IF new = {} THEN {} ELSE {CHOOSE n \in new : TRUE}
<1>1. PICK r \in IF same # {} THEN best ELSE first :
        row' = [s \in Rows |-> IF s = r THEN b
                               ELSE IF s \in same THEN [row[s] EXCEPT !.enabled = FALSE]
                               ELSE row[s]]
  BY DEF upsert_discovered_board
<1>2. same = {s \in Rows : row[s].known /\ Same(row[s], uid, mac)}
  BY DEF Keyed, Same
<1>3. r \in Rows /\ (same # {} => r \in same)
  <2>1. CASE same # {}
    BY <1>2, <2>1
  <2>2. CASE same = {}
    BY <2>2
  <2> QED
    BY <2>1, <2>2
<1> HIDE DEF same
<1>4. row \in [Rows -> BoardRows]
  BY DEF IInv, TypeOK
<1>5. \A s \in Rows : LET e == [row[s] EXCEPT !.enabled = FALSE] IN
        /\ e \in BoardRows /\ ~e.enabled /\ e.known = row[s].known /\ e.desired = row[s].desired
        /\ e.mac = row[s].mac /\ e.uid = row[s].uid
  BY <1>4 DEF BoardRows
<1>6. row' \in [Rows -> BoardRows]
  BY <1>1, <1>4, <1>5
<1>7. /\ row'[r] = b
      /\ \A s \in Rows \ {r} :
           /\ row'[s].known = row[s].known /\ row'[s].desired = row[s].desired
           /\ row'[s].mac = row[s].mac /\ row'[s].uid = row[s].uid
           /\ row'[s].enabled => row[s].enabled
           /\ s \notin same => row'[s] = row[s]
  BY <1>1, <1>3, <1>5
<1>8. RowInv'
  BY <1>7 DEF RowInv, IInv, Same, Uids
<1>9. KeyInv'
  <2> SUFFICES ASSUME ~raced' PROVE KeyInv'
    BY DEF KeyInv
  <2>1. /\ KeyInv /\ ~raced /\ Free(row, b.desired, uid, mac)
    BY DEF IInv
  <2>2. \A s \in Rows \ {r} : row[s].known => s \notin same /\ row'[s] = row[s] /\ ~Same(row[s], uid, mac)
                                              /\ row[s].desired # b.desired
    <3> SUFFICES ASSUME NEW s \in Rows \ {r}, row[s].known
                 PROVE  s \notin same /\ row'[s] = row[s] /\ ~Same(row[s], uid, mac) /\ row[s].desired # b.desired
      OBVIOUS
    <3>1. s \notin same
      BY <1>2, <1>3, <2>1 DEF KeyInv, Same
    <3> QED
      BY <1>2, <1>7, <2>1, <3>1 DEF Free
  <2>3. \A s \in Rows : row'[s].known => row'[s].enabled
    BY <1>7, <2>1, <2>2 DEF KeyInv
  <2>4. ASSUME NEW s \in Rows, NEW u \in Rows, s # u, row'[s].known, row'[u].known
        PROVE  /\ ~Same(row'[s], row'[u].uid, row'[u].mac)
               /\ row'[s].desired \in PoolIps => row'[s].desired # row'[u].desired
    <3>1. CASE s = r
      BY <1>7, <2>2, <2>4, <3>1 DEF Same
    <3>2. CASE u = r
      BY <1>7, <2>2, <2>4, <3>2 DEF Same
    <3>3. CASE s # r /\ u # r
      BY <1>7, <2>1, <2>2, <2>4, <3>3 DEF KeyInv
    <3> QED
      BY <3>1, <3>2, <3>3
  <2> QED
    BY <2>3, <2>4 DEF KeyInv
<1> QED
  BY <1>6, <1>7, <1>8, <1>9

\* A scan writes what it found.
LEMMA UpsertStep ==
  ASSUME IInv, NEW t \in Threads, th[t].pc \in Ending, th[t].kind = "scan", Write(t), Resume(t),
         NEW ip \in DevIps, NEW status \in {"applied", "failed"},
         upsert_discovered_board(UidOf[th[t].d], th[t].mac, Found(t, ip, status)),
         UNCHANGED <<dev, link, cool, solo, netBounds>>
  PROVE  IInv'
<1> DEFINE c == th[t]
           uid == UidOf[c.d]
           b == Found(t, ip, status)
<1>1. Alive(t)
  BY DEF Alive, Ending
<1>2. /\ c \in Calls /\ (solo[t] => SoloOK(c, dev, link, row, raced))
      /\ c.d \in Devices /\ c.mac \in Devices /\ c.ip \in PoolIps /\ uid \in Uids
  BY <1>1, Worker DEF CallOK, Ending, Uids
<1>3. /\ b \in BoardRows /\ b.known /\ b.enabled /\ Same(b, uid, c.mac) /\ b.desired \in Wants
      /\ b.desired = c.ip
  BY <1>2, Addresses DEF Found, BoardRows, Same, Uids
<1>4. raced' \in BOOLEAN /\ (raced => raced')
  BY WriteFacts
<1>5. ~raced' => Free(row, c.ip, uid, c.mac)
  <2> SUFFICES ASSUME ~raced' PROVE Free(row, c.ip, uid, c.mac)
    OBVIOUS
  <2>1. ~raced /\ solo[t] /\ ~(Cardinality(link) > 1)
    BY WriteFacts
  <2>2. c.d \in link
    BY <1>2, <2>1 DEF SoloOK
  <2>3. link = {c.d}
    BY <2>1, <2>2, Single
  <2> QED
    BY <1>2, <2>1, <2>3 DEF SoloOK, Ending
<1> HIDE DEF b, uid
<1>6. /\ row' \in [Rows -> BoardRows] /\ RowInv' /\ KeyInv'
      /\ \A s \in Rows : row[s].known => row'[s].known
  <2>1. upsert_discovered_board(uid, c.mac, b)
    BY DEF b, uid
  <2> HIDE DEF c
  <2> QED
    BY <1>2, <1>3, <1>4, <1>5, <2>1, UpsertFacts
<1>7. PICK k : /\ th' = [th EXCEPT ![t] = k] /\ CallKept(k, row', raced')
               /\ k.pc # "end" => SoloOK(k, dev, link, row', raced')
  BY <1>6, ResumeKept
<1>8. dev' = dev /\ link' = link /\ solo' = solo
  OBVIOUS
<1>9. th' \in [Threads -> Calls] /\ CallInv' /\ SoloInv'
  BY <1>1, <1>4, <1>6, <1>7, <1>8, MoveStep
<1>10. TypeOK'
  BY <1>4, <1>6, <1>9 DEF IInv, TypeOK, netBounds
<1> QED
  BY <1>6, <1>9, <1>10 DEF IInv

LEMMA CommitStep ==
  ASSUME IInv, NEW t \in Threads, commit(t)
  PROVE  IInv'
<1> DEFINE c == th[t]
           r == c.r
<1>1. /\ Alive(t) /\ c.pc = "commit" /\ c.pc \in Ending /\ Resume(t) /\ UNCHANGED <<dev, link, cool, solo, netBounds>>
  BY DEF commit, At, Alive, Ending
<1>2. /\ c \in Calls /\ CallOK(c) /\ CallKept(c, row, raced) /\ (solo[t] => SoloOK(c, dev, link, row, raced))
      /\ c.d \in Devices /\ c.mac \in Devices /\ c.kind \notin {"none", "refresh"}
  BY <1>1, Worker DEF CallOK
<1>3. c.ip \in DevIps
  <2>1. c.kind \in {"scan", "provision"} => c.ip \in PoolIps
    BY <1>1, <1>2 DEF CallOK
  <2>2. c.kind = "get" => c.ip \in DevIps
    BY <1>1, <1>2 DEF CallOK
  <2>3. c.kind \notin {"scan", "provision", "get"} => c.ip \in Wants
    BY <1>1, <1>2 DEF CallOK
  <2> QED
    BY <2>1, <2>2, <2>3, Addresses
<1>4. cool' \in [Rows -> BOOLEAN] /\ dev' \in [Devices -> Identities] /\ faults' \in 0..MaxFaults
      /\ UNCHANGED <<calls, events>>
  BY <1>1 DEF IInv, TypeOK, netBounds
<1>5. CASE c.kind = "scan"
  <2>1. upsert_discovered_board(UidOf[c.d], c.mac, Found(t, c.ip, "applied")) /\ Write(t)
    BY <1>5 DEF commit
  <2> QED
    BY <1>1, <1>3, <1>5, <2>1, UpsertStep
<1>6. CASE c.kind = "provision"
  <2>1. row' = row /\ raced' = raced /\ raced \in BOOLEAN
    BY <1>6 DEF commit, IInv, TypeOK
  <2>2. PICK k : /\ th' = [th EXCEPT ![t] = k] /\ CallKept(k, row', raced')
                 /\ k.pc # "end" => SoloOK(k, dev, link, row', raced')
    BY <1>1, <2>1, ResumeKept
  <2>3. dev' = dev
    BY <1>1
  <2> QED
    BY <1>1, <1>4, <2>1, <2>2, <2>3, BoardStep
<1>7. CASE c.kind \notin {"scan", "provision"}
  <2> DEFINE want == IF c.kind = "apply" THEN c.want ELSE row[r].desired
             ip == c.ip
             mac == c.mac
             uid == UidOf[c.d]
             b == [row[r] EXCEPT !.active = ip, !.mac = mac, !.uid = uid, !.status = "applied",
                                 !.desired = want]
  <2>1. Write(t) /\ row' = [row EXCEPT ![r] = b]
    BY <1>7 DEF commit, update_network_state
  <2>2. /\ OfRow(c) /\ r \in Rows /\ row[r].known /\ row[r] \in BoardRows
        /\ row[r].desired \in Wants /\ row[r].mac \in Devices /\ row[r].uid \in Uids
    BY <1>1, <1>7, Worker DEF OfRow, IInv, TypeOK, RowInv
  <2>3. want \in Wants /\ (want = row[r].desired \/ want \notin PoolIps \/ raced)
    <3>1. c.kind = "apply" => c.want \in AdminIps
      BY <1>1, <1>2 DEF CallOK
    <3>2. c.kind = "apply" /\ c.want \in PoolIps => raced
      BY <1>1, <1>2 DEF CallKept, Working
    <3> QED
      BY <2>2, <3>1, <3>2, Addresses
  <2>4. ip \in DevIps /\ mac \in Devices /\ uid \in Uids /\ want \in Ips
    BY <1>2, <1>3, <2>3, Addresses DEF Uids
  <2> HIDE DEF want, ip, mac, uid
  <2>5. /\ b \in BoardRows /\ b.known = row[r].known /\ b.enabled = row[r].enabled
        /\ b.uid = uid /\ b.mac = mac /\ b.desired = want
    BY <2>2, <2>4 DEF BoardRows, Uids
  <2> HIDE DEF b
  <2>6. row'[r] = b /\ \A s \in Rows : row[s].known => row'[s].known
    BY <2>1, <2>2, <2>5 DEF IInv, TypeOK
  <2>7. raced' \in BOOLEAN /\ (raced => raced')
    BY <2>1, WriteFacts
  <2>8. ~raced' => b.uid = row[r].uid /\ b.mac = row[r].mac /\ (b.desired = row[r].desired \/ b.desired \notin PoolIps)
    BY <2>1, <2>2, <2>3, <2>5, <2>6, WriteFacts
  <2>9. PICK k : /\ th' = [th EXCEPT ![t] = k] /\ CallKept(k, row', raced')
                 /\ k.pc # "end" => SoloOK(k, dev, link, row', raced')
    BY <1>1, <2>6, ResumeKept
  <2> QED
    BY <1>1, <1>4, <2>1, <2>2, <2>3, <2>4, <2>5, <2>7, <2>8, <2>9, InventoryStep
<1> QED
  BY <1>5, <1>6, <1>7

LEMMA FailedStep ==
  ASSUME IInv, NEW t \in Threads, failed(t)
  PROVE  IInv'
<1> DEFINE c == th[t]
           r == c.r
<1>1. /\ Alive(t) /\ c.pc = "failed" /\ c.pc \in Ending /\ Resume(t) /\ Write(t)
      /\ UNCHANGED <<dev, link, cool, solo, netBounds>>
  BY DEF failed, At, Alive, Ending
<1>2. c \in Calls /\ CallOK(c) /\ raced' \in BOOLEAN /\ (raced => raced')
  BY <1>1, Worker, WriteFacts
<1>3. cool' \in [Rows -> BOOLEAN] /\ dev' \in [Devices -> Identities] /\ faults' \in 0..MaxFaults
      /\ UNCHANGED <<calls, events>>
  BY <1>1 DEF IInv, TypeOK, netBounds
<1>4. CASE c.kind = "scan"
  <2>1. upsert_discovered_board(UidOf[c.d], c.mac, Found(t, c.want, "failed"))
    BY <1>4 DEF failed
  <2>2. c.want \in DevIps
    BY <1>1, <1>2, <1>4 DEF CallOK
  <2> QED
    BY <1>1, <1>4, <2>1, <2>2, UpsertStep
<1>5. CASE c.kind # "scan" /\ UNCHANGED row
  <2>1. PICK k : /\ th' = [th EXCEPT ![t] = k] /\ CallKept(k, row', raced')
                 /\ k.pc # "end" => SoloOK(k, dev, link, row', raced')
    BY <1>1, <1>5, ResumeKept
  <2>2. dev' = dev /\ row' = row
    BY <1>1, <1>5
  <2> QED
    BY <1>1, <1>2, <1>3, <2>1, <2>2, BoardStep
<1>6. CASE /\ c.kind \in {"recover", "apply"}
           /\ update_network_state(r, [row[r] EXCEPT !.status = "failed"])
  <2> DEFINE b == [row[r] EXCEPT !.status = "failed"]
  <2>1. row' = [row EXCEPT ![r] = b]
    BY <1>6 DEF update_network_state
  <2>2. /\ r \in Rows /\ row[r].known /\ row[r] \in BoardRows
        /\ row[r].desired \in Wants /\ row[r].mac \in Devices /\ row[r].uid \in Uids
    BY <1>1, <1>6, Worker DEF OfRow, IInv, TypeOK, RowInv
  <2>3. /\ b \in BoardRows /\ b.known = row[r].known /\ b.enabled = row[r].enabled
        /\ b.uid = row[r].uid /\ b.mac = row[r].mac /\ b.desired = row[r].desired
    BY <2>2 DEF BoardRows
  <2> HIDE DEF b
  <2>4. \A s \in Rows : row[s].known => row'[s].known
    BY <2>1, <2>2, <2>3 DEF IInv, TypeOK
  <2>5. PICK k : /\ th' = [th EXCEPT ![t] = k] /\ CallKept(k, row', raced')
                 /\ k.pc # "end" => SoloOK(k, dev, link, row', raced')
    BY <1>1, <2>4, ResumeKept
  <2> QED
    BY <1>1, <1>2, <1>3, <2>1, <2>2, <2>3, <2>5, InventoryStep
<1> QED
  BY <1>4, <1>5, <1>6 DEF failed

-----------------------------------------------------------------------------
(* The specification.                                                        *)

LEMMA StepHolds ==
  ASSUME IInv, NEW t \in Threads, Step(t)
  PROVE  IInv'
BY MarkStep, BootstrapStep, RecoverStep, AllocateStep, ApplyStep, StageStep, RestartStep, ConfirmStep,
   CommitStep, FailedStep DEF Step

LEMMA RequestHolds ==
  ASSUME IInv, NEW t \in Threads, Request(t)
  PROVE  IInv'
<1>1. CASE scan_boards(t)
  BY <1>1, ScanBegins
<1>2. CASE \E r \in Rows : \/ refresh(t, "refresh", r, Boot)
                           \/ refresh(t, "restart", r, Boot)
                           \/ \E ip \in AdminIps : refresh(t, "apply", r, ip)
                           \/ get_network_config(t, r)
  BY <1>2, RefreshBegins, GetBegins, Addresses DEF Refreshing
<1>3. CASE \E d \in Devices, ip \in PoolIps, checked \in BOOLEAN : provision_board(t, d, ip, checked)
  BY <1>3, ProvisionBegins
<1> QED
  BY <1>1, <1>2, <1>3 DEF Request

LEMMA NextHolds == IInv /\ [Next]_netVars => IInv'
<1> SUFFICES ASSUME IInv, [Next]_netVars PROVE IInv'
  OBVIOUS
<1>1. CASE \E t \in Threads : Step(t) \/ Request(t)
  BY <1>1, StepHolds, RequestHolds
<1>2. CASE \E r \in Rows : cool_down(r) \/ update_board(r) \/ \E ip \in AdminIps : set_network_config(r, ip)
  BY <1>2, CoolDown, Edits
<1>3. CASE replug \/ \E d \in Devices : reset(d) \/ playback(d)
  BY <1>3, BoardEvents
<1>4. CASE UNCHANGED netVars
  BY <1>4 DEF netVars, netBounds, IInv, TypeOK, RowInv, CallInv, SoloInv, KeyInv, Alive
<1> QED
  BY <1>1, <1>2, <1>3, <1>4 DEF Next

\* The inductive invariant holds in every reachable state.
THEOREM InvariantHolds == Spec => []IInv
BY InitHolds, NextHolds, PTL DEF Spec

\* Boards, rows and calls keep their types (webapp/management.py, RFCTRL2).
THEOREM TypeSafe == Spec => []TypeOK
<1>1. IInv => TypeOK
  BY DEF IInv
<1> QED
  BY <1>1, InvariantHolds, PTL

\* Unless raced tells of it, no two boards of the inventory are meant to have
\* the same address of the pool (allocated_ip_for_discovery).
THEOREM DistinctSafe == Spec => []DistinctIps
<1>1. IInv => DistinctIps
  BY DEF IInv, KeyInv, RowInv, DistinctIps
<1> QED
  BY <1>1, InvariantHolds, PTL

\* An operation that was alone, with one board on the link, is about to write
\* "applied" for the address and the MAC that the board has.
THEOREM AppliedSafe == Spec => []AppliedIsTrue
<1>1. IInv => AppliedIsTrue
  BY DEF IInv, SoloInv, SoloOK, Has, AppliedIsTrue, At, Alive
<1> QED
  BY <1>1, InvariantHolds, PTL

\* A step of a thread leaves the calls of the others alone.
LEMMA OthersStay ==
  ASSUME NEW t \in Threads, Step(t) \/ Request(t), NEW u \in Threads, u # t, th \in [Threads -> Calls]
  PROVE  th'[u] = th[u]
<1> DEFINE Other == th'[u] = th[u]
<1>1. \A pc : Goto(t, pc) => Other
  BY DEF Goto
<1>2. Resume(t) => Other
  BY <1>1 DEF Resume
<1>3. \A k : Start(t, k) => Other
  BY DEF Start
<1>4. CASE Step(t)
  <2>1. CASE refresh_mark(t) \/ _recover_network_identity(t)
    BY <1>1, <2>1 DEF refresh_mark, _recover_network_identity
  <2>2. CASE refresh_bootstrap(t)
    BY <1>1, <2>2 DEF refresh_bootstrap
  <2>3. CASE scan_allocate(t)
    BY <1>1, <2>3 DEF scan_allocate
  <2>4. CASE apply_network_config(t)
    BY <1>1, <2>4 DEF apply_network_config
  <2>5. CASE network_apply(t)
    BY <1>1, <2>5 DEF network_apply, _network_apply_with_recovery
  <2>6. CASE network_restart(t)
    BY <1>1, <2>6 DEF network_restart
  <2>7. CASE network_confirm(t)
    BY <1>1, <2>7 DEF network_confirm
  <2>8. CASE commit(t) \/ failed(t)
    BY <1>2, <2>8 DEF commit, failed
  <2> QED
    BY <1>4, <2>1, <2>2, <2>3, <2>4, <2>5, <2>6, <2>7, <2>8 DEF Step
<1>5. CASE Request(t)
  <2>1. \A r, op, want : refresh(t, op, r, want) => Other
    BY <1>3, ZenonT(90) DEF refresh
  <2>2. scan_boards(t) => Other
    BY <1>3 DEF scan_boards
  <2>3. \A r : get_network_config(t, r) => Other
    BY <1>3 DEF get_network_config
  <2>4. \A d, ip, checked : provision_board(t, d, ip, checked) => Other
    BY <1>3 DEF provision_board
  <2> HIDE DEF Other
  <2>5. Other
    BY <1>5, <2>1, <2>2, <2>3, <2>4 DEF Request
  <2> QED
    BY <2>5 DEF Other
<1> QED
  BY <1>4, <1>5

\* Only network_confirm takes a thread from "confirm" to "commit".
LEMMA Confirmed ==
  ASSUME IInv, Next, NEW t \in Threads, At(t, "confirm"), th'[t].pc = "commit"
  PROVE  network_confirm(t)
<1>1. th \in [Threads -> Calls] /\ th[t].pc = "confirm" /\ th'[t] # th[t]
  BY DEF IInv, TypeOK, At
<1>2. CASE \E u \in Threads : Step(u) \/ Request(u)
  <2>1. Step(t) \/ Request(t)
    BY <1>1, <1>2, OthersStay
  <2>2. ~Request(t)
    BY <1>1 DEF Request, refresh, scan_boards, get_network_config, provision_board, Start, Alive
  <2>3. Step(t)
    BY <2>1, <2>2
  <2> QED
    BY <1>1, <2>3 DEF Step, At, refresh_mark, refresh_bootstrap, _recover_network_identity, scan_allocate,
                       apply_network_config, network_apply, network_restart, commit, failed
<1>3. CASE \E r \in Rows : cool_down(r) \/ update_board(r) \/ \E ip \in AdminIps : set_network_config(r, ip)
  BY <1>1, <1>3 DEF cool_down, update_board, set_network_config, Event
<1>4. CASE replug \/ \E d \in Devices : reset(d) \/ playback(d)
  BY <1>1, <1>4 DEF replug, reset, playback, Event
<1> QED
  BY <1>2, <1>3, <1>4 DEF Next

\* Where device_uid tells the boards apart (dr47/network.py:405-406 says that
\* old DNA revisions may share one), provision_board reports success only when the
\* board that was discovered has the address.
THEOREM OwnSafe ==
  ASSUME \A d, e \in Devices : UidOf[d] = UidOf[e] => d = e
  PROVE  Spec => VerifiedMeansOwn
<1> DEFINE Own == \A t \in Threads :
                    (th[t].kind = "provision" /\ At(t, "confirm") /\ th'[t].pc = "commit")
                       => dev[th[t].d].ip = th[t].ip
<1>1. ASSUME IInv, [Next]_netVars PROVE [Own]_netVars
  <2> SUFFICES ASSUME Next PROVE Own
    BY <1>1
  <2> SUFFICES ASSUME NEW t \in Threads, th[t].kind = "provision", At(t, "confirm"), th'[t].pc = "commit"
               PROVE  dev[th[t].d].ip = th[t].ip
    OBVIOUS
  <2> DEFINE c == th[t]
  <2>1. network_confirm(t)
    BY <1>1, Confirmed
  <2>2. CallOK(c) /\ c.pc = "confirm" /\ ConfirmTarget(t) = c.ip /\ th \in [Threads -> Calls]
    BY <1>1 DEF IInv, CallInv, At, ConfirmTarget, TypeOK
  <2>3. c.ip \in PoolIps /\ c.d \in Devices /\ c.ip # Bcast
    BY <2>2, Addresses DEF CallOK
  <2>4. ~Goto(t, "failed")
    <3>1. Goto(t, "failed") => th'[t].pc = "failed"
      BY <2>2 DEF Goto, Calls
    <3> QED
      BY <3>1
  <2>5. PICK d \in Reach(c.ip) : verified(t, d)
    BY <2>1, <2>2, <2>4 DEF network_confirm
  <2>6. d \in Devices /\ dev[d].ip = c.ip
    BY <1>1, <2>3, <2>5 DEF Reach, IInv, TypeOK
  <2>7. UidOf[d] = UidOf[c.d]
    BY <2>5 DEF verified
  <2> QED
    BY <2>3, <2>6, <2>7
<1> QED
  BY <1>1, InvariantHolds, PTL DEF Spec, VerifiedMeansOwn
=============================================================================
