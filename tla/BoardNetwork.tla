---------------------------- MODULE BoardNetwork ----------------------------
(***************************************************************************)
(* How a board gets its network identity.  The web application keeps an    *)
(* inventory row for every board (webapp/management.py) and gives boards   *)
(* their address over RFCTRL2: NETWORK_GET to find them, NETWORK_APPLY to  *)
(* stage an address in the PL, NETWORK_RESTART to commit it, NETWORK_GET   *)
(* at the new address to confirm it.  Four operations do so: the scan, the *)
(* recovery in BoardGateway.refresh, the administrator's apply and restart *)
(* (webapp/main.py) and provision_board (dr47/network.py).  Nothing locks  *)
(* a whole operation: a step below is one call on a board, which the       *)
(* board's control lock makes atomic, or one SQLite transaction.           *)
(*                                                                         *)
(* One interface is modelled, with the boards link plugged into it.  A     *)
(* call may fail without an effect (request lost) or after its effect      *)
(* (every answer lost).  The PL is external: dev[d] holds its address and  *)
(* MAC, the staged pair, and whether playback makes it refuse APPLY.       *)
(*                                                                         *)
(* History: solo[t] says that nothing else has happened since thread t     *)
(* began; raced that a thread wrote the inventory when it was not alone or *)
(* several boards shared the link, that a row took the identity of another *)
(* board or a board out of the pool the address it was last seen at, or    *)
(* that an administrator enabled a row or chose an address of the pool.    *)
(***************************************************************************)
EXTENDS Naturals, Sequences, FiniteSets

CONSTANTS Devices, Rows, Threads,
          UidOf,       \* the device_uid a board reports
          ResetIp,     \* the address a board has after reset
          Pool,        \* ip_pool_for_interface, in order
          Boot,        \* FPGA_BOOTSTRAP_IP
          LinkLocal,   \* FPGA_LINKLOCAL_DEFAULT_IP
          Bcast,       \* the broadcast addresses
          AdminIps,    \* addresses an administrator may ask for
          NoDev, NoRow,
          MaxCalls,    \* bound: operations
          MaxEvents,   \* bound: resets, replugs, playback and edits
          MaxFaults    \* bound: lost packets

PoolIps == {Pool[k] : k \in 1..Len(Pool)}
DevIps == PoolIps \cup AdminIps \cup {ResetIp[d] : d \in Devices}
Ips == DevIps \cup {Boot, LinkLocal, Bcast}

ASSUME PoolAssumption == Len(Pool) \in Nat \ {0} /\ (PoolIps \cup AdminIps) \cap {Boot, LinkLocal, Bcast} = {}
ASSUME DevicesAssumption == IsFiniteSet(Devices) /\ NoDev \notin Devices /\ NoRow \notin Rows
ASSUME BoundsAssumption == {MaxCalls, MaxEvents, MaxFaults} \subseteq Nat
ASSUME ResetAssumption == Bcast \notin DevIps /\ \A d \in Devices : ResetIp[d] \notin PoolIps

VARIABLES dev, link, row, cool, th, solo, raced, calls, events, faults

netBounds == <<calls, events, faults>>
netVars == <<dev, link, row, cool, th, solo, raced, netBounds>>

\* op is the operation, kind what its calls on the board are for: op or the
\* recovery inside it; d the board that answered, to the address called, want
\* the address asked for, ip and mac the identity being given.
NoCall == [op |-> "none", kind |-> "none", pc |-> "end", r |-> NoRow, d |-> NoDev,
           to |-> Boot, want |-> Boot, ip |-> Boot, mac |-> NoDev]
NoBoard == [known |-> FALSE, enabled |-> FALSE, uid |-> NoDev, mac |-> NoDev,
            desired |-> Boot, active |-> Boot, status |-> "none"]

\* The inventory may hold a board whose last recovery failed.
FirstRow == CHOOSE r \in Rows : TRUE
InventoryBoard(d) == [known |-> TRUE, enabled |-> TRUE, uid |-> UidOf[d], mac |-> d,
                      desired |-> Pool[1], active |-> Pool[1], status |-> "failed"]

\* A MAC is named after the board it was burnt into.
Init ==
  /\ dev = [d \in Devices |-> [ip |-> ResetIp[d], mac |-> d, shadow |-> <<>>, armed |-> FALSE]]
  /\ \E d \in Devices : link = {d}
  /\ \/ row = [r \in Rows |-> NoBoard]
     \/ \E d \in Devices : row = [r \in Rows |-> IF r = FirstRow THEN InventoryBoard(d) ELSE NoBoard]
  /\ cool = [r \in Rows |-> FALSE]
  /\ th = [t \in Threads |-> NoCall]
  /\ solo = [t \in Threads |-> FALSE]
  /\ raced = FALSE
  /\ calls = 0 /\ events = 0 /\ faults = 0

-----------------------------------------------------------------------------
(* Control of a thread.                                                     *)

Alive(t) == th[t].pc # "end"
At(t, pc) == th[t].pc = pc
Goto(t, pc) == th' = [th EXCEPT ![t] = IF pc = "end" THEN NoCall ELSE [@ EXCEPT !.pc = pc]]

Start(t, call) ==
  /\ ~Alive(t)
  /\ calls < MaxCalls /\ calls' = calls + 1
  /\ th' = [th EXCEPT ![t] = call]
  /\ solo' = [u \in Threads |-> u = t /\ \A v \in Threads \ {t} : ~Alive(v)]
  /\ UNCHANGED events

\* The inventory is written by thread t; a row may take another identity.
Write(t) ==
  raced' = (\/ raced \/ ~solo[t] \/ Cardinality(link) > 1
            \/ \E r \in Rows : row[r].known /\ (row'[r].uid # row[r].uid \/ row'[r].mac # row[r].mac))

Quiet == UNCHANGED <<solo, raced, calls, events>>

\* A loss, while the budget of losses lasts.
Lose == faults < MaxFaults /\ faults' = faults + 1

\* The boards a datagram to address a reaches, and a call that nobody answers.
Reach(a) == {d \in link : dev[d].ip = a \/ a = Bcast}
Silent(a) == IF Reach(a) = {} THEN UNCHANGED faults ELSE Lose

-----------------------------------------------------------------------------
(* ManagementStore.                                                         *)

\* b is the row with the fields that are given changed; active_ip also writes
\* ip.
update_network_state(r, b) == row' = [row EXCEPT ![r] = b]

Keyed(uid, mac) == {r \in Rows : row[r].known /\ row[r].uid = uid /\ row[r].mac = mac}

Used == UNION {{row[r].desired, row[r].active} : r \in {s \in Rows : row[s].enabled}}

FirstFree == {k \in 1..Len(Pool) : Pool[k] \notin Used /\ \A j \in 1..(k - 1) : Pool[j] \in Used}

Kept(b) == IF b.desired \in PoolIps THEN {b.desired} ELSE {b.active} \cap PoolIps

\* Variant: only the addresses the boards have now count as used.
allocated_ip_active_only(r) ==
  LET used == {row[s].active : s \in {q \in Rows : row[q].enabled}} IN
  IF r \in Rows /\ Kept(row[r]) # {} THEN Kept(row[r])
  ELSE IF PoolIps \subseteq used THEN {}
  ELSE {Pool[CHOOSE k \in 1..Len(Pool) : Pool[k] \notin used
                    /\ \A j \in 1..(k - 1) : Pool[j] \in used]}

\* The address a known board keeps, r being the row of it that was seen last, or
\* the first free one; the pool's first address is the interface's target_ip.
\* No address: ManagementError.
allocated_ip_for_discovery(r) ==
  IF r \in Rows /\ Kept(row[r]) # {} THEN Kept(row[r]) ELSE {Pool[k] : k \in FirstFree}

\* The rows that may be the one seen last: when a board has several, the times
\* that order them (last_seen_at, updated_at) are left open.
Latest(uid, mac) == IF Keyed(uid, mac) = {} THEN {NoRow} ELSE Keyed(uid, mac)

\* A board whose row wants an address outside the pool keeps the one it was
\* last seen at, also when that is another board's.
Adopted(uid, mac) ==
  \E r \in Keyed(uid, mac) : row[r].desired \notin PoolIps /\ row[r].active \in PoolIps

\* The row of the same board, the enabled one first, or a new one; other rows
\* of the board are disabled.
upsert_discovered_board(uid, mac, b) ==
  LET same == Keyed(uid, mac)
      best == IF \E r \in same : row[r].enabled THEN {r \in same : row[r].enabled} ELSE same
      new == {r \in Rows : ~row[r].known}
      first == IF new = {} THEN {} ELSE {CHOOSE n \in new : TRUE}
  IN \E r \in IF same # {} THEN best ELSE first :
       row' = [s \in Rows |-> IF s = r THEN b
                              ELSE IF s \in same THEN [row[s] EXCEPT !.enabled = FALSE]
                              ELSE row[s]]

-----------------------------------------------------------------------------
(* BoardGateway.refresh, alone or at the start of an operation.             *)

Reserved == {Boot, LinkLocal} \cup {ResetIp[d] : d \in Devices}

AfterRefresh(op) == CASE op = "apply" -> "desire"
                      [] op = "restart" -> "restart"
                      [] OTHER -> "end"

\* STATUS at the board's own address, then at the bootstrap address.
refresh(t, op, r, want) ==
  LET b == row[r]
      call == [NoCall EXCEPT !.op = op, !.kind = op, !.r = r, !.want = want,
                             !.to = b.active, !.ip = b.desired, !.mac = b.mac]
  IN /\ b.enabled
     /\ \/ /\ b.active # Boot /\ Reach(b.active) # {} /\ UNCHANGED faults
           /\ Start(t, [call EXCEPT !.pc = IF b.active = b.desired /\ b.active \notin Reserved
                                              /\ b.status # "applied"
                                           THEN "mark" ELSE AfterRefresh(op)])
        \/ /\ IF b.active = Boot THEN UNCHANGED faults ELSE Silent(b.active)
           /\ \E d \in Reach(Boot) : Start(t, [call EXCEPT !.pc = "uid", !.d = d])
        \/ /\ op # "refresh"
           /\ Silent(b.active) /\ Reach(Boot) = {}
           /\ Start(t, [call EXCEPT !.pc = AfterRefresh(op)])
     /\ UNCHANGED <<dev, link, row, cool, raced>>

\* The board answers at the address the row wants: applied.
refresh_mark(t) ==
  /\ At(t, "mark")
  /\ update_network_state(th[t].r, [row[th[t].r] EXCEPT !.status = "applied"])
  /\ Goto(t, AfterRefresh(th[t].op))
  /\ Write(t)
  /\ UNCHANGED <<dev, link, cool, solo, netBounds>>

\* The identity that the row wants is not the one the board reports.
_network_identity_needs_recovery(c) == c.ip # Boot \/ c.mac # dev[c.d].mac

\* A board answers at the bootstrap address: the row takes its uid, and its
\* identity is recovered unless that was tried in the last five seconds.
refresh_bootstrap(t) ==
  LET c == th[t] IN
  /\ At(t, "uid")
  /\ update_network_state(c.r, [row[c.r] EXCEPT !.uid = UidOf[c.d]])
  /\ IF _network_identity_needs_recovery(c) /\ ~cool[c.r]
     THEN /\ cool' = [cool EXCEPT ![c.r] = TRUE]
          /\ th' = [th EXCEPT ![t].pc = "pend", ![t].kind = "recover", ![t].to = Boot]
     ELSE UNCHANGED cool /\ Goto(t, AfterRefresh(c.op))
  /\ Write(t)
  /\ UNCHANGED <<dev, link, solo, netBounds>>

\* The recovery writes what it read before it asked the board.
_recover_network_identity(t) ==
  /\ At(t, "pend")
  /\ update_network_state(th[t].r, [row[th[t].r] EXCEPT !.desired = th[t].ip, !.status = "pending"])
  /\ Goto(t, "stage")
  /\ Write(t)
  /\ UNCHANGED <<dev, link, cool, solo, netBounds>>

\* The five seconds are over.
cool_down(r) ==
  /\ cool[r]
  /\ cool' = [cool EXCEPT ![r] = FALSE]
  /\ UNCHANGED <<dev, link, row, th, faults>> /\ Quiet

-----------------------------------------------------------------------------
(* The operations of webapp/main.py and dr47/network.py.                    *)

\* The order in which the scan asks: addresses of the inventory, target_ip,
\* bootstrap, link-local default, broadcast.
Known == UNION {{row[r].active, row[r].desired} : r \in {s \in Rows : row[s].known}}
discovery_targets_for_interface == <<Pool[1], Boot, LinkLocal, Bcast>>
Rank(a) == IF a \in Known THEN 0 ELSE CHOOSE k \in 1..4 : discovery_targets_for_interface[k] = a
ScanTargets == Known \cup {discovery_targets_for_interface[k] : k \in 1..4}

\* The first target that answers; a board is passed over when its answer is
\* lost.  The scan stops at the first board it finds.
scan_boards(t) ==
  \E a \in ScanTargets : \E d \in Reach(a) :
    /\ IF \E e \in ScanTargets : Rank(e) < Rank(a) /\ Reach(e) # {}
       THEN Lose ELSE UNCHANGED faults
    /\ Start(t, [NoCall EXCEPT !.op = "scan", !.kind = "scan", !.pc = "allocate", !.d = d,
                               !.to = a, !.want = dev[d].ip, !.mac = dev[d].mac])
    /\ UNCHANGED <<dev, link, row, cool, raced>>

\* The address comes from one transaction, the row is written by a later one.
scan_allocate(t) ==
  LET c == th[t] IN
  /\ At(t, "allocate")
  /\ \E r \in Latest(UidOf[c.d], c.mac) :
       \/ \E ip \in allocated_ip_for_discovery(r) :
            th' = [th EXCEPT ![t].pc = IF c.want = ip THEN "commit" ELSE "stage", ![t].ip = ip]
       \/ allocated_ip_for_discovery(r) = {} /\ Goto(t, "end")
  /\ raced' = (raced \/ Adopted(UidOf[c.d], c.mac))
  /\ UNCHANGED <<dev, link, row, cool, solo, netBounds>>

\* NETWORK_GET at the board's own address, then at the bootstrap address.
network_get(r, d) ==
  \/ d \in Reach(row[r].active) /\ UNCHANGED faults
  \/ d \in Reach(Boot) /\ Silent(row[r].active)

\* Variant: a reader's GET takes the address of the row for the one it asked.
get_network_config_asked(t, r) ==
  /\ row[r].enabled
  /\ \E d \in link :
       /\ network_get(r, d)
       /\ Start(t, [NoCall EXCEPT !.op = "get", !.kind = "get", !.pc = "commit", !.r = r,
                                  !.d = d, !.ip = row[r].active, !.mac = dev[d].mac])
  /\ UNCHANGED <<dev, link, row, cool, raced>>

\* A reader's GET takes whatever answers for the board of the row.
get_network_config(t, r) ==
  /\ row[r].enabled
  /\ \E d \in link :
       /\ network_get(r, d)
       /\ Start(t, [NoCall EXCEPT !.op = "get", !.kind = "get", !.pc = "commit", !.r = r,
                                  !.d = d, !.ip = dev[d].ip, !.mac = dev[d].mac])
  /\ UNCHANGED <<dev, link, row, cool, raced>>

\* An administrator's wish, written without asking the board.
set_network_config(r, ip) ==
  /\ row[r].enabled /\ events < MaxEvents /\ events' = events + 1
  /\ update_network_state(r, [row[r] EXCEPT !.desired = ip, !.status = "pending"])
  /\ solo' = [t \in Threads |-> FALSE]
  /\ raced' = (raced \/ ip \in PoolIps)
  /\ UNCHANGED <<dev, link, cool, th, calls, faults>>

apply_network_config(t) ==
  LET c == th[t] IN
  /\ At(t, "desire")
  /\ \/ /\ update_network_state(c.r, [row[c.r] EXCEPT !.desired = c.want, !.status = "pending"])
        /\ th' = [th EXCEPT ![t].pc = "stage", ![t].kind = "apply", ![t].ip = c.want,
                            ![t].to = row[c.r].active]
        /\ raced' = (raced \/ ~solo[t] \/ Cardinality(link) > 1 \/ c.want \in PoolIps)
     \/ /\ \E d \in Reach(c.to) : dev[d].armed
        /\ Goto(t, "end") /\ UNCHANGED <<row, raced>>
  /\ UNCHANGED <<dev, link, cool, solo, netBounds>>

\* discover_boards: everybody on the link whose answer is not lost.
discover_boards(d) == d \in link

\* Another board has the address, or the MAC at another address.
_check_duplicate_assignments(d, ip) ==
  \E e \in link \ {d} : (dev[e].ip = ip) # (dev[e].mac = dev[d].mac)

\* Somebody answers ARP for an address that is not the board's own.
_probe_ip_conflict(d, ip) == ip # dev[d].ip /\ Reach(ip) # {}

\* checked: the caller passed known_boards and arping is installed.
provision_board(t, d, ip, checked) ==
  /\ discover_boards(d)
  /\ checked => ~_check_duplicate_assignments(d, ip) /\ ~_probe_ip_conflict(d, ip)
  /\ Start(t, [NoCall EXCEPT !.op = "provision", !.kind = "provision", !.pc = "stage", !.d = d,
                             !.to = dev[d].ip, !.ip = ip, !.mac = dev[d].mac])
  /\ UNCHANGED <<dev, link, row, cool, raced, faults>>

-----------------------------------------------------------------------------
(* The calls every operation makes on the board.                            *)

\* The scan goes on addressing the target it found the board at.
Receivers(t, d) == IF th[t].to = Bcast THEN link ELSE {d}

\* Playback makes the PL refuse APPLY, and the driver raises.  provision_board
\* answers with ABORT and a second try, the others fail.
_network_apply_with_recovery(t, d) ==
  IF th[t].kind = "provision"
  THEN dev' = [dev EXCEPT ![d].armed = FALSE] /\ UNCHANGED th
  ELSE Goto(t, "failed") /\ UNCHANGED dev

\* NETWORK_APPLY stages the identity in the PL.
network_apply(t) ==
  LET c == th[t] IN
  /\ At(t, "stage")
  /\ \/ \E d \in Reach(c.to) :
          /\ ~dev[d].armed
          /\ dev' = [e \in Devices |-> IF e \in Receivers(t, d) /\ ~dev[e].armed
                                       THEN [dev[e] EXCEPT !.shadow = <<c.ip, c.mac>>] ELSE dev[e]]
          /\ \/ Goto(t, "restart") /\ UNCHANGED faults
             \/ Goto(t, "failed") /\ Lose
     \/ \E d \in Reach(c.to) :
          dev[d].armed /\ _network_apply_with_recovery(t, d) /\ UNCHANGED faults
     \/ Silent(c.to) /\ Goto(t, "failed") /\ UNCHANGED dev
  /\ UNCHANGED <<link, row, cool>> /\ Quiet

Committed(d) == IF dev[d].shadow = <<>> THEN dev[d]
                ELSE [dev[d] EXCEPT !.ip = dev[d].shadow[1], !.mac = dev[d].shadow[2], !.shadow = <<>>]

\* An administrator's RESTART goes to the address of the row and, on its own, is
\* confirmed at the address the row wants.
RestartTarget(t) == IF th[t].kind \in {"apply", "restart"} THEN row[th[t].r].active ELSE th[t].to
ConfirmTarget(t) == IF th[t].kind = "restart" THEN row[th[t].r].desired ELSE th[t].ip

\* NETWORK_RESTART commits what is staged, whoever staged it, and is refused
\* when nothing is: the driver raises, whatever the call is for.
network_restart(t) ==
  LET a == RestartTarget(t) IN
  /\ At(t, "restart")
  /\ \/ \E d \in Reach(a) :
          /\ dev' = [e \in Devices |-> IF e \in Receivers(t, d) THEN Committed(e) ELSE dev[e]]
          /\ \/ /\ Goto(t, IF dev[d].shadow # <<>> THEN "confirm" ELSE "failed")
                /\ UNCHANGED faults
             \/ Goto(t, "failed") /\ Lose
     \/ Silent(a) /\ Goto(t, "failed") /\ UNCHANGED dev
  /\ UNCHANGED <<link, row, cool>> /\ Quiet

\* Variant: the identity at the new address is not compared.
verified_any(t, d) == TRUE

\* provision_board compares the whole identity at the new address, the others
\* take any answer from it.
verified(t, d) ==
  th[t].kind = "provision" => UidOf[d] = UidOf[th[t].d] /\ dev[d].mac = th[t].mac

network_confirm(t) ==
  LET c == th[t]
      a == ConfirmTarget(t)
  IN /\ At(t, "confirm")
     /\ \/ \E d \in Reach(a) :
             /\ verified(t, d)
             /\ th' = [th EXCEPT ![t].pc = "commit", ![t].ip = a, ![t].mac = dev[d].mac,
                                 ![t].d = IF c.kind \in {"scan", "provision"} THEN @ ELSE d]
             /\ UNCHANGED faults
        \/ /\ IF \E d \in Reach(a) : verified(t, d) THEN Lose ELSE UNCHANGED faults
           /\ Goto(t, "failed")
     /\ UNCHANGED <<dev, link, row, cool>> /\ Quiet

\* A recovery gives way to the operation it was part of.
Resume(t) ==
  IF th[t].kind = "recover" /\ AfterRefresh(th[t].op) # "end"
  THEN th' = [th EXCEPT ![t].pc = AfterRefresh(th[t].op), ![t].kind = th[t].op]
  ELSE Goto(t, "end")

Found(t, ip, status) ==
  [known |-> TRUE, enabled |-> TRUE, uid |-> UidOf[th[t].d], mac |-> th[t].mac,
   desired |-> th[t].ip, active |-> ip, status |-> status]

\* The answer is written: by the scan as a row of its own, by the others into
\* the row they work for, by provision_board nowhere.
commit(t) ==
  LET c == th[t]
      new == [row[c.r] EXCEPT !.active = c.ip, !.mac = c.mac, !.uid = UidOf[c.d],
                              !.status = "applied",
                              !.desired = IF c.kind = "apply" THEN c.want ELSE @]
  IN /\ At(t, "commit")
     /\ CASE c.kind = "scan" -> upsert_discovered_board(UidOf[c.d], c.mac, Found(t, c.ip, "applied"))
          [] c.kind = "provision" -> UNCHANGED row
          [] OTHER -> update_network_state(c.r, new)
     /\ Resume(t)
     /\ IF c.kind = "provision" THEN UNCHANGED raced ELSE Write(t)
     /\ UNCHANGED <<dev, link, cool, solo, netBounds>>

\* The scan keeps the board with the address it was found at and a recovery is
\* marked.  Any other failure leaves the row as it is, a refused apply's too: the
\* driver has raised before apply_network_config could mark it, and the row stays
\* pending.
failed(t) ==
  LET c == th[t] IN
  /\ At(t, "failed")
  /\ CASE c.kind = "scan" -> upsert_discovered_board(UidOf[c.d], c.mac, Found(t, c.want, "failed"))
       [] c.kind = "recover" -> update_network_state(c.r, [row[c.r] EXCEPT !.status = "failed"])
       [] OTHER -> UNCHANGED row
  /\ Resume(t)
  /\ Write(t)
  /\ UNCHANGED <<dev, link, cool, solo, netBounds>>

-----------------------------------------------------------------------------
(* What happens to the boards, and an edit of the inventory.                *)

Event ==
  /\ events < MaxEvents /\ events' = events + 1
  /\ solo' = [t \in Threads |-> FALSE]
  /\ UNCHANGED <<cool, th, calls, faults>>

reset(d) ==
  /\ Event
  /\ dev' = [dev EXCEPT ![d] = [ip |-> ResetIp[d], mac |-> d, shadow |-> <<>>, armed |-> FALSE]]
  /\ UNCHANGED <<link, row, raced>>

replug ==
  /\ Event
  /\ link' \in SUBSET Devices
  /\ UNCHANGED <<dev, row, raced>>

playback(d) ==
  /\ Event
  /\ dev' = [dev EXCEPT ![d].armed = ~@]
  /\ UNCHANGED <<link, row, raced>>

\* update_board with the enabled box.
update_board(r) ==
  /\ row[r].known
  /\ Event
  /\ row' = [row EXCEPT ![r].enabled = ~@]
  /\ raced' = TRUE
  /\ UNCHANGED <<dev, link>>

-----------------------------------------------------------------------------
Step(t) ==
  \/ refresh_mark(t) \/ refresh_bootstrap(t) \/ _recover_network_identity(t)
  \/ scan_allocate(t) \/ apply_network_config(t)
  \/ network_apply(t) \/ network_restart(t) \/ network_confirm(t) \/ commit(t) \/ failed(t)

Request(t) ==
  \/ scan_boards(t)
  \/ \E r \in Rows :
       \/ refresh(t, "refresh", r, Boot)
       \/ refresh(t, "restart", r, Boot)
       \/ \E ip \in AdminIps : refresh(t, "apply", r, ip)
       \/ get_network_config(t, r)
  \/ \E d \in Devices, ip \in PoolIps, checked \in BOOLEAN : provision_board(t, d, ip, checked)

Next ==
  \/ \E t \in Threads : Step(t) \/ Request(t)
  \/ \E r \in Rows : cool_down(r) \/ update_board(r) \/ \E ip \in AdminIps : set_network_config(r, ip)
  \/ \E d \in Devices : reset(d) \/ playback(d)
  \/ replug

Spec == Init /\ [][Next]_netVars

-----------------------------------------------------------------------------
Calls ==
  [op : {"none", "refresh", "scan", "get", "apply", "restart", "provision"},
   kind : {"none", "refresh", "scan", "get", "apply", "restart", "provision", "recover"},
   pc : {"end", "mark", "uid", "pend", "desire", "allocate", "stage", "restart", "confirm",
         "commit", "failed"},
   r : Rows \cup {NoRow}, d : Devices \cup {NoDev}, to : Ips, want : Ips, ip : Ips,
   mac : Devices \cup {NoDev}]

Identities == [ip : DevIps, mac : Devices, shadow : {<<>>} \cup (DevIps \X Devices), armed : BOOLEAN]
BoardRows ==
  [known : BOOLEAN, enabled : BOOLEAN, uid : {UidOf[d] : d \in Devices} \cup {NoDev},
   mac : Devices \cup {NoDev}, desired : Ips, active : DevIps \cup {Boot},
   status : {"none", "pending", "applied", "failed"}]

TypeOK ==
  /\ dev \in [Devices -> Identities] /\ link \subseteq Devices
  /\ row \in [Rows -> BoardRows]
  /\ cool \in [Rows -> BOOLEAN] /\ th \in [Threads -> Calls]
  /\ solo \in [Threads -> BOOLEAN] /\ raced \in BOOLEAN
  /\ calls \in 0..MaxCalls /\ events \in 0..MaxEvents /\ faults \in 0..MaxFaults

\* Two boards of an interface are never meant to have the same pool address,
\* as long as operations did not overlap, the link had one board at a time and
\* nobody chose a pool address by hand.
DistinctIps ==
  ~raced => \A r, s \in Rows :
              (r # s /\ row[r].enabled /\ row[s].enabled /\ row[r].desired \in PoolIps)
                 => row[r].desired # row[s].desired

\* An operation that was alone and whose board stayed up writes "applied" only
\* for an address at which the board it names answers, whatever was lost.
AppliedIsTrue ==
  \A t \in Threads :
    (At(t, "commit") /\ solo[t] /\ Cardinality(link) = 1)
       => \E d \in link : /\ dev[d].ip = th[t].ip /\ dev[d].mac = th[t].mac
                          /\ UidOf[d] = UidOf[th[t].d]

\* provision_board succeeds only when the very board that was discovered has
\* the address, even with other boards on the link and other operations.
VerifiedMeansOwn ==
  [][\A t \in Threads :
       (th[t].kind = "provision" /\ At(t, "confirm") /\ th'[t].pc = "commit")
          => dev[th[t].d].ip = th[t].ip]_netVars
=============================================================================
