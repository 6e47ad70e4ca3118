---------------------------- MODULE AccessProofs ----------------------------
(***************************************************************************)
(* Invariance proofs for Access, for every set of users, clients, boards,  *)
(* groups, runs and jobs and any number of requests.  The inductive         *)
(* invariant says of a request what the transactions it has behind it have  *)
(* established and no later step of anybody can take away (CallOK).         *)
(***************************************************************************)
EXTENDS Access, TLAPS

Pcs ==
  {"idle", "create_session", "logout", "create_user", "update_user", "lease", "release", "force",
   "force_abort", "force_release", "update_board", "check_lease", "check_run", "create_job",
   "require_lease", "can_manage", "act", "set_run_owner"}
Ops ==
  {"none", "logout", "create_user", "update_user", "lease", "release", "force", "update_board",
   "program", "create", "play", "action"}

CallRec ==
  [pc : Pcs, op : Ops, user : Users \cup {None}, admin : BOOLEAN,
   arg : {None} \cup Users \cup Boards \cup Runs, run : Runs \cup {None},
   group : Groups \cup {<<>>}, i : Nat]
RunRec ==
  [group : Groups \cup {<<>>}, owner : Users \cup {None}, state : {"none", "active", "off"}]
JobRec ==
  [board : Boards \cup {None}, state : ActiveJob \cup {"none", "SUCCEEDED", "FAILED"}]

UserInv ==
  /\ role \in [Users -> {"none", "user", "admin"}]
  /\ enabled \in [Users -> BOOLEAN]
  /\ session \in [Clients -> Users \cup {None}]
  /\ on \in [Boards -> BOOLEAN]

LeaseInv == leases \subseteq Boards \X Users /\ OneLeasePerBoard

\* A run that exists has the boards of a request.
RunInv ==
  /\ run \in [Runs -> RunRec]
  /\ \A r \in Runs : run[r].state # "none" => run[r].group \in Groups

\* A thread that is not over works on an unfinished job.
JobInv ==
  /\ job \in [Jobs -> JobRec]
  /\ thread \in [Jobs -> {"none", "start", "preflight", "xsct"}]
  /\ lock \in Jobs \cup {None}
  /\ \A j \in Jobs : thread[j] # "none" => job[j].state \in ActiveJob
  /\ OneDeployment

\* What is known of a request k, the boards h its user has held, with the
\* leases L and the runs R.
CallOK(k, h, L, R) ==
  /\ k.pc # "idle" => k.user \in Users
  /\ k.pc \in {"lease", "create_job"} => k.arg \in Boards
  /\ k.pc \in {"check_lease", "check_run"} => k.arg \in Boards
  /\ k.pc \in {"force", "force_abort", "force_release"} => k.op = "force" /\ k.admin
  /\ k.pc = "force_abort" => k.run \in Runs /\ R[k.run].state # "none"
  /\ k.pc = "can_manage" => k.i = 1
  /\ k.pc = "can_manage" \/ (k.pc \in {"require_lease", "act"} /\ k.op # "create") =>
       k.arg \in Runs /\ R[k.arg].state # "none"
  /\ k.pc \in {"require_lease", "act"} => k.group \in Groups
  /\ k.pc = "require_lease" =>
       /\ k.i \in 1..Len(k.group) /\ (k.op = "action" => k.i = 1)
       /\ \A n \in 1..Len(k.group) : n < k.i => k.group[n] \in h
  /\ k.pc = "act" =>
       /\ k.op # "action" => BoardsOf(k.group) \subseteq h
       /\ Head(k.group) \in h
  /\ k.pc \notin {"idle", "create_session"} => \A b \in Boards : <<b, k.user>> \in L => b \in h

CallInv ==
  /\ c \in [Clients -> CallRec]
  /\ held \in [Clients -> SUBSET Boards]
  /\ \A cl \in Clients : CallOK(c[cl], held[cl], leases, run)

IInv == UserInv /\ LeaseInv /\ RunInv /\ JobInv /\ CallInv

\* No request: nothing to know.
LEMMA NoCallOK ==
  ASSUME NEW L, NEW R
  PROVE  NoCall \in CallRec /\ CallOK(NoCall, {}, L, R)
<1>1. NoCall \in CallRec
  BY DEF NoCall, CallRec, Pcs, Ops
<1>2. NoCall.pc = "idle"
  BY DEF NoCall
<1>3. CallOK(NoCall, {}, L, R)
  BY <1>2 DEF CallOK
<1> QED
  BY <1>1, <1>3

\* The leases only shrink and no run is forgotten: what is known stays known.
LEMMA CallOKStable ==
  ASSUME NEW k, NEW h, NEW L, NEW R, NEW M, NEW S, M \subseteq L,
         \A r \in Runs : R[r].state # "none" => S[r].state # "none",
         CallOK(k, h, L, R)
  PROVE  CallOK(k, h, M, S)
  BY DEF CallOK

\* A step of the request of cl leaves the other requests alone.
LEMMA UpdateCall ==
  ASSUME CallInv, NEW cl \in Clients, NEW k \in CallRec, NEW h \in SUBSET Boards,
         c' = [c EXCEPT ![cl] = k], held' = [held EXCEPT ![cl] = h],
         leases' \subseteq leases,
         \A r \in Runs : run[r].state # "none" => run'[r].state # "none",
         CallOK(k, h, leases', run')
  PROVE  CallInv'
<1>1. c' \in [Clients -> CallRec] /\ held' \in [Clients -> SUBSET Boards]
  BY DEF CallInv
<1>2. ASSUME NEW x \in Clients PROVE CallOK(c'[x], held'[x], leases', run')
  <2>1. CASE x = cl
    <3>1. c'[x] = k /\ held'[x] = h
      BY <2>1 DEF CallInv
    <3> QED BY <3>1
  <2>2. CASE x # cl
    <3>1. c'[x] = c[x] /\ held'[x] = held[x]
      BY <2>2 DEF CallInv
    <3>2. CallOK(c[x], held[x], leases, run)
      BY DEF CallInv
    <3>3. CallOK(c[x], held[x], leases', run')
      BY <3>2, CallOKStable
    <3> QED BY <3>1, <3>3
  <2> QED BY <2>1, <2>2
<1> QED
  BY <1>1, <1>2 DEF CallInv

\* A request that returns.
LEMMA ReturnCall ==
  ASSUME CallInv, NEW cl \in Clients, Return(cl), leases' \subseteq leases,
         \A r \in Runs : run[r].state # "none" => run'[r].state # "none"
  PROVE  CallInv'
<1>1. c' = [c EXCEPT ![cl] = NoCall] /\ held' = [held EXCEPT ![cl] = {}]
  BY DEF Return
<1>2. {} \in SUBSET Boards
  OBVIOUS
<1> QED
  BY <1>1, <1>2, NoCallOK, UpdateCall

\* A request that goes on, with everything but itself unchanged.
LEMMA GoOn ==
  ASSUME CallInv, NEW cl \in Clients, NEW k \in CallRec,
         c' = [c EXCEPT ![cl] = k], UNCHANGED <<held, leases>>,
         \A r \in Runs : run[r].state # "none" => run'[r].state # "none",
         CallOK(k, held[cl], leases, run')
  PROVE  CallInv'
<1>1. held' = [held EXCEPT ![cl] = held[cl]] /\ held[cl] \in SUBSET Boards
  BY DEF CallInv
<1>2. leases' \subseteq leases /\ CallOK(k, held[cl], leases', run')
  OBVIOUS
<1> QED
  BY <1>1, <1>2, UpdateCall

\* Steps that leave the users, the sessions and the boards alone.
LEMMA UserFrame == UserInv /\ UNCHANGED <<users, on>> => UserInv'
  BY DEF UserInv, users
\* Steps that leave the leases alone.
LEMMA LeaseFrame == LeaseInv /\ UNCHANGED leases => LeaseInv'
  BY DEF LeaseInv, OneLeasePerBoard
\* Steps that leave the runs alone.
LEMMA RunFrame == RunInv /\ UNCHANGED run => RunInv'
  BY DEF RunInv
\* Steps that leave the programming jobs alone.
LEMMA JobFrame == JobInv /\ UNCHANGED programs => JobInv'
  BY DEF JobInv, OneDeployment, programs

\* Steps that leave the requests and the leases alone and forget no run.
LEMMA CallFrame ==
  ASSUME CallInv, UNCHANGED <<c, held, leases>>,
         \A r \in Runs : run[r].state # "none" => run'[r].state # "none"
  PROVE  CallInv'
<1>1. ASSUME NEW x \in Clients PROVE CallOK(c[x], held[x], leases, run')
  BY CallOKStable DEF CallInv
<1> QED
  BY <1>1 DEF CallInv

\* Nothing is leased, no request is in flight.
LEMMA InitIInv == Init => IInv
<1> SUFFICES ASSUME Init PROVE IInv
  OBVIOUS
<1>1. UserInv
  BY SeedAssumption DEF Init, UserInv
<1>2. LeaseInv
  BY DEF Init, LeaseInv, OneLeasePerBoard
<1>3. RunInv
  BY DEF Init, RunInv, RunRec, NoRun
<1>4. JobInv
  BY DEF Init, JobInv, JobRec, NoJob, ActiveJob, OneDeployment
<1>5. CallInv
  BY NoCallOK DEF Init, CallInv
<1> QED
  BY <1>1, <1>2, <1>3, <1>4, <1>5 DEF IInv

\* A request is admitted: its user exists, and is an administrator if the
\* operation is one of theirs.
LEMMA Admission ==
  ASSUME IInv, NEW cl \in Clients, NEW op \in Ops, NEW group \in Groups \cup {<<>>},
         NEW arg \in {None} \cup Users \cup Boards \cup Runs,
         NEW first \in Pcs \ {"idle", "create_session", "force_abort", "force_release", "act"},
         current_user(cl, op, arg, group, first),
         first \in {"lease", "create_job", "check_lease", "check_run"} => arg \in Boards,
         first = "force" => op = "force",
         first = "can_manage" => arg \in Runs /\ run[arg].state # "none",
         first = "require_lease" => group \in Groups /\ op = "create"
  PROVE  IInv'
<1> DEFINE u == session_user(cl)
           k == [pc |-> first, op |-> op, user |-> u, admin |-> role[u] = "admin",
                 arg |-> arg, run |-> None, group |-> group, i |-> 1]
           h == {b \in Boards : active_lease(b, u)}
<1>1. u \in Users
  BY DEF current_user, session_user, IInv, UserInv
<1>2. k \in CallRec /\ h \in SUBSET Boards
  BY <1>1 DEF CallRec
<1>3. UNCHANGED <<users, leases, on, run, programs>>
  BY DEF current_user
<1>4. CallOK(k, h, leases, run)
  <2>1. first = "force" => role[u] = "admin"
    BY DEF current_user, AdminOps
  <2>2. first = "require_lease" => 1 \in 1..Len(group)
    BY GroupsAssumption
  <2>3. \A b \in Boards : <<b, u>> \in leases => b \in h
    BY DEF active_lease
  <2>4. /\ k.pc = first /\ k.op = op /\ k.user = u /\ k.arg = arg
        /\ k.group = group /\ k.i = 1
    OBVIOUS
  <2>5. k.admin = (role[u] = "admin")
    OBVIOUS
  <2> HIDE DEF k, h, u
  <2>6. first = "force" => k.admin
    BY <2>1, <2>5
  <2>7. \A n \in 1..Len(group) : ~(n < 1)
    OBVIOUS
  <2> QED
    BY <1>1, <2>2, <2>3, <2>4, <2>6, <2>7 DEF CallOK
<1>5. c' = [c EXCEPT ![cl] = k] /\ held' = [held EXCEPT ![cl] = h]
  BY DEF current_user
<1> HIDE DEF k, h
<1>6. CallInv'
  <2>1. leases' \subseteq leases /\ CallOK(k, h, leases', run')
    BY <1>3, <1>4
  <2>2. \A r \in Runs : run[r].state # "none" => run'[r].state # "none"
    BY <1>3
  <2> QED
    BY <1>2, <1>5, <2>1, <2>2, UpdateCall DEF IInv
<1> QED
  BY <1>3, <1>6, UserFrame, LeaseFrame, RunFrame, JobFrame DEF IInv

\* Every way a request can begin.
LEMMA CallStep ==
  ASSUME IInv, NEW cl \in Clients, Call(cl)
  PROVE  IInv'
<1>1. CASE current_user(cl, "logout", None, <<>>, "logout")
  BY <1>1, Admission DEF Ops, Pcs
<1>2. ASSUME NEW u \in Users, authenticate(cl, u) PROVE IInv'
  <2> DEFINE k == [NoCall EXCEPT !.pc = "create_session", !.user = u]
  <2>1. k \in CallRec /\ k.pc = "create_session" /\ k.user = u
    BY DEF CallRec, NoCall, Pcs, Ops
  <2>2. c' = [c EXCEPT ![cl] = k] /\ UNCHANGED <<users, leases, on, run, programs, held>>
    BY <1>2 DEF authenticate
  <2> HIDE DEF k
  <2>3. CallOK(k, held[cl], leases, run')
    BY <2>1 DEF CallOK
  <2>4. CallInv'
    BY <2>1, <2>2, <2>3, GoOn DEF IInv
  <2> QED
    BY <2>2, <2>4, UserFrame, LeaseFrame, RunFrame, JobFrame DEF IInv
<1>3. ASSUME NEW u \in Users, current_user(cl, "create_user", u, <<>>, "create_user") PROVE IInv'
  BY <1>3, Admission DEF Ops, Pcs
<1>4. ASSUME NEW u \in Users, current_user(cl, "update_user", u, <<>>, "update_user") PROVE IInv'
  BY <1>4, Admission DEF Ops, Pcs
<1>5. ASSUME NEW b \in Boards, current_user(cl, "lease", b, <<>>, "lease") PROVE IInv'
  BY <1>5, Admission DEF Ops, Pcs
<1>6. ASSUME NEW b \in Boards, current_user(cl, "release", b, <<>>, "release") PROVE IInv'
  BY <1>6, Admission DEF Ops, Pcs
<1>7. ASSUME NEW b \in Boards, current_user(cl, "force", b, <<>>, "force") PROVE IInv'
  BY <1>7, Admission DEF Ops, Pcs
<1>8. ASSUME NEW b \in Boards, current_user(cl, "update_board", b, <<>>, "update_board") PROVE IInv'
  BY <1>8, Admission DEF Ops, Pcs
<1>9. ASSUME NEW b \in Boards, current_user(cl, "program", b, <<>>, "check_lease") PROVE IInv'
  BY <1>9, Admission DEF Ops, Pcs
<1>10. ASSUME NEW g \in Groups, current_user(cl, "create", None, g, "require_lease") PROVE IInv'
  BY <1>10, Admission DEF Ops, Pcs
<1>11. ASSUME NEW r \in Runs, NEW op \in {"play", "action"}, run[r].state # "none",
              current_user(cl, op, r, <<>>, "can_manage")
       PROVE  IInv'
  BY <1>11, Admission DEF Ops, Pcs
<1> QED
  BY <1>1, <1>2, <1>3, <1>4, <1>5, <1>6, <1>7, <1>8, <1>9, <1>10, <1>11 DEF Call

\* Logins, logouts and the administration of users and boards.
LEMMA UserStep ==
  ASSUME IInv, NEW cl \in Clients,
         create_session(cl) \/ logout(cl) \/ create_user(cl) \/ update_user(cl) \/ update_board(cl)
  PROVE  IInv'
<1>1. Return(cl) /\ UNCHANGED <<leases, run, programs>>
  BY DEF create_session, logout, create_user, update_user, update_board
<1>2. CallInv'
  BY <1>1, ReturnCall DEF IInv
<1>3. UserInv'
  <2>1. CASE create_session(cl)
    <3>1. c[cl].user \in Users
      BY <2>1 DEF create_session, IInv, CallInv, CallOK
    <3> QED
      BY <2>1, <3>1 DEF create_session, IInv, UserInv
  <2>2. CASE logout(cl)
    BY <2>2 DEF logout, IInv, UserInv
  <2>3. CASE create_user(cl)
    BY <2>3 DEF create_user, IInv, UserInv
  <2>4. CASE update_user(cl)
    BY <2>4 DEF update_user, IInv, UserInv
  <2>5. CASE update_board(cl)
    BY <2>5 DEF update_board, IInv, UserInv, users
  <2> QED
    BY <2>1, <2>2, <2>3, <2>4, <2>5
<1> QED
  BY <1>1, <1>2, <1>3, LeaseFrame, RunFrame, JobFrame DEF IInv

\* The transaction that leases a free board.
LEMMA LeaseStep ==
  ASSUME IInv, NEW cl \in Clients, lease_board(cl)
  PROVE  IInv'
<1> DEFINE b == c[cl].arg
           u == c[cl].user
           ok == on[b] /\ ~Leased(b)
<1>1. b \in Boards /\ u \in Users
  BY DEF lease_board, IInv, CallInv, CallOK
<1>2. /\ leases' = IF ok THEN leases \cup {<<b, u>>} ELSE leases
      /\ held' = [k \in Clients |-> IF k = cl THEN {} ELSE
                    IF ok /\ c[k].user = u THEN held[k] \cup {b} ELSE held[k]]
      /\ c' = [c EXCEPT ![cl] = NoCall] /\ UNCHANGED <<users, on, run, programs, calls>>
  BY DEF lease_board
<1>3. ok => \A l \in leases : l[1] # b
  BY DEF Leased, active_lease, IInv, LeaseInv
<1> HIDE DEF b, u, ok
<1>4. LeaseInv'
  <2>1. leases' \subseteq Boards \X Users
    BY <1>1, <1>2 DEF IInv, LeaseInv
  <2>2. OneLeasePerBoard'
    <3> SUFFICES ASSUME NEW l \in leases', NEW m \in leases', l[1] = m[1] PROVE l = m
      BY DEF OneLeasePerBoard
    <3>1. CASE l \in leases /\ m \in leases
      BY <3>1 DEF IInv, LeaseInv, OneLeasePerBoard
    <3>2. CASE ok /\ l = <<b, u>>
      BY <1>2, <1>3, <3>2
    <3>3. CASE ok /\ m = <<b, u>>
      BY <1>2, <1>3, <3>3
    <3> QED
      BY <1>2, <3>1, <3>2, <3>3
  <2> QED
    BY <2>1, <2>2 DEF LeaseInv
<1>5. CallInv'
  <2>1. c' \in [Clients -> CallRec]
    BY <1>2, NoCallOK DEF IInv, CallInv
  <2>2. held' \in [Clients -> SUBSET Boards]
    BY <1>1, <1>2 DEF IInv, CallInv
  <2>3. ASSUME NEW x \in Clients PROVE CallOK(c'[x], held'[x], leases', run')
    <3>1. CASE x = cl
      <4>1. c'[x] = NoCall /\ held'[x] = {}
        BY <1>2, <3>1 DEF IInv, CallInv
      <4> QED
        BY <4>1, NoCallOK
    <3>2. CASE x # cl
      <4>1. /\ c'[x] = c[x]
            /\ held'[x] = IF ok /\ c[x].user = u THEN held[x] \cup {b} ELSE held[x]
        BY <1>2, <3>2 DEF IInv, CallInv
      <4>2. CallOK(c[x], held[x], leases, run) /\ held[x] \subseteq held'[x] /\ run' = run
        BY <1>2, <4>1 DEF IInv, CallInv
      <4>3. c[x].pc \notin {"idle", "create_session"} =>
              \A d \in Boards : <<d, c[x].user>> \in leases' => d \in held'[x]
        <5> SUFFICES ASSUME c[x].pc \notin {"idle", "create_session"}, NEW d \in Boards,
                            <<d, c[x].user>> \in leases'
                     PROVE  d \in held'[x]
          OBVIOUS
        <5>1. CASE <<d, c[x].user>> \in leases
          BY <4>2, <5>1 DEF CallOK
        <5>2. CASE ok /\ <<d, c[x].user>> = <<b, u>>
          BY <4>1, <5>2
        <5> QED
          BY <1>2, <5>1, <5>2
      <4>4. CallOK(c[x], held'[x], leases', run')
        BY <4>2, <4>3 DEF CallOK
      <4> QED
        BY <4>1, <4>4
    <3> QED
      BY <3>1, <3>2
  <2> QED
    BY <2>1, <2>2, <2>3 DEF CallInv
<1> QED
  BY <1>2, <1>4, <1>5, UserFrame, RunFrame, JobFrame DEF IInv

\* A release, by the holder or by force.
LEMMA ReleaseStep ==
  ASSUME IInv, NEW cl \in Clients, release(cl) \/ force_release(cl)
  PROVE  IInv'
<1>1. Return(cl) /\ leases' \subseteq leases /\ UNCHANGED <<users, on, run, programs>>
  BY DEF release, force_release, release_board
<1>2. CallInv'
  BY <1>1, ReturnCall DEF IInv
<1>3. LeaseInv'
  BY <1>1 DEF IInv, LeaseInv, OneLeasePerBoard
<1> QED
  BY <1>1, <1>2, <1>3, UserFrame, RunFrame, JobFrame DEF IInv

\* The two steps of a forced release that come before it.
LEMMA ForceStep ==
  ASSUME IInv, NEW cl \in Clients, force_release_board(cl) \/ force_abort(cl)
  PROVE  IInv'
<1>1. c[cl] \in CallRec /\ CallOK(c[cl], held[cl], leases, run)
  BY DEF IInv, CallInv
<1>2. c[cl].pc \in {"force", "force_abort"} /\ UNCHANGED <<users, leases, on, programs, held>>
  BY DEF force_release_board, force_abort
<1>3. ASSUME Goto(cl, "force_release"),
             \A r \in Runs : run[r].state # "none" => run'[r].state # "none"
      PROVE  CallInv'
  <2> DEFINE k == [c[cl] EXCEPT !.pc = "force_release"]
  <2>1. c' = [c EXCEPT ![cl] = k]
    BY <1>3 DEF Goto
  <2>2. k \in CallRec
    BY <1>1 DEF CallRec, Pcs
  <2>3. CallOK(k, held[cl], leases, run')
    BY <1>1, <1>2 DEF CallOK, CallRec
  <2> HIDE DEF k
  <2> QED
    BY <1>2, <1>3, <2>1, <2>2, <2>3, GoOn DEF IInv
<1>4. CASE force_release_board(cl)
  <2>1. run' = run
    BY <1>4 DEF force_release_board
  <2>2. ASSUME NEW r \in Runs, Holds(r, c[cl].arg),
               c' = [c EXCEPT ![cl].pc = "force_abort", ![cl].run = r]
        PROVE  CallInv'
    <3> DEFINE k == [c[cl] EXCEPT !.pc = "force_abort", !.run = r]
    <3>1. c' = [c EXCEPT ![cl] = k]
      BY <2>2 DEF IInv, CallInv, CallRec
    <3>2. k \in CallRec
      BY <1>1 DEF CallRec, Pcs
    <3>3. CallOK(k, held[cl], leases, run')
      BY <1>1, <1>2, <2>1, <2>2 DEF CallOK, CallRec, Holds
    <3> HIDE DEF k
    <3> QED
      BY <1>2, <2>1, <3>1, <3>2, <3>3, GoOn DEF IInv
  <2>3. CallInv'
    BY <1>3, <1>4, <2>1, <2>2 DEF force_release_board
  <2> QED
    BY <1>2, <2>1, <2>3, UserFrame, LeaseFrame, RunFrame, JobFrame DEF IInv
<1>5. CASE force_abort(cl)
  <2>1. c[cl].run \in Runs /\ run[c[cl].run].state # "none"
    BY <1>1, <1>5 DEF force_abort, CallOK
  <2>2. run' = [run EXCEPT ![c[cl].run].state = "off"]
    BY <1>5 DEF force_abort
  <2>3. RunInv' /\ \A r \in Runs : run[r].state # "none" => run'[r].state # "none"
    BY <2>1, <2>2 DEF IInv, RunInv, RunRec
  <2>4. CallInv'
    BY <1>3, <1>5, <2>3 DEF force_abort
  <2> QED
    BY <1>2, <2>3, <2>4, UserFrame, LeaseFrame, JobFrame DEF IInv
<1> QED
  BY <1>4, <1>5

\* The checks of a request that wants to control boards: the lease of one board
\* after the other, the owner of the run.
LEMMA CheckStep ==
  ASSUME IInv, NEW cl \in Clients, require_lease(cl) \/ can_manage_run(cl)
  PROVE  IInv'
<1>1. c[cl] \in CallRec /\ CallOK(c[cl], held[cl], leases, run)
  BY DEF IInv, CallInv
<1>2. UNCHANGED <<users, leases, on, run, programs>>
  BY DEF require_lease, can_manage_run
<1>3. CallInv'
  <2>1. CASE Return(cl)
    BY <1>2, <2>1, ReturnCall DEF IInv
  <2>2. CASE /\ can_manage_run(cl) /\ UNCHANGED held
             /\ c' = [c EXCEPT ![cl].pc = "require_lease", ![cl].group = run[c[cl].arg].group]
    <3> DEFINE g == run[c[cl].arg].group
               k == [c[cl] EXCEPT !.pc = "require_lease", !.group = g]
    <3>1. c[cl].pc = "can_manage" /\ c[cl].i = 1 /\ g \in Groups
      BY <1>1, <2>2 DEF can_manage_run, CallOK, IInv, RunInv
    <3>2. c' = [c EXCEPT ![cl] = k]
      BY <2>2 DEF IInv, CallInv, CallRec
    <3>3. k \in CallRec
      BY <1>1, <3>1 DEF CallRec, Pcs
    <3>4. g \in Seq(Boards) /\ 1 \in 1..Len(g) /\ \A n \in 1..Len(g) : ~(n < 1)
      BY <3>1, GroupsAssumption
    <3>5. /\ k.pc = "require_lease" /\ k.group = g /\ k.i = 1 /\ k.op = c[cl].op
          /\ k.user = c[cl].user /\ k.arg = c[cl].arg
      BY <1>1, <3>1 DEF CallRec
    <3> HIDE DEF k, g
    <3>6. CallOK(k, held[cl], leases, run)
      BY <1>1, <3>1, <3>4, <3>5 DEF CallOK
    <3> QED
      BY <1>2, <2>2, <3>2, <3>3, <3>6, GoOn DEF IInv
  <2>3. CASE /\ require_lease(cl) /\ UNCHANGED held
             /\ active_lease(c[cl].group[c[cl].i], c[cl].user)
             /\ IF c[cl].i < Len(c[cl].group) /\ c[cl].op # "action"
                THEN c' = [c EXCEPT ![cl].i = @ + 1]
                ELSE Goto(cl, "act")
    <3> DEFINE g == c[cl].group
               n == c[cl].i
               h == held[cl]
    <3>1. /\ c[cl].pc = "require_lease" /\ g \in Groups /\ n \in 1..Len(g)
          /\ (c[cl].op = "action" => n = 1) /\ c[cl].user \in Users
          /\ c[cl].op # "create" => c[cl].arg \in Runs /\ run[c[cl].arg].state # "none"
          /\ \A m \in 1..Len(g) : m < n => g[m] \in h
          /\ \A b \in Boards : <<b, c[cl].user>> \in leases => b \in h
      BY <1>1, <2>3 DEF require_lease, CallOK
    <3>2. g \in Seq(Boards) /\ g # <<>> /\ Len(g) \in Nat
      BY <3>1, GroupsAssumption
    <3>3. g[n] \in h
      BY <2>3, <3>1, <3>2 DEF active_lease
    <3>4. CASE n < Len(g) /\ c[cl].op # "action"
      <4> DEFINE k == [c[cl] EXCEPT !.i = n + 1]
      <4>1. c' = [c EXCEPT ![cl] = k]
        BY <2>3, <3>4
      <4>2. k \in CallRec
        BY <1>1, <3>1, <3>2 DEF CallRec
      <4>3. /\ k.pc = "require_lease" /\ k.group = g /\ k.i = n + 1 /\ k.op = c[cl].op
            /\ k.user = c[cl].user /\ k.arg = c[cl].arg
        BY <1>1, <3>1 DEF CallRec
      <4>4. n + 1 \in 1..Len(g) /\ \A m \in 1..Len(g) : m < n + 1 => g[m] \in h
        BY <3>1, <3>2, <3>3, <3>4
      <4> HIDE DEF k, g, n, h
      <4>5. CallOK(k, h, leases, run)
        BY <3>1, <3>4, <4>3, <4>4 DEF CallOK
      <4> QED
        BY <1>2, <2>3, <4>1, <4>2, <4>5, GoOn DEF IInv, h
    <3>5. CASE ~(n < Len(g) /\ c[cl].op # "action")
      <4> DEFINE k == [c[cl] EXCEPT !.pc = "act"]
      <4>1. c' = [c EXCEPT ![cl] = k]
        BY <2>3, <3>5 DEF Goto
      <4>2. k \in CallRec
        BY <1>1 DEF CallRec, Pcs
      <4>3. /\ k.pc = "act" /\ k.group = g /\ k.op = c[cl].op /\ k.user = c[cl].user
            /\ k.arg = c[cl].arg
        BY <1>1 DEF CallRec
      <4>4. c[cl].op # "action" => BoardsOf(g) \subseteq h
        <5> SUFFICES ASSUME c[cl].op # "action", NEW m \in 1..Len(g) PROVE g[m] \in h
          BY DEF BoardsOf
        <5>1. n = Len(g)
          BY <3>1, <3>2, <3>5
        <5>2. m < n \/ m = n
          BY <3>2, <5>1
        <5> QED
          BY <3>1, <3>3, <5>2
      <4>5. Head(g) \in h
        <5>1. Head(g) = g[1] /\ 1 \in 1..Len(g)
          BY <3>2
        <5>2. 1 < n \/ n = 1
          BY <3>1, <3>2
        <5> QED
          BY <3>1, <3>3, <5>1, <5>2
      <4> HIDE DEF k, g, n, h
      <4>6. CallOK(k, h, leases, run)
        BY <3>1, <4>3, <4>4, <4>5 DEF CallOK
      <4> QED
        BY <1>2, <2>3, <4>1, <4>2, <4>6, GoOn DEF IInv, h
    <3> QED
      BY <3>4, <3>5
  <2> QED
    BY <2>1, <2>2, <2>3 DEF require_lease, can_manage_run
<1> QED
  BY <1>2, <1>3, UserFrame, LeaseFrame, RunFrame, JobFrame DEF IInv

\* The calls on the coordinator: a run is created, gets its owner, is played
\* again or ended.
LEMMA RunStep ==
  ASSUME IInv, NEW cl \in Clients, create(cl) \/ set_run_owner(cl) \/ control(cl)
  PROVE  IInv'
<1>1. c[cl] \in CallRec /\ CallOK(c[cl], held[cl], leases, run)
  BY DEF IInv, CallInv
<1>2. UNCHANGED <<users, leases, on, programs>>
  BY DEF create, set_run_owner, control
<1>3. CASE create(cl)
  <2>1. c[cl].pc = "act" /\ c[cl].group \in Groups
    BY <1>1, <1>3 DEF create, CallOK
  <2>2. ASSUME NEW r \in Runs, UNCHANGED held,
               run' = [run EXCEPT ![r] = [group |-> c[cl].group, owner |-> None, state |-> "active"]],
               c' = [c EXCEPT ![cl].pc = "set_run_owner", ![cl].arg = r]
        PROVE  RunInv' /\ CallInv'
    <3> DEFINE k == [c[cl] EXCEPT !.pc = "set_run_owner", !.arg = r]
    <3>1. RunInv' /\ \A q \in Runs : run[q].state # "none" => run'[q].state # "none"
      BY <2>1, <2>2 DEF IInv, RunInv, RunRec
    <3>2. c' = [c EXCEPT ![cl] = k]
      BY <2>2 DEF IInv, CallInv, CallRec
    <3>3. k \in CallRec /\ k.pc = "set_run_owner" /\ k.user = c[cl].user
      BY <1>1 DEF CallRec, Pcs
    <3> HIDE DEF k
    <3>4. CallOK(k, held[cl], leases, run')
      BY <1>1, <2>1, <3>3 DEF CallOK
    <3> QED
      BY <1>2, <2>2, <3>1, <3>2, <3>3, <3>4, GoOn DEF IInv
  <2>3. ASSUME Return(cl), UNCHANGED run PROVE RunInv' /\ CallInv'
    BY <1>2, <2>3, ReturnCall, RunFrame DEF IInv
  <2>4. RunInv' /\ CallInv'
    BY <1>3, <2>2, <2>3 DEF create
  <2> QED
    BY <1>2, <2>4, UserFrame, LeaseFrame, JobFrame DEF IInv
<1>4. CASE set_run_owner(cl)
  <2>1. c[cl].user \in Users
    BY <1>1, <1>4 DEF set_run_owner, CallOK
  <2>2. run' = [run EXCEPT ![c[cl].arg].owner = c[cl].user] /\ Return(cl)
    BY <1>4 DEF set_run_owner
  <2>3. RunInv' /\ \A r \in Runs : run[r].state # "none" => run'[r].state # "none"
    BY <2>1, <2>2 DEF IInv, RunInv, RunRec
  <2>4. CallInv'
    BY <1>2, <2>2, <2>3, ReturnCall DEF IInv
  <2> QED
    BY <1>2, <2>3, <2>4, UserFrame, LeaseFrame, JobFrame DEF IInv
<1>5. CASE control(cl)
  <2>1. c[cl].arg \in Runs /\ run[c[cl].arg].state # "none"
    BY <1>1, <1>5 DEF control, CallOK
  <2>2. PICK s \in {run[c[cl].arg].state, "off"} : run' = [run EXCEPT ![c[cl].arg].state = s]
    BY <1>5 DEF control
  <2>3. RunInv' /\ \A r \in Runs : run[r].state # "none" => run'[r].state # "none"
    BY <2>1, <2>2 DEF IInv, RunInv, RunRec
  <2>4. CallInv'
    BY <1>2, <1>5, <2>3, ReturnCall DEF IInv, control
  <2> QED
    BY <1>2, <2>3, <2>4, UserFrame, LeaseFrame, JobFrame DEF IInv
<1> QED
  BY <1>3, <1>4, <1>5

\* A run that ends by itself and a session that expires concern no request.
LEMMA OtherStep ==
  ASSUME IInv, (\E r \in Runs : run_ends(r)) \/ (\E cl \in Clients : expire(cl))
  PROVE  IInv'
<1>1. ASSUME NEW r \in Runs, run_ends(r) PROVE IInv'
  <2>1. UNCHANGED <<users, leases, on, programs, c, held>>
    BY <1>1 DEF run_ends
  <2>2. RunInv' /\ \A q \in Runs : run[q].state # "none" => run'[q].state # "none"
    BY <1>1 DEF run_ends, IInv, RunInv, RunRec
  <2>3. CallInv'
    BY <2>1, <2>2, CallFrame DEF IInv
  <2> QED
    BY <2>1, <2>2, <2>3, UserFrame, LeaseFrame, JobFrame DEF IInv
<1>2. ASSUME NEW cl \in Clients, expire(cl) PROVE IInv'
  <2>1. UNCHANGED <<leases, run, programs, c, held>>
    BY <1>2 DEF expire
  <2>2. UserInv'
    BY <1>2 DEF expire, IInv, UserInv
  <2>3. CallInv'
    BY <2>1, CallFrame DEF IInv
  <2> QED
    BY <2>1, <2>2, <2>3, LeaseFrame, RunFrame, JobFrame DEF IInv
<1> QED
  BY <1>1, <1>2

\* The request for a programming job: two checks, then the job.
LEMMA ProgramStep ==
  ASSUME IInv, NEW cl \in Clients, check_lease(cl) \/ check_run(cl) \/ create_program_job(cl)
  PROVE  IInv'
<1>1. c[cl] \in CallRec /\ CallOK(c[cl], held[cl], leases, run)
  BY DEF IInv, CallInv
<1>2. UNCHANGED <<users, leases, on, run>>
  BY DEF check_lease, check_run, create_program_job
<1>3. c[cl].pc \in {"check_lease", "check_run", "create_job"} /\ c[cl].arg \in Boards
  BY <1>1 DEF check_lease, check_run, create_program_job, CallOK
<1>4. ASSUME NEW pc \in {"check_run", "create_job"}, Goto(cl, pc), UNCHANGED held
      PROVE  CallInv'
  <2> DEFINE k == [c[cl] EXCEPT !.pc = pc]
  <2>1. c' = [c EXCEPT ![cl] = k]
    BY <1>4 DEF Goto
  <2>2. k \in CallRec /\ k.pc = pc /\ k.user = c[cl].user /\ k.arg = c[cl].arg
    BY <1>1 DEF CallRec, Pcs
  <2> HIDE DEF k
  <2>3. CallOK(k, held[cl], leases, run)
    BY <1>1, <1>3, <2>2 DEF CallOK
  <2> QED
    BY <1>2, <1>4, <2>1, <2>2, <2>3, GoOn DEF IInv
<1>5. CallInv'
  <2>1. CASE Return(cl)
    BY <1>2, <2>1, ReturnCall DEF IInv
  <2> QED
    BY <1>4, <2>1 DEF check_lease, check_run, create_program_job
<1>6. JobInv'
  <2>1. CASE UNCHANGED programs
    BY <2>1, JobFrame DEF IInv
  <2>2. ASSUME NEW j \in Jobs, job[j].state = "none", UNCHANGED lock,
               \A x \in Jobs : ~(job[x].board = c[cl].arg /\ job[x].state \in ActiveJob),
               job' = [job EXCEPT ![j] = [board |-> c[cl].arg, state |-> "QUEUED"]],
               thread' = [thread EXCEPT ![j] = "start"]
        PROVE  JobInv'
    <3>1. job' \in [Jobs -> JobRec] /\ thread' \in [Jobs -> {"none", "start", "preflight", "xsct"}]
      BY <1>3, <2>2 DEF IInv, JobInv, JobRec, ActiveJob
    <3>2. \A x \in Jobs : thread'[x] # "none" => job'[x].state \in ActiveJob
      BY <2>2 DEF IInv, JobInv, JobRec, ActiveJob
    <3>3. \A x \in Jobs : thread'[x] \in {"preflight", "xsct"} => lock' = x
      BY <2>2 DEF IInv, JobInv, OneDeployment
    <3>4. ASSUME NEW x \in Jobs, NEW y \in Jobs, job'[x].board = job'[y].board,
                 job'[x].state \in ActiveJob, job'[y].state \in ActiveJob
          PROVE  x = y
      <4>1. job'[j].board = c[cl].arg
        BY <2>2 DEF IInv, JobInv
      <4>2. \A z \in Jobs : z # j => job'[z] = job[z]
        BY <2>2 DEF IInv, JobInv
      <4>3. CASE x = j /\ y # j
        BY <2>2, <3>4, <4>1, <4>2, <4>3
      <4>4. CASE x # j /\ y = j
        BY <2>2, <3>4, <4>1, <4>2, <4>4
      <4>5. CASE x # j /\ y # j
        BY <3>4, <4>2, <4>5 DEF IInv, JobInv, OneDeployment
      <4> QED
        BY <4>3, <4>4, <4>5
    <3> QED
      BY <2>2, <3>1, <3>2, <3>3, <3>4 DEF IInv, JobInv, OneDeployment
  <2> QED
    BY <2>1, <2>2 DEF check_lease, check_run, create_program_job, programs
<1> QED
  BY <1>2, <1>5, <1>6, UserFrame, LeaseFrame, RunFrame DEF IInv

\* A step of the thread of job j, under the lock or taking it: the other jobs
\* are left alone, and no other thread is past its start.
LEMMA ThreadStep ==
  ASSUME IInv, NEW j \in Jobs, JobStep(j)
  PROVE  IInv'
<1>1. UNCHANGED <<users, leases, on, run, c, held>>
  BY DEF JobStep, _run, deploy, finish, rest
<1>2. CallInv'
  BY <1>1, CallFrame DEF IInv
<1>3. JobInv'
  <2>1. thread[j] # "none" /\ job[j].state \in ActiveJob
    BY DEF JobStep, _run, deploy, finish, IInv, JobInv
  <2>2. \A x \in Jobs : x # j => thread[x] \notin {"preflight", "xsct"}
    BY NoneAssumption DEF JobStep, _run, deploy, finish, IInv, JobInv, OneDeployment
  <2>3. PICK s \in {"PREFLIGHT", "RUNNING", "SUCCEEDED", "FAILED"}, t \in {"preflight", "xsct", "none"} :
          /\ job' = [job EXCEPT ![j].state = s] /\ thread' = [thread EXCEPT ![j] = t]
          /\ s \in ActiveJob <=> t # "none"
          /\ t # "none" => lock' = j
          /\ lock' \in Jobs \cup {None}
    BY DEF JobStep, _run, deploy, finish, update_program_job, IInv, JobInv, OneDeployment, ActiveJob
  <2>4. job' \in [Jobs -> JobRec] /\ thread' \in [Jobs -> {"none", "start", "preflight", "xsct"}]
    BY <2>3 DEF IInv, JobInv, JobRec, ActiveJob
  <2>5. \A x \in Jobs : /\ job'[x].board = job[x].board
                        /\ job'[x].state = IF x = j THEN s ELSE job[x].state
                        /\ thread'[x] = IF x = j THEN t ELSE thread[x]
    BY <2>3 DEF IInv, JobInv, JobRec
  <2>6. \A x \in Jobs : thread'[x] # "none" => job'[x].state \in ActiveJob
    BY <2>3, <2>5 DEF IInv, JobInv
  <2>7. \A x \in Jobs : job'[x].state \in ActiveJob => job[x].state \in ActiveJob
    BY <2>1, <2>5
  <2>8. OneDeployment'
    <3>1. \A x, y \in Jobs :
            (job'[x].board = job'[y].board /\ job'[x].state \in ActiveJob /\ job'[y].state \in ActiveJob)
              => x = y
      BY <2>5, <2>7 DEF IInv, JobInv, OneDeployment
    <3>2. \A x \in Jobs : thread'[x] \in {"preflight", "xsct"} => lock' = x
      BY <2>2, <2>3, <2>5
    <3> QED
      BY <3>1, <3>2 DEF OneDeployment
  <2> QED
    BY <2>3, <2>4, <2>6, <2>8 DEF JobInv
<1> QED
  BY <1>1, <1>2, <1>3, UserFrame, LeaseFrame, RunFrame DEF IInv

\* Every step keeps the inductive invariant.
LEMMA StepIInv == IInv /\ [Next]_vars => IInv'
<1> SUFFICES ASSUME IInv, [Next]_vars PROVE IInv'
  OBVIOUS
<1>1. ASSUME NEW cl \in Clients, Step(cl) PROVE IInv'
  BY <1>1, UserStep, LeaseStep, ReleaseStep, ForceStep, CheckStep, RunStep, ProgramStep DEF Step
<1>2. CASE UNCHANGED vars
  <2>1. UNCHANGED <<users, leases, on, run, programs, c, held>>
    BY <1>2 DEF vars, users, programs
  <2> QED
    BY <2>1, UserFrame, LeaseFrame, RunFrame, JobFrame, CallFrame DEF IInv
<1> QED
  BY <1>1, <1>2, CallStep, OtherStep, ThreadStep DEF Next

\* The inductive invariant holds in every behaviour.
THEOREM InvariantHolds == Spec => []IInv
  BY InitIInv, StepIInv, PTL DEF Spec

\* Every table and every request is well typed.
THEOREM AccessTypeCorrect == Spec => []TypeOK
<1>1. IInv => TypeOK
  BY DEF IInv, UserInv, LeaseInv, RunInv, RunRec, JobInv, JobRec, CallInv, CallRec, TypeOK
<1> QED
  BY <1>1, InvariantHolds, PTL

\* Whatever requests overlap, a board is leased to one user, has one unfinished
\* programming job, and one thread programs at a time (lease_board,
\* create_program_job, _run).
THEOREM OneHolderSafe == Spec => []OneHolder
<1>1. IInv => OneHolder
  BY DEF IInv, LeaseInv, JobInv, OneHolder
<1> QED
  BY <1>1, InvariantHolds, PTL

\* A request that reaches the coordinator has had the leases it needs: the one
\* of every board of create_run and play_run, the first of run_action.
THEOREM ControlSafe == Spec => []ControlHeldLease
<1>1. IInv => ControlHeldLease
  BY DEF IInv, CallInv, CallOK, ControlHeldLease
<1> QED
  BY <1>1, InvariantHolds, PTL

\* A lease ends only in a request of its holder or of an administrator
\* (release_board, force_release_board).
THEOREM LeaseEndsSafe == Spec => LeaseEndsByRight
<1> DEFINE Right(l) ==
      \E cl \in Clients : /\ c[cl].pc \in {"release", "force_release"} /\ c'[cl].pc = "idle"
                          /\ c[cl].arg = l[1]
                          /\ c[cl].user = l[2] \/ (c[cl].op = "force" /\ c[cl].admin)
<1>1. IInv /\ [Next]_vars => [\A l \in leases \ leases' : Right(l)]_vars
  <2> SUFFICES ASSUME IInv, Next, NEW l \in leases \ leases' PROVE Right(l)
    BY DEF vars
  <2>1. ASSUME NEW cl \in Clients, release(cl) \/ force_release(cl) PROVE Right(l)
    <3>1. c'[cl].pc = "idle"
      BY <2>1 DEF release, force_release, release_board, Return, NoCall, IInv, CallInv
    <3>2. c[cl].arg = l[1]
      BY <2>1 DEF release, force_release, release_board
    <3>3. CASE release(cl)
      <4>1. c[cl].pc = "release" /\ c[cl].user = l[2]
        BY <3>3 DEF release, release_board
      <4> QED
        BY <3>1, <3>2, <4>1
    <3>4. CASE force_release(cl)
      <4>1. c[cl].pc = "force_release" /\ c[cl].op = "force" /\ c[cl].admin
        BY <3>4 DEF force_release, IInv, CallInv, CallOK
      <4> QED
        BY <3>1, <3>2, <4>1
    <3> QED
      BY <2>1, <3>3, <3>4
  <2>2. ASSUME NEW cl \in Clients, Step(cl), ~release(cl), ~force_release(cl) PROVE leases \subseteq leases'
    BY <2>2 DEF Step, create_session, logout, create_user, update_user, lease_board, update_board,
                force_release_board, force_abort, require_lease, can_manage_run, create,
                set_run_owner, control, check_lease, check_run, create_program_job
  <2>3. ASSUME NEW cl \in Clients, Call(cl) \/ expire(cl) PROVE leases' = leases
    BY <2>3 DEF Call, current_user, authenticate, expire
  <2>4. ASSUME NEW r \in Runs, run_ends(r) PROVE leases' = leases
    BY <2>4 DEF run_ends
  <2>5. ASSUME NEW j \in Jobs, JobStep(j) PROVE leases' = leases
    BY <2>5 DEF JobStep, _run, deploy, finish, rest
  <2> QED
    BY <2>1, <2>2, <2>3, <2>4, <2>5 DEF Next
<1> QED
  BY <1>1, InvariantHolds, PTL DEF Spec, LeaseEndsByRight
=============================================================================
