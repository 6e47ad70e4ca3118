------------------------------ MODULE Access -------------------------------
(***************************************************************************)
(* Who may do what to a board: the users, login sessions, board leases,    *)
(* run owners and programming jobs of ManagementStore, the API handlers of *)
(* webapp/main.py that check and change them, and the programming threads  *)
(* of ProgrammerService.                                                   *)
(*                                                                         *)
(* A step is one SQLite transaction (ManagementStore serialises them), one *)
(* look at RunCoordinator or one call on it.  A client has one request in  *)
(* flight: c.user and c.admin are what require_mutation_user read when it  *)
(* was admitted, and stay what they were for the rest of the request.      *)
(* RunCoordinator itself is WebRuns; here a run is only on or off.         *)
(*                                                                         *)
(* History: held[cl] holds the boards that the user of the request of cl   *)
(* has leased at some moment since the request was admitted.               *)
(***************************************************************************)
EXTENDS Naturals, Sequences, FiniteSets

CONSTANTS Users, Seed,         \* Seed is the administrator that _seed inserts
          Clients, Boards, Runs, Jobs,
          Groups,              \* the lists of boards a run may ask for
          None, MaxCalls       \* bound: requests

ASSUME SeedAssumption == Seed \in Users
ASSUME NoneAssumption == None \notin Users \cup Jobs
ASSUME GroupsAssumption == \A g \in Groups : g \in Seq(Boards) /\ g # <<>>

VARIABLES role, enabled, session, leases, on, run, job, thread, lock, c, held, calls

vars == <<role, enabled, session, leases, on, run, job, thread, lock, c, held, calls>>

NoCall == [pc |-> "idle", op |-> "none", user |-> None, admin |-> FALSE,
           arg |-> None, run |-> None, group |-> <<>>, i |-> 1]
NoRun == [group |-> <<>>, owner |-> None, state |-> "none"]
NoJob == [board |-> None, state |-> "none"]
ActiveJob == {"QUEUED", "PREFLIGHT", "RUNNING"}

Init ==
  /\ role = [u \in Users |-> IF u = Seed THEN "admin" ELSE "none"]
  /\ enabled = [u \in Users |-> u = Seed]
  /\ session = [cl \in Clients |-> None]
  /\ leases = {}
  /\ on = [b \in Boards |-> TRUE]
  /\ run = [r \in Runs |-> NoRun]
  /\ job = [j \in Jobs |-> NoJob]
  /\ thread = [j \in Jobs |-> "none"]
  /\ lock = None
  /\ c = [cl \in Clients |-> NoCall]
  /\ held = [cl \in Clients |-> {}]
  /\ calls = 0

users == <<role, enabled, session>>
programs == <<job, thread, lock>>

Goto(cl, pc) == c' = [c EXCEPT ![cl].pc = pc]
Return(cl) ==
  /\ c' = [c EXCEPT ![cl] = NoCall]
  /\ held' = [held EXCEPT ![cl] = {}]

BoardsOf(group) == {group[k] : k \in 1..Len(group)}
active_lease(b, u) == <<b, u>> \in leases
Leased(b) == \E u \in Users : active_lease(b, u)

-----------------------------------------------------------------------------
(* Sessions.  A login reads the user and inserts the session in two steps.  *)

authenticate(cl, u) ==
  /\ c[cl].pc = "idle" /\ calls < MaxCalls
  /\ role[u] # "none" /\ enabled[u]
  /\ c' = [c EXCEPT ![cl] = [NoCall EXCEPT !.pc = "create_session", !.user = u]]
  /\ calls' = calls + 1
  /\ UNCHANGED <<users, leases, on, run, programs, held>>

create_session(cl) ==
  /\ c[cl].pc = "create_session"
  /\ session' = [session EXCEPT ![cl] = c[cl].user]
  /\ Return(cl)
  /\ UNCHANGED <<role, enabled, leases, on, run, programs, calls>>

session_user(cl) == IF session[cl] # None /\ enabled[session[cl]] THEN session[cl] ELSE None

\* require_mutation_user and, for the administrator's operations, require_admin.
AdminOps == {"create_user", "update_user", "force", "program", "update_board"}

current_user(cl, op, arg, group, first) ==
  /\ c[cl].pc = "idle" /\ calls < MaxCalls
  /\ session_user(cl) # None
  /\ op \in AdminOps => role[session_user(cl)] = "admin"
  /\ c' = [c EXCEPT ![cl] = [pc |-> first, op |-> op, user |-> session_user(cl),
                             admin |-> role[session_user(cl)] = "admin",
                             arg |-> arg, run |-> None, group |-> group, i |-> 1]]
  /\ held' = [held EXCEPT ![cl] = {b \in Boards : active_lease(b, session_user(cl))}]
  /\ calls' = calls + 1
  /\ UNCHANGED <<users, leases, on, run, programs>>

logout(cl) ==
  /\ c[cl].pc = "logout"
  /\ session' = [session EXCEPT ![cl] = None]
  /\ Return(cl)
  /\ UNCHANGED <<role, enabled, leases, on, run, programs, calls>>

\* Fourteen days pass.
expire(cl) ==
  /\ session[cl] # None
  /\ session' = [session EXCEPT ![cl] = None]
  /\ UNCHANGED <<role, enabled, leases, on, run, programs, c, held, calls>>

create_user(cl) ==
  /\ c[cl].pc = "create_user"
  /\ LET u == c[cl].arg
     IN \E r \in {"user", "admin"} :
          /\ role' = [role EXCEPT ![u] = IF @ = "none" THEN r ELSE @]
          /\ enabled' = [enabled EXCEPT ![u] = IF role[u] = "none" THEN TRUE ELSE @]
  /\ Return(cl)
  /\ UNCHANGED <<session, leases, on, run, programs, calls>>

\* An administrator may not disable itself; it may still give up its role.
update_user(cl) ==
  /\ c[cl].pc = "update_user"
  /\ LET u == c[cl].arg
     IN \E r \in {"user", "admin"}, e \in BOOLEAN :
          /\ u = c[cl].user => e
          /\ role[u] # "none"
          /\ role' = [role EXCEPT ![u] = r]
          /\ enabled' = [enabled EXCEPT ![u] = e]
          /\ session' = [k \in Clients |-> IF ~e /\ session[k] = u THEN None ELSE session[k]]
  /\ Return(cl)
  /\ UNCHANGED <<leases, on, run, programs, calls>>

-----------------------------------------------------------------------------
(* Leases.                                                                  *)

\* Variant: the lease is inserted without looking for another one.
lease_board_blind(cl) ==
  /\ c[cl].pc = "lease"
  /\ leases' = IF on[c[cl].arg] THEN leases \cup {<<c[cl].arg, c[cl].user>>} ELSE leases
  /\ held' = [k \in Clients |-> IF k = cl THEN {} ELSE
                IF c[k].user = c[cl].user /\ leases' # leases
                THEN held[k] \cup {c[cl].arg} ELSE held[k]]
  /\ c' = [c EXCEPT ![cl] = NoCall]
  /\ UNCHANGED <<users, on, run, programs, calls>>

lease_board(cl) ==
  /\ c[cl].pc = "lease"
  /\ LET b == c[cl].arg
         ok == on[b] /\ ~Leased(b)
     IN /\ leases' = IF ok THEN leases \cup {<<b, c[cl].user>>} ELSE leases
        /\ held' = [k \in Clients |-> IF k = cl THEN {} ELSE
                      IF ok /\ c[k].user = c[cl].user THEN held[k] \cup {b} ELSE held[k]]
  /\ c' = [c EXCEPT ![cl] = NoCall]
  /\ UNCHANGED <<users, on, run, programs, calls>>

\* Variant: whoever asks may release the board.
release_board_any(cl, force) ==
  /\ leases' = {l \in leases : l[1] # c[cl].arg}
  /\ Return(cl)
  /\ UNCHANGED <<users, on, run, programs, calls>>

\* The transaction of release_board: the lease read in it decides.
release_board(cl, force) ==
  /\ leases' = {l \in leases : l[1] # c[cl].arg \/ (l[2] # c[cl].user /\ ~force)}
  /\ Return(cl)
  /\ UNCHANGED <<users, on, run, programs, calls>>

release(cl) == c[cl].pc = "release" /\ release_board(cl, FALSE)

Holds(r, b) == run[r].state = "active" /\ b \in BoardsOf(run[r].group)

\* force_release_board: the active run is read, aborted (abort swallows the
\* failures of the boards), and the lease ended.
force_release_board(cl) ==
  /\ c[cl].pc = "force"
  /\ \/ \E r \in Runs : /\ Holds(r, c[cl].arg)
                        /\ c' = [c EXCEPT ![cl].pc = "force_abort", ![cl].run = r]
     \/ (\A r \in Runs : ~Holds(r, c[cl].arg)) /\ Goto(cl, "force_release")
  /\ UNCHANGED <<users, leases, on, run, programs, held, calls>>

force_abort(cl) ==
  /\ c[cl].pc = "force_abort"
  /\ run' = [run EXCEPT ![c[cl].run].state = "off"]
  /\ Goto(cl, "force_release")
  /\ UNCHANGED <<users, leases, on, programs, held, calls>>

force_release(cl) == c[cl].pc = "force_release" /\ release_board(cl, TRUE)

update_board(cl) ==
  /\ c[cl].pc = "update_board"
  /\ \E e \in BOOLEAN : on' = [on EXCEPT ![c[cl].arg] = e]
  /\ Return(cl)
  /\ UNCHANGED <<users, leases, run, programs, calls>>

-----------------------------------------------------------------------------
(* Control of a live run.                                                   *)

\* Variant: only the first board of the group needs a lease.
require_lease_first(cl) ==
  /\ c[cl].pc = "require_lease"
  /\ \/ /\ active_lease(c[cl].group[c[cl].i], c[cl].user)
        /\ Goto(cl, "act") /\ UNCHANGED held
     \/ Return(cl)
  /\ UNCHANGED <<users, leases, on, run, programs, calls>>

\* require_lease on the boards in turn, each in a transaction of its own.  A
\* run is created only if _require_live_board_ready accepts the board as well;
\* the status it reads is the board's, so that check may fail at any time.
require_lease(cl) ==
  /\ c[cl].pc = "require_lease"
  /\ \/ /\ active_lease(c[cl].group[c[cl].i], c[cl].user)
        /\ c[cl].op = "create" => on[c[cl].group[c[cl].i]]
        /\ IF c[cl].i < Len(c[cl].group) /\ c[cl].op # "action"
           THEN c' = [c EXCEPT ![cl].i = @ + 1]
           ELSE Goto(cl, "act")
        /\ UNCHANGED held
     \/ /\ c[cl].op = "create" \/ ~active_lease(c[cl].group[c[cl].i], c[cl].user)
        /\ Return(cl)
  /\ UNCHANGED <<users, leases, on, run, programs, calls>>

\* _check_run_control (play) and run_action (action), which asks for the lease
\* on the first board of the run only.
can_manage_run(cl) ==
  /\ c[cl].pc = "can_manage"
  /\ LET ok == c[cl].admin \/ run[c[cl].arg].owner = c[cl].user
     IN /\ ok => /\ c' = [c EXCEPT ![cl].pc = "require_lease", ![cl].group = run[c[cl].arg].group]
                 /\ UNCHANGED held
        /\ ~ok => Return(cl)
  /\ UNCHANGED <<users, leases, on, run, programs, calls>>

\* runs.create: the coordinator refuses a board that an active run holds.
create(cl) ==
  /\ c[cl].pc = "act" /\ c[cl].op = "create"
  /\ \/ \E r \in Runs :
          /\ run[r].state = "none"
          /\ \A q \in Runs, b \in BoardsOf(c[cl].group) : ~Holds(q, b)
          /\ run' = [run EXCEPT ![r] = [group |-> c[cl].group, owner |-> None, state |-> "active"]]
          /\ c' = [c EXCEPT ![cl].pc = "set_run_owner", ![cl].arg = r]
          /\ UNCHANGED held
     \/ /\ \E q \in Runs, b \in BoardsOf(c[cl].group) : Holds(q, b)
        /\ Return(cl) /\ UNCHANGED run
  /\ UNCHANGED <<users, leases, on, programs, calls>>

set_run_owner(cl) ==
  /\ c[cl].pc = "set_run_owner"
  /\ run' = [run EXCEPT ![c[cl].arg].owner = c[cl].user]
  /\ Return(cl)
  /\ UNCHANGED <<users, leases, on, programs, calls>>

\* play_loaded starts the waveform again; abort and a fault of the run end it.
control(cl) ==
  /\ c[cl].pc = "act" /\ c[cl].op \in {"play", "action"}
  /\ \E s \in {run[c[cl].arg].state, "off"} : run' = [run EXCEPT ![c[cl].arg].state = s]
  /\ Return(cl)
  /\ UNCHANGED <<users, leases, on, programs, calls>>

run_ends(r) ==
  /\ run[r].state = "active"
  /\ run' = [run EXCEPT ![r].state = "off"]
  /\ UNCHANGED <<users, leases, on, programs, c, held, calls>>

-----------------------------------------------------------------------------
(* Programming.                                                             *)

\* ProgrammerService.create: the lease, then the active run, then (with the
\* artifact and the JTAG cable, which may be missing) the job.
check_lease(cl) ==
  /\ c[cl].pc = "check_lease"
  /\ \/ ~Leased(c[cl].arg) /\ on[c[cl].arg] /\ Goto(cl, "check_run") /\ UNCHANGED held
     \/ Return(cl)
  /\ UNCHANGED <<users, leases, on, run, programs, calls>>

check_run(cl) ==
  /\ c[cl].pc = "check_run"
  /\ \/ /\ \A r \in Runs : ~Holds(r, c[cl].arg)
        /\ Goto(cl, "create_job") /\ UNCHANGED held
     \/ Return(cl)
  /\ UNCHANGED <<users, leases, on, run, programs, calls>>

\* Variant: a queued job does not yet own the board.
create_program_job_running(cl) ==
  /\ c[cl].pc = "create_job"
  /\ \E j \in Jobs :
       /\ job[j].state = "none"
       /\ \A k \in Jobs : job[k].board = c[cl].arg => job[k].state # "RUNNING"
       /\ job' = [job EXCEPT ![j] = [board |-> c[cl].arg, state |-> "QUEUED"]]
       /\ thread' = [thread EXCEPT ![j] = "start"]
  /\ Return(cl)
  /\ UNCHANGED <<users, leases, on, run, lock, calls>>

create_program_job(cl) ==
  /\ c[cl].pc = "create_job"
  /\ LET active == \E k \in Jobs : job[k].board = c[cl].arg /\ job[k].state \in ActiveJob
     IN \/ /\ ~active
           /\ \E j \in Jobs :
                /\ job[j].state = "none"
                /\ job' = [job EXCEPT ![j] = [board |-> c[cl].arg, state |-> "QUEUED"]]
                /\ thread' = [thread EXCEPT ![j] = "start"]
        \/ active /\ UNCHANGED <<job, thread>>
  /\ Return(cl)
  /\ UNCHANGED <<users, leases, on, run, lock, calls>>

rest == <<users, leases, on, run, c, held, calls>>

update_program_job(j, s) == job' = [job EXCEPT ![j].state = s]

\* _run: under the lock of the service, one board at a time.
_run(j) ==
  /\ thread[j] = "start" /\ lock = None
  /\ lock' = j
  /\ update_program_job(j, "PREFLIGHT")
  /\ thread' = [thread EXCEPT ![j] = "preflight"]
  /\ UNCHANGED rest

deploy(j) ==
  /\ thread[j] = "preflight"
  /\ update_program_job(j, "RUNNING")
  /\ thread' = [thread EXCEPT ![j] = "xsct"]
  /\ UNCHANGED <<lock, rest>>

\* XSCT ends, fails or is killed after timeout_s; _post_verify asks the board.
finish(j, s) ==
  /\ \/ thread[j] = "xsct"
     \/ thread[j] = "preflight" /\ s = "FAILED"
  /\ update_program_job(j, s)
  /\ thread' = [thread EXCEPT ![j] = "none"]
  /\ lock' = None
  /\ UNCHANGED rest

-----------------------------------------------------------------------------
Call(cl) ==
  \/ current_user(cl, "logout", None, <<>>, "logout")
  \/ \E u \in Users : \/ authenticate(cl, u)
                      \/ current_user(cl, "create_user", u, <<>>, "create_user")
                      \/ current_user(cl, "update_user", u, <<>>, "update_user")
  \/ \E b \in Boards : \/ current_user(cl, "lease", b, <<>>, "lease")
                       \/ current_user(cl, "release", b, <<>>, "release")
                       \/ current_user(cl, "force", b, <<>>, "force")
                       \/ current_user(cl, "update_board", b, <<>>, "update_board")
                       \/ current_user(cl, "program", b, <<>>, "check_lease")
  \/ \E g \in Groups : current_user(cl, "create", None, g, "require_lease")
  \/ \E r \in Runs, op \in {"play", "action"} :
       run[r].state # "none" /\ current_user(cl, op, r, <<>>, "can_manage")

Step(cl) ==
  \/ create_session(cl) \/ logout(cl) \/ create_user(cl) \/ update_user(cl)
  \/ lease_board(cl) \/ release(cl) \/ update_board(cl)
  \/ force_release_board(cl) \/ force_abort(cl) \/ force_release(cl)
  \/ require_lease(cl) \/ can_manage_run(cl) \/ create(cl) \/ set_run_owner(cl) \/ control(cl)
  \/ check_lease(cl) \/ check_run(cl) \/ create_program_job(cl)

JobStep(j) == _run(j) \/ deploy(j) \/ \E s \in {"SUCCEEDED", "FAILED"} : finish(j, s)

Next ==
  \/ \E cl \in Clients : Call(cl) \/ Step(cl) \/ expire(cl)
  \/ \E r \in Runs : run_ends(r)
  \/ \E j \in Jobs : JobStep(j)

Spec == Init /\ [][Next]_vars

-----------------------------------------------------------------------------
(* Properties.                                                              *)

TypeOK ==
  /\ role \in [Users -> {"none", "user", "admin"}]
  /\ enabled \in [Users -> BOOLEAN]
  /\ session \in [Clients -> Users \cup {None}]
  /\ leases \subseteq Boards \X Users
  /\ on \in [Boards -> BOOLEAN]
  /\ \A r \in Runs : run[r].state \in {"none", "active", "off"} /\ run[r].group \in Groups \cup {<<>>}
  /\ \A j \in Jobs : job[j].state \in ActiveJob \cup {"none", "SUCCEEDED", "FAILED"}
  /\ lock \in Jobs \cup {None}
  /\ \A cl \in Clients : c[cl].user \in Users \cup {None} /\ held[cl] \subseteq Boards

\* A board is never leased to two users, whatever leases, releases and forced
\* releases overlap (lease_board, release_board).
OneLeasePerBoard ==
  \A l, m \in leases : l[1] = m[1] => l = m

\* A board has one unfinished programming job, and the job whose XSCT runs is
\* the one that holds the lock of ProgrammerService (create_program_job, _run).
OneDeployment ==
  /\ \A j, k \in Jobs :
       (job[j].board = job[k].board /\ job[j].state \in ActiveJob /\ job[k].state \in ActiveJob) => j = k
  /\ \A j \in Jobs : thread[j] \in {"preflight", "xsct"} => lock = j

\* What is exclusive has one holder, whatever requests overlap: the lease of a
\* board, the unfinished job of a board, the programmer.
OneHolder == OneLeasePerBoard /\ OneDeployment

\* A request reaches the coordinator for a board only if its user held the
\* lease on that board at some moment of the request: all the boards for
\* create_run and play_run, the first one of the run for run_action.
ControlHeldLease ==
  \A cl \in Clients :
    c[cl].pc = "act" =>
      /\ c[cl].op # "action" => BoardsOf(c[cl].group) \subseteq held[cl]
      /\ Head(c[cl].group) \in held[cl]

\* A lease ends only in a request of its holder or of a user who was an
\* administrator when the request was admitted (release_board).
LeaseEndsByRight ==
  [][\A l \in leases \ leases' :
       \E cl \in Clients : /\ c[cl].pc \in {"release", "force_release"} /\ c'[cl].pc = "idle"
                           /\ c[cl].arg = l[1]
                           /\ c[cl].user = l[2] \/ (c[cl].op = "force" /\ c[cl].admin)]_vars
=============================================================================
