--------------------------- MODULE WebRunsProofs ---------------------------
(***************************************************************************)
(* Invariance proofs for WebRuns, for every set of boards, runs, handlers  *)
(* and requests and any number of calls and restarts.  The inductive       *)
(* invariant says where each method may be and what it may rely on there   *)
(* (ThreadOK).                                                             *)
(***************************************************************************)
EXTENDS WebRuns, TLAPS

LoadedProgs == {"arm_loaded", "trigger_loaded", "play_loaded", "abort_loaded"}
Progs == {"none", "worker", "create", "arm", "start", "abort"} \cup LoadedProgs
FaultPcs == {"fault", "mute_fault", "release_fault"}
WorkerPcs == {"generate", "sync", "rfdc", "upload", "commit", "record", "loaded", "arm", "play",
              "played", "mute", "release", "finish"} \cup FaultPcs
Pcs == {"end", "prepare", "insert", "armed", "running", "aborted", "release_aborted", "recheck"}
         \cup WorkerPcs

ThreadRec == [prog : Progs, pc : Pcs, r : Runs \cup {NoRun}, i : Nat]
RowRec == [state : RunStates, loaded : BOOLEAN, sessions : SUBSET Boards]
BrdRec == [image : SUBSET Runs, sess : Runs \cup {NoRun, OneSession},
           st : BoardStates, by : Runs \cup {NoRun}]

TypeInv ==
  /\ simulation \in BOOLEAN
  /\ row \in [Runs -> RowRec]
  /\ req \in [Runs -> Requests \cup {NoRequest}]
  /\ claim \in [Boards -> Runs \cup {NoRun}]
  /\ th \in [Threads -> ThreadRec]
  /\ brd \in [Boards -> BrdRec]
  /\ dropped \subseteq Runs
  /\ crashes \in 0..MaxCrashes /\ calls \in 0..MaxCalls

\* The places in the method of a thread.
Place(prog, pc) ==
  \/ prog = "worker" /\ pc \in WorkerPcs
  \/ prog = "create" /\ pc \in {"prepare", "insert"}
  \/ prog = "arm" /\ pc \in {"arm", "armed"} \cup FaultPcs
  \/ prog = "start" /\ pc \in {"play", "running"} \cup FaultPcs
  \/ prog = "abort" /\ pc \in {"mute", "aborted", "release_aborted"}
  \/ prog = "arm_loaded" /\ pc = "arm"
  \/ prog = "trigger_loaded" /\ pc = "play"
  \/ prog = "play_loaded" /\ pc \in {"arm", "recheck", "play"}
  \/ prog = "abort_loaded" /\ pc = "mute"

InProgress == {"QUEUED", "GENERATING", "UPLOADING", "READY"}

Owns(r, R, C) == \A b \in Range(R[r].jobs) : C[b] = r
Released(r, C) == \A b \in Boards : C[b] # r

\* What thread t, which is k, relies on in the store S, the requests R, the
\* claims C and the runs D that abort or a fault has written.
ThreadOK(t, k, S, R, C, D) ==
  k # NoThread =>
    /\ k.r \in Runs /\ Place(k.prog, k.pc)
    /\ R[k.r] # NoRequest /\ k.i \in 1..Len(R[k.r].jobs)
    /\ t \in Runs <=> k.prog = "worker"
    /\ k.prog = "worker" => t = k.r
    /\ S[k.r].state = "none" <=> k.prog = "create"
    /\ k.prog = "create" => Owns(k.r, R, C)
    /\ k.prog = "worker" /\ k.r \notin D /\ k.pc # "finish" => Owns(k.r, R, C)
    /\ k.pc \in {"mute_fault", "release_fault", "release_aborted"} => k.r \in D
    /\ k.pc = "finish" \/ k.prog \in LoadedProgs => Released(k.r, C)
    /\ k.prog = "worker" /\ k.pc \in {"mute_fault", "release_fault"} => S[k.r].state \notin InProgress

ThreadInv == \A t \in Threads : ThreadOK(t, th[t], row, req, claim, dropped)

\* A run that nobody has posted has no record, and one thread creates a run.
NewRunInv ==
  /\ \A r \in Runs : req[r] = NoRequest => row[r].state = "none"
  /\ \A t, u \in Threads : (th[t].prog = "create" /\ th[u].prog = "create" /\ th[t].r = th[u].r) => t = u

\* In simulation the session of a board names the run whose image it holds.
BoardInv ==
  simulation => \A b \in Boards :
    /\ brd[b].sess \in Runs => brd[b].image = {brd[b].sess}
    /\ brd[b].st = "playing" => brd[b].by = brd[b].sess /\ brd[b].by \in Runs

IInv == TypeInv /\ ThreadInv /\ NewRunInv /\ NothingStranded /\ BoardInv

\* A thread is alive exactly when it is somewhere in its method.
LEMMA AliveIs ==
  ASSUME IInv, NEW t \in Threads
  PROVE  /\ Alive(t) <=> th[t] # NoThread
         /\ Alive(t) => ThreadOK(t, th[t], row, req, claim, dropped) /\ th[t].r \in Runs
<1>1. ThreadOK(t, th[t], row, req, claim, dropped)
  BY DEF IInv, ThreadInv
<1>2. NoThread.pc = "end"
  BY DEF NoThread
<1>3. th[t] # NoThread => th[t].pc # "end"
  BY <1>1 DEF ThreadOK, Place, WorkerPcs, FaultPcs
<1> QED
  BY <1>1, <1>2, <1>3 DEF Alive, ThreadOK

\* The boards of a run that has been posted.
LEMMA JobsAre ==
  ASSUME TypeInv, NEW r \in Runs, req[r] # NoRequest
  PROVE  /\ req[r].jobs \in Seq(Boards) /\ 1 \in 1..Len(req[r].jobs)
         /\ req[r].jobs[1] \in BoardIds(r) /\ BoardIds(r) \subseteq Boards
<1>1. req[r] \in Requests
  BY DEF TypeInv
<1>2. req[r].jobs \in Seq(Boards) /\ req[r].jobs # <<>>
  BY <1>1, RequestsAssumption
<1> QED
  BY <1>2 DEF BoardIds, Range

\* What releasing a group does to the claims.
LEMMA ReleaseGroup ==
  ASSUME TypeInv, NEW x \in Runs, _release_group(x)
  PROVE  /\ claim' \in [Boards -> Runs \cup {NoRun}]
         /\ Released(x, claim')
         /\ \A b \in Boards : claim'[b] = claim[b] \/ (claim[b] = x /\ claim'[b] = NoRun)
  BY NoRunAssumption DEF TypeInv, _release_group, Released

\* A step of thread t on its run x, which goes on as k, leaves the invariants of
\* all threads and of the claims intact if it keeps to these rules: it writes
\* the record of x only, into a state in progress only if it is the worker; it
\* only gives up claims of x, and those under the worker only after dropping
\* the run; it ends only with x released or in a state that can be aborted.
LEMMA ThreadStep ==
  ASSUME IInv, NEW t \in Threads, Alive(t), NEW x, x = th[t].r, NEW k \in ThreadRec,
         th' = [th EXCEPT ![t] = k], req' = req,
         dropped' \in {dropped, dropped \cup {x}},
         ThreadOK(t, k, row', req, claim', dropped'),
         k # NoThread => k.r = x /\ k.prog = th[t].prog,
         row' \in [Runs -> RowRec],
         \A r \in Runs : r # x => row'[r] = row[r],
         row'[x].state = "none" <=> row[x].state = "none",
         row'[x].state \in InProgress => t = x \/ row'[x].state = row[x].state,
         row'[x].state = "DONE" => row[x].state = "DONE" \/ Released(x, claim'),
         \A b \in Boards : claim'[b] = claim[b] \/ (claim[b] = x /\ claim'[b] = NoRun),
         claim' = claim \/ t = x \/ th[t].prog = "create" \/ x \in dropped,
         k = NoThread => /\ Released(x, claim') \/ row'[x].state \in {"ARMED", "RUNNING"}
                         /\ t = x => row'[x].state \notin InProgress
  PROVE  th' \in [Threads -> ThreadRec] /\ ThreadInv' /\ NewRunInv' /\ NothingStranded'
<1>1. /\ ThreadOK(t, th[t], row, req, claim, dropped) /\ th[t] # NoThread /\ x \in Runs
      /\ th \in [Threads -> ThreadRec]
  BY AliveIs DEF IInv, TypeInv
<1>2. \A u \in Threads : th'[u] = IF u = t THEN k ELSE th[u]
  BY <1>1
<1>3. t \in Runs => t = x
  BY <1>1 DEF ThreadOK
<1>4. \A b \in Boards, r \in Runs : claim'[b] = r => claim[b] = r
  BY NoRunAssumption
<1>5. ThreadInv'
  <2> SUFFICES ASSUME NEW u \in Threads, u # t PROVE ThreadOK(u, th[u], row', req, claim', dropped')
    BY <1>2 DEF ThreadInv
  <2> SUFFICES ASSUME th[u] # NoThread PROVE ThreadOK(u, th[u], row', req, claim', dropped')
    BY DEF ThreadOK
  <2> DEFINE q == th[u]
  <2>1. ThreadOK(u, q, row, req, claim, dropped) /\ q # NoThread /\ q.r \in Runs
    BY DEF IInv, ThreadInv, ThreadOK
  <2>2. q.r = x => q.prog # "create" /\ th[t].prog # "create"
    <3>1. q.r = x => (q.prog = "create" <=> th[t].prog = "create")
      BY <1>1, <2>1 DEF ThreadOK
    <3>2. ~(q.r = x /\ q.prog = "create" /\ th[t].prog = "create")
      BY DEF IInv, NewRunInv
    <3> QED
      BY <3>1, <3>2
  <2>3. row'[q.r].state = "none" <=> row[q.r].state = "none"
    BY <2>1
  <2>4. row'[q.r].state \in InProgress => t = q.r \/ row'[q.r].state = row[q.r].state
    BY <2>1
  <2>5. Released(q.r, claim) => Released(q.r, claim')
    BY <1>4, <2>1 DEF Released
  <2>6. Owns(q.r, req, claim) => Owns(q.r, req, claim') \/ (q.r = x /\ claim' # claim)
    <3>1. CASE claim' = claim
      BY <3>1
    <3>2. CASE q.r # x /\ Owns(q.r, req, claim)
      <4> SUFFICES ASSUME NEW b \in Range(req[q.r].jobs) PROVE claim'[b] = q.r
        BY DEF Owns
      <4>1. claim[b] = q.r
        BY <3>2 DEF Owns
      <4>2. b \in Boards
        BY <2>1, JobsAre DEF IInv, ThreadOK, BoardIds
      <4> QED
        BY <3>2, <4>1, <4>2
    <3> QED
      BY <3>1, <3>2
  <2>7. q.prog = "worker" => u = q.r
    BY <2>1 DEF ThreadOK
  <2>8. q.prog = "create" => Owns(q.r, req, claim')
    BY <2>1, <2>2, <2>6 DEF ThreadOK
  <2>9. q.prog = "worker" /\ q.r \notin dropped' /\ q.pc # "finish" => Owns(q.r, req, claim')
    <3>1. q.prog = "worker" /\ q.r = x /\ q.r \notin dropped' => claim' = claim
      BY <2>2, <2>7
    <3> QED
      BY <2>1, <2>6, <3>1 DEF ThreadOK
  <2>10. q.prog = "worker" /\ q.pc \in {"mute_fault", "release_fault"} => row'[q.r].state \notin InProgress
    BY <2>1, <2>4, <2>7 DEF ThreadOK
  <2>11. q.pc = "finish" \/ q.prog \in LoadedProgs => Released(q.r, claim')
    BY <2>1, <2>5 DEF ThreadOK
  <2> HIDE DEF q
  <2>12. ThreadOK(u, q, row', req, claim', dropped')
    BY <2>1, <2>3, <2>8, <2>9, <2>10, <2>11 DEF ThreadOK
  <2> QED
    BY <2>12 DEF q
<1>6. NewRunInv'
  <2>1. \A r \in Runs : req'[r] = NoRequest => row'[r].state = "none"
    BY DEF IInv, NewRunInv
  <2>2. ASSUME NEW u \in Threads, NEW v \in Threads, th'[u].prog = "create", th'[v].prog = "create",
               th'[u].r = th'[v].r
        PROVE  u = v
    <3>1. NoThread.prog # "create"
      BY DEF NoThread
    <3>2. \A w \in Threads : th'[w].prog = "create" => th[w].prog = "create" /\ th'[w].r = th[w].r
      BY <1>2, <3>1
    <3> QED
      BY <2>2, <3>2 DEF IInv, NewRunInv
  <2> QED
    BY <2>1, <2>2 DEF NewRunInv
<1>7. NothingStranded'
  <2>1. \A u \in Threads : Alive(u)' <=> th'[u] # NoThread
    <3>1. \A u \in Threads : ThreadOK(u, th'[u], row', req', claim', dropped')
      BY <1>5 DEF ThreadInv
    <3>2. NoThread.pc = "end"
      BY DEF NoThread
    <3> QED
      BY <3>1, <3>2 DEF Alive, ThreadOK, Place, WorkerPcs, FaultPcs
  <2>2. ASSUME NEW b \in Boards, claim'[b] # NoRun
        PROVE  \/ \E u \in Threads : Alive(u)' /\ th'[u].r = claim'[b]
               \/ row'[claim'[b]].state \in {"ARMED", "RUNNING"}
    <3>1. claim'[b] = claim[b] /\ claim[b] \in Runs
      BY <2>2 DEF IInv, TypeInv
    <3>2. CASE claim[b] = x
      <4>1. CASE k # NoThread
        BY <1>2, <2>1, <3>1, <3>2, <4>1
      <4>2. CASE k = NoThread
        BY <3>1, <3>2, <4>2 DEF Released
      <4> QED
        BY <4>1, <4>2
    <3>3. CASE claim[b] # x
      <4>1. \/ \E u \in Threads : Alive(u) /\ th[u].r = claim[b]
            \/ row[claim[b]].state \in {"ARMED", "RUNNING"}
        BY <2>2, <3>1 DEF IInv, NothingStranded, ClaimIsRecoverable
      <4>2. ASSUME NEW u \in Threads, Alive(u), th[u].r = claim[b] PROVE Alive(u)' /\ th'[u].r = claim'[b]
        BY <1>2, <2>1, <3>1, <3>3, <4>2, AliveIs
      <4> QED
        BY <3>1, <3>3, <4>1, <4>2
    <3> QED
      BY <3>2, <3>3
  <2>3. ASSUME NEW r \in Runs, row'[r].state \in InProgress PROVE Alive(r)'
    <3>1. r \in Threads
      BY DEF Threads
    <3>2. CASE r # x
      <4>1. Alive(r)
        BY <2>3, <3>2 DEF IInv, NothingStranded, InProgressHasThread, InProgress
      <4> QED
        BY <1>2, <1>3, <2>1, <3>1, <3>2, <4>1, AliveIs
    <3>3. CASE r = x /\ t = x
      BY <1>2, <2>1, <2>3, <3>3, ZenonT(90)
    <3>4. CASE r = x /\ t # x
      <4>1. Alive(r)
        BY <2>3, <3>4 DEF IInv, NothingStranded, InProgressHasThread, InProgress
      <4> QED
        BY <1>2, <2>1, <3>1, <3>4, <4>1, AliveIs
    <3> QED
      BY <3>2, <3>3, <3>4
  <2>4. ASSUME NEW r \in Runs, row'[r].state = "DONE" PROVE \A b \in Boards : claim'[b] # r
    <3>1. row[r].state = "DONE" \/ Released(r, claim')
      BY <2>4
    <3> QED
      BY <1>4, <3>1 DEF Released, IInv, NothingStranded, DoneMeansReleased
  <2> QED
    BY <2>2, <2>3, <2>4 DEF NothingStranded, ClaimIsRecoverable, InProgressHasThread,
                            DoneMeansReleased, InProgress
<1> QED
  BY <1>1, <1>5, <1>6, <1>7

\* Thread k at another place of the same method, with its loop at n.
Moved(k, pc, n) == [k EXCEPT !.pc = pc, !.i = n]

\* What is left of a thread that has moved.
LEMMA MovedIs ==
  ASSUME NEW k \in ThreadRec, NEW pc \in Pcs \ {"end"}, NEW n \in Nat
  PROVE  /\ Moved(k, pc, n) \in ThreadRec /\ Moved(k, pc, n) # NoThread
         /\ Moved(k, pc, n).prog = k.prog /\ Moved(k, pc, n).r = k.r
         /\ Moved(k, pc, n).pc = pc /\ Moved(k, pc, n).i = n
  BY DEF Moved, ThreadRec, NoThread

\* Goto moves a thread, NextBoard too.
LEMMA GotoIs ==
  ASSUME IInv, NEW t \in Threads, Alive(t), NEW pc \in Pcs \ {"end"}
  PROVE  /\ 1 \in 1..Len(req[th[t].r].jobs)
         /\ Goto(t, pc) => th' = [th EXCEPT ![t] = Moved(th[t], pc, 1)]
         /\ \A p : NextBoard(t, p) =>
              \/ Goto(t, p)
              \/ \E n \in 1..Len(req[th[t].r].jobs) : th' = [th EXCEPT ![t] = Moved(th[t], th[t].pc, n)]
<1>1. /\ th \in [Threads -> ThreadRec] /\ th[t] \in ThreadRec
      /\ th[t].i \in 1..Len(req[th[t].r].jobs) /\ req[th[t].r].jobs \in Seq(Boards)
      /\ 1 \in 1..Len(req[th[t].r].jobs)
  BY AliveIs, JobsAre DEF IInv, TypeInv, ThreadOK
<1>2. Goto(t, pc) => th' = [th EXCEPT ![t] = Moved(th[t], pc, 1)]
  BY <1>1 DEF Goto, Moved
<1>3. ASSUME th[t].i < Len(req[th[t].r].jobs), th' = [th EXCEPT ![t].i = @ + 1]
      PROVE  /\ th[t].i + 1 \in 1..Len(req[th[t].r].jobs)
             /\ th' = [th EXCEPT ![t] = Moved(th[t], th[t].pc, th[t].i + 1)]
  <2>1. Moved(th[t], th[t].pc, th[t].i + 1) = [th[t] EXCEPT !.i = th[t].i + 1]
    BY <1>1 DEF Moved, ThreadRec
  <2>2. th' = [th EXCEPT ![t] = [th[t] EXCEPT !.i = th[t].i + 1]]
    BY <1>3
  <2>3. th[t].i + 1 \in 1..Len(req[th[t].r].jobs)
    BY <1>1, <1>3
  <2> QED
    BY <2>1, <2>2, <2>3
<1> QED
  BY <1>1, <1>2, <1>3 DEF NextBoard, Targets

\* A thread that moves and writes nothing.
LEMMA MoveStep ==
  ASSUME IInv, NEW t \in Threads, Alive(t), NEW pc \in Pcs \ {"end"},
         NEW n \in 1..Len(req[th[t].r].jobs), th' = [th EXCEPT ![t] = Moved(th[t], pc, n)],
         UNCHANGED <<row, req, claim, dropped>>, Place(th[t].prog, pc),
         th[t].pc # "finish", pc \notin {"finish", "release_aborted"},
         pc \in {"mute_fault", "release_fault"} => th[t].pc = "mute_fault"
  PROVE  th' \in [Threads -> ThreadRec] /\ ThreadInv' /\ NewRunInv' /\ NothingStranded'
<1> DEFINE k == Moved(th[t], pc, n)
           x == th[t].r
<1>1. ThreadOK(t, th[t], row, req, claim, dropped) /\ th[t] \in ThreadRec /\ th[t] # NoThread /\ x \in Runs
  BY AliveIs DEF IInv, TypeInv
<1>2. /\ k \in ThreadRec /\ k # NoThread /\ k.prog = th[t].prog /\ k.r = x /\ k.pc = pc /\ k.i = n
  BY <1>1, MovedIs
<1>3. Place(k.prog, k.pc)
  BY <1>2
<1>4. th' = [th EXCEPT ![t] = k]
  OBVIOUS
<1> HIDE DEF k
<1>5. ThreadOK(t, k, row', req, claim', dropped')
  BY <1>1, <1>2, <1>3 DEF ThreadOK
<1>6. row' \in [Runs -> RowRec]
  BY DEF IInv, TypeInv
<1> HIDE DEF x
<1> QED
  BY <1>1, <1>2, <1>4, <1>5, <1>6, ThreadStep DEF x

\* An action on a loaded waveform that ends.
LEMMA EndStep ==
  ASSUME IInv, NEW t \in Threads, Alive(t), Goto(t, "end"), th[t].prog \in LoadedProgs,
         UNCHANGED <<row, req, claim, dropped>>
  PROVE  th' \in [Threads -> ThreadRec] /\ ThreadInv' /\ NewRunInv' /\ NothingStranded'
<1>1. /\ ThreadOK(t, th[t], row, req, claim, dropped) /\ th[t] \in ThreadRec /\ th[t] # NoThread
      /\ th[t].r \in Runs
  BY AliveIs DEF IInv, TypeInv
<1>2. Released(th[t].r, claim') /\ t # th[t].r
  BY <1>1 DEF ThreadOK, LoadedProgs
<1>3. th' = [th EXCEPT ![t] = NoThread] /\ NoThread \in ThreadRec
  BY DEF Goto, NoThread, ThreadRec, Progs, Pcs
<1>4. ThreadOK(t, NoThread, row', req, claim', dropped')
  BY DEF ThreadOK
<1>5. row' \in [Runs -> RowRec]
  BY DEF IInv, TypeInv
<1> QED
  BY <1>1, <1>2, <1>3, <1>4, <1>5, ThreadStep

\* The calls on a board keep the image with its session.
LEMMA BoardCalls ==
  ASSUME IInv, NEW r \in Runs, NEW b, NEW ok \in BOOLEAN, UNCHANGED simulation,
         arm(r, b, ok) \/ manual_trigger(r, b, ok) \/ mute(r, b, ok)
  PROVE  brd' \in [Boards -> BrdRec] /\ BoardInv'
<1> USE DEF IInv, TypeInv
<1>1. CASE UNCHANGED brd
  BY <1>1 DEF BoardInv
<1>2. CASE _waveform_session(r, b) /\ brd' = [brd EXCEPT ![b].st = "playing", ![b].by = r]
  <2>1. simulation => brd[b].sess = r
    BY <1>2 DEF _waveform_session, Session
  <2>2. brd' \in [Boards -> BrdRec]
    BY <1>2, ZenonT(90) DEF BrdRec, BoardStates
  <2>3. \A d \in Boards : d # b => brd'[d] = brd[d]
    BY <1>2
  <2>4. b \in Boards => brd'[b].st = "playing" /\ brd'[b].by = r /\ brd'[b].sess = brd[b].sess
                        /\ brd'[b].image = brd[b].image
    BY <1>2 DEF BrdRec
  <2>5. BoardInv'
    BY <2>1, <2>3, <2>4 DEF BoardInv
  <2> QED
    BY <2>2, <2>5
<1>3. CASE brd' = [brd EXCEPT ![b].st = Stopped(@), ![b].by = NoRun]
  <2>1. \A s \in BoardStates : Stopped(s) \in BoardStates /\ Stopped(s) # "playing"
    BY DEF Stopped, BoardStates
  <2>2. \A d \in Boards : d # b => brd'[d] = brd[d]
    BY <1>3
  <2>3. b \in Boards => brd'[b] = [brd[b] EXCEPT !.st = Stopped(brd[b].st), !.by = NoRun]
    BY <1>3
  <2>4. b \in Boards => /\ brd'[b] \in BrdRec /\ brd'[b].st # "playing"
                        /\ brd'[b].sess = brd[b].sess /\ brd'[b].image = brd[b].image
    <3> SUFFICES ASSUME b \in Boards
                 PROVE  /\ brd'[b] \in BrdRec /\ brd'[b].st # "playing"
                        /\ brd'[b].sess = brd[b].sess /\ brd'[b].image = brd[b].image
      OBVIOUS
    <3> DEFINE s == Stopped(brd[b].st)
    <3>1. brd[b] \in BrdRec /\ s \in BoardStates /\ s # "playing"
      BY <2>1 DEF BrdRec
    <3>2. brd'[b] = [brd[b] EXCEPT !.st = s, !.by = NoRun]
      BY <2>3
    <3> HIDE DEF s
    <3> QED
      BY <3>1, <3>2 DEF BrdRec
  <2>5. brd' \in [Boards -> BrdRec]
    BY <1>3, <2>2, <2>4
  <2>6. BoardInv'
    BY <2>2, <2>4 DEF BoardInv
  <2> QED
    BY <2>5, <2>6
<1> QED
  BY <1>1, <1>2, <1>3 DEF arm, manual_trigger, mute

\* A thread that goes on at pc, in its loop, or to its end.
LEMMA GoStep ==
  ASSUME IInv, NEW t \in Threads, Alive(t), NEW pc \in Pcs, Goto(t, pc) \/ NextBoard(t, pc),
         UNCHANGED <<row, req, claim, dropped>>,
         pc = "end" => th[t].prog \in LoadedProgs,
         pc # "end" => Place(th[t].prog, pc),
         th[t].pc \notin {"finish", "release_aborted", "release_fault"},
         pc \notin {"finish", "release_aborted", "mute_fault"},
         pc = "release_fault" => th[t].pc = "mute_fault"
  PROVE  th' \in [Threads -> ThreadRec] /\ ThreadInv' /\ NewRunInv' /\ NothingStranded'
<1>1. Place(th[t].prog, th[t].pc) /\ th[t].pc \in Pcs \ {"end"} /\ "play" \in Pcs \ {"end"}
  BY AliveIs DEF IInv, TypeInv, ThreadRec, ThreadOK, Alive, Pcs, WorkerPcs
<1>2. \/ Goto(t, pc)
      \/ \E n \in 1..Len(req[th[t].r].jobs) : th' = [th EXCEPT ![t] = Moved(th[t], th[t].pc, n)]
  BY <1>1, GotoIs
<1>3. CASE Goto(t, pc) /\ pc = "end"
  BY <1>3, EndStep
<1>4. CASE Goto(t, pc) /\ pc # "end"
  <2>1. 1 \in 1..Len(req[th[t].r].jobs) /\ th' = [th EXCEPT ![t] = Moved(th[t], pc, 1)]
    BY <1>4, GotoIs
  <2> QED
    BY <1>4, <2>1, MoveStep
<1>5. ASSUME NEW n \in 1..Len(req[th[t].r].jobs), th' = [th EXCEPT ![t] = Moved(th[t], th[t].pc, n)]
      PROVE  th' \in [Threads -> ThreadRec] /\ ThreadInv' /\ NewRunInv' /\ NothingStranded'
  BY <1>1, <1>5, MoveStep
<1> QED
  BY <1>2, <1>3, <1>4, <1>5

\* ARM, PLAY and STOP in the loops of the worker and of the handlers.
LEMMA LoopStep ==
  ASSUME IInv, NEW t \in Threads, ArmStep(t) \/ PlayStep(t) \/ MuteStep(t) \/ mute_fault(t) \/ recheck(t)
  PROVE  IInv'
<1>1. UNCHANGED <<simulation, row, req, claim, dropped, bounds>>
  BY DEF ArmStep, PlayStep, MuteStep, mute_fault, recheck
<1>2. Alive(t)
  BY DEF ArmStep, PlayStep, MuteStep, mute_fault, recheck, At, Alive
<1>3. ThreadOK(t, th[t], row, req, claim, dropped) /\ th[t].r \in Runs /\ Place(th[t].prog, th[t].pc)
  BY <1>2, AliveIs DEF ThreadOK
<1>4. brd' \in [Boards -> BrdRec] /\ BoardInv'
  <2>1. CASE recheck(t)
    BY <2>1 DEF recheck, IInv, TypeInv, BoardInv
  <2> QED
    BY <1>1, <1>3, <2>1, BoardCalls DEF ArmStep, PlayStep, MuteStep, mute_fault
<1>5. \E pc \in Pcs : /\ Goto(t, pc) \/ NextBoard(t, pc)
                      /\ pc = "end" => th[t].prog \in LoadedProgs
                      /\ pc # "end" => Place(th[t].prog, pc)
                      /\ pc \notin {"finish", "release_aborted", "mute_fault"}
                      /\ pc = "release_fault" => th[t].pc = "mute_fault"
  <2> USE DEF Pcs, WorkerPcs, FaultPcs, LoadedProgs
  <2>1. CASE ArmStep(t)
    <3>1. th[t].pc = "arm" /\ th[t].prog \in {"worker", "arm", "arm_loaded", "play_loaded"}
      BY <1>3, <2>1 DEF ArmStep, At, Place
    <3>2. NextBoard(t, AfterArm(th[t].prog)) \/ Goto(t, AfterRaise(t))
      BY <2>1 DEF ArmStep
    <3> QED
      BY <3>1, <3>2 DEF AfterArm, AfterRaise, Place
  <2>2. CASE PlayStep(t)
    <3>1. th[t].pc = "play" /\ th[t].prog \in {"worker", "start", "trigger_loaded", "play_loaded"}
      BY <1>3, <2>2 DEF PlayStep, At, Place
    <3>2. Goto(t, AfterPlay(th[t].prog)) \/ Goto(t, AfterRaise(t))
      BY <2>2 DEF PlayStep
    <3> QED
      BY <3>1, <3>2 DEF AfterPlay, AfterRaise, Place
  <2>3. CASE MuteStep(t)
    <3>1. th[t].pc = "mute" /\ th[t].prog \in {"worker", "abort", "abort_loaded"}
      BY <1>3, <2>3 DEF MuteStep, At, Place
    <3>2. NextBoard(t, AfterMute(th[t].prog)) \/ (th[t].prog = "worker" /\ Goto(t, AfterRaise(t)))
      BY <2>3 DEF MuteStep
    <3> QED
      BY <3>1, <3>2 DEF AfterMute, AfterRaise, Place
  <2>4. CASE mute_fault(t)
    <3>1. th[t].pc = "mute_fault" /\ th[t].prog \in {"worker", "arm", "start"}
      BY <1>3, <2>4 DEF mute_fault, At, Place
    <3> QED
      BY <2>4, <3>1 DEF mute_fault, Place
  <2>5. CASE recheck(t)
    <3>1. th[t].pc = "recheck" /\ th[t].prog = "play_loaded"
      BY <1>3, <2>5 DEF recheck, At, Place
    <3> QED
      BY <2>5, <3>1 DEF recheck, Place
  <2> QED
    BY <2>1, <2>2, <2>3, <2>4, <2>5
<1>6. th[t].pc \notin {"finish", "release_aborted", "release_fault"}
  BY DEF ArmStep, PlayStep, MuteStep, mute_fault, recheck, At
<1>7. th' \in [Threads -> ThreadRec] /\ ThreadInv' /\ NewRunInv' /\ NothingStranded'
  BY <1>1, <1>2, <1>5, <1>6, GoStep
<1>8. TypeInv'
  BY <1>1, <1>4, <1>7 DEF IInv, TypeInv, bounds
<1> QED
  BY <1>4, <1>7, <1>8 DEF IInv

\* A thread that moves and may write the record of its run.
LEMMA WriteStep ==
  ASSUME IInv, NEW t \in Threads, Alive(t), th[t].prog # "create", NEW x, x = th[t].r,
         NEW pc \in Pcs \ {"end"}, NEW n \in 1..Len(req[x].jobs),
         th' = [th EXCEPT ![t] = Moved(th[t], pc, n)], UNCHANGED <<req, claim>>,
         dropped' \in {dropped, dropped \cup {x}},
         row' \in [Runs -> RowRec], \A r \in Runs : r # x => row'[r] = row[r],
         row'[x].state # "none",
         row'[x].state \in InProgress => t = x \/ row'[x].state = row[x].state,
         row'[x].state = "DONE" => row[x].state = "DONE",
         Place(th[t].prog, pc), th[t].pc # "finish", pc # "finish",
         pc \in {"mute_fault", "release_fault", "release_aborted"} => x \in dropped',
         pc \in {"mute_fault", "release_fault"} => row'[x].state \notin InProgress
  PROVE  th' \in [Threads -> ThreadRec] /\ ThreadInv' /\ NewRunInv' /\ NothingStranded'
<1> DEFINE k == Moved(th[t], pc, n)
<1>1. ThreadOK(t, th[t], row, req, claim, dropped) /\ th[t] \in ThreadRec /\ th[t] # NoThread /\ x \in Runs
  BY AliveIs DEF IInv, TypeInv
<1>2. /\ k \in ThreadRec /\ k # NoThread /\ k.prog = th[t].prog /\ k.r = x /\ k.pc = pc /\ k.i = n
      /\ th' = [th EXCEPT ![t] = k]
  BY <1>1, MovedIs
<1>3. row[x].state # "none" /\ row'[x].state # "none"
  BY <1>1 DEF ThreadOK
<1> HIDE DEF k
<1>4. ThreadOK(t, k, row', req, claim', dropped')
  BY <1>1, <1>2, <1>3 DEF ThreadOK
<1> QED
  BY <1>1, <1>2, <1>3, <1>4, ThreadStep, ZenonT(90)

\* A thread that ends, with what it writes last.
LEMMA LastStep ==
  ASSUME IInv, NEW t \in Threads, Alive(t), th[t].prog # "create", NEW x, x = th[t].r,
         Goto(t, "end"), UNCHANGED <<req, dropped>>,
         row' \in [Runs -> RowRec], \A r \in Runs : r # x => row'[r] = row[r],
         row'[x].state # "none",
         row'[x].state \in InProgress => t # x /\ row'[x].state = row[x].state,
         row'[x].state = "DONE" => row[x].state = "DONE" \/ Released(x, claim'),
         claim' = claim \/ (_release_group(x) /\ x \in dropped),
         Released(x, claim') \/ row'[x].state \in {"ARMED", "RUNNING"}
  PROVE  /\ th' \in [Threads -> ThreadRec] /\ claim' \in [Boards -> Runs \cup {NoRun}]
         /\ ThreadInv' /\ NewRunInv' /\ NothingStranded'
<1>1. ThreadOK(t, th[t], row, req, claim, dropped) /\ th[t] # NoThread /\ x \in Runs /\ TypeInv
  BY AliveIs DEF IInv
<1>2. th' = [th EXCEPT ![t] = NoThread] /\ NoThread \in ThreadRec
  BY DEF Goto, NoThread, ThreadRec, Progs, Pcs
<1>3. row[x].state # "none"
  BY <1>1 DEF ThreadOK
<1>4. ThreadOK(t, NoThread, row', req, claim', dropped')
  BY DEF ThreadOK
<1>5. \A b \in Boards : claim'[b] = claim[b] \/ (claim[b] = x /\ claim'[b] = NoRun)
  BY <1>1, ReleaseGroup
<1>6. claim' \in [Boards -> Runs \cup {NoRun}]
  BY <1>1, ReleaseGroup DEF TypeInv
<1> QED
  BY <1>1, <1>2, <1>3, <1>4, <1>5, <1>6, ThreadStep, ZenonT(90)

\* What update writes.
LEMMA UpdateIs ==
  ASSUME TypeInv, NEW x \in Runs, NEW s \in RunStates, update(x, s)
  PROVE  /\ row' \in [Runs -> RowRec] /\ row'[x].state = s
         /\ \A r \in Runs : r # x => row'[r] = row[r]
  BY DEF TypeInv, update, RowRec

\* Every step that keeps the types and the parts of the invariant keeps it.
LEMMA Assemble ==
  ASSUME IInv, UNCHANGED <<simulation, req, bounds>>, row' \in [Runs -> RowRec],
         claim' \in [Boards -> Runs \cup {NoRun}], dropped' \subseteq Runs,
         brd' \in [Boards -> BrdRec], BoardInv',
         th' \in [Threads -> ThreadRec], ThreadInv', NewRunInv', NothingStranded'
  PROVE  IInv'
<1>1. TypeInv'
  BY DEF IInv, TypeInv, bounds
<1> QED
  BY <1>1 DEF IInv

\* A step that leaves the boards alone.
LEMMA BoardsKept ==
  ASSUME IInv, UNCHANGED <<simulation, req, brd, bounds>>, row' \in [Runs -> RowRec],
         claim' \in [Boards -> Runs \cup {NoRun}], dropped' \subseteq Runs,
         th' \in [Threads -> ThreadRec], ThreadInv', NewRunInv', NothingStranded'
  PROVE  IInv'
<1>1. brd' \in [Boards -> BrdRec] /\ BoardInv'
  BY DEF IInv, TypeInv, BoardInv
<1> QED
  BY <1>1, Assemble

\* A fault: the record, then the release after the STOPs.
LEMMA FaultStep ==
  ASSUME IInv, NEW t \in Threads, _fault(t) \/ release_fault(t)
  PROVE  IInv'
<1> DEFINE x == th[t].r
<1>1. UNCHANGED <<simulation, req, brd, bounds>> /\ Alive(t)
  BY DEF _fault, release_fault, At, Alive
<1>2. ThreadOK(t, th[t], row, req, claim, dropped) /\ th[t] # NoThread /\ x \in Runs
      /\ th[t].prog \in {"worker", "arm", "start"}
  BY <1>1, AliveIs DEF _fault, release_fault, At, ThreadOK, Place
<1>3. CASE _fault(t)
  <2>1. /\ row' \in [Runs -> RowRec] /\ row'[x].state = "FAULT"
        /\ \A r \in Runs : r # x => row'[r] = row[r]
    BY <1>2, <1>3, UpdateIs DEF _fault, IInv, RunStates
  <2>2. PICK pc \in {"release_fault", "mute_fault"} : Goto(t, pc)
    BY <1>3 DEF _fault
  <2>3. pc \in Pcs \ {"end"} /\ Place(th[t].prog, pc)
    BY <1>2 DEF Pcs, WorkerPcs, FaultPcs, Place
  <2>4. 1 \in 1..Len(req[x].jobs) /\ th' = [th EXCEPT ![t] = Moved(th[t], pc, 1)]
    BY <1>1, <2>2, <2>3, GotoIs
  <2>5. UNCHANGED claim /\ dropped' = dropped \cup {x} /\ th[t].pc # "finish"
    BY <1>3 DEF _fault, At
  <2>6. th' \in [Threads -> ThreadRec] /\ ThreadInv' /\ NewRunInv' /\ NothingStranded'
    BY <1>1, <1>2, <2>1, <2>3, <2>4, <2>5, WriteStep DEF InProgress
  <2>7. claim' \in [Boards -> Runs \cup {NoRun}] /\ dropped' \subseteq Runs
    BY <1>2, <2>5 DEF IInv, TypeInv
  <2> QED
    BY <1>1, <2>1, <2>6, <2>7, BoardsKept
<1>4. CASE release_fault(t)
  <2>1. x \in dropped /\ (t = x => row[x].state \notin InProgress) /\ row[x].state # "none"
    BY <1>2, <1>4 DEF release_fault, At, ThreadOK, Threads
  <2>2. _release_group(x) /\ UNCHANGED <<row, dropped>> /\ Goto(t, "end")
    BY <1>4 DEF release_fault
  <2>3. Released(x, claim') /\ row' \in [Runs -> RowRec]
    BY <1>2, <2>2, ReleaseGroup DEF IInv, TypeInv
  <2>4. /\ th' \in [Threads -> ThreadRec] /\ claim' \in [Boards -> Runs \cup {NoRun}]
        /\ ThreadInv' /\ NewRunInv' /\ NothingStranded'
    BY <1>1, <1>2, <2>1, <2>2, <2>3, LastStep
  <2>5. dropped' \subseteq Runs
    BY <2>2 DEF IInv, TypeInv
  <2> QED
    BY <1>1, <2>3, <2>4, <2>5, BoardsKept
<1> QED
  BY <1>3, <1>4

\* The state a handler writes after its loop, and the release of an abort.
LEMMA HandlerStep ==
  ASSUME IInv, NEW t \in Handlers, armed(t) \/ running(t) \/ aborted(t) \/ release_aborted(t)
  PROVE  IInv'
<1> DEFINE x == th[t].r
<1>1. UNCHANGED <<simulation, req, brd, bounds>> /\ Alive(t) /\ t \in Threads
  BY DEF armed, running, aborted, release_aborted, At, Alive, Threads
<1>2. ThreadOK(t, th[t], row, req, claim, dropped) /\ th[t] # NoThread /\ x \in Runs
      /\ th[t].prog \in {"arm", "start", "abort"}
  BY <1>1, AliveIs DEF armed, running, aborted, release_aborted, At, ThreadOK, Place, WorkerPcs, FaultPcs
<1>3. row[x].state # "none" /\ t # x
  BY <1>2, ThreadsAssumption DEF ThreadOK
<1>4. CASE armed(t) \/ running(t)
  <2>1. PICK s \in {"ARMED", "RUNNING"} : update(x, s) /\ Goto(t, "end")
    BY <1>4 DEF armed, running
  <2>2. /\ row' \in [Runs -> RowRec] /\ row'[x].state = s
        /\ \A r \in Runs : r # x => row'[r] = row[r]
    BY <1>2, <2>1, UpdateIs DEF IInv, RunStates
  <2>3. UNCHANGED <<claim, dropped>>
    BY <1>4 DEF armed, running
  <2>4. th' \in [Threads -> ThreadRec] /\ ThreadInv' /\ NewRunInv' /\ NothingStranded'
    BY <1>1, <1>2, <1>3, <2>1, <2>2, <2>3, LastStep DEF InProgress
  <2>5. claim' \in [Boards -> Runs \cup {NoRun}] /\ dropped' \subseteq Runs
    BY <2>3 DEF IInv, TypeInv
  <2> QED
    BY <1>1, <2>2, <2>4, <2>5, BoardsKept
<1>5. CASE aborted(t)
  <2>1. /\ row' \in [Runs -> RowRec] /\ row'[x].state = "ABORTED"
        /\ \A r \in Runs : r # x => row'[r] = row[r]
    BY <1>2, <1>5, UpdateIs DEF aborted, IInv, RunStates
  <2>2. th[t].prog = "abort" /\ th[t].pc = "aborted"
    BY <1>2, <1>5 DEF aborted, At, ThreadOK, Place, FaultPcs
  <2>3. "release_aborted" \in Pcs \ {"end"} /\ Place(th[t].prog, "release_aborted")
    BY <2>2 DEF Pcs, Place
  <2>4. 1 \in 1..Len(req[x].jobs) /\ th' = [th EXCEPT ![t] = Moved(th[t], "release_aborted", 1)]
    BY <1>1, <1>5, <2>3, GotoIs DEF aborted
  <2>5. UNCHANGED claim /\ dropped' = dropped \cup {x}
    BY <1>5 DEF aborted
  <2>6. th' \in [Threads -> ThreadRec] /\ ThreadInv' /\ NewRunInv' /\ NothingStranded'
    BY <1>1, <1>2, <2>1, <2>2, <2>3, <2>4, <2>5, WriteStep DEF InProgress
  <2>7. claim' \in [Boards -> Runs \cup {NoRun}] /\ dropped' \subseteq Runs
    BY <1>2, <2>5 DEF IInv, TypeInv
  <2> QED
    BY <1>1, <2>1, <2>6, <2>7, BoardsKept
<1>6. CASE release_aborted(t)
  <2>1. x \in dropped
    BY <1>2, <1>6 DEF release_aborted, At, ThreadOK
  <2>2. _release_group(x) /\ UNCHANGED <<row, dropped>> /\ Goto(t, "end")
    BY <1>6 DEF release_aborted
  <2>3. Released(x, claim') /\ row' \in [Runs -> RowRec]
    BY <1>2, <2>2, ReleaseGroup DEF IInv, TypeInv
  <2>4. /\ th' \in [Threads -> ThreadRec] /\ claim' \in [Boards -> Runs \cup {NoRun}]
        /\ ThreadInv' /\ NewRunInv' /\ NothingStranded'
    BY <1>1, <1>2, <1>3, <2>1, <2>2, <2>3, LastStep
  <2>5. dropped' \subseteq Runs
    BY <2>2 DEF IInv, TypeInv
  <2> QED
    BY <1>1, <2>3, <2>4, <2>5, BoardsKept
<1> QED
  BY <1>4, <1>5, <1>6

\* A worker runs the run it is named after.
LEMMA WorkerIs ==
  ASSUME IInv, NEW w \in Runs, Alive(w)
  PROVE  /\ w \in Threads /\ th[w] # NoThread /\ th[w] \in ThreadRec /\ th \in [Threads -> ThreadRec]
         /\ ThreadOK(w, th[w], row, req, claim, dropped)
         /\ th[w].prog = "worker" /\ th[w].r = w /\ th[w].pc \in WorkerPcs
         /\ req[w] # NoRequest /\ row[w].state # "none"
         /\ th[w].i \in 1..Len(req[w].jobs) /\ 1 \in 1..Len(req[w].jobs)
         /\ Board(w) \in Boards
<1>1. w \in Threads
  BY DEF Threads
<1>2. th[w] # NoThread /\ ThreadOK(w, th[w], row, req, claim, dropped)
  BY <1>1, AliveIs
<1>3. th[w] \in ThreadRec /\ TypeInv /\ th \in [Threads -> ThreadRec]
  BY <1>1 DEF IInv, TypeInv
<1>4. th[w].prog = "worker" /\ th[w].r = w
  BY <1>2 DEF ThreadOK
<1>5. th[w].pc \in WorkerPcs
  BY <1>2, <1>4 DEF ThreadOK, Place
<1>6. req[w] # NoRequest /\ row[w].state # "none" /\ th[w].i \in 1..Len(req[w].jobs)
  BY <1>2, <1>4 DEF ThreadOK
<1>7. 1 \in 1..Len(req[w].jobs) /\ req[w].jobs \in Seq(Boards)
  BY <1>3, <1>6, JobsAre
<1>8. Board(w) \in Boards
  BY <1>4, <1>6, <1>7 DEF Board, Targets
<1> QED
  BY <1>1, <1>2, <1>3, <1>4, <1>5, <1>6, <1>7, <1>8

\* The steps before the upload, and the record of a loaded waveform.
LEMMA WorkerWriteStep ==
  ASSUME IInv, NEW w \in Runs, generate(w) \/ sync_two_boards(w) \/ _apply_job_rfdc(w) \/ loaded(w)
  PROVE  IInv'
<1>1. UNCHANGED <<simulation, req, claim, brd, dropped, bounds>> /\ Alive(w)
  BY DEF generate, sync_two_boards, _apply_job_rfdc, loaded, At, Alive
<1>2. /\ w \in Threads /\ th[w].prog = "worker" /\ th[w].r = w /\ row[w].state # "none"
  BY <1>1, WorkerIs
<1>3. claim' \in [Boards -> Runs \cup {NoRun}] /\ dropped' \subseteq Runs /\ row \in [Runs -> RowRec]
  BY <1>1 DEF IInv, TypeInv
<1>4. CASE generate(w) \/ loaded(w)
  <2>1. PICK s \in {"GENERATING", "READY"}, pc \in {"sync", "arm"} :
          /\ row'[w].state = s /\ row' \in [Runs -> RowRec] /\ \A r \in Runs : r # w => row'[r] = row[r]
          /\ Goto(w, pc) /\ th[w].pc # "finish"
    <3>1. CASE generate(w)
      <4>1. update(w, "GENERATING") /\ Goto(w, "sync") /\ th[w].pc = "generate"
        BY <3>1 DEF generate, At
      <4>2. TypeInv /\ "GENERATING" \in RunStates
        BY DEF IInv, RunStates
      <4> QED
        BY <4>1, <4>2, UpdateIs
    <3>2. CASE loaded(w)
      <4>1. complete_loaded(w, "READY") /\ Goto(w, "arm") /\ th[w].pc = "loaded"
        BY <3>2 DEF loaded, At
      <4>2. row' \in [Runs -> RowRec] /\ row'[w].state = "READY" /\ \A r \in Runs : r # w => row'[r] = row[r]
        BY <1>3, <4>1 DEF complete_loaded, RowRec, RunStates
      <4> QED
        BY <4>1, <4>2
    <3> QED
      BY <1>4, <3>1, <3>2
  <2>2. pc \in Pcs \ {"end"} /\ Place(th[w].prog, pc)
    BY <1>2 DEF Pcs, WorkerPcs, Place
  <2>3. 1 \in 1..Len(req[w].jobs) /\ th' = [th EXCEPT ![w] = Moved(th[w], pc, 1)]
    BY <1>1, <1>2, <2>1, <2>2, GotoIs
  <2>4. th' \in [Threads -> ThreadRec] /\ ThreadInv' /\ NewRunInv' /\ NothingStranded'
    BY <1>1, <1>2, <2>1, <2>2, <2>3, WriteStep
  <2> QED
    BY <1>1, <1>3, <2>1, <2>4, BoardsKept
<1>5. CASE sync_two_boards(w) \/ _apply_job_rfdc(w)
  <2>1. PICK pc \in {"rfdc", "upload", "fault"} : Goto(w, pc)
    BY <1>5 DEF sync_two_boards, _apply_job_rfdc
  <2>2. UNCHANGED row /\ th[w].pc \in {"sync", "rfdc"}
    BY <1>5 DEF sync_two_boards, _apply_job_rfdc, At
  <2>3. pc \in Pcs /\ Place(th[w].prog, pc)
    BY <1>2 DEF Pcs, WorkerPcs, FaultPcs, Place
  <2>4. th' \in [Threads -> ThreadRec] /\ ThreadInv' /\ NewRunInv' /\ NothingStranded'
    BY <1>1, <1>2, <2>1, <2>2, <2>3, GoStep
  <2> QED
    BY <1>1, <1>3, <2>2, <2>4, BoardsKept
<1> QED
  BY <1>4, <1>5

\* A board that a worker writes outside a playback.
LEMMA BoardWrite ==
  ASSUME IInv, UNCHANGED simulation, NEW b, NEW v \in BrdRec, brd' = [brd EXCEPT ![b] = v],
         simulation => v.st # "playing" /\ (v.sess \in Runs => v.image = {v.sess})
  PROVE  brd' \in [Boards -> BrdRec] /\ BoardInv'
<1>1. brd \in [Boards -> BrdRec] /\ BoardInv
  BY DEF IInv, TypeInv
<1>2. \A d \in Boards : brd'[d] = IF d = b THEN v ELSE brd[d]
  BY <1>1
<1>3. brd' \in [Boards -> BrdRec]
  BY <1>1
<1>4. BoardInv'
  BY <1>1, <1>2 DEF BoardInv
<1> QED
  BY <1>3, <1>4

\* Where a worker goes in the loop over its boards.
LEMMA WorkerMoves ==
  ASSUME IInv, NEW w \in Runs, Alive(w), UNCHANGED <<req, claim, dropped>>,
         row' \in [Runs -> RowRec], \A r \in Runs : r # w => row'[r] = row[r],
         row'[w].state = row[w].state \/ row'[w].state = "UPLOADING",
         th[w].pc \in {"upload", "commit", "record"},
         \/ \E pc \in {"fault", "release", "loaded"} : Goto(w, pc)
         \/ \E pc \in {"upload", "commit", "record"}, n \in 1..Len(req[w].jobs) :
              th' = [th EXCEPT ![w] = Moved(th[w], pc, n)]
  PROVE  th' \in [Threads -> ThreadRec] /\ ThreadInv' /\ NewRunInv' /\ NothingStranded'
<1>1. w \in Threads /\ th[w].prog = "worker" /\ th[w].r = w /\ row[w].state # "none" /\ th[w].pc # "finish"
  BY WorkerIs
<1>2. \A pc \in {"fault", "release", "loaded", "upload", "commit", "record"} :
        pc \in Pcs \ {"end"} /\ Place(th[w].prog, pc)
  BY <1>1 DEF Pcs, WorkerPcs, FaultPcs, Place
<1>3. PICK pc \in {"fault", "release", "loaded", "upload", "commit", "record"}, n \in 1..Len(req[w].jobs) :
        th' = [th EXCEPT ![w] = Moved(th[w], pc, n)]
  <2>1. ASSUME NEW pc \in {"fault", "release", "loaded"}, Goto(w, pc)
        PROVE  1 \in 1..Len(req[w].jobs) /\ th' = [th EXCEPT ![w] = Moved(th[w], pc, 1)]
    BY <1>1, <1>2, <2>1, GotoIs
  <2> QED
    BY <2>1
<1>4. pc \in Pcs \ {"end"} /\ Place(th[w].prog, pc)
  BY <1>2
<1>5. row'[w].state # "none" /\ (row'[w].state = "DONE" => row[w].state = "DONE")
  BY <1>1
<1> QED
  BY <1>1, <1>3, <1>4, <1>5, WriteStep, ZenonT(90)

\* BEGIN, COMMIT and the record of the session on one board.
LEMMA UploadStep ==
  ASSUME IInv, NEW w \in Runs, upload(w) \/ commit(w) \/ _record_waveform_session(w)
  PROVE  IInv'
<1> DEFINE b == Board(w)
           n == th[w].i
<1>1. UNCHANGED <<simulation, req, claim, dropped, bounds>> /\ Alive(w) /\ th[w].pc \in {"upload", "commit", "record"}
  BY DEF upload, commit, _record_waveform_session, At, Alive
<1>2. /\ w \in Threads /\ th[w] \in ThreadRec /\ th \in [Threads -> ThreadRec]
      /\ n \in 1..Len(req[w].jobs) /\ b \in Boards /\ TypeInv /\ BoardInv
      /\ req[w].jobs \in Seq(Boards)
  BY <1>1, WorkerIs, JobsAre DEF IInv
<1>3. claim' \in [Boards -> Runs \cup {NoRun}] /\ dropped' \subseteq Runs /\ row \in [Runs -> RowRec]
      /\ brd \in [Boards -> BrdRec]
  BY <1>1, <1>2 DEF TypeInv
<1>4. \A pc : [th EXCEPT ![w].pc = pc] = [th EXCEPT ![w] = Moved(th[w], pc, n)]
  <2>1. \A pc : [th[w] EXCEPT !.pc = pc] = Moved(th[w], pc, n)
    BY <1>2 DEF Moved, ThreadRec
  <2>2. \A pc : [th EXCEPT ![w].pc = pc] = [th EXCEPT ![w] = [th[w] EXCEPT !.pc = pc]]
    BY <1>2
  <2> QED
    BY <2>1, <2>2
<1> HIDE DEF n, b
<1>5. brd' \in [Boards -> BrdRec] /\ BoardInv'
  <2>1. CASE UNCHANGED brd
    BY <1>1, <1>2, <1>3, <2>1 DEF BoardInv
  <2>2. CASE upload(w) /\ ~(UNCHANGED brd)
    <3> DEFINE v == [image |-> {w}, sess |-> Session(w), st |-> "upload", by |-> NoRun]
    <3>1. brd' = [brd EXCEPT ![b] = v]
      BY <2>2 DEF upload, b
    <3>2. v \in BrdRec
      BY DEF BrdRec, BoardStates, Session
    <3>3. v.st # "playing" /\ ((simulation /\ v.sess \in Runs) => v.image = {v.sess})
      BY DEF Session
    <3> HIDE DEF v
    <3> QED
      BY <1>1, <3>1, <3>2, <3>3, BoardWrite
  <2>3. CASE commit(w) /\ ~(UNCHANGED brd)
    <3> DEFINE v == [brd[b] EXCEPT !.image = @ \cup {w}, !.st = "wait_trigger"]
    <3>1. ~simulation /\ brd' = [brd EXCEPT ![b].image = @ \cup {w}, ![b].st = "wait_trigger"]
      BY <2>3 DEF commit, Offline, b
    <3>2. brd' = [brd EXCEPT ![b] = v]
      BY <1>2, <1>3, <3>1
    <3>3. v \in BrdRec
      BY <1>2, <1>3 DEF BrdRec, BoardStates
    <3> HIDE DEF v
    <3> QED
      BY <1>1, <3>1, <3>2, <3>3, BoardWrite
  <2>4. CASE _record_waveform_session(w) /\ ~(UNCHANGED brd)
    <3> DEFINE v == [image |-> {w}, sess |-> w, st |-> "wait_trigger", by |-> NoRun]
    <3>1. brd' = [brd EXCEPT ![b] = v]
      BY <2>4 DEF _record_waveform_session, b
    <3>2. v \in BrdRec /\ v.st # "playing" /\ v.image = {v.sess}
      BY DEF BrdRec, BoardStates
    <3> HIDE DEF v
    <3> QED
      BY <1>1, <3>1, <3>2, BoardWrite
  <2> QED
    BY <2>1, <2>2, <2>3, <2>4
<1>6. /\ row' \in [Runs -> RowRec] /\ \A r \in Runs : r # w => row'[r] = row[r]
      /\ row'[w].state = row[w].state \/ row'[w].state = "UPLOADING"
  <2>1. CASE UNCHANGED row
    BY <1>3, <2>1
  <2>2. CASE update(w, "UPLOADING")
    BY <1>2, <2>2, UpdateIs DEF RunStates
  <2>3. CASE set_waveform_sessions(w, b)
    BY <1>2, <1>3, <2>3 DEF set_waveform_sessions, RowRec
  <2> QED
    BY <2>1, <2>2, <2>3 DEF upload, commit, _record_waveform_session, b
<1>7. \/ \E pc \in {"fault", "release", "loaded"} : Goto(w, pc)
      \/ \E pc \in {"upload", "commit", "record"}, m \in 1..Len(req[w].jobs) :
           th' = [th EXCEPT ![w] = Moved(th[w], pc, m)]
  <2>1. CASE upload(w)
    BY <1>2, <1>4, <2>1 DEF upload
  <2>2. CASE commit(w)
    BY <1>2, <1>4, <2>2 DEF commit
  <2>3. CASE _record_waveform_session(w)
    <3>1. CASE n < Len(req[w].jobs) /\ th' = [th EXCEPT ![w].pc = "upload", ![w].i = @ + 1]
      <4>1. th' = [th EXCEPT ![w] = [th[w] EXCEPT !.pc = "upload", !.i = n + 1]]
        BY <1>2, <3>1 DEF n
      <4>2. n + 1 \in 1..Len(req[w].jobs)
        BY <1>2, <3>1
      <4> QED
        BY <4>1, <4>2 DEF Moved
    <3>2. CASE Goto(w, AfterUpload(w)) \/ Goto(w, "fault")
      BY <3>2 DEF AfterUpload
    <3> QED
      BY <2>3, <3>1, <3>2 DEF _record_waveform_session, n
  <2> QED
    BY <2>1, <2>2, <2>3
<1>8. th' \in [Threads -> ThreadRec] /\ ThreadInv' /\ NewRunInv' /\ NothingStranded'
  BY <1>1, <1>6, <1>7, WorkerMoves
<1> QED
  BY <1>1, <1>3, <1>5, <1>6, <1>8, Assemble

\* After PLAY, the release of the boards and the record that ends the run.
LEMMA WorkerLastStep ==
  ASSUME IInv, NEW w \in Runs, played(w) \/ release(w) \/ finish(w)
  PROVE  IInv'
<1>1. UNCHANGED <<simulation, req, brd, dropped, bounds>> /\ Alive(w)
  BY DEF played, release, finish, At, Alive
<1>2. /\ w \in Threads /\ th[w].prog = "worker" /\ th[w].r = w /\ row[w].state # "none"
      /\ th[w] # NoThread /\ th[w] \in ThreadRec /\ 1 \in 1..Len(req[w].jobs)
      /\ ThreadOK(w, th[w], row, req, claim, dropped) /\ TypeInv
  BY <1>1, WorkerIs DEF IInv
<1>3. claim \in [Boards -> Runs \cup {NoRun}] /\ dropped' \subseteq Runs /\ row \in [Runs -> RowRec]
  BY <1>1, <1>2 DEF TypeInv
<1>4. CASE played(w)
  <2>1. UNCHANGED claim /\ th[w].pc = "played"
    BY <1>4 DEF played, At
  <2>2. CASE update(w, "RUNNING") /\ Goto(w, "end")
    <3>1. /\ row' \in [Runs -> RowRec] /\ row'[w].state = "RUNNING"
          /\ \A r \in Runs : r # w => row'[r] = row[r]
      BY <1>2, <2>2, UpdateIs DEF RunStates
    <3>2. th' \in [Threads -> ThreadRec] /\ ThreadInv' /\ NewRunInv' /\ NothingStranded'
      BY <1>1, <1>2, <2>1, <2>2, <3>1, LastStep DEF InProgress
    <3> QED
      BY <1>1, <1>3, <2>1, <3>1, <3>2, BoardsKept
  <2>3. CASE UNCHANGED row /\ Goto(w, "mute")
    <3>1. "mute" \in Pcs /\ Place(th[w].prog, "mute")
      BY <1>2 DEF Pcs, WorkerPcs, Place
    <3>2. th' \in [Threads -> ThreadRec] /\ ThreadInv' /\ NewRunInv' /\ NothingStranded'
      BY <1>1, <1>2, <2>1, <2>3, <3>1, GoStep
    <3> QED
      BY <1>1, <1>3, <2>1, <2>3, <3>2, BoardsKept
  <2> QED
    BY <1>4, <2>2, <2>3 DEF played
<1>5. CASE release(w)
  <2> DEFINE k == Moved(th[w], "finish", 1)
  <2>1. _release_group(w) /\ Goto(w, "finish") /\ UNCHANGED row
    BY <1>5 DEF release
  <2>2. "finish" \in Pcs \ {"end"} /\ Place("worker", "finish")
    BY DEF Pcs, WorkerPcs, Place
  <2>3. /\ k \in ThreadRec /\ k # NoThread /\ k.prog = "worker" /\ k.r = w /\ k.pc = "finish" /\ k.i = 1
        /\ th' = [th EXCEPT ![w] = k]
    BY <1>1, <1>2, <2>1, <2>2, MovedIs, GotoIs
  <2>4. /\ claim' \in [Boards -> Runs \cup {NoRun}] /\ Released(w, claim')
        /\ \A b \in Boards : claim'[b] = claim[b] \/ (claim[b] = w /\ claim'[b] = NoRun)
    BY <1>2, <2>1, ReleaseGroup
  <2> HIDE DEF k
  <2>5. ThreadOK(w, k, row', req, claim', dropped')
    BY <1>1, <1>2, <2>1, <2>2, <2>3, <2>4 DEF ThreadOK
  <2>6. /\ req' = req /\ dropped' = dropped /\ row' = row /\ row' \in [Runs -> RowRec]
        /\ w = th[w].r /\ (k # NoThread => k.r = w /\ k.prog = th[w].prog)
        /\ row'[w].state = row[w].state
    BY <1>1, <1>2, <1>3, <2>1, <2>3
  <2>7. th' \in [Threads -> ThreadRec] /\ ThreadInv' /\ NewRunInv' /\ NothingStranded'
    <3>1. w \in Threads /\ Alive(w) /\ k \in ThreadRec /\ k # NoThread /\ th' = [th EXCEPT ![w] = k]
      BY <1>1, <1>2, <2>3
    <3> QED
      BY <2>4, <2>5, <2>6, <3>1, ThreadStep
  <2> QED
    BY <1>1, <1>3, <2>1, <2>4, <2>6, <2>7, BoardsKept
<1>6. CASE finish(w)
  <2>1. Released(w, claim) /\ UNCHANGED claim /\ Goto(w, "end")
    BY <1>2, <1>6 DEF finish, At, ThreadOK
  <2>2. complete_unloaded(w) \/ complete_loaded(w, "DONE")
    BY <1>6 DEF finish, finish_one_shot
  <2>3. /\ row' \in [Runs -> RowRec] /\ row'[w].state = "DONE"
        /\ \A r \in Runs : r # w => row'[r] = row[r]
    <3>1. ASSUME complete_unloaded(w) PROVE row' = [row EXCEPT ![w] = [row[w] EXCEPT !.loaded = FALSE, !.state = "DONE"]]
      BY <1>3, <3>1 DEF complete_unloaded
    <3>2. ASSUME complete_loaded(w, "DONE") PROVE row' = [row EXCEPT ![w] = [row[w] EXCEPT !.loaded = TRUE, !.state = "DONE"]]
      BY <1>3, <3>2 DEF complete_loaded
    <3>3. \A l \in BOOLEAN : /\ [row[w] EXCEPT !.loaded = l, !.state = "DONE"] \in RowRec
                            /\ [row[w] EXCEPT !.loaded = l, !.state = "DONE"].state = "DONE"
      BY <1>3 DEF RowRec, RunStates
    <3> QED
      BY <1>3, <2>2, <3>1, <3>2, <3>3
  <2>4. th' \in [Threads -> ThreadRec] /\ ThreadInv' /\ NewRunInv' /\ NothingStranded'
    BY <1>1, <1>2, <2>1, <2>3, LastStep DEF InProgress
  <2> QED
    BY <1>1, <1>3, <2>1, <2>3, <2>4, BoardsKept
<1> QED
  BY <1>4, <1>5, <1>6

\* The prepare callback: the board it stops, the claim it gives back.
LEMMA PrepareStep ==
  ASSUME IInv, NEW h \in Handlers, prepare(h)
  PROVE  IInv'
<1> DEFINE x == th[h].r
           b == req[x].jobs[1]
<1>1. UNCHANGED <<simulation, row, req, dropped, bounds>> /\ Alive(h) /\ th[h].pc = "prepare" /\ h \in Threads
  BY DEF prepare, At, Alive, Threads
<1>2. ThreadOK(h, th[h], row, req, claim, dropped) /\ th[h] # NoThread /\ x \in Runs /\ TypeInv
  BY <1>1, AliveIs DEF IInv
<1>3. th[h].prog = "create"
  BY <1>1, <1>2 DEF ThreadOK, Place, WorkerPcs, FaultPcs
<1>4. row \in [Runs -> RowRec] /\ brd \in [Boards -> BrdRec] /\ dropped \subseteq Runs
      /\ claim \in [Boards -> Runs \cup {NoRun}] /\ b \in Boards
  BY <1>2, JobsAre DEF TypeInv, ThreadOK, BoardIds
<1>5. brd' \in [Boards -> BrdRec] /\ BoardInv'
  <2>1. CASE UNCHANGED brd
    BY <1>1, <1>4, <2>1 DEF IInv, BoardInv
  <2>2. CASE ~(UNCHANGED brd)
    <3> DEFINE v == [brd[b] EXCEPT !.st = "ready", !.by = NoRun]
    <3>1. brd' = [brd EXCEPT ![b].st = "ready", ![b].by = NoRun]
      BY <2>2 DEF prepare
    <3>2. brd' = [brd EXCEPT ![b] = v]
      BY <1>4, <3>1
    <3>3. v \in BrdRec /\ v.st # "playing" /\ v.sess = brd[b].sess /\ v.image = brd[b].image
      <4>1. brd[b] \in BrdRec
        BY <1>4
      <4> QED
        BY <4>1 DEF BrdRec, BoardStates
    <3>4. simulation /\ v.sess \in Runs => v.image = {v.sess}
      BY <1>4, <3>3 DEF IInv, BoardInv
    <3> HIDE DEF v
    <3> QED
      BY <1>1, <3>2, <3>3, <3>4, BoardWrite
  <2> QED
    BY <2>1, <2>2
<1>6. /\ th' \in [Threads -> ThreadRec] /\ claim' \in [Boards -> Runs \cup {NoRun}]
      /\ ThreadInv' /\ NewRunInv' /\ NothingStranded'
  <2>1. CASE Goto(h, "insert") /\ UNCHANGED claim
    <3>1. "insert" \in Pcs /\ Place(th[h].prog, "insert")
      BY <1>3 DEF Pcs, Place
    <3> QED
      BY <1>1, <1>4, <2>1, <3>1, GoStep
  <2>2. CASE Goto(h, "end") /\ _release_group(x)
    <3>1. /\ claim' \in [Boards -> Runs \cup {NoRun}] /\ Released(x, claim')
          /\ \A d \in Boards : claim'[d] = claim[d] \/ (claim[d] = x /\ claim'[d] = NoRun)
      BY <1>2, <2>2, ReleaseGroup
    <3>2. th' = [th EXCEPT ![h] = NoThread] /\ NoThread \in ThreadRec
      BY <2>2 DEF Goto, NoThread, ThreadRec, Progs, Pcs
    <3>3. ThreadOK(h, NoThread, row', req, claim', dropped')
      BY DEF ThreadOK
    <3>4. row[x].state = "none" /\ row' = row /\ dropped' = dropped /\ req' = req
      BY <1>1, <1>2, <1>3 DEF ThreadOK
    <3>5. row'[x].state \notin InProgress
      BY <3>4 DEF InProgress
    <3> HIDE DEF x
    <3>6. th' \in [Threads -> ThreadRec] /\ ThreadInv' /\ NewRunInv' /\ NothingStranded'
      BY <1>1, <1>3, <1>4, <3>1, <3>2, <3>3, <3>4, <3>5, ThreadStep DEF x
    <3> QED
      BY <3>1, <3>6
  <2> QED
    BY <2>1, <2>2 DEF prepare
<1> QED
  BY <1>1, <1>4, <1>5, <1>6, Assemble

\* The insert of the record, which starts the worker.
LEMMA InsertStep ==
  ASSUME IInv, NEW h \in Handlers, insert(h)
  PROVE  IInv'
<1>0. PICK x : x = th[h].r
  OBVIOUS
<1> DEFINE k == [prog |-> "worker", pc |-> "generate", r |-> x, i |-> 1]
<1>1. UNCHANGED <<simulation, req, claim, brd, dropped, bounds>> /\ Alive(h) /\ th[h].pc = "insert" /\ h \in Threads
  BY DEF insert, At, Alive, Threads
<1>2. ThreadOK(h, th[h], row, req, claim, dropped) /\ th[h] # NoThread /\ x \in Runs /\ TypeInv
  BY <1>0, <1>1, AliveIs DEF IInv
<1>3. th[h].prog = "create" /\ Owns(x, req, claim) /\ req[x] # NoRequest /\ row[x].state = "none"
  BY <1>0, <1>1, <1>2 DEF ThreadOK, Place, WorkerPcs, FaultPcs
<1>4. x \in Threads /\ x # h /\ th \in [Threads -> ThreadRec] /\ 1 \in 1..Len(req[x].jobs)
  BY <1>2, <1>3, JobsAre, ThreadsAssumption DEF Threads, TypeInv
<1>5. /\ row' \in [Runs -> RowRec] /\ row'[x].state = "QUEUED" /\ \A r \in Runs : r # x => row'[r] = row[r]
  BY <1>0, <1>2, UpdateIs DEF insert, RunStates
<1>6. th' = [th EXCEPT ![h] = NoThread, ![x] = k]
  BY <1>0 DEF insert
<1>7. k \in ThreadRec /\ NoThread \in ThreadRec /\ k # NoThread /\ NoThread.prog # "create" /\ NoThread.pc = "end"
      /\ k.prog = "worker" /\ k.r = x /\ k.i = 1 /\ k.pc = "generate"
  BY <1>2 DEF ThreadRec, NoThread, Progs, Pcs, WorkerPcs
<1> HIDE DEF k
<1>8. \A u \in Threads : th'[u] = IF u = x THEN k ELSE IF u = h THEN NoThread ELSE th[u]
  BY <1>4, <1>6
<1>9. th' \in [Threads -> ThreadRec]
  BY <1>4, <1>6, <1>7
\* The other threads have other runs.
<1>10. \A u \in Threads : u # h /\ th[u] # NoThread => th[u].r \in Runs /\ th[u].r # x
  <2> SUFFICES ASSUME NEW u \in Threads, u # h, th[u] # NoThread PROVE th[u].r \in Runs /\ th[u].r # x
    OBVIOUS
  <2>1. ThreadOK(u, th[u], row, req, claim, dropped)
    BY DEF IInv, ThreadInv
  <2>2. th[u].r = x => th[u].prog = "create"
    BY <1>3, <2>1 DEF ThreadOK
  <2>3. th[u].r = x /\ th[u].prog = "create" => u = h
    BY <1>0, <1>1, <1>3 DEF IInv, NewRunInv
  <2> QED
    BY <2>1, <2>2, <2>3 DEF ThreadOK
<1>11. ThreadInv'
  <2>1. ASSUME NEW u \in Threads PROVE ThreadOK(u, th'[u], row', req, claim, dropped)
    <3>1. CASE u = x
      <4>1. x \in Runs <=> k.prog = "worker"
        BY <1>2, <1>7
      <4>2. Place(k.prog, k.pc)
        BY <1>7 DEF Place, WorkerPcs
      <4>3. ThreadOK(x, k, row', req, claim, dropped)
        BY <1>3, <1>4, <1>5, <1>7, <4>1, <4>2 DEF ThreadOK, LoadedProgs
      <4> QED
        BY <1>8, <3>1, <4>3
    <3>2. CASE u # x /\ u = h
      BY <1>8, <3>2 DEF ThreadOK
    <3>3. CASE u # x /\ u # h
      <4>1. th'[u] = th[u] /\ ThreadOK(u, th[u], row, req, claim, dropped)
        BY <1>8, <3>3 DEF IInv, ThreadInv
      <4>2. th[u] # NoThread => row'[th[u].r] = row[th[u].r]
        BY <1>5, <1>10, <3>3
      <4> QED
        BY <4>1, <4>2 DEF ThreadOK
    <3> QED
      BY <3>1, <3>2, <3>3
  <2> QED
    BY <1>1, <2>1 DEF ThreadInv
<1>12. NewRunInv'
  <2>1. \A r \in Runs : req[r] = NoRequest => row'[r].state = "none"
    BY <1>3, <1>5 DEF IInv, NewRunInv
  <2>2. \A u \in Threads : th'[u].prog = "create" => th'[u] = th[u]
    BY <1>7, <1>8
  <2> QED
    BY <1>1, <2>1, <2>2 DEF IInv, NewRunInv
<1>13. NothingStranded'
  <2>1. Alive(x)' /\ th'[x].r = x
    BY <1>4, <1>7, <1>8 DEF Alive
  <2>2. \A u \in Threads : u # h /\ Alive(u) => Alive(u)' /\ (u # x => th'[u] = th[u])
    BY <1>7, <1>8 DEF Alive
  <2>3. ASSUME NEW b \in Boards, claim[b] # NoRun
        PROVE  \/ \E u \in Threads : Alive(u)' /\ th'[u].r = claim[b]
               \/ row'[claim[b]].state \in {"ARMED", "RUNNING"}
    <3>1. CASE claim[b] = x
      BY <1>4, <2>1, <3>1
    <3>2. CASE claim[b] # x
      <4>1. claim[b] \in Runs
        BY <1>2, <2>3 DEF TypeInv
      <4>2. \/ \E u \in Threads : Alive(u) /\ th[u].r = claim[b]
            \/ row[claim[b]].state \in {"ARMED", "RUNNING"}
        BY <2>3 DEF IInv, NothingStranded, ClaimIsRecoverable
      <4>3. ASSUME NEW u \in Threads, Alive(u), th[u].r = claim[b] PROVE Alive(u)' /\ th'[u].r = claim[b]
        <5>1. u # h /\ (u = x => th[u].r = x)
          BY <1>0, <1>2, <3>2, <4>3, WorkerIs
        <5> QED
          BY <2>2, <3>2, <4>3, <5>1
      <4> QED
        BY <1>5, <3>2, <4>1, <4>2, <4>3
    <3> QED
      BY <3>1, <3>2
  <2>4. ASSUME NEW r \in Runs, row'[r].state \in InProgress PROVE Alive(r)'
    <3>1. CASE r = x
      BY <2>1, <3>1
    <3>2. CASE r # x
      <4>1. Alive(r) /\ r \in Threads /\ r # h
        BY <1>5, <2>4, <3>2, ThreadsAssumption DEF IInv, NothingStranded, InProgressHasThread, InProgress, Threads
      <4> QED
        BY <2>2, <4>1
    <3> QED
      BY <3>1, <3>2
  <2>5. ASSUME NEW r \in Runs, row'[r].state = "DONE" PROVE \A b \in Boards : claim[b] # r
    BY <1>5, <2>5 DEF IInv, NothingStranded, DoneMeansReleased
  <2> QED
    BY <1>1, <2>3, <2>4, <2>5 DEF NothingStranded, ClaimIsRecoverable, InProgressHasThread,
                                  DoneMeansReleased, InProgress
<1>14. claim' \in [Boards -> Runs \cup {NoRun}] /\ dropped' \subseteq Runs
  BY <1>1, <1>2 DEF TypeInv
<1> QED
  BY <1>1, <1>5, <1>9, <1>11, <1>12, <1>13, <1>14, BoardsKept

\* The claim of a new run and its handler.
LEMMA CreateStep ==
  ASSUME IInv, NEW h \in Handlers, NEW x \in Runs, NEW q \in Requests, create(h, x, q)
  PROVE  IInv'
<1> DEFINE k == [prog |-> "create", pc |-> "prepare", r |-> x, i |-> 1]
<1>1. /\ UNCHANGED <<simulation, row, brd, dropped, bounds>> /\ ~Alive(h) /\ h \in Threads
      /\ req[x] = NoRequest /\ \A b \in Range(q.jobs) : claim[b] = NoRun
      /\ claim' = [b \in Boards |-> IF b \in Range(q.jobs) THEN x ELSE claim[b]]
      /\ req' = [req EXCEPT ![x] = q] /\ th' = [th EXCEPT ![h] = k]
  BY DEF create, Threads
<1>2. TypeInv /\ req \in [Runs -> Requests \cup {NoRequest}] /\ th \in [Threads -> ThreadRec]
      /\ claim \in [Boards -> Runs \cup {NoRun}] /\ dropped \subseteq Runs /\ row \in [Runs -> RowRec]
      /\ brd \in [Boards -> BrdRec]
  BY DEF IInv, TypeInv
<1>3. q.jobs \in Seq(Boards) /\ q.jobs # <<>> /\ q # NoRequest /\ 1 \in 1..Len(q.jobs)
  <2>1. q.jobs \in Seq(Boards) /\ q.jobs # <<>>
    BY RequestsAssumption
  <2> QED
    BY <2>1 DEF NoRequest
<1>4. row[x].state = "none"
  BY <1>1 DEF IInv, NewRunInv
<1>5. k \in ThreadRec /\ k # NoThread /\ k.prog = "create" /\ k.r = x /\ k.i = 1 /\ k.pc = "prepare"
  BY DEF ThreadRec, NoThread, Progs, Pcs
<1> HIDE DEF k
<1>6. \A u \in Threads : th'[u] = IF u = h THEN k ELSE th[u]
  BY <1>1, <1>2
<1>7. req' \in [Runs -> Requests \cup {NoRequest}] /\ req'[x] = q /\ \A r \in Runs : r # x => req'[r] = req[r]
  BY <1>1, <1>2
<1>8. claim' \in [Boards -> Runs \cup {NoRun}] /\ th' \in [Threads -> ThreadRec]
  BY <1>1, <1>2, <1>5
<1>9. \A b \in Boards : claim'[b] = IF b \in Range(q.jobs) THEN x ELSE claim[b]
  BY <1>1
\* Nobody works on the run yet.
<1>10. \A u \in Threads : th[u] # NoThread => th[u].r \in Runs /\ th[u].r # x
  BY <1>1 DEF IInv, ThreadInv, ThreadOK
<1>11. ThreadInv'
  <2>1. ASSUME NEW u \in Threads PROVE ThreadOK(u, th'[u], row, req', claim', dropped)
    <3>1. CASE u = h
      <4>1. h \notin Runs /\ Place(k.prog, k.pc)
        BY <1>5, ThreadsAssumption DEF Place
      <4>2. Owns(x, req', claim')
        BY <1>3, <1>7, <1>9 DEF Owns, Range
      <4>3. ThreadOK(h, k, row, req', claim', dropped)
        BY <1>3, <1>4, <1>5, <1>7, <4>1, <4>2 DEF ThreadOK, LoadedProgs
      <4> QED
        BY <1>6, <3>1, <4>3
    <3>2. CASE u # h /\ th[u] # NoThread
      <4> DEFINE p == th[u]
      <4>1. th'[u] = p /\ ThreadOK(u, p, row, req, claim, dropped) /\ p # NoThread /\ p.r \in Runs /\ p.r # x
        BY <1>6, <1>10, <3>2 DEF IInv, ThreadInv
      <4>2. req'[p.r] = req[p.r] /\ BoardIds(p.r) \subseteq Boards
        BY <1>2, <1>7, <4>1, JobsAre DEF ThreadOK
      <4>3. Owns(p.r, req, claim) => Owns(p.r, req', claim')
        BY <1>1, <1>9, <4>1, <4>2, NoRunAssumption DEF Owns, BoardIds
      <4>4. Released(p.r, claim) => Released(p.r, claim')
        BY <1>9, <4>1 DEF Released
      <4> HIDE DEF p
      <4>5. ThreadOK(u, p, row, req', claim', dropped)
        BY <4>1, <4>2, <4>3, <4>4 DEF ThreadOK
      <4> QED
        BY <4>1, <4>5
    <3>3. CASE u # h /\ th[u] = NoThread
      BY <1>6, <3>3 DEF ThreadOK
    <3> QED
      BY <3>1, <3>2, <3>3
  <2> QED
    BY <1>1, <2>1 DEF ThreadInv
<1>12. NewRunInv'
  <2>1. \A r \in Runs : req'[r] = NoRequest => row[r].state = "none"
    BY <1>4, <1>7 DEF IInv, NewRunInv
  <2>2. ASSUME NEW u \in Threads, NEW v \in Threads, th'[u].prog = "create", th'[v].prog = "create",
               th'[u].r = th'[v].r
        PROVE  u = v
    <3>1. NoThread.prog # "create"
      BY DEF NoThread
    <3>2. \A w \in Threads : w # h /\ th'[w].prog = "create" => th'[w] = th[w] /\ th[w].r # x
      BY <1>6, <1>10, <3>1
    <3> QED
      BY <1>5, <1>6, <2>2, <3>2 DEF IInv, NewRunInv
  <2> QED
    BY <1>1, <2>1, <2>2 DEF NewRunInv
<1>13. NothingStranded'
  <2>1. Alive(h)' /\ th'[h].r = x
    BY <1>1, <1>5, <1>6 DEF Alive
  <2>2. \A u \in Threads : Alive(u) => Alive(u)' /\ th'[u] = th[u]
    BY <1>1, <1>6 DEF Alive
  <2>3. ASSUME NEW b \in Boards, claim'[b] # NoRun
        PROVE  \/ \E u \in Threads : Alive(u)' /\ th'[u].r = claim'[b]
               \/ row[claim'[b]].state \in {"ARMED", "RUNNING"}
    <3>1. CASE b \in Range(q.jobs)
      BY <1>1, <1>9, <2>1, <3>1
    <3>2. CASE b \notin Range(q.jobs)
      BY <1>9, <2>2, <2>3, <3>2 DEF IInv, NothingStranded, ClaimIsRecoverable
    <3> QED
      BY <3>1, <3>2
  <2>4. ASSUME NEW r \in Runs, row[r].state \in InProgress PROVE Alive(r)'
    BY <2>2, <2>4 DEF IInv, NothingStranded, InProgressHasThread, InProgress, Threads
  <2>5. ASSUME NEW r \in Runs, row[r].state = "DONE" PROVE \A b \in Boards : claim'[b] # r
    BY <1>4, <1>9, <2>5 DEF IInv, NothingStranded, DoneMeansReleased
  <2> QED
    BY <1>1, <2>3, <2>4, <2>5 DEF NothingStranded, ClaimIsRecoverable, InProgressHasThread,
                                  DoneMeansReleased, InProgress
<1>14. TypeInv'
  BY <1>1, <1>2, <1>7, <1>8 DEF IInv, TypeInv, bounds
<1>15. BoardInv'
  BY <1>1 DEF IInv, BoardInv
<1> QED
  BY <1>11, <1>12, <1>13, <1>14, <1>15 DEF IInv

\* A handler that starts on a posted run.
LEMMA CallStep ==
  ASSUME IInv, NEW h \in Handlers, NEW x \in Runs, NEW prog \in Progs, NEW pc \in Pcs \ {"end"},
         Call(h, prog, pc, x), Place(prog, pc), row[x].state # "none",
         prog \notin {"worker", "create"}, pc \notin FaultPcs \cup {"finish", "release_aborted"},
         prog \in LoadedProgs => row[x].state = "DONE"
  PROVE  IInv'
<1> DEFINE k == [prog |-> prog, pc |-> pc, r |-> x, i |-> 1]
<1>1. /\ UNCHANGED <<simulation, row, req, claim, brd, dropped, crashes>> /\ ~Alive(h) /\ h \in Threads
      /\ th' = [th EXCEPT ![h] = k] /\ calls < MaxCalls /\ calls' = calls + 1
  BY DEF Call, Threads
<1>2. TypeInv /\ th \in [Threads -> ThreadRec]
  BY DEF IInv, TypeInv
<1>3. req[x] # NoRequest
  BY DEF IInv, NewRunInv
<1>4. k \in ThreadRec /\ k # NoThread /\ k.prog = prog /\ k.r = x /\ k.i = 1 /\ k.pc = pc
  BY DEF ThreadRec, NoThread
<1> HIDE DEF k
<1>5. \A u \in Threads : th'[u] = IF u = h THEN k ELSE th[u]
  BY <1>1, <1>2
<1>6. 1 \in 1..Len(req[x].jobs)
  BY <1>2, <1>3, JobsAre
<1>7. prog \in LoadedProgs => Released(x, claim)
  BY DEF IInv, NothingStranded, DoneMeansReleased, Released
<1>8. ThreadOK(h, k, row, req, claim, dropped)
  BY <1>3, <1>4, <1>6, <1>7, ThreadsAssumption DEF ThreadOK, FaultPcs
<1>9. ThreadInv'
  BY <1>1, <1>5, <1>8 DEF IInv, ThreadInv
<1>10. NewRunInv'
  BY <1>1, <1>4, <1>5 DEF IInv, NewRunInv
<1>11. NothingStranded'
  <2>1. \A u \in Threads : Alive(u) => Alive(u)' /\ th'[u] = th[u]
    BY <1>1, <1>5 DEF Alive
  <2>2. ClaimIsRecoverable'
    BY <1>1, <2>1 DEF IInv, NothingStranded, ClaimIsRecoverable
  <2>3. InProgressHasThread'
    BY <1>1, <2>1 DEF IInv, NothingStranded, InProgressHasThread, Threads
  <2>4. DoneMeansReleased'
    BY <1>1 DEF IInv, NothingStranded, DoneMeansReleased
  <2> QED
    BY <2>2, <2>3, <2>4 DEF NothingStranded
<1>12. TypeInv'
  <2>1. th' \in [Threads -> ThreadRec]
    BY <1>1, <1>2, <1>4
  <2>2. calls' \in 0..MaxCalls
    BY <1>1, <1>2, BoundsAssumption DEF TypeInv
  <2> QED
    BY <1>1, <1>2, <2>1, <2>2 DEF TypeInv
<1>13. BoardInv'
  BY <1>1 DEF IInv, BoardInv
<1> QED
  BY <1>9, <1>10, <1>11, <1>12, <1>13 DEF IInv

\* Every request of a client.
LEMMA RequestStep ==
  ASSUME IInv, NEW h \in Handlers, Request(h)
  PROVE  IInv'
<1> PICK x \in Runs :
      \/ \E q \in Requests : create(h, x, q)
      \/ call_arm(h, x) \/ call_start(h, x) \/ call_abort(h, x) \/ call_arm_loaded(h, x)
      \/ call_trigger_loaded(h, x) \/ call_play_loaded(h, x) \/ call_abort_loaded(h, x)
  BY DEF Request
<1>1. CASE \E q \in Requests : create(h, x, q)
  BY <1>1, CreateStep
<1>2. CASE ~\E q \in Requests : create(h, x, q)
  <2>1. \E prog \in Progs, pc \in Pcs \ {"end"} :
          /\ Call(h, prog, pc, x) /\ Place(prog, pc) /\ row[x].state # "none"
          /\ prog \notin {"worker", "create"} /\ pc \notin FaultPcs \cup {"finish", "release_aborted"}
          /\ prog \in LoadedProgs => row[x].state = "DONE"
    <3> USE DEF Progs, LoadedProgs, Pcs, WorkerPcs, FaultPcs, Place
    <3>1. CASE call_arm(h, x)
      BY <3>1 DEF call_arm
    <3>2. CASE call_start(h, x)
      BY <3>2 DEF call_start
    <3>3. CASE call_abort(h, x)
      BY <3>3 DEF call_abort
    <3>4. CASE call_arm_loaded(h, x)
      BY <3>4 DEF call_arm_loaded, _require_loaded
    <3>5. CASE call_trigger_loaded(h, x)
      BY <3>5 DEF call_trigger_loaded, _require_loaded
    <3>6. CASE call_play_loaded(h, x)
      BY <3>6 DEF call_play_loaded, _require_loaded
    <3>7. CASE call_abort_loaded(h, x)
      BY <3>7 DEF call_abort_loaded, _require_loaded
    <3> QED
      BY <1>2, <3>1, <3>2, <3>3, <3>4, <3>5, <3>6, <3>7
  <2> QED
    BY <2>1, CallStep
<1> QED
  BY <1>1, <1>2

\* A board that stops by itself, and a restart of the server.
LEMMA OutsideStep ==
  ASSUME IInv, (\E b \in Boards : board_step(b)) \/ restart
  PROVE  IInv'
<1>1. TypeInv /\ row \in [Runs -> RowRec] /\ brd \in [Boards -> BrdRec]
  BY DEF IInv, TypeInv
<1>2. ASSUME NEW b \in Boards, board_step(b) PROVE IInv'
  <2> DEFINE v == [brd[b] EXCEPT !.st = "ready", !.by = NoRun]
  <2>1. /\ UNCHANGED <<simulation, row, req, claim, th, dropped, bounds>> /\ ~simulation
        /\ brd' = [brd EXCEPT ![b] = v]
    BY <1>1, <1>2 DEF board_step
  <2>2. v \in BrdRec
    BY <1>1 DEF BrdRec, BoardStates
  <2> HIDE DEF v
  <2>3. brd' \in [Boards -> BrdRec] /\ BoardInv'
    BY <2>1, <2>2, BoardWrite
  <2>4. TypeInv'
    BY <1>1, <2>1, <2>3 DEF TypeInv, bounds
  <2>5. ThreadInv' /\ NewRunInv'
    BY <2>1 DEF IInv, ThreadInv, NewRunInv
  <2>6. NothingStranded'
    BY <2>1 DEF IInv, NothingStranded, ClaimIsRecoverable, InProgressHasThread, DoneMeansReleased, Alive
  <2> QED
    BY <2>3, <2>4, <2>5, <2>6 DEF IInv
<1>3. CASE restart
  <2>1. /\ UNCHANGED <<simulation, req, dropped, calls>> /\ crashes < MaxCrashes /\ crashes' = crashes + 1
        /\ th' = [t \in Threads |-> NoThread] /\ claim' = [b \in Boards |-> NoRun]
    BY <1>3 DEF restart
  <2>2. \A r \in Runs : row'[r] = IF row[r].state \in Orphaned
                                  THEN [row[r] EXCEPT !.state = "ABORTED"] ELSE row[r]
    BY <1>3 DEF restart, recover_orphaned
  <2>3. \A r \in Runs : /\ row'[r] \in RowRec /\ row'[r].state \notin InProgress
                        /\ row[r].state = "none" => row'[r].state = "none"
    <3> SUFFICES ASSUME NEW r \in Runs
                 PROVE  /\ row'[r] \in RowRec /\ row'[r].state \notin InProgress
                        /\ row[r].state = "none" => row'[r].state = "none"
      OBVIOUS
    <3>1. row[r] \in RowRec
      BY <1>1
    <3>2. CASE row[r].state \in Orphaned
      BY <2>2, <3>1, <3>2, ZenonT(90) DEF RowRec, RunStates, Orphaned, InProgress
    <3>3. CASE row[r].state \notin Orphaned
      BY <2>2, <3>1, <3>3 DEF Orphaned, InProgress
    <3> QED
      BY <3>2, <3>3
  <2>4. row' \in [Runs -> RowRec]
    BY <1>3, <2>3 DEF restart, recover_orphaned
  <2>5. brd' \in [Boards -> BrdRec] /\ BoardInv'
    <3>1. CASE simulation
      <4>1. brd' = [b \in Boards |-> [image |-> {}, sess |-> NoRun, st |-> "idle", by |-> NoRun]]
        BY <1>3, <3>1 DEF restart
      <4> QED
        BY <4>1, NoRunAssumption DEF BrdRec, BoardStates, BoardInv
    <3>2. CASE ~simulation
      BY <1>1, <1>3, <2>1, <3>2 DEF restart, BoardInv
    <3> QED
      BY <3>1, <3>2
  <2>6. \A t \in Threads : th'[t] = NoThread
    BY <2>1
  <2>7. th' \in [Threads -> ThreadRec] /\ claim' \in [Boards -> Runs \cup {NoRun}]
    BY <2>1 DEF ThreadRec, NoThread, Progs, Pcs
  <2>8. crashes' \in 0..MaxCrashes
    BY <1>1, <2>1, BoundsAssumption DEF TypeInv
  <2>9. TypeInv'
    BY <1>1, <2>1, <2>4, <2>5, <2>7, <2>8 DEF TypeInv
  <2>10. ThreadInv'
    BY <2>6 DEF ThreadInv, ThreadOK
  <2>11. NewRunInv'
    <3>1. NoThread.prog # "create"
      BY DEF NoThread
    <3> QED
      BY <2>1, <2>3, <2>6, <3>1 DEF IInv, NewRunInv
  <2>12. NothingStranded'
    BY <2>1, <2>3, NoRunAssumption DEF NothingStranded, ClaimIsRecoverable, InProgressHasThread,
                                       DoneMeansReleased, InProgress
  <2> QED
    BY <2>5, <2>9, <2>10, <2>11, <2>12 DEF IInv
<1> QED
  BY <1>2, <1>3

\* The server starts with no run, no claim and no thread.
LEMMA InitIInv == Init => IInv
<1> SUFFICES ASSUME Init PROVE IInv
  OBVIOUS
<1>1. TypeInv
  BY BoundsAssumption DEF Init, TypeInv, RowRec, RunStates, ThreadRec, NoThread, Progs, Pcs, BrdRec, BoardStates
<1>2. ThreadInv /\ NewRunInv
  BY DEF Init, ThreadInv, ThreadOK, NewRunInv, NoThread
<1>3. NothingStranded
  BY DEF Init, NothingStranded, ClaimIsRecoverable, InProgressHasThread, DoneMeansReleased
<1>4. BoardInv
  BY NoRunAssumption DEF Init, BoardInv
<1> QED
  BY <1>1, <1>2, <1>3, <1>4 DEF IInv

\* Every step of a thread, a client, a board or the server keeps the invariant.
LEMMA StepIInv == IInv /\ [Next]_vars => IInv'
<1> SUFFICES ASSUME IInv, [Next]_vars PROVE IInv'
  OBVIOUS
<1>1. CASE UNCHANGED vars
  <2>1. TypeInv'
    BY <1>1 DEF vars, bounds, IInv, TypeInv
  <2>2. ThreadInv' /\ NewRunInv' /\ BoardInv'
    BY <1>1 DEF vars, bounds, IInv, ThreadInv, NewRunInv, BoardInv
  <2>3. NothingStranded'
    BY <1>1 DEF vars, IInv, NothingStranded, ClaimIsRecoverable, InProgressHasThread, DoneMeansReleased, Alive
  <2> QED
    BY <2>1, <2>2, <2>3 DEF IInv
<1>2. ASSUME NEW t \in Threads, Step(t) PROVE IInv'
  <2>1. CASE ArmStep(t) \/ PlayStep(t) \/ MuteStep(t) \/ mute_fault(t)
    BY <2>1, LoopStep
  <2>2. CASE _fault(t) \/ release_fault(t)
    BY <2>2, FaultStep
  <2>3. CASE t \in Runs /\ _execute(t)
    BY <2>3, WorkerWriteStep, UploadStep, WorkerLastStep DEF _execute
  <2>4. CASE t \in Handlers /\ (prepare(t) \/ insert(t) \/ recheck(t))
    BY <2>4, PrepareStep, InsertStep, LoopStep
  <2>5. CASE t \in Handlers /\ (armed(t) \/ running(t) \/ aborted(t) \/ release_aborted(t))
    BY <2>5, HandlerStep
  <2> QED
    BY <1>2, <2>1, <2>2, <2>3, <2>4, <2>5 DEF Step
<1>3. ASSUME NEW h \in Handlers, Request(h) PROVE IInv'
  BY <1>3, RequestStep
<1>4. ASSUME (\E b \in Boards : board_step(b)) \/ restart PROVE IInv'
  BY <1>4, OutsideStep
<1> QED
  BY <1>1, <1>2, <1>3, <1>4 DEF Next

\* The inductive invariant of the coordinator holds in every reachable state.
THEOREM InvariantHolds == Spec => []IInv
<1> QED
  BY InitIInv, StepIInv, PTL DEF Spec

\* The type invariant of WebRuns: a live thread works on a run it knows, with its
\* loop on one of the boards of that run.
THEOREM TypeSafe == Spec => []TypeOK
<1>1. ASSUME IInv PROVE TypeOK
  <2>1. ASSUME NEW t \in Threads, Alive(t) PROVE th[t].r \in Runs /\ th[t].i \in DOMAIN req[th[t].r].jobs
    <3>1. th[t].r \in Runs /\ th[t].i \in 1..Len(req[th[t].r].jobs) /\ req[th[t].r] # NoRequest
      BY <1>1, <2>1, AliveIs DEF ThreadOK
    <3>2. req[th[t].r].jobs \in Seq(Boards)
      BY <1>1, <3>1, JobsAre DEF IInv
    <3> QED
      BY <3>1, <3>2
  <2>2. ASSUME NEW t \in Threads, ~Alive(t) PROVE th[t] = NoThread
    BY <1>1, <2>2, AliveIs
  <2>3. DOMAIN th = Threads
    BY <1>1 DEF IInv, TypeInv
  <2> QED
    BY <1>1, <2>1, <2>2, <2>3 DEF IInv, TypeInv, TypeOK, RowRec, BrdRec
<1> QED
  BY <1>1, InvariantHolds, PTL

\* RunCoordinator's claims: a worker that no abort and no fault has overtaken
\* owns every board of its run until its own release.
THEOREM OwnershipSafe == Spec => []WorkerOwnsBoards
<1>1. ASSUME IInv PROVE WorkerOwnsBoards
  <2> SUFFICES ASSUME NEW r \in Runs, Alive(r), r \notin dropped, ~At(r, "finish")
               PROVE  \A b \in BoardIds(r) : claim[b] = r
    BY DEF WorkerOwnsBoards
  <2>1. ThreadOK(r, th[r], row, req, claim, dropped) /\ th[r] # NoThread /\ th[r].prog = "worker" /\ th[r].r = r
    BY <1>1, WorkerIs
  <2>2. Owns(r, req, claim)
    BY <2>1 DEF ThreadOK, At
  <2> QED
    BY <2>2 DEF Owns, BoardIds
<1> QED
  BY <1>1, InvariantHolds, PTL

\* Whichever calls fail and whenever the server restarts: every claimed board can
\* be got back, every run in progress is driven, a finished run has no board.
THEOREM StrandedSafe == Spec => []NothingStranded
<1>1. IInv => NothingStranded
  BY DEF IInv
<1> QED
  BY <1>1, InvariantHolds, PTL

\* In simulation a board plays the whole image of the run that started it.
THEOREM OwnImageSafe == Spec => []PlaysOwnImage
<1>1. IInv => PlaysOwnImage
  BY DEF IInv, BoardInv, PlaysOwnImage
<1> QED
  BY <1>1, InvariantHolds, PTL
=============================================================================
