------------------------- MODULE TestSessionsProofs -------------------------
(***************************************************************************)
(* Invariance proofs for TestSessions, for every set of tests and threads, *)
(* any number of points of a test and any number of calls and faults.  The *)
(* inductive invariant says which points a worker, and the current point   *)
(* of a test, has left behind it (ThreadOK, CoverInv).                     *)
(***************************************************************************)
EXTENDS TestSessions, TLAPS

ExecutingPcs == {"unload", "unload_mute", "configure", "submit", "wait", "play", "settled", "forget",
                 "ready", "failed"}
PointPcs == {"mark", "mark_point", "failed_test"} \cup ExecutingPcs
WorkerPcs == {"read", "check", "ready_again", "complete"} \cup PointPcs
HandlerPcs == {"start_write", "spawn", "pause_write", "abort_pop", "abort_mute", "abort_write",
               "measured", "complete"} \cup PointPcs
MaxPcs == {"dry", "inspect", "uploading", "max_failed"}
Pcs == {"end"} \cup WorkerPcs \cup HandlerPcs \cup MaxPcs

ThreadRec == [pc : Pcs, t : Tests \cup {None}, i : 0..N]
TestRec == [state : {"none", "DRAFT", "RUNNING", "PAUSED", "COMPLETED", "FAILED", "ABORTED"},
            cur : 0..N, set : Settings]

DataInv ==
  /\ test \in [Tests -> TestRec]
  /\ pt \in [PointRuns -> {"PENDING", "RUNNING", "READY", "FAILED", "MEASURED"}]
  /\ loaded \in [Tests -> PointRuns \cup {None}]
  /\ stopOf \in [Tests -> Workers \cup {None}] /\ stopped \subseteq Workers
  /\ mx \in [MaxTests -> {"none", "PENDING", "UPLOADING", "COMPLETED", "FAILED", "ABORTED"}]
  /\ claim \in PointRuns \cup {None}
  /\ brd \in {"idle", "ready", "wait_trigger", "playing"}
  /\ covered \subseteq PointRuns /\ manual \subseteq Tests
  /\ calls \in 0..MaxCalls /\ faults \in 0..MaxFaults

\* The points of t below n are covered.
Below(t, n, cov) == \A j \in Points : j < n => <<t, j>> \in cov

\* Where thread x may be when it is k, and what it has left behind it: a
\* worker every point below its own, unless a client has executed one.
ThreadOK(x, k, cov, man) ==
  k # NoThread =>
    /\ \/ x \in Workers /\ k.pc \in WorkerPcs /\ k.t \in Tests
       \/ x \in Handlers /\ k.pc \in HandlerPcs /\ k.t \in Tests
       \/ x \in MaxTests /\ k.pc \in MaxPcs
    /\ k.pc \in PointPcs \cup {"ready_again"} => k.i \in Points
    /\ x \in Handlers /\ k.pc = "mark" => k.t \in man
    /\ x \in Handlers /\ k.pc = "complete" => Below(k.t, N, cov)
    /\ x \in Workers /\ k.t \notin man =>
         /\ Below(k.t, k.i, cov)
         /\ k.pc = "ready_again" => <<k.t, k.i>> \in cov
         /\ k.pc = "complete" => k.i = N

ThreadInv == \A x \in Threads : ThreadOK(x, th[x], covered, manual)

\* The points below the current one are covered, and so is a measured point.
CoverInv ==
  /\ \A t \in Tests :
       t \notin manual => /\ Below(t, test[t].cur, covered)
                          /\ test[t].state = "COMPLETED" => Below(t, N, covered)
  /\ \A r \in PointRuns : pt[r] = "MEASURED" => r \in covered

\* A max-length test and its worker k.
MaxOK(s, k) == (s = "none" => k = NoThread) /\ (s \in {"PENDING", "UPLOADING"} => k.pc # "end")

MaxInv == \A m \in MaxTests : MaxOK(mx[m], th[m])

IInv ==
  /\ DataInv /\ th \in [Threads -> ThreadRec] /\ ThreadInv /\ CoverInv /\ MaxInv
  /\ RunningHasThread /\ PlayingIsRemembered

\* The test of a thread exists, and a test that mutes its waveforms never has
\* one loaded.
MuteInv ==
  /\ \A x \in Threads : th[x].t \in Tests => test[th[x].t].state # "none"
  /\ \A x \in Threads : th[x].pc = "forget" => Set(th[x].t).mute
  /\ \A t \in Tests : loaded[t] # None => test[t].state # "none" /\ ~Set(t).mute

\* What the invariant says of a thread.
LEMMA ThreadIs ==
  ASSUME IInv, NEW x \in Threads
  PROVE  /\ th[x] \in ThreadRec /\ ThreadOK(x, th[x], covered, manual)
         /\ th[x] = NoThread <=> th[x].pc = "end"
         /\ th[x].pc \in PointPcs => /\ x \in Workers \cup Handlers /\ th[x].t \in Tests /\ th[x].i \in Points
                                     /\ RunOf(x) \in PointRuns
<1>1. th[x] \in ThreadRec /\ ThreadOK(x, th[x], covered, manual)
  BY DEF IInv, ThreadInv
<1>2. NoThread.pc = "end"
  BY DEF NoThread
<1>3. th[x] # NoThread => th[x].pc # "end"
  BY <1>1 DEF ThreadOK, WorkerPcs, HandlerPcs, MaxPcs, PointPcs, ExecutingPcs
<1>4. th[x].pc \in PointPcs => /\ x \in Workers \cup Handlers /\ th[x].t \in Tests /\ th[x].i \in Points
  BY <1>1, <1>2 DEF ThreadOK, WorkerPcs, HandlerPcs, MaxPcs, PointPcs, ExecutingPcs
<1> QED
  BY <1>1, <1>2, <1>3, <1>4 DEF RunOf, PointRuns

\* A step keeps the invariant if every thread it moves is where it may be, a
\* thread that leaves execute_point writes the result of its point, a point
\* is marked RUNNING only by a thread that executes it, and a max-length test
\* and its worker change together.
LEMMA Preserve ==
  ASSUME IInv, DataInv', CoverInv', PlayingIsRemembered', th' \in [Threads -> ThreadRec],
         covered \subseteq covered', manual \subseteq manual',
         \A u \in Threads : th'[u] = th[u] \/ ThreadOK(u, th'[u], covered', manual'),
         \A u \in Threads : Executing(u) =>
           \/ th'[u].pc \in ExecutingPcs /\ th'[u].t = th[u].t /\ th'[u].i = th[u].i
           \/ pt'[RunOf(u)] # "RUNNING",
         \A r \in PointRuns : pt'[r] = "RUNNING" =>
           \/ pt[r] = "RUNNING"
           \/ \E u \in Threads : th'[u].pc \in ExecutingPcs /\ <<th'[u].t, th'[u].i>> = r,
         \A m \in MaxTests : (mx'[m] = mx[m] /\ th'[m] = th[m]) \/ MaxOK(mx'[m], th'[m])
  PROVE  IInv'
<1>1. ThreadInv'
  <2> SUFFICES ASSUME NEW u \in Threads, ThreadOK(u, th[u], covered, manual)
               PROVE  ThreadOK(u, th[u], covered', manual')
    BY DEF IInv, ThreadInv
  <2>1. \A t, n : Below(t, n, covered) => Below(t, n, covered')
    BY DEF Below
  <2> QED
    BY <2>1 DEF ThreadOK
<1>2. MaxInv'
  BY DEF IInv, MaxInv
<1>3. RunningHasThread'
  <2>1. ASSUME NEW r \in PointRuns, pt'[r] = "RUNNING"
        PROVE  \E u \in Threads : th'[u].pc \in ExecutingPcs /\ <<th'[u].t, th'[u].i>> = r
    <3>1. CASE pt[r] = "RUNNING"
      <4>1. PICK u \in Threads : Executing(u) /\ RunOf(u) = r
        BY <3>1 DEF IInv, RunningHasThread
      <4> QED
        BY <2>1, <4>1 DEF RunOf
    <3> QED
      BY <2>1, <3>1
  <2>2. ASSUME NEW m \in MaxTests, mx'[m] \in {"PENDING", "UPLOADING"} PROVE th'[m].pc # "end"
    BY <1>2, <2>2 DEF MaxInv, MaxOK
  <2> QED
    BY <2>1, <2>2 DEF RunningHasThread, Executing, ExecutingPcs, RunOf, At
<1> QED
  BY <1>1, <1>2, <1>3 DEF IInv

\* A step that moves thread x only, which is not a worker of a max-length test.
LEMMA Move ==
  ASSUME IInv, NEW x \in Workers \cup Handlers, NEW k \in ThreadRec, th' = [th EXCEPT ![x] = k], UNCHANGED mx,
         DataInv', CoverInv', PlayingIsRemembered', ThreadOK(x, k, covered', manual'),
         covered \subseteq covered', manual \subseteq manual',
         Executing(x) => \/ k.pc \in ExecutingPcs /\ k.t = th[x].t /\ k.i = th[x].i
                         \/ pt'[RunOf(x)] # "RUNNING",
         \A r \in PointRuns : pt'[r] = "RUNNING" =>
           pt[r] = "RUNNING" \/ (k.pc \in ExecutingPcs /\ <<k.t, k.i>> = r)
  PROVE  IInv'
<1>1. th \in [Threads -> ThreadRec] /\ x \in Threads /\ x \notin MaxTests /\ MaxTests \subseteq Threads
  BY ThreadsAssumption DEF IInv, Threads
<1>2. \A u \in Threads : th'[u] = IF u = x THEN k ELSE th[u]
  BY <1>1
<1>3. th' \in [Threads -> ThreadRec]
  BY <1>1
<1>4. \A u \in Threads : Executing(u) =>
        \/ th'[u].pc \in ExecutingPcs /\ th'[u].t = th[u].t /\ th'[u].i = th[u].i
        \/ pt'[RunOf(u)] # "RUNNING"
  BY <1>2 DEF Executing, ExecutingPcs
<1>5. \A m \in MaxTests : mx'[m] = mx[m] /\ th'[m] = th[m]
  BY <1>1, <1>2
<1> QED
  BY <1>1, <1>2, <1>3, <1>4, <1>5, Preserve

\* A step that moves no thread.
LEMMA Still ==
  ASSUME IInv, UNCHANGED th, DataInv', CoverInv', PlayingIsRemembered',
         covered \subseteq covered', manual \subseteq manual',
         \A r \in PointRuns : pt'[r] = "RUNNING" => pt[r] = "RUNNING",
         \A m \in MaxTests : mx'[m] = mx[m] \/ MaxOK(mx'[m], th[m])
  PROVE  IInv'
<1>1. th' \in [Threads -> ThreadRec]
  BY DEF IInv
<1>2. \A u \in Threads : Executing(u) => th'[u].pc \in ExecutingPcs
  BY DEF Executing, ExecutingPcs
<1> QED
  BY <1>1, <1>2, Preserve

\* A board that plays stays remembered if nobody forgets it.
LEMMA Remember ==
  ASSUME IInv, NEW x \in Threads, NEW k, th \in [Threads -> ThreadRec], th' = [th EXCEPT ![x] = k],
         th[x].pc \in {"settled", "unload_mute", "abort_mute"} => k.pc \in {"settled", "unload_mute", "abort_mute"},
         UNCHANGED loaded, faults' = 0 => faults = 0, brd' = "playing" => brd = "playing"
  PROVE  PlayingIsRemembered'
<1>1. \A u \in Threads : th'[u] = IF u = x THEN k ELSE th[u]
  OBVIOUS
<1>2. \A u \in Threads : th[u].pc \in {"settled", "unload_mute", "abort_mute"} => th'[u].pc \in {"settled", "unload_mute", "abort_mute"}
  BY <1>1
<1> QED
  BY <1>2 DEF IInv, PlayingIsRemembered, Handling

\* A call on the board that fails uses up one of the faults.
LEMMA FailIs ==
  ASSUME IInv, Fail
  PROVE  faults' \in 0..MaxFaults /\ faults' # 0
<1>1. faults \in 0..MaxFaults
  BY DEF IInv, DataInv
<1> QED
  BY <1>1, BoundsAssumption DEF Fail

\* After abort_loaded the board does not play, or the call has failed.
LEMMA AbortLoadedIs ==
  ASSUME IInv, abort_loaded
  PROVE  /\ brd' \in {"idle", "ready", "wait_trigger", "playing"} /\ faults' \in 0..MaxFaults
         /\ PlayingIsRemembered'
<1>1. faults \in 0..MaxFaults /\ brd \in {"idle", "ready", "wait_trigger", "playing"}
  BY DEF IInv, DataInv
<1>2. CASE brd' = (IF brd = "idle" THEN "idle" ELSE "ready") /\ UNCHANGED faults
  BY <1>1, <1>2 DEF PlayingIsRemembered
<1>3. CASE Fail /\ UNCHANGED brd
  BY <1>1, <1>3, FailIs DEF PlayingIsRemembered
<1> QED
  BY <1>2, <1>3 DEF abort_loaded

\* Thread k at another place of the same method.
Placed(k, pc) == [k EXCEPT !.pc = pc]

\* Goto places a thread, or ends it.
LEMMA GotoIs ==
  ASSUME IInv, NEW x \in Threads, NEW pc \in Pcs, pc # "end"
  PROVE  /\ Goto(x, pc) => th' = [th EXCEPT ![x] = Placed(th[x], pc)]
         /\ Goto(x, "end") => th' = [th EXCEPT ![x] = NoThread]
         /\ Placed(th[x], pc) \in ThreadRec /\ Placed(th[x], pc).pc = pc
         /\ Placed(th[x], pc).t = th[x].t /\ Placed(th[x], pc).i = th[x].i
         /\ Placed(th[x], pc) # NoThread
         /\ NoThread \in ThreadRec /\ NoThread.pc = "end" /\ NoThread.t = None /\ NoThread.i = 0
<1>1. th \in [Threads -> ThreadRec] /\ th[x] \in ThreadRec
  BY DEF IInv
<1>2. Goto(x, pc) => th' = [th EXCEPT ![x] = Placed(th[x], pc)]
  BY <1>1 DEF Goto, Placed
<1>3. Goto(x, "end") => th' = [th EXCEPT ![x] = NoThread]
  BY DEF Goto
<1>4. /\ Placed(th[x], pc) \in ThreadRec /\ Placed(th[x], pc).pc = pc
      /\ Placed(th[x], pc).t = th[x].t /\ Placed(th[x], pc).i = th[x].i
      /\ Placed(th[x], pc) # NoThread
  BY <1>1 DEF Placed, ThreadRec, NoThread
<1>5. NoThread \in ThreadRec /\ NoThread.pc = "end" /\ NoThread.t = None /\ NoThread.i = 0
  BY NAssumption DEF NoThread, ThreadRec, Pcs
<1> QED
  BY <1>2, <1>3, <1>4, <1>5

\* A thread inside execute_point goes on to another place in it.
LEMMA PointGoto ==
  ASSUME IInv, NEW x \in Threads, th[x].pc \in PointPcs, NEW pc \in PointPcs \ {"mark"}, Goto(x, pc)
  PROVE  \E k \in ThreadRec : /\ th' = [th EXCEPT ![x] = k] /\ ThreadOK(x, k, covered, manual)
                              /\ k.pc = pc /\ k.t = th[x].t /\ k.i = th[x].i
<1> DEFINE k == Placed(th[x], pc)
<1>1. pc \in Pcs /\ pc # "end" /\ pc \notin {"ready_again", "complete"}
  BY DEF Pcs, WorkerPcs, PointPcs, ExecutingPcs
<1>2. k \in ThreadRec /\ th' = [th EXCEPT ![x] = k] /\ k.pc = pc /\ k.t = th[x].t /\ k.i = th[x].i
  BY <1>1, GotoIs
<1>3. /\ ThreadOK(x, th[x], covered, manual) /\ th[x] # NoThread
      /\ x \in Workers \cup Handlers /\ th[x].t \in Tests /\ th[x].i \in Points
  BY ThreadIs DEF PointPcs, ExecutingPcs
<1> HIDE DEF k
<1>4. ThreadOK(x, k, covered, manual)
  BY <1>1, <1>2, <1>3 DEF ThreadOK, WorkerPcs, HandlerPcs
<1> QED
  BY <1>2, <1>4

\* A thread inside execute_point that only deals with the board and the run.
LEMMA ExecutingStep ==
  ASSUME IInv, NEW x \in Threads, th[x].pc \in ExecutingPcs, NEW pc \in ExecutingPcs, Goto(x, pc),
         UNCHANGED <<test, pt, stopOf, stopped, mx, covered, manual, calls>>,
         claim' \in PointRuns \cup {None}, loaded' \in [Tests -> PointRuns \cup {None}],
         brd' \in {"idle", "ready", "wait_trigger", "playing"}, faults' \in 0..MaxFaults,
         PlayingIsRemembered'
  PROVE  IInv'
<1>1. PICK k \in ThreadRec : /\ th' = [th EXCEPT ![x] = k] /\ ThreadOK(x, k, covered, manual)
                             /\ k.pc = pc /\ k.t = th[x].t /\ k.i = th[x].i
  BY PointGoto DEF PointPcs, ExecutingPcs
<1>2. DataInv'
  BY DEF IInv, DataInv
<1>3. CoverInv'
  BY DEF IInv, CoverInv
<1>4. x \in Workers \cup Handlers
  BY ThreadIs DEF PointPcs
<1> QED
  BY <1>1, <1>2, <1>3, <1>4, Move

\* What popping the entry of a test leaves.
LEMMA PopIs ==
  ASSUME IInv, NEW x \in Threads, NEW t \in Tests, NEW a, NEW b, Pop(x, t, a, b)
  PROVE  /\ loaded' \in [Tests -> PointRuns \cup {None}]
         /\ \A u \in Tests : u # t => loaded'[u] = loaded[u]
         /\ loaded'[t] = None
         /\ loaded[t] = None => Goto(x, b) /\ loaded' = loaded
         /\ loaded[t] # None => Goto(x, a)
<1>1. loaded \in [Tests -> PointRuns \cup {None}]
  BY DEF IInv, DataInv
<1> QED
  BY <1>1 DEF Pop

\* The steps of a thread with the board, the run and the loaded waveform.
LEMMA LoadStep ==
  ASSUME IInv, MuteInv, NEW x \in Threads,
         \/ unload(x) \/ unload_mute(x) \/ configure(x) \/ submit(x) \/ wait(x)
         \/ play(x) \/ settled(x) \/ forget(x)
  PROVE  IInv'
<1>1. th[x].pc \in ExecutingPcs /\ UNCHANGED <<test, pt, stopOf, stopped, mx, covered, manual, calls>>
  BY DEF unload, unload_mute, configure, submit, wait, play, settled, forget, At, ExecutingPcs
<1>2. /\ claim \in PointRuns \cup {None} /\ loaded \in [Tests -> PointRuns \cup {None}]
      /\ brd \in {"idle", "ready", "wait_trigger", "playing"} /\ faults \in 0..MaxFaults
      /\ th[x].t \in Tests /\ RunOf(x) \in PointRuns /\ RunOf(x) # None
      /\ th \in [Threads -> ThreadRec]
  BY <1>1, ThreadIs, NoneAssumption DEF IInv, DataInv, PointPcs, PointRuns, Points
<1>3. PICK pc \in ExecutingPcs : Goto(x, pc)
  BY DEF unload, unload_mute, configure, submit, wait, play, settled, forget, Pop, ExecutingPcs
<1>4. PICK k : th' = [th EXCEPT ![x] = k] /\ k.pc = pc
  <2>1. pc \in Pcs /\ pc # "end"
    BY DEF Pcs, WorkerPcs, PointPcs, ExecutingPcs
  <2> QED
    BY <1>3, <2>1, GotoIs
<1>5. CASE unload(x) \/ forget(x)
  <2>1. /\ UNCHANGED <<claim, brd, faults>> /\ th[x].pc \in {"unload", "forget"}
        /\ Pop(x, th[x].t, "unload_mute", "configure") \/ Pop(x, th[x].t, "ready", "ready")
    BY <1>5 DEF unload, forget, At
  <2>2. CASE loaded[th[x].t] = None
    <3>1. loaded' = loaded
      BY <1>2, <2>1, <2>2, PopIs
    <3>2. PlayingIsRemembered'
      BY <1>2, <1>4, <2>1, <3>1, Remember
    <3> QED
      BY <1>1, <1>2, <1>3, <2>1, <3>1, <3>2, ExecutingStep
  <2>3. CASE loaded[th[x].t] # None
    <3>1. ~Set(th[x].t).mute
      BY <1>2, <2>3 DEF MuteInv
    <3>2. unload(x)
      BY <1>5, <3>1 DEF forget, At, MuteInv
    <3>3. Goto(x, "unload_mute") /\ loaded' \in [Tests -> PointRuns \cup {None}]
      BY <1>2, <2>3, <3>2, PopIs DEF unload
    <3>4. th'[x].pc = "unload_mute"
      <4>1. "unload_mute" \in Pcs
        BY DEF Pcs, WorkerPcs, PointPcs, ExecutingPcs
      <4> QED
        BY <1>2, <3>3, <4>1, GotoIs
    <3>5. PlayingIsRemembered'
      BY <3>4 DEF PlayingIsRemembered, Handling
    <3> QED
      BY <1>1, <1>2, <1>3, <2>1, <3>3, <3>5, ExecutingStep
  <2> QED
    BY <2>2, <2>3
<1>9. CASE unload_mute(x)
  BY <1>1, <1>2, <1>3, <1>9, AbortLoadedIs, ExecutingStep DEF unload_mute
<1>6. CASE configure(x) \/ submit(x) \/ wait(x)
  <2>1. claim' \in PointRuns \cup {None} /\ UNCHANGED <<loaded, brd>>
        /\ th[x].pc \notin {"settled", "unload_mute", "abort_mute"}
    BY <1>2, <1>6 DEF configure, submit, wait, At
  <2>2. UNCHANGED faults \/ Fail
    BY <1>6 DEF configure, submit, wait
  <2>3. faults' \in 0..MaxFaults /\ (faults' = 0 => faults = 0)
    BY <1>2, <2>2, FailIs
  <2>4. PlayingIsRemembered'
    BY <1>2, <1>4, <2>1, <2>3, Remember
  <2> QED
    BY <1>1, <1>2, <1>3, <2>1, <2>3, <2>4, ExecutingStep
<1>7. CASE play(x)
  <2>1. UNCHANGED <<claim, loaded>> /\ th[x].pc = "play" /\ brd' \in {"idle", "ready", "wait_trigger", "playing"}
    BY <1>2, <1>7 DEF play, At
  <2>2. CASE brd' = "playing" /\ Goto(x, "settled") /\ UNCHANGED faults
    <3>1. th'[x].pc = "settled"
      <4>1. "settled" \in Pcs
        BY DEF Pcs, WorkerPcs, PointPcs, ExecutingPcs
      <4> QED
        BY <1>2, <2>2, <4>1, GotoIs
    <3>2. PlayingIsRemembered'
      BY <3>1 DEF PlayingIsRemembered, Handling
    <3> QED
      BY <1>1, <1>2, <1>3, <2>1, <2>2, <3>2, ExecutingStep
  <2>3. CASE UNCHANGED <<brd, faults>>
    <3>1. PlayingIsRemembered'
      BY <1>2, <1>4, <2>1, <2>3, Remember
    <3> QED
      BY <1>1, <1>2, <1>3, <2>1, <2>3, <3>1, ExecutingStep
  <2>4. CASE Fail
    <3>1. faults' \in 0..MaxFaults /\ PlayingIsRemembered'
      BY <2>4, FailIs DEF PlayingIsRemembered
    <3> QED
      BY <1>1, <1>2, <1>3, <2>1, <3>1, ExecutingStep
  <2> QED
    BY <1>7, <2>2, <2>3, <2>4 DEF play
<1>8. CASE settled(x)
  <2>1. UNCHANGED claim /\ loaded' \in [Tests -> PointRuns \cup {None}]
    BY <1>2, <1>8 DEF settled
  <2>2. CASE abort_loaded
    BY <1>1, <1>2, <1>3, <2>1, <2>2, AbortLoadedIs, ExecutingStep
  <2>3. CASE loaded' = [loaded EXCEPT ![th[x].t] = RunOf(x)] /\ UNCHANGED <<brd, faults>>
    <3>1. loaded'[th[x].t] # None
      BY <1>2, <2>3
    <3>2. PlayingIsRemembered'
      BY <1>2, <3>1 DEF PlayingIsRemembered
    <3> QED
      BY <1>1, <1>2, <1>3, <2>1, <2>3, <3>2, ExecutingStep
  <2> QED
    BY <1>8, <2>2, <2>3 DEF settled
<1> QED
  BY <1>5, <1>6, <1>7, <1>8, <1>9

\* What an update writes into the row of a test.
LEMMA UpdateIs ==
  ASSUME IInv, NEW t \in Tests, NEW s \in {"RUNNING", "PAUSED", "COMPLETED", "FAILED", "ABORTED"},
         NEW i \in 0..N, update_at(t, s, i) \/ (update(t, s) /\ i = test[t].cur)
  PROVE  /\ test' \in [Tests -> TestRec] /\ test'[t].state = s /\ test'[t].cur = i
         /\ \A u \in Tests : u # t => test'[u] = test[u]
<1>1. test \in [Tests -> TestRec] /\ test[t] \in TestRec
  BY DEF IInv, DataInv
<1> DEFINE v == [test[t] EXCEPT !.state = s, !.cur = i]
<1>2. v \in TestRec /\ v.state = s /\ v.cur = i
  BY <1>1 DEF TestRec
<1>3. test' = [test EXCEPT ![t] = v]
  <2>1. ASSUME update_at(t, s, i) PROVE test' = [test EXCEPT ![t] = v]
    BY <1>1, <2>1 DEF update_at
  <2>2. ASSUME update(t, s), i = test[t].cur PROVE test' = [test EXCEPT ![t] = v]
    <3>1. [test[t] EXCEPT !.state = s] = v
      BY <1>1, <2>2 DEF TestRec
    <3>2. test' = [test EXCEPT ![t] = [test[t] EXCEPT !.state = s]]
      BY <1>1, <2>2 DEF update
    <3> QED
      BY <3>1, <3>2
  <2> QED
    BY <2>1, <2>2
<1> HIDE DEF v
<1> QED
  BY <1>1, <1>2, <1>3

\* A step of a thread that writes the state of its test, and its current point
\* if the points below it are covered.
LEMMA UpdateStep ==
  ASSUME IInv, NEW x \in Workers \cup Handlers, th[x].t \in Tests, ~Executing(x),
         NEW s \in {"RUNNING", "PAUSED", "COMPLETED", "FAILED", "ABORTED"}, NEW i \in 0..N,
         update_at(th[x].t, s, i) \/ (update(th[x].t, s) /\ i = test[th[x].t].cur),
         NEW k \in ThreadRec, th' = [th EXCEPT ![x] = k], ThreadOK(x, k, covered, manual),
         UNCHANGED <<pt, loaded, stopOf, stopped, mx, claim, brd, covered, manual, calls, faults>>,
         th[x].t \notin manual => /\ Below(th[x].t, i, covered)
                                  /\ s = "COMPLETED" => Below(th[x].t, N, covered),
         th[x].pc # "abort_mute"
  PROVE  IInv'
<1>1. PICK t \in Tests : t = th[x].t
  OBVIOUS
<1>2. /\ test' \in [Tests -> TestRec] /\ test'[t].state = s /\ test'[t].cur = i
      /\ \A u \in Tests : u # t => test'[u] = test[u]
  BY <1>1, UpdateIs
<1>3. DataInv'
  BY <1>2 DEF IInv, DataInv
<1>4. CoverInv'
  BY <1>1, <1>2 DEF IInv, CoverInv
<1>5. x \in Threads /\ th \in [Threads -> ThreadRec] /\ th[x].pc \notin {"settled", "unload_mute", "abort_mute"}
  BY DEF Threads, IInv, Executing
<1>6. PlayingIsRemembered'
  BY <1>5, Remember
<1> QED
  BY <1>3, <1>4, <1>6, Move

\* The steps of execute_point and of the handlers that write the test.
LEMMA TestStep ==
  ASSUME IInv, NEW x \in Workers \cup Handlers,
         \/ mark(x) \/ failed_test(x)
         \/ x \in Handlers /\ (start_write(x) \/ pause_write(x) \/ abort_write(x))
         \/ complete(x)
  PROVE  IInv'
<1>1. /\ UNCHANGED <<pt, loaded, stopOf, stopped, mx, claim, brd, covered, manual, calls, faults>>
      /\ th[x].pc \notin {"end", "abort_mute"} /\ ~Executing(x)
      /\ x \in Threads /\ th[x].pc \in WorkerPcs \cup HandlerPcs
  BY DEF mark, failed_test, start_write, pause_write, abort_write, complete, At, Executing, Threads,
         WorkerPcs, HandlerPcs, PointPcs
<1>2. /\ ThreadOK(x, th[x], covered, manual) /\ th[x] # NoThread /\ th[x] \in ThreadRec
      /\ test \in [Tests -> TestRec] /\ CoverInv
  BY <1>1, ThreadIs DEF IInv, DataInv
<1>3. th[x].t \in Tests /\ test[th[x].t].cur \in 0..N /\ N \in 0..N
  BY <1>1, <1>2, ThreadsAssumption, NAssumption DEF ThreadOK, TestRec
<1>4. NoThread \in ThreadRec /\ ThreadOK(x, NoThread, covered, manual)
      /\ (Goto(x, "end") => th' = [th EXCEPT ![x] = NoThread])
  BY <1>1, GotoIs DEF ThreadOK, Pcs
<1>5. CASE mark(x)
  <2>1. /\ update_at(th[x].t, "RUNNING", th[x].i) /\ Goto(x, "mark_point") /\ th[x].pc = "mark"
    BY <1>5 DEF mark, At
  <2>2. PICK k \in ThreadRec : th' = [th EXCEPT ![x] = k] /\ ThreadOK(x, k, covered, manual)
    BY <1>1, <2>1, PointGoto DEF PointPcs
  <2>3. th[x].i \in 0..N /\ (th[x].t \notin manual => Below(th[x].t, th[x].i, covered))
    BY <1>2, <2>1 DEF ThreadOK, ThreadRec
  <2> QED
    BY <1>1, <1>3, <2>1, <2>2, <2>3, UpdateStep
<1>6. CASE complete(x)
  <2>1. update_at(th[x].t, "COMPLETED", N) /\ Goto(x, "end") /\ th[x].pc = "complete"
    BY <1>6 DEF complete, At
  <2>2. th[x].t \notin manual => Below(th[x].t, N, covered)
    BY <1>2, <2>1 DEF ThreadOK
  <2> QED
    BY <1>1, <1>3, <1>4, <2>1, <2>2, UpdateStep
<1>7. CASE failed_test(x) \/ (x \in Handlers /\ (start_write(x) \/ pause_write(x) \/ abort_write(x)))
  <2>1. PICK s \in {"RUNNING", "PAUSED", "FAILED", "ABORTED"} : update(th[x].t, s)
    BY <1>7 DEF failed_test, start_write, pause_write, abort_write
  <2>2. Goto(x, "end") \/ (x \in Handlers /\ Goto(x, "spawn"))
    BY <1>7 DEF failed_test, start_write, pause_write, abort_write
  <2>3. \E k \in ThreadRec : th' = [th EXCEPT ![x] = k] /\ ThreadOK(x, k, covered, manual)
    <3>1. CASE x \in Handlers /\ Goto(x, "spawn")
      <4> DEFINE k == Placed(th[x], "spawn")
      <4>1. "spawn" \in Pcs /\ "spawn" \in HandlerPcs /\ "spawn" \notin PointPcs
        BY DEF Pcs, HandlerPcs, PointPcs, ExecutingPcs
      <4>2. k \in ThreadRec /\ th' = [th EXCEPT ![x] = k] /\ k.pc = "spawn" /\ k.t = th[x].t
        BY <1>1, <3>1, <4>1, GotoIs
      <4> HIDE DEF k
      <4>3. ThreadOK(x, k, covered, manual)
        BY <1>3, <3>1, <4>1, <4>2, ThreadsAssumption DEF ThreadOK
      <4> QED
        BY <4>2, <4>3
    <3> QED
      BY <1>4, <2>2, <3>1
  <2>4. th[x].t \notin manual => Below(th[x].t, test[th[x].t].cur, covered)
    BY <1>2, <1>3 DEF CoverInv
  <2> QED
    BY <1>1, <1>3, <2>1, <2>3, <2>4, UpdateStep
<1> QED
  BY <1>5, <1>6, <1>7

\* What update_point writes.
LEMMA UpdatePointIs ==
  ASSUME IInv, NEW r \in PointRuns, NEW s \in {"RUNNING", "READY", "FAILED", "MEASURED"}, update_point(r, s)
  PROVE  /\ pt' \in [PointRuns -> {"PENDING", "RUNNING", "READY", "FAILED", "MEASURED"}]
         /\ pt'[r] = s /\ \A q \in PointRuns : q # r => pt'[q] = pt[q]
  BY DEF IInv, DataInv, update_point

\* A thread that writes the state of its point.
LEMMA PointStep ==
  ASSUME IInv, NEW x \in Workers \cup Handlers, RunOf(x) \in PointRuns,
         NEW s \in {"RUNNING", "READY", "FAILED"}, update_point(RunOf(x), s),
         NEW k \in ThreadRec, th' = [th EXCEPT ![x] = k], ThreadOK(x, k, covered', manual),
         UNCHANGED <<test, loaded, stopOf, stopped, mx, claim, brd, manual, calls, faults>>,
         covered' \in {covered, covered \cup {RunOf(x)}},
         s = "RUNNING" => k.pc \in ExecutingPcs /\ <<k.t, k.i>> = RunOf(x),
         th[x].pc \notin {"settled", "unload_mute", "abort_mute"}
  PROVE  IInv'
<1>1. PICK r \in PointRuns : r = RunOf(x)
  OBVIOUS
<1>2. /\ pt' \in [PointRuns -> {"PENDING", "RUNNING", "READY", "FAILED", "MEASURED"}]
      /\ pt'[r] = s /\ \A q \in PointRuns : q # r => pt'[q] = pt[q]
  BY <1>1, UpdatePointIs
<1>3. covered \subseteq covered' /\ covered' \subseteq PointRuns
  BY <1>1 DEF IInv, DataInv
<1>4. DataInv'
  BY <1>2, <1>3 DEF IInv, DataInv
<1>5. CoverInv'
  <2>1. \A t, n : Below(t, n, covered) => Below(t, n, covered')
    BY <1>3 DEF Below
  <2> QED
    BY <1>2, <1>3, <2>1 DEF IInv, CoverInv
<1>6. x \in Threads /\ th \in [Threads -> ThreadRec]
  BY DEF Threads, IInv
<1>7. PlayingIsRemembered'
  BY <1>6, Remember
<1>8. Executing(x) => \/ k.pc \in ExecutingPcs /\ k.t = th[x].t /\ k.i = th[x].i
                      \/ pt'[RunOf(x)] # "RUNNING"
  BY <1>1, <1>2 DEF RunOf
<1>9. \A q \in PointRuns : pt'[q] = "RUNNING" => pt[q] = "RUNNING" \/ (k.pc \in ExecutingPcs /\ <<k.t, k.i>> = q)
  BY <1>1, <1>2
<1> QED
  BY <1>3, <1>4, <1>5, <1>7, <1>8, <1>9, Move

\* mark_point, failed, ready and the second READY of the worker.
LEMMA PointSteps ==
  ASSUME IInv, NEW x \in Workers \cup Handlers,
         mark_point(x) \/ failed(x) \/ ready(x) \/ (x \in Workers /\ ready_again(x))
  PROVE  IInv'
<1>1. /\ UNCHANGED <<test, loaded, stopOf, stopped, mx, claim, brd, manual, calls, faults>>
      /\ th[x].pc \in {"mark_point", "failed", "ready", "ready_again"} /\ x \in Threads
  BY DEF mark_point, failed, ready, ready_again, At, Threads
<1>2. ThreadOK(x, th[x], covered, manual) /\ th[x] # NoThread /\ th[x] \in ThreadRec /\ th \in [Threads -> ThreadRec]
  BY <1>1, ThreadIs DEF IInv
<1>3. th[x].t \in Tests /\ th[x].i \in Points /\ RunOf(x) \in PointRuns
  BY <1>1, <1>2, ThreadsAssumption DEF ThreadOK, PointPcs, ExecutingPcs, RunOf, PointRuns
<1>4. CASE mark_point(x)
  <2>1. update_point(RunOf(x), "RUNNING") /\ Goto(x, "unload") /\ th[x].pc = "mark_point" /\ UNCHANGED covered
    BY <1>4 DEF mark_point, At
  <2>2. PICK k \in ThreadRec : /\ th' = [th EXCEPT ![x] = k] /\ ThreadOK(x, k, covered, manual)
                               /\ k.pc = "unload" /\ k.t = th[x].t /\ k.i = th[x].i
    BY <1>1, <2>1, PointGoto DEF PointPcs, ExecutingPcs
  <2>3. k.pc \in ExecutingPcs /\ <<k.t, k.i>> = RunOf(x)
    BY <2>2 DEF ExecutingPcs, RunOf
  <2> QED
    BY <1>1, <1>3, <2>1, <2>2, <2>3, PointStep
<1>5. CASE failed(x)
  <2>1. update_point(RunOf(x), "FAILED") /\ Goto(x, "failed_test") /\ th[x].pc = "failed" /\ UNCHANGED covered
    BY <1>5 DEF failed, At
  <2>2. PICK k \in ThreadRec : th' = [th EXCEPT ![x] = k] /\ ThreadOK(x, k, covered, manual)
    BY <1>1, <2>1, PointGoto DEF PointPcs, ExecutingPcs
  <2> QED
    BY <1>1, <1>3, <2>1, <2>2, PointStep
<1>6. CASE ready(x)
  <2>1. /\ update_point(RunOf(x), "READY") /\ covered' = covered \cup {RunOf(x)} /\ th[x].pc = "ready"
        /\ Goto(x, IF IsWorker(x) THEN "ready_again" ELSE "end")
    BY <1>6 DEF ready, At
  <2>2. \A t, n : Below(t, n, covered) => Below(t, n, covered')
    BY <2>1 DEF Below
  <2>3. \E k \in ThreadRec : th' = [th EXCEPT ![x] = k] /\ ThreadOK(x, k, covered', manual)
    <3>1. CASE x \in Workers
      <4> DEFINE k == Placed(th[x], "ready_again")
      <4>1. "ready_again" \in Pcs /\ "ready_again" \in WorkerPcs /\ Goto(x, "ready_again")
        BY <2>1, <3>1 DEF Pcs, WorkerPcs, IsWorker
      <4>2. k \in ThreadRec /\ th' = [th EXCEPT ![x] = k] /\ k.pc = "ready_again" /\ k.t = th[x].t /\ k.i = th[x].i
        BY <1>1, <4>1, GotoIs
      <4>3. th[x].t \notin manual => Below(th[x].t, th[x].i, covered)
        BY <1>2, <3>1 DEF ThreadOK
      <4>4. <<th[x].t, th[x].i>> \in covered'
        BY <2>1 DEF RunOf
      <4> HIDE DEF k
      <4>5. ThreadOK(x, k, covered', manual)
        BY <1>3, <2>2, <3>1, <4>1, <4>2, <4>3, <4>4 DEF ThreadOK
      <4> QED
        BY <4>2, <4>5
    <3>2. CASE x \notin Workers
      <4>1. "spawn" \in Pcs /\ Goto(x, "end")
        BY <2>1, <3>2 DEF Pcs, HandlerPcs, IsWorker
      <4>2. NoThread \in ThreadRec /\ th' = [th EXCEPT ![x] = NoThread]
        BY <1>1, <4>1, GotoIs
      <4>3. ThreadOK(x, NoThread, covered', manual)
        BY DEF ThreadOK
      <4> QED
        BY <4>2, <4>3
    <3> QED
      BY <3>1, <3>2
  <2> QED
    BY <1>1, <1>3, <2>1, <2>3, PointStep
<1>7. CASE x \in Workers /\ ready_again(x)
  <2>1. /\ update_point(RunOf(x), "READY") /\ UNCHANGED covered /\ th[x].pc = "ready_again"
        /\ th' = [th EXCEPT ![x].pc = "check", ![x].i = @ + 1]
    BY <1>7 DEF ready_again, At
  <2> DEFINE k == [th[x] EXCEPT !.pc = "check", !.i = th[x].i + 1]
  <2>2. th' = [th EXCEPT ![x] = k]
    BY <1>1, <1>2, <2>1
  <2>3. th[x].i + 1 \in 0..N
    BY <1>3, NAssumption DEF Points
  <2>4. k \in ThreadRec /\ k.pc = "check" /\ k.t = th[x].t /\ k.i = th[x].i + 1
    BY <1>2, <2>3 DEF ThreadRec, Pcs, WorkerPcs
  <2>5. th[x].t \notin manual => Below(th[x].t, th[x].i, covered) /\ <<th[x].t, th[x].i>> \in covered
    BY <1>2, <1>7, <2>1 DEF ThreadOK
  <2>6. th[x].t \notin manual => Below(th[x].t, th[x].i + 1, covered)
    BY <1>3, <2>5, NAssumption DEF Below, Points
  <2> HIDE DEF k
  <2>7. ThreadOK(x, k, covered, manual)
    BY <1>3, <1>7, <2>4, <2>6, ThreadsAssumption DEF ThreadOK, WorkerPcs, PointPcs, ExecutingPcs
  <2> QED
    BY <1>1, <1>3, <2>1, <2>2, <2>4, <2>7, PointStep
<1> QED
  BY <1>4, <1>5, <1>6, <1>7

\* A step of a thread outside execute_point that writes neither test nor point.
LEMMA QuietStep ==
  ASSUME IInv, NEW x \in Workers \cup Handlers, ~Executing(x), NEW k \in ThreadRec,
         th' = [th EXCEPT ![x] = k], ThreadOK(x, k, covered, manual'),
         UNCHANGED <<test, pt, stopOf, mx, claim, covered>>,
         manual \subseteq manual', manual' \subseteq Tests, stopped' \subseteq Workers,
         loaded' \in [Tests -> PointRuns \cup {None}], brd' \in {"idle", "ready", "wait_trigger", "playing"},
         calls' \in 0..MaxCalls, faults' \in 0..MaxFaults, PlayingIsRemembered'
  PROVE  IInv'
<1>1. DataInv'
  BY DEF IInv, DataInv
<1>2. CoverInv'
  BY DEF IInv, CoverInv
<1> QED
  BY <1>1, <1>2, Move

\* The worker between two points.
LEMMA WorkerStep ==
  ASSUME IInv, NEW x \in Workers, read(x) \/ check(x)
  PROVE  IInv'
<1>1. /\ UNCHANGED <<test, pt, loaded, stopOf, stopped, mx, claim, res, brd, covered, manual, calls, faults>>
      /\ th[x].pc \in {"read", "check"} /\ x \in Threads /\ ~Executing(x)
  BY DEF read, check, At, Threads, Executing
<1>2. /\ ThreadOK(x, th[x], covered, manual) /\ th[x] # NoThread /\ th[x] \in ThreadRec
      /\ th \in [Threads -> ThreadRec] /\ DataInv /\ CoverInv
  BY <1>1, ThreadIs DEF IInv
<1>3. x \notin Handlers /\ x \notin MaxTests /\ th[x].t \in Tests
  BY <1>2, ThreadsAssumption DEF ThreadOK
<1>4. \E k \in ThreadRec : th' = [th EXCEPT ![x] = k] /\ ThreadOK(x, k, covered, manual)
  <2>1. CASE read(x)
    <3> DEFINE c == test[th[x].t].cur
               k == [th[x] EXCEPT !.pc = "check", !.i = c]
    <3>1. th' = [th EXCEPT ![x] = k]
      BY <1>2, <2>1 DEF read
    <3>2. c \in 0..N /\ (th[x].t \notin manual => Below(th[x].t, c, covered))
      BY <1>2, <1>3 DEF DataInv, TestRec, CoverInv
    <3>3. k \in ThreadRec /\ k.pc = "check" /\ k.t = th[x].t /\ k.i = c
      BY <1>2, <3>2 DEF ThreadRec, Pcs, WorkerPcs
    <3> HIDE DEF k, c
    <3>4. ThreadOK(x, k, covered, manual)
      BY <1>3, <3>2, <3>3 DEF ThreadOK, WorkerPcs, PointPcs, ExecutingPcs
    <3> QED
      BY <3>1, <3>3, <3>4
  <2>2. CASE check(x) /\ Goto(x, "end")
    <3>1. "spawn" \in Pcs
      BY DEF Pcs, HandlerPcs
    <3> QED
      BY <1>1, <2>2, <3>1, GotoIs DEF ThreadOK
  <2>3. ASSUME NEW pc \in {"complete", "mark"}, Goto(x, pc), pc = "complete" <=> th[x].i >= N
        PROVE  \E k \in ThreadRec : th' = [th EXCEPT ![x] = k] /\ ThreadOK(x, k, covered, manual)
    <3> DEFINE k == Placed(th[x], pc)
    <3>1. pc \in Pcs /\ pc \in WorkerPcs /\ pc # "end"
      BY DEF Pcs, WorkerPcs, PointPcs
    <3>2. k \in ThreadRec /\ th' = [th EXCEPT ![x] = k] /\ k.pc = pc /\ k.t = th[x].t /\ k.i = th[x].i
      BY <1>1, <2>3, <3>1, GotoIs
    <3>3. IF pc = "complete" THEN th[x].i = N ELSE th[x].i \in Points
      BY <1>2, <2>3, NAssumption DEF ThreadRec, Points
    <3> HIDE DEF k
    <3>4. ThreadOK(x, k, covered, manual)
      BY <1>2, <1>3, <3>1, <3>2, <3>3 DEF ThreadOK, PointPcs, ExecutingPcs
    <3> QED
      BY <3>2, <3>4
  <2> QED
    BY <1>1, <2>1, <2>2, <2>3 DEF check
<1>5. PlayingIsRemembered'
  BY <1>1, <1>2, <1>4, Remember
<1> QED
  BY <1>1, <1>2, <1>4, <1>5, QuietStep DEF DataInv

\* The start of a handler that writes no point, with the stop event it sets.
LEMMA CallStep ==
  ASSUME IInv, NEW h \in Handlers, NEW t \in Tests,
         start(h, t) \/ pause(h, t) \/ abort(h, t) \/ \E i \in Points : execute(h, t, i)
  PROVE  IInv'
<1>1. /\ UNCHANGED <<test, pt, loaded, stopOf, mx, claim, brd, covered, faults>>
      /\ th[h].pc = "end" /\ h \in Threads /\ ~Executing(h)
  BY DEF start, pause, abort, execute, Call, At, Threads, Executing
<1>2. /\ th \in [Threads -> ThreadRec] /\ DataInv /\ stopped \subseteq Workers
      /\ loaded \in [Tests -> PointRuns \cup {None}] /\ faults \in 0..MaxFaults
      /\ brd \in {"idle", "ready", "wait_trigger", "playing"} /\ manual \subseteq Tests
  BY DEF IInv, DataInv
<1>3. PICK pc \in {"start_write", "pause_write", "abort_pop", "mark"}, i \in Points :
        Call(h, pc, t, i) /\ (pc = "mark" => manual' = manual \cup {t})
  BY NAssumption DEF start, pause, abort, execute, Points
<1> DEFINE k == [pc |-> pc, t |-> t, i |-> i]
<1>4. /\ calls' \in 0..MaxCalls /\ th' = [th EXCEPT ![h] = k]
  BY <1>2, <1>3, BoundsAssumption DEF Call, DataInv
<1>5. pc \in HandlerPcs /\ pc \in Pcs
  BY DEF Pcs, HandlerPcs, PointPcs
<1>6. k \in ThreadRec /\ k.pc = pc /\ k.t = t /\ k.i = i
  BY <1>5, NAssumption DEF ThreadRec, Points
<1> HIDE DEF k
<1>7. ThreadOK(h, k, covered, manual')
  BY <1>3, <1>5, <1>6, ThreadsAssumption DEF ThreadOK
<1>8. manual \subseteq manual' /\ manual' \subseteq Tests
  BY <1>2 DEF start, pause, abort, execute
<1>9. stopped' \subseteq Workers
  BY <1>2 DEF start, pause, abort, execute, SetStop, DataInv
<1>10. PlayingIsRemembered'
  BY <1>1, <1>2, <1>4, Remember
<1> QED
  BY <1>1, <1>2, <1>4, <1>6, <1>7, <1>8, <1>9, <1>10, QuietStep

\* A handler outside execute_point goes on to another place.
LEMMA HandlerGoto ==
  ASSUME IInv, NEW h \in Handlers, th[h] # NoThread, ~Executing(h),
         NEW pc \in {"spawn", "abort_mute", "abort_write", "complete", "end"}, Goto(h, pc),
         pc = "complete" => Below(th[h].t, N, covered)
  PROVE  \E k \in ThreadRec : th' = [th EXCEPT ![h] = k] /\ ThreadOK(h, k, covered, manual) /\ k.pc = pc
<1>1. h \in Threads /\ h \notin Workers /\ h \notin MaxTests
  BY ThreadsAssumption DEF Threads
<1>2. ThreadOK(h, th[h], covered, manual) /\ "spawn" \in Pcs
  BY <1>1, ThreadIs DEF Pcs, HandlerPcs
<1>3. CASE pc = "end"
  BY <1>1, <1>2, <1>3, GotoIs DEF ThreadOK
<1>4. CASE pc # "end"
  <2> DEFINE k == Placed(th[h], pc)
  <2>1. pc \in Pcs /\ pc \in HandlerPcs /\ pc \notin PointPcs \cup {"ready_again", "mark"}
    BY <1>4 DEF Pcs, HandlerPcs, PointPcs, ExecutingPcs
  <2>2. k \in ThreadRec /\ th' = [th EXCEPT ![h] = k] /\ k.pc = pc /\ k.t = th[h].t /\ k.i = th[h].i
    BY <1>1, <1>4, <2>1, GotoIs
  <2> HIDE DEF k
  <2>3. ThreadOK(h, k, covered, manual)
    BY <1>1, <1>2, <2>1, <2>2 DEF ThreadOK
  <2> QED
    BY <2>2, <2>3
<1> QED
  BY <1>3, <1>4

\* abort forgets and stops what is loaded, and record_measurement looks whether
\* every point is measured.
LEMMA HandlerStep ==
  ASSUME IInv, NEW h \in Handlers, abort_pop(h) \/ abort_mute(h) \/ measured(h)
  PROVE  IInv'
<1>1. /\ UNCHANGED <<test, pt, stopOf, stopped, mx, claim, covered, manual, calls>>
      /\ th[h].pc \in {"abort_pop", "abort_mute", "measured"} /\ h \in Threads /\ ~Executing(h)
  BY DEF abort_pop, abort_mute, measured, At, Threads, Executing
<1>2. /\ ThreadOK(h, th[h], covered, manual) /\ th[h] # NoThread /\ DataInv /\ CoverInv
      /\ th \in [Threads -> ThreadRec]
  BY <1>1, ThreadIs DEF IInv
<1>3. th[h].t \in Tests
  BY <1>1, <1>2, ThreadsAssumption DEF ThreadOK
<1>4. CASE abort_pop(h)
  <2>1. Pop(h, th[h].t, "abort_mute", "abort_write") /\ UNCHANGED <<brd, faults>> /\ th[h].pc = "abort_pop"
    BY <1>4 DEF abort_pop, At
  <2>2. CASE loaded[th[h].t] = None
    <3>1. Goto(h, "abort_write") /\ UNCHANGED loaded
      BY <1>1, <1>3, <2>1, <2>2, PopIs
    <3>2. PICK k \in ThreadRec : th' = [th EXCEPT ![h] = k] /\ ThreadOK(h, k, covered, manual)
      BY <1>1, <1>2, <3>1, HandlerGoto
    <3>3. PlayingIsRemembered'
      BY <1>1, <1>2, <2>1, <3>1, <3>2, Remember
    <3> QED
      BY <1>1, <1>2, <2>1, <3>1, <3>2, <3>3, QuietStep DEF DataInv
  <2>3. CASE loaded[th[h].t] # None
    <3>1. Goto(h, "abort_mute") /\ loaded' \in [Tests -> PointRuns \cup {None}]
      BY <1>1, <1>3, <2>1, <2>3, PopIs
    <3>2. PICK k \in ThreadRec : th' = [th EXCEPT ![h] = k] /\ ThreadOK(h, k, covered, manual) /\ k.pc = "abort_mute"
      BY <1>1, <1>2, <3>1, HandlerGoto
    <3>3. PlayingIsRemembered'
      BY <1>1, <1>2, <3>2 DEF PlayingIsRemembered, Handling
    <3> QED
      BY <1>1, <1>2, <2>1, <3>1, <3>2, <3>3, QuietStep DEF DataInv
  <2> QED
    BY <2>2, <2>3
<1>5. CASE abort_mute(h)
  <2>1. abort_loaded /\ Goto(h, "abort_write") /\ UNCHANGED loaded
    BY <1>5 DEF abort_mute
  <2>2. PICK k \in ThreadRec : th' = [th EXCEPT ![h] = k] /\ ThreadOK(h, k, covered, manual)
    BY <1>1, <1>2, <2>1, HandlerGoto
  <2> QED
    BY <1>1, <1>2, <2>1, <2>2, AbortLoadedIs, QuietStep DEF DataInv
<1>6. CASE measured(h)
  <2>1. /\ UNCHANGED <<loaded, brd, faults>> /\ th[h].pc = "measured"
        /\ Goto(h, IF \A j \in Points : pt[<<th[h].t, j>>] = "MEASURED" THEN "complete" ELSE "end")
    BY <1>6 DEF measured, At
  <2>2. (\A j \in Points : pt[<<th[h].t, j>>] = "MEASURED") => Below(th[h].t, N, covered)
    BY <1>2, <1>3 DEF CoverInv, Below, PointRuns
  <2>3. PICK k \in ThreadRec : th' = [th EXCEPT ![h] = k] /\ ThreadOK(h, k, covered, manual)
    BY <1>1, <1>2, <2>1, <2>2, HandlerGoto
  <2>4. PlayingIsRemembered'
    BY <1>1, <1>2, <2>1, <2>3, Remember
  <2> QED
    BY <1>1, <1>2, <2>1, <2>3, <2>4, QuietStep DEF DataInv
<1> QED
  BY <1>4, <1>5, <1>6

\* record_measurement writes the point a client has measured.
LEMMA MeasureStep ==
  ASSUME IInv, NEW h \in Handlers, NEW t \in Tests, NEW i \in Points, record_measurement(h, t, i)
  PROVE  IInv'
<1> DEFINE k == [pc |-> "measured", t |-> t, i |-> i]
<1>1. /\ update_point(<<t, i>>, "MEASURED") /\ covered' = covered \cup {<<t, i>>}
      /\ th[h].pc = "end" /\ calls < MaxCalls /\ calls' = calls + 1 /\ th' = [th EXCEPT ![h] = k]
      /\ UNCHANGED <<test, loaded, stopOf, stopped, mx, claim, brd, manual, faults>>
      /\ h \in Threads /\ ~Executing(h)
  BY DEF record_measurement, Call, At, Threads, Executing
<1>2. <<t, i>> \in PointRuns
  BY DEF PointRuns
<1>3. /\ pt' \in [PointRuns -> {"PENDING", "RUNNING", "READY", "FAILED", "MEASURED"}]
      /\ pt'[<<t, i>>] = "MEASURED" /\ \A q \in PointRuns : q # <<t, i>> => pt'[q] = pt[q]
  BY <1>1, <1>2, UpdatePointIs
<1>4. DataInv /\ CoverInv /\ th \in [Threads -> ThreadRec] /\ calls \in 0..MaxCalls /\ covered \subseteq PointRuns
  BY DEF IInv, DataInv
<1>5. k \in ThreadRec /\ k.pc = "measured" /\ k.t = t /\ k.i = i
  BY NAssumption DEF ThreadRec, Pcs, HandlerPcs, Points
<1> HIDE DEF k
<1>6. DataInv'
  <2>1. calls' \in 0..MaxCalls
    BY <1>1, <1>4, BoundsAssumption
  <2> QED
    BY <1>1, <1>2, <1>3, <1>4, <2>1 DEF DataInv
<1>7. CoverInv'
  <2>1. \A u, n : Below(u, n, covered) => Below(u, n, covered')
    BY <1>1 DEF Below
  <2>2. \A r \in PointRuns : pt'[r] = "MEASURED" => r \in covered'
    BY <1>1, <1>3, <1>4 DEF CoverInv
  <2> QED
    BY <1>1, <1>4, <2>1, <2>2 DEF CoverInv
<1>8. PlayingIsRemembered'
  BY <1>1, <1>4, Remember
<1>9. ThreadOK(h, k, covered', manual')
  BY <1>5, ThreadsAssumption DEF ThreadOK, HandlerPcs, PointPcs, ExecutingPcs
<1> QED
  BY <1>1, <1>3, <1>5, <1>6, <1>7, <1>8, <1>9, Move

\* A new worker takes the test over from its handler.
LEMMA SpawnStep ==
  ASSUME IInv, NEW h \in Handlers, NEW w \in Workers, spawn(h, w)
  PROVE  IInv'
<1> DEFINE k == [pc |-> "read", t |-> th[h].t, i |-> 0]
<1>1. /\ UNCHANGED <<test, pt, loaded, stopped, mx, claim, brd, covered, manual, calls, faults>>
      /\ stopOf' = [stopOf EXCEPT ![th[h].t] = w] /\ th' = [th EXCEPT ![h] = NoThread, ![w] = k]
      /\ th[h].pc = "spawn" /\ th[w].pc = "end" /\ h \in Threads /\ w \in Threads
      /\ h \notin MaxTests /\ w \notin MaxTests /\ h # w /\ h \notin Workers /\ w \notin Handlers
  BY ThreadsAssumption DEF spawn, At, Threads
<1>2. /\ ThreadOK(h, th[h], covered, manual) /\ th[h] # NoThread /\ DataInv /\ CoverInv
      /\ th \in [Threads -> ThreadRec]
  BY <1>1, ThreadIs DEF IInv
<1>3. th[h].t \in Tests
  BY <1>1, <1>2 DEF ThreadOK
<1>4. k \in ThreadRec /\ k.pc = "read" /\ k.t = th[h].t /\ k.i = 0 /\ NoThread \in ThreadRec
  BY <1>3, NAssumption DEF ThreadRec, Pcs, WorkerPcs, NoThread
<1> HIDE DEF k
<1>5. \A u \in Threads : th'[u] = IF u = w THEN k ELSE IF u = h THEN NoThread ELSE th[u]
  BY <1>1, <1>2
<1>6. ThreadOK(w, k, covered, manual)
  BY <1>1, <1>3, <1>4 DEF ThreadOK, WorkerPcs, PointPcs, ExecutingPcs, Below, Points
<1>7. \A u \in Threads : th'[u] = th[u] \/ ThreadOK(u, th'[u], covered', manual')
  <2>1. ThreadOK(h, NoThread, covered, manual)
    BY DEF ThreadOK
  <2> QED
    BY <1>1, <1>5, <1>6, <2>1
<1>8. \A u \in Threads : Executing(u) \/ th[u].pc \in {"settled", "unload_mute", "abort_mute"} => th'[u] = th[u]
  BY <1>1, <1>5 DEF Executing
<1>9. th' \in [Threads -> ThreadRec]
  BY <1>1, <1>2, <1>4
<1>10. \A m \in MaxTests : mx'[m] = mx[m] /\ th'[m] = th[m]
  BY <1>1, <1>5 DEF Threads
<1>11. DataInv' /\ CoverInv'
  BY <1>1, <1>2 DEF DataInv, CoverInv
<1>12. PlayingIsRemembered'
  BY <1>1, <1>8 DEF IInv, PlayingIsRemembered, Handling
<1>13. \A u \in Threads : Executing(u) => th'[u].pc \in ExecutingPcs /\ th'[u].t = th[u].t /\ th'[u].i = th[u].i
  BY <1>8 DEF Executing, ExecutingPcs
<1> QED
  BY <1>1, <1>7, <1>9, <1>10, <1>11, <1>12, <1>13, Preserve

\* The create, the end of a run and of a playback, and the abort of a max-length
\* test.
LEMMA StillStep ==
  ASSUME IInv,
         \/ \E t \in Tests, s \in Settings : create(t, s)
         \/ \E m \in MaxTests : max_length_abort(m)
         \/ run_ends \/ playback_ends
  PROVE  IInv'
<1>1. DataInv /\ CoverInv /\ test \in [Tests -> TestRec] /\ calls \in 0..MaxCalls /\ faults \in 0..MaxFaults
      /\ mx \in [MaxTests -> {"none", "PENDING", "UPLOADING", "COMPLETED", "FAILED", "ABORTED"}]
      /\ brd \in {"idle", "ready", "wait_trigger", "playing"} /\ covered \subseteq PointRuns
  BY DEF IInv, DataInv
<1>2. ASSUME NEW t \in Tests, NEW s \in Settings, create(t, s) PROVE IInv'
  <2>1. /\ test' = [test EXCEPT ![t] = [state |-> "DRAFT", cur |-> 0, set |-> s]]
        /\ UNCHANGED <<pt, loaded, stopOf, stopped, mx, th, claim, res, brd, covered, manual, calls, faults>>
    BY <1>2 DEF create, store_create
  <2>2. DataInv'
    BY <1>1, <2>1, NAssumption DEF DataInv, TestRec
  <2>3. CoverInv'
    <3>1. ASSUME NEW u \in Tests, u \notin manual
          PROVE  Below(u, test'[u].cur, covered) /\ (test'[u].state = "COMPLETED" => Below(u, N, covered))
      <4>1. CASE u = t
        BY <1>1, <2>1, <4>1 DEF Below, Points
      <4>2. CASE u # t
        BY <1>1, <2>1, <3>1, <4>2 DEF CoverInv
      <4> QED
        BY <4>1, <4>2
    <3> QED
      BY <1>1, <2>1, <3>1 DEF CoverInv
  <2>4. PlayingIsRemembered'
    BY <2>1 DEF IInv, PlayingIsRemembered, Handling
  <2> QED
    BY <2>1, <2>2, <2>3, <2>4, Still
<1>3. ASSUME NEW m \in MaxTests, max_length_abort(m) PROVE IInv'
  <2>1. /\ mx' = [mx EXCEPT ![m] = "ABORTED"] /\ calls < MaxCalls /\ calls' = calls + 1
        /\ UNCHANGED <<test, pt, loaded, stopOf, stopped, th, claim, res, brd, covered, manual, faults>>
    BY <1>3 DEF max_length_abort
  <2>2. calls' \in 0..MaxCalls
    BY <1>1, <2>1, BoundsAssumption
  <2>3. DataInv'
    BY <1>1, <2>1, <2>2 DEF DataInv
  <2>4. CoverInv' /\ PlayingIsRemembered'
    BY <1>1, <2>1 DEF CoverInv, IInv, PlayingIsRemembered, Handling
  <2>5. \A n \in MaxTests : mx'[n] = mx[n] \/ MaxOK(mx'[n], th[n])
    BY <1>1, <2>1 DEF MaxOK
  <2> QED
    BY <2>1, <2>3, <2>4, <2>5, Still
<1>4. ASSUME run_ends \/ playback_ends PROVE IInv'
  <2>1. UNCHANGED <<test, pt, loaded, stopOf, stopped, mx, th, covered, manual, calls>>
    BY <1>4 DEF run_ends, playback_ends
  <2>2. /\ claim' \in PointRuns \cup {None} /\ brd' \in {"idle", "ready", "wait_trigger", "playing"}
        /\ brd' = "playing" => brd = "playing"
    BY <1>1, <1>4 DEF run_ends, playback_ends, DataInv
  <2>3. faults' \in 0..MaxFaults /\ (faults' = 0 => faults = 0)
    BY <1>1, <1>4, FailIs DEF run_ends, playback_ends
  <2>4. DataInv' /\ CoverInv'
    BY <1>1, <2>1, <2>2, <2>3 DEF DataInv, CoverInv
  <2>5. PlayingIsRemembered'
    BY <2>1, <2>2, <2>3 DEF IInv, PlayingIsRemembered, Handling
  <2> QED
    BY <2>1, <2>4, <2>5, Still
<1> QED
  BY <1>2, <1>3, <1>4

\* The max-length test and its worker.
LEMMA MaxLengthStep ==
  ASSUME IInv, NEW m \in MaxTests, (\E dry \in BOOLEAN : max_length_start(m, dry)) \/ _run(m)
  PROVE  IInv'
<1>1. /\ UNCHANGED <<test, pt, loaded, stopOf, stopped, claim, brd, covered, manual>> /\ m \in Threads
      /\ m \notin Workers /\ m \notin Handlers
  BY ThreadsAssumption DEF max_length_start, _run, max_length_dry, max_length_inspect, max_length_upload,
                           max_length_failed, Threads
<1>2. /\ DataInv /\ CoverInv /\ th \in [Threads -> ThreadRec] /\ MaxOK(mx[m], th[m])
      /\ mx \in [MaxTests -> {"none", "PENDING", "UPLOADING", "COMPLETED", "FAILED", "ABORTED"}]
      /\ calls \in 0..MaxCalls /\ faults \in 0..MaxFaults
      /\ ThreadOK(m, th[m], covered, manual) /\ (th[m] = NoThread <=> th[m].pc = "end")
  BY <1>1, ThreadIs DEF IInv, MaxInv, DataInv
<1>3. th[m].pc \in MaxPcs \cup {"end"}
  BY <1>1, <1>2 DEF ThreadOK
<1>4. \E k \in ThreadRec, s \in {"none", "PENDING", "UPLOADING", "COMPLETED", "FAILED", "ABORTED"} :
        /\ th' = [th EXCEPT ![m] = k] /\ mx' = [mx EXCEPT ![m] = s] /\ MaxOK(s, k)
        /\ k.pc \in MaxPcs \cup {"end"} /\ (k.pc = "end" => k = NoThread)
  <2> USE DEF MaxPcs, Pcs
  <2>1. ASSUME NEW dry \in BOOLEAN, max_length_start(m, dry)
        PROVE  \E k \in ThreadRec, s \in {"none", "PENDING", "UPLOADING", "COMPLETED", "FAILED", "ABORTED"} :
                 /\ th' = [th EXCEPT ![m] = k] /\ mx' = [mx EXCEPT ![m] = s] /\ MaxOK(s, k)
                 /\ k.pc \in MaxPcs \cup {"end"} /\ (k.pc = "end" => k = NoThread)
    <3> DEFINE k == [pc |-> IF dry THEN "dry" ELSE "inspect", t |-> None, i |-> 0]
    <3>1. th' = [th EXCEPT ![m] = k] /\ mx' = [mx EXCEPT ![m] = "PENDING"]
      BY <2>1 DEF max_length_start
    <3>2. k \in ThreadRec /\ k.pc \in {"dry", "inspect"}
      BY NAssumption DEF ThreadRec
    <3> HIDE DEF k
    <3>3. MaxOK("PENDING", k)
      BY <3>2 DEF MaxOK
    <3> QED
      BY <3>1, <3>2, <3>3
  <2>2. ASSUME NEW pc \in {"uploading", "max_failed"}, Goto(m, pc), th[m].pc # "end",
               NEW s \in {"none", "PENDING", "UPLOADING", "COMPLETED", "FAILED", "ABORTED"},
               mx' = [mx EXCEPT ![m] = s], s = "none" => s = mx[m]
        PROVE  \E k \in ThreadRec, u \in {"none", "PENDING", "UPLOADING", "COMPLETED", "FAILED", "ABORTED"} :
                 /\ th' = [th EXCEPT ![m] = k] /\ mx' = [mx EXCEPT ![m] = u] /\ MaxOK(u, k)
                 /\ k.pc \in MaxPcs \cup {"end"} /\ (k.pc = "end" => k = NoThread)
    <3> DEFINE k == Placed(th[m], pc)
    <3>1. k \in ThreadRec /\ th' = [th EXCEPT ![m] = k] /\ k.pc = pc
      BY <1>1, <2>2, GotoIs
    <3> HIDE DEF k
    <3>2. MaxOK(s, k)
      BY <1>2, <2>2, <3>1 DEF MaxOK
    <3> QED
      BY <2>2, <3>1, <3>2
  <2>3. ASSUME Goto(m, "end"), NEW s \in {"COMPLETED", "FAILED"}, mx' = [mx EXCEPT ![m] = s]
        PROVE  \E k \in ThreadRec, u \in {"none", "PENDING", "UPLOADING", "COMPLETED", "FAILED", "ABORTED"} :
                 /\ th' = [th EXCEPT ![m] = k] /\ mx' = [mx EXCEPT ![m] = u] /\ MaxOK(u, k)
                 /\ k.pc \in MaxPcs \cup {"end"} /\ (k.pc = "end" => k = NoThread)
    <3>1. NoThread \in ThreadRec /\ th' = [th EXCEPT ![m] = NoThread] /\ NoThread.pc = "end"
      BY <1>1, <2>3, GotoIs DEF Pcs
    <3>2. MaxOK(s, NoThread)
      BY <2>3 DEF MaxOK
    <3> QED
      BY <2>3, <3>1, <3>2
  <2>4. mx = [mx EXCEPT ![m] = mx[m]]
    BY <1>2
  <2>5. CASE max_length_dry(m) \/ max_length_failed(m)
    BY <2>3, <2>5 DEF max_length_dry, max_length_failed
  <2>6. CASE max_length_upload(m)
    BY <2>2, <2>6 DEF max_length_upload, At
  <2>7. CASE max_length_inspect(m)
    <3>1. /\ th[m].pc # "end" /\ mx' = [mx EXCEPT ![m] = mx[m]]
          /\ \E pc \in {"uploading", "max_failed"} : Goto(m, pc)
          /\ mx[m] \in {"none", "PENDING", "UPLOADING", "COMPLETED", "FAILED", "ABORTED"}
      BY <1>2, <2>4, <2>7 DEF max_length_inspect, At
    <3> QED
      BY <2>2, <3>1
  <2> QED
    BY <2>1, <2>5, <2>6, <2>7 DEF _run
<1>5. PICK k \in ThreadRec, s \in {"none", "PENDING", "UPLOADING", "COMPLETED", "FAILED", "ABORTED"} :
        /\ th' = [th EXCEPT ![m] = k] /\ mx' = [mx EXCEPT ![m] = s] /\ MaxOK(s, k)
        /\ k.pc \in MaxPcs \cup {"end"} /\ (k.pc = "end" => k = NoThread)
  BY <1>4
<1>6. th' \in [Threads -> ThreadRec] /\ \A u \in Threads : th'[u] = IF u = m THEN k ELSE th[u]
  BY <1>2, <1>5
<1>7. ThreadOK(m, k, covered, manual)
  BY <1>1, <1>5 DEF ThreadOK, MaxPcs, PointPcs, ExecutingPcs
<1>8. calls' \in 0..MaxCalls /\ faults' \in 0..MaxFaults /\ (faults' = 0 => faults = 0)
  <2>1. UNCHANGED faults \/ Fail
    BY DEF max_length_start, _run, max_length_dry, max_length_inspect, max_length_upload, max_length_failed
  <2>2. UNCHANGED calls \/ (calls < MaxCalls /\ calls' = calls + 1)
    BY DEF max_length_start, _run, max_length_dry, max_length_inspect, max_length_upload, max_length_failed
  <2> QED
    BY <1>2, <2>1, <2>2, FailIs, BoundsAssumption
<1>9. DataInv' /\ CoverInv'
  BY <1>1, <1>2, <1>5, <1>8 DEF DataInv, CoverInv
<1>10. th[m].pc \notin ExecutingPcs \cup {"settled", "unload_mute", "abort_mute"}
  BY <1>3 DEF MaxPcs, ExecutingPcs
<1>11. PlayingIsRemembered'
  BY <1>1, <1>2, <1>5, <1>8, <1>10, Remember
<1>12. \A u \in Threads : Executing(u) => th'[u].pc \in ExecutingPcs /\ th'[u].t = th[u].t /\ th'[u].i = th[u].i
  BY <1>6, <1>10 DEF Executing, ExecutingPcs
<1>13. \A n \in MaxTests : (mx'[n] = mx[n] /\ th'[n] = th[n]) \/ MaxOK(mx'[n], th'[n])
  BY <1>2, <1>5, <1>6 DEF Threads
<1> QED
  BY <1>1, <1>6, <1>7, <1>9, <1>11, <1>12, <1>13, Preserve

\* No test, no thread, a board that does nothing.
LEMMA InitIInv == Init => IInv
<1> SUFFICES ASSUME Init PROVE IInv
  OBVIOUS
<1>1. NoTest \in TestRec /\ NoTest.cur = 0 /\ NoTest.state = "none"
  BY SettingsAssumption, NAssumption DEF NoTest, TestRec
<1>2. NoThread \in ThreadRec /\ NoThread.pc = "end"
  BY NAssumption DEF NoThread, ThreadRec, Pcs
<1>3. DataInv
  BY <1>1, BoundsAssumption DEF Init, DataInv
<1>4. th \in [Threads -> ThreadRec] /\ ThreadInv /\ MaxInv
  BY <1>2 DEF Init, ThreadInv, ThreadOK, MaxInv, MaxOK, Threads
<1>5. CoverInv
  BY <1>1 DEF Init, CoverInv, Below, Points
<1>6. RunningHasThread /\ PlayingIsRemembered
  BY DEF Init, RunningHasThread, PlayingIsRemembered
<1> QED
  BY <1>3, <1>4, <1>5, <1>6 DEF IInv

\* Every request, every step of a thread and of the board keeps the invariant.
LEMMA StepIInv == IInv /\ MuteInv /\ [Next]_vars => IInv'
<1> SUFFICES ASSUME IInv, MuteInv, [Next]_vars PROVE IInv'
  OBVIOUS
<1>1. CASE UNCHANGED vars
  <2>1. DataInv' /\ CoverInv' /\ PlayingIsRemembered'
    BY <1>1 DEF vars, IInv, DataInv, CoverInv, PlayingIsRemembered, Handling
  <2> QED
    BY <1>1, <2>1, Still DEF vars
<1>2. ASSUME Request PROVE IInv'
  BY <1>2, StillStep, CallStep, MeasureStep, MaxLengthStep DEF Request
<1>3. ASSUME NEW x \in Threads, Step(x) PROVE IInv'
  <2>1. ASSUME x \in Workers \cup Handlers, execute_point(x) PROVE IInv'
    BY <2>1, LoadStep, TestStep, PointSteps DEF execute_point
  <2>2. CASE x \in Workers /\ _run_all(x)
    BY <2>1, <2>2, WorkerStep, TestStep, PointSteps DEF _run_all
  <2>3. CASE x \in MaxTests /\ _run(x)
    BY <2>3, MaxLengthStep
  <2>4. CASE x \in Handlers /\ (start_write(x) \/ pause_write(x) \/ abort_write(x) \/ complete(x))
    BY <2>4, TestStep
  <2>5. CASE x \in Handlers /\ (abort_pop(x) \/ abort_mute(x) \/ measured(x) \/ \E w \in Workers : spawn(x, w))
    BY <2>5, HandlerStep, SpawnStep
  <2> QED
    BY <1>3, <2>1, <2>2, <2>3, <2>4, <2>5 DEF Step
<1>4. ASSUME run_ends \/ playback_ends PROVE IInv'
  BY <1>4, StillStep
<1> QED
  BY <1>1, <1>2, <1>3, <1>4 DEF Next

\* A step keeps MuteInv if no test vanishes or changes its settings, a thread
\* that takes up a test takes up one that exists, only a test that mutes gets to
\* forget, and only a test that does not mute gets a loaded run.
LEMMA MutePreserve ==
  ASSUME MuteInv,
         \A t \in Tests : test[t].state # "none" => test'[t].state # "none" /\ test'[t].set = test[t].set,
         \A u \in Threads : \/ th'[u].t = th[u].t \/ th'[u].t \notin Tests
                             \/ test[th'[u].t].state # "none",
         \A u \in Threads : th'[u].pc = "forget" =>
           /\ th'[u].t \in Tests /\ th[u].t = th'[u].t
           /\ th[u].pc = "forget" \/ Set(th[u].t).mute,
         \A t \in Tests : loaded'[t] # None =>
           loaded'[t] = loaded[t] \/ (test[t].state # "none" /\ ~Set(t).mute)
  PROVE  MuteInv'
  BY DEF MuteInv, Set

\* No test vanishes, and none changes its settings.
LEMMA TestsKept ==
  ASSUME IInv, Next
  PROVE  \A t \in Tests : test[t].state # "none" => test'[t].state # "none" /\ test'[t].set = test[t].set
<1>1. test \in [Tests -> TestRec]
  BY DEF IInv, DataInv
<1>2. ASSUME NEW t, NEW s \in {"RUNNING", "PAUSED", "COMPLETED", "FAILED", "ABORTED"}, NEW i,
             update(t, s) \/ update_at(t, s, i), NEW u \in Tests
      PROVE  test'[u].state # "none" \/ test'[u] = test[u]
  BY <1>1, <1>2 DEF update, update_at, TestRec
<1>3. ASSUME NEW t, NEW s \in {"RUNNING", "PAUSED", "COMPLETED", "FAILED", "ABORTED"}, NEW i,
             update(t, s) \/ update_at(t, s, i), NEW u \in Tests
      PROVE  test'[u].set = test[u].set
  BY <1>1, <1>3 DEF update, update_at, TestRec
<1>4. ASSUME NEW t \in Tests, NEW s, create(t, s), NEW u \in Tests, test[u].state # "none"
      PROVE  test'[u] = test[u]
  BY <1>1, <1>4 DEF create, store_create
<1>5. ASSUME Request
      PROVE  UNCHANGED test \/ \E t \in Tests, s \in Settings : create(t, s)
  BY <1>5 DEF Request, start, pause, abort, execute, record_measurement, max_length_start, max_length_abort
<1>6. ASSUME NEW x \in Threads, execute_point(x)
      PROVE  \/ UNCHANGED test
             \/ \E s \in {"RUNNING", "PAUSED", "COMPLETED", "FAILED", "ABORTED"} : \E i :
                  update(th[x].t, s) \/ update_at(th[x].t, s, i)
  <2>1. CASE mark(x) \/ failed_test(x)
    BY <2>1 DEF mark, failed_test
  <2>2. CASE ~mark(x) /\ ~failed_test(x)
    BY <1>6, <2>2 DEF execute_point, mark_point, unload, unload_mute, configure, submit, wait, play, settled,
                      forget, ready, failed
  <2> QED
    BY <2>1, <2>2
<1>7. ASSUME NEW x \in Threads, Step(x), ~execute_point(x)
      PROVE  \/ UNCHANGED test
             \/ \E s \in {"RUNNING", "PAUSED", "COMPLETED", "FAILED", "ABORTED"} : \E i :
                  update(th[x].t, s) \/ update_at(th[x].t, s, i)
  <2>1. CASE start_write(x) \/ pause_write(x) \/ abort_write(x) \/ complete(x)
    BY <2>1 DEF start_write, pause_write, abort_write, complete
  <2>2. CASE ~(start_write(x) \/ pause_write(x) \/ abort_write(x) \/ complete(x))
    BY <1>7, <2>2 DEF Step, _run_all, _run, read, check, ready_again, max_length_dry, max_length_inspect,
                      max_length_upload, max_length_failed, abort_pop, abort_mute, measured, spawn
  <2> QED
    BY <2>1, <2>2
<1>8. run_ends \/ playback_ends => UNCHANGED test
  BY DEF run_ends, playback_ends
<1> QED
  BY <1>2, <1>3, <1>4, <1>5, <1>6, <1>7, <1>8 DEF Next

\* Where thread u may get in a step: to a test that exists, and to "forget"
\* only if the test mutes its waveforms.
Led(u) ==
  /\ th'[u].t = th[u].t \/ th'[u].t \notin Tests \/ test[th'[u].t].state # "none"
  /\ th'[u].pc = "forget" =>
       /\ th'[u].t \in Tests /\ th[u].t = th'[u].t
       /\ th[u].pc = "forget" \/ Set(th[u].t).mute

LEMMA ThreadsLed ==
  ASSUME IInv, MuteInv, Next, NEW u \in Threads
  PROVE  Led(u)
<1>1. th \in [Threads -> ThreadRec] /\ None \notin Tests /\ (th[u].pc = "forget" => th[u].t \in Tests)
  BY ThreadIs, NoneAssumption DEF IInv, PointPcs, ExecutingPcs
<1>2. th'[u] = th[u] => Led(u)
  BY <1>1 DEF Led
<1>3. ASSUME NEW x \in Threads, NEW k, th' = [th EXCEPT ![x] = k], k.pc # "forget",
             k.t = th[x].t \/ k.t \notin Tests \/ test[k.t].state # "none"
      PROVE  Led(u)
  <2>1. CASE u = x
    BY <1>1, <1>3, <2>1 DEF Led
  <2>2. CASE u # x
    BY <1>1, <1>2, <1>3, <2>2
  <2> QED
    BY <2>1, <2>2
<1>4. ASSUME NEW x \in Threads, NEW pc, pc # "forget", Goto(x, pc)
      PROVE  Led(u)
  <2>1. CASE pc = "end"
    <3>1. th' = [th EXCEPT ![x] = NoThread]
      BY <1>4, <2>1 DEF Goto
    <3>2. NoThread.pc = "end" /\ NoThread.t = None
      BY DEF NoThread
    <3> QED
      BY <1>1, <1>3, <3>1, <3>2
  <2>2. CASE pc # "end"
    <3>1. th' = [th EXCEPT ![x] = [th[x] EXCEPT !.pc = pc]]
      BY <1>1, <1>4, <2>2 DEF Goto
    <3>2. [th[x] EXCEPT !.pc = pc].pc = pc /\ [th[x] EXCEPT !.pc = pc].t = th[x].t
      BY <1>1 DEF ThreadRec
    <3> QED
      BY <1>3, <1>4, <3>1, <3>2
  <2> QED
    BY <2>1, <2>2
<1>5. ASSUME NEW x \in Threads, settled(x) PROVE Led(u)
  <2>1. CASE Goto(x, "ready")
    BY <1>4, <2>1
  <2>2. CASE Set(th[x].t).mute /\ Goto(x, "forget")
    <3>1. th' = [th EXCEPT ![x] = [th[x] EXCEPT !.pc = "forget"]]
      BY <1>1, <2>2 DEF Goto
    <3>2. th[x].t \in Tests
      BY <1>5, ThreadIs DEF settled, At, PointPcs, ExecutingPcs
    <3>3. CASE u = x
      <4>1. th'[u].t = th[x].t
        BY <1>1, <3>1, <3>3 DEF ThreadRec
      <4> QED
        BY <2>2, <3>2, <3>3, <4>1 DEF Led
    <3>4. CASE u # x
      BY <1>1, <1>2, <3>1, <3>4
    <3> QED
      BY <3>3, <3>4
  <2> QED
    BY <1>5, <2>1, <2>2 DEF settled
<1>6. ASSUME NEW x \in Threads, execute_point(x), ~settled(x)
      PROVE  \E pc : pc # "forget" /\ Goto(x, pc)
  BY <1>6 DEF execute_point, mark, mark_point, unload, unload_mute, configure, submit, wait, play, forget,
              ready, failed, failed_test, Pop
<1>7. ASSUME NEW x \in Threads, Step(x), ~execute_point(x)
      PROVE  \/ \E pc : pc # "forget" /\ Goto(x, pc)
             \/ read(x) \/ ready_again(x) \/ \E w \in Workers : x \in Handlers /\ spawn(x, w)
  BY <1>7 DEF Step, _run_all, _run, check, complete, max_length_dry, max_length_inspect, max_length_upload,
              max_length_failed, start_write, pause_write, abort_pop, abort_mute, abort_write, measured, Pop
<1>8. ASSUME NEW x \in Threads, read(x) \/ ready_again(x) PROVE Led(u)
  <2>1. \E i : th' = [th EXCEPT ![x] = [th[x] EXCEPT !.pc = "check", !.i = i]]
    BY <1>1, <1>8 DEF read, ready_again
  <2>2. \A i : [th[x] EXCEPT !.pc = "check", !.i = i].pc = "check"
               /\ [th[x] EXCEPT !.pc = "check", !.i = i].t = th[x].t
    BY <1>1 DEF ThreadRec
  <2> QED
    BY <1>3, <2>1, <2>2
<1>9. ASSUME NEW h \in Handlers, NEW w \in Workers, spawn(h, w) PROVE Led(u)
  <2>1. h \in Threads /\ w \in Threads /\ th[h].pc = "spawn"
        /\ th' = [th EXCEPT ![h] = NoThread, ![w] = [pc |-> "read", t |-> th[h].t, i |-> 0]]
    BY <1>9 DEF spawn, At, Threads
  <2>2. th[h].t \in Tests => test[th[h].t].state # "none"
    BY <2>1 DEF MuteInv
  <2>3. \/ th'[u] = th[u] \/ th'[u] = NoThread \/ th'[u] = [pc |-> "read", t |-> th[h].t, i |-> 0]
    BY <1>1, <2>1
  <2> QED
    BY <1>1, <1>2, <2>2, <2>3 DEF Led, NoThread
<1>10. ASSUME Request PROVE Led(u)
  <2>1. ASSUME NEW h \in Handlers, NEW t \in Tests, NEW pc, NEW i, Call(h, pc, t, i), pc # "forget",
               test[t].state # "none"
        PROVE  Led(u)
    <3> DEFINE k == [pc |-> pc, t |-> t, i |-> i]
    <3>1. th' = [th EXCEPT ![h] = k] /\ k.pc = pc /\ k.t = t /\ h \in Threads
      BY <2>1 DEF Call, Threads
    <3> HIDE DEF k
    <3> QED
      BY <1>3, <2>1, <3>1
  <2>2. ASSUME NEW h \in Handlers, NEW t \in Tests,
               \/ start(h, t) \/ pause(h, t) \/ abort(h, t)
               \/ \E i \in Points : execute(h, t, i) \/ record_measurement(h, t, i)
        PROVE  test[t].state # "none" /\ \E pc, i : pc # "forget" /\ Call(h, pc, t, i)
    BY <2>2 DEF start, pause, abort, execute, record_measurement
  <2>3. ASSUME NEW m \in MaxTests, NEW dry, max_length_start(m, dry) PROVE Led(u)
    <3> DEFINE k == [pc |-> IF dry THEN "dry" ELSE "inspect", t |-> None, i |-> 0]
    <3>1. th' = [th EXCEPT ![m] = k] /\ k.pc \in {"dry", "inspect"} /\ k.t = None /\ m \in Threads
      BY <2>3 DEF max_length_start, Threads
    <3> HIDE DEF k
    <3> QED
      BY <1>1, <1>3, <3>1
  <2>4. ASSUME NEW m \in MaxTests, max_length_abort(m) PROVE Led(u)
    BY <1>2, <2>4 DEF max_length_abort
  <2>5. ASSUME NEW t \in Tests, NEW s, create(t, s) PROVE Led(u)
    BY <1>2, <2>5 DEF create
  <2> QED
    BY <1>10, <2>1, <2>2, <2>3, <2>4, <2>5 DEF Request
<1>11. run_ends \/ playback_ends => Led(u)
  BY <1>2 DEF run_ends, playback_ends
<1>12. ASSUME NEW x \in Threads, Step(x) PROVE Led(u)
  BY <1>4, <1>5, <1>6, <1>7, <1>8, <1>9, <1>12
<1> QED
  BY <1>10, <1>11, <1>12 DEF Next

\* Only a test that exists and does not mute gets a loaded run.
LEMMA LoadedKept ==
  ASSUME IInv, MuteInv, Next, NEW t \in Tests, loaded'[t] # None
  PROVE  loaded'[t] = loaded[t] \/ (test[t].state # "none" /\ ~Set(t).mute)
<1>1. loaded \in [Tests -> PointRuns \cup {None}]
  BY DEF IInv, DataInv
<1>2. ASSUME NEW x, NEW u, NEW a, NEW b, Pop(x, u, a, b) PROVE loaded'[t] = loaded[t]
  BY <1>1, <1>2 DEF Pop
<1>3. ASSUME NEW x \in Threads, settled(x)
      PROVE  loaded'[t] = loaded[t] \/ (test[t].state # "none" /\ ~Set(t).mute)
  <2>1. th[x].t \in Tests /\ test[th[x].t].state # "none"
    BY <1>3, ThreadIs DEF settled, At, PointPcs, ExecutingPcs, MuteInv
  <2> QED
    BY <1>1, <1>3, <2>1 DEF settled
<1>4. ASSUME NEW x \in Threads, execute_point(x), ~settled(x)
      PROVE  UNCHANGED loaded \/ \E u, a, b : Pop(x, u, a, b)
  BY <1>4 DEF execute_point, mark, mark_point, unload, unload_mute, configure, submit, wait, play, forget,
              ready, failed, failed_test
<1>5. ASSUME NEW x \in Threads, Step(x), ~execute_point(x)
      PROVE  UNCHANGED loaded \/ \E u, a, b : Pop(x, u, a, b)
  BY <1>5 DEF Step, _run_all, _run, read, check, ready_again, complete, max_length_dry, max_length_inspect,
              max_length_upload, max_length_failed, start_write, pause_write, abort_pop, abort_mute,
              abort_write, measured, spawn
<1>6. Request \/ run_ends \/ playback_ends => UNCHANGED loaded
  BY DEF Request, create, start, pause, abort, execute, record_measurement, max_length_start,
         max_length_abort, run_ends, playback_ends
<1> QED
  BY <1>2, <1>3, <1>4, <1>5, <1>6 DEF Next

\* A step keeps MuteInv.
LEMMA MuteStep == IInv /\ MuteInv /\ [Next]_vars => MuteInv'
<1> SUFFICES ASSUME IInv, MuteInv, [Next]_vars PROVE MuteInv'
  OBVIOUS
<1>1. CASE UNCHANGED vars
  BY <1>1 DEF vars, MuteInv, Set
<1>2. CASE Next
  <2>1. \A u \in Threads : Led(u)
    BY <1>2, ThreadsLed
  <2> QED
    BY <1>2, <2>1, TestsKept, LoadedKept, MutePreserve DEF Led
<1> QED
  BY <1>1, <1>2

\* The inductive invariant holds in every reachable state.
THEOREM InvariantHolds == Spec => [](IInv /\ MuteInv)
<1>1. Init => MuteInv
  BY NoneAssumption DEF Init, MuteInv, NoThread
<1> QED
  BY <1>1, InitIInv, StepIInv, MuteStep, PTL DEF Spec

\* The type invariant of TestSessions.
THEOREM TypeSafe == Spec => []TypeOK
<1>1. IInv => TypeOK
  BY DEF IInv, DataInv, TypeOK, TestRec, ThreadRec
<1> QED
  BY <1>1, InvariantHolds, PTL

\* A test of PerformanceService is COMPLETED only when each of its points has
\* been executed or measured, whatever the workers, pauses and resumes.
THEOREM CompletedSafe == Spec => []CompletedMeansCovered
<1>1. IInv => CompletedMeansCovered
  BY NAssumption DEF IInv, CoverInv, CompletedMeansCovered, Below, Points
<1> QED
  BY <1>1, InvariantHolds, PTL

\* As long as no call has failed, a board that plays can be stopped by abort.
THEOREM RememberedSafe == Spec => []PlayingIsRemembered
<1>1. IInv => PlayingIsRemembered
  BY DEF IInv
<1> QED
  BY <1>1, InvariantHolds, PTL

\* A point or a max-length test that is shown in progress has its thread.
THEOREM RunningSafe == Spec => []RunningHasThread
<1>1. IInv => RunningHasThread
  BY DEF IInv
<1> QED
  BY <1>1, InvariantHolds, PTL
=============================================================================
