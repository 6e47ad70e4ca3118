---------------------------- MODULE TestSessions ----------------------------
(***************************************************************************)
(* The test services of the web application on one board: performance      *)
(* tests (webapp/performance.py) and max-length tests (max_length.py).     *)
(*                                                                         *)
(* A thread is an automatic worker (_run_all), a max-length worker (_run)  *)
(* or an API handler.  A step is one SQLite transaction, one access to the *)
(* dictionaries of the service, which no lock protects, or one call on the *)
(* board or on RunCoordinator.  The handlers of FastAPI run in a pool, so  *)
(* several may be inside the service at once.                              *)
(*                                                                         *)
(* The run of point i of test t is <<t, i>>.  RunCoordinator and the board *)
(* are external here (WebRuns models them): claim is the run that holds    *)
(* the board, res the outcome of a run, brd what the board does.           *)
(*                                                                         *)
(* History: covered holds the points that have been executed or measured,  *)
(* manual the tests on which a client has executed a single point.         *)
(***************************************************************************)
EXTENDS Naturals, FiniteSets

CONSTANTS Tests, MaxTests,       \* performance and max-length tests
          Workers, Handlers,     \* threads
          N,                     \* points of a test
          None,
          Settings,              \* what a client may ask of a performance test
          MaxCalls, MaxFaults    \* bounds: API calls, failed calls on the board

ASSUME NAssumption == N \in Nat \ {0}
ASSUME ThreadsAssumption ==
  Workers \cap MaxTests = {} /\ Workers \cap Handlers = {} /\ MaxTests \cap Handlers = {}
ASSUME SettingsAssumption ==
  Settings # {} /\ Settings \subseteq [auto : BOOLEAN, dry : BOOLEAN, mute : BOOLEAN]
ASSUME BoundsAssumption == MaxCalls \in Nat /\ MaxFaults \in Nat
ASSUME NoneAssumption == None \notin Tests \cup Workers \cup (Tests \X (0..(N - 1)))

VARIABLES test, pt, loaded, stopOf, stopped, mx, th, claim, res, brd,
          covered, manual, calls, faults

vars == <<test, pt, loaded, stopOf, stopped, mx, th, claim, res, brd,
          covered, manual, calls, faults>>

Points == 0..(N - 1)
PointRuns == Tests \X Points
Threads == Workers \cup MaxTests \cup Handlers
NoThread == [pc |-> "end", t |-> None, i |-> 0]
NoTest == [state |-> "none", cur |-> 0, set |-> CHOOSE s \in Settings : TRUE]

Init ==
  /\ test = [t \in Tests |-> NoTest]
  /\ pt = [r \in PointRuns |-> "PENDING"]
  /\ loaded = [t \in Tests |-> None]
  /\ stopOf = [t \in Tests |-> None]
  /\ stopped = {}
  /\ mx = [m \in MaxTests |-> "none"]
  /\ th = [x \in Threads |-> NoThread]
  /\ claim = None
  /\ res = [r \in PointRuns |-> "none"]
  /\ brd = "idle"
  /\ covered = {} /\ manual = {}
  /\ calls = 0 /\ faults = 0

At(x, pc) == th[x].pc = pc
Goto(x, pc) == th' = [th EXCEPT ![x] = IF pc = "end" THEN NoThread ELSE [@ EXCEPT !.pc = pc]]
RunOf(x) == <<th[x].t, th[x].i>>
Set(t) == test[t].set
Fail == faults < MaxFaults /\ faults' = faults + 1

-----------------------------------------------------------------------------
(* PerformanceStore.                                                        *)

store_create(t, s) == test' = [test EXCEPT ![t] = [state |-> "DRAFT", cur |-> 0, set |-> s]]

update(t, s) == test' = [test EXCEPT ![t].state = s]

update_at(t, s, i) == test' = [test EXCEPT ![t].state = s, ![t].cur = i]

update_point(r, s) == pt' = [pt EXCEPT ![r] = s]

-----------------------------------------------------------------------------
(* API handlers of performance tests.                                       *)

Call(h, pc, t, i) ==
  /\ At(h, "end")
  /\ calls < MaxCalls
  /\ calls' = calls + 1
  /\ th' = [th EXCEPT ![h] = [pc |-> pc, t |-> t, i |-> i]]

create(t, s) ==
  /\ test[t].state = "none"
  /\ store_create(t, s)
  /\ UNCHANGED <<pt, loaded, stopOf, stopped, mx, th, claim, res, brd, covered, manual, calls, faults>>

\* start reads the state, writes RUNNING, then makes the stop event and the
\* worker of an automatic test.
start(h, t) ==
  /\ test[t].state \in {"DRAFT", "PAUSED"}
  /\ Call(h, "start_write", t, 0)
  /\ UNCHANGED <<test, pt, loaded, stopOf, stopped, mx, claim, res, brd, covered, manual, faults>>

start_write(h) ==
  /\ At(h, "start_write")
  /\ update(th[h].t, "RUNNING")
  /\ Goto(h, IF Set(th[h].t).auto THEN "spawn" ELSE "end")
  /\ UNCHANGED <<pt, loaded, stopOf, stopped, mx, claim, res, brd, covered, manual, calls, faults>>

\* A worker is a new thread with a new event; the event of the previous worker
\* is forgotten.
spawn(h, w) ==
  /\ At(h, "spawn")
  /\ At(w, "end") /\ w \notin stopped /\ w \notin {stopOf[t] : t \in Tests}
  /\ stopOf' = [stopOf EXCEPT ![th[h].t] = w]
  /\ th' = [th EXCEPT ![h] = NoThread, ![w] = [pc |-> "read", t |-> th[h].t, i |-> 0]]
  /\ UNCHANGED <<test, pt, loaded, stopped, mx, claim, res, brd, covered, manual, calls, faults>>

SetStop(t) == stopped' = stopped \cup ({stopOf[t]} \ {None})

pause(h, t) ==
  /\ test[t].state = "RUNNING"
  /\ Call(h, "pause_write", t, 0)
  /\ SetStop(t)
  /\ UNCHANGED <<test, pt, loaded, stopOf, mx, claim, res, brd, covered, manual, faults>>

pause_write(h) ==
  /\ At(h, "pause_write")
  /\ update(th[h].t, "PAUSED")
  /\ Goto(h, "end")
  /\ UNCHANGED <<pt, loaded, stopOf, stopped, mx, claim, res, brd, covered, manual, calls, faults>>

\* The entry of test t is popped; a run that was in it is stopped next.
Pop(x, t, run_found, none_found) ==
  /\ loaded' = [loaded EXCEPT ![t] = None]
  /\ Goto(x, IF loaded[t] = None THEN none_found ELSE run_found)

\* abort sets the event, forgets the loaded run, stops it and writes ABORTED.
abort(h, t) ==
  /\ test[t].state # "none"
  /\ Call(h, "abort_pop", t, 0)
  /\ SetStop(t)
  /\ UNCHANGED <<test, pt, loaded, stopOf, mx, claim, res, brd, covered, manual, faults>>

abort_pop(h) ==
  /\ At(h, "abort_pop")
  /\ Pop(h, th[h].t, "abort_mute", "abort_write")
  /\ UNCHANGED <<test, pt, stopOf, stopped, mx, claim, res, brd, covered, manual, calls, faults>>

\* abort_loaded reports a failed STOP in an event and returns.
abort_loaded ==
  \/ brd' = (IF brd = "idle" THEN "idle" ELSE "ready") /\ UNCHANGED faults
  \/ Fail /\ UNCHANGED brd

abort_mute(h) ==
  /\ At(h, "abort_mute")
  /\ abort_loaded
  /\ Goto(h, "abort_write")
  /\ UNCHANGED <<test, pt, loaded, stopOf, stopped, mx, claim, res, covered, manual, calls>>

abort_write(h) ==
  /\ At(h, "abort_write")
  /\ update(th[h].t, "ABORTED")
  /\ Goto(h, "end")
  /\ UNCHANGED <<pt, loaded, stopOf, stopped, mx, claim, res, brd, covered, manual, calls, faults>>

execute(h, t, i) ==
  /\ test[t].state # "none"
  /\ Call(h, "mark", t, i)
  /\ manual' = manual \cup {t}
  /\ UNCHANGED <<test, pt, loaded, stopOf, stopped, mx, claim, res, brd, covered, faults>>

\* Variant: the test is complete with the first measurement.
record_measurement_first(h, t, i) ==
  /\ test[t].state # "none"
  /\ Call(h, "complete", t, i)
  /\ update_point(<<t, i>>, "MEASURED")
  /\ covered' = covered \cup {<<t, i>>}
  /\ UNCHANGED <<test, loaded, stopOf, stopped, mx, claim, res, brd, manual, faults>>

\* record_measurement writes the point, then reads all points, then completes
\* the test (action complete): three transactions.
record_measurement(h, t, i) ==
  /\ test[t].state # "none"
  /\ Call(h, "measured", t, i)
  /\ update_point(<<t, i>>, "MEASURED")
  /\ covered' = covered \cup {<<t, i>>}
  /\ UNCHANGED <<test, loaded, stopOf, stopped, mx, claim, res, brd, manual, faults>>

measured(h) ==
  /\ At(h, "measured")
  /\ Goto(h, IF \A j \in Points : pt[<<th[h].t, j>>] = "MEASURED" THEN "complete" ELSE "end")
  /\ UNCHANGED <<test, pt, loaded, stopOf, stopped, mx, claim, res, brd, covered, manual, calls, faults>>

-----------------------------------------------------------------------------
(* execute_point, by a handler or by the worker of the test.                *)

IsWorker(x) == x \in Workers

mark(x) ==
  /\ At(x, "mark")
  /\ update_at(th[x].t, "RUNNING", th[x].i)
  /\ Goto(x, "mark_point")
  /\ UNCHANGED <<pt, loaded, stopOf, stopped, mx, claim, res, brd, covered, manual, calls, faults>>

mark_point(x) ==
  /\ At(x, "mark_point")
  /\ update_point(RunOf(x), "RUNNING")
  /\ Goto(x, "unload")
  /\ UNCHANGED <<test, loaded, stopOf, stopped, mx, claim, res, brd, covered, manual, calls, faults>>

\* _load_point first forgets and stops the waveform the test has left loaded.
unload(x) ==
  /\ At(x, "unload")
  /\ Pop(x, th[x].t, "unload_mute", "configure")
  /\ UNCHANGED <<test, pt, stopOf, stopped, mx, claim, res, brd, covered, manual, calls, faults>>

unload_mute(x) ==
  /\ At(x, "unload_mute")
  /\ abort_loaded
  /\ Goto(x, "configure")
  /\ UNCHANGED <<test, pt, loaded, stopOf, stopped, mx, claim, res, covered, manual, calls>>

\* The RFDC settings of the point; refused while the board is armed or plays.
configure(x) ==
  /\ At(x, "configure")
  /\ \/ /\ Set(th[x].t).dry \/ brd \in {"idle", "ready"}
        /\ Goto(x, "submit") /\ UNCHANGED faults
     \/ /\ ~Set(th[x].t).dry /\ brd \notin {"idle", "ready"}
        /\ Goto(x, "failed") /\ UNCHANGED faults
     \/ /\ ~Set(th[x].t).dry
        /\ Fail /\ Goto(x, "failed")
  /\ UNCHANGED <<test, pt, loaded, stopOf, stopped, mx, claim, res, brd, covered, manual, calls>>

\* runs.create, refused when another run holds the board.
submit(x) ==
  /\ At(x, "submit")
  /\ \/ /\ claim = None
        /\ claim' = RunOf(x)
        /\ res' = [res EXCEPT ![RunOf(x)] = "active"]
        /\ Goto(x, "wait")
     \/ /\ claim # None
        /\ Goto(x, "failed")
        /\ UNCHANGED <<claim, res>>
  /\ UNCHANGED <<test, pt, loaded, stopOf, stopped, mx, brd, covered, manual, calls, faults>>

\* The wait polls the run for at most 120 s; the run goes on after a timeout.
wait(x) ==
  /\ At(x, "wait")
  /\ \/ res[RunOf(x)] = "DONE" /\ Goto(x, IF Set(th[x].t).dry THEN "ready" ELSE "play") /\ UNCHANGED faults
     \/ res[RunOf(x)] = "FAULT" /\ Goto(x, "failed") /\ UNCHANGED faults
     \/ res[RunOf(x)] = "active" /\ Fail /\ Goto(x, "failed")
  /\ UNCHANGED <<test, pt, loaded, stopOf, stopped, mx, claim, res, brd, covered, manual, calls>>

\* play_loaded needs a prefetched waveform; its answer may be lost.
play(x) ==
  /\ At(x, "play")
  /\ \/ brd = "wait_trigger" /\ brd' = "playing" /\ Goto(x, "settled") /\ UNCHANGED faults
     \/ brd # "wait_trigger" /\ Goto(x, "failed") /\ UNCHANGED <<brd, faults>>
     \/ brd = "wait_trigger" /\ Fail /\ brd' \in {brd, "playing"} /\ Goto(x, "failed")
  /\ UNCHANGED <<test, pt, loaded, stopOf, stopped, mx, claim, res, covered, manual, calls>>

\* Variant: a waveform that is left playing is not remembered.
settled_forgets(x) ==
  /\ At(x, "settled")
  /\ IF Set(th[x].t).mute
     THEN abort_loaded /\ Goto(x, "forget")
     ELSE Goto(x, "ready") /\ UNCHANGED <<brd, faults>>
  /\ UNCHANGED <<test, pt, loaded, stopOf, stopped, mx, claim, res, covered, manual, calls>>

\* After the settle time the waveform is stopped, and then forgotten, or it is
\* left playing and remembered.
settled(x) ==
  /\ At(x, "settled")
  /\ \/ /\ Set(th[x].t).mute
        /\ abort_loaded
        /\ Goto(x, "forget") /\ UNCHANGED loaded
     \/ /\ ~Set(th[x].t).mute
        /\ loaded' = [loaded EXCEPT ![th[x].t] = RunOf(x)]
        /\ Goto(x, "ready") /\ UNCHANGED <<brd, faults>>
  /\ UNCHANGED <<test, pt, stopOf, stopped, mx, claim, res, covered, manual, calls>>

forget(x) ==
  /\ At(x, "forget")
  /\ Pop(x, th[x].t, "ready", "ready")
  /\ UNCHANGED <<test, pt, stopOf, stopped, mx, claim, res, brd, covered, manual, calls, faults>>

ready(x) ==
  /\ At(x, "ready")
  /\ update_point(RunOf(x), "READY")
  /\ covered' = covered \cup {RunOf(x)}
  /\ Goto(x, IF IsWorker(x) THEN "ready_again" ELSE "end")
  /\ UNCHANGED <<test, loaded, stopOf, stopped, mx, claim, res, brd, manual, calls, faults>>

\* Variant: only the test is marked FAILED.
failed_silent(x) ==
  /\ At(x, "failed")
  /\ Goto(x, "failed_test")
  /\ UNCHANGED <<test, pt, loaded, stopOf, stopped, mx, claim, res, brd, covered, manual, calls, faults>>

failed(x) ==
  /\ At(x, "failed")
  /\ update_point(RunOf(x), "FAILED")
  /\ Goto(x, "failed_test")
  /\ UNCHANGED <<test, loaded, stopOf, stopped, mx, claim, res, brd, covered, manual, calls, faults>>

failed_test(x) ==
  /\ At(x, "failed_test")
  /\ update(th[x].t, "FAILED")
  /\ Goto(x, "end")
  /\ UNCHANGED <<pt, loaded, stopOf, stopped, mx, claim, res, brd, covered, manual, calls, faults>>

execute_point(x) ==
  \/ mark(x) \/ mark_point(x) \/ unload(x) \/ unload_mute(x) \/ configure(x) \/ submit(x)
  \/ wait(x) \/ play(x) \/ settled(x) \/ forget(x) \/ ready(x) \/ failed(x) \/ failed_test(x)

-----------------------------------------------------------------------------
(* _run_all: the points from the current one on, until the stop event.      *)

read(w) ==
  /\ At(w, "read")
  /\ th' = [th EXCEPT ![w].pc = "check", ![w].i = test[th[w].t].cur]
  /\ UNCHANGED <<test, pt, loaded, stopOf, stopped, mx, claim, res, brd, covered, manual, calls, faults>>

check(w) ==
  /\ At(w, "check")
  /\ Goto(w, IF th[w].i >= N THEN "complete" ELSE IF w \in stopped THEN "end" ELSE "mark")
  /\ UNCHANGED <<test, pt, loaded, stopOf, stopped, mx, claim, res, brd, covered, manual, calls, faults>>

ready_again(w) ==
  /\ At(w, "ready_again")
  /\ update_point(RunOf(w), "READY")
  /\ th' = [th EXCEPT ![w].pc = "check", ![w].i = @ + 1]
  /\ UNCHANGED <<test, loaded, stopOf, stopped, mx, claim, res, brd, covered, manual, calls, faults>>

complete(w) ==
  /\ At(w, "complete")
  /\ update_at(th[w].t, "COMPLETED", N)
  /\ Goto(w, "end")
  /\ UNCHANGED <<pt, loaded, stopOf, stopped, mx, claim, res, brd, covered, manual, calls, faults>>

_run_all(w) ==
  read(w) \/ check(w) \/ ready_again(w) \/ complete(w) \/ execute_point(w)

-----------------------------------------------------------------------------
(* MaxLengthService.  The worker of a test is a thread of its own.          *)

\* create and start, which the API calls together.
max_length_start(m, dry) ==
  /\ mx[m] = "none"
  /\ calls < MaxCalls /\ calls' = calls + 1
  /\ mx' = [mx EXCEPT ![m] = "PENDING"]
  /\ th' = [th EXCEPT ![m] = [pc |-> IF dry THEN "dry" ELSE "inspect", t |-> None, i |-> 0]]
  /\ UNCHANGED <<test, pt, loaded, stopOf, stopped, claim, res, brd, covered, manual, faults>>

\* abort sets the stop event, which only the upload and the playback look at,
\* and writes ABORTED whatever the state is.
max_length_abort(m) ==
  /\ mx[m] # "none"
  /\ calls < MaxCalls /\ calls' = calls + 1
  /\ mx' = [mx EXCEPT ![m] = "ABORTED"]
  /\ UNCHANGED <<test, pt, loaded, stopOf, stopped, th, claim, res, brd, covered, manual, faults>>

max_length_dry(m) ==
  /\ At(m, "dry")
  /\ mx' = [mx EXCEPT ![m] = "COMPLETED"]
  /\ Goto(m, "end")
  /\ UNCHANGED <<test, pt, loaded, stopOf, stopped, claim, res, brd, covered, manual, calls, faults>>

\* The board must be online and aligned and take the RFDC settings.
max_length_inspect(m) ==
  /\ At(m, "inspect")
  /\ \/ brd \in {"idle", "ready"} /\ Goto(m, "uploading") /\ UNCHANGED faults
     \/ brd \notin {"idle", "ready"} /\ Goto(m, "max_failed") /\ UNCHANGED faults
     \/ Fail /\ Goto(m, "max_failed")
  /\ UNCHANGED <<test, pt, loaded, stopOf, stopped, mx, claim, res, brd, covered, manual, calls>>

\* The Dr47Device it makes is never connected, so upload_interleaved_chunks
\* and the STOP of the finally clause raise before they send anything.
max_length_upload(m) ==
  /\ At(m, "uploading")
  /\ mx' = [mx EXCEPT ![m] = "UPLOADING"]
  /\ Goto(m, "max_failed")
  /\ UNCHANGED <<test, pt, loaded, stopOf, stopped, claim, res, brd, covered, manual, calls, faults>>

max_length_failed(m) ==
  /\ At(m, "max_failed")
  /\ mx' = [mx EXCEPT ![m] = "FAILED"]
  /\ Goto(m, "end")
  /\ UNCHANGED <<test, pt, loaded, stopOf, stopped, claim, res, brd, covered, manual, calls, faults>>

_run(m) ==
  \/ max_length_dry(m) \/ max_length_inspect(m) \/ max_length_upload(m) \/ max_length_failed(m)

-----------------------------------------------------------------------------
(* The upload run that execute_point waits for, and the board on its own.   *)

run_ends ==
  LET dry == Set(claim[1]).dry IN
  /\ claim # None
  /\ \/ /\ res' = [res EXCEPT ![claim] = "DONE"]
        /\ brd' = IF dry THEN brd ELSE "wait_trigger"
        /\ UNCHANGED faults
     \/ /\ Fail
        /\ res' = [res EXCEPT ![claim] = "FAULT"]
        /\ brd' = IF dry \/ brd = "idle" THEN brd ELSE "ready"
  /\ claim' = None
  /\ UNCHANGED <<test, pt, loaded, stopOf, stopped, mx, th, covered, manual, calls>>

playback_ends ==
  /\ brd = "playing"
  /\ brd' = "ready"
  /\ UNCHANGED <<test, pt, loaded, stopOf, stopped, mx, th, claim, res, covered, manual, calls, faults>>

-----------------------------------------------------------------------------
Step(x) ==
  \/ x \in Workers /\ _run_all(x)
  \/ x \in MaxTests /\ _run(x)
  \/ /\ x \in Handlers
     /\ \/ start_write(x) \/ pause_write(x) \/ abort_pop(x) \/ abort_mute(x) \/ abort_write(x)
        \/ measured(x) \/ complete(x)
        \/ \E w \in Workers : spawn(x, w)
        \/ execute_point(x)

Request ==
  \/ \E t \in Tests :
       \/ \E s \in Settings : create(t, s)
       \/ \E h \in Handlers :
            \/ start(h, t) \/ pause(h, t) \/ abort(h, t)
            \/ \E i \in Points : execute(h, t, i) \/ record_measurement(h, t, i)
  \/ \E m \in MaxTests : max_length_abort(m) \/ \E dry \in BOOLEAN : max_length_start(m, dry)

Next == Request \/ (\E x \in Threads : Step(x)) \/ run_ends \/ playback_ends

Spec == Init /\ [][Next]_vars

-----------------------------------------------------------------------------
TypeOK ==
  /\ test \in [Tests -> [state : {"none", "DRAFT", "RUNNING", "PAUSED", "COMPLETED", "FAILED", "ABORTED"},
                         cur : 0..N, set : Settings]]
  /\ pt \in [PointRuns -> {"PENDING", "RUNNING", "READY", "FAILED", "MEASURED"}]
  /\ loaded \in [Tests -> PointRuns \cup {None}]
  /\ stopOf \in [Tests -> Workers \cup {None}]
  /\ stopped \subseteq Workers
  /\ mx \in [MaxTests -> {"none", "PENDING", "UPLOADING", "COMPLETED", "FAILED", "ABORTED"}]
  /\ \A x \in Threads : th[x].t \in Tests \cup {None} /\ th[x].i \in 0..N
  /\ claim \in PointRuns \cup {None}
  /\ brd \in {"idle", "ready", "wait_trigger", "playing"}
  /\ covered \subseteq PointRuns /\ manual \subseteq Tests
  /\ calls \in 0..MaxCalls /\ faults \in 0..MaxFaults

\* A test is COMPLETED only when each of its points has been executed or
\* measured, through any number of pauses and resumes, also by two workers at
\* once; unless a client moved the current point by executing one itself.
CompletedMeansCovered ==
  \A t \in Tests :
    (test[t].state = "COMPLETED" /\ t \notin manual)
      => \A i \in Points : <<t, i>> \in covered

\* The threads that are about to deal with a waveform that plays.
Handling(x) == th[x].pc \in {"settled", "unload_mute", "abort_mute"}

\* As long as no call has failed, a board that plays is one that abort can
\* stop: some test remembers the run, or a thread is about to mute it.
PlayingIsRemembered ==
  (brd = "playing" /\ faults = 0)
     => (\E t \in Tests : loaded[t] # None) \/ (\E x \in Threads : Handling(x))

\* The threads that are inside execute_point with the point marked RUNNING.
Executing(x) ==
  th[x].pc \in {"unload", "unload_mute", "configure", "submit", "wait", "play", "settled", "forget",
               "ready", "failed"}

\* A point shown RUNNING is being executed and will get a result, whichever
\* threads execute it; a max-length test shown in progress has its worker.
RunningHasThread ==
  /\ \A r \in PointRuns : pt[r] = "RUNNING" => \E x \in Threads : Executing(x) /\ RunOf(x) = r
  /\ \A m \in MaxTests : mx[m] \in {"PENDING", "UPLOADING"} => ~At(m, "end")
=============================================================================
