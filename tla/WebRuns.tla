------------------------------ MODULE WebRuns ------------------------------
(***************************************************************************)
(* RunCoordinator of webapp/controller.py with the RunStore it writes and  *)
(* the BoardGateway calls that start and stop playback.  A thread is the   *)
(* worker of a run (_execute, started by create) or an API handler.  A     *)
(* step is one call on a board, which the board's control lock makes       *)
(* atomic, or one SQLite transaction; any board call may fail, and a PLAY  *)
(* or STOP may take effect although its answer is lost.                    *)
(*                                                                         *)
(* A thread is [prog, pc, r, i]: prog is the method it runs, r the run and *)
(* i the index in the list of boards that a loop over boards has reached.  *)
(*                                                                         *)
(* The board is external: image is the set of runs whose data its DDR      *)
(* holds, sess the session of the descriptor, st its playback state and by *)
(* the run whose PLAY started it.                                          *)
(*                                                                         *)
(* History: dropped holds the runs that abort or _fault has written.       *)
(***************************************************************************)
EXTENDS Naturals, Sequences, FiniteSets

CONSTANTS Boards, Runs, Handlers,
          NoRun,       \* no run: a free board, an idle board
          OneSession,  \* the session every fresh Dr47Device allocates first
          Master,      \* the board whose target profile is the master
          Requests,    \* requests the clients may post
          MaxCrashes,  \* bound: server restarts
          MaxCalls     \* bound: calls on the runs, apart from create

ASSUME NoRunAssumption == NoRun \notin Runs
ASSUME OneSessionAssumption == OneSession \notin Runs \cup {NoRun}
ASSUME ThreadsAssumption == Runs \cap Handlers = {}
ASSUME BoundsAssumption == MaxCrashes \in Nat /\ MaxCalls \in Nat
\* RunCreateRequest wants at least one job.
ASSUME RequestsAssumption ==
  Requests \subseteq [jobs : Seq(Boards) \ {<<>>}, dry_run : BOOLEAN, rfdc : BOOLEAN,
                      mode : {"upload", "one_shot", "continuous"}]

VARIABLES simulation, row, req, claim, th, brd, dropped, crashes, calls

bounds == <<crashes, calls>>
vars == <<simulation, row, req, claim, th, brd, dropped, bounds>>

RunStates == {"none", "QUEUED", "GENERATING", "UPLOADING", "READY", "ARMED",
              "RUNNING", "DONE", "FAULT", "ABORTED"}
\* PREFETCH counts as wait_trigger, DRAINING as playing, DONE as ready: no call
\* below tells them apart.
BoardStates == {"idle", "upload", "ready", "wait_trigger", "playing"}
Threads == Runs \cup Handlers
NoThread == [prog |-> "none", pc |-> "end", r |-> NoRun, i |-> 1]
NoRequest == [jobs |-> <<>>, dry_run |-> FALSE, rfdc |-> FALSE, mode |-> "upload"]

Init ==
  /\ simulation \in BOOLEAN
  /\ row = [r \in Runs |-> [state |-> "none", loaded |-> FALSE, sessions |-> {}]]
  /\ req = [r \in Runs |-> NoRequest]
  /\ claim = [b \in Boards |-> NoRun]
  /\ th = [t \in Threads |-> NoThread]
  /\ brd = [b \in Boards |-> [image |-> {}, sess |-> NoRun, st |-> "idle", by |-> NoRun]]
  /\ crashes = 0 /\ calls = 0
  /\ dropped = {}

-----------------------------------------------------------------------------
(* RunStore: every method is one unconditional UPDATE.                      *)

update(r, s) == row' = [row EXCEPT ![r].state = s]

set_waveform_sessions(r, b) == row' = [row EXCEPT ![r].sessions = @ \cup {b}]

complete_loaded(r, s) == row' = [row EXCEPT ![r].loaded = TRUE, ![r].state = s]

\* complete_unloaded and finish_one_shot are the same statement.
complete_unloaded(r) == row' = [row EXCEPT ![r].loaded = FALSE, ![r].state = "DONE"]

finish_one_shot(r) == complete_unloaded(r)

Orphaned == {"QUEUED", "GENERATING", "UPLOADING", "READY", "ARMED", "RUNNING"}

\* Variant: READY, the state a one-shot run plays in, is not recovered.
recover_orphaned_not_ready ==
  row' = [r \in Runs |-> IF row[r].state \in Orphaned \ {"READY"}
                         THEN [row[r] EXCEPT !.state = "ABORTED"] ELSE row[r]]

recover_orphaned ==
  row' = [r \in Runs |-> IF row[r].state \in Orphaned
                         THEN [row[r] EXCEPT !.state = "ABORTED"] ELSE row[r]]

-----------------------------------------------------------------------------
(* Helpers of RunCoordinator.                                               *)

Range(s) == {s[k] : k \in 1..Len(s)}

BoardIds(r) == Range(req[r].jobs)

\* A synchronized request starts the master only.
_trigger_board_ids(r) == IF Len(req[r].jobs) = 2 THEN Master ELSE req[r].jobs[1]

_release_group(r) == claim' = [b \in Boards |-> IF claim[b] = r THEN NoRun ELSE claim[b]]

\* The session the upload of r opens on a board.  A live upload goes through
\* a Dr47Device of its own, whose session counter starts at one; the
\* simulation derives the session from the run.
Session(r) == IF simulation THEN r ELSE OneSession

\* Variant: the board takes the command of any session.
_waveform_session_any(r, b) == b \in row[r].sessions

\* _waveform_session(record, b) returns a session that the board accepts.
_waveform_session(r, b) == b \in row[r].sessions /\ brd[b].sess = Session(r)

_require_loaded(r) == row[r].state = "DONE" /\ row[r].loaded /\ ~req[r].dry_run

-----------------------------------------------------------------------------
(* BoardGateway: a call on board b for run r, with its outcome ok.          *)

arm(r, b, ok) ==
  /\ ok => _waveform_session(r, b) /\ brd[b].st = "wait_trigger"
  /\ UNCHANGED brd

\* Live PLAY is admitted from READY too, and its STATUS may come too early or
\* be lost: ok = FALSE then says nothing about the board.
manual_trigger(r, b, ok) ==
  LET admitted == /\ _waveform_session(r, b)
                  /\ brd[b].st \in (IF simulation THEN {"wait_trigger"}
                                    ELSE {"wait_trigger", "ready"})
  IN /\ ok => admitted
     /\ \/ /\ admitted
           /\ brd' = [brd EXCEPT ![b].st = "playing", ![b].by = r]
        \/ /\ ~ok
           /\ UNCHANGED brd

Stopped(st) == CASE st = "upload" -> "idle" [] st = "idle" -> "idle" [] OTHER -> "ready"

mute(r, b, ok) ==
  LET admitted == _waveform_session(r, b)
  IN /\ ok => admitted
     /\ \/ /\ admitted
           /\ brd' = [brd EXCEPT ![b].st = Stopped(@), ![b].by = NoRun]
        \/ /\ ~ok
           /\ UNCHANGED brd

-----------------------------------------------------------------------------
(* Control of a thread.                                                     *)

Goto(t, pc) ==
  th' = [th EXCEPT ![t] = IF pc = "end" THEN NoThread ELSE [@ EXCEPT !.pc = pc, !.i = 1]]
At(t, pc) == th[t].pc = pc
Alive(t) == th[t].pc # "end"

\* The board that the loop of thread t has reached, and the step past it.
Targets(t) == req[th[t].r].jobs
Board(t) == Targets(t)[th[t].i]

NextBoard(t, pc) ==
  IF th[t].i < Len(Targets(t)) THEN th' = [th EXCEPT ![t].i = @ + 1] ELSE Goto(t, pc)

-----------------------------------------------------------------------------
(* create: claim every board of the group under the lock, prepare, insert   *)
(* the row and start the worker.                                            *)

\* Run identifiers are used once; which one is new does not matter.
NewRun == CHOOSE r \in Runs : req[r] = NoRequest

\* Variant: only the first board of the group is looked at.
create_first_board_only(h, r, q) ==
  /\ ~Alive(h)
  /\ req[r] = NoRequest /\ r = NewRun
  /\ claim[q.jobs[1]] = NoRun
  /\ claim' = [b \in Boards |-> IF b \in Range(q.jobs) THEN r ELSE claim[b]]
  /\ req' = [req EXCEPT ![r] = q]
  /\ th' = [th EXCEPT ![h] = [prog |-> "create", pc |-> "prepare", r |-> r, i |-> 1]]
  /\ UNCHANGED <<simulation, row, brd, dropped, bounds>>

create(h, r, q) ==
  /\ ~Alive(h)
  /\ req[r] = NoRequest /\ r = NewRun
  /\ \A b \in Range(q.jobs) : claim[b] = NoRun
  /\ claim' = [b \in Boards |-> IF b \in Range(q.jobs) THEN r ELSE claim[b]]
  /\ req' = [req EXCEPT ![r] = q]
  /\ th' = [th EXCEPT ![h] = [prog |-> "create", pc |-> "prepare", r |-> r, i |-> 1]]
  /\ UNCHANGED <<simulation, row, brd, dropped, bounds>>

\* The prepare callback of a live single-board run with an RFDC configuration
\* stops whatever the board plays, by the board's own session, then applies
\* the configuration; any failure gives the claim back.
prepare(h) ==
  LET r == th[h].r
      needed == ~req[r].dry_run /\ req[r].rfdc /\ Len(req[r].jobs) = 1
      b == req[r].jobs[1]
      muted == IF brd[b].st \in {"wait_trigger", "playing"}
               THEN [brd EXCEPT ![b].st = "ready", ![b].by = NoRun] ELSE brd
  IN /\ At(h, "prepare")
     /\ \/ /\ brd' = IF needed THEN muted ELSE brd
           /\ Goto(h, "insert")
           /\ UNCHANGED claim
        \/ /\ needed
           /\ brd' \in {brd, muted}
           /\ Goto(h, "end")
           /\ _release_group(r)
     /\ UNCHANGED <<simulation, row, req, dropped, bounds>>

insert(h) ==
  LET r == th[h].r IN
  /\ At(h, "insert")
  /\ update(r, "QUEUED")
  /\ th' = [th EXCEPT ![h] = NoThread,
                      ![r] = [prog |-> "worker", pc |-> "generate", r |-> r, i |-> 1]]
  /\ UNCHANGED <<simulation, req, claim, brd, dropped, bounds>>

-----------------------------------------------------------------------------
(* The worker, _execute.  Every step of it may raise, which leads to _fault. *)

generate(w) ==
  /\ At(w, "generate")
  /\ update(w, "GENERATING")
  /\ Goto(w, "sync")
  /\ UNCHANGED <<simulation, req, claim, brd, dropped, bounds>>

\* A synchronized run waits for both boards' clock and converter flags, whether
\* or not it is a dry run; a flag that does not come in time raises.
sync_two_boards(w) ==
  /\ At(w, "sync")
  /\ \/ Goto(w, "rfdc")
     \/ Len(req[w].jobs) = 2 /\ Goto(w, "fault")
  /\ UNCHANGED <<simulation, row, req, claim, brd, dropped, bounds>>

\* RFDC_APPLY for every job that brings a configuration, in a dry run too.
_apply_job_rfdc(w) ==
  /\ At(w, "rfdc")
  /\ \/ Goto(w, "upload")
     \/ req[w].rfdc /\ Goto(w, "fault")
  /\ UNCHANGED <<simulation, row, req, claim, brd, dropped, bounds>>

Offline(w) == simulation \/ req[w].dry_run

\* UPLOADING, artifact generation and BEGIN with the first DATA packets.
upload(w) ==
  LET b == Board(w) IN
  /\ At(w, "upload")
  /\ IF req[w].dry_run THEN UNCHANGED row ELSE update(w, "UPLOADING")
  /\ \/ /\ brd' = IF Offline(w) THEN brd
                  ELSE [brd EXCEPT ![b] = [image |-> {w}, sess |-> Session(w),
                                           st |-> "upload", by |-> NoRun]]
        /\ th' = [th EXCEPT ![w].pc = "commit"]
     \/ Goto(w, "fault") /\ UNCHANGED brd
  /\ UNCHANGED <<simulation, req, claim, dropped, bounds>>

\* The last DATA packets and COMMIT, refused when the session or the state is
\* not the one BEGIN made.
commit(w) ==
  LET b == Board(w) IN
  /\ At(w, "commit")
  /\ \/ /\ Offline(w)
        /\ th' = [th EXCEPT ![w].pc = "record"]
        /\ UNCHANGED brd
     \/ /\ ~Offline(w)
        /\ brd[b].sess = Session(w) /\ brd[b].st = "upload"
        /\ brd' = [brd EXCEPT ![b].image = @ \cup {w}, ![b].st = "wait_trigger"]
        /\ \/ th' = [th EXCEPT ![w].pc = "record"]
           \/ Goto(w, "fault")
     \/ Goto(w, "fault") /\ UNCHANGED brd
  /\ UNCHANGED <<simulation, row, req, claim, dropped, bounds>>

\* Where the worker goes once every board has its image.
AfterUpload(w) == IF req[w].dry_run \/ req[w].mode = "upload" THEN "release" ELSE "loaded"

\* The session is persisted, then the board must answer a refresh.
_record_waveform_session(w) ==
  LET b == Board(w) IN
  /\ At(w, "record")
  /\ IF req[w].dry_run THEN UNCHANGED row ELSE set_waveform_sessions(w, b)
  /\ brd' = IF simulation /\ ~req[w].dry_run
            THEN [brd EXCEPT ![b] = [image |-> {w}, sess |-> w, st |-> "wait_trigger", by |-> NoRun]]
            ELSE brd
  /\ \/ IF th[w].i < Len(req[w].jobs)
        THEN th' = [th EXCEPT ![w].pc = "upload", ![w].i = @ + 1]
        ELSE Goto(w, AfterUpload(w))
     \/ ~Offline(w) /\ Goto(w, "fault")
  /\ UNCHANGED <<simulation, req, claim, dropped, bounds>>

\* A one-shot run is READY while it plays by itself.
loaded(w) ==
  /\ At(w, "loaded")
  /\ complete_loaded(w, "READY")
  /\ Goto(w, "arm")
  /\ UNCHANGED <<simulation, req, claim, brd, dropped, bounds>>

\* After PLAY: a continuous run stays RUNNING and keeps its boards.
played(w) ==
  /\ At(w, "played")
  /\ IF req[w].mode = "continuous"
     THEN update(w, "RUNNING") /\ Goto(w, "end")
     ELSE UNCHANGED row /\ Goto(w, "mute")
  /\ UNCHANGED <<simulation, req, claim, brd, dropped, bounds>>

\* Variant: the row is completed first and the boards are released after it.
release_after_done(w) ==
  /\ At(w, "release")
  /\ complete_unloaded(w)
  /\ Goto(w, "finish")
  /\ UNCHANGED <<simulation, req, claim, brd, dropped, bounds>>

\* The boards are released before DONE is written.
release(w) ==
  /\ At(w, "release")
  /\ _release_group(w)
  /\ Goto(w, "finish")
  /\ UNCHANGED <<simulation, row, req, brd, dropped, bounds>>

finish(w) ==
  /\ At(w, "finish")
  /\ IF req[w].dry_run THEN complete_unloaded(w)
     ELSE IF req[w].mode = "upload" THEN complete_loaded(w, "DONE") ELSE finish_one_shot(w)
  /\ Goto(w, "end")
  /\ UNCHANGED <<simulation, req, claim, brd, dropped, bounds>>

-----------------------------------------------------------------------------
(* Loops over the boards of a run, by the worker and by the API handlers.   *)

\* The method that thread t starts on run r once its guard has held.
Call(t, prog, pc, r) ==
  /\ ~Alive(t)
  /\ calls < MaxCalls
  /\ calls' = calls + 1
  /\ th' = [th EXCEPT ![t] = [prog |-> prog, pc |-> pc, r |-> r, i |-> 1]]
  /\ UNCHANGED <<simulation, row, req, claim, brd, dropped, crashes>>

call_arm(h, r) == row[r].state = "READY" /\ Call(h, "arm", "arm", r)

call_start(h, r) == row[r].state = "ARMED" /\ Call(h, "start", "play", r)

call_abort(h, r) ==
  /\ row[r].state # "none"
  /\ Call(h, "abort", IF req[r].dry_run THEN "aborted" ELSE "mute", r)

call_arm_loaded(h, r) == _require_loaded(r) /\ Call(h, "arm_loaded", "arm", r)

call_trigger_loaded(h, r) == _require_loaded(r) /\ Call(h, "trigger_loaded", "play", r)

call_play_loaded(h, r) == _require_loaded(r) /\ Call(h, "play_loaded", "arm", r)

call_abort_loaded(h, r) == _require_loaded(r) /\ Call(h, "abort_loaded", "mute", r)

\* Where an exception leads: arm, start and the worker fault the run, the
\* actions on a loaded waveform only record it.
AfterRaise(t) == IF th[t].prog \in {"worker", "arm", "start"} THEN "fault" ELSE "end"

AfterArm(prog) == CASE prog = "arm" -> "armed"
                    [] prog = "arm_loaded" -> "end"
                    [] prog = "play_loaded" -> "recheck"
                    [] OTHER -> "play"

ArmStep(t) ==
  /\ At(t, "arm")
  /\ \E ok \in BOOLEAN :
       /\ arm(th[t].r, Board(t), ok)
       /\ IF ok THEN NextBoard(t, AfterArm(th[t].prog)) ELSE Goto(t, AfterRaise(t))
  /\ UNCHANGED <<simulation, row, req, claim, dropped, bounds>>

\* play_loaded calls trigger_loaded, which looks at the run again.
recheck(h) ==
  /\ At(h, "recheck")
  /\ Goto(h, IF _require_loaded(th[h].r) THEN "play" ELSE "end")
  /\ UNCHANGED <<simulation, row, req, claim, brd, dropped, bounds>>

AfterPlay(prog) == CASE prog = "worker" -> "played"
                     [] prog = "start" -> "running"
                     [] OTHER -> "end"

\* A single run has one board and a synchronized one triggers its master.
PlayStep(t) ==
  /\ At(t, "play")
  /\ \E ok \in BOOLEAN :
       /\ manual_trigger(th[t].r, _trigger_board_ids(th[t].r), ok)
       /\ Goto(t, IF ok THEN AfterPlay(th[t].prog) ELSE AfterRaise(t))
  /\ UNCHANGED <<simulation, row, req, claim, dropped, bounds>>

AfterMute(prog) == CASE prog = "worker" -> "release"
                     [] prog = "abort" -> "aborted"
                     [] OTHER -> "end"

\* abort and abort_loaded go on after a failed STOP, the worker faults.
MuteStep(t) ==
  /\ At(t, "mute")
  /\ \E ok \in BOOLEAN :
       /\ mute(th[t].r, Board(t), ok)
       /\ IF ok \/ th[t].prog # "worker" THEN NextBoard(t, AfterMute(th[t].prog)) ELSE Goto(t, AfterRaise(t))
  /\ UNCHANGED <<simulation, row, req, claim, dropped, bounds>>

\* The state a handler writes after its loop, whatever the state is by then.
armed(h) ==
  /\ At(h, "armed")
  /\ update(th[h].r, "ARMED")
  /\ Goto(h, "end")
  /\ UNCHANGED <<simulation, req, claim, brd, dropped, bounds>>

running(h) ==
  /\ At(h, "running")
  /\ update(th[h].r, "RUNNING")
  /\ Goto(h, "end")
  /\ UNCHANGED <<simulation, req, claim, brd, dropped, bounds>>

aborted(h) ==
  /\ At(h, "aborted")
  /\ update(th[h].r, "ABORTED")
  /\ Goto(h, "release_aborted")
  /\ dropped' = dropped \cup {th[h].r}
  /\ UNCHANGED <<simulation, req, claim, brd, bounds>>

release_aborted(h) ==
  /\ At(h, "release_aborted")
  /\ _release_group(th[h].r)
  /\ Goto(h, "end")
  /\ UNCHANGED <<simulation, row, req, brd, dropped, bounds>>

-----------------------------------------------------------------------------
(* _fault: the state first, a best-effort STOP of every board, the release. *)

_fault(t) ==
  /\ At(t, "fault")
  /\ update(th[t].r, "FAULT")
  /\ Goto(t, IF req[th[t].r].dry_run THEN "release_fault" ELSE "mute_fault")
  /\ dropped' = dropped \cup {th[t].r}
  /\ UNCHANGED <<simulation, req, claim, brd, bounds>>

mute_fault(t) ==
  /\ At(t, "mute_fault")
  /\ \E ok \in BOOLEAN : mute(th[t].r, Board(t), ok)
  /\ NextBoard(t, "release_fault")
  /\ UNCHANGED <<simulation, row, req, claim, dropped, bounds>>

\* Variant: a fault leaves the boards claimed.
release_fault_keeps(t) ==
  /\ At(t, "release_fault")
  /\ Goto(t, "end")
  /\ UNCHANGED <<simulation, row, req, claim, brd, dropped, bounds>>

release_fault(t) ==
  /\ At(t, "release_fault")
  /\ _release_group(th[t].r)
  /\ Goto(t, "end")
  /\ UNCHANGED <<simulation, row, req, brd, dropped, bounds>>

-----------------------------------------------------------------------------
(* The board on its own, and a restart of the server, which keeps the       *)
(* database, loses every thread and claim, and stops no board.              *)

board_step(b) ==
  /\ brd[b].st = "playing"
  /\ ~simulation
  /\ brd' = [brd EXCEPT ![b].st = "ready", ![b].by = NoRun]
  /\ UNCHANGED <<simulation, row, req, claim, th, dropped, bounds>>

restart ==
  /\ crashes < MaxCrashes
  /\ crashes' = crashes + 1
  /\ th' = [t \in Threads |-> NoThread]
  /\ claim' = [b \in Boards |-> NoRun]
  /\ recover_orphaned
  /\ brd' = IF simulation
            THEN [b \in Boards |-> [image |-> {}, sess |-> NoRun, st |-> "idle", by |-> NoRun]]
            ELSE brd
  /\ UNCHANGED <<simulation, req, dropped, calls>>

-----------------------------------------------------------------------------
_execute(w) ==
  \/ generate(w) \/ sync_two_boards(w) \/ _apply_job_rfdc(w) \/ upload(w) \/ commit(w)
  \/ _record_waveform_session(w) \/ loaded(w) \/ played(w) \/ release(w) \/ finish(w)

Step(t) ==
  \/ ArmStep(t) \/ PlayStep(t) \/ MuteStep(t)
  \/ _fault(t) \/ mute_fault(t) \/ release_fault(t)
  \/ t \in Runs /\ _execute(t)
  \/ /\ t \in Handlers
     /\ \/ prepare(t) \/ insert(t) \/ recheck(t) \/ armed(t) \/ running(t)
        \/ aborted(t) \/ release_aborted(t)

Request(h) ==
  \E r \in Runs :
    \/ \E q \in Requests : create(h, r, q)
    \/ call_arm(h, r) \/ call_start(h, r) \/ call_abort(h, r)
    \/ call_arm_loaded(h, r) \/ call_trigger_loaded(h, r)
    \/ call_play_loaded(h, r) \/ call_abort_loaded(h, r)

Next ==
  \/ \E t \in Threads : Step(t)
  \/ \E h \in Handlers : Request(h)
  \/ \E b \in Boards : board_step(b)
  \/ restart

Spec == Init /\ [][Next]_vars

-----------------------------------------------------------------------------
TypeOK ==
  /\ simulation \in BOOLEAN
  /\ row \in [Runs -> [state : RunStates, loaded : BOOLEAN, sessions : SUBSET Boards]]
  /\ req \in [Runs -> Requests \cup {NoRequest}]
  /\ claim \in [Boards -> Runs \cup {NoRun}]
  /\ DOMAIN th = Threads
  /\ \A t \in Threads :
       IF Alive(t) THEN th[t].r \in Runs /\ th[t].i \in DOMAIN req[th[t].r].jobs ELSE th[t] = NoThread
  /\ brd \in [Boards -> [image : SUBSET Runs, sess : Runs \cup {NoRun, OneSession},
                         st : BoardStates, by : Runs \cup {NoRun}]]
  /\ crashes \in 0..MaxCrashes /\ calls \in 0..MaxCalls
  /\ dropped \subseteq Runs

\* Until its own release a worker that no abort and no fault has overtaken
\* owns every board of its run, so no two such workers share a board.
WorkerOwnsBoards ==
  \A r \in Runs :
    (Alive(r) /\ r \notin dropped /\ ~At(r, "finish"))
       => \A b \in BoardIds(r) : claim[b] = r

\* A claimed board can be got back: its run has a thread that will release
\* it, or is in a state that an operator can abort.
ClaimIsRecoverable ==
  \A b \in Boards :
    claim[b] # NoRun =>
      \/ \E t \in Threads : Alive(t) /\ th[t].r = claim[b]
      \/ row[claim[b]].state \in {"ARMED", "RUNNING"}

\* A run that the store shows in progress has its worker, or the thread that
\* faults it; a restart leaves no other.
InProgressHasThread ==
  \A r \in Runs :
    row[r].state \in {"QUEUED", "GENERATING", "UPLOADING", "READY"} => Alive(r)

\* The DONE record is visible only once the boards are released.
DoneMeansReleased ==
  \A r \in Runs : row[r].state = "DONE" => \A b \in Boards : claim[b] # r

\* Nothing is left behind, whichever calls fail and whenever the server is
\* restarted: no board without a way to get it back, no run in progress that
\* nobody drives, no finished run that still has a board.
NothingStranded == ClaimIsRecoverable /\ InProgressHasThread /\ DoneMeansReleased

\* In simulation, where sessions differ, what a web action plays is the whole
\* image of its own run.
PlaysOwnImage ==
  \A b \in Boards :
    (simulation /\ brd[b].st = "playing") => brd[b].image = {brd[b].by}
=============================================================================
