------------------------- MODULE PlaybackController -------------------------
(***************************************************************************)
(* The DAC-domain admission FSM, waveform_playback_controller.v.  One      *)
(* Clock(in) step is one rising edge of clk with rst_n high; in is the     *)
(* record of the input wires sampled at that edge.  The command wires are  *)
(* decoded from one mailbox word, so at most one of them is high: in.cmd.  *)
(* beat_valid && beat_ready is in.beat.                                    *)
(*                                                                         *)
(* loop_count is the descriptor register of waveform_playback_path.v that  *)
(* feeds this block (descriptor_loop_count_dac): in.record is the loop     *)
(* count of a record at the output of the descriptor FIFO, 0 without one.  *)
(*                                                                         *)
(* History: launched and passes say whether a PLAY or a trigger started    *)
(* the current run and how many passes of it have ended; current says      *)
(* whether loop_count belongs to the last upload.                          *)
(***************************************************************************)
EXTENDS Naturals

CONSTANTS CountMod,  \* modulus of the 32-bit counters, 2^32 in the code
          Loops      \* loop counts a descriptor may carry

ASSUME CountModAssumption == CountMod \in Nat /\ CountMod > 1
ASSUME LoopsAssumption == Loops \subseteq 1..(CountMod - 1)

VARIABLES state, play_pending, loop_restart, loop_position,
          trigger_seen_count, trigger_dropped_count, trigger_fire_count,
          loop_count, launched, passes, current

regs     == <<state, play_pending, loop_restart, loop_position>>
counters == <<trigger_seen_count, trigger_dropped_count, trigger_fire_count>>
history  == <<launched, passes>>
ctlVars  == <<regs, counters, loop_count, history, current>>
admissionVars == <<regs, loop_count, history, current>>

States == {"IDLE", "UPLOAD", "READY", "PREFETCH", "WAIT_TRIGGER",
           "PLAYING", "DRAINING", "DONE", "ERROR"}
Commands == {"none", "begin", "commit", "play", "pause", "stop", "abort"}

Inputs == [cmd : Commands, trigger_event : BOOLEAN, prefetch_done : BOOLEAN,
           fifo_safe : BOOLEAN, fifo_empty : BOOLEAN, axi_error : BOOLEAN,
           beat : BOOLEAN, beat_last : BOOLEAN, record : Loops \cup {0}]

-----------------------------------------------------------------------------
dac_gate == state = "PLAYING"

stream_fire(in) == state = "PLAYING" /\ in.beat

active_fault(in) ==
  \/ /\ state \in {"PREFETCH", "WAIT_TRIGGER", "PLAYING", "DRAINING"}
     /\ in.axi_error
  \/ state = "PLAYING" /\ in.fifo_empty
  \/ state = "WAIT_TRIGGER" /\ (~in.fifo_safe \/ in.fifo_empty)

\* Admission is the transition itself: a trigger that loses to a command or
\* to a fault on the same edge is dropped.
trigger_admission(in) ==
  /\ state = "WAIT_TRIGGER"
  /\ in.trigger_event
  /\ in.cmd \notin {"abort", "begin", "stop", "pause"}
  /\ ~active_fault(in)

Inc(n) == (n + 1) % CountMod

\* Variant: a trigger is a drop only outside WAIT_TRIGGER.
CountTriggerByState(in) ==
  IF in.trigger_event
  THEN /\ trigger_seen_count' = Inc(trigger_seen_count)
       /\ trigger_fire_count' =
            IF trigger_admission(in) THEN Inc(trigger_fire_count) ELSE trigger_fire_count
       /\ trigger_dropped_count' =
            IF state # "WAIT_TRIGGER" THEN Inc(trigger_dropped_count)
            ELSE trigger_dropped_count
  ELSE UNCHANGED counters

\* Variant: a trigger in WAIT_TRIGGER counts as fired whatever else the edge does.
CountTriggerAsFired(in) ==
  IF in.trigger_event
  THEN /\ trigger_seen_count' = Inc(trigger_seen_count)
       /\ IF state = "WAIT_TRIGGER"
          THEN /\ trigger_fire_count' = Inc(trigger_fire_count)
               /\ UNCHANGED trigger_dropped_count
          ELSE /\ trigger_dropped_count' = Inc(trigger_dropped_count)
               /\ UNCHANGED trigger_fire_count
  ELSE UNCHANGED counters

CountTrigger(in) ==
  IF in.trigger_event
  THEN /\ trigger_seen_count' = Inc(trigger_seen_count)
       /\ IF trigger_admission(in)
          THEN /\ trigger_fire_count' = Inc(trigger_fire_count)
               /\ UNCHANGED trigger_dropped_count
          ELSE /\ trigger_dropped_count' = Inc(trigger_dropped_count)
               /\ UNCHANGED trigger_fire_count
  ELSE UNCHANGED counters

\* The registers an edge writes; loop_restart is a one-cycle pulse.
Goto(s, pending, position, restart) ==
  /\ state' = s
  /\ play_pending' = pending
  /\ loop_position' = position
  /\ loop_restart' = restart

\* History: the run in progress is over and nothing has been launched.
NoRun == launched' = FALSE /\ passes' = 0

-----------------------------------------------------------------------------
(* The edge, by priority: ABORT, fault, BEGIN, STOP/PAUSE, then the state.  *)

Abort(in) ==
  /\ in.cmd = "abort"
  /\ Goto("IDLE", FALSE, 0, FALSE)
  /\ NoRun

Fault(in) ==
  /\ in.cmd # "abort"
  /\ active_fault(in)
  /\ Goto("ERROR", FALSE, loop_position, FALSE)
  /\ NoRun

Begin(in) ==
  /\ in.cmd = "begin"
  /\ ~active_fault(in)
  /\ Goto("UPLOAD", FALSE, 0, FALSE)
  /\ NoRun

StopUpload(in) ==
  /\ in.cmd = "stop"
  /\ state = "UPLOAD"
  /\ Goto("IDLE", FALSE, 0, FALSE)
  /\ NoRun

Stoppable == {"READY", "PREFETCH", "WAIT_TRIGGER", "PLAYING", "DRAINING", "DONE"}

StopOrPause(in) ==
  /\ in.cmd \in {"stop", "pause"}
  /\ state \in Stoppable
  /\ ~active_fault(in)
  /\ Goto("READY", FALSE, 0, FALSE)
  /\ NoRun

\* No higher-priority branch takes the edge: the case statement runs.
CaseEdge(in) ==
  /\ in.cmd \notin {"abort", "begin"}
  /\ ~active_fault(in)
  /\ in.cmd = "stop" => state \notin Stoppable \cup {"UPLOAD"}
  /\ in.cmd = "pause" => state \notin Stoppable

Commit(in) ==
  /\ state = "UPLOAD"
  /\ in.cmd = "commit"
  /\ Goto("PREFETCH", FALSE, 0, FALSE)
  /\ NoRun

PlayStopped(in) ==
  /\ state \in {"READY", "DONE"}
  /\ in.cmd = "play"
  /\ Goto("PREFETCH", TRUE, 0, TRUE)
  /\ launched' = TRUE
  /\ passes' = 0

\* Variant: a trigger that arrives during PREFETCH is kept as a pending PLAY.
PrefetchQueuesTrigger(in) ==
  LET go == play_pending \/ in.cmd = "play" \/ in.trigger_event IN
  /\ state = "PREFETCH"
  /\ IF in.prefetch_done /\ in.fifo_safe
     THEN Goto(IF go THEN "PLAYING" ELSE "WAIT_TRIGGER", FALSE, loop_position, FALSE)
     ELSE Goto("PREFETCH", go, loop_position, FALSE)
  /\ launched' = (launched \/ in.cmd = "play")
  /\ UNCHANGED passes

Prefetch(in) ==
  LET go == play_pending \/ in.cmd = "play" IN
  /\ state = "PREFETCH"
  /\ IF in.prefetch_done /\ in.fifo_safe
     THEN Goto(IF go THEN "PLAYING" ELSE "WAIT_TRIGGER", FALSE, loop_position, FALSE)
     ELSE Goto("PREFETCH", go, loop_position, FALSE)
  /\ launched' = (launched \/ in.cmd = "play")
  /\ UNCHANGED passes

OpenGate(in) ==
  /\ state = "WAIT_TRIGGER"
  /\ trigger_admission(in) \/ in.cmd = "play"
  /\ Goto("PLAYING", FALSE, loop_position, FALSE)
  /\ launched' = TRUE
  /\ UNCHANGED passes

\* Variant: one pass too many.
LastBeatExtraPass(in) ==
  /\ stream_fire(in)
  /\ in.beat_last
  /\ IF loop_count > 1 /\ Inc(loop_position) <= loop_count
     THEN /\ Goto("PREFETCH", TRUE, Inc(loop_position), TRUE)
          /\ UNCHANGED launched
     ELSE /\ Goto("DRAINING", play_pending, 0, FALSE)
          /\ launched' = FALSE
  /\ passes' = passes + 1

\* The last beat of a pass: another pass, or the end of the run.
LastBeat(in) ==
  /\ stream_fire(in)
  /\ in.beat_last
  /\ IF loop_count > 1 /\ Inc(loop_position) < loop_count
     THEN /\ Goto("PREFETCH", TRUE, Inc(loop_position), TRUE)
          /\ UNCHANGED launched
     ELSE /\ Goto("DRAINING", play_pending, 0, FALSE)
          /\ launched' = FALSE
  /\ passes' = passes + 1

Drained(in) ==
  /\ state = "DRAINING"
  /\ Goto("DONE", play_pending, loop_position, FALSE)
  /\ UNCHANGED history

\* Every other edge only lets the loop_restart pulse fall.
Hold(in) ==
  /\ \/ state \in {"IDLE", "ERROR"}
     \/ state = "UPLOAD" /\ in.cmd # "commit"
     \/ state \in {"READY", "DONE"} /\ in.cmd # "play"
     \/ state = "WAIT_TRIGGER" /\ ~trigger_admission(in) /\ in.cmd # "play"
     \/ state = "PLAYING" /\ ~(in.beat /\ in.beat_last)
  /\ Goto(state, play_pending, loop_position, FALSE)
  /\ UNCHANGED history

Case(in) ==
  /\ CaseEdge(in)
  /\ \/ Commit(in) \/ PlayStopped(in) \/ Prefetch(in) \/ OpenGate(in)
     \/ LastBeat(in) \/ Drained(in) \/ Hold(in)

\* The descriptor register on the same edge: ABORT wins over a record.
TakeDescriptor(in) ==
  /\ loop_count' = IF in.cmd = "abort" THEN 0
                   ELSE IF in.record # 0 THEN in.record ELSE loop_count
  /\ current' = IF in.cmd \in {"abort", "begin"} THEN FALSE
                ELSE IF in.record # 0 THEN TRUE ELSE current

Transition(in) ==
  \/ Abort(in) \/ Fault(in) \/ Begin(in) \/ StopUpload(in)
  \/ StopOrPause(in) \/ Case(in)

\* The edge without the counters, which nothing outside this block reads.
Admission(in) == TakeDescriptor(in) /\ Transition(in)

Clock(in) == CountTrigger(in) /\ Admission(in)

AdmissionInit ==
  /\ state = "IDLE"
  /\ play_pending = FALSE
  /\ loop_restart = FALSE
  /\ loop_position = 0
  /\ loop_count = 0
  /\ launched = FALSE
  /\ passes = 0
  /\ current = FALSE

Init ==
  /\ AdmissionInit
  /\ trigger_seen_count = 0
  /\ trigger_dropped_count = 0
  /\ trigger_fire_count = 0

\* Environment.  An upload sends one record; it may reach the DAC domain a
\* little after its COMMIT but well inside the settle window that delays the
\* prefetch_done that ends PREFETCH.
Feed(in) ==
  /\ in.record # 0 => ~current
  /\ state = "PREFETCH" /\ in.prefetch_done => current

Edge == \E in \in Inputs : Feed(in) /\ Clock(in)

Spec == Init /\ [][Edge]_ctlVars

\* What the playback path implements: the controller without its counters.
AdmissionEdge == \E in \in Inputs : Feed(in) /\ Admission(in)

AdmissionSpec == AdmissionInit /\ [][AdmissionEdge]_admissionVars

-----------------------------------------------------------------------------
TypeOK ==
  /\ state \in States
  /\ play_pending \in BOOLEAN
  /\ loop_restart \in BOOLEAN
  /\ loop_position \in 0..(CountMod - 1)
  /\ trigger_seen_count \in 0..(CountMod - 1)
  /\ trigger_dropped_count \in 0..(CountMod - 1)
  /\ trigger_fire_count \in 0..(CountMod - 1)
  /\ loop_count \in 0..(CountMod - 1)
  /\ launched \in BOOLEAN
  /\ passes \in 0..CountMod
  /\ current \in BOOLEAN

\* The DAC gate is open only during a run that a software PLAY, or a trigger
\* that arrived while the controller was waiting, has launched since the last
\* COMMIT, STOP, PAUSE, fault or completed run.  A trigger seen in any other
\* state is never kept for later ("an external event is never queued").
GateNeedsLaunch == dac_gate => launched

\* A run that reaches DRAINING or DONE has played exactly loop_count passes,
\* the first included; while it runs it has played loop_position of them, and
\* the gate opens only for a pass that is still owed.
RunIsLoopCountPasses ==
  /\ state \in {"DRAINING", "DONE"} => passes = loop_count
  /\ state \in {"PREFETCH", "WAIT_TRIGGER", "PLAYING"} => passes = loop_position
  /\ state \in {"WAIT_TRIGGER", "PLAYING"} => passes < loop_count

\* Every trigger seen is a launch or a drop, also when the counters wrap.
CountsAddUp ==
  trigger_seen_count = (trigger_dropped_count + trigger_fire_count) % CountMod

\* trigger_fire_count moves only on an edge that takes a waiting controller into
\* PLAYING, never for a trigger that loses to ABORT, BEGIN, STOP, PAUSE or a
\* fault on the same edge.
FireIsLaunch ==
  [][trigger_fire_count' # trigger_fire_count =>
       state = "WAIT_TRIGGER" /\ state' = "PLAYING"]_ctlVars

\* Every counted trigger is accounted for once, as the launch it was or as a
\* drop, whatever else happens on its edge and also when the 32-bit counters
\* wrap.
TriggersAccounted == []CountsAddUp /\ FireIsLaunch
=============================================================================
