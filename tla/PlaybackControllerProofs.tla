---------------------- MODULE PlaybackControllerProofs ----------------------
(***************************************************************************)
(* Invariance proofs for the blocks of the playback path: PlaybackController *)
(* for every counter width and every set of loop counts, the two crossings   *)
(* at its sides (StatusCdc for every record and every order of the two       *)
(* clocks, TriggerCdc for every guard longer than the synchronizer and every *)
(* window at most one register longer) and DdrReader for every FIFO depth,   *)
(* burst size, page size and descriptor length.                              *)
(***************************************************************************)
EXTENDS PlaybackController, StatusCdc, TriggerCdc, DdrReader, TLAPS

-----------------------------------------------------------------------------
(* Wrapping counters.                                                       *)

LEMMA ZeroInRange == 0 \in 0..(CountMod - 1) /\ 0 \in 0..CountMod
  BY CountModAssumption

LEMMA ModSmall == \A n \in 0..(CountMod - 1) : n % CountMod = n
  BY CountModAssumption

LEMMA ModOnce == \A n \in CountMod..(2 * CountMod - 1) : n % CountMod = n - CountMod
  BY CountModAssumption

LEMMA IncType == \A n \in 0..(CountMod - 1) :
    /\ Inc(n) \in 0..(CountMod - 1)
    /\ Inc(n) = IF n + 1 = CountMod THEN 0 ELSE n + 1
  BY CountModAssumption, ModSmall, ModOnce DEF Inc

-----------------------------------------------------------------------------
(* The inductive invariant.  GateNeedsLaunch alone is not inductive: leaving *)
(* PREFETCH straight into PLAYING is justified only because a retained PLAY  *)
(* (play_pending) exists in PREFETCH alone and belongs to the current run.   *)
(* RunIsLoopCountPasses needs a loop count of at least one, which belongs to *)
(* the last upload, wherever a run can be in progress; only the first        *)
(* PREFETCH of an upload may still be waiting for it.                        *)

PendingInv ==
  /\ play_pending => state = "PREFETCH"
  /\ state = "PREFETCH" => (launched <=> play_pending)

DescriptorInv ==
  /\ current => loop_count > 0
  /\ state \in {"WAIT_TRIGGER", "PLAYING", "DRAINING", "DONE"} => current
  /\ state = "PREFETCH" /\ current => passes < loop_count
  /\ state = "PREFETCH" /\ ~current => passes = 0

IInv ==
  /\ TypeOK
  /\ PendingInv
  /\ DescriptorInv
  /\ GateNeedsLaunch
  /\ RunIsLoopCountPasses
  /\ CountsAddUp

LEMMA InitIInv == Init => IInv
<1>1. (0 + 0) % CountMod = 0
  BY CountModAssumption, ModSmall
<1>2. QED
  BY <1>1, ZeroInRange
     DEF Init, AdmissionInit, IInv, TypeOK, PendingInv, DescriptorInv, GateNeedsLaunch, dac_gate,
         RunIsLoopCountPasses, CountsAddUp, States, Stoppable

\* The counters keep their type and stay balanced on every edge, whatever the
\* state machine does.
LEMMA CountStep ==
  ASSUME TypeOK, CountsAddUp, NEW in \in Inputs, CountTrigger(in)
  PROVE  /\ trigger_seen_count' \in 0..(CountMod - 1)
         /\ trigger_dropped_count' \in 0..(CountMod - 1)
         /\ trigger_fire_count' \in 0..(CountMod - 1)
         /\ CountsAddUp'
<1> DEFINE M == CountMod
           Wrap(n) == IF n < M THEN n ELSE n - M
<1>1. /\ trigger_seen_count \in 0..(M - 1)
      /\ trigger_dropped_count \in 0..(M - 1)
      /\ trigger_fire_count \in 0..(M - 1)
  BY DEF TypeOK
<1>2. \A d, f \in 0..(M - 1) : (d + f) % M = Wrap(d + f)
  <2> TAKE d, f \in 0..(M - 1)
  <2>1. CASE d + f < M
    BY <2>1, ModSmall, CountModAssumption
  <2>2. CASE ~(d + f < M)
    BY <2>2, ModOnce, CountModAssumption
  <2>3. QED
    BY <2>1, <2>2
<1>3. trigger_seen_count = Wrap(trigger_dropped_count + trigger_fire_count)
  BY <1>1, <1>2 DEF CountsAddUp
<1>4. CASE ~in.trigger_event
  BY <1>1, <1>4 DEF CountTrigger, counters, CountsAddUp
<1>5. CASE in.trigger_event /\ trigger_admission(in)
  <2>1. /\ trigger_seen_count' = Inc(trigger_seen_count)
        /\ trigger_fire_count' = Inc(trigger_fire_count)
        /\ trigger_dropped_count' = trigger_dropped_count
    BY <1>5 DEF CountTrigger
  <2>2. /\ trigger_seen_count' \in 0..(M - 1)
        /\ trigger_fire_count' \in 0..(M - 1)
        /\ trigger_dropped_count' \in 0..(M - 1)
    BY <1>1, <2>1, IncType
  <2>3. trigger_seen_count' = Wrap(trigger_dropped_count' + trigger_fire_count')
    BY <1>1, <1>3, <2>1, IncType, CountModAssumption
  <2>4. QED
    BY <1>2, <2>2, <2>3 DEF CountsAddUp
<1>6. CASE in.trigger_event /\ ~trigger_admission(in)
  <2>1. /\ trigger_seen_count' = Inc(trigger_seen_count)
        /\ trigger_dropped_count' = Inc(trigger_dropped_count)
        /\ trigger_fire_count' = trigger_fire_count
    BY <1>6 DEF CountTrigger
  <2>2. /\ trigger_seen_count' \in 0..(M - 1)
        /\ trigger_fire_count' \in 0..(M - 1)
        /\ trigger_dropped_count' \in 0..(M - 1)
    BY <1>1, <2>1, IncType
  <2>3. trigger_seen_count' = Wrap(trigger_dropped_count' + trigger_fire_count')
    BY <1>1, <1>3, <2>1, IncType, CountModAssumption
  <2>4. QED
    BY <1>2, <2>2, <2>3 DEF CountsAddUp
<1>7. QED
  BY <1>4, <1>5, <1>6

\* Everything but the trigger counters.
CoreInv ==
  /\ state \in States
  /\ play_pending \in BOOLEAN
  /\ loop_restart \in BOOLEAN
  /\ loop_position \in 0..(CountMod - 1)
  /\ loop_count \in 0..(CountMod - 1)
  /\ launched \in BOOLEAN
  /\ passes \in 0..CountMod
  /\ current \in BOOLEAN
  /\ PendingInv
  /\ DescriptorInv
  /\ GateNeedsLaunch
  /\ RunIsLoopCountPasses

LEMMA CoreStep ==
  ASSUME CoreInv, NEW in \in Inputs, Feed(in), Admission(in)
  PROVE  CoreInv'
<1> USE DEF CoreInv, PendingInv, DescriptorInv, GateNeedsLaunch, dac_gate,
            RunIsLoopCountPasses, States, Stoppable, Goto
<1>a. TakeDescriptor(in)
  BY DEF Admission
<1>b. (in.record # 0 => ~current) /\ (state = "PREFETCH" /\ in.prefetch_done => current)
  BY DEF Feed
<1>c. in.record \in Loops \cup {0}
  BY DEF Inputs
<1>d. in.record \in 0..(CountMod - 1)
  <2>1. CASE in.record = 0
    BY <2>1, ZeroInRange
  <2>2. CASE in.record \in Loops
    <3>1. in.record \in 1..(CountMod - 1)
      BY <2>2, LoopsAssumption
    <3>2. QED
      BY <3>1, CountModAssumption
  <2>3. QED
    BY <1>c, <2>1, <2>2
<1>0. /\ loop_count' \in 0..(CountMod - 1) /\ current' \in BOOLEAN
      /\ current' => loop_count' > 0
      /\ in.record = 0 /\ in.cmd # "abort" => loop_count' = loop_count
      /\ in.record = 0 /\ in.cmd \notin {"abort", "begin"} => (current' <=> current)
      /\ in.record # 0 => ~current
      /\ state = "PREFETCH" /\ in.prefetch_done => current
  <2>1. CASE in.cmd = "abort"
    BY <1>a, <1>b, <2>1, ZeroInRange DEF TakeDescriptor
  <2>2. CASE in.cmd # "abort" /\ in.record # 0
    BY <1>a, <1>b, <1>d, <2>2, CountModAssumption DEF TakeDescriptor
  <2>3. CASE in.cmd # "abort" /\ in.record = 0
    BY <1>a, <1>b, <2>3 DEF TakeDescriptor
  <2>4. QED
    BY <2>1, <2>2, <2>3
<1>1. CASE Abort(in)
  BY <1>0, <1>1, ZeroInRange DEF Abort, NoRun
<1>2. CASE Fault(in)
  BY <1>0, <1>2, ZeroInRange DEF Fault, NoRun
<1>3. CASE Begin(in)
  BY <1>0, <1>3, ZeroInRange DEF Begin, NoRun
<1>4. CASE StopUpload(in)
  BY <1>0, <1>4, ZeroInRange DEF StopUpload, NoRun
<1>5. CASE StopOrPause(in)
  BY <1>0, <1>5, ZeroInRange DEF StopOrPause, NoRun
<1>6. CASE Case(in)
  <2>0. in.cmd \notin {"abort", "begin"}
    BY <1>6 DEF Case, CaseEdge
  <2>1. CASE Commit(in)
    BY <1>0, <2>0, <2>1, ZeroInRange DEF Commit, NoRun
  <2>2. CASE PlayStopped(in)
    BY <1>0, <2>0, <2>2, ZeroInRange DEF PlayStopped
  <2>3. CASE Prefetch(in)
    BY <1>0, <2>0, <2>3 DEF Prefetch
  <2>4. CASE OpenGate(in)
    BY <1>0, <2>0, <2>4 DEF OpenGate
  <2>5. CASE LastBeat(in)
    <3>1. Inc(loop_position) = loop_position + 1
      BY <2>5, IncType, CountModAssumption DEF LastBeat, stream_fire
    <3>2. state = "PLAYING" /\ passes' = passes + 1 /\ loop_count' = loop_count
      BY <1>0, <2>0, <2>5 DEF LastBeat, stream_fire
    <3>3. CASE loop_count > 1 /\ loop_position + 1 < loop_count
      <4>1. loop_position + 1 \in 0..(CountMod - 1) /\ passes + 1 \in 0..CountMod
        BY <3>2, <3>3, CountModAssumption
      <4>2. Goto("PREFETCH", TRUE, loop_position + 1, TRUE) /\ launched' = launched
        BY <2>5, <3>1, <3>3 DEF LastBeat
      <4>3. QED
        BY <1>0, <2>0, <3>2, <3>3, <4>1, <4>2
    <3>4. CASE ~(loop_count > 1 /\ loop_position + 1 < loop_count)
      <4>1. passes + 1 = loop_count /\ passes + 1 \in 0..CountMod
        BY <3>2, <3>4, CountModAssumption
      <4>2. Goto("DRAINING", play_pending, 0, FALSE) /\ launched' = FALSE
        BY <2>5, <3>1, <3>4 DEF LastBeat
      <4>3. QED
        BY <1>0, <2>0, <3>2, <4>1, <4>2, ZeroInRange
    <3>5. QED
      BY <3>3, <3>4
  <2>6. CASE Drained(in)
    BY <1>0, <2>0, <2>6 DEF Drained, history
  <2>7. CASE Hold(in)
    BY <1>0, <2>0, <2>7 DEF Hold, history
  <2>8. QED
    BY <1>6, <2>1, <2>2, <2>3, <2>4, <2>5, <2>6, <2>7 DEF Case
<1>7. QED
  BY <1>1, <1>2, <1>3, <1>4, <1>5, <1>6 DEF Admission, Transition

LEMMA StepIInv == IInv /\ [Edge]_ctlVars => IInv'
<1> SUFFICES ASSUME IInv, [Edge]_ctlVars PROVE IInv'
  OBVIOUS
<1>1. IInv <=> CoreInv /\ CountsAddUp
               /\ trigger_seen_count \in 0..(CountMod - 1)
               /\ trigger_dropped_count \in 0..(CountMod - 1)
               /\ trigger_fire_count \in 0..(CountMod - 1)
  BY DEF IInv, CoreInv, TypeOK
<1>2. CASE Edge
  <2>1. PICK in \in Inputs : Feed(in) /\ Clock(in)
    BY <1>2 DEF Edge
  <2>2. CoreInv'
    BY <1>1, <2>1, CoreStep DEF Clock
  <2>3. QED
    BY <2>1, <2>2, CountStep DEF IInv, CoreInv, TypeOK, Clock
<1>4. CASE UNCHANGED ctlVars
  BY <1>4 DEF ctlVars, IInv, TypeOK, PendingInv, DescriptorInv, GateNeedsLaunch,
         dac_gate, RunIsLoopCountPasses, CountsAddUp, regs, counters, history
<1>5. QED
  BY <1>2, <1>4

\* The inductive invariant holds in every reachable state of the controller.
THEOREM InvariantHolds == Spec => []IInv
  BY InitIInv, StepIInv, PTL DEF Spec

\* The registers of the controller keep their types: in particular the loop
\* position and the trigger counters stay within the counter width.
THEOREM TypeCorrect == Spec => []TypeOK
<1>1. IInv => TypeOK
  BY DEF IInv
<1>2. QED
  BY <1>1, InvariantHolds, PTL

\* The DAC gate is open only in a run launched by PLAY or by a trigger that
\* arrived in WAIT_TRIGGER, for any width of the counters and any loop counts.
THEOREM GateSafe == Spec => []GateNeedsLaunch
<1>1. IInv => GateNeedsLaunch
  BY DEF IInv
<1>2. QED
  BY <1>1, InvariantHolds, PTL

\* A finished run has played exactly the descriptor's loop_count passes.
THEOREM LoopCountExact == Spec => []RunIsLoopCountPasses
<1>1. IInv => RunIsLoopCountPasses
  BY DEF IInv
<1>2. QED
  BY <1>1, InvariantHolds, PTL

\* The fire counter moves only on an edge that opens the gate from
\* WAIT_TRIGGER.
LEMMA FireCountsLaunches == Spec => FireIsLaunch
<1>1. IInv /\ [Edge]_ctlVars =>
        [trigger_fire_count' # trigger_fire_count =>
           state = "WAIT_TRIGGER" /\ state' = "PLAYING"]_ctlVars
  <2> SUFFICES ASSUME IInv, [Edge]_ctlVars, trigger_fire_count' # trigger_fire_count
               PROVE  state = "WAIT_TRIGGER" /\ state' = "PLAYING"
    OBVIOUS
  <2>1. Edge
    BY DEF counters, ctlVars
  <2>2. PICK in \in Inputs : Clock(in)
    BY <2>1 DEF Edge
  <2>3. trigger_admission(in)
    BY <2>2 DEF Clock, CountTrigger, counters
  <2>4. state = "WAIT_TRIGGER" /\ ~active_fault(in)
        /\ in.cmd \notin {"abort", "begin", "stop", "pause"}
    BY <2>3 DEF trigger_admission
  <2>5. Case(in)
    BY <2>2, <2>4 DEF Clock, Admission, Transition, Abort, Fault, Begin, StopUpload, StopOrPause
  <2>6. QED
    BY <2>3, <2>4, <2>5 DEF Case, Commit, PlayStopped, Prefetch, OpenGate, LastBeat,
                            stream_fire, Drained, Hold, Goto
<1>2. QED
  BY <1>1, InvariantHolds, PTL DEF Spec, FireIsLaunch

\* Each trigger is counted once, modulo the counter width, and as fired only
\* when it is the one that opens the gate.
THEOREM TriggerAccounting == Spec => TriggersAccounted
<1>1. IInv => CountsAddUp
  BY DEF IInv
<1>2. QED
  BY <1>1, InvariantHolds, FireCountsLaunches, PTL DEF TriggersAccounted

-----------------------------------------------------------------------------
(* The status bridge.  A request is a change of request_toggle that runs    *)
(* along one chain of flops, out, into the acknowledgement and back.        *)

Chain == BOOLEAN \X BOOLEAN \X BOOLEAN
Values == Records \cup {Reset}
DdrRec == [request_toggle : BOOLEAN, busy : BOOLEAN, valid : BOOLEAN, data : [Bits -> Values],
           ack_sync : Chain, ack_seen : BOOLEAN, ack_pending : BOOLEAN,
           meta : [Bits -> Values], sync : [Bits -> Values]]
DacRec == [hold : Values, ack_toggle : BOOLEAN, request_sync : Chain, request_seen : BOOLEAN]

StatusTypeOK ==
  /\ ddr \in DdrRec /\ dac \in DacRec
  /\ wasHold \in Values /\ wasAck \in BOOLEAN /\ wasToggle \in BOOLEAN
  /\ since \subseteq Records

\* The request in flight has passed the flop x.
Passed(x) == x = ddr.request_toggle

\* A request that has passed a flop has passed the ones before it, and is over
\* exactly when it has passed the last one.
OneInFlight ==
  /\ dac.request_seen = dac.ack_toggle
  /\ Passed(dac.request_sync[1]) => Passed(wasToggle)
  /\ Passed(dac.request_sync[2]) => Passed(dac.request_sync[1])
  /\ Passed(dac.request_sync[3]) => Passed(dac.request_sync[2])
  /\ Passed(dac.ack_toggle) => Passed(dac.request_sync[3])
  /\ Passed(wasAck) => Passed(dac.ack_toggle)
  /\ Passed(ddr.ack_sync[1]) => Passed(wasAck)
  /\ Passed(ddr.ack_sync[2]) => Passed(ddr.ack_sync[1])
  /\ Passed(ddr.ack_sync[3]) => Passed(ddr.ack_sync[2])
  /\ Passed(ddr.ack_seen) => Passed(ddr.ack_sync[3])
  /\ Passed(ddr.ack_seen) <=> (~ddr.busy \/ ddr.ack_pending)
  /\ ddr.ack_pending => ddr.busy
  /\ ddr.valid => ~ddr.busy

\* The record that is held is one of this request, and what lies behind the
\* flops that the acknowledgement has passed is that record.
HeldIsSent ==
  /\ Passed(dac.ack_toggle) /\ (ddr.busy \/ ddr.valid) => dac.hold \in since
  /\ Passed(wasAck) => wasHold = dac.hold
  /\ Passed(ddr.ack_sync[2]) => ddr.meta = AllBits(dac.hold)
  /\ Passed(ddr.ack_sync[3]) => ddr.sync = AllBits(dac.hold)
  /\ ddr.valid => ddr.data = AllBits(dac.hold)

StatusIInv == StatusTypeOK /\ OneInFlight /\ HeldIsSent

\* Both ends start idle, with every flop low.
LEMMA StatusInitOK == StatusInit => StatusIInv
<1> SUFFICES ASSUME StatusInit PROVE StatusIInv
  OBVIOUS
<1>1. StatusTypeOK
  BY DEF StatusInit, StatusTypeOK, DdrRec, DacRec, Chain, Values, AllBits
<1>2. OneInFlight
  BY DEF StatusInit, OneInFlight, Passed
<1>3. HeldIsSent
  BY DEF StatusInit, HeldIsSent, Passed
<1> QED
  BY <1>1, <1>2, <1>3 DEF StatusIInv

\* An edge of the DAC clock: the record is held when the request comes through.
LEMMA StatusDacStep == StatusIInv /\ StatusDacEdge => StatusIInv'
<1> SUFFICES ASSUME StatusIInv, StatusDacEdge PROVE StatusIInv'
  OBVIOUS
<1> USE DEF StatusIInv
<1>1. PICK source \in Records, sample \in {ddr.request_toggle, wasToggle} :
    /\ dac' = [hold |-> IF requested THEN source ELSE dac.hold,
               ack_toggle |-> IF requested THEN dac.request_sync[3] ELSE dac.ack_toggle,
               request_sync |-> Shift(dac.request_sync, sample),
               request_seen |-> IF requested THEN dac.request_sync[3] ELSE dac.request_seen]
    /\ wasHold' = dac.hold /\ wasAck' = dac.ack_toggle
    /\ wasToggle' = ddr.request_toggle
    /\ since' = since \cup {source}
    /\ UNCHANGED ddr
  BY DEF StatusDacEdge
<1>2. /\ dac.hold \in Values /\ dac.ack_toggle \in BOOLEAN /\ dac.request_seen \in BOOLEAN
      /\ dac.request_sync \in Chain /\ ddr.request_toggle \in BOOLEAN /\ sample \in BOOLEAN
  BY DEF StatusTypeOK, DacRec, DdrRec
<1>3. StatusTypeOK'
  BY <1>1, <1>2 DEF StatusTypeOK, DacRec, Chain, Values, Shift
<1>4. /\ dac'.request_sync[1] = sample
      /\ dac'.request_sync[2] = dac.request_sync[1]
      /\ dac'.request_sync[3] = dac.request_sync[2]
      /\ dac'.ack_toggle = IF requested THEN dac.request_sync[3] ELSE dac.ack_toggle
      /\ dac'.request_seen = IF requested THEN dac.request_sync[3] ELSE dac.request_seen
      /\ dac'.hold = IF requested THEN source ELSE dac.hold
  BY <1>1 DEF Shift
<1>5. Passed(dac.request_sync[3]) /\ ~Passed(dac.ack_toggle) <=> requested
  <2>1. /\ dac.request_sync[3] \in BOOLEAN /\ dac.ack_toggle = dac.request_seen
        /\ Passed(dac.ack_toggle) => Passed(dac.request_sync[3])
    BY <1>2 DEF OneInFlight, Chain
  <2> QED
    BY <1>2, <2>1 DEF requested, Passed
<1>6. requested => ~Passed(wasAck) /\ ~Passed(ddr.ack_sync[1]) /\ ~Passed(ddr.ack_sync[2])
                   /\ ~Passed(ddr.ack_sync[3]) /\ ~Passed(ddr.ack_seen) /\ ddr.busy /\ ~ddr.valid
  BY <1>5 DEF OneInFlight
<1>7. OneInFlight'
  BY <1>1, <1>4, <1>5, <1>6 DEF OneInFlight, Passed
<1>8. HeldIsSent'
  <2>1. CASE requested
    BY <1>1, <1>4, <1>5, <1>6, <2>1 DEF HeldIsSent, Passed
  <2>2. CASE ~requested
    <3>1. dac'.hold = dac.hold /\ dac'.ack_toggle = dac.ack_toggle
      BY <1>4, <2>2
    <3> QED
      BY <1>1, <3>1 DEF HeldIsSent, Passed
  <2> QED
    BY <2>1, <2>2
<1> QED
  BY <1>3, <1>7, <1>8

\* An edge of the DDR clock: a request goes out or the acknowledgement comes in.
LEMMA StatusDdrStep == StatusIInv /\ StatusDdrEdge => StatusIInv'
<1> SUFFICES ASSUME StatusIInv, StatusDdrEdge PROVE StatusIInv'
  OBVIOUS
<1> USE DEF StatusIInv
<1>1. PICK asks \in BOOLEAN, ack \in {dac.ack_toggle, wasAck},
           sample \in [Bits -> {dac.hold, wasHold}] :
        LET accepted == asks /\ request_ready_ddr
        IN  /\ ddr' = [request_toggle |-> IF accepted THEN ~ddr.request_toggle ELSE ddr.request_toggle,
                   busy |-> (ddr.busy \/ accepted) /\ ~ddr.ack_pending,
                   valid |-> ddr.ack_pending,
                   data |-> IF ddr.ack_pending THEN ddr.sync ELSE ddr.data,
                   ack_sync |-> Shift(ddr.ack_sync, ack),
                   ack_seen |-> IF acknowledged THEN ~ddr.ack_seen ELSE ddr.ack_seen,
                   ack_pending |-> acknowledged,
                   meta |-> sample, sync |-> ddr.meta]
            /\ since' = IF accepted THEN {} ELSE since
            /\ wasToggle' = ddr.request_toggle
            /\ wasHold' = dac.hold /\ wasAck' = dac.ack_toggle
            /\ UNCHANGED dac
  BY DEF StatusDdrEdge
<1> DEFINE accepted == asks /\ request_ready_ddr
<1>2. /\ dac.hold \in Values /\ dac.ack_toggle \in BOOLEAN /\ ack \in BOOLEAN /\ wasHold \in Values
      /\ ddr.ack_sync \in Chain /\ ddr.request_toggle \in BOOLEAN /\ ddr.busy \in BOOLEAN
      /\ ddr.ack_pending \in BOOLEAN /\ ddr.ack_seen \in BOOLEAN /\ ddr.valid \in BOOLEAN
      /\ ddr.data \in [Bits -> Values] /\ ddr.meta \in [Bits -> Values] /\ ddr.sync \in [Bits -> Values]
  BY DEF StatusTypeOK, DacRec, DdrRec
<1>3. acknowledged \in BOOLEAN /\ accepted \in BOOLEAN
  BY <1>2 DEF acknowledged, request_ready_ddr
<1>4. /\ ddr'.request_toggle = IF accepted THEN ~ddr.request_toggle ELSE ddr.request_toggle
      /\ ddr'.busy = ((ddr.busy \/ accepted) /\ ~ddr.ack_pending)
      /\ ddr'.valid = ddr.ack_pending
      /\ ddr'.data = IF ddr.ack_pending THEN ddr.sync ELSE ddr.data
      /\ ddr'.ack_sync = Shift(ddr.ack_sync, ack)
      /\ ddr'.ack_seen = IF acknowledged THEN ~ddr.ack_seen ELSE ddr.ack_seen
      /\ ddr'.ack_pending = acknowledged
      /\ ddr'.meta = sample /\ ddr'.sync = ddr.meta
      /\ since' = IF accepted THEN {} ELSE since
      /\ wasToggle' = ddr.request_toggle
      /\ wasHold' = dac.hold /\ wasAck' = dac.ack_toggle
      /\ UNCHANGED dac
  BY <1>1
<1>5. StatusTypeOK'
  <2>1. sample \in [Bits -> Values]
    BY <1>2
  <2>2. Shift(ddr.ack_sync, ack) \in Chain
    BY <1>2 DEF Chain, Shift
  <2>3. ddr' \in DdrRec
    BY <1>1, <1>2, <1>3, <2>1, <2>2 DEF DdrRec
  <2> QED
    BY <1>2, <1>4, <2>3 DEF StatusTypeOK
<1>6. /\ ddr'.ack_sync[1] = ack
      /\ ddr'.ack_sync[2] = ddr.ack_sync[1]
      /\ ddr'.ack_sync[3] = ddr.ack_sync[2]
  BY <1>4 DEF Shift
<1> HIDE DEF accepted
<1>7. accepted => ~ddr.busy /\ ~ddr.ack_pending
  BY DEF accepted, request_ready_ddr
<1>8. acknowledged <=> Passed(ddr.ack_sync[3]) /\ ~Passed(ddr.ack_seen)
  BY <1>2 DEF acknowledged, OneInFlight, Passed, Chain
<1>9. OneInFlight'
  <2>1. CASE accepted
    BY <1>2, <1>3, <1>4, <1>6, <1>7, <1>8, <2>1 DEF OneInFlight, Passed, Chain, StatusTypeOK, DacRec
  <2>2. CASE ~accepted
    BY <1>2, <1>3, <1>4, <1>6, <1>7, <1>8, <2>2 DEF OneInFlight, Passed, Chain, StatusTypeOK, DacRec
  <2> QED
    BY <2>1, <2>2
<1>10. HeldIsSent'
  <2>1. CASE accepted
    BY <1>2, <1>3, <1>4, <1>6, <1>7, <1>8, <2>1 DEF OneInFlight, HeldIsSent, Passed, Chain, StatusTypeOK, DacRec
  <2>2. CASE ~accepted
    <3>1. Passed(ddr.ack_sync[1]) => sample = AllBits(dac.hold)
      BY <1>2 DEF OneInFlight, HeldIsSent, AllBits
    <3>2. \A x : (x = ddr'.request_toggle) <=> Passed(x)
      BY <1>4, <2>2 DEF Passed
    <3> QED
      BY <1>4, <1>6, <2>2, <3>1, <3>2 DEF OneInFlight, HeldIsSent, Passed
  <2> QED
    BY <2>1, <2>2
<1> QED
  BY <1>5, <1>9, <1>10

\* A snapshot is one record, all its bits of one edge, and one that the DAC
\* domain had after the request (waveform_status_cdc.v).
THEOREM SnapshotSafe == StatusSpec => []SnapshotCoherent
<1>1. StatusIInv /\ [StatusNext]_statusVars => StatusIInv'
  <2> SUFFICES ASSUME StatusIInv, [StatusNext]_statusVars PROVE StatusIInv'
    OBVIOUS
  <2>1. CASE UNCHANGED statusVars
    BY <2>1 DEF statusVars, StatusIInv, StatusTypeOK, OneInFlight, HeldIsSent, Passed
  <2> QED
    BY <2>1, StatusDacStep, StatusDdrStep DEF StatusNext
<1>2. StatusIInv => SnapshotCoherent
  BY DEF StatusIInv, OneInFlight, HeldIsSent, SnapshotCoherent
<1> QED
  BY <1>1, <1>2, StatusInitOK, PTL DEF StatusSpec

-----------------------------------------------------------------------------
(* The trigger capture.  An image is in the synchronizer together with the  *)
(* bit it names, so its place bounds what the window has done since.        *)

Kinds == {"none", "same", "shut", "guard", "open"}

TriggerTypeOK ==
  /\ pad \in BOOLEAN /\ latch \in BOOLEAN /\ armed \in BOOLEAN /\ wait_trigger \in BOOLEAN
  /\ sync_ff \in Chain /\ raw_sync \in Chain
  /\ low_cycles \in Nat
  /\ wait_quiet_cycles \in 0..QUIET
  /\ wait_history \in [1..WINDOW -> BOOLEAN]
  /\ edge \in Kinds /\ image \in Kinds \X Kinds \X Kinds /\ age \in Nat

\* A rise that met an armed circuit stays latched, one flop further per clock.
RiseTravels ==
  /\ age > 0 => armed /\ latch
  /\ age > 1 => sync_ff[1]
  /\ age > 2 => sync_ff[2]
  /\ age > 3 => sync_ff[3]
  /\ age <= 4

\* Each bit of the synchronizer has its name, and a later image of an episode
\* has an earlier one in front of it, which disarms the circuit.
ImagesNamed ==
  /\ pad => latch
  /\ latch <=> edge # "none"
  /\ \A i \in 1..3 : sync_ff[i] <=> image[i] # "none"
  /\ edge = "same" => sync_ff[1]
  /\ image[1] = "same" => sync_ff[2]
  /\ image[2] = "same" => sync_ff[3]
  /\ image[3] = "same" => ~armed

\* While the window is shut the guard counts from nothing.
ShutSince(n) == ~wait_trigger \/ wait_quiet_cycles <= n
\* The window has been open for n clocks and is still open.
OpenFor(n) == wait_qualified /\ \A j \in 1..WINDOW : j <= n => wait_history[j]

WindowSince ==
  /\ edge = "shut" => ShutSince(0)
  /\ edge = "open" => OpenFor(2)
  /\ \A i \in 1..3 : /\ image[i] = "shut" => ShutSince(i)
                     /\ image[i] = "open" => OpenFor(i + 1)

TriggerIInv == TriggerTypeOK /\ RiseTravels /\ ImagesNamed /\ WindowSince

\* Everything is low, nothing is captured.
LEMMA TriggerInitOK == TriggerInit => TriggerIInv
<1> SUFFICES ASSUME TriggerInit PROVE TriggerIInv
  OBVIOUS
<1>1. TriggerTypeOK
  <2>1. wait_quiet_cycles \in 0..QUIET /\ low_cycles \in Nat /\ age \in Nat
    BY GuardAssumption DEF TriggerInit
  <2>2. wait_history \in [1..WINDOW -> BOOLEAN]
    BY DEF TriggerInit
  <2>3. sync_ff \in Chain /\ raw_sync \in Chain
    BY DEF TriggerInit, Chain
  <2>4. edge \in Kinds /\ image \in Kinds \X Kinds \X Kinds
    BY DEF TriggerInit, Kinds
  <2> QED
    BY <2>1, <2>2, <2>3, <2>4 DEF TriggerInit, TriggerTypeOK
<1>2. RiseTravels /\ ImagesNamed /\ WindowSince
  BY DEF TriggerInit, RiseTravels, ImagesNamed, WindowSince
<1> QED
  BY <1>1, <1>2 DEF TriggerIInv

\* A clock edge.
LEMMA TriggerStep == TriggerIInv /\ TriggerNext => TriggerIInv'
<1> SUFFICES ASSUME TriggerIInv, TriggerNext PROVE TriggerIInv'
  OBVIOUS
<1> USE DEF TriggerIInv
<1>1. PICK high \in BOOLEAN, rose \in BOOLEAN, waits \in BOOLEAN :
        /\ high /\ ~pad => rose
        /\ pad' = high /\ wait_trigger' = waits
        /\ Latch(high, rose) /\ Synchronizers(high, rose) /\ Window /\ Arm
        /\ Observe(rose)
  BY DEF TriggerNext, TriggerClock
<1>2. PICK seen \in {latch \/ rose, latch} : sync_ff' = <<seen, sync_ff[1], sync_ff[2]>>
  BY <1>1 DEF Synchronizers
<1>3. PICK raw \in BOOLEAN : raw_sync' = <<raw, raw_sync[1], raw_sync[2]>>
  BY <1>1 DEF Synchronizers
<1> DEFINE held == IF latch THEN edge ELSE IF rose THEN Kind ELSE "none"
           Later(k) == IF k \in {"guard", "open"} /\ ~wait_trigger' THEN "shut" ELSE k
<1>4. /\ image' = <<IF sync_ff'[1] THEN Later(held) ELSE "none", Later(image[1]), Later(image[2])>>
      /\ edge' = CASE ~latch' -> "none"
                   [] latch' /\ sync_ff'[1] -> "same"
                   [] OTHER -> Later(held)
      /\ age' = CASE captured -> 0
                  [] ~captured /\ age > 0 -> age + 1
                  [] OTHER -> IF rose /\ armed /\ ~latch THEN 1 ELSE 0
  BY <1>1 DEF Observe
<1>5. /\ seen \in BOOLEAN /\ seen => latch \/ rose
      /\ latch => seen
      /\ sync_ff'[1] = seen /\ sync_ff'[2] = sync_ff[1] /\ sync_ff'[3] = sync_ff[2]
      /\ sync_ff[1] \in BOOLEAN /\ sync_ff[2] \in BOOLEAN /\ sync_ff[3] \in BOOLEAN
  BY <1>1, <1>2 DEF TriggerTypeOK, Chain
<1>6. /\ latch' = (high \/ ((latch \/ rose) /\ ~clears(high)))
      /\ latch' \in BOOLEAN
      /\ armed /\ (latch \/ rose) => latch'
      /\ latch' => latch \/ rose \/ high
  BY <1>1 DEF Latch, clears, TriggerTypeOK
<1>7. /\ captured <=> armed /\ sync_ff[3]
      /\ armed' = IF captured THEN FALSE ELSE armed \/ quiet
      /\ sync_ff[3] => ~quiet
  BY <1>1 DEF captured, Arm, quiet
<1>8. held \in Kinds /\ \A k \in Kinds : Later(k) \in Kinds
  BY DEF TriggerTypeOK, Kinds, Kind
<1>9. TriggerTypeOK'
  <2>1. low_cycles' \in Nat
    BY <1>1 DEF Synchronizers, TriggerTypeOK
  <2>2. wait_quiet_cycles' \in 0..QUIET
    BY <1>1, GuardAssumption DEF Window, wait_qualified, TriggerTypeOK
  <2>3. wait_history' \in [1..WINDOW -> BOOLEAN]
    <3>1. wait_history' = [i \in 1..WINDOW |-> IF i = 1 THEN wait_qualified ELSE wait_history[i - 1]]
      BY <1>1 DEF Window
    <3>2. wait_qualified \in BOOLEAN
      BY DEF wait_qualified
    <3>3. \A i \in 1..WINDOW : i # 1 => wait_history[i - 1] \in BOOLEAN
      <4>1. \A i \in 1..WINDOW : i # 1 => i - 1 \in 1..WINDOW
        BY GuardAssumption
      <4> QED
        BY <4>1 DEF TriggerTypeOK
    <3> QED
      BY <3>1, <3>2, <3>3
  <2>4. sync_ff' \in Chain /\ raw_sync' \in Chain
    BY <1>2, <1>3, <1>5 DEF TriggerTypeOK, Chain
  <2>5. image' \in Kinds \X Kinds \X Kinds
    <3>1. "none" \in Kinds /\ image[1] \in Kinds /\ image[2] \in Kinds
      BY DEF TriggerTypeOK, Kinds
    <3> QED
      BY <1>4, <1>8, <3>1
  <2>6. edge' \in Kinds /\ age' \in Nat
    BY <1>4, <1>8 DEF TriggerTypeOK, Kinds
  <2>7. armed' \in BOOLEAN
    BY <1>7 DEF TriggerTypeOK, quiet, low_qualified
  <2> QED
    BY <1>1, <1>6, <2>1, <2>2, <2>3, <2>4, <2>5, <2>6, <2>7 DEF TriggerTypeOK
<1>10. RiseTravels'
  BY <1>4, <1>5, <1>6, <1>7 DEF RiseTravels, TriggerTypeOK
<1>11. ImagesNamed'
  <2>1. held # "none" <=> latch \/ rose
    BY DEF ImagesNamed, Kind, TriggerTypeOK
  <2>2. \A k : Later(k) # "none" <=> k # "none"
    OBVIOUS
  <2>3. \A k : Later(k) = "same" <=> k = "same"
    OBVIOUS
  <2>4. high => latch \/ rose
    BY <1>1 DEF ImagesNamed
  <2>5. pad' => latch'
    BY <1>1, <1>6
  <2>6. latch' <=> edge' # "none"
    BY <1>4, <1>6, <2>1, <2>2, <2>4
  <2>7. \A i \in 1..3 : sync_ff'[i] <=> image'[i] # "none"
    <3>1. image'[1] = (IF sync_ff'[1] THEN Later(held) ELSE "none") /\ image'[2] = Later(image[1])
          /\ image'[3] = Later(image[2])
      BY <1>4
    <3>2. sync_ff'[1] <=> image'[1] # "none"
      BY <1>5, <2>1, <2>2, <3>1
    <3>3. sync_ff'[2] <=> image'[2] # "none"
      BY <1>5, <2>2, <3>1 DEF ImagesNamed
    <3>4. sync_ff'[3] <=> image'[3] # "none"
      BY <1>5, <2>2, <3>1 DEF ImagesNamed
    <3> QED
      BY <3>2, <3>3, <3>4
  <2>8. held = "same" => sync_ff[1]
    BY DEF ImagesNamed, Kind
  <2>9. /\ edge' = "same" => sync_ff'[1]
        /\ image'[1] = "same" => sync_ff'[2]
        /\ image'[2] = "same" => sync_ff'[3]
    <3>1. edge' = "same" => sync_ff'[1]
      <4>1. CASE sync_ff'[1]
        BY <4>1
      <4>2. CASE ~sync_ff'[1] /\ latch'
        <5>1. edge' = Later(held)
          BY <1>4, <4>2
        <5> QED
          BY <1>5, <2>3, <2>8, <4>2, <5>1 DEF ImagesNamed, Kind
      <4>3. CASE ~latch'
        BY <1>4, <4>3
      <4> QED
        BY <4>1, <4>2, <4>3
    <3>2. /\ image'[1] = "same" => sync_ff'[2]
          /\ image'[2] = "same" => sync_ff'[3]
      BY <1>4, <1>5, <2>3, <2>8 DEF ImagesNamed
    <3> QED
      BY <3>1, <3>2
  <2>10. image'[3] = "same" => ~armed'
    BY <1>4, <1>5, <1>7, <2>3 DEF ImagesNamed
  <2> QED
    BY <2>5, <2>6, <2>7, <2>9, <2>10 DEF ImagesNamed
<1>12. WindowSince'
  <2>1. /\ ~wait_trigger => wait_quiet_cycles' = 0
        /\ wait_qualified => wait_quiet_cycles' = QUIET
        /\ \A n \in 0..3 : wait_quiet_cycles <= n => wait_quiet_cycles' <= n + 1
    BY <1>1, GuardAssumption DEF Window, wait_qualified, TriggerTypeOK
  <2>2. \A n \in 0..2 : ShutSince(n) => ShutSince(n + 1)'
    BY <1>1, <2>1 DEF ShutSince, TriggerTypeOK
  <2>3. wait_qualified /\ wait_trigger' => wait_qualified'
    BY <2>1 DEF wait_qualified
  <2>4. ASSUME NEW n \in 1..3, OpenFor(n), wait_trigger' PROVE OpenFor(n + 1)'
    <3>1. wait_history' = [i \in 1..WINDOW |-> IF i = 1 THEN wait_qualified ELSE wait_history[i - 1]]
      BY <1>1 DEF Window
    <3>2. ASSUME NEW j \in 1..WINDOW, j <= n + 1 PROVE wait_history'[j]
      <4>1. CASE j = 1
        BY <2>4, <3>1, <4>1 DEF OpenFor
      <4>2. CASE j # 1
        <5>1. j - 1 \in 1..WINDOW /\ j - 1 <= n
          BY <3>2, <4>2, GuardAssumption
        <5> QED
          BY <2>4, <3>1, <4>2, <5>1 DEF OpenFor
      <4> QED
        BY <4>1, <4>2
    <3> QED
      BY <2>3, <2>4, <3>2 DEF OpenFor
  <2>5. ~wait_trigger' => \A n \in 0..3 : ShutSince(n)'
    BY DEF ShutSince
  <2>6. \A k : /\ Later(k) = "shut" => k = "shut" \/ ~wait_trigger'
               /\ Later(k) = "open" => k = "open" /\ wait_trigger'
    OBVIOUS
  <2>7. \A n \in 1..4 : OpenFor(n)' => \A m \in 1..n : OpenFor(m)'
    BY DEF OpenFor
  <2>8. held = "shut" => ShutSince(1)'
    <3>1. held = "shut" => ShutSince(0)
      BY DEF WindowSince, Kind, ShutSince
    <3> QED
      BY <2>2, <3>1
  <2>9. held = "open" /\ wait_trigger' => OpenFor(2)'
    <3>1. held = "open" => OpenFor(1)
      BY GuardAssumption DEF WindowSince, Kind, OpenFor
    <3> QED
      BY <2>4, <3>1
  <2>10. /\ image'[1] = "shut" => ShutSince(1)'
         /\ image'[1] = "open" => OpenFor(2)'
    BY <1>4, <2>5, <2>6, <2>8, <2>9
  <2>11. /\ image'[2] = "shut" => ShutSince(2)'
         /\ image'[2] = "open" => OpenFor(3)'
    BY <1>4, <2>2, <2>4, <2>5, <2>6 DEF WindowSince
  <2>12. /\ image'[3] = "shut" => ShutSince(3)'
         /\ image'[3] = "open" => OpenFor(4)'
    BY <1>4, <2>2, <2>4, <2>5, <2>6 DEF WindowSince
  <2>13. edge' \in {"shut", "open"} => rose /\ ~latch /\ edge' = Later(Kind)
    BY <1>4, <1>5, <1>6
  <2>14. /\ edge' = "shut" => ShutSince(0)'
         /\ edge' = "open" => OpenFor(2)'
    <3>1. Kind = "shut" => ShutSince(0)'
      BY <2>1 DEF Kind, ShutSince
    <3> QED
      BY <2>5, <2>6, <2>9, <2>13, <3>1
  <2>15. \A i \in 1..3 : i = 1 \/ i = 2 \/ i = 3
    OBVIOUS
  <2> QED
    BY <2>10, <2>11, <2>12, <2>14, <2>15 DEF WindowSince
<1> QED
  BY <1>9, <1>10, <1>11, <1>12

\* The inductive invariant of the trigger capture.
LEMMA TriggerInvariant == TriggerSpec => []TriggerIInv
<1>1. TriggerIInv /\ [TriggerNext]_triggerVars => TriggerIInv'
  <2> SUFFICES ASSUME TriggerIInv, UNCHANGED triggerVars PROVE TriggerIInv'
    BY TriggerStep
  <2> QED
    BY DEF triggerVars, TriggerIInv, TriggerTypeOK, RiseTravels, ImagesNamed, WindowSince,
           ShutSince, OpenFor, wait_qualified
<1> QED
  BY <1>1, TriggerInitOK, PTL DEF TriggerSpec

\* An edge that meets an armed circuit is captured within four clocks, and no
\* edge is captured twice (waveform_trigger_cdc.v).
THEOREM EdgeOnceSafe == TriggerSpec => []EachEdgeOnce
<1>1. TriggerIInv => EachEdgeOnce
  BY DEF TriggerIInv, RiseTravels, ImagesNamed, EachEdgeOnce, captured
<1> QED
  BY <1>1, TriggerInvariant, PTL

\* An edge that came while the window was shut starts nothing, and one that
\* came in the open window is admitted, whichever states the flops take.
THEOREM WindowSafe == TriggerSpec => []WindowDecides
<1>1. TriggerIInv => WindowDecides
  <2> SUFFICES ASSUME TriggerIInv, captured PROVE WindowDecides
    BY DEF WindowDecides
  <2> USE DEF TriggerIInv, TriggerTypeOK, WindowSince
  <2>1. image[3] = "shut" => ~admitted
    BY GuardAssumption DEF ShutSince, admitted, wait_qualified
  <2>2. image[3] = "open" => admitted
    BY GuardAssumption DEF OpenFor, admitted
  <2> QED
    BY <2>1, <2>2 DEF WindowDecides
<1> QED
  BY <1>1, TriggerInvariant, PTL

-----------------------------------------------------------------------------
(* The DDR reader.  The inductive invariant of the bookkeeping is the         *)
(* conjunction of three safety invariants with the ranges they need.  The     *)
(* credit invariant needs one more, about the age of the credit (CreditAge),  *)
(* and delivery one about the bursts in flight (CleanInv).                    *)

Ranges ==
  /\ busy \in BOOLEAN /\ arvalid \in BOOLEAN /\ frame_valid \in BOOLEAN
  /\ total \in Nat /\ remaining \in Nat /\ delivered \in Nat
  /\ page \in 0..(PAGE_FRAMES - 1) /\ pending \in Nat
  /\ reserved \in Int /\ level \in 0..FIFO_DEPTH
  /\ credit \in Seq(Int) /\ Len(credit) = CREDIT_LAG
  /\ bursts \in Seq(Nat)

ReaderIInv ==
  /\ Ranges
  /\ QuiescentWhenIdle
  /\ ReservedIsInFlight
  /\ RequestInBounds

\* Since an entry of the credit pipeline was sampled the FIFO has gained at
\* most one frame per clock.
CreditAge ==
  \A i \in 1..CREDIT_LAG : level + credit[i] <= FIFO_DEPTH + (CREDIT_LAG - i + 1)

\* The arithmetic of an edge that reserves, delivers and pops.
LEMMA CreditArithmetic ==
  ASSUME NEW r \in Int, NEW l \in Int, NEW n \in Int, NEW f \in Int, NEW D \in Int,
         NEW l1 \in Int, r + l + n <= D, l1 <= l + f
  PROVE  (r + n - f) + l1 <= D
  OBVIOUS

\* The arithmetic of one more clock of age.
LEMMA AgeArithmetic ==
  ASSUME NEW l \in Int, NEW l1 \in Int, NEW c \in Int, NEW D \in Int, NEW a \in Int,
         l1 <= l + 1, l + c <= D + a
  PROVE  l1 + c <= D + (a + 1)
  OBVIOUS

\* What Min returns on the four clamps of a burst.
LEMMA MinOfFour ==
  ASSUME NEW a \in Int, NEW b \in Int, NEW c \in Int, NEW d \in Int
  PROVE  /\ Min({a, b, c, d}) \in {a, b, c, d}
         /\ Min({a, b, c, d}) <= a /\ Min({a, b, c, d}) <= b
         /\ Min({a, b, c, d}) <= c /\ Min({a, b, c, d}) <= d
<1> DEFINE S == {a, b, c, d}
<1>1. \E x \in S : \A y \in S : x <= y
  OBVIOUS
<1>2. Min(S) \in S /\ \A y \in S : Min(S) <= y
  BY <1>1 DEF Min
<1> QED
  BY <1>2

\* A burst that is proposed is no longer than a burst may be.
LEMMA ProposedBurst ==
  ASSUME Ranges, proposed_frames # 0
  PROVE  proposed_frames <= BURST_FRAMES
<1> DEFINE q == PAGE_FRAMES - page
           r == free - reserved
<1>1. free \in Int
  <2>1. CASE credit = <<>>
    BY <2>1, ReaderConstants DEF Ranges, free
  <2>2. CASE credit # <<>>
    BY <2>2 DEF Ranges, free
  <2> QED BY <2>1, <2>2
<1>2. BURST_FRAMES \in Int /\ remaining \in Int /\ q \in Int /\ r \in Int
  BY <1>1, ReaderConstants DEF Ranges
<1>3. proposed_frames = Min({BURST_FRAMES, remaining, q, r})
  BY DEF proposed_frames
<1> HIDE DEF q, r
<1> QED BY <1>2, <1>3, MinOfFour

\* A burst that is proposed fits the descriptor, the page and the credit.
LEMMA ProposedFits ==
  ASSUME Ranges, remaining # 0, proposed_frames # 0
  PROVE  /\ proposed_frames \in 1..remaining
         /\ page + proposed_frames <= PAGE_FRAMES
         /\ CreditAge => reserved + proposed_frames + level <= FIFO_DEPTH + CREDIT_LAG
<1>1. free \in Int /\ (CreditAge => free + level <= FIFO_DEPTH + CREDIT_LAG)
  <2>1. CASE credit = <<>>
    BY <2>1, ReaderConstants DEF Ranges, free
  <2>2. CASE credit # <<>>
    <3>1. free = credit[1] /\ 1 \in 1..CREDIT_LAG /\ free \in Int
      BY <2>2, ReaderConstants DEF Ranges, free
    <3>2. ASSUME CreditAge PROVE free + level <= FIFO_DEPTH + CREDIT_LAG
      <4>1. level + credit[1] <= FIFO_DEPTH + (CREDIT_LAG - 1 + 1)
        BY <3>1, <3>2 DEF CreditAge
      <4> QED BY <4>1, <3>1, ReaderConstants DEF Ranges
    <3> QED BY <3>1, <3>2
  <2> QED BY <2>1, <2>2
<1>2. free > reserved
  BY <1>1 DEF proposed_frames, Ranges
<1> DEFINE r == free - reserved
           q == PAGE_FRAMES - page
<1>3. proposed_frames = Min({BURST_FRAMES, remaining, q, r})
  BY <1>1, <1>2 DEF proposed_frames, Ranges
<1>4. /\ BURST_FRAMES \in Nat \ {0} /\ remaining \in Nat \ {0}
      /\ q \in Nat \ {0} /\ r \in Nat \ {0}
  BY <1>1, <1>2, ReaderConstants DEF Ranges
<1> HIDE DEF r, q
<1>5. proposed_frames \in Nat \ {0} /\ proposed_frames <= remaining
        /\ proposed_frames <= q /\ proposed_frames <= r
  <2> DEFINE p == Min({BURST_FRAMES, remaining, q, r})
  <2>1. BURST_FRAMES \in Int /\ remaining \in Int /\ q \in Int /\ r \in Int
    BY <1>4
  <2>2. /\ p \in {BURST_FRAMES, remaining, q, r}
        /\ p <= BURST_FRAMES /\ p <= remaining /\ p <= q /\ p <= r
    BY <2>1, MinOfFour
  <2> HIDE DEF p
  <2>3. p \in Nat \ {0}
    BY <2>2, <1>4
  <2> QED
    BY <2>2, <2>3, <1>3 DEF p
<1> QED
  BY <1>1, <1>5, ReaderConstants DEF Ranges, r, q

LEMMA ReaderInitIInv == ReaderInit => ReaderIInv
<1> SUFFICES ASSUME ReaderInit PROVE ReaderIInv
  OBVIOUS
<1>1. credit \in Seq(Int) /\ Len(credit) = CREDIT_LAG
  <2>1. credit = [i \in 1..CREDIT_LAG |-> 0] /\ CREDIT_LAG \in Nat
    BY ReaderConstants DEF ReaderInit
  <2>2. credit \in [1..CREDIT_LAG -> Int]
    BY <2>1
  <2> QED
    BY <2>1, <2>2
<1>2. Ranges
  <2>1. 0 \in 0..(PAGE_FRAMES - 1) /\ 0 \in 0..FIFO_DEPTH /\ 0 \in Int /\ 0 \in Nat
    BY ReaderConstants
  <2>2. <<>> \in Seq(Nat)
    OBVIOUS
  <2> QED
    BY <1>1, <2>1, <2>2 DEF ReaderInit, Ranges
<1> QED
  BY <1>2 DEF ReaderInit, ReaderIInv, QuiescentWhenIdle, ReservedIsInFlight, RequestInBounds

\* One edge keeps the FIFO level and the credit pipeline in range.
LEMMA FifoStep ==
  ASSUME Ranges, NEW in \in ReaderInputs, Fifo(in)
  PROVE  level' \in 0..FIFO_DEPTH /\ credit' \in Seq(Int) /\ Len(credit') = CREDIT_LAG
<1>1. level' \in 0..FIFO_DEPTH
  <2>1. level \in 0..FIFO_DEPTH /\ FIFO_DEPTH \in Nat
    BY ReaderConstants DEF Ranges
  <2>2. (busy /\ frame_fire) => level < FIFO_DEPTH
    BY DEF frame_fire, frame_ready
  <2> QED
    BY <2>1, <2>2 DEF Fifo
<1>2. credit' \in Seq(Int) /\ Len(credit') = CREDIT_LAG
  <2>1. CASE credit = <<>>
    BY <2>1 DEF Fifo, Ranges
  <2>2. CASE credit # <<>>
    <3>1. FIFO_DEPTH - level \in Int
      BY ReaderConstants DEF Ranges
    <3>2. credit' = Append(Tail(credit), FIFO_DEPTH - level)
      BY <2>2 DEF Fifo
    <3>3. Tail(credit) \in Seq(Int) /\ Len(Tail(credit)) = Len(credit) - 1
      BY <2>2 DEF Ranges
    <3> QED
      BY <3>1, <3>2, <3>3 DEF Ranges
  <2> QED BY <2>1, <2>2
<1> QED BY <1>1, <1>2

\* The request registers of a busy edge: a new request, one accepted, or none.
LEMMA IssueStep ==
  ASSUME ReaderIInv, NEW in \in ReaderInputs, busy, IssueRequest(in)
  PROVE  /\ arvalid' \in BOOLEAN /\ pending' \in Nat /\ remaining' \in Nat
         /\ page' \in 0..(PAGE_FRAMES - 1) /\ total' = total
         /\ RequestInBounds'
         /\ remaining - remaining' =
              (IF arvalid THEN pending ELSE 0) - (IF arvalid' THEN pending' ELSE 0)
                + (IF reserve_new(in) THEN proposed_frames ELSE 0)
<1>1. CASE reserve_new(in)
  <2>1. ~arvalid /\ remaining # 0 /\ proposed_frames # 0
    BY <1>1 DEF reserve_new
  <2>2. ~ar_fire(in)
    BY <2>1 DEF ar_fire
  <2>3. /\ proposed_frames \in 1..remaining
        /\ page + proposed_frames <= PAGE_FRAMES
    BY <2>1, ProposedFits DEF ReaderIInv
  <2>4. /\ arvalid' = TRUE /\ pending' = proposed_frames
        /\ page' = page /\ remaining' = remaining /\ total' = total
    BY <1>1, <2>2 DEF IssueRequest
  <2> QED
    BY <1>1, <2>1, <2>3, <2>4 DEF ReaderIInv, Ranges, RequestInBounds
<1>2. CASE ~reserve_new(in) /\ ar_fire(in)
  <2>1. arvalid /\ in.arready
    BY <1>2 DEF ar_fire
  <2>2. pending \in 1..remaining
    BY <2>1 DEF ReaderIInv, RequestInBounds
  <2>3. /\ arvalid' = FALSE /\ pending' = pending /\ remaining' = remaining - pending
        /\ page' = (page + pending) % PAGE_FRAMES /\ total' = total
    BY <1>2, <2>1 DEF IssueRequest
  <2>4. page' \in 0..(PAGE_FRAMES - 1)
    BY <2>2, <2>3, ReaderConstants DEF ReaderIInv, Ranges
  <2>5. remaining \in Nat /\ pending \in Nat /\ remaining' \in Nat /\ pending' \in Nat
    BY <2>2, <2>3 DEF ReaderIInv, Ranges
  <2>6. remaining - (remaining - pending) = pending - 0 + 0
    BY <2>5
  <2>7. /\ (IF arvalid THEN pending ELSE 0) = pending
        /\ (IF arvalid' THEN pending' ELSE 0) = 0
        /\ (IF reserve_new(in) THEN proposed_frames ELSE 0) = 0
    BY <1>2, <2>1, <2>3
  <2>8. RequestInBounds'
    BY <2>3 DEF RequestInBounds
  <2> DEFINE onbus == IF arvalid THEN pending ELSE 0
             next  == IF arvalid' THEN pending' ELSE 0
             new   == IF reserve_new(in) THEN proposed_frames ELSE 0
  <2>9. remaining - remaining' = onbus - next + new
    <3>1. onbus = pending /\ next = 0 /\ new = 0
      BY <2>7
    <3> HIDE DEF onbus, next, new
    <3> QED BY <2>3, <2>6, <3>1
  <2> HIDE DEF onbus, next, new
  <2> QED
    BY <2>3, <2>4, <2>5, <2>8, <2>9 DEF onbus, next, new
<1>3. CASE ~reserve_new(in) /\ ~ar_fire(in)
  <2>1. /\ arvalid' = arvalid /\ pending' = pending /\ remaining' = remaining
        /\ page' = page /\ total' = total
    BY <1>3 DEF IssueRequest, ar_fire, ReaderIInv, Ranges
  <2>2. RequestInBounds'
    BY <2>1 DEF ReaderIInv, RequestInBounds
  <2>3. /\ arvalid' \in BOOLEAN /\ pending' \in Nat /\ remaining' \in Nat
        /\ page' \in 0..(PAGE_FRAMES - 1)
    BY <2>1 DEF ReaderIInv, Ranges
  <2>4. remaining - remaining' =
          (IF arvalid THEN pending ELSE 0) - (IF arvalid' THEN pending' ELSE 0) + 0
    <3>1. remaining \in Nat /\ pending \in Nat
      BY DEF ReaderIInv, Ranges
    <3> QED BY <2>1, <3>1
  <2>5. (IF reserve_new(in) THEN proposed_frames ELSE 0) = 0
    BY <1>3
  <2> QED
    <3> DEFINE new == IF reserve_new(in) THEN proposed_frames ELSE 0
               gap == (IF arvalid THEN pending ELSE 0) - (IF arvalid' THEN pending' ELSE 0)
    <3>1. new = 0 /\ remaining - remaining' = gap + 0
      BY <2>4, <2>5
    <3> HIDE DEF new, gap
    <3>2. remaining - remaining' = gap + new
      BY <3>1
    <3> QED
      BY <2>1, <2>2, <2>3, <3>2 DEF new, gap
<1> QED
  BY <1>1, <1>2, <1>3

\* The accounting of a busy edge that does not end the read.
LEMMA ReserveStep ==
  ASSUME ReaderIInv, NEW in \in ReaderInputs, Busy(in)
  PROVE  /\ reserved' \in Int /\ delivered' \in Nat
         /\ finishing(in) => reserved' = 0
         /\ ~finishing(in) =>
              reserved' + delivered' = reserved + delivered
                + (IF reserve_new(in) THEN proposed_frames ELSE 0)
<1>1. reserve_new(in) => proposed_frames \in Nat
  BY ProposedFits DEF ReaderIInv, reserve_new, Ranges
<1>2. reserved \in Int /\ delivered \in Nat
  BY DEF ReaderIInv, Ranges
<1>3. CASE frame_fire
  BY <1>1, <1>2, <1>3 DEF Busy, Reserve
<1>4. CASE ~frame_fire
  BY <1>1, <1>2, <1>4 DEF Busy, Reserve
<1> QED
  BY <1>3, <1>4

\* What one busy edge does to the returned bursts and to the busy flag.
LEMMA ReturnStep ==
  ASSUME ReaderIInv, NEW in \in ReaderInputs, Busy(in)
  PROVE  /\ busy' \in BOOLEAN /\ frame_valid' \in BOOLEAN /\ bursts' \in Seq(Nat)
         /\ busy' = FALSE => finishing(in)
         /\ finishing(in) => /\ ~arvalid' /\ bursts' = <<>> /\ ~frame_valid'
                             /\ ~reserve_new(in)
<1>1. /\ busy' = (~finishing(in))
      /\ frame_valid' = (completes(in) \/ (frame_valid /\ ~frame_ready))
  BY DEF Busy, Status, ReturnBeat
<1>2. pending * SLICES \in Nat
  BY ReaderConstants DEF ReaderIInv, Ranges
<1>3. bursts' \in Seq(Nat)
  <2>1. bursts \in Seq(Nat) /\ (retiring(in) => bursts # <<>>)
    BY DEF ReaderIInv, Ranges, retiring, r_fire, rready
  <2>2. (IF retiring(in) THEN Tail(bursts) ELSE bursts) \in Seq(Nat)
    BY <2>1
  <2>3. (IF ar_fire(in) THEN <<pending * SLICES>> ELSE <<>>) \in Seq(Nat)
    BY <1>2
  <2> QED
    BY <2>2, <2>3 DEF Busy, ReturnBeat
<1>4. ASSUME finishing(in)
      PROVE  ~arvalid' /\ bursts' = <<>> /\ ~frame_valid' /\ ~reserve_new(in)
  <2>1. ~arvalid /\ bursts = <<>> /\ ~frame_valid
    BY <1>4 DEF finishing
  <2>2. ~ar_fire(in) /\ ~r_fire(in) /\ ~retiring(in) /\ ~completes(in)
    BY <2>1 DEF ar_fire, r_fire, rready, retiring, completes
  <2>3. ~reserve_new(in)
    BY <1>4 DEF finishing, reserve_new, draining
  <2>4. ~frame_valid'
    BY <1>1, <2>1, <2>2
  <2>5. ~arvalid'
    BY <2>1, <2>3 DEF Busy, IssueRequest
  <2>6. bursts' = bursts \o <<>>
    BY <2>2 DEF Busy, ReturnBeat
  <2> QED
    BY <2>1, <2>3, <2>4, <2>5, <2>6
<1> QED
  BY <1>1, <1>3, <1>4

\* One edge of the clock preserves the invariant.
LEMMA ReaderStepIInv == ReaderIInv /\ [ReaderEdge]_rdVars => ReaderIInv'
<1>1. ASSUME ReaderIInv, NEW in \in ReaderInputs, ReaderClock(in) PROVE ReaderIInv'
  <2> USE <1>1
  <2>0. /\ level' \in 0..FIFO_DEPTH /\ credit' \in Seq(Int) /\ Len(credit') = CREDIT_LAG
    BY FifoStep DEF ReaderIInv, ReaderClock
  <2>1. CASE Start(in) \/ BadStart(in)
    <3>1. /\ ~busy /\ ~arvalid
      BY <2>1 DEF Start, BadStart, ReaderIInv, QuiescentWhenIdle
    <3>2. /\ busy' \in BOOLEAN /\ total' = remaining' /\ remaining' \in Nat
          /\ page' \in 0..(PAGE_FRAMES - 1) /\ bursts' = <<>> /\ frame_valid' = FALSE
          /\ reserved' = 0 /\ delivered' = 0 /\ arvalid' = arvalid /\ pending' = pending
      <4>2. in.page \in 0..(PAGE_FRAMES - 1) /\ in.total \in Nat
        BY ReaderConstants DEF ReaderInputs
      <4>3. CASE Start(in)
        BY <4>2, <4>3 DEF Start
      <4>4. CASE BadStart(in)
        <5>1. busy' = busy /\ arvalid' = arvalid /\ pending' = pending
          BY <4>4 DEF BadStart
        <5>2. busy' \in BOOLEAN
          BY <5>1 DEF ReaderIInv, Ranges
        <5>3. /\ total' = in.total /\ remaining' = in.total /\ page' = in.page
              /\ bursts' = <<>> /\ frame_valid' = FALSE /\ reserved' = 0 /\ delivered' = 0
          BY <4>4 DEF BadStart
        <5> QED BY <4>2, <5>1, <5>2, <5>3
      <4> QED BY <2>1, <4>3, <4>4
    <3>3. Ranges'
      <4>1. <<>> \in Seq(Nat) /\ 0 \in Int /\ 0 \in Nat
        OBVIOUS
      <4>2. arvalid \in BOOLEAN /\ pending \in Nat
        BY DEF ReaderIInv, Ranges
      <4> QED BY <2>0, <3>2, <4>1, <4>2 DEF Ranges
    <3> QED
      BY <3>1, <3>2, <3>3 DEF ReaderIInv, QuiescentWhenIdle, ReservedIsInFlight, RequestInBounds
  <2>2. CASE Idle(in)
    <3>1. /\ ~busy /\ UNCHANGED <<busy, request, returns, reserved, delivered>>
      BY <2>2 DEF Idle
    <3>2. Ranges'
      BY <2>0, <3>1 DEF ReaderIInv, Ranges, request, returns
    <3> QED
      BY <3>1, <3>2 DEF ReaderIInv, QuiescentWhenIdle, ReservedIsInFlight, RequestInBounds,
                        request, returns
  <2>3. CASE Busy(in)
    <3>1. busy /\ IssueRequest(in)
      BY <2>3 DEF Busy
    <3>2. Ranges'
      BY <2>0, <2>3, <3>1, IssueStep, ReserveStep, ReturnStep DEF Ranges, ReaderIInv
    <3>3. QuiescentWhenIdle'
      BY <2>3, ReturnStep DEF QuiescentWhenIdle
    <3>4. RequestInBounds'
      BY <3>1, IssueStep
    <3>5. ReservedIsInFlight'
      <4> SUFFICES ASSUME busy'
                   PROVE  reserved' + delivered' + remaining' =
                            total' + (IF arvalid' THEN pending' ELSE 0)
        BY DEF ReservedIsInFlight
      <4> DEFINE new  == IF reserve_new(in) THEN proposed_frames ELSE 0
                 onbus == IF arvalid THEN pending ELSE 0
                 next == IF arvalid' THEN pending' ELSE 0
      <4>1. ~finishing(in)
        BY <2>3 DEF Busy, Status
      <4>2. reserved' + delivered' = reserved + delivered + new
        BY <2>3, <4>1, ReserveStep
      <4>3. total' = total /\ remaining - remaining' = onbus - next + new
        BY <3>1, IssueStep
      <4>4. reserved + delivered + remaining = total + onbus
        BY <3>1 DEF ReaderIInv, ReservedIsInFlight
      <4>5. /\ reserved \in Int /\ delivered \in Int /\ remaining \in Int /\ total \in Int
            /\ onbus \in Int
        BY DEF ReaderIInv, Ranges
      <4>6. /\ reserved' \in Int /\ delivered' \in Int /\ remaining' \in Int /\ next \in Int
            /\ total' \in Int
        BY <3>2 DEF Ranges
      <4>7. new \in Int
        BY ProposedFits DEF reserve_new, ReaderIInv, Ranges
      <4> DEFINE r1 == reserved'
                 d1 == delivered'
                 m1 == remaining'
                 t1 == total'
      <4>8. /\ r1 \in Int /\ d1 \in Int /\ m1 \in Int /\ t1 = total
            /\ r1 + d1 = reserved + delivered + new
            /\ remaining - m1 = onbus - next + new
        BY <4>2, <4>3, <4>6
      <4> HIDE DEF new, onbus, next, r1, d1, m1, t1
      <4>9. r1 + d1 + m1 = t1 + next
        BY <4>4, <4>5, <4>6, <4>7, <4>8
      <4> QED
        BY <4>9 DEF next, r1, d1, m1, t1
    <3> QED
      BY <3>2, <3>3, <3>4, <3>5 DEF ReaderIInv
  <2> QED
    BY <2>1, <2>2, <2>3 DEF ReaderClock
<1>2. ASSUME ReaderIInv, UNCHANGED rdVars PROVE ReaderIInv'
  BY <1>2 DEF ReaderIInv, Ranges, QuiescentWhenIdle, ReservedIsInFlight, RequestInBounds,
       rdVars, status, request, returns, fifo
<1> QED
  BY <1>1, <1>2 DEF ReaderEdge

\* The invariant holds in every reachable state of the reader, whatever the
\* bus and the command inputs do.
THEOREM ReaderInvariantHolds == ReaderSpec => []ReaderIInv
<1> QED
  BY ReaderInitIInv, ReaderStepIInv, PTL DEF ReaderSpec

\* An engine that is not busy has nothing in flight (the permission to clear
\* the FIFOs and to start again, waveform_ddr_reader.v:9-12).
THEOREM ReaderQuiescent == ReaderSpec => []QuiescentWhenIdle
<1>1. ReaderIInv => QuiescentWhenIdle
  BY DEF ReaderIInv
<1> QED
  BY <1>1, ReaderInvariantHolds, PTL

\* Reserved space is exactly the frames requested and not yet delivered.
THEOREM ReservedExact == ReaderSpec => []ReservedIsInFlight
<1>1. ReaderIInv => ReservedIsInFlight
  BY DEF ReaderIInv
<1> QED
  BY <1>1, ReaderInvariantHolds, PTL

\* A presented request stays inside its page and inside the descriptor.
THEOREM RequestsInBounds == ReaderSpec => []RequestInBounds
<1>1. ReaderIInv => RequestInBounds
  BY DEF ReaderIInv
<1> QED
  BY <1>1, ReaderInvariantHolds, PTL

\* One edge ages the credit pipeline by one clock.
LEMMA CreditAgeStep ==
  ASSUME Ranges, CreditAge, NEW in \in ReaderInputs, Fifo(in)
  PROVE  CreditAge'
<1>0. /\ level \in 0..FIFO_DEPTH /\ level' \in 0..FIFO_DEPTH /\ level' <= level + 1
      /\ FIFO_DEPTH \in Nat /\ CREDIT_LAG \in Nat
  <2>1. level' \in 0..FIFO_DEPTH
    BY FifoStep
  <2>2. level' <= level + 1
    BY ReaderConstants DEF Fifo, Ranges
  <2> QED
    BY <2>1, <2>2, ReaderConstants DEF Ranges
<1>1. SUFFICES ASSUME NEW i \in 1..CREDIT_LAG
               PROVE  level' + credit'[i] <= FIFO_DEPTH + (CREDIT_LAG - i + 1)
  BY DEF CreditAge
<1>2. credit # <<>> /\ Len(credit) = CREDIT_LAG /\ credit \in Seq(Int)
  BY <1>0 DEF Ranges
<1>3. credit' = Append(Tail(credit), FIFO_DEPTH - level)
  BY <1>2 DEF Fifo
<1>4. Tail(credit) \in Seq(Int) /\ Len(Tail(credit)) = CREDIT_LAG - 1
  BY <1>2
<1>5. CASE i = CREDIT_LAG
  <2> DEFINE c == FIFO_DEPTH - level
  <2>1. credit'[i] = c
    BY <1>0, <1>3, <1>4, <1>5
  <2>2. /\ level \in Int /\ level' \in Int /\ c \in Int /\ FIFO_DEPTH \in Int
        /\ level + c <= FIFO_DEPTH + (CREDIT_LAG - i) /\ level' <= level + 1
        /\ CREDIT_LAG - i \in Int
    BY <1>0, <1>5
  <2> HIDE DEF c
  <2>3. level' + c <= FIFO_DEPTH + ((CREDIT_LAG - i) + 1)
    BY <2>2, AgeArithmetic
  <2> QED BY <2>1, <2>3
<1>6. CASE i < CREDIT_LAG
  <2>1. credit'[i] = credit[i + 1]
    BY <1>0, <1>2, <1>3, <1>4, <1>6
  <2>2. i + 1 \in 1..CREDIT_LAG /\ credit[i + 1] \in Int
    BY <1>0, <1>2, <1>6
  <2>3. level + credit[i + 1] <= FIFO_DEPTH + (CREDIT_LAG - (i + 1) + 1)
    BY <2>2 DEF CreditAge
  <2> DEFINE c == credit[i + 1]
  <2> HIDE DEF c
  <2>4. CREDIT_LAG - (i + 1) + 1 = CREDIT_LAG - i /\ CREDIT_LAG - i \in Int
    BY <1>0
  <2>5. /\ c \in Int /\ level + c <= FIFO_DEPTH + (CREDIT_LAG - i)
        /\ level \in Int /\ level' \in Int /\ FIFO_DEPTH \in Int /\ level' <= level + 1
    BY <2>2, <2>3, <2>4, <1>0 DEF c
  <2>6. level' + c <= FIFO_DEPTH + ((CREDIT_LAG - i) + 1)
    BY <2>4, <2>5, AgeArithmetic
  <2> QED BY <2>1, <2>6 DEF c
<1> QED
  BY <1>0, <1>5, <1>6

\* The reader never asks for more than the free space and what its credit
\* hides: with n registers between the count of the FIFO and the credit
\* (waveform_fifo_mask_adapter.v:100-144) the over-commitment is at most n.
THEOREM CreditSafe == ReaderSpec => []CreditNotOvercommitted
<1>1. ReaderInit => CreditAge /\ CreditNotOvercommitted
  BY ReaderConstants DEF ReaderInit, CreditNotOvercommitted, CreditAge
<1>2. ReaderIInv /\ CreditAge /\ CreditNotOvercommitted /\ [ReaderEdge]_rdVars
        => CreditAge' /\ CreditNotOvercommitted'
  <2>1. ASSUME ReaderIInv, CreditAge, CreditNotOvercommitted, NEW in \in ReaderInputs, ReaderClock(in)
        PROVE  CreditAge' /\ CreditNotOvercommitted'
    <3> USE <2>1
    <3>a. CreditAge'
      BY CreditAgeStep DEF ReaderIInv, ReaderClock
    <3>0. /\ level' \in 0..FIFO_DEPTH /\ level \in 0..FIFO_DEPTH /\ reserved \in Int
          /\ FIFO_DEPTH \in Nat /\ CREDIT_LAG \in Nat /\ Fifo(in)
      BY FifoStep, ReaderConstants DEF ReaderIInv, Ranges, ReaderClock
    <3> SUFFICES CreditNotOvercommitted'
      BY <3>a
    <3>1. CASE Start(in) \/ BadStart(in)
      BY <3>0, <3>1 DEF Start, BadStart, CreditNotOvercommitted
    <3>2. CASE Idle(in)
      <4>1. ~busy /\ reserved' = reserved
        BY <3>2 DEF Idle
      <4>2. level' <= level
        BY <3>0, <4>1 DEF Fifo
      <4> QED
        <5> DEFINE l1 == level'
        <5>1. l1 \in Int /\ l1 <= level
          BY <3>0, <4>2
        <5> HIDE DEF l1
        <5>2. reserved + l1 <= FIFO_DEPTH + CREDIT_LAG
          BY <3>0, <5>1 DEF CreditNotOvercommitted
        <5> QED BY <4>1, <5>2 DEF CreditNotOvercommitted, l1
    <3>3. CASE Busy(in)
      <4>1. CASE finishing(in)
        <5>1. reserved' = 0
          BY <3>3, <4>1, ReserveStep
        <5> DEFINE l1 == level'
        <5>2. l1 \in Int /\ l1 <= FIFO_DEPTH /\ FIFO_DEPTH \in Int
          BY <3>0
        <5> HIDE DEF l1
        <5>3. 0 + l1 <= FIFO_DEPTH + CREDIT_LAG
          BY <3>0, <5>2
        <5> QED BY <5>1, <5>3 DEF CreditNotOvercommitted, l1
      <4>2. CASE ~finishing(in)
        <5> DEFINE new  == IF reserve_new(in) THEN proposed_frames ELSE 0
                   fire == IF frame_fire THEN 1 ELSE 0
        <5>1. new \in Int /\ reserved + level + new <= FIFO_DEPTH + CREDIT_LAG
          BY <3>0, ProposedFits DEF reserve_new, ReaderIInv, Ranges, CreditNotOvercommitted
        <5>2. reserved' = reserved + new - fire
          BY <3>3, <4>2 DEF Busy, Reserve
        <5>3. busy /\ fire \in {0, 1}
          BY <3>3 DEF Busy
        <5>4. level' <= level + fire
          <6>1. (IF busy /\ frame_fire THEN 1 ELSE 0) = fire
            BY <5>3
          <6> HIDE DEF fire
          <6> QED BY <3>0, <5>3, <6>1 DEF Fifo
        <5> HIDE DEF new, fire
        <5> QED
          <6>1. /\ reserved \in Int /\ level \in Int /\ new \in Int /\ fire \in Int
                /\ FIFO_DEPTH + CREDIT_LAG \in Int /\ level' \in Int
            BY <3>0, <5>1, <5>3
          <6>2. (reserved + new - fire) + level' <= FIFO_DEPTH + CREDIT_LAG
            BY <5>1, <5>4, <6>1, CreditArithmetic
          <6> QED
            BY <5>2, <6>2 DEF CreditNotOvercommitted
      <4> QED BY <4>1, <4>2
    <3> QED
      BY <3>1, <3>2, <3>3 DEF ReaderClock
  <2>2. ASSUME CreditAge, CreditNotOvercommitted, UNCHANGED rdVars
        PROVE  CreditAge' /\ CreditNotOvercommitted'
    BY <2>2 DEF CreditAge, CreditNotOvercommitted, rdVars, fifo
  <2> QED
    BY <2>1, <2>2 DEF ReaderEdge
<1> QED
  BY <1>1, <1>2, ReaderInvariantHolds, PTL DEF ReaderSpec

\* What the reader asks for is within the descriptor and the page, reserved
\* until it is delivered, and covered by the FIFO up to the lag of the credit.
THEOREM RequestsSafe == ReaderSpec => []RequestsCovered
<1>1. RequestInBounds /\ ReservedIsInFlight /\ CreditNotOvercommitted => RequestsCovered
  BY DEF RequestsCovered
<1> QED
  BY <1>1, RequestsInBounds, ReservedExact, CreditSafe, PTL

-----------------------------------------------------------------------------
(* A read that is done has delivered every frame.  The beats of the bursts  *)
(* in flight have no sum that can be unfolded here; Chain says the same     *)
(* with a list of partial sums, one for the begin and the end of each burst. *)

ReaderChain(s, lo, hi) ==
  \E c \in [0..Len(s) -> Int] :
    /\ c[0] = lo /\ c[Len(s)] = hi
    /\ \A i \in 1..Len(s) : c[i] = c[i - 1] + s[i]

\* Beats received, from the frames they are in.
Received == delivered * SLICES + (IF frame_valid THEN SLICES ELSE 0) + slice

\* A read that nothing has disturbed.
Clean == busy /\ ~cancelled /\ error = "none"

CleanInv ==
  /\ ReaderChain(bursts, Received - returned, (total - remaining) * SLICES)
  /\ \A i \in 1..Len(bursts) : bursts[i] \in 1..(BURST_FRAMES * SLICES)
  /\ IF bursts = <<>> THEN returned = 0 ELSE returned < Head(bursts)

DeliveryInv ==
  /\ slice \in 0..(SLICES - 1) /\ returned \in Nat
  /\ arvalid => pending <= BURST_FRAMES
  /\ Clean => CleanInv
  /\ DoneMeansDelivered

\* Nothing in flight: the begin and the end meet.
LEMMA ChainEmpty ==
  ASSUME NEW lo, NEW hi, ReaderChain(<<>>, lo, hi)
  PROVE  lo = hi
BY DEF ReaderChain

\* The oldest burst has come to its end.
LEMMA ChainTail ==
  ASSUME NEW s \in Seq(Nat), s # <<>>, NEW lo \in Int, NEW hi \in Int, ReaderChain(s, lo, hi)
  PROVE  ReaderChain(Tail(s), lo + Head(s), hi)
<1> DEFINE t == Tail(s)
<1>1. /\ t \in Seq(Nat) /\ Len(s) \in Nat \ {0} /\ Len(t) = Len(s) - 1
      /\ Head(s) = s[1] /\ \A i \in 1..Len(t) : t[i] = s[i + 1]
  OBVIOUS
<1> HIDE DEF t
<1>2. PICK c \in [0..Len(s) -> Int] :
        /\ c[0] = lo /\ c[Len(s)] = hi
        /\ \A i \in 1..Len(s) : c[i] = c[i - 1] + s[i]
  BY DEF ReaderChain
<1> DEFINE d == [i \in 0..Len(t) |-> c[i + 1]]
<1>3. d \in [0..Len(t) -> Int]
  BY <1>1
<1>4. d[0] = lo + Head(s)
  <2>1. c[1] = c[0] + s[1]
    BY <1>1, <1>2
  <2> QED BY <1>1, <1>2, <2>1
<1>5. d[Len(t)] = hi
  BY <1>1, <1>2
<1>6. ASSUME NEW i \in 1..Len(t) PROVE d[i] = d[i - 1] + t[i]
  <2>1. i + 1 \in 1..Len(s) /\ i \in 0..Len(t) /\ i - 1 \in 0..Len(t)
    BY <1>1
  <2>2. c[i + 1] = c[i] + s[i + 1]
    BY <1>2, <2>1
  <2> QED BY <1>1, <2>1, <2>2
<1> HIDE DEF d
<1>7. ReaderChain(t, lo + Head(s), hi)
  BY <1>3, <1>4, <1>5, <1>6 DEF ReaderChain
<1> QED BY <1>7 DEF t

\* A burst is asked for.
LEMMA ChainAppend ==
  ASSUME NEW s \in Seq(Nat), NEW x \in Nat, NEW lo \in Int, NEW hi \in Int, ReaderChain(s, lo, hi)
  PROVE  ReaderChain(s \o <<x>>, lo, hi + x)
<1> DEFINE t == s \o <<x>>
<1>1. /\ t \in Seq(Nat) /\ Len(s) \in Nat /\ Len(t) = Len(s) + 1
      /\ t[Len(t)] = x /\ \A i \in 1..Len(s) : t[i] = s[i]
  OBVIOUS
<1> HIDE DEF t
<1>2. PICK c \in [0..Len(s) -> Int] :
        /\ c[0] = lo /\ c[Len(s)] = hi
        /\ \A i \in 1..Len(s) : c[i] = c[i - 1] + s[i]
  BY DEF ReaderChain
<1> DEFINE d == [i \in 0..Len(t) |-> IF i = Len(t) THEN hi + x ELSE c[i]]
<1>3. d \in [0..Len(t) -> Int]
  BY <1>1
<1>4. d[0] = lo /\ d[Len(t)] = hi + x
  BY <1>1, <1>2
<1>5. ASSUME NEW i \in 1..Len(t) PROVE d[i] = d[i - 1] + t[i]
  <2>1. CASE i = Len(t)
    BY <1>1, <1>2, <2>1
  <2>2. CASE i # Len(t)
    <3>1. i \in 1..Len(s) /\ i - 1 # Len(t) /\ i - 1 \in 0..Len(t)
      BY <1>1, <2>2
    <3> QED BY <1>1, <1>2, <2>2, <3>1
  <2> QED BY <2>1, <2>2
<1> HIDE DEF d
<1>6. ReaderChain(t, lo, hi + x)
  BY <1>3, <1>4, <1>5 DEF ReaderChain
<1> QED BY <1>6 DEF t

\* Beats of so many frames.
LEMMA FrameBeats ==
  ASSUME NEW a \in Int, NEW b \in Int
  PROVE  /\ a * SLICES \in Int /\ b * SLICES \in Int
         /\ (a + b) * SLICES = a * SLICES + b * SLICES
         /\ (a - b) * SLICES = a * SLICES - b * SLICES
BY ReaderConstants

\* Whole frames and a rest smaller than a frame: the frames agree.
LEMMA WholeFrames ==
  ASSUME NEW a \in Int, NEW b \in Int, NEW r \in 0..(SLICES - 1), a * SLICES + r = b * SLICES
  PROVE  a = b
<1>1. CASE a < b
  <2>1. PICK k \in Nat : b = a + 1 + k
    <3>1. b - a - 1 \in Nat /\ b = a + 1 + (b - a - 1)
      BY <1>1
    <3> QED BY <3>1
  <2>2. k * SLICES >= 0
    BY ReaderConstants
  <2>3. b * SLICES = a * SLICES + SLICES + k * SLICES
    BY <2>1, ReaderConstants
  <2> DEFINE as == a * SLICES
             bs == b * SLICES
             ks == k * SLICES
  <2>4. as \in Int /\ bs \in Int /\ ks \in Int /\ SLICES \in Int
    BY <2>1, ReaderConstants
  <2>5. bs = as + SLICES + ks /\ ks >= 0 /\ as + r = bs
    BY <2>2, <2>3
  <2> HIDE DEF as, bs, ks
  <2> QED BY <2>4, <2>5
<1>2. CASE a > b
  <2>1. PICK k \in Nat : a = b + 1 + k
    <3>1. a - b - 1 \in Nat /\ a = b + 1 + (a - b - 1)
      BY <1>2
    <3> QED BY <3>1
  <2>2. k * SLICES >= 0 /\ SLICES > 0
    BY ReaderConstants
  <2>3. a * SLICES = b * SLICES + SLICES + k * SLICES
    BY <2>1, ReaderConstants
  <2> DEFINE as == a * SLICES
             bs == b * SLICES
             ks == k * SLICES
  <2>4. as \in Int /\ bs \in Int /\ ks \in Int /\ SLICES \in Int
    BY <2>1, ReaderConstants
  <2>5. as = bs + SLICES + ks /\ ks >= 0 /\ as + r = bs /\ SLICES > 0
    BY <2>2, <2>3
  <2> HIDE DEF as, bs, ks
  <2> QED BY <2>4, <2>5
<1> QED BY <1>1, <1>2

\* A beat is counted once, in the frame it belongs to; a frame that the FIFO takes
\* stays counted.
LEMMA ReceivedStep ==
  ASSUME ReaderIInv, NEW in \in ReaderInputs, Busy(in), ~draining(in), ~finishing(in), slice \in 0..(SLICES - 1)
  PROVE  /\ slice' \in 0..(SLICES - 1)
         /\ Received \in Int
         /\ Received' = Received + (IF r_fire(in) THEN 1 ELSE 0)
<1>1. /\ delivered' = (IF frame_fire THEN delivered + 1 ELSE delivered)
      /\ frame_valid' = (completes(in) \/ (frame_valid /\ ~frame_ready))
      /\ slice' = (IF r_fire(in) THEN (slice + 1) % SLICES ELSE slice)
  BY DEF Busy, ReturnBeat, Status
<1>2. delivered \in Int /\ frame_valid \in BOOLEAN /\ SLICES \in Nat \ {0} /\ slice \in Int
  BY ReaderConstants DEF ReaderIInv, Ranges
<1>3. /\ (delivered + 1) * SLICES = delivered * SLICES + SLICES
      /\ delivered * SLICES \in Int
  BY <1>2, FrameBeats
<1> DEFINE ds == delivered * SLICES
<1>4. delivered' * SLICES = (IF frame_fire THEN ds + SLICES ELSE ds)
  BY <1>1, <1>3
<1>5. slice' = IF r_fire(in) THEN (IF slice = SLICES - 1 THEN 0 ELSE slice + 1) ELSE slice
  <2>1. slice = SLICES - 1 => (slice + 1) % SLICES = 0
    BY <1>2
  <2>2. slice # SLICES - 1 => (slice + 1) % SLICES = slice + 1
    BY <1>2
  <2> QED BY <1>1, <2>1, <2>2
<1>6. slice' \in 0..(SLICES - 1)
  BY <1>2, <1>5
<1> HIDE DEF ds
<1>7. ds \in Int /\ Received = ds + (IF frame_valid THEN SLICES ELSE 0) + slice
  BY <1>3 DEF ds, Received
<1>8. Received' = (IF frame_fire THEN ds + SLICES ELSE ds) + (IF frame_valid' THEN SLICES ELSE 0) + slice'
  BY <1>4 DEF Received
<1>9. r_fire(in) => (~frame_valid \/ frame_ready)
  BY DEF r_fire, rready
<1>10. frame_fire <=> frame_valid /\ frame_ready
  BY DEF frame_fire
<1>11. completes(in) <=> r_fire(in) /\ slice = SLICES - 1
  BY DEF completes
<1>12. Received' = Received + (IF r_fire(in) THEN 1 ELSE 0)
  <2>1. CASE r_fire(in)
    <3>1. frame_fire <=> frame_valid
      BY <1>9, <1>10, <2>1
    <3>2. frame_valid' <=> slice = SLICES - 1
      BY <1>1, <1>9, <1>11, <2>1
    <3>3. slice' = IF slice = SLICES - 1 THEN 0 ELSE slice + 1
      BY <1>5, <2>1
    <3>4. CASE slice = SLICES - 1
      <4>1. Received' = (IF frame_valid THEN ds + SLICES ELSE ds) + SLICES + 0
        BY <1>8, <3>1, <3>2, <3>3, <3>4
      <4> QED BY <1>2, <1>7, <2>1, <3>4, <4>1
    <3>5. CASE slice # SLICES - 1
      <4>1. Received' = (IF frame_valid THEN ds + SLICES ELSE ds) + 0 + (slice + 1)
        BY <1>8, <3>1, <3>2, <3>3, <3>5
      <4> QED BY <1>2, <1>7, <2>1, <4>1
    <3> QED BY <3>4, <3>5
  <2>2. CASE ~r_fire(in)
    <3>1. frame_valid' <=> frame_valid /\ ~frame_ready
      BY <1>1, <1>11, <2>2
    <3>2. Received' = (IF frame_valid /\ frame_ready THEN ds + SLICES ELSE ds)
                      + (IF frame_valid /\ ~frame_ready THEN SLICES ELSE 0) + slice
      BY <1>5, <1>8, <1>10, <2>2, <3>1
    <3> QED BY <1>2, <1>7, <2>2, <3>2
  <2> QED BY <2>1, <2>2
<1>13. Received \in Int
  BY <1>2, <1>7
<1> QED BY <1>6, <1>12, <1>13

\* The bursts of an undisturbed read stay a chain: a beat is counted where it
\* arrives, a burst that retires has returned every beat it asked for.
LEMMA CleanStep ==
  ASSUME ReaderIInv, DeliveryInv, NEW in \in ReaderInputs, Busy(in), ~draining(in), ~finishing(in), Clean
  PROVE  CleanInv'
<1>0. CleanInv /\ slice \in 0..(SLICES - 1) /\ returned \in Nat /\ bursts \in Seq(Nat)
  BY DEF DeliveryInv, ReaderIInv, Ranges
<1>1. /\ bursts' = (IF retiring(in) THEN Tail(bursts) ELSE bursts)
                     \o (IF ar_fire(in) THEN <<pending * SLICES>> ELSE <<>>)
      /\ returned' = (IF retiring(in) THEN 0
                      ELSE IF r_fire(in) THEN Min({returned + 1, BURST_FRAMES * SLICES})
                      ELSE returned)
      /\ remaining' = (IF ar_fire(in) THEN remaining - pending ELSE remaining)
      /\ total' = total
  BY DEF Busy, ReturnBeat, IssueRequest
<1>2. Received \in Int /\ Received' = Received + (IF r_fire(in) THEN 1 ELSE 0)
  BY <1>0, ReceivedStep
<1>3. r_fire(in) => bursts # <<>> /\ (retiring(in) <=> returned + 1 = Head(bursts))
  BY DEF r_fire, rready, retiring, draining, r_fault, ReaderInputs
<1>4. retiring(in) => r_fire(in)
  BY DEF retiring
<1>5. /\ ReaderChain(bursts, Received - returned, (total - remaining) * SLICES)
      /\ \A i \in 1..Len(bursts) : bursts[i] \in 1..(BURST_FRAMES * SLICES)
      /\ IF bursts = <<>> THEN returned = 0 ELSE returned < Head(bursts)
  BY <1>0 DEF CleanInv
<1>6. BURST_FRAMES * SLICES \in Nat /\ SLICES \in Nat \ {0} /\ BURST_FRAMES \in Nat \ {0}
  BY ReaderConstants
<1> DEFINE cap == BURST_FRAMES * SLICES
           t == IF retiring(in) THEN Tail(bursts) ELSE bursts
           lo == Received - returned
           hi == (total - remaining) * SLICES
<1>7. hi \in Int /\ lo \in Int
  BY <1>0, <1>2, ReaderConstants DEF ReaderIInv, Ranges
<1>8. bursts # <<>> => Head(bursts) \in 1..cap
  <2>1. bursts # <<>> => Head(bursts) = bursts[1] /\ 1 \in 1..Len(bursts)
    BY <1>0
  <2> QED BY <1>5, <2>1
<1> HIDE DEF cap, t, lo, hi
\* The beat.
<1>9. returned' = (IF retiring(in) THEN 0 ELSE IF r_fire(in) THEN returned + 1 ELSE returned)
  <2>1. CASE r_fire(in) /\ ~retiring(in)
    <3>1. returned + 1 < Head(bursts) /\ Head(bursts) <= cap /\ cap \in Int
      BY <1>0, <1>3, <1>5, <1>6, <1>8, <2>1 DEF cap
    <3>2. Min({returned + 1, cap}) = returned + 1
      <4> DEFINE a == returned + 1
      <4>1. a \in Int /\ a < cap
        BY <1>0, <1>8, <3>1, <1>3, <2>1
      <4> HIDE DEF a
      <4>2. \A x \in {a, cap} : (\A y \in {a, cap} : x <= y) <=> x = a
        BY <3>1, <4>1
      <4>3. Min({a, cap}) = a
        BY <4>2 DEF Min
      <4> QED BY <4>3 DEF a
    <3> QED BY <1>1, <2>1, <3>2 DEF cap
  <2>2. CASE ~(r_fire(in) /\ ~retiring(in))
    BY <1>1, <1>4, <2>2
  <2> QED BY <2>1, <2>2
<1>10. /\ t \in Seq(Nat)
       /\ \A i \in 1..Len(t) : t[i] \in 1..cap
       /\ IF t = <<>> THEN returned' = 0 ELSE returned' < Head(t)
       /\ ReaderChain(t, Received' - returned', hi)
  <2>1. CASE retiring(in)
    <3>1. bursts # <<>> /\ returned + 1 = Head(bursts) /\ t = Tail(bursts) /\ returned' = 0
      BY <1>3, <1>4, <1>9, <2>1 DEF t
    <3>2. /\ t \in Seq(Nat) /\ Len(t) = Len(bursts) - 1 /\ Len(bursts) \in Nat \ {0}
          /\ \A i \in 1..Len(t) : t[i] = bursts[i + 1]
      BY <1>0, <3>1
    <3>3. ASSUME NEW i \in 1..Len(t) PROVE t[i] \in 1..cap
      <4>1. i + 1 \in 1..Len(bursts)
        BY <3>2
      <4>2. bursts[i + 1] \in 1..cap
        BY <1>5, <4>1 DEF cap
      <4> QED BY <3>2, <4>2
    <3>4. t # <<>> => Head(t) = t[1] /\ 1 \in 1..Len(t)
      BY <3>2
    <3>5. ReaderChain(t, lo + Head(bursts), hi)
      BY <1>0, <1>5, <1>7, <3>1, ChainTail DEF lo, hi
    <3>6. Received' - returned' = lo + Head(bursts)
      BY <1>0, <1>2, <1>4, <2>1, <3>1 DEF lo
    <3>7. t # <<>> => 0 < Head(t)
      BY <3>3, <3>4
    <3> QED BY <3>1, <3>2, <3>3, <3>5, <3>6, <3>7
  <2>2. CASE ~retiring(in)
    <3>1. t = bursts
      BY <2>2 DEF t
    <3>2. Received' - returned' = lo
      <4>1. CASE r_fire(in)
        BY <1>0, <1>2, <1>9, <2>2, <4>1 DEF lo
      <4>2. CASE ~r_fire(in)
        BY <1>0, <1>2, <1>9, <2>2, <4>2 DEF lo
      <4> QED BY <4>1, <4>2
    <3>3. IF t = <<>> THEN returned' = 0 ELSE returned' < Head(t)
      BY <1>0, <1>3, <1>5, <1>8, <1>9, <2>2, <3>1
    <3> QED BY <1>0, <1>5, <3>1, <3>2, <3>3 DEF lo, hi, cap
  <2> QED BY <2>1, <2>2
\* The request.
<1>11. CASE ~ar_fire(in)
  <2>1. bursts' = t /\ remaining' = remaining
    <3>1. t \o <<>> = t
      BY <1>10
    <3> QED BY <1>1, <1>11, <3>1 DEF t
  <2>2. (total' - remaining') * SLICES = hi
    BY <1>1, <2>1 DEF hi
  <2> QED BY <1>10, <2>1, <2>2 DEF CleanInv, cap
<1>12. CASE ar_fire(in)
  <2> DEFINE x == pending * SLICES
  <2>1. pending \in 1..BURST_FRAMES
    BY <1>12 DEF ar_fire, DeliveryInv, ReaderIInv, RequestInBounds, Ranges
  <2>2. x \in 1..cap
    <3>1. PICK k \in Nat : BURST_FRAMES = pending + k
      <4>1. BURST_FRAMES - pending \in Nat /\ BURST_FRAMES = pending + (BURST_FRAMES - pending)
        BY <1>6, <2>1
      <4> QED BY <4>1
    <3>2. cap = x + k * SLICES /\ k * SLICES \in Nat
      BY <1>6, <2>1, <3>1 DEF cap
    <3>3. PICK j \in Nat : pending = j + 1
      <4>1. pending - 1 \in Nat /\ pending = (pending - 1) + 1
        BY <2>1
      <4> QED BY <4>1
    <3>4. x = j * SLICES + SLICES /\ j * SLICES \in Nat
      BY <1>6, <3>3
    <3> HIDE DEF x
    <3> QED BY <1>6, <3>2, <3>4
  <2>3. bursts' = t \o <<x>> /\ remaining' = remaining - pending
    BY <1>1, <1>12 DEF t
  <2>4. (total' - remaining') * SLICES = hi + x
    <3>1. total - (remaining - pending) = (total - remaining) + pending
      BY <2>1 DEF ReaderIInv, Ranges
    <3>2. total - remaining \in Int /\ pending \in Int
      BY <2>1 DEF ReaderIInv, Ranges
    <3>3. ((total - remaining) + pending) * SLICES = hi + x
      BY <3>2, FrameBeats DEF hi
    <3> QED BY <1>1, <2>3, <3>1, <3>3
  <2> HIDE DEF x
  <2>5. x \in Nat
    BY <2>2
  <2>6. ReaderChain(t \o <<x>>, Received' - returned', hi + x)
    <3>1. Received' - returned' \in Int
      BY <1>0, <1>2, <1>9
    <3> QED BY <1>7, <1>10, <2>5, <3>1, ChainAppend
  <2>7. /\ Len(t) \in Nat /\ Len(t \o <<x>>) = Len(t) + 1
        /\ (t \o <<x>>)[Len(t) + 1] = x
        /\ \A i \in 1..Len(t) : (t \o <<x>>)[i] = t[i]
    BY <1>10, <2>5
  <2>8. \A i \in 1..Len(bursts') : bursts'[i] \in 1..cap
    BY <1>10, <2>2, <2>3, <2>7
  <2>9. bursts' # <<>> /\ returned' < Head(bursts')
    <3>1. CASE t = <<>>
      <4>1. Head(t \o <<x>>) = x
        BY <3>1
      <4> QED BY <1>10, <2>2, <2>3, <2>7, <3>1, <4>1
    <3>2. CASE t # <<>>
      <4>1. Head(t \o <<x>>) = Head(t)
        BY <1>10, <2>5, <3>2
      <4> QED BY <1>10, <2>3, <2>7, <3>2, <4>1
    <3> QED BY <3>1, <3>2
  <2> QED BY <2>3, <2>4, <2>6, <2>8, <2>9 DEF CleanInv, cap
<1> QED BY <1>11, <1>12

\* A read that ends undisturbed, with nothing in flight, has delivered every frame.
LEMMA FinishedIsDelivered ==
  ASSUME ReaderIInv, DeliveryInv, Clean, bursts = <<>>, ~frame_valid, remaining = 0
  PROVE  delivered = total
<1>1. CleanInv /\ slice \in 0..(SLICES - 1)
  BY DEF DeliveryInv
<1>2. returned = 0 /\ Received - returned = (total - remaining) * SLICES
  BY <1>1, ChainEmpty DEF CleanInv
<1>3. delivered \in Int /\ total \in Int
  BY DEF ReaderIInv, Ranges
<1>4. delivered * SLICES \in Int
  BY <1>3, FrameBeats
<1>5. Received - 0 = delivered * SLICES + slice
  BY <1>1, <1>4, ReaderConstants DEF Received
<1>6. (total - 0) * SLICES = total * SLICES
  BY <1>3
<1> QED BY <1>1, <1>2, <1>3, <1>5, <1>6, WholeFrames

\* One edge keeps what a read has delivered in step with what it asked for.
LEMMA DeliveryStep == ReaderIInv /\ DeliveryInv /\ [ReaderEdge]_rdVars => DeliveryInv'
<1>1. ASSUME ReaderIInv, DeliveryInv, NEW in \in ReaderInputs, ReaderClock(in) PROVE DeliveryInv'
  <2>0. /\ slice \in 0..(SLICES - 1) /\ returned \in Nat /\ (arvalid => pending <= BURST_FRAMES)
        /\ 0 \in 0..(SLICES - 1) /\ BURST_FRAMES * SLICES \in Nat
    BY <1>1, ReaderConstants DEF DeliveryInv
  <2>1. CASE Start(in)
    <3>1. /\ bursts' = <<>> /\ returned' = 0 /\ slice' = 0 /\ frame_valid' = FALSE /\ delivered' = 0
          /\ done' = FALSE /\ arvalid' = arvalid /\ pending' = pending
          /\ total' = in.total /\ remaining' = in.total /\ in.total \in Int
      BY <2>1 DEF Start, ReaderInputs
    <3>2. CleanInv'
      <4>1. Received' - returned' = 0 /\ (total' - remaining') * SLICES = 0
        BY <3>1, ReaderConstants DEF Received
      <4>2. ReaderChain(<<>>, 0, 0)
        <5> DEFINE c == [i \in 0..0 |-> 0]
        <5>1. Len(<<>>) = 0 /\ c \in [0..0 -> Int] /\ c[0] = 0
          OBVIOUS
        <5> HIDE DEF c
        <5> QED BY <5>1 DEF ReaderChain
      <4> QED BY <3>1, <4>1, <4>2 DEF CleanInv
    <3> QED BY <2>0, <3>1, <3>2 DEF DeliveryInv, DoneMeansDelivered
  <2>2. CASE BadStart(in)
    <3>1. /\ returned' = 0 /\ slice' = 0 /\ done' = FALSE /\ error' = "bad_start"
          /\ arvalid' = arvalid /\ pending' = pending
      BY <2>2 DEF BadStart
    <3> QED BY <2>0, <3>1 DEF DeliveryInv, Clean, DoneMeansDelivered
  <2>3. CASE Idle(in)
    <3>1. /\ ~busy /\ busy' = busy /\ done' = FALSE
          /\ UNCHANGED <<arvalid, pending, slice, returned>>
      BY <2>3 DEF Idle, request, returns
    <3> QED BY <2>0, <3>1 DEF DeliveryInv, Clean, DoneMeansDelivered
  <2>4. CASE Busy(in)
    <3>1. slice' \in 0..(SLICES - 1)
      <4>1. slice' \in {0, slice, (slice + 1) % SLICES}
        BY <2>4 DEF Busy, Status
      <4>2. (slice + 1) % SLICES \in 0..(SLICES - 1)
        BY <2>0, ReaderConstants
      <4> QED BY <2>0, <4>1, <4>2
    <3>2. returned' \in Nat
      <4> DEFINE cap == BURST_FRAMES * SLICES
      <4>1. cap \in Nat /\ returned + 1 \in Nat
        BY <2>0
      <4>2. returned' \in {0, returned, Min({returned + 1, cap})}
        BY <2>4 DEF Busy, ReturnBeat
      <4> HIDE DEF cap
      <4>3. \E x \in {returned + 1, cap} : \A y \in {returned + 1, cap} : x <= y
        BY <4>1
      <4>4. Min({returned + 1, cap}) \in {returned + 1, cap}
        BY <4>3 DEF Min
      <4> QED BY <2>0, <4>1, <4>2, <4>4
    <3>3. arvalid' => pending' <= BURST_FRAMES
      <4>1. CASE reserve_new(in)
        <5>1. proposed_frames <= BURST_FRAMES
          BY <1>1, <4>1, ProposedBurst DEF ReaderIInv, reserve_new
        <5> QED BY <2>4, <4>1, <5>1 DEF Busy, IssueRequest
      <4>2. CASE ~reserve_new(in)
        BY <2>0, <2>4, <4>2 DEF Busy, IssueRequest
      <4> QED BY <4>1, <4>2
    <3>4. Clean' => CleanInv'
      <4> SUFFICES ASSUME Clean' PROVE CleanInv'
        OBVIOUS
      <4>1. Clean /\ ~draining(in) /\ ~finishing(in)
        <5>1. ~finishing(in) /\ ~cancelled /\ ~in.cancel /\ busy
          BY <2>4 DEF Clean, Busy, Status
        <5>2. error = "none" /\ ~r_fault(in)
          BY <2>4 DEF Clean, Busy, Status
        <5> QED BY <5>1, <5>2 DEF Clean, draining
      <4> QED BY <1>1, <2>4, <4>1, CleanStep
    <3>5. DoneMeansDelivered'
      <4> SUFFICES ASSUME done' PROVE delivered' = total' /\ ~cancelled' /\ error' = "none"
        BY DEF DoneMeansDelivered
      <4>1. finishing(in) /\ ~draining(in) /\ busy
        BY <2>4 DEF Busy, Status, succeeds
      <4>2. /\ ~cancelled /\ ~in.cancel /\ error = "none" /\ ~r_fault(in)
            /\ ~arvalid /\ bursts = <<>> /\ ~frame_valid /\ remaining = 0
        BY <4>1 DEF draining, finishing
      <4>3. delivered' = delivered /\ total' = total
        BY <2>4, <4>2 DEF Busy, IssueRequest, frame_fire
      <4>4. delivered = total
        BY <1>1, <4>1, <4>2, FinishedIsDelivered DEF Clean
      <4>5. ~cancelled' /\ error' = "none"
        BY <2>4, <4>2 DEF Busy, Status, timed_out, owes_progress
      <4> QED BY <4>3, <4>4, <4>5
    <3> QED BY <3>1, <3>2, <3>3, <3>4, <3>5 DEF DeliveryInv
  <2> QED BY <1>1, <2>1, <2>2, <2>3, <2>4 DEF ReaderClock
<1>2. ASSUME DeliveryInv, UNCHANGED rdVars PROVE DeliveryInv'
  BY <1>2 DEF DeliveryInv, Clean, CleanInv, Received, ReaderChain, DoneMeansDelivered, rdVars, status, request, returns
<1> QED BY <1>1, <1>2 DEF ReaderEdge

\* done is reported only for a read whose every frame the FIFO has taken, and never
\* for one that was cancelled, met a fault or timed out.
THEOREM DoneSafe == ReaderSpec => []DoneMeansDelivered
<1>1. ReaderInit => DeliveryInv
  BY ReaderConstants DEF ReaderInit, DeliveryInv, Clean, DoneMeansDelivered
<1>2. DeliveryInv => DoneMeansDelivered
  BY DEF DeliveryInv
<1>3. ReaderSpec => []DeliveryInv
  BY <1>1, DeliveryStep, ReaderInvariantHolds, PTL DEF ReaderSpec
<1> QED BY <1>2, <1>3, PTL
=============================================================================
