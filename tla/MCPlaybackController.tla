----------------------- MODULE MCPlaybackController -----------------------
(* The blocks of the playback path, one at a time: the admission controller *)
(* with counters that wrap at 4 and at most three passes, the status bridge *)
(* with a record of two bits, the trigger capture with the lengths of the   *)
(* code, and the read engine with two-beat frames, two-frame bursts, pages  *)
(* of three frames and a FIFO shorter than the longest descriptor.          *)
EXTENDS PlaybackController, StatusCdc, TriggerCdc, DdrReader

VARIABLE block

MCLoops == 1..3
MCBits == {1, 2}
MCRecords == {1, 2}

allVars == <<block, ctlVars, statusVars, triggerVars, rdVars>>

MCInit == /\ block \in {"controller", "status", "trigger", "reader"}
          /\ Init /\ StatusInit /\ TriggerInit /\ ReaderInit

\* A step of one block; the others stay as they are.
Only(b, step) == block = b /\ step /\ UNCHANGED block

ControllerStep == Only("controller", Edge) /\ UNCHANGED <<statusVars, triggerVars, rdVars>>
DdrStep == Only("status", StatusDdrEdge) /\ UNCHANGED <<ctlVars, triggerVars, rdVars>>
DacStep == Only("status", StatusDacEdge) /\ UNCHANGED <<ctlVars, triggerVars, rdVars>>
TriggerStep == Only("trigger", TriggerNext) /\ UNCHANGED <<ctlVars, statusVars, rdVars>>
Reader(step) == Only("reader", step) /\ UNCHANGED <<ctlVars, statusVars, triggerVars>>

MCNext == ControllerStep \/ DdrStep \/ DacStep \/ TriggerStep \/ Reader(ReaderEdge)

MCFairness ==
  /\ WF_allVars(DdrStep) /\ WF_allVars(DacStep)
  /\ WF_allVars(Reader(Tick)) /\ WF_allVars(Reader(Accept)) /\ SF_allVars(Reader(Retire))

MCSpec == MCInit /\ [][MCNext]_allVars /\ MCFairness
=============================================================================
