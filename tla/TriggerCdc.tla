----------------------------- MODULE TriggerCdc -----------------------------
(***************************************************************************)
(* The capture of the trigger pad, waveform_trigger_cdc.v.  A step is one   *)
(* edge of clk with what the pad did since the edge before: level is the   *)
(* pad at the edge, rose says whether it rose in between, also for less    *)
(* than a clock.  A flop that samples a signal which changed in between    *)
(* may take the old value.                                                 *)
(*                                                                         *)
(* History: an episode is what the latch holds from a rise that finds it    *)
(* clear until it is cleared.  edge says how the rise of the present one    *)
(* came, until the synchronizer has seen it: with the window shut           *)
(* (wait_trigger low, then or later), in the guard after it opened, or in   *)
(* the open window; later images of the episode are "same".  image is what  *)
(* the synchronizer holds of each.  age counts the clocks since a rise met  *)
(* an armed circuit.                                                       *)
(***************************************************************************)
EXTENDS Naturals

CONSTANTS LOW,     \* clocks of quiet that end an episode (4)
          QUIET,   \* observations of the guard (5)
          WINDOW   \* registers that delay the permission (4)

\* The synchronizer has three flops: the guard is longer, the window not by more
\* than one.
ASSUME GuardAssumption == LOW \in Nat \ {0} /\ QUIET \in Nat /\ QUIET > 3 /\ WINDOW \in 1..4

VARIABLES pad, latch, sync_ff, raw_sync, low_cycles, wait_quiet_cycles, wait_history, armed,
          wait_trigger, edge, image, age

triggerVars == <<pad, latch, sync_ff, raw_sync, low_cycles, wait_quiet_cycles, wait_history,
                 armed, wait_trigger, edge, image, age>>

TriggerInit ==
  /\ pad = FALSE /\ latch = FALSE
  /\ sync_ff = <<FALSE, FALSE, FALSE>> /\ raw_sync = <<FALSE, FALSE, FALSE>>
  /\ low_cycles = 0 /\ wait_quiet_cycles = 0
  /\ wait_history = [i \in 1..WINDOW |-> FALSE]
  /\ armed = FALSE /\ wait_trigger = FALSE
  /\ edge = "none" /\ image = <<"none", "none", "none">> /\ age = 0

low_qualified == low_cycles = LOW
captured == armed /\ sync_ff[3]
wait_qualified == wait_trigger /\ wait_quiet_cycles = QUIET

\* Variant: being in WAIT_TRIGGER is permission enough.
admitted_at_once == wait_trigger

admitted == wait_qualified /\ wait_history[WINDOW]
trigger_event == captured /\ admitted
quiet == low_qualified /\ ~sync_ff[3] /\ ~raw_sync[3]

\* Variant: the latch is cleared whether or not its edge was captured.
clears_any(level) == ~level /\ low_qualified

clears(level) == ~level /\ ~armed /\ low_qualified

\* The pad sets the latch at any time; the clock clears it after an episode.
Latch(level, rose) == latch' = (level \/ ((latch \/ rose) /\ ~clears(level)))

Synchronizers(level, rose) ==
  /\ \E seen \in {latch \/ rose, latch} : sync_ff' = <<seen, sync_ff[1], sync_ff[2]>>
  /\ \E seen \in {level} \cup IF rose \/ pad # level THEN BOOLEAN ELSE {} :
       raw_sync' = <<seen, raw_sync[1], raw_sync[2]>>
  /\ low_cycles' = IF raw_sync[3] THEN 0 ELSE IF low_qualified THEN low_cycles ELSE low_cycles + 1

\* The guard on entry to WAIT_TRIGGER counts while nothing is on its way.
Window ==
  /\ wait_history' = [i \in 1..WINDOW |-> IF i = 1 THEN wait_qualified ELSE wait_history[i - 1]]
  /\ wait_quiet_cycles' =
       CASE ~wait_trigger -> 0
         [] wait_trigger /\ wait_qualified -> wait_quiet_cycles
         [] OTHER -> IF armed /\ quiet THEN wait_quiet_cycles + 1 ELSE 0

Arm == armed' = IF captured THEN FALSE ELSE armed \/ quiet

Kind == CASE ~wait_trigger -> "shut"
          [] wait_trigger /\ wait_qualified /\ wait_history[1] -> "open"
          [] OTHER -> "guard"

\* The latch names its episode in the first image only.
Observe(rose) ==
  LET held == IF latch THEN edge ELSE IF rose THEN Kind ELSE "none"
      Later(k) == IF k \in {"guard", "open"} /\ ~wait_trigger' THEN "shut" ELSE k
  IN  /\ image' = <<IF sync_ff'[1] THEN Later(held) ELSE "none", Later(image[1]), Later(image[2])>>
      /\ edge' = CASE ~latch' -> "none"
                   [] latch' /\ sync_ff'[1] -> "same"
                   [] OTHER -> Later(held)
      /\ age' = CASE captured -> 0
                  [] ~captured /\ age > 0 -> age + 1
                  [] OTHER -> IF rose /\ armed /\ ~latch THEN 1 ELSE 0

TriggerClock ==
  \E level, rose, waits \in BOOLEAN :
    /\ level /\ ~pad => rose
    /\ pad' = level /\ wait_trigger' = waits
    /\ Latch(level, rose) /\ Synchronizers(level, rose) /\ Window /\ Arm
    /\ Observe(rose)

TriggerNext == TriggerClock
TriggerSpec == TriggerInit /\ [][TriggerNext]_triggerVars

-----------------------------------------------------------------------------
\* An edge that meets an armed circuit is captured, within four clocks and
\* however short it was; nothing is captured twice: a wide pulse, ringing or
\* the latch of an episode that is over make no second capture.
EachEdgeOnce == /\ age <= 4
                /\ captured => image[3] \notin {"none", "same"}

\* The window decides by the moment of the edge: one that came while the
\* controller was not in WAIT_TRIGGER never starts a playback, though it comes
\* out of the synchronizer after the window has opened, and one that came in
\* the open window does.
WindowDecides == captured => /\ image[3] = "shut" => ~admitted
                             /\ image[3] = "open" => admitted
=============================================================================
