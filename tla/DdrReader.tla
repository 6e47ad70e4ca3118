------------------------------ MODULE DdrReader ------------------------------
(***************************************************************************)
(* The AXI read engine of the playback path, waveform_ddr_reader.v, with    *)
(* the FIFO it fills and the credit pipeline that reports the FIFO's free   *)
(* space (waveform_fifo_mask_adapter.v and one register of Top.v).  One     *)
(* Clock(in) step is one rising edge of the DDR clock; in holds the input   *)
(* wires.  A frame is one beat of all the DAC lanes; it takes SLICES beats  *)
(* of the AXI bus.  Addresses are frame numbers inside a PAGE (4 KiB).      *)
(*                                                                          *)
(* The AXI slave is external: it accepts requests, returns beats of the     *)
(* oldest burst only, and may answer with an error, end a burst early       *)
(* (RLAST too soon) or late, or stop answering.                             *)
(*                                                                          *)
(* delivered is history: the frames of the current read the FIFO has taken. *)
(***************************************************************************)
EXTENDS Naturals, Sequences, FiniteSetsExt

CONSTANTS FIFO_DEPTH,       \* frames the FIFO holds
          FIFO_RESET_CYCLES, \* length of a FIFO reset, 16 in Top.v
          CREDIT_LAG,       \* registers between the FIFO count and the credit
          BURST_FRAMES,     \* frames of one burst
          MAX_OUTSTANDING,  \* bursts in flight
          PAGE_FRAMES,      \* frames in a 4 KiB page
          SLICES,           \* AXI beats in a frame
          TIMEOUT_CYCLES,   \* watchdog
          MAX_TOTAL         \* longest descriptor, in frames

ASSUME ReaderConstants ==
  /\ FIFO_DEPTH \in Nat \ {0}
  /\ FIFO_RESET_CYCLES \in Nat \ {0}
  /\ CREDIT_LAG \in Nat
  /\ BURST_FRAMES \in Nat \ {0}
  /\ MAX_OUTSTANDING \in Nat \ {0}
  /\ PAGE_FRAMES \in Nat \ {0}
  /\ SLICES \in Nat \ {0}
  /\ TIMEOUT_CYCLES \in Nat \ {0}
  /\ MAX_TOTAL \in Nat \ {0}

VARIABLES busy, done, error, cancelled,   \* status registers
          total, remaining, page,         \* what is left to request, and where
          arvalid, pending,               \* the request on the bus
          bursts, returned,               \* beats of each burst in flight; of the oldest, returned
          slice, frame_valid,             \* frame assembly
          reserved, watchdog,
          level, reset_cnt, credit,       \* FIFO occupancy and reset, credit pipeline
          delivered

status  == <<busy, done, error, cancelled>>
request == <<total, remaining, page, arvalid, pending>>
returns == <<bursts, returned, slice, frame_valid>>
fifo    == <<level, reset_cnt, credit>>
rdVars  == <<status, request, returns, reserved, watchdog, fifo, delivered>>

Beats == 0..(BURST_FRAMES * SLICES)

-----------------------------------------------------------------------------
(* Wires.                                                                   *)

\* A FIFO in reset takes nothing.
frame_ready == level < FIFO_DEPTH /\ reset_cnt = 0
frame_fire  == frame_valid /\ frame_ready

rready == busy /\ bursts # <<>> /\ (~frame_valid \/ frame_ready)

\* The input wires; one that nobody looks at on this edge has one value.
ReaderInputs ==
  [start : {FALSE, ~busy}, cancel : BOOLEAN,
   total : IF busy THEN {1} ELSE 1..MAX_TOTAL, page : IF busy THEN {0} ELSE 0..(PAGE_FRAMES - 1),
   arready : {FALSE, arvalid}, rvalid : {FALSE, rready}, rlast : BOOLEAN, rresp_ok : BOOLEAN,
   pop : {FALSE, level > 0}]

Observed(in) ==
  /\ ~in.start => in.total = 1 /\ in.page = 0
  /\ ~in.rvalid => in.rlast /\ in.rresp_ok

ar_fire(in)  == arvalid /\ in.arready
r_fire(in)   == in.rvalid /\ rready
retiring(in) == r_fire(in) /\ in.rlast

r_fault(in) ==
  /\ r_fire(in)
  /\ ~in.rresp_ok \/ (in.rlast # (returned + 1 = Head(bursts)))

draining(in) == cancelled \/ in.cancel \/ error # "none" \/ r_fault(in)

\* The free space the reader sees, CREDIT_LAG cycles old.
free == IF credit = <<>> THEN FIFO_DEPTH - level ELSE Head(credit)

\* Variant: the clamp to the page end is missing.
proposed_frames_any_page ==
  IF free <= reserved THEN 0 ELSE Min({BURST_FRAMES, remaining, free - reserved})

\* Variant: space already reserved is offered again.
proposed_frames_unreserved ==
  IF free = 0 THEN 0 ELSE Min({BURST_FRAMES, remaining, PAGE_FRAMES - page, free})

\* A burst is clamped to the descriptor, to the page and to the credit.
proposed_frames ==
  IF free <= reserved THEN 0
  ELSE Min({BURST_FRAMES, remaining, PAGE_FRAMES - page, free - reserved})

reserve_new(in) ==
  /\ busy /\ ~draining(in) /\ ~arvalid /\ remaining # 0
  /\ IF BURST_FRAMES = 1 THEN bursts = <<>> ELSE Len(bursts) < MAX_OUTSTANDING
  /\ proposed_frames # 0

completes(in) == r_fire(in) /\ ~draining(in) /\ slice = SLICES - 1

\* Variant: a cancelled or failed read stops without draining the bus.
finishing_no_drain(in) ==
  \/ ~arvalid /\ bursts = <<>> /\ ~frame_valid /\ remaining = 0
  \/ ~frame_valid /\ (cancelled \/ in.cancel \/ error # "none")

\* The engine is quiescent and has nothing left to request.
finishing(in) ==
  /\ ~arvalid /\ bursts = <<>> /\ ~frame_valid
  /\ remaining = 0 \/ cancelled \/ in.cancel \/ error # "none"

\* Variant: a read succeeds when everything has been requested.
succeeds_all_requested(in) == finishing(in) /\ remaining = 0 /\ error = "none"

succeeds(in) == finishing(in) /\ ~draining(in)

-----------------------------------------------------------------------------
(* An edge that starts a read.  Only an idle engine looks at start.         *)

Start(in) ==
  /\ in.start /\ ~busy
  /\ busy' = TRUE /\ done' = FALSE /\ error' = "none" /\ cancelled' = FALSE
  /\ total' = in.total /\ remaining' = in.total /\ page' = in.page
  /\ bursts' = <<>> /\ returned' = 0 /\ slice' = 0 /\ frame_valid' = FALSE
  /\ reserved' = 0 /\ watchdog' = 0 /\ delivered' = 0
  /\ UNCHANGED <<arvalid, pending>>

\* A misaligned, empty or wrapping descriptor is refused.
BadStart(in) ==
  /\ in.start /\ ~busy
  /\ done' = FALSE /\ error' = "bad_start" /\ cancelled' = FALSE
  /\ total' = in.total /\ remaining' = in.total /\ page' = in.page
  /\ bursts' = <<>> /\ returned' = 0 /\ slice' = 0 /\ frame_valid' = FALSE
  /\ reserved' = 0 /\ watchdog' = 0 /\ delivered' = 0
  /\ UNCHANGED <<busy, arvalid, pending>>

Idle(in) ==
  /\ ~busy /\ ~in.start
  /\ done' = FALSE
  /\ UNCHANGED <<busy, error, cancelled, request, returns, reserved, watchdog, delivered>>

(* An edge of a busy engine: every group of registers moves at once.        *)

IssueRequest(in) ==
  /\ arvalid' = (reserve_new(in) \/ (arvalid /\ ~in.arready))
  /\ pending' = IF reserve_new(in) THEN proposed_frames ELSE pending
  /\ page' = IF ar_fire(in) THEN (page + pending) % PAGE_FRAMES ELSE page
  /\ remaining' = IF ar_fire(in) THEN remaining - pending ELSE remaining
  /\ UNCHANGED total

ReturnBeat(in) ==
  /\ bursts' = (IF retiring(in) THEN Tail(bursts) ELSE bursts)
                 \o (IF ar_fire(in) THEN <<pending * SLICES>> ELSE <<>>)
  /\ returned' = IF retiring(in) THEN 0
                 ELSE IF r_fire(in) THEN Min({returned + 1, BURST_FRAMES * SLICES})
                 ELSE returned
  /\ frame_valid' = (completes(in) \/ (frame_valid /\ ~frame_ready))

\* Variant: the space of a frame is given back when it is assembled.
ReserveEarlyRelease(in) ==
  reserved' = IF finishing(in) THEN 0
              ELSE reserved + (IF reserve_new(in) THEN proposed_frames ELSE 0)
                            - (IF completes(in) THEN 1 ELSE 0)

\* Credit is taken when a request is presented and given back frame by frame.
Reserve(in) ==
  reserved' = IF finishing(in) THEN 0
              ELSE reserved + (IF reserve_new(in) THEN proposed_frames ELSE 0)
                            - (IF frame_fire THEN 1 ELSE 0)

owes_progress(in) ==
  /\ ~ar_fire(in) /\ ~r_fire(in)
  /\ arvalid \/ (bursts # <<>> /\ rready)

Watch(in) ==
  watchdog' = IF owes_progress(in)
              THEN IF error = "none" /\ watchdog < TIMEOUT_CYCLES - 1
                   THEN watchdog + 1 ELSE watchdog
              ELSE 0

timed_out(in) == owes_progress(in) /\ watchdog = TIMEOUT_CYCLES - 1

Status(in) ==
  /\ error' = IF error # "none" THEN error
              ELSE IF timed_out(in) THEN "timeout"
              ELSE IF r_fault(in) THEN "resp" ELSE "none"
  /\ cancelled' = (cancelled \/ in.cancel)
  /\ busy' = ~finishing(in)
  /\ done' = succeeds(in)
  /\ slice' = IF finishing(in) THEN 0
              ELSE IF r_fire(in) /\ ~draining(in) THEN (slice + 1) % SLICES ELSE slice

Busy(in) ==
  /\ busy
  /\ IssueRequest(in) /\ ReturnBeat(in) /\ Reserve(in) /\ Watch(in) /\ Status(in)
  /\ delivered' = IF frame_fire THEN delivered + 1 ELSE delivered

\* Variant: a command resets the FIFO only once the reader is idle.
FifoClearWhenIdle(in) ==
  /\ reset_cnt' = IF in.cancel /\ ~busy THEN FIFO_RESET_CYCLES
                  ELSE IF reset_cnt > 0 THEN reset_cnt - 1 ELSE 0
  /\ level' = IF reset_cnt > 0 THEN 0
              ELSE level + (IF busy /\ frame_fire THEN 1 ELSE 0)
                         - (IF in.pop /\ level > 0 THEN 1 ELSE 0)
  /\ credit' = IF credit = <<>> THEN <<>>
               ELSE Append(Tail(credit), FIFO_DEPTH - level)

(* The FIFO and its credit.  A command that cancels the read also starts    *)
(* the FIFO reset, whatever the reader is doing; with an idle reader        *)
(* in.cancel stands for fifo_clear too.                                     *)
Fifo(in) ==
  /\ reset_cnt' = IF in.cancel THEN FIFO_RESET_CYCLES
                  ELSE IF reset_cnt > 0 THEN reset_cnt - 1 ELSE 0
  /\ level' = IF reset_cnt > 0 THEN 0
              ELSE level + (IF busy /\ frame_fire THEN 1 ELSE 0)
                         - (IF in.pop /\ level > 0 THEN 1 ELSE 0)
  /\ credit' = IF credit = <<>> THEN <<>>
               ELSE Append(Tail(credit), FIFO_DEPTH - level)

ReaderClock(in) ==
  /\ Start(in) \/ BadStart(in) \/ Idle(in) \/ Busy(in)
  /\ Fifo(in)

ReaderInit ==
  /\ busy = FALSE /\ done = FALSE /\ error = "none" /\ cancelled = FALSE
  /\ total = 0 /\ remaining = 0 /\ page = 0 /\ arvalid = FALSE /\ pending = 0
  /\ bursts = <<>> /\ returned = 0 /\ slice = 0 /\ frame_valid = FALSE
  /\ reserved = 0 /\ watchdog = 0
  /\ level = 0 /\ reset_cnt = 0 /\ credit = [i \in 1..CREDIT_LAG |-> 0]
  /\ delivered = 0

ReaderEdge == \E in \in ReaderInputs : Observed(in) /\ ReaderClock(in)

ReaderSpec == ReaderInit /\ [][ReaderEdge]_rdVars

-----------------------------------------------------------------------------
(* Fairness, for the liveness property only: the clock runs, and a slave    *)
(* accepts a waiting request and ends every burst at last.  Nothing is      *)
(* assumed of the DAC: it may never take a frame out of the FIFO.           *)

Tick   == \E in \in ReaderInputs : Observed(in) /\ ~in.pop /\ ~in.cancel /\ ~in.start /\ ReaderClock(in)
Accept == \E in \in ReaderInputs : Observed(in) /\ ar_fire(in) /\ ReaderClock(in)
Retire == \E in \in ReaderInputs : Observed(in) /\ retiring(in) /\ ReaderClock(in)

FairSpec == ReaderSpec /\ WF_rdVars(Tick) /\ WF_rdVars(Accept) /\ SF_rdVars(Retire)

-----------------------------------------------------------------------------
ReaderTypeOK ==
  /\ busy \in BOOLEAN /\ done \in BOOLEAN /\ cancelled \in BOOLEAN
  /\ error \in {"none", "bad_start", "resp", "timeout"}
  /\ total \in 0..MAX_TOTAL /\ remaining \in 0..MAX_TOTAL
  /\ page \in 0..(PAGE_FRAMES - 1)
  /\ arvalid \in BOOLEAN /\ pending \in 0..BURST_FRAMES
  /\ bursts \in Seq(Beats) /\ returned \in Beats
  /\ slice \in 0..(SLICES - 1) /\ frame_valid \in BOOLEAN
  /\ reserved \in 0..MAX_TOTAL /\ watchdog \in 0..(TIMEOUT_CYCLES - 1)
  /\ level \in 0..FIFO_DEPTH /\ reset_cnt \in 0..FIFO_RESET_CYCLES
  /\ credit \in Seq(0..FIFO_DEPTH) /\ Len(credit) = CREDIT_LAG
  /\ delivered \in 0..MAX_TOTAL

\* An engine that is not busy owns nothing on the bus and nothing towards the
\* FIFO, so the next start never abandons a transaction that is still live,
\* however the read ended: complete, cancelled, failed or timed out.
QuiescentWhenIdle == ~busy => ~arvalid /\ bursts = <<>> /\ ~frame_valid

\* The reserved counter is the number of frames asked for and not yet in the
\* FIFO: no space is leaked or given back twice, also while a cancelled read
\* drains and when a request and a frame hand-over meet on one edge.
ReservedIsInFlight ==
  busy => reserved + delivered + remaining =
            total + (IF arvalid THEN pending ELSE 0)

\* A request never crosses a 4 KiB page, never asks for frames past the end of
\* the descriptor and never is empty.
RequestInBounds ==
  arvalid => pending \in 1..remaining /\ page + pending <= PAGE_FRAMES

\* done is reported only for a read whose every frame the FIFO has taken; a
\* read that was cancelled, or that met a fault or a timeout, never reports it.
DoneMeansDelivered ==
  done => delivered = total /\ ~cancelled /\ error = "none"

\* The reader asks for no more than the free space, except for what the lag of
\* the credit hides: a frame that arrived since the count was taken has given
\* its reservation back and is not in the count yet.  The FIFO has to push back
\* at most one frame per register of the credit pipeline, and none without lag.
CreditNotOvercommitted == reserved + level <= FIFO_DEPTH + CREDIT_LAG

\* What the reader asks for is covered: every request is within the descriptor
\* and its page, every frame asked for is reserved until the FIFO has it, and
\* the reservations fit the FIFO.
RequestsCovered == RequestInBounds /\ ReservedIsInFlight /\ CreditNotOvercommitted

\* A cancelled read comes to rest, whatever was in flight when the command
\* came, once the bus has answered.
CancelQuiesces == cancelled ~> ~busy
=============================================================================
