----------------------------- MODULE StatusCdc -----------------------------
(***************************************************************************)
(* The bridge that carries the DAC-domain status record to the DDR domain, *)
(* waveform_status_cdc.v.  A step is one rising edge of one of the clocks,  *)
(* in any order and ratio.                                                 *)
(*                                                                         *)
(* A register is seen from the other clock as it was before its last edge  *)
(* or as it is after it, each bit on its own, until the sampling clock has *)
(* had an edge: wasHold, wasAck and wasToggle are the values before.       *)
(*                                                                         *)
(* The record at a DAC edge is a member of Records, all bits of which are   *)
(* named by it; a sampled record has a name for every bit.                 *)
(*                                                                         *)
(* History: since is the set of the records the DAC domain had at its edges *)
(* after the request was accepted.                                         *)
(***************************************************************************)
EXTENDS Naturals

CONSTANTS Bits, Records,
          Reset     \* the record of zeros

VARIABLES ddr, dac, wasHold, wasAck, wasToggle, since

statusVars == <<ddr, dac, wasHold, wasAck, wasToggle, since>>

Shift(chain, bit) == <<bit, chain[1], chain[2]>>
AllBits(r) == [b \in Bits |-> r]

StatusInit ==
  /\ ddr = [request_toggle |-> FALSE, busy |-> FALSE, valid |-> FALSE, data |-> AllBits(Reset),
            ack_sync |-> <<FALSE, FALSE, FALSE>>, ack_seen |-> FALSE, ack_pending |-> FALSE,
            meta |-> AllBits(Reset), sync |-> AllBits(Reset)]
  /\ dac = [hold |-> Reset, ack_toggle |-> FALSE,
            request_sync |-> <<FALSE, FALSE, FALSE>>, request_seen |-> FALSE]
  /\ wasHold = Reset /\ wasAck = FALSE /\ wasToggle = FALSE
  /\ since = {}

\* Variant: only a rising request is noticed.
requested_rising == dac.request_sync[3] /\ ~dac.request_seen

requested == dac.request_sync[3] # dac.request_seen

\* The DAC side takes the record when a request has come through and holds it.
StatusDacEdge ==
  \E source \in Records, sample \in {ddr.request_toggle, wasToggle} :
    /\ dac' = [hold |-> IF requested THEN source ELSE dac.hold,
               ack_toggle |-> IF requested THEN dac.request_sync[3] ELSE dac.ack_toggle,
               request_sync |-> Shift(dac.request_sync, sample),
               request_seen |-> IF requested THEN dac.request_sync[3] ELSE dac.request_seen]
    /\ wasHold' = dac.hold /\ wasAck' = dac.ack_toggle
    /\ wasToggle' = ddr.request_toggle
    /\ since' = since \cup {source}
    /\ UNCHANGED ddr

request_ready_ddr == ~ddr.busy /\ ~ddr.ack_pending

\* Variant: the acknowledgement is taken from the first flop of its chain.
acknowledged_early == ddr.busy /\ ~ddr.ack_pending /\ ddr.ack_sync[1] # ddr.ack_seen

acknowledged == ddr.busy /\ ~ddr.ack_pending /\ ddr.ack_sync[3] # ddr.ack_seen

StatusDdrEdge ==
  \E request \in BOOLEAN, ack \in {dac.ack_toggle, wasAck},
     sample \in [Bits -> {dac.hold, wasHold}] :
    LET accepted == request /\ request_ready_ddr
    IN  /\ ddr' = [request_toggle |-> IF accepted THEN ~ddr.request_toggle ELSE ddr.request_toggle,
                   busy |-> (ddr.busy \/ accepted) /\ ~ddr.ack_pending,
                   valid |-> ddr.ack_pending,
                   data |-> IF ddr.ack_pending THEN ddr.sync ELSE ddr.data,
                   ack_sync |-> Shift(ddr.ack_sync, ack),
                   ack_seen |-> IF acknowledged THEN ~ddr.ack_seen ELSE ddr.ack_seen,
                   ack_pending |-> acknowledged,
                   meta |-> sample, sync |-> ddr.meta]
        /\ since' = IF accepted THEN {} ELSE since
        /\ wasToggle' = ddr.request_toggle
        /\ wasHold' = dac.hold /\ wasAck' = dac.ack_toggle
        /\ UNCHANGED dac

StatusNext == StatusDacEdge \/ StatusDdrEdge

\* Both clocks are free-running.
StatusFairness == WF_statusVars(StatusDacEdge) /\ WF_statusVars(StatusDdrEdge)
StatusSpec == StatusInit /\ [][StatusNext]_statusVars /\ StatusFairness

-----------------------------------------------------------------------------
\* A snapshot is one state of the DAC domain, all its bits from the same edge,
\* and one it had after the request: never half of two records and never the
\* one of an earlier request ("coherent", the header of waveform_status_cdc.v).
SnapshotCoherent ==
  ddr.valid => \E r \in since : ddr.data = AllBits(r)

\* A STATUS the upload writer waits for in ST_FINAL is answered, for every
\* request in turn.
StatusAnswered == ddr.busy ~> ddr.valid
=============================================================================
