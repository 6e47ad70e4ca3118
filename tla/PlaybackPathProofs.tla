-------------------------- MODULE PlaybackPathProofs --------------------------
(***************************************************************************)
(* Invariance proofs for PlaybackPath, for a driver that waits for the      *)
(* answer of a command before it sends the next one (~Pipelined): the       *)
(* controller is fed what PlaybackController assumes, so the path           *)
(* implements it; and, when no cancelling command meets a restart on its    *)
(* way (Racing = {}), the DAC takes the committed beats in order, does not  *)
(* underflow when the waveform fits the FIFO, and PREFETCH ends on the      *)
(* level of the FIFO.                                                       *)
(***************************************************************************)
EXTENDS PlaybackPath, SequenceTheorems, TLAPS

LOCAL INSTANCE SequencesExt

-----------------------------------------------------------------------------
(* One command at a time.                                                   *)

\* The command on its way to the controller, in the mailbox or in its FIFO.
flying == IF mailbox # <<>> THEN mailbox[1] ELSE IF cmd_fifo # <<>> THEN cmd_fifo[1] ELSE "none"

OneCommand ==
  /\ mailbox \in Seq(Waiting) /\ Len(mailbox) <= 1
  /\ cmd_fifo \in Seq(Waiting) /\ Len(cmd_fifo) <= 1
  /\ mailbox = <<>> \/ cmd_fifo = <<>>

\* A sequence of at most one element is empty or that element.
LEMMA ShortSeq ==
  ASSUME NEW S, NEW s \in Seq(S), Len(s) <= 1
  PROVE  /\ s = <<>> <=> Len(s) = 0
         /\ s # <<>> => s = <<s[1]>> /\ s[1] \in S /\ Head(s) = s[1] /\ Len(s) = 1
<1>1. CASE s # <<>>
  <2>1. Len(s) \in Nat \ {0}
    BY <1>1, EmptySeq
  <2>2. Len(s) = 1
    <3>1. \A n \in Nat \ {0} : n <= 1 => n = 1
      OBVIOUS
    <3> QED
      BY <2>1, <3>1, Zenon
  <2>3. s[1] \in S /\ Head(s) = s[1]
    BY <1>1, <2>2, ElementOfSeq, HeadTailProperties
  <2>4. <<s[1]>> \in Seq(S) /\ Len(<<s[1]>>) = 1 /\ <<s[1]>>[1] = s[1]
    BY <2>3
  <2>5. s = <<s[1]>>
    BY <2>2, <2>4, SeqEqual
  <2> QED
    BY <1>1, <2>2, <2>3, <2>5
<1>2. CASE s = <<>>
  BY <1>2
<1> QED
  BY <1>1, <1>2

LEMMA OneCommandCases ==
  ASSUME OneCommand
  PROVE  \/ mailbox = <<>> /\ cmd_fifo = <<>> /\ flying = "none"
         \/ /\ mailbox = <<flying>> /\ cmd_fifo = <<>> /\ flying \in Waiting
         \/ /\ mailbox = <<>> /\ cmd_fifo = <<flying>> /\ flying \in Waiting
<1>1. CASE mailbox # <<>>
  BY <1>1, ShortSeq DEF OneCommand, flying
<1>2. CASE mailbox = <<>>
  BY <1>2, ShortSeq DEF OneCommand, flying
<1> QED
  BY <1>1, <1>2

\* An edge of the DDR clock: a command enters, moves on or stays.
LEMMA FlightOfDdr ==
  ASSUME ~Pipelined, OneCommand, NEW in \in DdrInputs, DdrEdge(in)
  PROVE  /\ OneCommand'
         /\ \/ /\ in.cmd \in Waiting /\ flying = "none" /\ flying' = in.cmd
               /\ mailbox' = <<in.cmd>> /\ cmd_fifo' = <<>> /\ desc_fifo = <<>>
            \/ /\ in.cmd \in {"none", "status"} /\ mailbox' = mailbox /\ cmd_fifo' = cmd_fifo
               /\ flying' = flying
               /\ mailbox # <<>> => flying = "commit" /\ ~descriptor_accepted
            \/ /\ in.cmd \in {"none", "status"} /\ mailbox = <<flying>> /\ mailbox' = <<>>
               /\ cmd_fifo' = <<flying>> /\ flying' = flying /\ flying # "none"
               /\ flying = "commit" => descriptor_accepted
<1>1. in.cmd \in Waiting \cup {"none", "status"}
  BY PathConstants DEF DdrInputs, Waiting, Cancelling
<1>2. CASE in.cmd \in {"none", "status"}
  <2>1. mailbox' = (IF sends THEN Tail(mailbox) ELSE mailbox) \o <<>>
        /\ cmd_fifo' = IF sends THEN Append(cmd_fifo, Head(mailbox)) ELSE cmd_fifo
    BY <1>2 DEF DdrEdge, Mailbox
  <2>2. CASE sends
    <3>1. mailbox = <<flying>> /\ cmd_fifo = <<>> /\ flying \in Waiting
      BY <2>2, OneCommandCases DEF sends
    <3>2. mailbox' = <<>> /\ cmd_fifo' = <<flying>>
      BY <2>1, <2>2, <3>1
    <3>3. <<>> \in Seq(Waiting) /\ <<flying>> \in Seq(Waiting)
          /\ Len(<<>>) = 0 /\ Len(<<flying>>) = 1 /\ Head(<<flying>>) = flying
      BY <3>1
    <3>4. OneCommand' /\ flying' = flying
      BY <3>2, <3>3 DEF OneCommand, flying
    <3>5. flying # "none" /\ (flying = "commit" => descriptor_accepted)
      BY <2>2, <3>1, <3>3 DEF sends, head_waits, Waiting, Cancelling
    <3> QED
      BY <1>2, <3>1, <3>2, <3>4, <3>5
  <2>3. CASE ~sends
    <3>1. mailbox' = mailbox /\ cmd_fifo' = cmd_fifo
      BY <2>1, <2>3 DEF OneCommand
    <3>2. mailbox # <<>> => flying = "commit" /\ ~descriptor_accepted
      <4>1. CASE mailbox # <<>>
        <5>1. mailbox = <<flying>> /\ cmd_fifo = <<>>
          BY <4>1, OneCommandCases
        <5>2. Head(mailbox) = flying /\ Len(cmd_fifo) = 0
          BY <5>1
        <5> QED
          BY <2>3, <4>1, <5>2, PathConstants DEF sends, head_waits
      <4> QED
        BY <4>1
    <3> QED
      BY <1>2, <3>1, <3>2 DEF OneCommand, flying
  <2> QED
    BY <2>2, <2>3
<1>3. CASE in.cmd \in Waiting
  <2>1. in.cmd \notin {"none", "status"}
    BY <1>3 DEF Waiting, Cancelling
  <2>2. mailbox = <<>> /\ cmd_fifo = <<>> /\ desc_fifo = <<>>
    BY <2>1 DEF DdrEdge, Writer, Admitted, Crossed
  <2>3. ~sends
    BY <2>2 DEF sends
  <2>4. mailbox' = <<in.cmd>> /\ cmd_fifo' = <<>>
    BY <2>1, <2>2, <2>3 DEF DdrEdge, Mailbox
  <2> QED
    BY <1>3, <2>2, <2>4 DEF OneCommand, flying
<1> QED
  BY <1>1, <1>2, <1>3

\* An edge of the DAC clock: the command is taken or stays.
LEMMA FlightOfDac ==
  ASSUME OneCommand, NEW in \in DacInputs, DacEdge(in)
  PROVE  /\ OneCommand'
         /\ \/ /\ ~in.take /\ taken(in) = "none" /\ flying' = flying
               /\ mailbox' = mailbox /\ cmd_fifo' = cmd_fifo
            \/ /\ in.take /\ mailbox = <<>> /\ cmd_fifo = <<flying>> /\ taken(in) = flying
               /\ flying \in Waiting /\ flying' = "none" /\ mailbox' = <<>> /\ cmd_fifo' = <<>>
<1>1. /\ mailbox' = mailbox /\ in.take \in BOOLEAN /\ (in.take => cmd_fifo # <<>>)
      /\ cmd_fifo' = IF in.take THEN Tail(cmd_fifo) ELSE cmd_fifo
  BY DEF DacEdge, ddrSide, command, Descriptor, Shows, DacInputs
<1>2. CASE in.take
  <2>1. mailbox = <<>> /\ cmd_fifo = <<flying>> /\ flying \in Waiting
    BY <1>1, <1>2, OneCommandCases
  <2>2. mailbox' = <<>> /\ cmd_fifo' = <<>> /\ taken(in) = flying
    BY <1>1, <1>2, <2>1 DEF taken
  <2> QED
    BY <1>2, <2>1, <2>2 DEF OneCommand, flying
<1>3. CASE ~in.take
  BY <1>1, <1>3 DEF OneCommand, flying, taken
<1> QED
  BY <1>1, <1>2, <1>3

-----------------------------------------------------------------------------
(* What the controller does on an edge, in the terms of the path.           *)

\* The conditions that send the controller to ERROR.
Faulty ==
  \/ state \in {"PREFETCH", "WAIT_TRIGGER", "PLAYING", "DRAINING"} /\ error_sync[2]
  \/ state \in {"WAIT_TRIGGER", "PLAYING"} /\ (underflow \/ any_fifo_empty)
  \/ state = "WAIT_TRIGGER" /\ ~safe_sync[2]

\* Edges that leave the state as it is.
Stays(in) ==
  /\ taken(in) \notin {"abort", "begin"} /\ ~Faulty
  /\ \/ state \in {"IDLE", "ERROR"}
     \/ state = "UPLOAD" /\ taken(in) \notin {"commit", "stop"}
     \/ state \in {"READY", "DONE"} /\ taken(in) \notin {"play", "stop", "pause"}
     \/ state = "WAIT_TRIGGER" /\ taken(in) \notin {"play", "stop", "pause"}
     \/ /\ state = "PLAYING" /\ taken(in) \notin {"stop", "pause"}
        /\ ~(beat_fire(in) /\ position + 1 = total_dac)

\* The edge takes the last beat of a pass.
LastBeat(in) ==
  /\ taken(in) \notin Cancelling /\ ~Faulty
  /\ state = "PLAYING" /\ beat_fire(in) /\ position + 1 = total_dac

Moves(in) ==
  \/ taken(in) = "abort" /\ state' = "IDLE" /\ ~loop_restart'
  \/ taken(in) # "abort" /\ Faulty /\ state' = "ERROR" /\ ~loop_restart'
  \/ taken(in) = "begin" /\ state' = "UPLOAD" /\ ~loop_restart'
  \/ taken(in) = "stop" /\ state = "UPLOAD" /\ state' = "IDLE" /\ ~loop_restart'
  \/ /\ taken(in) \in {"stop", "pause"} /\ state \in Ctl!Stoppable /\ ~Faulty
     /\ state' = "READY" /\ ~loop_restart'
  \/ taken(in) = "commit" /\ state = "UPLOAD" /\ state' = "PREFETCH" /\ ~loop_restart'
  \/ /\ taken(in) = "play" /\ state \in {"READY", "DONE"}
     /\ state' = "PREFETCH" /\ loop_restart'
  \/ /\ taken(in) \notin Cancelling /\ ~Faulty /\ state = "PREFETCH" /\ prefetch_done
     /\ state' \in {"WAIT_TRIGGER", "PLAYING"} /\ ~loop_restart'
  \/ /\ taken(in) \notin Cancelling /\ ~Faulty /\ state = "PREFETCH"
     /\ state' = "PREFETCH" /\ ~loop_restart'
  \/ /\ taken(in) \notin Cancelling /\ ~Faulty /\ state = "WAIT_TRIGGER"
     /\ state' = "PLAYING" /\ ~loop_restart'
  \/ LastBeat(in) /\ state' = "PREFETCH" /\ loop_restart'
  \/ LastBeat(in) /\ state' = "DRAINING" /\ ~loop_restart'
  \/ /\ taken(in) \notin Cancelling /\ ~Faulty /\ state = "DRAINING"
     /\ state' = "DONE" /\ ~loop_restart'
  \/ Stays(in) /\ state' = state /\ ~loop_restart'

\* Every edge of the controller is one of these moves.
LEMMA ControllerMoves ==
  ASSUME state \in Ctl!States, NEW in \in DacInputs, Controller(in)
  PROVE  Moves(in)
<1> DEFINE i == ControllerInput(in)
<1>1. /\ i.cmd = taken(in) /\ i.fifo_safe = safe_sync[2] /\ i.axi_error = error_sync[2]
      /\ i.fifo_empty = (underflow \/ any_fifo_empty) /\ i.prefetch_done = prefetch_done
      /\ i.beat = beat_fire(in) /\ i.beat_last = (position + 1 = total_dac)
  BY DEF ControllerInput
<1>2. Ctl!active_fault(i) <=> Faulty
  BY <1>1 DEF Ctl!active_fault, Faulty
<1>3. Ctl!Transition(i)
  BY DEF Controller
<1> HIDE DEF i
<1> USE DEF Ctl!Goto, Moves
<1>4. CASE Ctl!Abort(i)
  BY <1>1, <1>4 DEF Ctl!Abort
<1>5. CASE Ctl!Fault(i)
  BY <1>1, <1>2, <1>5 DEF Ctl!Fault
<1>6. CASE Ctl!Begin(i)
  BY <1>1, <1>6 DEF Ctl!Begin
<1>7. CASE Ctl!StopUpload(i)
  BY <1>1, <1>7 DEF Ctl!StopUpload
<1>8. CASE Ctl!StopOrPause(i)
  BY <1>1, <1>2, <1>8 DEF Ctl!StopOrPause
<1>9. CASE Ctl!Case(i)
  <2>1. /\ taken(in) \notin {"abort", "begin"} /\ ~Faulty
        /\ taken(in) = "stop" => state \notin Ctl!Stoppable \cup {"UPLOAD"}
        /\ taken(in) = "pause" => state \notin Ctl!Stoppable
    BY <1>1, <1>2, <1>9 DEF Ctl!Case, Ctl!CaseEdge
  <2>2. state \in Ctl!Stoppable => taken(in) \notin Cancelling
    BY <2>1 DEF Cancelling
  <2>3. CASE Ctl!Commit(i)
    BY <1>1, <2>3 DEF Ctl!Commit
  <2>4. CASE Ctl!PlayStopped(i)
    BY <1>1, <2>4 DEF Ctl!PlayStopped
  <2>5. CASE Ctl!Prefetch(i)
    BY <1>1, <2>1, <2>2, <2>5 DEF Ctl!Prefetch, Ctl!Stoppable
  <2>6. CASE Ctl!OpenGate(i)
    BY <1>1, <2>1, <2>2, <2>6 DEF Ctl!OpenGate, Ctl!Stoppable
  <2>7. CASE Ctl!LastBeat(i)
    BY <1>1, <2>1, <2>2, <2>7 DEF Ctl!LastBeat, Ctl!stream_fire, Ctl!Stoppable, LastBeat
  <2>8. CASE Ctl!Drained(i)
    BY <1>1, <2>1, <2>2, <2>8 DEF Ctl!Drained, Ctl!Stoppable
  <2>9. CASE Ctl!Hold(i)
    BY <1>1, <2>1, <2>2, <2>9 DEF Ctl!Hold, Ctl!Stoppable, Stays
  <2> QED
    BY <1>9, <2>3, <2>4, <2>5, <2>6, <2>7, <2>8, <2>9 DEF Ctl!Case
<1> QED
  BY <1>3, <1>4, <1>5, <1>6, <1>7, <1>8, <1>9 DEF Ctl!Transition

-----------------------------------------------------------------------------
(* The descriptor record and the command it belongs to.                     *)

\* What the writer has promised, the command on its way and the state of the
\* controller belong together.
PhaseInv ==
  /\ phase = "upload" => flying \in {"none", "begin"}
  /\ phase = "none" => flying \in {"none", "stop", "abort"}
  /\ phase = "committed" => flying \notin {"begin", "abort"}
  /\ phase = "upload" /\ flying = "none" => state \in {"UPLOAD", "ERROR"}
  /\ phase = "none" /\ flying = "none" => state \in {"IDLE", "ERROR"}
  /\ phase = "none" /\ flying = "stop" => state \in {"UPLOAD", "ERROR"}
  /\ phase = "committed" /\ flying = "commit" => state \in {"UPLOAD", "ERROR"}
  /\ phase = "committed" /\ flying # "commit" => state \notin {"UPLOAD", "IDLE"}
  /\ total = 0 => phase = "none" /\ state = "IDLE"

\* The record of the upload is in exactly one place: announced, in its FIFO or
\* registered; and it is there before the COMMIT is.
RecordInv ==
  /\ descriptor_pending => /\ mailbox # <<>> /\ flying = "commit" /\ ~descriptor_accepted
                           /\ desc_fifo = <<>> /\ ~current
  /\ mailbox # <<>> /\ flying = "commit" => descriptor_pending \/ descriptor_accepted
  /\ desc_fifo # <<>> => /\ desc_fifo = <<[gen |-> gen, total |-> total, loops |-> loops]>>
                         /\ phase = "committed" /\ flying \in {"none", "commit"} /\ ~current
  /\ phase = "committed" => descriptor_pending \/ desc_fifo # <<>> \/ current
  /\ state \notin {"IDLE", "UPLOAD", "PREFETCH", "ERROR"} => current
  /\ state = "PREFETCH" => current \/ desc_fifo # <<>>
  /\ phase = "upload" /\ flying = "none" => ~current
  /\ phase = "none" /\ flying # "abort" => ~current
  /\ state = "IDLE" \/ (state = "UPLOAD" /\ flying # "commit") => ~current
  /\ phase # "none" => loops \in Loops

\* The registers of the DAC domain are those of the upload; without a record
\* PREFETCH has not settled, because a record crosses faster.
DescriptorInv ==
  /\ current => gen_dac = gen /\ total_dac \in Totals
  /\ current /\ phase = "committed" => total_dac = total
  /\ ~current => position = 0
  /\ state = "PREFETCH" /\ was_prefetch /\ ~current => settle < desc_lag

\* The run in progress, as in the proofs of PlaybackController: a retained PLAY
\* exists in PREFETCH alone, and the passes are counted against the descriptor.
RunInv ==
  /\ play_pending => state = "PREFETCH"
  /\ state = "PREFETCH" => (launched <=> play_pending)
  /\ current => loop_count > 0
  /\ state = "PREFETCH" /\ current => passes < loop_count
  /\ state = "PREFETCH" /\ ~current => passes = 0
  /\ Ctl!GateNeedsLaunch
  /\ Ctl!RunIsLoopCountPasses

FeedInv == TypeOK /\ OneCommand /\ PhaseInv /\ RecordInv /\ DescriptorInv /\ RunInv

\* What the writer does with a command it lets through.
LEMMA WriterMoves ==
  ASSUME NEW in \in DdrInputs, Writer(in), ~Pipelined
  PROVE  \/ /\ in.cmd \in {"none", "status"}
            /\ phase' = phase /\ gen' = gen /\ image' = image /\ total' = total /\ loops' = loops
         \/ /\ in.cmd = "begin" /\ phase' = "upload" /\ gen' = gen /\ image' = 0
            /\ total' \in Totals /\ loops' \in Loops
         \/ /\ in.cmd = "commit" /\ phase = "upload" /\ phase' = "committed" /\ gen' = 3 - gen
            /\ image' = 3 - gen /\ total' = total /\ loops' = loops
            /\ shadow # "ERROR" /\ UploadTookTime
         \/ /\ in.cmd \in {"play", "pause"} /\ phase = "committed" /\ phase' = phase
            /\ gen' = gen /\ image' = image /\ total' = total /\ loops' = loops
         \/ /\ in.cmd = "stop" /\ phase = "committed" /\ phase' = phase
            /\ gen' = gen /\ image' = image /\ total' = total /\ loops' = loops
         \/ /\ in.cmd = "stop" /\ phase = "upload" /\ phase' = "none"
            /\ gen' = gen /\ image' = image /\ total' = total /\ loops' = loops
         \/ /\ in.cmd = "abort" /\ phase' = "none"
            /\ gen' = gen /\ image' = image /\ total' = total /\ loops' = loops
<1>1. in.cmd \in {"begin", "commit", "play", "pause", "stop", "abort", "status", "none"}
  BY PathConstants DEF DdrInputs
<1>2. in.cmd = "begin" => in.desc[1] \in Totals /\ in.desc[2] \in Loops
  BY DEF DdrInputs
<1>3. in.cmd = "commit" => phase = "upload" /\ shadow # "ERROR" /\ UploadTookTime
  BY DEF Writer, Admitted
<1>4. in.cmd \in {"play", "pause"} => phase = "committed"
  BY DEF Writer, Admitted
<1>5. in.cmd = "stop" => phase \in {"upload", "committed"}
  BY DEF Writer, Admitted
<1> QED
  BY <1>1, <1>2, <1>3, <1>4, <1>5 DEF Writer

LEMMA PhaseDdr ==
  ASSUME ~Pipelined, FeedInv, NEW in \in DdrInputs, DdrEdge(in)
  PROVE  PhaseInv'
<1>1. state' = state /\ Writer(in) /\ total \in Totals \cup {0} /\ 0 \notin Totals
  BY PathConstants DEF DdrEdge, dacSide, ctl, FeedInv, TypeOK
<1>2. /\ OneCommand
      /\ \/ in.cmd \in Waiting /\ flying = "none" /\ flying' = in.cmd
         \/ in.cmd \in {"none", "status"} /\ flying' = flying
  BY FlightOfDdr DEF FeedInv
<1>3. CASE in.cmd \in {"none", "status"}
  BY <1>1, <1>2, <1>3, WriterMoves DEF FeedInv, PhaseInv, Waiting, Cancelling
<1>4. CASE in.cmd \notin {"none", "status"}
  <2>1. flying = "none" /\ flying' = in.cmd
    BY <1>2, <1>4
  <2> QED
    BY <1>1, <1>4, <2>1, WriterMoves DEF FeedInv, PhaseInv
<1> QED
  BY <1>3, <1>4

LEMMA RecordDdr ==
  ASSUME ~Pipelined, FeedInv, NEW in \in DdrInputs, DdrEdge(in)
  PROVE  RecordInv'
<1>1. /\ state' = state /\ current' = current /\ Writer(in)
      /\ descriptor_pending' = (in.cmd = "commit")
      /\ descriptor_accepted' = (descriptor_pending \/ (descriptor_accepted /\ in.cmd # "commit"))
      /\ desc_fifo' = IF descriptor_pending
                     THEN Append(desc_fifo, [gen |-> gen, total |-> total, loops |-> loops])
                     ELSE desc_fifo
  BY DEF DdrEdge, dacSide, ctl, Mailbox
<1>2. /\ descriptor_pending \in BOOLEAN /\ descriptor_accepted \in BOOLEAN /\ current \in BOOLEAN
      /\ phase \in {"none", "upload", "committed"}
  BY DEF FeedInv, TypeOK
<1>3. desc_fifo' = IF descriptor_pending THEN <<[gen |-> gen, total |-> total, loops |-> loops]>>
                   ELSE desc_fifo
  <2>1. \A x : Append(<<>>, x) = <<x>>
    OBVIOUS
  <2>2. descriptor_pending => desc_fifo = <<>>
    BY DEF FeedInv, RecordInv
  <2> QED
    BY <1>1, <2>1, <2>2, Zenon
<1>4. /\ OneCommand
      /\ \/ in.cmd \in Waiting /\ flying = "none" /\ flying' = in.cmd
            /\ mailbox' = <<in.cmd>> /\ desc_fifo = <<>>
         \/ in.cmd \in {"none", "status"} /\ flying' = flying
            /\ (mailbox' # <<>> => mailbox # <<>>)
            /\ (mailbox' = <<>> /\ mailbox # <<>> => flying # "commit" \/ descriptor_accepted)
  BY FlightOfDdr DEF FeedInv
<1>5. CASE in.cmd \in {"none", "status"}
  <2>1. /\ phase' = phase /\ gen' = gen /\ total' = total /\ loops' = loops
        /\ descriptor_pending' = FALSE
        /\ descriptor_accepted' = (descriptor_pending \/ descriptor_accepted)
    BY <1>1, <1>2, <1>5, WriterMoves
  <2>2. flying' = flying /\ (mailbox' # <<>> => mailbox # <<>>)
    BY <1>4, <1>5 DEF Waiting, Cancelling
  <2>3. CASE descriptor_pending
    <3>1. /\ mailbox # <<>> /\ flying = "commit" /\ ~current /\ phase = "committed"
          /\ state \in {"UPLOAD", "ERROR"}
      BY <1>2, <2>3 DEF FeedInv, RecordInv, PhaseInv
    <3>2. desc_fifo' = <<[gen |-> gen', total |-> total', loops |-> loops']>> /\ desc_fifo' # <<>>
      <4>1. desc_fifo' = <<[gen |-> gen, total |-> total, loops |-> loops]>>
        BY <1>3, <2>3, Zenon
      <4>2. desc_fifo' # <<>>
        BY <4>1
      <4> QED
        BY <2>1, <4>1, <4>2
    <3> QED
      BY <1>1, <2>1, <2>2, <2>3, <3>1, <3>2 DEF FeedInv, RecordInv
  <2>4. CASE ~descriptor_pending
    BY <1>1, <1>3, <2>1, <2>2, <2>4 DEF FeedInv, RecordInv
  <2> QED
    BY <2>3, <2>4
<1>6. CASE in.cmd \in Waiting
  <2>1. /\ flying = "none" /\ flying' = in.cmd /\ mailbox' = <<in.cmd>> /\ desc_fifo = <<>>
        /\ in.cmd \notin {"none", "status"} /\ mailbox' # <<>>
    BY <1>4, <1>6 DEF Waiting, Cancelling
  <2>2. ~descriptor_pending
    BY <2>1 DEF FeedInv, RecordInv
  <2>3. desc_fifo' = <<>> /\ (descriptor_pending' <=> in.cmd = "commit")
        /\ (in.cmd = "commit" => ~descriptor_accepted')
    BY <1>1, <1>3, <2>1, <2>2
  <2>4. (in.cmd = "commit" => phase = "upload") /\ (phase = "upload" => ~current)
        /\ (phase = "none" => ~current)
    BY <1>1, <2>1, WriterMoves DEF FeedInv, RecordInv
  <2>5. state \in {"IDLE", "UPLOAD"} => ~current
    BY <2>1 DEF FeedInv, RecordInv
  <2>6. phase = "committed" => current
    BY <2>1, <2>2 DEF FeedInv, RecordInv
  <2>7. /\ state \notin {"IDLE", "UPLOAD", "PREFETCH", "ERROR"} => current
        /\ state = "PREFETCH" => current
        /\ phase # "none" => loops \in Loops
    BY <2>1 DEF FeedInv, RecordInv
  <2> QED
    BY <1>1, <2>1, <2>3, <2>4, <2>5, <2>6, <2>7, WriterMoves DEF RecordInv
<1> QED
  BY <1>4, <1>5, <1>6

LEMMA DescriptorDdr ==
  ASSUME ~Pipelined, FeedInv, NEW in \in DdrInputs, DdrEdge(in)
  PROVE  DescriptorInv'
<1>1. /\ state' = state /\ current' = current /\ gen_dac' = gen_dac /\ total_dac' = total_dac
      /\ position' = position /\ was_prefetch' = was_prefetch /\ settle' = settle
      /\ desc_lag' = desc_lag /\ Writer(in)
  BY DEF DdrEdge, dacSide, ctl
<1>2. in.cmd = "commit" => flying = "none" /\ phase = "upload"
  BY <1>1, FlightOfDdr, WriterMoves DEF FeedInv
<1>3. in.cmd = "commit" => ~current
  BY <1>2 DEF FeedInv, RecordInv
<1>4. (current => gen' = gen) /\ (current /\ phase' = "committed" => total' = total /\ phase = "committed")
  BY <1>1, <1>3, WriterMoves
<1> QED
  BY <1>1, <1>4 DEF FeedInv, DescriptorInv

\* The edge of the DAC clock, in the variables of the record and its command.
LEMMA DacFacts ==
  ASSUME FeedInv, NEW in \in DacInputs, DacEdge(in)
  PROVE  /\ Moves(in)
         /\ phase' = phase /\ gen' = gen /\ total' = total /\ loops' = loops
         /\ descriptor_pending' = descriptor_pending /\ descriptor_accepted' = descriptor_accepted
         /\ mailbox' = mailbox
         /\ \/ taken(in) = "none" /\ flying' = flying
            \/ /\ taken(in) = flying /\ flying \in Waiting /\ flying' = "none" /\ mailbox = <<>>
         /\ in.rec \in BOOLEAN /\ (in.rec => desc_fifo # <<>>)
         /\ in.rec => /\ desc_fifo = <<[gen |-> gen, total |-> total, loops |-> loops]>>
                      /\ desc_fifo' = <<>> /\ phase = "committed" /\ ~current
                      /\ flying \in {"none", "commit"}
                      /\ gen_dac' = gen /\ total_dac' = total /\ current' = TRUE
         /\ ~in.rec => /\ desc_fifo' = desc_fifo /\ gen_dac' = gen_dac
                       /\ total_dac' = (IF taken(in) = "abort" THEN 0 ELSE total_dac)
                       /\ current' = (IF taken(in) \in {"abort", "begin"} THEN FALSE ELSE current)
<1>1. Controller(in) /\ Descriptor(in) /\ UNCHANGED ddrSide /\ state \in Ctl!States
  BY DEF DacEdge, FeedInv, TypeOK
<1>2. Moves(in)
  BY <1>1, ControllerMoves
<1>3. /\ phase' = phase /\ gen' = gen /\ total' = total /\ loops' = loops
      /\ descriptor_pending' = descriptor_pending /\ descriptor_accepted' = descriptor_accepted
      /\ mailbox' = mailbox
  BY <1>1 DEF ddrSide, writer, command
<1>4. \/ taken(in) = "none" /\ flying' = flying
      \/ taken(in) = flying /\ flying \in Waiting /\ flying' = "none" /\ mailbox = <<>>
  BY FlightOfDac DEF FeedInv
<1>5. in.rec \in BOOLEAN /\ (in.rec => desc_fifo # <<>>)
  BY DEF DacInputs, DacEdge, Shows
<1>6. CASE in.rec
  <2>1. /\ desc_fifo = <<[gen |-> gen, total |-> total, loops |-> loops]>> /\ phase = "committed"
        /\ ~current /\ flying \in {"none", "commit"}
    BY <1>5, <1>6 DEF FeedInv, RecordInv
  <2>2. taken(in) \in {"none", "commit"}
    BY <1>4, <2>1
  <2>3. \A x : Head(<<x>>) = x /\ Tail(<<x>>) = <<>>
    OBVIOUS
  <2>4. Head(desc_fifo) = [gen |-> gen, total |-> total, loops |-> loops] /\ Tail(desc_fifo) = <<>>
    BY <2>1, <2>3, Zenon
  <2>5. desc_fifo' = <<>> /\ gen_dac' = gen /\ total_dac' = total
    BY <1>1, <1>6, <2>2, <2>4 DEF Descriptor
  <2>6. ControllerInput(in).record = loops /\ ControllerInput(in).cmd = taken(in)
    BY <1>6, <2>4 DEF ControllerInput
  <2>7. loops \in Loops /\ loops # 0
    BY <2>1, PathConstants DEF FeedInv, RecordInv
  <2>8. current' = TRUE
    BY <1>1, <2>2, <2>6, <2>7 DEF Controller, Ctl!TakeDescriptor
  <2> QED
    BY <1>2, <1>3, <1>4, <1>5, <1>6, <2>1, <2>5, <2>8
<1>7. CASE ~in.rec
  <2>1. ControllerInput(in).record = 0 /\ ControllerInput(in).cmd = taken(in)
    BY <1>7 DEF ControllerInput
  <2>2. current' = (IF taken(in) \in {"abort", "begin"} THEN FALSE ELSE current)
    BY <1>1, <2>1 DEF Controller, Ctl!TakeDescriptor
  <2>3. /\ desc_fifo' = desc_fifo /\ gen_dac' = gen_dac
        /\ total_dac' = (IF taken(in) = "abort" THEN 0 ELSE total_dac)
    BY <1>1, <1>7 DEF Descriptor
  <2> QED
    BY <1>2, <1>3, <1>4, <1>5, <1>7, <2>2, <2>3
<1> QED
  BY <1>5, <1>6, <1>7

LEMMA PhaseDac ==
  ASSUME FeedInv, NEW in \in DacInputs, DacEdge(in)
  PROVE  PhaseInv'
<1>1. /\ Moves(in) /\ phase' = phase /\ total' = total
      /\ \/ taken(in) = "none" /\ flying' = flying
         \/ taken(in) = flying /\ flying' = "none" /\ flying \in Waiting
  BY DacFacts
<1>2. /\ phase \in {"none", "upload", "committed"} /\ state \in Ctl!States /\ PhaseInv
      /\ state \notin {"IDLE", "UPLOAD", "PREFETCH", "ERROR"} => current
      /\ phase = "none" /\ flying # "abort" => ~current
      /\ phase = "upload" /\ flying = "none" => ~current
  BY DEF FeedInv, TypeOK, RecordInv
<1>3. CASE taken(in) = "none" /\ flying' = flying
  BY <1>1, <1>2, <1>3 DEF PhaseInv, Moves, Stays, LastBeat, Cancelling, Faulty
<1>4. CASE taken(in) = flying /\ flying' = "none" /\ flying \in Waiting
  <2> USE DEF PhaseInv, Moves, Stays, LastBeat, Cancelling, Waiting, Faulty, Ctl!Stoppable
  <2>1. CASE phase = "upload"
    BY <1>1, <1>2, <1>4, <2>1
  <2>2. CASE phase = "none"
    BY <1>1, <1>2, <1>4, <2>2
  <2>3. CASE phase = "committed" /\ flying = "commit"
    BY <1>1, <1>2, <1>4, <2>3
  <2>4. CASE phase = "committed" /\ flying # "commit"
    <3>1. state \notin {"UPLOAD", "IDLE"} /\ flying \notin {"begin", "abort", "commit"}
      BY <1>2, <2>4
    <3>2. state' \notin {"UPLOAD", "IDLE"}
      BY <1>1, <1>4, <3>1
    <3> QED
      BY <1>1, <1>2, <1>4, <2>4, <3>2
  <2> QED
    BY <1>2, <2>1, <2>2, <2>3, <2>4
<1> QED
  BY <1>1, <1>3, <1>4

LEMMA RecordDac ==
  ASSUME FeedInv, NEW in \in DacInputs, DacEdge(in), ControllerFed
  PROVE  RecordInv'
<1>1. /\ phase \in {"none", "upload", "committed"} /\ state \in Ctl!States /\ PhaseInv
      /\ RecordInv /\ current \in BOOLEAN
  BY DEF FeedInv, TypeOK
<1>2. \/ taken(in) = "none" /\ flying' = flying
      \/ taken(in) = flying /\ flying \in Waiting /\ flying' = "none" /\ mailbox = <<>>
  BY DacFacts
<1>3. /\ Moves(in) /\ phase' = phase /\ gen' = gen /\ total' = total /\ loops' = loops
      /\ descriptor_pending' = descriptor_pending /\ descriptor_accepted' = descriptor_accepted
      /\ mailbox' = mailbox /\ in.rec \in BOOLEAN
  BY DacFacts
<1>4. CASE in.rec
  <2>1. /\ desc_fifo' = <<>> /\ phase = "committed" /\ ~current /\ current' = TRUE
        /\ flying \in {"none", "commit"} /\ desc_fifo # <<>>
    BY <1>4, DacFacts
  <2>2. ~descriptor_pending
    BY <1>1, <2>1 DEF RecordInv
  <2>3. state' \notin {"IDLE"} /\ (state' = "UPLOAD" => flying' = "commit")
    BY <1>1, <1>2, <1>3, <2>1 DEF PhaseInv, RecordInv, Moves, Stays, LastBeat, Cancelling, Faulty
  <2> QED
    BY <1>1, <1>2, <1>3, <2>1, <2>2, <2>3 DEF RecordInv
<1>5. CASE ~in.rec
  <2>1. /\ desc_fifo' = desc_fifo
        /\ current' = (IF taken(in) \in {"abort", "begin"} THEN FALSE ELSE current)
    BY <1>5, DacFacts
  <2>2. CASE taken(in) = "none"
    <3>1. flying' = flying /\ current' = current
      BY <1>2, <2>1, <2>2 DEF Waiting, Cancelling
    <3>2. state = "PREFETCH" /\ prefetch_done => current
      BY DEF ControllerFed
    <3> QED
      BY <1>1, <1>3, <2>1, <2>2, <3>1, <3>2
         DEF RecordInv, Moves, Stays, LastBeat, Cancelling, Faulty, Ctl!States
  <2>3. CASE taken(in) \in {"abort", "begin"}
    <3>1. flying' = "none" /\ flying = taken(in) /\ current' = FALSE /\ desc_fifo = <<>>
          /\ phase # "committed" /\ ~descriptor_pending
      BY <1>1, <1>2, <2>1, <2>3 DEF RecordInv, PhaseInv
    <3>2. state' \in {"IDLE", "UPLOAD", "ERROR"}
      BY <1>1, <1>3, <2>3 DEF Moves, Stays, LastBeat, Cancelling
    <3> QED
      BY <1>1, <1>3, <2>1, <3>1, <3>2 DEF RecordInv
  <2>4. CASE taken(in) \notin {"none", "abort", "begin"}
    <3>1. flying' = "none" /\ flying = taken(in) /\ current' = current /\ mailbox = <<>>
          /\ ~descriptor_pending /\ flying \in {"commit", "play", "stop", "pause"}
      BY <1>1, <1>2, <2>1, <2>4 DEF RecordInv, Waiting, Cancelling
    <3>2. phase = "committed" \/ (phase = "none" /\ flying = "stop" /\ state \in {"UPLOAD", "ERROR"})
      BY <1>1, <3>1 DEF PhaseInv
    <3>3. state = "PREFETCH" /\ prefetch_done => current
      BY DEF ControllerFed
    <3>4. phase = "committed" /\ flying # "commit" => current
      BY <1>1, <3>1 DEF RecordInv
    <3>5. CASE phase = "committed" /\ flying = "commit"
      <4>1. state' \in {"PREFETCH", "ERROR"}
        BY <1>1, <1>3, <3>1, <3>5 DEF PhaseInv, Moves, Stays, LastBeat, Cancelling
      <4> QED
        BY <1>1, <1>3, <2>1, <3>1, <3>5, <4>1 DEF RecordInv
    <3>6. CASE phase = "committed" /\ flying # "commit"
      <4>1. state' \notin {"IDLE", "UPLOAD"} /\ current
        BY <1>1, <1>3, <3>1, <3>4, <3>6 DEF PhaseInv, Moves, Stays, LastBeat, Cancelling
      <4> QED
        BY <1>1, <1>3, <2>1, <3>1, <3>6, <4>1 DEF RecordInv
    <3>7. CASE phase = "none"
      <4>1. state' \in {"IDLE", "ERROR"} /\ ~current
        BY <1>1, <1>3, <3>1, <3>2, <3>7
           DEF RecordInv, Moves, Stays, LastBeat, Cancelling, Ctl!Stoppable
      <4> QED
        BY <1>1, <1>3, <2>1, <3>1, <3>7, <4>1 DEF RecordInv
    <3> QED
      BY <3>2, <3>5, <3>6, <3>7
  <2> QED
    BY <2>2, <2>3, <2>4
<1> QED
  BY <1>3, <1>4, <1>5

\* Without a record PREFETCH has not settled: the controller is fed.
LEMMA FeedImpliesFed == FeedInv => ControllerFed
<1> SUFFICES ASSUME FeedInv PROVE ControllerFed
  OBVIOUS
<1>1. desc_fifo # <<>> => ~current
  BY DEF FeedInv, RecordInv
<1>2. ASSUME state = "PREFETCH", prefetch_done, ~current PROVE FALSE
  <2>1. was_prefetch /\ settle >= CDC_SETTLE_CYCLES
    BY <1>2 DEF prefetch_done, fifo_published
  <2>2. settle < desc_lag
    BY <1>2, <2>1 DEF FeedInv, DescriptorInv
  <2>3. desc_lag \in 0..PUB_EDGES /\ settle \in 0..CDC_SETTLE_CYCLES
    BY DEF FeedInv, TypeOK
  <2> QED
    BY <2>1, <2>2, <2>3, PathConstants, PathTiming
<1> QED
  BY <1>1, <1>2 DEF ControllerFed

LEMMA DescriptorDac ==
  ASSUME FeedInv, NEW in \in DacInputs, DacEdge(in)
  PROVE  DescriptorInv'
<1>1. /\ PhaseInv /\ RecordInv /\ DescriptorInv /\ total \in Totals \cup {0} /\ current \in BOOLEAN
      /\ desc_lag \in 0..PUB_EDGES /\ settle \in 0..CDC_SETTLE_CYCLES /\ was_prefetch \in BOOLEAN
      /\ phase' = phase /\ gen' = gen /\ total' = total /\ Moves(in) /\ in.rec \in BOOLEAN
  BY DacFacts DEF FeedInv, TypeOK
<1>2. in.rec => gen_dac' = gen /\ total_dac' = total /\ current' = TRUE /\ phase = "committed"
  BY DacFacts
<1>3. ~in.rec => /\ gen_dac' = gen_dac
                 /\ total_dac' = (IF taken(in) = "abort" THEN 0 ELSE total_dac)
                 /\ current' = (IF taken(in) \in {"abort", "begin"} THEN FALSE ELSE current)
  BY DacFacts
<1>4. /\ position' = IF stream_clear(in) THEN 0
                     ELSE position + (IF beat_fire(in) THEN 1 ELSE 0)
      /\ was_prefetch' = (state = "PREFETCH")
      /\ settle' = IF (state = "PREFETCH" /\ ~was_prefetch) \/ ~safe_sync[2] \/ ~lanes_published
                   THEN 0
                   ELSE IF settle < CDC_SETTLE_CYCLES THEN settle + 1 ELSE settle
      /\ desc_lag' = IF in.rec \/ desc_fifo = <<>> THEN 0 ELSE desc_lag + 1
  BY DEF DacEdge, Stream, Settle, Descriptor
<1>5. current' => gen_dac' = gen' /\ total_dac' \in Totals
  BY <1>1, <1>2, <1>3 DEF PhaseInv, DescriptorInv
<1>6. current' /\ phase' = "committed" => total_dac' = total'
  BY <1>1, <1>2, <1>3 DEF DescriptorInv
<1>7. ASSUME ~current' PROVE position' = 0
  <2>1. CASE taken(in) \in {"abort", "begin"}
    BY <1>4, <2>1 DEF stream_clear, Cancelling
  <2>2. CASE taken(in) \notin {"abort", "begin"}
    <3>1. ~current /\ state # "PLAYING"
      BY <1>1, <1>2, <1>3, <1>7, <2>2 DEF RecordInv
    <3>2. ~beat_fire(in) /\ position = 0
      BY <1>1, <3>1 DEF beat_fire, active, playing, DescriptorInv
    <3> QED
      BY <1>4, <3>2
  <2> QED
    BY <2>1, <2>2
<1>8. ASSUME state' = "PREFETCH", was_prefetch', ~current' PROVE settle' < desc_lag'
  <2>1. state = "PREFETCH" /\ ~in.rec
    BY <1>2, <1>4, <1>8
  <2>2. taken(in) \notin {"abort", "begin"}
    BY <1>1, <1>8 DEF Moves, Stays, LastBeat, Cancelling
  <2>3. ~current /\ desc_fifo # <<>>
    BY <1>1, <1>3, <1>8, <2>1, <2>2 DEF RecordInv
  <2>4. desc_lag' = desc_lag + 1
    BY <1>4, <2>1, <2>3
  <2>5. CASE ~was_prefetch
    BY <1>1, <1>4, <2>1, <2>4, <2>5, PathConstants
  <2>6. CASE was_prefetch
    <3>1. settle < desc_lag
      BY <1>1, <2>1, <2>3, <2>6 DEF DescriptorInv
    <3>2. settle' <= settle + 1 /\ settle' \in Nat
      BY <1>1, <1>4, PathConstants
    <3> QED
      BY <1>1, <2>4, <3>1, <3>2, PathConstants
  <2> QED
    BY <2>5, <2>6
<1> QED
  BY <1>5, <1>6, <1>7, <1>8 DEF DescriptorInv

LEMMA ZeroInRange == 0 \in 0..(CountMod - 1) /\ 0 \in 0..CountMod
  BY PathConstants

LEMMA IncType == \A n \in 0..(CountMod - 1) :
    /\ Ctl!Inc(n) \in 0..(CountMod - 1)
    /\ n + 1 < CountMod => Ctl!Inc(n) = n + 1
  BY PathConstants DEF Ctl!Inc

RunTypes ==
  /\ state \in Ctl!States /\ {play_pending, loop_restart, launched, current} \subseteq BOOLEAN
  /\ {loop_position, loop_count} \subseteq 0..(CountMod - 1) /\ passes \in 0..CountMod

\* What an edge of the path feeds the controller is what it assumes.
LEMMA Feeds ==
  ASSUME FeedInv, NEW in \in DacInputs, DacEdge(in)
  PROVE  /\ ControllerInput(in) \in Ctl!Inputs
         /\ Ctl!Feed(ControllerInput(in))
         /\ Ctl!Admission(ControllerInput(in))
<1> DEFINE i == ControllerInput(in)
<1>1. taken(in) \in Ctl!Commands
  BY DacFacts DEF Waiting, Cancelling, Ctl!Commands
<1>2. /\ in.trigger \in BOOLEAN /\ prefetch_done \in BOOLEAN /\ safe_sync[2] \in BOOLEAN
      /\ (underflow \/ any_fifo_empty) \in BOOLEAN /\ error_sync[2] \in BOOLEAN
      /\ beat_fire(in) \in BOOLEAN /\ (position + 1 = total_dac) \in BOOLEAN
  <2>1. safe_sync \in BOOLEAN \X BOOLEAN /\ error_sync \in BOOLEAN \X BOOLEAN
        /\ was_prefetch \in BOOLEAN
    BY DEF FeedInv, TypeOK
  <2>2. in.trigger \in BOOLEAN /\ in.ready \in BOOLEAN
    BY DEF DacInputs
  <2>3. prefetch_done \in BOOLEAN
    BY DEF prefetch_done, fifo_published
  <2>4. (underflow \/ any_fifo_empty) \in BOOLEAN
    BY DEF underflow, any_fifo_empty
  <2>5. beat_fire(in) \in BOOLEAN
    BY DEF beat_fire
  <2> QED
    BY <2>1, <2>2, <2>3, <2>4, <2>5
<1>3. (IF in.rec THEN Head(desc_fifo).loops ELSE 0) \in Loops \cup {0}
  <2>1. CASE in.rec
    <3>1. /\ desc_fifo = <<[gen |-> gen, total |-> total, loops |-> loops]>>
          /\ phase = "committed"
      BY <2>1, DacFacts
    <3>2. Head(desc_fifo) = [gen |-> gen, total |-> total, loops |-> loops]
      BY <3>1
    <3> QED
      BY <2>1, <3>1, <3>2 DEF FeedInv, RecordInv
  <2>2. CASE ~in.rec
    BY <2>2
  <2> QED
    BY <2>1, <2>2
<1>4. i \in Ctl!Inputs
  BY <1>1, <1>2, <1>3 DEF ControllerInput, Ctl!Inputs
<1>5. Ctl!Feed(i)
  <2>1. i.record # 0 => in.rec
    BY DEF ControllerInput
  <2>2. in.rec => ~current
    BY DacFacts
  <2>3. state = "PREFETCH" /\ i.prefetch_done => current
    BY FeedImpliesFed DEF ControllerFed, ControllerInput
  <2> QED
    BY <2>1, <2>2, <2>3 DEF Ctl!Feed
<1>6. Ctl!Admission(i)
  BY DEF DacEdge, Controller, Ctl!Admission
<1> QED
  BY <1>4, <1>5, <1>6

\* The edge of the controller keeps the account of its run.
LEMMA RunStep ==
  ASSUME RunTypes, RunInv, RecordInv, NEW in \in Ctl!Inputs, Ctl!Feed(in), Ctl!Admission(in)
  PROVE  RunTypes' /\ RunInv'
<1> USE DEF RunTypes, RunInv, Ctl!GateNeedsLaunch, Ctl!dac_gate,
            Ctl!RunIsLoopCountPasses, Ctl!States, Ctl!Stoppable, Ctl!Goto
<1>a. Ctl!TakeDescriptor(in)
  BY DEF Ctl!Admission
<1>b. (in.record # 0 => ~current) /\ (state = "PREFETCH" /\ in.prefetch_done => current)
  BY DEF Ctl!Feed
<1>c. in.record \in Loops \cup {0}
  BY DEF Ctl!Inputs
<1>d. in.record \in 0..(CountMod - 1)
  <2>1. in.record \in Loops => in.record \in 1..(CountMod - 1)
    BY PathConstants
  <2> QED
    BY <1>c, <2>1, ZeroInRange, PathConstants
<1>e. state \in {"WAIT_TRIGGER", "PLAYING", "DRAINING", "DONE"} => current
  BY DEF RecordInv
<1>0. /\ loop_count' \in 0..(CountMod - 1) /\ current' \in BOOLEAN
      /\ current' => loop_count' > 0
      /\ in.record = 0 /\ in.cmd # "abort" => loop_count' = loop_count
      /\ in.record = 0 /\ in.cmd \notin {"abort", "begin"} => (current' <=> current)
      /\ in.record # 0 => ~current
      /\ state = "PREFETCH" /\ in.prefetch_done => current
  <2>1. CASE in.cmd = "abort"
    BY <1>a, <1>b, <2>1, ZeroInRange DEF Ctl!TakeDescriptor
  <2>2. CASE in.cmd # "abort" /\ in.record # 0
    BY <1>a, <1>b, <1>d, <2>2, PathConstants DEF Ctl!TakeDescriptor
  <2>3. CASE in.cmd # "abort" /\ in.record = 0
    BY <1>a, <1>b, <2>3 DEF Ctl!TakeDescriptor
  <2>4. QED
    BY <2>1, <2>2, <2>3
<1>1. CASE Ctl!Abort(in)
  BY <1>0, <1>1, ZeroInRange DEF Ctl!Abort, Ctl!NoRun
<1>2. CASE Ctl!Fault(in)
  BY <1>0, <1>2, ZeroInRange DEF Ctl!Fault, Ctl!NoRun
<1>3. CASE Ctl!Begin(in)
  BY <1>0, <1>3, ZeroInRange DEF Ctl!Begin, Ctl!NoRun
<1>4. CASE Ctl!StopUpload(in)
  BY <1>0, <1>4, ZeroInRange DEF Ctl!StopUpload, Ctl!NoRun
<1>5. CASE Ctl!StopOrPause(in)
  BY <1>0, <1>5, ZeroInRange DEF Ctl!StopOrPause, Ctl!NoRun
<1>6. CASE Ctl!Case(in)
  <2>0. in.cmd \notin {"abort", "begin"}
    BY <1>6 DEF Ctl!Case, Ctl!CaseEdge
  <2>1. CASE Ctl!Commit(in)
    BY <1>0, <2>0, <2>1, ZeroInRange, PathConstants DEF Ctl!Commit, Ctl!NoRun
  <2>2. CASE Ctl!PlayStopped(in)
    BY <1>0, <2>0, <2>2, ZeroInRange, PathConstants DEF Ctl!PlayStopped
  <2>3. CASE Ctl!Prefetch(in)
    BY <1>0, <2>0, <2>3, PathConstants DEF Ctl!Prefetch
  <2>4. CASE Ctl!OpenGate(in)
    BY <1>0, <1>e, <2>0, <2>4 DEF Ctl!OpenGate
  <2>5. CASE Ctl!LastBeat(in)
    <3>1. loop_position + 1 < CountMod => Ctl!Inc(loop_position) = loop_position + 1
      BY IncType, PathConstants
    <3>2. state = "PLAYING" /\ passes' = passes + 1 /\ loop_count' = loop_count /\ current
          /\ (current' <=> current) /\ passes = loop_position /\ passes < loop_count
      BY <1>0, <1>e, <2>0, <2>5 DEF Ctl!LastBeat, Ctl!stream_fire
    <3>3. Ctl!Inc(loop_position) = loop_position + 1
      BY <3>1, <3>2, PathConstants
    <3>4. CASE loop_count > 1 /\ loop_position + 1 < loop_count
      <4>1. loop_position + 1 \in 0..(CountMod - 1) /\ passes + 1 \in 0..CountMod
        BY <3>2, <3>4, PathConstants
      <4>2. Ctl!Goto("PREFETCH", TRUE, loop_position + 1, TRUE) /\ launched' = launched
        BY <2>5, <3>3, <3>4 DEF Ctl!LastBeat
      <4>3. QED
        BY <1>0, <2>0, <3>2, <3>4, <4>1, <4>2
    <3>5. CASE ~(loop_count > 1 /\ loop_position + 1 < loop_count)
      <4>1. passes + 1 = loop_count /\ passes + 1 \in 0..CountMod
        BY <3>2, <3>5, PathConstants
      <4>2. Ctl!Goto("DRAINING", play_pending, 0, FALSE) /\ launched' = FALSE
        BY <2>5, <3>3, <3>5 DEF Ctl!LastBeat
      <4>3. QED
        BY <1>0, <2>0, <3>2, <4>1, <4>2, ZeroInRange
    <3>6. QED
      BY <3>4, <3>5
  <2>6. CASE Ctl!Drained(in)
    BY <1>0, <1>e, <2>0, <2>6 DEF Ctl!Drained, Ctl!history
  <2>7. CASE Ctl!Hold(in)
    BY <1>0, <1>e, <2>0, <2>7 DEF Ctl!Hold, Ctl!history
  <2>8. QED
    BY <1>6, <2>1, <2>2, <2>3, <2>4, <2>5, <2>6, <2>7 DEF Ctl!Case
<1>7. QED
  BY <1>1, <1>2, <1>3, <1>4, <1>5, <1>6 DEF Ctl!Admission, Ctl!Transition

-----------------------------------------------------------------------------
(* Types.                                                                   *)

LEMMA SeqAppend ==
  ASSUME NEW S, NEW s \in Seq(S), NEW t \in Seq(S)
  PROVE  s \o t \in Seq(S) /\ Len(s \o t) = Len(s) + Len(t)
  OBVIOUS

LEMMA SeqTail ==
  ASSUME NEW S, NEW s \in Seq(S), s # <<>>
  PROVE  Tail(s) \in Seq(S) /\ Len(Tail(s)) = Len(s) - 1 /\ Len(s) >= 1
<1>1. Len(s) \in Nat /\ (Len(s) = 0 => s = <<>>)
  BY EmptySeq
<1> QED
  BY <1>1, HeadTailProperties

\* One command fits the mailbox and the command FIFO.
LEMMA OneFits ==
  ASSUME NEW s \in Seq(Waiting), Len(s) <= 1
  PROVE  Len(s) <= MAILBOX /\ Len(s) <= CMD_DEPTH
<1>1. Len(s) \in Nat /\ MAILBOX \in Nat \ {0} /\ CMD_DEPTH \in Nat \ {0}
  BY PathConstants, LenProperties
<1> QED
  BY <1>1

LEMMA TypeDdr ==
  ASSUME ~Pipelined, FeedInv, NEW in \in DdrInputs, DdrEdge(in),
         OneCommand', PhaseInv', RecordInv'
  PROVE  TypeOK'
<1> USE DEF FeedInv, TypeOK
<1>1. UNCHANGED dacSide
  BY DEF DdrEdge
<1>2. /\ phase' \in {"none", "upload", "committed"} /\ gen' \in 1..2 /\ image' \in 0..2
      /\ total' \in Totals \cup {0} /\ loops' \in Loops \cup {0}
  <2>1. /\ phase \in {"none", "upload", "committed"} /\ gen \in 1..2 /\ image \in 0..2
        /\ total \in Totals \cup {0} /\ loops \in Loops \cup {0} /\ Writer(in)
    BY DEF DdrEdge
  <2> HIDE DEF FeedInv, TypeOK
  <2> QED
    BY <2>1, WriterMoves
<1>3. /\ {rd_busy', rd_done', rd_error', rd_cancelled'} \subseteq BOOLEAN
      /\ (\E t \in Totals : rd_left' \in 0..t) /\ rd_held' \in Seq(Frames) /\ Len(rd_held') <= 1
  <2>1. PICK t \in Totals : rd_left \in 0..t
    OBVIOUS
  <2>2. \E u \in Totals : total \in 0..u
    <3>1. total \in Totals \cup {0} /\ Totals # {} /\ \A u \in Totals : u \in Nat
      BY PathConstants
    <3> HIDE DEF FeedInv, TypeOK
    <3>2. CASE total = 0
      <4>1. PICK u : u \in Totals
        BY <3>1
      <4> QED
        BY <3>1, <3>2, <4>1
    <3>3. CASE total \in Totals
      <4>1. total \in 0..total
        BY <3>1, <3>3
      <4> QED
        BY <3>3, <4>1
    <3> QED
      BY <3>1, <3>2, <3>3
  <2>3. \E u \in Totals : 0 \in 0..u
    BY PathConstants
  <2>4. <<>> \in Seq(Frames) /\ Len(<<>>) = 0
    OBVIOUS
  <2>5. FrameTag \in Frames
    BY <2>1, PathConstants DEF FrameTag, Frames
  <2>6. <<FrameTag>> \in Seq(Frames) /\ Len(<<FrameTag>>) = 1
    BY <2>5
  <2>7. in.fault \in BOOLEAN /\ in.go \in BOOLEAN
    BY PathConstants DEF DdrInputs
  <2>8. Reader(in)
    BY DEF DdrEdge
  <2>9. CASE StartReader(in)
    <3>1. /\ rd_busy' = TRUE /\ rd_done' = FALSE /\ rd_error' = FALSE /\ rd_cancelled' = FALSE
          /\ rd_left' = total /\ rd_held' = <<>>
      BY <2>9 DEF StartReader
    <3>2. /\ rd_done' = FALSE /\ rd_error' = FALSE /\ rd_cancelled' = FALSE /\ rd_busy' = TRUE
          /\ rd_held' \in Seq(Frames) /\ Len(rd_held') <= 1
      BY <2>4, <3>1
    <3> HIDE DEF FeedInv, TypeOK
    <3>3. \E u \in Totals : rd_left' \in 0..u
      BY <2>2, <3>1, Zenon
    <3> QED
      BY <3>2, <3>3
  <2>10. CASE IdleReader(in)
    BY <2>1, <2>10 DEF IdleReader
  <2>11. CASE BusyReader(in)
    <3>1. rd_left' \in 0..t \/ rd_left' = 0
      BY <2>1, <2>11, PathConstants DEF BusyReader, assembles
    <3>2. finishes(in) \in BOOLEAN /\ draining(in) \in BOOLEAN
      BY DEF finishes, draining
    <3>3. rd_held' \in Seq(Frames) /\ Len(rd_held') <= 1
      BY <2>4, <2>6, <2>11 DEF BusyReader
    <3> QED
      BY <2>1, <2>3, <2>7, <2>11, <3>1, <3>2, <3>3 DEF BusyReader
  <2> QED
    BY <2>8, <2>9, <2>10, <2>11 DEF Reader
<1>4. {clear_pending', fifo_clear', restart_pending', restart_start'} \subseteq BOOLEAN
  <2>1. loop_restart_ddr \in BOOLEAN
    BY DEF loop_restart_ddr
  <2> QED
    BY <2>1 DEF DdrEdge, Clear, Restart
<1>5. restart_guard' \in 0..FIFO_RESET_GUARD_CYCLES
  BY PathConstants DEF DdrEdge, Clear
<1>6. \E t \in Totals : prefetched' \in 0..t
  <2>1. PICK t \in Totals : prefetched \in 0..t
    OBVIOUS
  <2>2. t \in Nat /\ \A u \in Totals : u \in Nat
    BY PathConstants
  <2>3. CASE frame_fire /\ prefetched < total /\ prefetched' = prefetched + 1
    <3>1. total \in Totals \cup {0}
      OBVIOUS
    <3> HIDE DEF FeedInv, TypeOK
    <3>2. total \in Totals
      BY <2>1, <2>2, <2>3, <3>1
    <3>3. prefetched' \in 0..total
      BY <2>1, <2>2, <2>3, <3>2
    <3> QED
      BY <3>2, <3>3
  <2>4. CASE prefetched' = 0 \/ prefetched' = prefetched
    <3> HIDE DEF FeedInv, TypeOK
    <3>1. prefetched' \in 0..t
      BY <2>1, <2>2, <2>4
    <3> QED
      BY <3>1
  <2> QED
    BY <2>3, <2>4 DEF DdrEdge, Prefetch
<1>7. {prefetch_complete', prefetch_safe'} \subseteq BOOLEAN
  <2>1. /\ prefetch_complete' = (~rd_error /\ (rd_done \/ (prefetch_complete /\ ~NewPrefetch(in))))
        /\ prefetch_safe' = (~rd_error /\ level_safe /\ (rd_busy \/ prefetch_complete))
    BY DEF DdrEdge, Prefetch
  <2> QED
    BY <2>1
<1>8. /\ mailbox' \in Seq(Waiting) /\ Len(mailbox') <= MAILBOX
      /\ cmd_fifo' \in Seq(Waiting) /\ Len(cmd_fifo') <= CMD_DEPTH
  <2>1. /\ mailbox' \in Seq(Waiting) /\ Len(mailbox') <= 1
        /\ cmd_fifo' \in Seq(Waiting) /\ Len(cmd_fifo') <= 1
    BY Zenon DEF OneCommand
  <2> QED
    BY <2>1, OneFits, Zenon
<1>9. {descriptor_pending', descriptor_accepted', dst_seen', src_toggle'} \subseteq BOOLEAN
  BY <1>1 DEF DdrEdge, Mailbox, RestartSync, dacSide
<1>10. {dst_sync', safe_sync', error_sync'} \subseteq BOOLEAN \X BOOLEAN
  BY <1>1 DEF DdrEdge, RestartSync, dacSide
<1>11. reset_cnt' \in 0..FIFO_RESET_CYCLES
  BY PathConstants DEF DdrEdge, FifoReset
<1>12. shadow' \in Ctl!States /\ shadow_play' \in BOOLEAN
  <2>1. Shadow(in)
    BY DEF DdrEdge
  <2>2. ShadowOf(in.cmd) \in Ctl!States
    <3>1. /\ {"UPLOAD", "IDLE", "READY", "PREFETCH", "PLAYING", "WAIT_TRIGGER"} \subseteq Ctl!States
          /\ shadow \in Ctl!States
      BY DEF Ctl!States
    <3>2. in.cmd \in {"begin", "abort", "stop", "pause", "commit", "play", "none", "status"}
      BY PathConstants DEF DdrInputs
    <3>3. CASE in.cmd \in {"begin", "abort", "stop", "pause", "commit"}
      BY <3>1, <3>3, Zenon DEF ShadowOf
    <3>4. CASE in.cmd = "play"
      BY <3>1, <3>4, Zenon DEF ShadowOf
    <3>5. CASE in.cmd \in {"none", "status"}
      BY <3>1, <3>5, Zenon DEF ShadowOf
    <3> QED
      BY <3>2, <3>3, <3>4, <3>5
  <2>3. shadow' \in Ctl!States
    <3>1. "ERROR" \in Ctl!States
      BY DEF Ctl!States
    <3> QED
      BY <2>1, <2>2, <3>1, Zenon DEF Shadow
  <2>4. shadow_play' \in BOOLEAN
    BY <2>1 DEF Shadow
  <2> QED
    BY <2>3, <2>4
<1>13. snapshot' \in Ctl!States \cup {"idle", "asked"}
  BY DEF DdrEdge, Shadow
<1>14. fifo' \in Seq(Frames) /\ Len(fifo') <= FIFO_DEPTH_BEATS /\ seen' \in 0..Len(fifo')
       /\ lag' \in 0..PUB_EDGES
  <2>1. /\ fifo' = IF reset_cnt > 0 THEN <<>> ELSE IF frame_fire THEN fifo \o rd_held ELSE fifo
        /\ seen' = IF reset_cnt > 0 THEN 0 ELSE seen
        /\ lag' = IF reset_cnt > 0 \/ frame_fire THEN 0 ELSE lag
    BY DEF DdrEdge, Write
  <2>2. lag' \in 0..PUB_EDGES
    BY <2>1, PathConstants
  <2>3. CASE reset_cnt > 0
    BY <2>1, <2>2, <2>3, PathConstants
  <2>4. CASE ~(reset_cnt > 0) /\ frame_fire
    <3>1. Len(fifo) < FIFO_DEPTH_BEATS
      BY <2>4 DEF frame_fire, fifo_ready
    <3>2. fifo \o rd_held \in Seq(Frames) /\ Len(fifo \o rd_held) = Len(fifo) + Len(rd_held)
      BY SeqAppend
    <3>3. Len(fifo) \in Nat /\ Len(rd_held) \in 0..1 /\ seen \in 0..Len(fifo)
      <4>1. \A n \in Nat : n <= 1 => n \in 0..1
        OBVIOUS
      <4>2. rd_held \in Seq(Frames) /\ Len(rd_held) <= 1 /\ fifo \in Seq(Frames)
            /\ seen \in 0..Len(fifo)
        OBVIOUS
      <4> HIDE DEF FeedInv, TypeOK
      <4> QED
        BY <4>1, <4>2, LenProperties
    <3>4. fifo' = fifo \o rd_held /\ seen' = seen
      BY <2>1, <2>4
    <3> HIDE DEF FeedInv, TypeOK
    <3>5. \A f, h, d, s \in Nat : h <= 1 /\ f < d /\ s <= f => f + h <= d /\ s \in 0..(f + h)
      OBVIOUS
    <3>6. /\ Len(rd_held) \in Nat /\ Len(rd_held) <= 1 /\ seen \in Nat /\ seen <= Len(fifo)
          /\ FIFO_DEPTH_BEATS \in Nat
      <4>1. \A h : h \in 0..1 => h \in Nat /\ h <= 1
        OBVIOUS
      <4>2. \A f \in Nat : \A s \in 0..f : s \in Nat /\ s <= f
        OBVIOUS
      <4>3. FIFO_DEPTH_BEATS \in Nat
        BY PathConstants
      <4> QED
        BY <3>3, <4>1, <4>2, <4>3, Zenon
    <3>7. Len(fifo) + Len(rd_held) <= FIFO_DEPTH_BEATS /\ seen \in 0..(Len(fifo) + Len(rd_held))
      BY <3>1, <3>3, <3>5, <3>6, Zenon
    <3>8. fifo' \in Seq(Frames) /\ Len(fifo') = Len(fifo) + Len(rd_held)
      BY <3>2, <3>4, Zenon
    <3> QED
      BY <2>2, <3>4, <3>7, <3>8, Zenon
  <2>5. CASE ~(reset_cnt > 0) /\ ~frame_fire
    BY <2>1, <2>2, <2>5
  <2> QED
    BY <2>3, <2>4, <2>5
<1>15. since' \in 0..DDR_MAX
  BY PathConstants DEF DdrEdge
<1>16. desc_fifo' \in Seq([gen : 1..2, total : Totals, loops : Loops]) /\ Len(desc_fifo') <= 1
  <2>1. CASE desc_fifo' = <<>>
    BY <2>1
  <2>2. CASE desc_fifo' # <<>>
    <3>1. desc_fifo' = <<[gen |-> gen', total |-> total', loops |-> loops']>>
          /\ total' \in Totals /\ loops' \in Loops
      BY <1>2, <2>2 DEF RecordInv, PhaseInv
    <3>2. [gen |-> gen', total |-> total', loops |-> loops']
            \in [gen : 1..2, total : Totals, loops : Loops]
      BY <1>2, <3>1
    <3> QED
      BY <3>1, <3>2
  <2> QED
    BY <2>1, <2>2
<1>17. disturbed' \in BOOLEAN
  BY DEF DdrEdge
<1>18. /\ {cmd_lag', desc_lag'} \subseteq 0..PUB_EDGES
       /\ state' \in Ctl!States
       /\ {play_pending', loop_restart', launched', current'} \subseteq BOOLEAN
       /\ {loop_position', loop_count'} \subseteq 0..(CountMod - 1) /\ passes' \in 0..CountMod
       /\ gen_dac' \in 0..2 /\ total_dac' \in Totals \cup {0} /\ position' \in 0..total_dac'
       /\ was_prefetch' \in BOOLEAN /\ settle' \in 0..CDC_SETTLE_CYCLES
  BY <1>1 DEF dacSide, ctl
<1> QED
  BY <1>2, <1>3, <1>4, <1>5, <1>6, <1>7, <1>8, <1>9, <1>10, <1>11, <1>12, <1>13, <1>14, <1>15,
     <1>16, <1>17, <1>18

LEMMA TypeDac ==
  ASSUME FeedInv, NEW in \in DacInputs, DacEdge(in), OneCommand', RecordInv', RunTypes'
  PROVE  TypeOK'
<1> USE DEF FeedInv, TypeOK
<1>1. UNCHANGED <<ddrSide, disturbed>> /\ since' = 0
  BY DEF DacEdge
<1>2. cmd_fifo' \in Seq(Waiting) /\ Len(cmd_fifo') <= CMD_DEPTH
  <2>1. cmd_fifo' \in Seq(Waiting) /\ Len(cmd_fifo') <= 1
    BY Zenon DEF OneCommand
  <2> QED
    BY <2>1, OneFits, Zenon
<1>3. desc_fifo' \in Seq([gen : 1..2, total : Totals, loops : Loops]) /\ Len(desc_fifo') <= 1
  <2>1. desc_fifo' \in {desc_fifo, <<>>}
    BY DacFacts
  <2>2. desc_fifo \in Seq([gen : 1..2, total : Totals, loops : Loops]) /\ Len(desc_fifo) <= 1
    OBVIOUS
  <2>3. CASE desc_fifo' = <<>>
    BY <2>3
  <2>4. CASE desc_fifo' = desc_fifo
    BY <2>2, <2>4
  <2> QED
    BY <2>1, <2>3, <2>4
<1>4. snapshot' \in Ctl!States \cup {"idle", "asked"}
  BY DEF DacEdge
<1>5. fifo' \in Seq(Frames) /\ Len(fifo') <= FIFO_DEPTH_BEATS /\ seen' \in 0..Len(fifo')
      /\ lag' \in 0..PUB_EDGES
  <2>1. /\ fifo' = IF beat_fire(in) THEN Tail(fifo) ELSE fifo
        /\ seen' \in (seen - (IF beat_fire(in) THEN 1 ELSE 0))..Len(fifo')
        /\ lag = PUB_EDGES => seen' = Len(fifo')
        /\ lag' = IF seen' = Len(fifo') THEN 0 ELSE lag + 1
    BY DEF DacEdge, Stream
  <2>2. lag' \in 0..PUB_EDGES
    <3>1. lag \in 0..PUB_EDGES
      OBVIOUS
    <3> HIDE DEF FeedInv, TypeOK
    <3> QED
      BY <2>1, <3>1, PathConstants
  <2>3. CASE beat_fire(in)
    <3>1. seen > 0 /\ seen \in 0..Len(fifo) /\ fifo \in Seq(Frames) /\ Len(fifo) <= FIFO_DEPTH_BEATS
      BY <2>3 DEF beat_fire
    <3> HIDE DEF FeedInv, TypeOK
    <3>4. fifo # <<>>
      <4>1. Len(fifo) > 0
        BY <3>1
      <4> QED
        BY <4>1
    <3>2. Tail(fifo) \in Seq(Frames) /\ Len(Tail(fifo)) = Len(fifo) - 1 /\ Len(fifo) >= 1
      BY <3>1, <3>4, SeqTail
    <3>3. Len(fifo) \in Nat
      BY <3>1
    <3> QED
      BY <2>1, <2>2, <2>3, <3>1, <3>2, <3>3, PathConstants
  <2>4. CASE ~beat_fire(in)
    <3>3. Len(fifo) \in Nat /\ seen \in 0..Len(fifo) /\ fifo \in Seq(Frames)
          /\ Len(fifo) <= FIFO_DEPTH_BEATS
      OBVIOUS
    <3> HIDE DEF FeedInv, TypeOK
    <3> QED
      BY <2>1, <2>2, <2>4, <3>3, PathConstants
  <2> QED
    BY <2>3, <2>4
<1>6. {cmd_lag', desc_lag'} \subseteq 0..PUB_EDGES
  <2>1. /\ cmd_lag \in 0..PUB_EDGES /\ desc_lag \in 0..PUB_EDGES
        /\ cmd_fifo # <<>> /\ cmd_lag = PUB_EDGES => in.take
        /\ desc_fifo # <<>> /\ desc_lag = PUB_EDGES => in.rec
        /\ cmd_lag' = IF in.take \/ cmd_fifo = <<>> THEN 0 ELSE cmd_lag + 1
        /\ desc_lag' = IF in.rec \/ desc_fifo = <<>> THEN 0 ELSE desc_lag + 1
    BY DEF DacEdge, Descriptor, Shows
  <2> HIDE DEF FeedInv, TypeOK
  <2>2. cmd_lag' \in 0..PUB_EDGES /\ desc_lag' \in 0..PUB_EDGES
    BY <2>1, PathConstants
  <2> QED
    BY <2>2
<1>7. gen_dac' \in 0..2 /\ total_dac' \in Totals \cup {0}
  <2>1. gen \in 1..2 /\ gen_dac \in 0..2 /\ total \in Totals \cup {0} /\ total_dac \in Totals \cup {0}
    OBVIOUS
  <2>2. \A g \in 1..2 : g \in 0..2
    OBVIOUS
  <2>3. gen_dac' \in {gen, gen_dac} /\ total_dac' \in {total, total_dac, 0}
    BY DacFacts
  <2> HIDE DEF FeedInv, TypeOK
  <2> QED
    BY <2>1, <2>2, <2>3
<1>8. position' \in 0..total_dac'
  <2>0. total_dac' \in Nat /\ total_dac \in Nat /\ position \in 0..total_dac
    <3>1. \A t : t \in Totals \cup {0} => t \in Nat
      <4> HIDE DEF FeedInv, TypeOK
      <4> QED
        BY PathConstants
    <3>2. total_dac' \in Nat
      BY <1>7, <3>1
    <3>3. total_dac \in Totals \cup {0} /\ position \in 0..total_dac
      OBVIOUS
    <3> QED
      BY <3>1, <3>2, <3>3
  <2>1. position' = IF stream_clear(in) THEN 0
                    ELSE position + (IF beat_fire(in) THEN 1 ELSE 0)
    BY DEF DacEdge, Stream
  <2>2. CASE in.rec
    <3>1. ~current
      BY <2>2, DacFacts
    <3>2. position = 0 /\ state # "PLAYING"
      BY <3>1 DEF DescriptorInv, RecordInv
    <3> QED
      BY <1>7, <2>0, <2>1, <3>2 DEF beat_fire, active, playing
  <2>3. CASE taken(in) = "abort"
    BY <1>7, <2>0, <2>1, <2>3 DEF stream_clear, Cancelling
  <2>4. CASE ~in.rec /\ taken(in) # "abort"
    <3>1. total_dac' = total_dac
      BY <2>4, DacFacts
    <3>2. beat_fire(in) => position < total_dac
      BY DEF beat_fire, active
    <3> HIDE DEF FeedInv, TypeOK
    <3> QED
      BY <2>0, <2>1, <3>1, <3>2
  <2> QED
    BY <2>2, <2>3, <2>4, DacFacts
<1>9. was_prefetch' \in BOOLEAN /\ settle' \in 0..CDC_SETTLE_CYCLES
      /\ safe_sync' \in BOOLEAN \X BOOLEAN /\ error_sync' \in BOOLEAN \X BOOLEAN
  BY PathConstants DEF DacEdge, Settle
<1>10. src_toggle' \in BOOLEAN
  BY DEF DacEdge, Controller
<1>11. since' \in 0..DDR_MAX
  BY <1>1, PathConstants
<1>12. /\ state' \in Ctl!States /\ {play_pending', loop_restart', launched', current'} \subseteq BOOLEAN
       /\ {loop_position', loop_count'} \subseteq 0..(CountMod - 1) /\ passes' \in 0..CountMod
  BY DEF RunTypes
<1>13. /\ phase' = phase /\ gen' = gen /\ image' = image /\ total' = total /\ loops' = loops
       /\ rd_busy' = rd_busy /\ rd_done' = rd_done /\ rd_error' = rd_error
       /\ rd_cancelled' = rd_cancelled /\ rd_left' = rd_left /\ rd_held' = rd_held
       /\ clear_pending' = clear_pending /\ fifo_clear' = fifo_clear
       /\ restart_pending' = restart_pending /\ restart_start' = restart_start
       /\ restart_guard' = restart_guard /\ prefetched' = prefetched
       /\ prefetch_complete' = prefetch_complete /\ prefetch_safe' = prefetch_safe
       /\ mailbox' = mailbox /\ descriptor_pending' = descriptor_pending
       /\ descriptor_accepted' = descriptor_accepted /\ dst_sync' = dst_sync
       /\ dst_seen' = dst_seen /\ reset_cnt' = reset_cnt /\ shadow' = shadow
       /\ shadow_play' = shadow_play /\ disturbed' = disturbed
  BY <1>1 DEF ddrSide, writer, reader, refill, command
<1> QED
  BY <1>2, <1>3, <1>4, <1>5, <1>6, <1>7, <1>8, <1>9, <1>10, <1>11, <1>12, <1>13

-----------------------------------------------------------------------------
(* The path feeds the controller, and so implements it.                     *)

LEMMA RunTypesHold == TypeOK => RunTypes
  BY DEF TypeOK, RunTypes

LEMMA InitFeed == Init => FeedInv
<1> SUFFICES ASSUME Init PROVE FeedInv
  OBVIOUS
<1>1. <<>> \in Seq(Waiting) /\ Len(<<>>) = 0
  OBVIOUS
<1>2. OneCommand /\ flying = "none"
  BY <1>1 DEF Init, OneCommand, flying
<1>3. TypeOK
  <2>1. \E t \in Totals : 0 \in 0..t
    <3>1. PICK t : t \in Totals
      BY PathConstants
    <3>2. 0 \in 0..t
      BY <3>1, PathConstants
    <3> QED
      BY <3>1, <3>2
  <2>2. \A S : <<>> \in Seq(S)
    OBVIOUS
  <2>3. <<FALSE, FALSE>> \in BOOLEAN \X BOOLEAN
    OBVIOUS
  <2>4. /\ 0 \in 0..FIFO_RESET_GUARD_CYCLES /\ 0 \in 0..FIFO_RESET_CYCLES /\ 0 \in 0..PUB_EDGES
        /\ 0 \in 0..DDR_MAX /\ 0 \in 0..CDC_SETTLE_CYCLES /\ 0 <= MAILBOX /\ 0 <= CMD_DEPTH
        /\ 0 <= FIFO_DEPTH_BEATS
    BY PathConstants
  <2>5. "IDLE" \in Ctl!States
    BY DEF Ctl!States
  <2> QED
    <3>1. (\E t \in Totals : rd_left \in 0..t) /\ (\E t \in Totals : prefetched \in 0..t)
      BY <2>1 DEF Init
    <3>2. fifo = <<>> /\ Len(fifo) = 0 /\ Len(<<>>) = 0
      BY DEF Init
    <3>3. /\ rd_held \in Seq(Frames) /\ mailbox \in Seq(Waiting) /\ fifo \in Seq(Frames)
          /\ cmd_fifo \in Seq(Waiting)
          /\ desc_fifo \in Seq([gen : 1..2, total : Totals, loops : Loops])
      BY <2>2 DEF Init
    <3>4. {dst_sync, safe_sync, error_sync} \subseteq BOOLEAN \X BOOLEAN
      BY <2>3 DEF Init
    <3>5. /\ phase \in {"none", "upload", "committed"} /\ gen \in 1..2 /\ image \in 0..2
          /\ total \in Totals \cup {0} /\ loops \in Loops \cup {0} /\ gen_dac \in 0..2
          /\ total_dac \in Totals \cup {0} /\ position \in 0..total_dac
          /\ settle \in 0..CDC_SETTLE_CYCLES
      BY <2>4 DEF Init
    <3>6. /\ {rd_busy, rd_done, rd_error, rd_cancelled} \subseteq BOOLEAN
          /\ {clear_pending, fifo_clear, restart_pending, restart_start} \subseteq BOOLEAN
          /\ {prefetch_complete, prefetch_safe} \subseteq BOOLEAN
          /\ {descriptor_pending, descriptor_accepted, dst_seen, src_toggle} \subseteq BOOLEAN
          /\ {play_pending, loop_restart, launched, current} \subseteq BOOLEAN
          /\ shadow_play \in BOOLEAN /\ was_prefetch \in BOOLEAN /\ disturbed \in BOOLEAN
      BY DEF Init
    <3>7. /\ restart_guard \in 0..FIFO_RESET_GUARD_CYCLES /\ reset_cnt \in 0..FIFO_RESET_CYCLES
          /\ {lag, cmd_lag, desc_lag} \subseteq 0..PUB_EDGES /\ since \in 0..DDR_MAX
          /\ {loop_position, loop_count} \subseteq 0..(CountMod - 1) /\ passes \in 0..CountMod
      BY <2>4, ZeroInRange DEF Init
    <3>8. /\ shadow \in Ctl!States /\ snapshot \in Ctl!States \cup {"idle", "asked"}
          /\ state \in Ctl!States
      BY <2>5 DEF Init
    <3>9. /\ Len(rd_held) <= 1 /\ Len(mailbox) <= MAILBOX /\ Len(fifo) <= FIFO_DEPTH_BEATS
          /\ seen \in 0..Len(fifo) /\ Len(cmd_fifo) <= CMD_DEPTH /\ Len(desc_fifo) <= 1
      BY <2>4, <3>2 DEF Init
    <3> QED
      BY <3>1, <3>3, <3>4, <3>5, <3>6, <3>7, <3>8, <3>9 DEF TypeOK
<1>4. PhaseInv /\ RecordInv /\ DescriptorInv
  BY <1>2 DEF Init, PhaseInv, RecordInv, DescriptorInv
<1>5. RunInv
  BY DEF Init, RunInv, Ctl!GateNeedsLaunch, Ctl!dac_gate, Ctl!RunIsLoopCountPasses
<1> QED
  BY <1>2, <1>3, <1>4, <1>5 DEF FeedInv

LEMMA FeedDdr ==
  ASSUME ~Pipelined, FeedInv, DdrClock
  PROVE  FeedInv' /\ UNCHANGED ctl
<1>1. PICK in \in DdrInputs : DdrEdge(in)
  BY DEF DdrClock
<1>2. OneCommand' /\ PhaseInv' /\ RecordInv' /\ DescriptorInv'
  BY <1>1, FlightOfDdr, PhaseDdr, RecordDdr, DescriptorDdr DEF FeedInv
<1>3. TypeOK'
  BY <1>1, <1>2, TypeDdr
<1>4. UNCHANGED ctl
  BY <1>1 DEF DdrEdge, dacSide
<1>5. RunInv'
  BY <1>4 DEF FeedInv, RunInv, Ctl!GateNeedsLaunch, Ctl!dac_gate, Ctl!RunIsLoopCountPasses, ctl
<1> QED
  BY <1>2, <1>3, <1>4, <1>5 DEF FeedInv

LEMMA FeedDac ==
  ASSUME FeedInv, DacClock
  PROVE  FeedInv' /\ Ctl!AdmissionEdge
<1>1. PICK in \in DacInputs : DacEdge(in)
  BY DEF DacClock
<1>2. OneCommand' /\ PhaseInv' /\ RecordInv' /\ DescriptorInv'
  BY <1>1, FlightOfDac, PhaseDac, RecordDac, DescriptorDac, FeedImpliesFed DEF FeedInv
<1>3. /\ ControllerInput(in) \in Ctl!Inputs /\ Ctl!Feed(ControllerInput(in))
      /\ Ctl!Admission(ControllerInput(in))
  BY <1>1, Feeds
<1>4. RunTypes' /\ RunInv'
  BY <1>3, RunStep, RunTypesHold DEF FeedInv
<1>5. TypeOK'
  BY <1>1, <1>2, <1>4, TypeDac
<1> QED
  BY <1>2, <1>3, <1>4, <1>5 DEF FeedInv, Ctl!AdmissionEdge

LEMMA FeedStep ==
  ASSUME ~Pipelined
  PROVE  FeedInv /\ [Next]_pathVars => FeedInv' /\ [Ctl!AdmissionEdge]_(Ctl!admissionVars)
<1> SUFFICES ASSUME FeedInv, [Next]_pathVars
             PROVE  FeedInv' /\ [Ctl!AdmissionEdge]_(Ctl!admissionVars)
  OBVIOUS
<1>1. CASE DdrClock
  BY <1>1, FeedDdr DEF ctl, Ctl!admissionVars, Ctl!regs, Ctl!history
<1>2. CASE DacClock
  BY <1>2, FeedDac
<1>3. CASE UNCHANGED pathVars
  <2>1. FeedInv'
    <3> USE <1>3 DEF pathVars, ddrSide, writer, reader, refill, command, frames, dacSide, ctl
    <3>1. TypeOK'
      BY SMTT(40) DEF FeedInv, TypeOK
    <3>2. OneCommand' /\ flying' = flying
      BY DEF FeedInv, OneCommand, flying
    <3>3. PhaseInv' /\ RecordInv' /\ DescriptorInv'
      BY <3>2 DEF FeedInv, PhaseInv, RecordInv, DescriptorInv
    <3>4. RunInv'
      BY DEF FeedInv, RunInv, Ctl!GateNeedsLaunch, Ctl!dac_gate, Ctl!RunIsLoopCountPasses
    <3> QED
      BY <3>1, <3>2, <3>3, <3>4 DEF FeedInv
  <2>2. UNCHANGED Ctl!admissionVars
    BY <1>3 DEF pathVars, dacSide, ctl, Ctl!admissionVars, Ctl!regs, Ctl!history
  <2> QED
    BY <2>1, <2>2
<1> QED
  BY <1>1, <1>2, <1>3 DEF Next

LEMMA FeedHolds ==
  ASSUME ~Pipelined
  PROVE  Spec => []FeedInv
  BY InitFeed, FeedStep, PTL DEF Spec

\* Every register of the path keeps its type, and every FIFO, counter and
\* level its bound.
THEOREM TypeCorrect ==
  ASSUME ~Pipelined
  PROVE  Spec => []TypeOK
<1>1. FeedInv => TypeOK
  BY DEF FeedInv
<1> QED
  BY <1>1, FeedHolds, PTL

\* A descriptor record reaches the controller once, and PREFETCH does not end
\* before it: what PlaybackController assumes of its surroundings.
THEOREM ControllerIsFed ==
  ASSUME ~Pipelined
  PROVE  Spec => []ControllerFed
  BY FeedImpliesFed, FeedHolds, PTL

\* The DAC side of the path implements the controller, for any FIFO depth, any
\* latency of the crossings and any ratio of the clocks.
THEOREM ControllerImplemented ==
  ASSUME ~Pipelined
  PROVE  Spec => ImplementsController
<1>1. Init => Ctl!AdmissionInit
  BY DEF Init, Ctl!AdmissionInit
<1> QED
  BY <1>1, FeedHolds, FeedStep, PTL DEF Spec, ImplementsController, Ctl!AdmissionSpec

\* In the path too, the gate is open only in a run that was launched, and a run
\* that ends has played the passes of its descriptor.
THEOREM RunsAreExact ==
  ASSUME ~Pipelined
  PROVE  Spec => [](Ctl!GateNeedsLaunch /\ Ctl!RunIsLoopCountPasses)
<1>1. FeedInv => Ctl!GateNeedsLaunch /\ Ctl!RunIsLoopCountPasses
  BY DEF FeedInv, RunInv
<1> QED
  BY <1>1, FeedHolds, PTL
-----------------------------------------------------------------------------
(* The rest holds when no cancelling command meets a restart (Racing = {}).  *)
(* The invariant follows the frames: an epoch runs from the COMMIT, or from  *)
(* the start of the reader for a further pass, to the next command or the    *)
(* last beat, and in it FIFO, held frame and reader add up to the waveform.  *)
(* Between epochs lie the restart on its way and what a cancelled read        *)
(* leaves behind.                                                            *)

cancelling == flying \in Cancelling
Live == {"PREFETCH", "WAIT_TRIGGER", "PLAYING"}
Open == state \in {"WAIT_TRIGGER", "PLAYING"}
Fits == total <= FIFO_DEPTH_BEATS

\* A restart between the controller and the reader.
Restarting ==
  \/ loop_restart \/ src_toggle # dst_sync[1] \/ dst_sync[1] # dst_sync[2]
  \/ loop_restart_ddr \/ restart_pending \/ restart_start

\* One restart at a time, and it belongs to a committed waveform that waits for it.
TokenInv ==
  /\ loop_restart => /\ src_toggle = dst_sync[1] /\ dst_sync[1] = dst_sync[2]
                     /\ ~loop_restart_ddr /\ ~restart_pending /\ ~restart_start
                     /\ state = "PREFETCH"
  /\ src_toggle # dst_sync[1] => /\ dst_sync[1] = dst_sync[2]
                                 /\ ~loop_restart_ddr /\ ~restart_pending /\ ~restart_start
  /\ dst_sync[1] # dst_sync[2] => ~loop_restart_ddr /\ ~restart_pending /\ ~restart_start
  /\ loop_restart_ddr => ~restart_pending /\ ~restart_start
  /\ restart_pending => ~restart_start
  /\ Restarting => /\ state \in {"PREFETCH", "ERROR"} /\ phase = "committed" /\ current
                   /\ ~cancelling /\ flying # "commit"

\* The reader at rest, and a restart that waits for it.
ReaderInv ==
  /\ ~rd_busy => rd_held = <<>> /\ rd_left = 0
  /\ rd_done => ~rd_busy
  /\ phase = "committed" => image = gen
  /\ fifo_clear => ~rd_busy /\ ~clear_pending /\ restart_guard = FIFO_RESET_GUARD_CYCLES
  /\ restart_pending => /\ rd_busy => clear_pending
                        /\ rd_error => clear_pending \/ fifo_clear
                        /\ clear_pending \/ fifo_clear \/ reset_cnt <= restart_guard + 1
  /\ restart_start => /\ ~rd_busy /\ ~rd_error /\ ~clear_pending /\ ~fifo_clear
                      /\ reset_cnt = 0

\* What a cancelled read leaves: frames that a reset still removes, and a count
\* that does not look like a finished prefetch.
Spoiled ==
  /\ rd_busy => rd_cancelled /\ clear_pending
  /\ fifo # <<>> => clear_pending \/ fifo_clear \/ reset_cnt > 0
  /\ rd_done \/ prefetch_complete => prefetched = 0 /\ rd_held = <<>>

SpoiledInv == phase # "committed" \/ cancelling \/ state = "READY" => Spoiled

\* The prefetch flag has left its synchroniser, or does so before the timer ends.
Quiet(timer) ==
  /\ ~prefetch_safe
  /\ \/ timer + since >= 2 * DDR_MAX
     \/ ~safe_sync[1] /\ timer + since >= DDR_MAX
     \/ ~safe_sync[1] /\ ~safe_sync[2]

UploadInv ==
  phase = "upload" => /\ rd_error => clear_pending \/ shadow = "ERROR"
                      /\ clear_pending \/ fifo_clear \/ Quiet(reset_cnt)

\* The beats the DAC has taken of the pass.
Base == IF Open THEN position ELSE 0
InHand(base) == base + Len(fifo) + Len(rd_held)
FifoOrdered(base) == \A i \in 1..Len(fifo) : fifo[i] = [gen |-> gen, n |-> base + i]
HeldNext(base) == rd_held # <<>> => rd_held[1] = [gen |-> gen, n |-> base + Len(fifo) + 1]
Calm == ~clear_pending /\ ~fifo_clear /\ reset_cnt = 0
Full == Len(fifo) = total - Base /\ rd_left = 0 /\ rd_held = <<>> /\ ~rd_error

Epoch ==
  /\ phase = "committed" /\ ~cancelling /\ ~Restarting
  /\ flying = "commit" \/ state \in Live

FramesInv ==
  Epoch =>
    /\ FifoOrdered(Base) /\ HeldNext(Base)
    /\ rd_error => InHand(Base) < total
    /\ ~rd_error => InHand(Base) + rd_left = total /\ ~rd_cancelled /\ ~disturbed
    /\ rd_busy => ~fifo_clear /\ reset_cnt = 0
    /\ ~disturbed => Calm /\ (~Open => prefetched = Len(fifo))
    /\ state = "WAIT_TRIGGER" => position = 0

FitsInv ==
  Epoch /\ Fits =>
    /\ ~Open /\ (prefetch_safe \/ safe_sync[1] \/ safe_sync[2]) => Full
    /\ state = "PREFETCH" /\ was_prefetch /\ settle > 0 =>
         Full /\ (seen < Len(fifo) => settle <= lag)
    /\ Open => Full /\ seen = Len(fifo)

\* A cancelling command on its way to a controller that still runs: the frames
\* are still in order until the reset empties the FIFO, and from then on the
\* controller cannot have a prefetch done that plays on.
Unsent ==
  /\ mailbox # <<>> /\ reset_cnt = FIFO_RESET_CYCLES
  /\ FifoOrdered(Base) /\ HeldNext(Base)
  /\ rd_error => InHand(Base) < total_dac
  /\ ~rd_error => InHand(Base) + rd_left <= total_dac
  /\ state = "WAIT_TRIGGER" => position = 0

CancelInv ==
  cancelling /\ state \in Live =>
    /\ disturbed /\ current /\ ~Restarting
    /\ \/ Unsent
       \/ mailbox = <<>> /\ fifo = <<>> /\ Open /\ reset_cnt + since >= DDR_MAX
       \/ mailbox = <<>> /\ fifo = <<>> /\ state = "PREFETCH" /\ reset_cnt + since >= 2 * DDR_MAX
       \/ mailbox = <<>> /\ state = "PREFETCH" /\ settle < cmd_lag

\* The frame that a stopped read may still hand over does not make a level.
LowLevel ==
  /\ prefetched + Len(rd_held) <= 1
  /\ prefetched + Len(rd_held) = 1 => total > FIFO_DEPTH_BEATS \/ rd_error

StopInv ==
  phase = "committed" =>
    /\ (flying \in {"stop", "pause"} /\ state # "ERROR") \/ state = "READY" => LowLevel
    /\ state = "READY" => ~prefetch_safe /\ ~safe_sync[1]
    /\ flying \in {"stop", "pause"} /\ mailbox = <<>> /\ state # "ERROR" => ~prefetch_safe

Drained == fifo = <<>> /\ rd_held = <<>> /\ rd_left = 0 /\ ~rd_error

DoneInv == state \in {"DRAINING", "DONE"} => Drained

\* While a restart is on its way the flags of the pass before have no effect.
RestartInv ==
  Restarting /\ state = "PREFETCH" =>
    /\ was_prefetch => settle = 0
    /\ \/ Drained
       \/ Spoiled /\ LowLevel /\ ~prefetch_safe /\ ~safe_sync[1] /\ ~safe_sync[2]
    /\ restart_pending => /\ LowLevel
                          /\ ~clear_pending =>
                               fifo_clear \/ (prefetched = 0 /\ Quiet(restart_guard))
    /\ restart_start => /\ prefetched = 0 /\ fifo = <<>>
                        /\ ~prefetch_safe /\ ~safe_sync[1] /\ ~safe_sync[2]

PlayInv ==
  /\ TokenInv /\ ReaderInv /\ SpoiledInv /\ UploadInv /\ FramesInv /\ FitsInv
  /\ CancelInv /\ StopInv /\ DoneInv /\ RestartInv

\* No cancelling command meets a restart in this step.
NoMeet == flying' \in Cancelling => flying # "play" /\ ~Restarting /\ ~Restarting'

LEMMA NoRace ==
  ASSUME Racing = {}, OneCommand, OneCommand', Next
  PROVE  NoMeet
<1> SUFFICES ASSUME flying' \in Cancelling
             PROVE  flying # "play" /\ ~Restarting /\ ~Restarting'
  BY DEF NoMeet
<1>1. \A S, s : s \in Seq(S) /\ Len(s) = 1 => Contains(s, s[1])
  BY DEF Contains
<1>2. Contains(mailbox', flying') \/ Contains(cmd_fifo', flying')
  <2>1. flying' # "none"
    BY DEF Cancelling
  <2>2. CASE mailbox' # <<>>
    <3>1. flying' = mailbox'[1] /\ Len(mailbox') = 1 /\ mailbox' \in Seq(Waiting)
      BY <2>2, ShortSeq DEF flying, OneCommand
    <3> QED
      BY <1>1, <3>1
  <2>3. CASE mailbox' = <<>>
    <3>1. cmd_fifo' # <<>> /\ flying' = cmd_fifo'[1]
      BY <2>1, <2>3 DEF flying
    <3>2. Len(cmd_fifo') = 1 /\ cmd_fifo' \in Seq(Waiting)
      BY <3>1, ShortSeq DEF OneCommand
    <3> QED
      BY <1>1, <3>1, <3>2
  <2> QED
    BY <2>2, <2>3
<1>3. Crossing(Cancelling \ Racing)'
  BY <1>2 DEF Crossing
<1>4. ~RestartInFlight /\ ~RestartInFlight'
  BY <1>3 DEF Next, MeetsRestart
<1>5. flying = "play" => Contains(mailbox, "play") \/ Contains(cmd_fifo, "play")
  <2>1. CASE mailbox # <<>>
    <3>1. flying = mailbox[1] /\ Len(mailbox) = 1 /\ mailbox \in Seq(Waiting)
      BY <2>1, ShortSeq DEF flying, OneCommand
    <3> QED
      BY <1>1, <3>1
  <2>2. CASE mailbox = <<>> /\ cmd_fifo # <<>>
    <3>1. flying = cmd_fifo[1] /\ Len(cmd_fifo) = 1 /\ cmd_fifo \in Seq(Waiting)
      BY <2>2, ShortSeq DEF flying, OneCommand
    <3> QED
      BY <1>1, <3>1
  <2>3. CASE mailbox = <<>> /\ cmd_fifo = <<>>
    BY <2>3 DEF flying
  <2> QED
    BY <2>1, <2>2, <2>3
<1> QED
  BY <1>4, <1>5 DEF RestartInFlight, Restarting

\* The commands of a DDR edge, by what they do to the phase.
Plain(in) ==
  /\ in.cmd \in {"none", "status"} /\ flying' = flying
  /\ phase' = phase /\ gen' = gen /\ image' = image /\ total' = total
  /\ mailbox' # <<>> => mailbox # <<>> /\ flying = "commit"
  /\ mailbox # <<>> => cmd_fifo = <<>>
Commits(in) ==
  /\ in.cmd = "commit" /\ flying = "none" /\ flying' = "commit"
  /\ phase = "upload" /\ phase' = "committed" /\ gen' = 3 - gen /\ image' = gen'
  /\ total' = total /\ shadow # "ERROR" /\ UploadTookTime
Plays(in) ==
  /\ in.cmd = "play" /\ flying = "none" /\ flying' = "play"
  /\ phase = "committed" /\ phase' = phase /\ gen' = gen /\ image' = image /\ total' = total
Cancels(in) ==
  /\ in.cmd \in Cancelling /\ flying = "none" /\ flying' = in.cmd /\ mailbox' # <<>>
  /\ desc_fifo = <<>> /\ gen' = gen
  /\ phase' = "committed" => /\ phase = "committed" /\ in.cmd \in {"stop", "pause"}
                             /\ image' = image /\ total' = total

LEMMA DdrCommands ==
  ASSUME ~Pipelined, OneCommand, NEW in \in DdrInputs, DdrEdge(in)
  PROVE  /\ Plain(in) \/ Commits(in) \/ Plays(in) \/ Cancels(in)
         /\ in.go \in BOOLEAN /\ in.fault \in BOOLEAN
<1>1. in.cmd \in {"none", "status", "commit", "play", "begin", "pause", "stop", "abort"}
      /\ in.go \in BOOLEAN /\ in.fault \in BOOLEAN
  BY PathConstants DEF DdrInputs
<1>2. Writer(in)
  BY DEF DdrEdge
<1>3. CASE in.cmd \in {"none", "status"}
  <2>1. flying' = flying /\ (mailbox' # <<>> => mailbox # <<>> /\ flying = "commit")
    BY <1>3, FlightOfDdr DEF Waiting, Cancelling
  <2> QED
    BY <1>1, <1>2, <1>3, <2>1, WriterMoves DEF Plain, OneCommand
<1>4. CASE in.cmd \in Waiting
  <2>1. flying = "none" /\ flying' = in.cmd /\ mailbox' = <<in.cmd>> /\ desc_fifo = <<>>
    BY <1>4, FlightOfDdr DEF Waiting, Cancelling
  <2>2. mailbox' # <<>>
    BY <2>1
  <2>3. CASE in.cmd = "commit"
    BY <1>1, <1>2, <2>1, <2>3, WriterMoves DEF Commits
  <2>4. CASE in.cmd = "play"
    BY <1>1, <1>2, <2>1, <2>4, WriterMoves DEF Plays
  <2>5. CASE in.cmd \in Cancelling
    BY <1>1, <1>2, <2>1, <2>2, <2>5, WriterMoves DEF Cancels, Cancelling
  <2> QED
    BY <1>1, <1>4, <2>3, <2>4, <2>5 DEF Waiting
<1> QED
  BY <1>1, <1>3, <1>4 DEF Waiting, Cancelling

\* An edge of the DAC clock leaves the DDR side alone.
LEMMA DdrSideStays ==
  ASSUME NEW in \in DacInputs, DacEdge(in)
  PROVE  /\ phase' = phase /\ gen' = gen /\ image' = image /\ total' = total
         /\ rd_busy' = rd_busy /\ rd_done' = rd_done /\ rd_error' = rd_error
         /\ rd_cancelled' = rd_cancelled /\ rd_left' = rd_left /\ rd_held' = rd_held
         /\ clear_pending' = clear_pending /\ fifo_clear' = fifo_clear
         /\ restart_pending' = restart_pending /\ restart_start' = restart_start
         /\ restart_guard' = restart_guard /\ prefetched' = prefetched
         /\ prefetch_complete' = prefetch_complete /\ prefetch_safe' = prefetch_safe
         /\ mailbox' = mailbox /\ dst_sync' = dst_sync /\ dst_seen' = dst_seen
         /\ reset_cnt' = reset_cnt /\ shadow' = shadow /\ disturbed' = disturbed
  BY DEF DacEdge, ddrSide, writer, reader, refill, command

\* An edge of the DDR clock leaves the DAC side alone.
LEMMA DacSideStays ==
  ASSUME NEW in \in DdrInputs, DdrEdge(in)
  PROVE  /\ state' = state /\ loop_restart' = loop_restart /\ current' = current
         /\ gen_dac' = gen_dac /\ total_dac' = total_dac /\ safe_sync' = safe_sync
         /\ was_prefetch' = was_prefetch /\ settle' = settle /\ position' = position
         /\ src_toggle' = src_toggle /\ cmd_lag' = cmd_lag
  BY DEF DdrEdge, dacSide, ctl

-----------------------------------------------------------------------------
(* The restart on its way.                                                  *)

\* A DDR edge moves a restart one place on; it makes none.
LEMMA RestartOfDdr ==
  ASSUME NEW in \in DdrInputs, DdrEdge(in)
  PROVE  /\ dst_sync'[1] = src_toggle /\ dst_sync'[2] = dst_sync[1]
         /\ (loop_restart_ddr' <=> dst_sync[1] # dst_sync[2])
         /\ restart_start' = (restart_pending /\ ~clear_pending /\ ~rd_busy /\ ~fifo_clear
                                /\ restart_guard = 0)
         /\ restart_pending' = (~restart_start' /\ (loop_restart_ddr
                                  \/ (restart_pending /\ in.cmd \notin Cancelling)))
         /\ Restarting' => Restarting
<1>1. /\ dst_sync' = <<src_toggle, dst_sync[1]>> /\ dst_seen' = dst_sync[2]
      /\ restart_start' = (restart_pending /\ ~clear_pending /\ ~rd_busy /\ ~fifo_clear
                             /\ restart_guard = 0)
      /\ restart_pending' = (~restart_start' /\ (loop_restart_ddr
                               \/ (restart_pending /\ in.cmd \notin Cancelling)))
  BY DEF DdrEdge, RestartSync, Restart
<1>2. dst_sync'[1] = src_toggle /\ dst_sync'[2] = dst_sync[1]
  BY <1>1
<1>3. loop_restart_ddr' <=> dst_sync[1] # dst_sync[2]
  BY <1>1, <1>2 DEF loop_restart_ddr
<1> QED
  BY <1>1, <1>2, <1>3, DacSideStays DEF Restarting

LEMMA TokenDdr ==
  ASSUME ~Pipelined, FeedInv, PlayInv, NEW in \in DdrInputs, DdrEdge(in), NoMeet
  PROVE  TokenInv'
<1> USE DEF PlayInv
<1>1. Plain(in) \/ Commits(in) \/ Plays(in) \/ Cancels(in)
  BY DdrCommands DEF FeedInv
<1>2. Restarting' => /\ state' \in {"PREFETCH", "ERROR"} /\ phase' = "committed" /\ current'
                     /\ ~cancelling' /\ flying' # "commit"
  <2> SUFFICES ASSUME Restarting'
               PROVE  /\ state' \in {"PREFETCH", "ERROR"} /\ phase' = "committed" /\ current'
                      /\ ~cancelling' /\ flying' # "commit"
    OBVIOUS
  <2>1. /\ Restarting /\ state \in {"PREFETCH", "ERROR"} /\ phase = "committed" /\ current
        /\ flying # "commit"
    BY RestartOfDdr DEF TokenInv
  <2>2. flying' \notin Cancelling
    BY DEF NoMeet
  <2> QED
    BY <1>1, <2>1, <2>2, DacSideStays DEF cancelling, Plain, Commits, Plays, Cancels
<1>3. loop_restart' = loop_restart /\ state' = state /\ src_toggle' = src_toggle
  BY DacSideStays
<1> QED
  BY <1>2, <1>3, RestartOfDdr DEF TokenInv

\* While a restart is on its way PREFETCH does not end.
LEMMA RestartWaits ==
  ASSUME FeedInv, RestartInv, Restarting, state = "PREFETCH"
  PROVE  ~prefetch_done
  BY PathConstants DEF RestartInv, prefetch_done, fifo_published, FeedInv, TypeOK

LEMMA TokenDac ==
  ASSUME FeedInv, PlayInv, NEW in \in DacInputs, DacEdge(in), NoMeet
  PROVE  TokenInv'
<1> USE DEF PlayInv
<1>1. /\ Moves(in) /\ state \in Ctl!States /\ phase \in {"none", "upload", "committed"}
      /\ loop_restart \in BOOLEAN /\ src_toggle \in BOOLEAN
      /\ PhaseInv /\ RecordInv
  BY DacFacts DEF FeedInv, TypeOK
<1>2. /\ src_toggle' = (src_toggle # loop_restart)
      /\ dst_sync' = dst_sync /\ dst_seen' = dst_seen /\ restart_pending' = restart_pending
      /\ restart_start' = restart_start /\ phase' = phase
      /\ (loop_restart_ddr' <=> loop_restart_ddr)
  BY DdrSideStays DEF DacEdge, Controller, loop_restart_ddr
<1>3. \/ taken(in) = "none" /\ flying' = flying
      \/ taken(in) = flying /\ flying \in Waiting /\ flying' = "none"
  BY DacFacts
<1>4. current /\ taken(in) \notin {"abort", "begin"} => current'
  BY DacFacts
<1>5. dst_sync[1] \in BOOLEAN
  BY DEF FeedInv, TypeOK
<1>6. CASE Restarting
  <2>1. /\ state \in {"PREFETCH", "ERROR"} /\ phase = "committed" /\ current
        /\ flying \notin Cancelling \cup {"commit"}
    BY <1>6 DEF TokenInv, cancelling
  <2>2. taken(in) \in {"none", "play"} /\ flying' \in {"none", flying}
    BY <1>3, <2>1 DEF Waiting
  <2>3. state = "PREFETCH" => ~prefetch_done
    BY <1>6, RestartWaits
  <2>4. ~loop_restart' /\ state' \in {"PREFETCH", "ERROR"}
    BY <1>1, <2>1, <2>2, <2>3 DEF Moves, Stays, LastBeat, Cancelling, Faulty
  <2>5. current' /\ phase' = "committed" /\ ~cancelling' /\ flying' # "commit"
    BY <1>2, <1>4, <2>1, <2>2 DEF cancelling, Cancelling
  <2> QED
    BY <1>1, <1>2, <1>5, <2>4, <2>5 DEF TokenInv
<1>7. CASE ~Restarting
  <2>1. /\ ~loop_restart /\ src_toggle = dst_sync[1] /\ dst_sync[1] = dst_sync[2]
        /\ ~loop_restart_ddr /\ ~restart_pending /\ ~restart_start
    BY <1>7 DEF Restarting
  <2>2. src_toggle' = src_toggle
    BY <1>1, <1>2, <2>1
  <2>3. ASSUME loop_restart'
        PROVE  /\ state' = "PREFETCH" /\ phase = "committed" /\ current'
               /\ ~cancelling' /\ flying' # "commit"
    <3>1. /\ state' = "PREFETCH" /\ state \in {"READY", "DONE", "PLAYING"}
          /\ taken(in) \notin Cancelling
      BY <1>1, <2>3 DEF Moves, LastBeat, Stays, Cancelling
    <3>2. Restarting'
      BY <2>3 DEF Restarting
    <3>3. flying' \notin Cancelling
      BY <3>2 DEF NoMeet
    <3>4. flying \notin Cancelling
      BY <1>3, <3>1, <3>3
    <3>5. phase = "committed"
      BY <1>1, <3>1, <3>4 DEF PhaseInv, Cancelling
    <3>6. current
      BY <1>1, <3>1 DEF RecordInv
    <3>7. flying # "commit"
      BY <1>1, <3>1, <3>5 DEF PhaseInv
    <3> QED
      BY <1>3, <1>4, <3>1, <3>3, <3>5, <3>6, <3>7 DEF cancelling, Cancelling
  <2>4. Restarting' => loop_restart'
    BY <1>2, <2>1, <2>2 DEF Restarting
  <2> QED
    BY <1>2, <2>1, <2>2, <2>3, <2>4 DEF TokenInv
<1> QED
  BY <1>6, <1>7

-----------------------------------------------------------------------------
(* The reader, the clear and the count on an edge of the DDR clock.         *)

\* The types of the registers the frames depend on.
LEMMA FrameTypes ==
  ASSUME FeedInv
  PROVE  /\ {rd_busy, rd_done, rd_error, rd_cancelled} \subseteq BOOLEAN
         /\ {clear_pending, fifo_clear, restart_pending, restart_start} \subseteq BOOLEAN
         /\ {prefetch_complete, prefetch_safe, disturbed} \subseteq BOOLEAN
         /\ rd_left \in Nat /\ prefetched \in Nat /\ total \in Nat /\ total_dac \in Nat
         /\ position \in Nat /\ settle \in Nat /\ lag \in Nat /\ cmd_lag \in Nat
         /\ rd_held \in Seq(Frames) /\ Len(rd_held) \in {0, 1}
         /\ (rd_held = <<>> <=> Len(rd_held) = 0)
         /\ fifo \in Seq(Frames) /\ Len(fifo) \in Nat /\ Len(fifo) <= FIFO_DEPTH_BEATS
         /\ (fifo = <<>> <=> Len(fifo) = 0) /\ seen \in 0..Len(fifo)
         /\ reset_cnt \in 0..FIFO_RESET_CYCLES
         /\ restart_guard \in 0..FIFO_RESET_GUARD_CYCLES
         /\ since \in 0..DDR_MAX /\ safe_sync \in BOOLEAN \X BOOLEAN
         /\ safe_sync[1] \in BOOLEAN /\ safe_sync[2] \in BOOLEAN
<1>1. \A t \in Totals \cup {0} : t \in Nat /\ 0..t \subseteq Nat
  BY PathConstants
<1>2. rd_left \in Nat
  <2>1. PICK t \in Totals : rd_left \in 0..t
    BY DEF FeedInv, TypeOK
  <2> QED
    BY <1>1, <2>1
<1>3. prefetched \in Nat
  <2>1. PICK t \in Totals : prefetched \in 0..t
    BY DEF FeedInv, TypeOK
  <2> QED
    BY <1>1, <2>1
<1>4. total \in Nat /\ total_dac \in Nat /\ position \in Nat
  BY <1>1 DEF FeedInv, TypeOK
<1>5. rd_held \in Seq(Frames) /\ Len(rd_held) <= 1 /\ fifo \in Seq(Frames)
  BY DEF FeedInv, TypeOK
<1>6. Len(rd_held) \in {0, 1} /\ Len(fifo) \in Nat
  <2>1. Len(rd_held) \in Nat /\ Len(fifo) \in Nat
    BY <1>5, LenProperties
  <2>2. \A n \in Nat : n <= 1 => n \in {0, 1}
    OBVIOUS
  <2> QED
    BY <1>5, <2>1, <2>2, Zenon
<1>7. (rd_held = <<>> <=> Len(rd_held) = 0) /\ (fifo = <<>> <=> Len(fifo) = 0)
  BY <1>5, EmptySeq
<1>8. /\ {rd_busy, rd_done, rd_error, rd_cancelled} \subseteq BOOLEAN
      /\ {clear_pending, fifo_clear, restart_pending, restart_start} \subseteq BOOLEAN
      /\ {prefetch_complete, prefetch_safe, disturbed} \subseteq BOOLEAN
      /\ Len(fifo) <= FIFO_DEPTH_BEATS /\ seen \in 0..Len(fifo)
      /\ reset_cnt \in 0..FIFO_RESET_CYCLES
      /\ restart_guard \in 0..FIFO_RESET_GUARD_CYCLES
      /\ since \in 0..DDR_MAX /\ safe_sync \in BOOLEAN \X BOOLEAN
  BY DEF FeedInv, TypeOK
<1>9. settle \in Nat /\ lag \in Nat /\ cmd_lag \in Nat
  BY PathConstants DEF FeedInv, TypeOK
<1> QED
  BY <1>2, <1>3, <1>4, <1>5, <1>6, <1>7, <1>8, <1>9

\* What an edge of the DDR clock does to reader, clear, count and FIFO.
LEMMA DdrMoves ==
  ASSUME FeedInv, NEW in \in DdrInputs, DdrEdge(in)
  PROVE  /\ since < DDR_MAX /\ since' = since + 1
         /\ BusAnswers(in) /\ Reader(in) /\ Clear(in) /\ Prefetch(in) /\ FifoReset(in)
         /\ Write
         /\ disturbed' = (in.cmd \in Cancelling \/ rd_error \/ (disturbed /\ ~NewPrefetch(in)))
  BY DEF DdrEdge

\* A COMMIT finds nothing on its way.
LEMMA CommitAlone ==
  ASSUME UploadTookTime
  PROVE  ~Restarting /\ ~clear_pending /\ ~fifo_clear /\ reset_cnt = 0
         /\ ~(rd_busy /\ rd_cancelled)
  BY DEF UploadTookTime, RestartInFlight, Restarting

LEMMA ReaderDdr ==
  ASSUME ~Pipelined, FeedInv, PlayInv, NEW in \in DdrInputs, DdrEdge(in), NoMeet
  PROVE  ReaderInv'
<1>1. /\ TokenInv /\ ReaderInv
  BY DEF PlayInv
<1>2. Plain(in) \/ Commits(in) \/ Plays(in) \/ Cancels(in)
  BY DdrCommands DEF FeedInv
<1>3. in.cmd = "commit" => UploadTookTime
  BY DEF DdrEdge, Writer, Admitted
<1>4. in.cmd \in Cancelling => ~Restarting
  BY <1>2 DEF Cancels, Plain, Commits, Plays, NoMeet, Cancelling
<1>5. restart_start \/ restart_pending \/ loop_restart_ddr => Restarting
  BY DEF Restarting
<1>6. reader_start(in) => ~clear_pending /\ ~restart_pending
  BY <1>1, <1>3, <1>5, CommitAlone DEF reader_start, TokenInv, ReaderInv
<1>7. /\ BusAnswers(in) /\ Reader(in) /\ Clear(in) /\ FifoReset(in)
  BY DdrMoves
<1>8. ~rd_busy' => rd_held' = <<>> /\ rd_left' = 0
  <2>1. CASE StartReader(in)
    BY <2>1 DEF StartReader
  <2>2. CASE IdleReader(in)
    BY <1>1, <2>2 DEF IdleReader, ReaderInv
  <2>3. CASE BusyReader(in)
    <3> SUFFICES ASSUME finishes(in) PROVE rd_held' = <<>> /\ rd_left' = 0
      BY <2>3 DEF BusyReader
    <3>1. ~assembles(in) /\ rd_held = <<>>
      BY FrameTypes DEF finishes, assembles, draining
    <3> QED
      BY <2>3, <3>1 DEF BusyReader
  <2> QED
    BY <1>7, <2>1, <2>2, <2>3 DEF Reader
<1>9. rd_done' => ~rd_busy'
  BY <1>7 DEF Reader, StartReader, IdleReader, BusyReader
<1>10. phase' = "committed" => image' = gen'
  BY <1>1, <1>2 DEF ReaderInv, Plain, Commits, Plays, Cancels
<1>11. fifo_clear' => /\ ~rd_busy /\ clear_pending /\ ~rd_busy' /\ ~clear_pending'
                      /\ restart_guard' = FIFO_RESET_GUARD_CYCLES
  BY <1>6, <1>7 DEF Reader, StartReader, IdleReader, BusyReader, Clear
<1>12. /\ clear_pending => clear_pending' \/ fifo_clear'
       /\ clear_pending /\ rd_busy => clear_pending'
       /\ loop_restart_ddr \/ rd_error => clear_pending' \/ fifo_clear'
  BY <1>7 DEF Clear
<1>13. rd_error' => rd_error \/ (rd_busy /\ in.fault)
  BY <1>7 DEF Reader, StartReader, IdleReader, BusyReader
<1>14. rd_busy' => rd_busy \/ reader_start(in)
  BY <1>7 DEF Reader, StartReader, IdleReader, BusyReader
<1>15. /\ restart_start' = (restart_pending /\ ~clear_pending /\ ~rd_busy /\ ~fifo_clear
                              /\ restart_guard = 0)
       /\ restart_pending' = (~restart_start' /\ (loop_restart_ddr
                                \/ (restart_pending /\ in.cmd \notin Cancelling)))
  BY RestartOfDdr
<1>16. restart_pending' => /\ rd_busy' => clear_pending'
                           /\ rd_error' => clear_pending' \/ fifo_clear'
                           /\ clear_pending' \/ fifo_clear' \/ reset_cnt' <= restart_guard' + 1
  <2> SUFFICES ASSUME restart_pending'
               PROVE  /\ rd_busy' => clear_pending'
                      /\ rd_error' => clear_pending' \/ fifo_clear'
                      /\ clear_pending' \/ fifo_clear' \/ reset_cnt' <= restart_guard' + 1
    OBVIOUS
  <2>1. CASE loop_restart_ddr
    BY <1>11, <1>12, <2>1
  <2>2. CASE restart_pending /\ in.cmd \notin Cancelling
    <3>1. ~reader_start(in) /\ (rd_busy => clear_pending)
      BY <1>1, <1>6, <2>2 DEF ReaderInv
    <3>2. (rd_busy' => clear_pending') /\ (rd_error' => clear_pending' \/ fifo_clear')
      BY <1>12, <1>13, <1>14, <3>1
    <3>3. ASSUME ~clear_pending', ~fifo_clear' PROVE reset_cnt' <= restart_guard' + 1
      <4>1. ~clear_pending
        BY <1>12, <3>3
      <4>2. fifo_clear => restart_guard = FIFO_RESET_GUARD_CYCLES
        BY <1>1 DEF ReaderInv
      <4>3. ~fifo_clear => reset_cnt <= restart_guard + 1
        BY <1>1, <2>2, <4>1 DEF ReaderInv
      <4>4. restart_guard' = IF restart_guard > 0 THEN restart_guard - 1 ELSE 0
        BY <1>7, <4>1 DEF Clear
      <4>5. reset_cnt' = IF fifo_clear THEN FIFO_RESET_CYCLES
                         ELSE IF reset_cnt > 0 THEN reset_cnt - 1 ELSE 0
        BY <1>7, <2>2 DEF FifoReset
      <4>6. /\ restart_guard \in Nat /\ reset_cnt \in Nat
            /\ FIFO_RESET_CYCLES \in Nat \ {0} /\ FIFO_RESET_GUARD_CYCLES \in Nat
            /\ FIFO_RESET_GUARD_CYCLES >= FIFO_RESET_CYCLES
        BY FrameTypes, PathConstants, PathTiming
      <4> QED
        BY <4>2, <4>3, <4>4, <4>5, <4>6
    <3> QED
      BY <3>2, <3>3
  <2> QED
    BY <1>15, <2>1, <2>2
<1>17. restart_start' => /\ ~rd_busy' /\ ~rd_error' /\ ~clear_pending' /\ ~fifo_clear'
                         /\ reset_cnt' = 0
  <2> SUFFICES ASSUME restart_start'
               PROVE  /\ ~rd_busy' /\ ~rd_error' /\ ~clear_pending' /\ ~fifo_clear'
                      /\ reset_cnt' = 0
    OBVIOUS
  <2>1. restart_pending /\ ~clear_pending /\ ~rd_busy /\ ~fifo_clear /\ restart_guard = 0
    BY <1>15
  <2>2. ~rd_error /\ reset_cnt <= 1 /\ ~loop_restart_ddr
    BY <1>1, <2>1 DEF ReaderInv, TokenInv
  <2>3. in.cmd \notin Cancelling
    BY <1>4, <1>5, <2>1
  <2>4. ~rd_busy' /\ ~rd_error' /\ ~fifo_clear'
    BY <1>6, <1>11, <1>13, <1>14, <2>1, <2>2
  <2>5. ~clear_pending'
    BY <1>7, <2>1, <2>2, <2>3 DEF Clear
  <2>6. reset_cnt' = IF reset_cnt > 0 THEN reset_cnt - 1 ELSE 0
    BY <1>7, <2>1, <2>3 DEF FifoReset
  <2>7. reset_cnt' = 0
    BY <2>2, <2>6, FrameTypes
  <2> QED
    BY <2>4, <2>5, <2>7
<1> QED
  BY <1>8, <1>9, <1>10, <1>11, <1>16, <1>17 DEF ReaderInv

LEMMA ReaderDac ==
  ASSUME ReaderInv, NEW in \in DacInputs, DacEdge(in)
  PROVE  ReaderInv'
  BY DdrSideStays DEF ReaderInv

-----------------------------------------------------------------------------
(* What a cancelled read leaves behind.                                     *)

\* Without a start the reader only drains what it no longer assembles.
LEMMA SpoiledStep ==
  ASSUME FeedInv, Spoiled, ReaderInv, NEW in \in DdrInputs, DdrEdge(in),
         ~reader_start(in), in.cmd \notin Cancelling
  PROVE  Spoiled'
<1>1. /\ Reader(in) /\ Clear(in) /\ FifoReset(in) /\ Write /\ Prefetch(in)
  BY DdrMoves
<1>2. ~StartReader(in) /\ ~assembles(in) /\ (rd_busy => draining(in))
  BY DEF StartReader, assembles, draining, Spoiled, DdrEdge, BusAnswers, ReaderInv
<1>3. rd_busy' => rd_busy /\ rd_cancelled'
  BY <1>1, <1>2 DEF Reader, IdleReader, BusyReader, Spoiled
<1>4. /\ clear_pending => clear_pending' \/ fifo_clear'
      /\ clear_pending /\ rd_busy => clear_pending'
  BY <1>1 DEF Clear
<1>5. fifo' # <<>> => clear_pending' \/ fifo_clear' \/ reset_cnt' > 0
  <2> SUFFICES ASSUME fifo' # <<>> PROVE clear_pending' \/ fifo_clear' \/ reset_cnt' > 0
    OBVIOUS
  <2>1. ~(reset_cnt > 0) /\ fifo' = IF frame_fire THEN fifo \o rd_held ELSE fifo
    BY <1>1 DEF Write
  <2>2. CASE frame_fire
    BY <1>4, <2>2 DEF frame_fire, ReaderInv, Spoiled
  <2>3. CASE ~frame_fire
    <3>1. clear_pending \/ fifo_clear
      BY <2>1, <2>3 DEF Spoiled
    <3>2. fifo_clear => reset_cnt' = FIFO_RESET_CYCLES
      BY <1>1 DEF FifoReset
    <3> QED
      BY <1>4, <3>1, <3>2, PathConstants
  <2> QED
    BY <2>2, <2>3
<1>6. ~rd_done'
  BY <1>1, <1>2 DEF Reader, IdleReader, BusyReader
<1>7. prefetch_complete' => prefetched' = 0 /\ rd_held' = <<>>
  <2> SUFFICES ASSUME prefetch_complete' PROVE prefetched' = 0 /\ rd_held' = <<>>
    OBVIOUS
  <2>1. rd_done \/ prefetch_complete
    BY <1>1 DEF Prefetch
  <2>2. prefetched = 0 /\ rd_held = <<>>
    BY <2>1 DEF Spoiled
  <2>3. ~frame_fire
    BY <2>2 DEF frame_fire
  <2>4. prefetched' = 0
    BY <1>1, <2>2, <2>3 DEF Prefetch
  <2> QED
    BY <1>1, <1>2, <2>2, <2>4 DEF Reader, IdleReader, BusyReader
<1> QED
  BY <1>3, <1>4, <1>5, <1>6, <1>7 DEF Spoiled

\* A cancelling command spoils what is there.
LEMMA SpoiledCancel ==
  ASSUME FeedInv, ReaderInv, NEW in \in DdrInputs, DdrEdge(in),
         in.cmd \in Cancelling, ~restart_start
  PROVE  Spoiled'
<1>1. /\ Reader(in) /\ Clear(in) /\ FifoReset(in) /\ Prefetch(in)
  BY DdrMoves
<1>2. ~reader_start(in) /\ draining(in) /\ NewPrefetch(in)
  BY DEF reader_start, draining, NewPrefetch, Cancelling
<1>3. rd_busy' => rd_cancelled' /\ clear_pending'
  BY <1>1, <1>2 DEF Reader, StartReader, IdleReader, BusyReader, Clear
<1>4. reset_cnt' > 0
  BY <1>1, PathConstants DEF FifoReset
<1>5. prefetched' = 0 /\ ~rd_done'
  BY <1>1, <1>2 DEF Prefetch, Reader, StartReader, IdleReader, BusyReader
<1>6. prefetch_complete' => rd_held' = <<>>
  <2> SUFFICES ASSUME prefetch_complete' PROVE rd_held' = <<>>
    OBVIOUS
  <2>1. rd_done
    BY <1>1, <1>2 DEF Prefetch
  <2>2. ~rd_busy /\ rd_held = <<>>
    BY <2>1 DEF ReaderInv
  <2> QED
    BY <1>1, <1>2, <2>2 DEF Reader, StartReader, IdleReader, BusyReader
<1> QED
  BY <1>3, <1>4, <1>5, <1>6 DEF Spoiled

LEMMA SpoiledDdr ==
  ASSUME ~Pipelined, FeedInv, PlayInv, NEW in \in DdrInputs, DdrEdge(in), NoMeet
  PROVE  SpoiledInv'
<1> SUFFICES ASSUME phase' # "committed" \/ cancelling' \/ state' = "READY"
             PROVE  Spoiled'
  BY DEF SpoiledInv
<1>1. TokenInv /\ ReaderInv /\ SpoiledInv /\ PhaseInv
  BY DEF PlayInv, FeedInv
<1>2. state' = state
  BY DacSideStays
<1>3. Plain(in) \/ Commits(in) \/ Plays(in) \/ Cancels(in)
  BY DdrCommands DEF FeedInv
<1>4. CASE Cancels(in)
  <2>1. in.cmd \in Cancelling /\ ~restart_start
    BY <1>4 DEF Cancels, NoMeet, Restarting
  <2> QED
    BY <1>1, <2>1, SpoiledCancel
<1>5. CASE Commits(in)
  <2>1. phase' = "committed" /\ ~cancelling' /\ state # "READY"
    BY <1>1, <1>5 DEF Commits, cancelling, Cancelling, PhaseInv
  <2> QED
    BY <1>2, <2>1
<1>6. CASE Plain(in) \/ Plays(in)
  <2>1. phase # "committed" \/ cancelling \/ state = "READY"
    BY <1>2, <1>6 DEF Plain, Plays, cancelling, Cancelling
  <2>2. Spoiled /\ ~restart_start /\ in.cmd \notin Cancelling /\ in.cmd # "commit"
    BY <1>1, <1>6, <2>1 DEF SpoiledInv, TokenInv, Restarting, Plain, Plays, Cancelling
  <2> QED
    BY <1>1, <2>2, SpoiledStep DEF reader_start
<1> QED
  BY <1>3, <1>4, <1>5, <1>6

\* An edge of the DAC clock adds no frame.
LEMMA StreamTakes ==
  ASSUME FeedInv, NEW in \in DacInputs, DacEdge(in)
  PROVE  /\ fifo' = IF beat_fire(in) THEN Tail(fifo) ELSE fifo
         /\ beat_fire(in) => fifo # <<>>
         /\ fifo = <<>> => fifo' = <<>>
<1>1. fifo' = IF beat_fire(in) THEN Tail(fifo) ELSE fifo
  BY DEF DacEdge, Stream
<1>2. beat_fire(in) => fifo # <<>>
  BY FrameTypes DEF beat_fire
<1> QED
  BY <1>1, <1>2

LEMMA SpoiledDac ==
  ASSUME FeedInv, PlayInv, NEW in \in DacInputs, DacEdge(in)
  PROVE  SpoiledInv'
<1>1. SpoiledInv
  BY DEF PlayInv
<1>2. Spoiled => Spoiled'
  BY DdrSideStays, StreamTakes DEF Spoiled
<1>3. cancelling' => cancelling
  BY DacFacts DEF cancelling, Cancelling
<1>4. state' = "READY" => state = "READY" \/ cancelling
  BY DacFacts DEF Moves, Stays, cancelling, Cancelling
<1> QED
  BY <1>1, <1>2, <1>3, <1>4, DdrSideStays DEF SpoiledInv

-----------------------------------------------------------------------------
(* The prefetch flag between two waveforms.                                  *)

\* An edge of the DAC clock moves the flag one place on and keeps the timers.
LEMMA QuietDac ==
  ASSUME FeedInv, NEW in \in DacInputs, DacEdge(in)
  PROVE  /\ Quiet(reset_cnt) => Quiet(reset_cnt)'
         /\ Quiet(restart_guard) => Quiet(restart_guard)'
         /\ safe_sync'[1] = prefetch_safe /\ safe_sync'[2] = safe_sync[1]
<1>1. safe_sync' = <<prefetch_safe, safe_sync[1]>> /\ since' = 0
  BY DEF DacEdge, Settle
<1>2. safe_sync'[1] = prefetch_safe /\ safe_sync'[2] = safe_sync[1]
  BY <1>1
<1>3. /\ prefetch_safe' = prefetch_safe /\ reset_cnt' = reset_cnt
      /\ restart_guard' = restart_guard
  BY DdrSideStays
<1>4. /\ reset_cnt \in Nat /\ restart_guard \in Nat /\ since \in 0..DDR_MAX /\ DDR_MAX \in Nat
      /\ prefetch_safe \in BOOLEAN /\ safe_sync[1] \in BOOLEAN
  BY FrameTypes, PathConstants
<1>5. Quiet(reset_cnt) => Quiet(reset_cnt)'
  BY <1>1, <1>2, <1>3, <1>4 DEF Quiet
<1>6. Quiet(restart_guard) => Quiet(restart_guard)'
  BY <1>1, <1>2, <1>3, <1>4 DEF Quiet
<1> QED
  BY <1>2, <1>5, <1>6

\* An empty count does not look like a finished prefetch.
LEMMA EmptyCount ==
  ASSUME FeedInv, phase # "none", prefetched = 0
  PROVE  ~level_safe
<1>1. total \in Nat \ {0}
  BY FrameTypes DEF FeedInv, PhaseInv
<1>2. prefetch_target \in Nat \ {0}
  BY <1>1, PathConstants DEF prefetch_target
<1> QED
  BY <1>2 DEF level_safe

\* A spoiled count, once the reader rests, raises no flag.
LEMMA SpoiledUnsafe ==
  ASSUME FeedInv, phase # "none", Spoiled, ~clear_pending, NEW in \in DdrInputs, DdrEdge(in)
  PROVE  ~prefetch_safe'
<1>1. Prefetch(in)
  BY DdrMoves
<1>2. ~rd_busy
  BY DEF Spoiled
<1>3. prefetch_complete => ~level_safe
  BY EmptyCount DEF Spoiled
<1> QED
  BY <1>1, <1>2, <1>3 DEF Prefetch

LEMMA UploadDdr ==
  ASSUME ~Pipelined, FeedInv, PlayInv, NEW in \in DdrInputs, DdrEdge(in), NoMeet
  PROVE  UploadInv'
<1> SUFFICES ASSUME phase' = "upload"
             PROVE  /\ rd_error' => clear_pending' \/ shadow' = "ERROR"
                    /\ clear_pending' \/ fifo_clear' \/ Quiet(reset_cnt)'
  BY DEF UploadInv
<1>1. TokenInv /\ ReaderInv /\ SpoiledInv /\ UploadInv
  BY DEF PlayInv
<1>2. Plain(in) \/ Commits(in) \/ Plays(in) \/ Cancels(in)
  BY DdrCommands DEF FeedInv
<1>3. /\ BusAnswers(in) /\ Reader(in) /\ Clear(in) /\ FifoReset(in)
      /\ since < DDR_MAX /\ since' = since + 1
  BY DdrMoves
<1>4. rd_error => shadow' = "ERROR"
  BY Zenon DEF DdrEdge, Shadow
<1>5. /\ clear_pending => clear_pending' \/ fifo_clear'
      /\ clear_pending /\ rd_busy => clear_pending'
      /\ in.cmd \in Cancelling => clear_pending' \/ fifo_clear'
      /\ rd_busy => ~fifo_clear'
  BY <1>3 DEF Clear
<1>6. CASE Cancels(in)
  <2>1. in.cmd \in Cancelling
    BY <1>6 DEF Cancels
  <2>2. rd_error' => rd_error \/ rd_busy
    BY <1>3 DEF Reader, StartReader, IdleReader, BusyReader
  <2> QED
    BY <1>4, <1>5, <2>1, <2>2
<1>7. CASE Plain(in)
  <2>1. phase = "upload" /\ Spoiled /\ in.cmd \notin Cancelling /\ ~reader_start(in)
    BY <1>1, <1>7 DEF Plain, SpoiledInv, Cancelling, TokenInv, Restarting, reader_start
  <2>2. rd_error' => rd_error \/ rd_busy
    BY <1>3 DEF Reader, StartReader, IdleReader, BusyReader
  <2>3. rd_error' => clear_pending' \/ shadow' = "ERROR"
    BY <1>4, <1>5, <2>1, <2>2 DEF Spoiled
  <2>4. ASSUME ~clear_pending', ~fifo_clear' PROVE Quiet(reset_cnt)'
    <3>1. ~clear_pending
      BY <1>5, <2>4
    <3>2. ~prefetch_safe'
      BY <2>1, <3>1, SpoiledUnsafe
    <3>3. safe_sync' = safe_sync
      BY DacSideStays
    <3>4. reset_cnt' = IF fifo_clear THEN FIFO_RESET_CYCLES
                       ELSE IF reset_cnt > 0 THEN reset_cnt - 1 ELSE 0
      BY <1>3, <2>1 DEF FifoReset
    <3>5. /\ reset_cnt \in Nat /\ since \in Nat /\ DDR_MAX \in Nat /\ FIFO_RESET_CYCLES \in Nat
          /\ FIFO_RESET_CYCLES >= 2 * DDR_MAX
      BY FrameTypes, PathConstants, PathTiming
    <3>6. CASE fifo_clear
      BY <1>3, <3>2, <3>4, <3>5, <3>6 DEF Quiet
    <3>7. CASE ~fifo_clear
      <4>1. Quiet(reset_cnt)
        BY <1>1, <2>1, <3>1, <3>7 DEF UploadInv
      <4>2. reset_cnt' + since' >= reset_cnt + since
        BY <1>3, <3>4, <3>5, <3>7
      <4> QED
        BY <1>3, <3>2, <3>3, <3>4, <3>5, <4>1, <4>2 DEF Quiet
    <3> QED
      BY <3>6, <3>7
  <2> QED
    BY <2>3, <2>4
<1>8. CASE Commits(in) \/ Plays(in)
  BY <1>8 DEF Commits, Plays
<1> QED
  BY <1>2, <1>6, <1>7, <1>8

LEMMA UploadDac ==
  ASSUME FeedInv, UploadInv, NEW in \in DacInputs, DacEdge(in)
  PROVE  UploadInv'
  BY QuietDac, DdrSideStays DEF UploadInv

-----------------------------------------------------------------------------
(* The frames of an epoch.                                                   *)

\* The frames that a hand-over appends to the FIFO.
LEMMA Appended ==
  ASSUME FeedInv, frame_fire
  PROVE  /\ Len(fifo \o rd_held) = Len(fifo) + 1 /\ Len(rd_held) = 1
         /\ \A i \in 1..Len(fifo) : (fifo \o rd_held)[i] = fifo[i]
         /\ (fifo \o rd_held)[Len(fifo) + 1] = rd_held[1]
<1>1. /\ rd_held \in Seq(Frames) /\ Len(rd_held) = 1 /\ fifo \in Seq(Frames) /\ Len(fifo) \in Nat
  BY FrameTypes DEF frame_fire
<1>2. /\ Len(fifo \o rd_held) = Len(fifo) + Len(rd_held)
      /\ \A i \in 1..(Len(fifo) + Len(rd_held)) :
           (fifo \o rd_held)[i] = IF i <= Len(fifo) THEN fifo[i] ELSE rd_held[i - Len(fifo)]
  BY <1>1, ConcatProperties
<1> QED
  BY <1>1, <1>2

\* The frame next to be assembled.
LEMMA TagOfFrame ==
  ASSUME total \in Nat, rd_left \in Nat
  PROVE  <<FrameTag>> # <<>> /\ Len(<<FrameTag>>) = 1
         /\ <<FrameTag>>[1] = [gen |-> image, n |-> total + 1 - rd_left]
  BY DEF FrameTag

LEMMA BaseType == FeedInv => Base \in Nat
  BY FrameTypes DEF Base

LEMMA BaseOfDdr ==
  ASSUME NEW in \in DdrInputs, DdrEdge(in)
  PROVE  Base' = Base /\ Open' = Open
  BY DacSideStays DEF Base, Open

\* An edge that starts no read keeps the frames in order, and their sum with
\* what is still to be read.
LEMMA EpochStep ==
  ASSUME FeedInv, ReaderInv, FramesInv, Epoch, NEW in \in DdrInputs, DdrEdge(in),
         gen' = gen, ~reader_start(in)
  PROVE  /\ FifoOrdered(Base)' /\ HeldNext(Base)'
         /\ rd_error' => InHand(Base)' < total
         /\ ~rd_error' => InHand(Base)' + rd_left' <= total
         /\ ~rd_error' /\ in.cmd \notin Cancelling => InHand(Base)' + rd_left' = total
         /\ rd_error => rd_error'
<1> DEFINE b == Base
<1>1. /\ BusAnswers(in) /\ Reader(in) /\ Write
  BY DdrMoves
<1>2. b' = b /\ b \in Nat
  BY BaseOfDdr, BaseType
<1>3. /\ total \in Nat /\ rd_left \in Nat /\ Len(rd_held) \in {0, 1} /\ Len(fifo) \in Nat
      /\ (rd_held = <<>> <=> Len(rd_held) = 0) /\ reset_cnt \in Nat
      /\ rd_error \in BOOLEAN /\ rd_busy \in BOOLEAN
  BY FrameTypes
<1>4. /\ \A i \in 1..Len(fifo) : fifo[i] = [gen |-> gen, n |-> b + i]
      /\ rd_held # <<>> => rd_held[1] = [gen |-> gen, n |-> b + Len(fifo) + 1]
      /\ image = gen
  BY DEF FramesInv, FifoOrdered, HeldNext, ReaderInv, Epoch
<1>8. /\ rd_error => b + Len(fifo) + Len(rd_held) < total
      /\ ~rd_error => b + Len(fifo) + Len(rd_held) + rd_left = total
  BY DEF FramesInv, InHand
<1>9. /\ ~rd_error => ~rd_cancelled /\ reset_cnt = 0
      /\ rd_busy => reset_cnt = 0
  BY DEF FramesInv, Calm
<1>5. SUFFICES
      /\ \A i \in 1..Len(fifo') : fifo'[i] = [gen |-> gen, n |-> b + i]
      /\ rd_held' # <<>> => rd_held'[1] = [gen |-> gen, n |-> b + Len(fifo') + 1]
      /\ rd_error' => b + Len(fifo') + Len(rd_held') < total
      /\ ~rd_error' => b + Len(fifo') + Len(rd_held') + rd_left' <= total
      /\ ~rd_error' /\ in.cmd \notin Cancelling =>
           b + Len(fifo') + Len(rd_held') + rd_left' = total
      /\ rd_error => rd_error'
  BY <1>2 DEF FifoOrdered, HeldNext, InHand
<1> HIDE DEF b
<1>6. CASE ~rd_busy
  <2>1. IdleReader(in)
    BY <1>1, <1>6 DEF Reader, StartReader, BusyReader
  <2>2. /\ rd_held = <<>> /\ rd_left = 0 /\ rd_held' = <<>> /\ rd_left' = 0 /\ rd_error' = rd_error
        /\ ~frame_fire /\ Len(rd_held') = 0
    BY <1>6, <2>1 DEF ReaderInv, IdleReader, frame_fire
  <2>3. CASE reset_cnt > 0
    <3>1. fifo' = <<>> /\ rd_error
      BY <1>1, <1>3, <1>9, <2>3 DEF Write
    <3>2. Len(fifo') = 0
      BY <3>1
    <3> QED
      BY <1>2, <1>3, <1>8, <2>2, <3>1, <3>2
  <2>4. CASE ~(reset_cnt > 0)
    <3>1. fifo' = fifo
      BY <1>1, <2>2, <2>4 DEF Write
    <3> QED
      BY <1>2, <1>3, <1>4, <1>8, <2>2, <3>1
  <2> QED
    BY <2>3, <2>4
<1>7. CASE rd_busy
  <2>1. BusyReader(in) /\ ~(reset_cnt > 0)
    BY <1>1, <1>9, <1>7 DEF Reader, StartReader, IdleReader
  <2>2. fifo' = IF frame_fire THEN fifo \o rd_held ELSE fifo
    BY <1>1, <2>1 DEF Write
  <2>3. Len(fifo') = Len(fifo) + (IF frame_fire THEN 1 ELSE 0)
        /\ \A i \in 1..Len(fifo') : fifo'[i] = [gen |-> gen, n |-> b + i]
    <3>1. CASE frame_fire
      <4>1. /\ Len(fifo') = Len(fifo) + 1
            /\ \A i \in 1..Len(fifo) : fifo'[i] = fifo[i]
            /\ fifo'[Len(fifo) + 1] = rd_held[1]
        BY <2>2, <3>1, Appended
      <4>2. rd_held[1] = [gen |-> gen, n |-> b + (Len(fifo) + 1)]
        BY <1>2, <1>3, <1>4, <3>1 DEF frame_fire
      <4>3. ASSUME NEW i \in 1..Len(fifo') PROVE fifo'[i] = [gen |-> gen, n |-> b + i]
        <5>1. i \in 1..Len(fifo) \/ i = Len(fifo) + 1
          BY <1>3, <4>1
        <5> QED
          BY <1>4, <4>1, <4>2, <5>1
      <4> QED
        BY <3>1, <4>1, <4>3
    <3>2. CASE ~frame_fire
      BY <1>3, <1>4, <2>2, <3>2
    <3> QED
      BY <3>1, <3>2
  <2>7. Len(fifo') = Len(fifo) + (IF frame_fire THEN 1 ELSE 0)
    BY <2>3
  <2>4. /\ rd_error' = (rd_error \/ in.fault)
        /\ rd_left' = IF finishes(in) THEN 0 ELSE IF assembles(in) THEN rd_left - 1 ELSE rd_left
        /\ rd_held' = IF assembles(in) THEN <<FrameTag>>
                      ELSE IF fifo_ready THEN <<>> ELSE rd_held
        /\ (in.fault => rd_left > 0)
    BY <1>1, <2>1 DEF BusyReader, BusAnswers
  <2>5. CASE assembles(in)
    <3>1. /\ rd_left > 0 /\ ~rd_error /\ ~in.fault /\ (rd_held = <<>> \/ fifo_ready)
          /\ ~finishes(in)
      BY <2>5 DEF assembles, draining, finishes
    <3>2. rd_left' = rd_left - 1 /\ ~rd_error' /\ rd_held' = <<FrameTag>>
      BY <2>4, <2>5, <3>1
    <3>3. Len(fifo') = Len(fifo) + Len(rd_held)
      BY <1>3, <2>7, <3>1 DEF frame_fire
    <3>4. Len(rd_held') = 1 /\ rd_held'[1] = [gen |-> gen, n |-> b + Len(fifo') + 1]
      <4>1. Len(rd_held') = 1 /\ rd_held'[1] = [gen |-> image, n |-> total + 1 - rd_left]
        BY <1>3, <3>2, TagOfFrame
      <4>2. total + 1 - rd_left = b + Len(fifo') + 1
        BY <1>2, <1>3, <1>8, <3>1, <3>3
      <4> QED
        BY <1>4, <4>1, <4>2
    <3>5. b + Len(fifo') + Len(rd_held') + rd_left' = total
      <4>1. Len(rd_held') = 1
        BY <3>4
      <4> QED
        BY <1>2, <1>3, <1>8, <3>1, <3>2, <3>3, <4>1
    <3> QED
      BY <1>3, <2>3, <3>1, <3>2, <3>4, <3>5
  <2>6. CASE ~assembles(in)
    <3>1. rd_held' = IF fifo_ready THEN <<>> ELSE rd_held
      BY <2>4, <2>6
    <3>2. Len(rd_held') \in {0, 1} /\ Len(fifo') + Len(rd_held') = Len(fifo) + Len(rd_held)
      <4>1. CASE fifo_ready
        <5>1. Len(rd_held') = 0 /\ (frame_fire <=> Len(rd_held) = 1)
          BY <1>3, <3>1, <4>1 DEF frame_fire
        <5>2. Len(rd_held) \in {0, 1} /\ Len(fifo) \in Nat
          BY <1>3
        <5>3. Len(fifo') = Len(fifo) + Len(rd_held)
          BY <2>7, <5>1, <5>2
        <5> QED
          BY <5>1, <5>2, <5>3
      <4>2. CASE ~fifo_ready
        <5>1. rd_held' = rd_held /\ ~frame_fire
          BY <3>1, <4>2 DEF frame_fire
        <5> QED
          BY <1>3, <2>7, <5>1
      <4> QED
        BY <4>1, <4>2
    <3>3. rd_held' # <<>> => rd_held'[1] = [gen |-> gen, n |-> b + Len(fifo') + 1]
      <4> SUFFICES ASSUME rd_held' # <<>>
                   PROVE  rd_held'[1] = [gen |-> gen, n |-> b + Len(fifo') + 1]
        OBVIOUS
      <4>1. ~fifo_ready /\ rd_held' = rd_held
        BY <3>1
      <4>2. Len(fifo') = Len(fifo)
        BY <1>3, <2>7, <4>1 DEF frame_fire
      <4> QED
        BY <1>4, <4>1, <4>2
    <3>4. rd_left' \in Nat /\ rd_left' <= rd_left
      BY <1>3, <2>4, <2>6
    <3> DEFINE h == Len(rd_held')
    <3> DEFINE f == Len(fifo')
    <3>9. h \in {0, 1} /\ f \in Nat /\ f + h = Len(fifo) + Len(rd_held)
      BY <1>3, <2>7, <3>2
    <3>10. (in.fault => rd_left > 0) /\ rd_error' = (rd_error \/ in.fault)
      BY <2>4
    <3> HIDE DEF h, f
    <3>5. rd_error' => b + f + h < total
      BY <1>2, <1>3, <1>8, <3>9, <3>10
    <3>6. ~rd_error' => b + f + h + rd_left' <= total
      <4>1. ASSUME ~rd_error' PROVE b + f + h + rd_left = total
        <5>1. ~rd_error
          BY <3>10, <4>1
        <5>2. b + Len(fifo) + Len(rd_held) + rd_left = total
          BY <1>8, <5>1
        <5>3. Len(fifo) \in Nat /\ Len(rd_held) \in Nat /\ rd_left \in Nat
          BY <1>3
        <5> QED
          BY <1>2, <3>9, <5>2, <5>3
      <4> QED
        <5>1. \A s, l, k, a \in Nat : k <= l /\ s + l = a => s + k <= a
          OBVIOUS
        <5>2. b + f + h \in Nat /\ rd_left \in Nat /\ total \in Nat
          BY <1>2, <1>3, <3>9
        <5> QED
          BY <3>4, <4>1, <5>1, <5>2, Zenon
    <3>7. ~rd_error' /\ in.cmd \notin Cancelling => rd_left' = rd_left
      BY <1>3, <1>9, <2>4, <2>6 DEF finishes
    <3>8. ~rd_error' /\ in.cmd \notin Cancelling => b + f + h + rd_left' = total
      BY <1>2, <1>3, <1>8, <3>7, <3>9, <3>10
    <3> QED
      BY <2>3, <3>3, <3>5, <3>6, <3>8, <3>10 DEF f, h
  <2> QED
    BY <2>5, <2>6
<1> QED
  BY <1>3, <1>6, <1>7

\* A restart stays on its way until it starts the reader.
LEMMA RestartKept ==
  ASSUME NEW in \in DdrInputs, DdrEdge(in), Restarting, ~restart_start,
         in.cmd \notin Cancelling
  PROVE  Restarting'
<1>1. loop_restart' = loop_restart /\ src_toggle' = src_toggle
  BY DacSideStays
<1> QED
  BY <1>1, RestartOfDdr DEF Restarting

\* After an edge of the DDR clock the epoch is new or was there before.
LEMMA EpochsOfDdr ==
  ASSUME ~Pipelined, FeedInv, TokenInv, NEW in \in DdrInputs, DdrEdge(in), Epoch'
  PROVE  /\ in.cmd \notin Cancelling
         /\ \/ Commits(in)
            \/ /\ Plain(in) \/ Plays(in)
               /\ restart_start /\ state = "PREFETCH"
            \/ /\ Plain(in) \/ Plays(in)
               /\ Epoch /\ ~reader_start(in)
<1>1. Plain(in) \/ Commits(in) \/ Plays(in) \/ Cancels(in)
  BY DdrCommands DEF FeedInv
<1>2. state' = state
  BY DacSideStays
<1>3. ~Cancels(in)
  BY DEF Epoch, Cancels, cancelling
<1>4. CASE Commits(in)
  BY <1>4 DEF Commits, Cancelling
<1>5. CASE Plain(in) \/ Plays(in)
  <2>1. /\ phase = "committed" /\ ~cancelling
        /\ flying = "commit" \/ state \in Live
        /\ in.cmd \notin Cancelling \cup {"commit"}
    BY <1>2, <1>5 DEF Epoch, Plain, Plays, cancelling, Cancelling
  <2>2. ~Restarting \/ restart_start
    BY <2>1, RestartKept DEF Epoch
  <2>3. CASE restart_start
    <3>1. Restarting
      BY <2>3 DEF Restarting
    <3>2. state = "PREFETCH"
      BY <2>1, <3>1 DEF TokenInv, Live
    <3> QED
      BY <1>5, <2>1, <2>3, <3>2
  <2>4. CASE ~restart_start
    BY <1>5, <2>1, <2>2, <2>4 DEF Epoch, reader_start
  <2> QED
    BY <2>3, <2>4
<1> QED
  BY <1>1, <1>3, <1>4, <1>5

\* What a start of the reader leaves.
Started ==
  /\ fifo = <<>> /\ rd_held = <<>> /\ rd_left = total /\ total \in Nat
  /\ ~rd_error /\ ~rd_cancelled /\ ~disturbed /\ Calm /\ prefetched = 0 /\ ~Open
  /\ ~prefetch_safe /\ ~safe_sync[1] /\ ~safe_sync[2]
  /\ state = "PREFETCH" /\ was_prefetch => settle = 0

LEMMA StartedEpoch == Started => FramesInv /\ FitsInv
<1> SUFFICES ASSUME Started PROVE FramesInv /\ FitsInv
  OBVIOUS
<1>1. Base = 0 /\ Len(fifo) = 0 /\ Len(rd_held) = 0
  BY DEF Started, Base
<1>2. InHand(Base) + rd_left = total /\ FifoOrdered(Base) /\ HeldNext(Base)
  BY <1>1 DEF Started, InHand, FifoOrdered, HeldNext
<1>3. state # "WAIT_TRIGGER"
  BY DEF Started, Open
<1> QED
  BY <1>1, <1>2, <1>3 DEF Started, FramesInv, FitsInv, Calm

LEMMA StartByCommit ==
  ASSUME ~Pipelined, FeedInv, PlayInv, NEW in \in DdrInputs, DdrEdge(in), Commits(in)
  PROVE  Started'
<1>1. ReaderInv /\ SpoiledInv /\ UploadInv /\ PhaseInv
  BY DEF PlayInv, FeedInv
<1>2. /\ phase = "upload" /\ total' = total /\ shadow # "ERROR" /\ ~Restarting
      /\ ~clear_pending /\ ~fifo_clear /\ reset_cnt = 0 /\ ~(rd_busy /\ rd_cancelled)
      /\ in.cmd = "commit" /\ flying = "none"
  BY CommitAlone DEF Commits
<1>3. Spoiled /\ Quiet(0)
  BY <1>1, <1>2 DEF SpoiledInv, UploadInv
<1>4. ~rd_busy /\ rd_held = <<>> /\ ~rd_error /\ ~fifo_clear /\ ~(reset_cnt > 0)
  BY <1>1, <1>2, <1>3, FrameTypes DEF Spoiled, UploadInv, ReaderInv
<1>5. fifo = <<>>
  BY <1>2, <1>3, <1>4 DEF Spoiled
<1>6. /\ Reader(in) /\ Clear(in) /\ Prefetch(in) /\ FifoReset(in) /\ Write /\ since < DDR_MAX
      /\ disturbed' = (in.cmd \in Cancelling \/ rd_error \/ (disturbed /\ ~NewPrefetch(in)))
  BY DdrMoves
<1>7. NewPrefetch(in) /\ reader_start(in) /\ in.cmd \notin Cancelling /\ ~loop_restart_ddr
  BY <1>2 DEF NewPrefetch, reader_start, Cancelling, Restarting
<1>8. /\ rd_held' = <<>> /\ rd_left' = total /\ ~rd_error' /\ ~rd_cancelled'
  BY <1>4, <1>6, <1>7 DEF Reader, StartReader, IdleReader, BusyReader
<1>9. fifo' = <<>> /\ ~disturbed' /\ prefetched' = 0 /\ Calm'
  BY <1>2, <1>4, <1>5, <1>6, <1>7 DEF Write, frame_fire, Prefetch, Calm, Clear, FifoReset
<1>10. ~prefetch_safe'
  BY <1>2, <1>3, SpoiledUnsafe
<1>11. ~safe_sync[1] /\ ~safe_sync[2]
  <2>1. since \in Nat /\ DDR_MAX \in Nat
    BY FrameTypes, PathConstants
  <2>2. ~(0 + since >= DDR_MAX) /\ ~(0 + since >= 2 * DDR_MAX)
    BY <1>6, <2>1
  <2> QED
    BY <1>3, <2>2 DEF Quiet
<1>12. state' = state /\ safe_sync' = safe_sync /\ state \in {"UPLOAD", "ERROR"}
  BY <1>1, <1>2, DacSideStays DEF PhaseInv
<1>13. total \in Nat
  BY FrameTypes
<1> QED
  BY <1>2, <1>8, <1>9, <1>10, <1>11, <1>12, <1>13 DEF Started, Open

LEMMA StartByRestart ==
  ASSUME ~Pipelined, FeedInv, PlayInv, NEW in \in DdrInputs, DdrEdge(in),
         restart_start, state = "PREFETCH", Plain(in) \/ Plays(in)
  PROVE  Started'
<1>1. TokenInv /\ ReaderInv /\ RestartInv /\ Restarting /\ phase # "none"
  BY DEF PlayInv, Restarting, TokenInv
<1>2. /\ ~rd_busy /\ ~rd_error /\ ~clear_pending /\ ~fifo_clear /\ reset_cnt = 0
      /\ rd_held = <<>> /\ prefetched = 0 /\ fifo = <<>>
      /\ ~prefetch_safe /\ ~safe_sync[1] /\ ~safe_sync[2]
      /\ (was_prefetch => settle = 0) /\ ~loop_restart_ddr
  BY <1>1 DEF ReaderInv, RestartInv, TokenInv
<1>3. /\ Reader(in) /\ Clear(in) /\ Prefetch(in) /\ FifoReset(in) /\ Write
      /\ disturbed' = (in.cmd \in Cancelling \/ rd_error \/ (disturbed /\ ~NewPrefetch(in)))
  BY DdrMoves
<1>4. NewPrefetch(in) /\ reader_start(in) /\ in.cmd \notin Cancelling /\ ~(reset_cnt > 0)
  BY <1>2 DEF NewPrefetch, reader_start, Cancelling, Plain, Plays
<1>5. /\ rd_held' = <<>> /\ rd_left' = total /\ ~rd_error' /\ ~rd_cancelled'
  BY <1>2, <1>3, <1>4 DEF Reader, StartReader, IdleReader, BusyReader
<1>6. fifo' = <<>> /\ ~disturbed' /\ prefetched' = 0 /\ Calm'
  BY <1>2, <1>3, <1>4 DEF Write, frame_fire, Prefetch, Calm, Clear, FifoReset
<1>7. ~prefetch_safe'
  BY <1>1, <1>2, <1>3, EmptyCount DEF Prefetch
<1>8. /\ state' = state /\ safe_sync' = safe_sync /\ was_prefetch' = was_prefetch
      /\ settle' = settle /\ total' = total
  BY DacSideStays DEF Plain, Plays
<1>9. total \in Nat
  BY FrameTypes
<1> QED
  BY <1>2, <1>5, <1>6, <1>7, <1>8, <1>9 DEF Started, Open

\* In an epoch that no error ends, the DDR side stays calm and counts the frames.
LEMMA EpochCalm ==
  ASSUME FeedInv, ReaderInv, FramesInv, Epoch, NEW in \in DdrInputs, DdrEdge(in),
         ~reader_start(in), in.cmd \notin Cancelling
  PROVE  /\ ~rd_error => ~rd_cancelled' /\ ~disturbed' /\ Calm'
         /\ rd_error => disturbed'
         /\ rd_busy' => ~fifo_clear' /\ reset_cnt' = 0
<1>1. /\ Reader(in) /\ Clear(in) /\ Prefetch(in) /\ FifoReset(in)
      /\ disturbed' = (in.cmd \in Cancelling \/ rd_error \/ (disturbed /\ ~NewPrefetch(in)))
  BY DdrMoves
<1>2. ~loop_restart_ddr
  BY DEF Epoch, Restarting
<1>3. ~rd_error => ~rd_cancelled /\ ~disturbed /\ Calm
  BY DEF FramesInv
<1>4. rd_busy => ~fifo_clear /\ reset_cnt = 0
  BY DEF FramesInv
<1>5. reset_cnt = 0 => ~(reset_cnt > 0)
  OBVIOUS
<1>6. ~rd_error => ~rd_cancelled' /\ ~disturbed'
  BY <1>1, <1>3 DEF Reader, StartReader, IdleReader, BusyReader
<1>7. ~rd_error => Calm'
  BY <1>1, <1>2, <1>3, <1>5 DEF Calm, Clear, FifoReset
<1>8. rd_busy' => rd_busy
  BY <1>1 DEF Reader, StartReader, IdleReader, BusyReader
<1>9. rd_busy => ~fifo_clear' /\ reset_cnt' = 0
  BY <1>1, <1>4, <1>5 DEF Clear, FifoReset
<1> QED
  BY <1>1, <1>6, <1>7, <1>8, <1>9

LEMMA FramesDdr ==
  ASSUME ~Pipelined, FeedInv, PlayInv, NEW in \in DdrInputs, DdrEdge(in)
  PROVE  FramesInv'
<1> SUFFICES ASSUME Epoch' PROVE FramesInv'
  BY DEF FramesInv
<1>1. TokenInv /\ ReaderInv /\ FramesInv
  BY DEF PlayInv
<1>2. /\ in.cmd \notin Cancelling
      /\ \/ Commits(in)
         \/ (Plain(in) \/ Plays(in)) /\ restart_start /\ state = "PREFETCH"
         \/ (Plain(in) \/ Plays(in)) /\ Epoch /\ ~reader_start(in)
  BY <1>1, EpochsOfDdr
<1>3. CASE Commits(in) \/ ((Plain(in) \/ Plays(in)) /\ restart_start /\ state = "PREFETCH")
  <2>1. Started'
    BY <1>3, StartByCommit, StartByRestart
  <2> QED
    BY <2>1, StartedEpoch, PTL
<1>4. CASE (Plain(in) \/ Plays(in)) /\ Epoch /\ ~reader_start(in)
  <2>1. gen' = gen /\ total' = total
    BY <1>4 DEF Plain, Plays
  <2>2. /\ FifoOrdered(Base)' /\ HeldNext(Base)'
        /\ rd_error' => InHand(Base)' < total
        /\ ~rd_error' => InHand(Base)' + rd_left' = total
        /\ rd_error => rd_error'
    BY <1>1, <1>2, <1>4, <2>1, EpochStep
  <2>3. /\ ~rd_error => ~rd_cancelled' /\ ~disturbed' /\ Calm'
        /\ rd_error => disturbed'
        /\ rd_busy' => ~fifo_clear' /\ reset_cnt' = 0
    BY <1>1, <1>2, <1>4, EpochCalm
  <2>4. rd_error \in BOOLEAN /\ rd_error' \in BOOLEAN
    <3>1. rd_error \in BOOLEAN
      BY FrameTypes
    <3>2. in.fault \in BOOLEAN
      BY DdrCommands DEF FeedInv
    <3> QED
      BY <3>1, <3>2, DdrMoves DEF Reader, StartReader, IdleReader, BusyReader
  <2>5. ASSUME ~rd_error, ~Open' PROVE prefetched' = Len(fifo')
    <3>1. ~Open /\ ~disturbed /\ Calm /\ prefetched = Len(fifo) /\ Base = 0
          /\ InHand(Base) + rd_left = total
      BY <1>1, <1>4, <2>5, BaseOfDdr DEF FramesInv, Base
    <3>2. ~NewPrefetch(in)
      BY <1>2, <1>4 DEF NewPrefetch, reader_start, Epoch, Restarting
    <3>3. /\ prefetched' = IF frame_fire /\ prefetched < total THEN prefetched + 1 ELSE prefetched
          /\ fifo' = IF frame_fire THEN fifo \o rd_held ELSE fifo
      BY <3>1, <3>2, DdrMoves DEF Prefetch, Write, Calm
    <3>4. CASE frame_fire
      <4>1. Len(fifo') = Len(fifo) + 1 /\ Len(rd_held) = 1
        BY <3>3, <3>4, Appended
      <4>2. prefetched < total
        <5>1. Len(fifo) \in Nat /\ rd_left \in Nat /\ total \in Nat
          BY FrameTypes
        <5>2. Len(fifo) + 1 + rd_left = total
          BY <3>1, <4>1, <5>1 DEF InHand
        <5> QED
          BY <3>1, <5>1, <5>2
      <4> QED
        BY <3>1, <3>3, <3>4, <4>1, <4>2
    <3>5. CASE ~frame_fire
      BY <3>1, <3>3, <3>5
    <3> QED
      BY <3>4, <3>5
  <2>6. state' = "WAIT_TRIGGER" => position' = 0
    BY <1>1, <1>4, DacSideStays DEF FramesInv
  <2> QED
    BY <2>1, <2>2, <2>3, <2>4, <2>5, <2>6 DEF FramesInv
<1> QED
  BY <1>2, <1>3, <1>4

\* An edge of the DAC clock takes at most the first frame, with its position.
LEMMA StreamStep ==
  ASSUME FeedInv, NEW in \in DacInputs, DacEdge(in), gen' = gen,
         ~loop_restart, taken(in) \notin Cancelling,
         Open => Open', ~Open /\ Open' => state = "PREFETCH",
         state' = "WAIT_TRIGGER" => state \in {"PREFETCH", "WAIT_TRIGGER"},
         FifoOrdered(Base), HeldNext(Base), state = "WAIT_TRIGGER" => position = 0
  PROVE  /\ FifoOrdered(Base)' /\ HeldNext(Base)' /\ InHand(Base)' = InHand(Base)
         /\ state' = "WAIT_TRIGGER" => position' = 0
         /\ Len(fifo') = Len(fifo) - (IF beat_fire(in) THEN 1 ELSE 0)
         /\ Base' = Base + (IF beat_fire(in) THEN 1 ELSE 0)
<1> DEFINE b == Base
<1> DEFINE pop == IF beat_fire(in) THEN 1 ELSE 0
<1>1. /\ b \in Nat /\ position \in Nat /\ Len(fifo) \in Nat /\ Len(rd_held) \in {0, 1}
      /\ fifo \in Seq(Frames) /\ pop \in {0, 1}
  BY FrameTypes, BaseType
<1>2. position' = IF stream_clear(in) THEN 0 ELSE position + pop
  BY DEF DacEdge, Stream
<1>3. /\ fifo' = IF beat_fire(in) THEN Tail(fifo) ELSE fifo
      /\ beat_fire(in) => fifo # <<>>
  BY StreamTakes
<1>4. rd_held' = rd_held
  BY DdrSideStays
<1>5. beat_fire(in) => state = "PLAYING"
  BY DEF beat_fire, active, playing
<1>6. b' = b + pop /\ (state' = "WAIT_TRIGGER" => position' = 0)
  <2>1. CASE Open
    <3>1. ~stream_clear(in) /\ Open'
      BY <2>1 DEF stream_clear, Open
    <3>2. b = position /\ b' = position' /\ position' = position + pop
      BY <1>2, <2>1, <3>1 DEF Base
    <3>3. state = "WAIT_TRIGGER" => pop = 0
      BY <1>5
    <3> QED
      BY <1>1, <2>1, <3>2, <3>3 DEF Open
  <2>2. CASE ~Open
    <3>1. b = 0 /\ pop = 0
      BY <1>5, <2>2 DEF Base, Open
    <3>2. CASE Open'
      <4>1. position' = 0 /\ b' = position'
        BY <1>2, <2>2, <3>2 DEF stream_clear, Base
      <4> QED
        BY <3>1, <4>1
    <3>3. CASE ~Open'
      <4>1. b' = 0 /\ state' # "WAIT_TRIGGER"
        BY <3>3 DEF Base, Open
      <4> QED
        BY <3>1, <4>1
    <3> QED
      BY <3>2, <3>3
  <2> QED
    BY <2>1, <2>2
<1>7. \A i \in 1..Len(fifo) : fifo[i] = [gen |-> gen, n |-> b + i]
  BY DEF FifoOrdered
<1>8. rd_held # <<>> => rd_held[1] = [gen |-> gen, n |-> b + Len(fifo) + 1]
  BY DEF HeldNext
<1> HIDE DEF b, pop
<1>9. /\ Len(fifo') = Len(fifo) - pop /\ Len(fifo') \in Nat
      /\ \A i \in 1..Len(fifo') : fifo'[i] = fifo[i + pop] /\ i + pop \in 1..Len(fifo)
  <2>1. CASE beat_fire(in)
    <3>1. pop = 1 /\ fifo' = Tail(fifo)
      BY <1>3, <2>1 DEF pop
    <3>2. /\ Tail(fifo) \in Seq(Frames) /\ Len(Tail(fifo)) = Len(fifo) - 1
          /\ \A i \in 1..Len(Tail(fifo)) : Tail(fifo)[i] = fifo[i + 1]
      BY <1>1, <1>3, <2>1, HeadTailProperties
    <3>3. Len(Tail(fifo)) \in Nat
      BY <3>2, LenProperties
    <3> QED
      BY <1>1, <3>1, <3>2, <3>3
  <2>2. CASE ~beat_fire(in)
    <3>1. pop = 0 /\ fifo' = fifo
      BY <1>3, <2>2 DEF pop
    <3> QED
      BY <1>1, <3>1
  <2> QED
    BY <2>1, <2>2
<1>10. FifoOrdered(Base)'
  <2>1. \A i \in 1..Len(fifo') : fifo'[i] = [gen |-> gen, n |-> b' + i]
    <3> SUFFICES ASSUME NEW i \in 1..Len(fifo')
                 PROVE  fifo'[i] = [gen |-> gen, n |-> b' + i]
      OBVIOUS
    <3>1. fifo'[i] = [gen |-> gen, n |-> b + (i + pop)]
      BY <1>7, <1>9
    <3>2. b + (i + pop) = b' + i
      BY <1>1, <1>6, <1>9
    <3> QED
      BY <3>1, <3>2
  <2> QED
    BY <2>1 DEF FifoOrdered, b
<1>11. HeldNext(Base)'
  <2>1. b + Len(fifo) + 1 = b' + Len(fifo') + 1
    BY <1>1, <1>6, <1>9
  <2> QED
    BY <1>4, <1>8, <2>1 DEF HeldNext, b
<1>12. InHand(Base)' = InHand(Base)
  <2>1. b + Len(fifo) + Len(rd_held) = b' + Len(fifo') + Len(rd_held)
    BY <1>1, <1>6, <1>9
  <2> QED
    BY <1>4, <2>1 DEF InHand, b
<1> QED
  BY <1>6, <1>9, <1>10, <1>11, <1>12 DEF b, pop

\* The moves of the controller within an epoch.
LEMMA EpochsOfDac ==
  ASSUME FeedInv, TokenInv, NEW in \in DacInputs, DacEdge(in), Epoch'
  PROVE  /\ Epoch /\ ~loop_restart /\ taken(in) \notin Cancelling
         /\ \/ ~Open /\ ~Open'
            \/ state = "PREFETCH" /\ prefetch_done /\ Open'
            \/ Open /\ Open' /\ ~Faulty
         /\ state' = "PREFETCH" /\ was_prefetch' => state = "PREFETCH"
         /\ state' = "WAIT_TRIGGER" => state \in {"PREFETCH", "WAIT_TRIGGER"}
<1>1. /\ Moves(in) /\ phase' = phase /\ PhaseInv /\ src_toggle \in BOOLEAN
      /\ loop_restart \in BOOLEAN
  BY DacFacts DEF FeedInv, TypeOK
<1>2. \/ taken(in) = "none" /\ flying' = flying
      \/ taken(in) = flying /\ flying \in Waiting /\ flying' = "none"
  BY DacFacts
<1>3. ~Restarting
  <2>1. src_toggle' = (src_toggle # loop_restart)
    BY DEF DacEdge, Controller
  <2>2. /\ dst_sync' = dst_sync /\ dst_seen' = dst_seen /\ restart_pending' = restart_pending
        /\ restart_start' = restart_start
    BY DdrSideStays
  <2>3. ~loop_restart' /\ src_toggle' = dst_sync[1] /\ dst_sync[1] = dst_sync[2]
        /\ ~loop_restart_ddr /\ ~restart_pending /\ ~restart_start
    BY <2>2 DEF Epoch, Restarting, loop_restart_ddr
  <2>4. ~loop_restart
    BY <1>1, <2>1, <2>3 DEF TokenInv
  <2>5. src_toggle = dst_sync[1]
    BY <1>1, <2>1, <2>3, <2>4
  <2> QED
    BY <2>3, <2>4, <2>5 DEF Restarting
<1>4. ~loop_restart'
  BY DEF Epoch, Restarting
<1>5. /\ phase = "committed" /\ flying' \notin Cancelling
      /\ flying' = "commit" \/ state' \in Live
  BY <1>1 DEF Epoch, cancelling
<1>6. CASE flying' = "commit"
  <2>1. flying = "commit" /\ taken(in) = "none"
    BY <1>2, <1>6
  <2>2. state \in {"UPLOAD", "ERROR"}
    BY <1>1, <1>5, <2>1 DEF PhaseInv
  <2>3. state' \in {"UPLOAD", "ERROR"}
    BY <1>1, <2>1, <2>2 DEF Moves, Stays, LastBeat
  <2> QED
    BY <1>3, <1>5, <2>1, <2>2, <2>3 DEF Epoch, cancelling, Cancelling, Open, Restarting
<1>7. CASE state' \in Live
  <2>1. taken(in) \notin Cancelling
    BY <1>1, <1>5, <1>7 DEF Moves, Stays, LastBeat, Live, Cancelling, PhaseInv
  <2>2. ~cancelling
    BY <1>2, <1>5, <2>1 DEF cancelling
  <2>3. flying = "commit" \/ state \in Live
    BY <1>1, <1>2, <1>4, <1>7 DEF Moves, Stays, LastBeat, Live, Cancelling
  <2>4. Epoch
    BY <1>3, <1>5, <2>2, <2>3 DEF Epoch
  <2>5. \/ ~Open /\ ~Open'
        \/ state = "PREFETCH" /\ prefetch_done /\ Open'
        \/ Open /\ Open' /\ ~Faulty
    BY <1>1, <1>4, <1>7, <2>1 DEF Moves, Stays, LastBeat, Live, Open, Cancelling
  <2>6. state' = "WAIT_TRIGGER" => state \in {"PREFETCH", "WAIT_TRIGGER"}
    BY <1>1, <1>4, <2>1 DEF Moves, Stays, LastBeat, Cancelling
  <2>7. was_prefetch' => state = "PREFETCH"
    BY DEF DacEdge, Settle
  <2> QED
    BY <1>3, <2>1, <2>4, <2>5, <2>6, <2>7 DEF Restarting
<1> QED
  BY <1>5, <1>6, <1>7

LEMMA FramesDac ==
  ASSUME FeedInv, PlayInv, NEW in \in DacInputs, DacEdge(in)
  PROVE  FramesInv'
<1> SUFFICES ASSUME Epoch' PROVE FramesInv'
  BY DEF FramesInv
<1>1. /\ Epoch /\ ~loop_restart /\ taken(in) \notin Cancelling
      /\ \/ ~Open /\ ~Open'
         \/ state = "PREFETCH" /\ prefetch_done /\ Open'
         \/ Open /\ Open' /\ ~Faulty
      /\ state' = "WAIT_TRIGGER" => state \in {"PREFETCH", "WAIT_TRIGGER"}
  BY EpochsOfDac DEF PlayInv
<1>2. FramesInv /\ gen' = gen
  BY DacFacts DEF PlayInv
<1>3. /\ FifoOrdered(Base)' /\ HeldNext(Base)' /\ InHand(Base)' = InHand(Base)
      /\ state' = "WAIT_TRIGGER" => position' = 0
      /\ Len(fifo') = Len(fifo) - (IF beat_fire(in) THEN 1 ELSE 0)
  BY <1>1, <1>2, StreamStep DEF FramesInv
<1>4. ~Open' => ~Open /\ Len(fifo') = Len(fifo)
  <2>1. ~Open => ~beat_fire(in)
    BY DEF Open, beat_fire, active, playing
  <2>2. Len(fifo) \in Nat
    BY FrameTypes
  <2> QED
    BY <1>1, <1>3, <2>1, <2>2
<1> QED
  BY <1>1, <1>2, <1>3, <1>4, DdrSideStays DEF FramesInv, Calm

-----------------------------------------------------------------------------
(* A waveform that fits the FIFO.                                            *)

\* A full FIFO stays as it is on the DDR side.
LEMMA FullKept ==
  ASSUME FeedInv, FramesInv, Epoch, Full, NEW in \in DdrInputs, DdrEdge(in),
         ~reader_start(in), total' = total
  PROVE  Full' /\ fifo' = fifo /\ seen' = seen /\ lag' = lag
<1>1. rd_left = 0 /\ rd_held = <<>> /\ ~rd_error /\ reset_cnt = 0 /\ Len(fifo) = total - Base
  BY DEF Full, FramesInv, Calm
<1>2. ~(reset_cnt > 0) /\ ~(rd_left > 0) /\ ~frame_fire
  BY <1>1 DEF frame_fire
<1>3. BusAnswers(in) /\ Reader(in) /\ Write
  BY DdrMoves
<1>4. fifo' = fifo /\ seen' = seen /\ lag' = lag
  BY <1>2, <1>3 DEF Write
<1>5. ~assembles(in) /\ ~in.fault
  <2>1. in.fault => rd_left > 0
    BY <1>3, Zenon DEF BusAnswers
  <2>2. ~assembles(in)
    BY <1>2 DEF assembles
  <2>3. ASSUME in.fault PROVE FALSE
    BY <1>2, <2>1, <2>3
  <2> QED
    BY <2>2, <2>3
<1>6. rd_left' = 0 /\ rd_held' = <<>> /\ ~rd_error'
  <2>1. CASE IdleReader(in)
    BY <1>1, <2>1 DEF IdleReader
  <2>2. CASE BusyReader(in)
    <3>1. rd_error' = (rd_error \/ in.fault)
      BY <2>2 DEF BusyReader
    <3>2. rd_left' = 0 /\ rd_held' = <<>>
      BY <1>1, <1>5, <2>2 DEF BusyReader
    <3> QED
      BY <1>1, <1>5, <3>1, <3>2
  <2> QED
    BY <1>3, <2>1, <2>2 DEF Reader, StartReader
<1>7. Base' = Base
  BY BaseOfDdr
<1> QED
  BY <1>1, <1>4, <1>6, <1>7 DEF Full

LEMMA FitsDdr ==
  ASSUME ~Pipelined, FeedInv, PlayInv, NEW in \in DdrInputs, DdrEdge(in)
  PROVE  FitsInv'
<1> SUFFICES ASSUME Epoch', Fits' PROVE FitsInv'
  BY DEF FitsInv
<1>1. TokenInv /\ ReaderInv /\ FramesInv /\ FitsInv
  BY DEF PlayInv
<1>2. /\ in.cmd \notin Cancelling
      /\ \/ Commits(in)
         \/ (Plain(in) \/ Plays(in)) /\ restart_start /\ state = "PREFETCH"
         \/ (Plain(in) \/ Plays(in)) /\ Epoch /\ ~reader_start(in)
  BY <1>1, EpochsOfDdr
<1>3. CASE Commits(in) \/ ((Plain(in) \/ Plays(in)) /\ restart_start /\ state = "PREFETCH")
  <2>1. Started'
    BY <1>3, StartByCommit, StartByRestart
  <2> QED
    BY <2>1, StartedEpoch, PTL
<1>4. CASE (Plain(in) \/ Plays(in)) /\ Epoch /\ ~reader_start(in)
  <2>1. total' = total /\ Fits
    BY <1>4 DEF Plain, Plays, Fits
  <2>2. Full => Full' /\ fifo' = fifo /\ seen' = seen /\ lag' = lag
    BY <1>1, <1>4, <2>1, FullKept
  <2>3. ASSUME ~Open, prefetch_safe' PROVE Full
    <3>1. ~rd_error /\ level_safe
      BY <2>3, DdrMoves DEF Prefetch
    <3>2. prefetched >= total
      BY <2>1, <3>1 DEF level_safe, prefetch_target, Fits
    <3>3. Base = 0 /\ prefetched = Len(fifo) /\ InHand(Base) + rd_left = total
      BY <1>1, <1>4, <2>3, <3>1 DEF Base, FramesInv
    <3>4. /\ Len(fifo) \in Nat /\ Len(rd_held) \in {0, 1} /\ rd_left \in Nat /\ total \in Nat
          /\ (rd_held = <<>> <=> Len(rd_held) = 0)
      BY FrameTypes
    <3>5. 0 + Len(fifo) + Len(rd_held) + rd_left = total
      BY <3>3 DEF InHand
    <3>6. Len(fifo) = total /\ Len(rd_held) = 0 /\ rd_left = 0
      BY <3>2, <3>3, <3>4, <3>5
    <3> QED
      BY <3>1, <3>3, <3>4, <3>6 DEF Full
  <2>4. /\ Open' = Open /\ safe_sync' = safe_sync /\ state' = state
        /\ was_prefetch' = was_prefetch /\ settle' = settle
    BY BaseOfDdr, DacSideStays
  <2>5. ~Open' /\ (prefetch_safe' \/ safe_sync'[1] \/ safe_sync'[2]) => Full'
    BY <1>1, <1>4, <2>1, <2>2, <2>3, <2>4 DEF FitsInv
  <2>6. state' = "PREFETCH" /\ was_prefetch' /\ settle' > 0 =>
          Full' /\ (seen' < Len(fifo') => settle' <= lag')
    BY <1>1, <1>4, <2>1, <2>2, <2>4 DEF FitsInv
  <2>7. Open' => Full' /\ seen' = Len(fifo')
    BY <1>1, <1>4, <2>1, <2>2, <2>4 DEF FitsInv
  <2> QED
    BY <2>5, <2>6, <2>7 DEF FitsInv
<1> QED
  BY <1>2, <1>3, <1>4

LEMMA FitsDac ==
  ASSUME FeedInv, PlayInv, NEW in \in DacInputs, DacEdge(in)
  PROVE  FitsInv'
<1> SUFFICES ASSUME Epoch', Fits' PROVE FitsInv'
  BY DEF FitsInv
<1> DEFINE pop == IF beat_fire(in) THEN 1 ELSE 0
<1>1. /\ Epoch /\ ~loop_restart /\ taken(in) \notin Cancelling
      /\ \/ ~Open /\ ~Open'
         \/ state = "PREFETCH" /\ prefetch_done /\ Open'
         \/ Open /\ Open' /\ ~Faulty
      /\ state' = "PREFETCH" /\ was_prefetch' => state = "PREFETCH"
      /\ state' = "WAIT_TRIGGER" => state \in {"PREFETCH", "WAIT_TRIGGER"}
  BY EpochsOfDac DEF PlayInv
<1>2. FramesInv /\ FitsInv /\ gen' = gen /\ total' = total /\ Fits
  BY DacFacts DEF PlayInv, Fits
<1>3. Len(fifo') = Len(fifo) - pop /\ Base' = Base + pop
  BY <1>1, <1>2, StreamStep DEF FramesInv
<1>4. /\ Len(fifo) \in Nat /\ Base \in Nat /\ total \in Nat /\ pop \in {0, 1} /\ lag \in Nat
      /\ settle \in Nat /\ seen \in 0..Len(fifo) /\ lag \in 0..PUB_EDGES /\ PUB_EDGES \in Nat
      /\ CDC_SETTLE_CYCLES \in Nat \ {0} /\ PUB_EDGES <= CDC_SETTLE_CYCLES
  BY FrameTypes, BaseType, PathConstants, PathTiming DEF FeedInv, TypeOK
<1>5. ~Open => pop = 0
  BY DEF Open, beat_fire, active, playing
<1>6. /\ in.shown \in (seen - pop)..Len(fifo') /\ (lag = PUB_EDGES => in.shown = Len(fifo'))
      /\ seen' = in.shown /\ lag' = IF in.shown = Len(fifo') THEN 0 ELSE lag + 1
      /\ settle' = IF (state = "PREFETCH" /\ ~was_prefetch) \/ ~safe_sync[2] \/ ~lanes_published
                   THEN 0
                   ELSE IF settle < CDC_SETTLE_CYCLES THEN settle + 1 ELSE settle
  BY DEF DacEdge, Stream, Settle
<1>7. Full => Full'
  <2>1. Full => Len(fifo) = total - Base
    BY DEF Full
  <2>2. Full => Len(fifo') = total - Base'
    BY <1>3, <1>4, <2>1
  <2> QED
    BY <1>2, <2>2, DdrSideStays DEF Full
<1> HIDE DEF pop
<1>8. ~Open' /\ (prefetch_safe' \/ safe_sync'[1] \/ safe_sync'[2]) => Full'
  <2> SUFFICES ASSUME ~Open', prefetch_safe' \/ safe_sync'[1] \/ safe_sync'[2]
               PROVE  Full
    BY <1>7
  <2>1. ~Open /\ (prefetch_safe \/ safe_sync[1])
    BY <1>1, QuietDac, DdrSideStays
  <2> QED
    BY <1>1, <1>2, <2>1 DEF FitsInv
<1>9. ASSUME state' = "PREFETCH", was_prefetch', settle' > 0
      PROVE  Full' /\ (seen' < Len(fifo') => settle' <= lag')
  <2>1. state = "PREFETCH" /\ ~Open
    BY <1>1, <1>9 DEF Open
  <2>2. settle' # 0
    BY <1>9
  <2>3. was_prefetch /\ safe_sync[2]
    BY <1>6, <2>1, <2>2
  <2>4. Full'
    BY <1>1, <1>2, <1>7, <2>1, <2>3 DEF FitsInv
  <2>5. settle' <= settle + 1 /\ settle' \in Nat
    BY <1>4, <1>6
  <2>6. ASSUME seen' < Len(fifo') PROVE settle' <= lag'
    <3>1. pop = 0 /\ Len(fifo') = Len(fifo)
      BY <1>3, <1>4, <1>5, <2>1
    <3>2. in.shown < Len(fifo) /\ seen < Len(fifo) /\ lag' = lag + 1
      BY <1>4, <1>6, <2>6, <3>1
    <3>3. settle > 0 => settle <= lag
      BY <1>1, <1>2, <2>1, <2>3, <3>2 DEF FitsInv
    <3>4. settle <= lag
      BY <1>4, <3>3
    <3> QED
      BY <1>4, <2>5, <3>2, <3>4
  <2> QED
    BY <2>4, <2>6
<1>10. ASSUME Open' PROVE Full' /\ seen' = Len(fifo')
  <2>1. CASE Open
    <3>1. Full /\ seen = Len(fifo)
      BY <1>1, <1>2, <2>1 DEF FitsInv
    <3>2. seen' = Len(fifo')
      BY <1>3, <1>4, <1>6, <3>1
    <3> QED
      BY <1>7, <3>1, <3>2
  <2>2. CASE ~Open
    <3>1. state = "PREFETCH" /\ safe_sync[2] /\ was_prefetch /\ settle >= CDC_SETTLE_CYCLES
      BY <1>1, <1>10, <2>2 DEF prefetch_done, fifo_published
    <3>2. settle > 0 /\ pop = 0 /\ Len(fifo') = Len(fifo)
      BY <1>3, <1>4, <1>5, <2>2, <3>1
    <3>3. Full /\ (seen < Len(fifo) => settle <= lag)
      BY <1>1, <1>2, <3>1, <3>2 DEF FitsInv
    <3>4. seen' = Len(fifo')
      BY <1>4, <1>6, <3>1, <3>2, <3>3
    <3> QED
      BY <1>7, <3>3, <3>4
  <2> QED
    BY <2>1, <2>2
<1> QED
  BY <1>8, <1>9, <1>10 DEF FitsInv

-----------------------------------------------------------------------------
(* A cancelling command on its way to a controller that still runs.          *)

LEMMA CancelDdr ==
  ASSUME ~Pipelined, FeedInv, PlayInv, NEW in \in DdrInputs, DdrEdge(in), NoMeet
  PROVE  CancelInv'
<1> SUFFICES ASSUME cancelling', state' \in Live PROVE CancelInv'
  BY DEF CancelInv
<1>1. TokenInv /\ ReaderInv /\ FramesInv /\ CancelInv /\ PhaseInv /\ RecordInv /\ DescriptorInv
  BY DEF PlayInv, FeedInv
<1>2. /\ state' = state /\ current' = current /\ total_dac' = total_dac /\ position' = position
      /\ settle' = settle /\ cmd_lag' = cmd_lag /\ Open' = Open /\ Base' = Base
  BY DacSideStays, BaseOfDdr
<1>3. ~Restarting /\ ~Restarting'
  BY DEF NoMeet, cancelling
<1>4. /\ Write /\ FifoReset(in) /\ since < DDR_MAX /\ since' = since + 1
      /\ disturbed' = (in.cmd \in Cancelling \/ rd_error \/ (disturbed /\ ~NewPrefetch(in)))
  BY DdrMoves
<1>5. Plain(in) \/ Commits(in) \/ Plays(in) \/ Cancels(in)
  BY DdrCommands DEF FeedInv
<1>6. CASE Cancels(in)
  <2>1. /\ in.cmd \in Cancelling /\ flying = "none" /\ mailbox' # <<>> /\ desc_fifo = <<>>
        /\ gen' = gen
    BY <1>6 DEF Cancels
  <2>2. phase = "committed"
    BY <1>1, <1>2, <2>1 DEF PhaseInv, FeedInv, TypeOK, Live
  <2>3. Epoch /\ ~reader_start(in)
    BY <1>2, <1>3, <2>1, <2>2 DEF Epoch, cancelling, reader_start, Cancelling, Restarting
  <2>4. current /\ total_dac = total
    BY <1>1, <2>1, <2>2 DEF RecordInv, DescriptorInv
  <2>5. /\ FifoOrdered(Base)' /\ HeldNext(Base)'
        /\ rd_error' => InHand(Base)' < total
        /\ ~rd_error' => InHand(Base)' + rd_left' <= total
    BY <1>1, <2>1, <2>3, EpochStep
  <2>6. reset_cnt' = FIFO_RESET_CYCLES
    BY <1>4, <2>1 DEF FifoReset
  <2>7. state' = "WAIT_TRIGGER" => position' = 0
    BY <1>1, <1>2, <2>3 DEF FramesInv
  <2>8. Unsent'
    BY <1>2, <2>1, <2>4, <2>5, <2>6, <2>7 DEF Unsent
  <2> QED
    BY <1>2, <1>3, <1>4, <2>1, <2>4, <2>8 DEF CancelInv
<1>7. CASE Plain(in)
  <2>1. /\ cancelling /\ state \in Live /\ in.cmd \notin Cancelling \cup {"commit"}
        /\ mailbox' # <<>> => mailbox # <<>> /\ flying = "commit"
    BY <1>2, <1>7 DEF Plain, cancelling, Cancelling
  <2>2. /\ disturbed /\ current
        /\ \/ Unsent
           \/ mailbox = <<>> /\ fifo = <<>> /\ Open /\ reset_cnt + since >= DDR_MAX
           \/ /\ mailbox = <<>> /\ fifo = <<>> /\ state = "PREFETCH"
              /\ reset_cnt + since >= 2 * DDR_MAX
           \/ mailbox = <<>> /\ state = "PREFETCH" /\ settle < cmd_lag
    BY <1>1, <2>1 DEF CancelInv
  <2>3. ~NewPrefetch(in) /\ disturbed'
    BY <1>3, <1>4, <2>1, <2>2 DEF NewPrefetch, Restarting
  <2>4. mailbox' = <<>>
    BY <2>1 DEF cancelling, Cancelling
  <2>5. reset_cnt' = IF fifo_clear THEN FIFO_RESET_CYCLES
                     ELSE IF reset_cnt > 0 THEN reset_cnt - 1 ELSE 0
    BY <1>4, <2>1 DEF FifoReset
  <2>6. /\ reset_cnt \in Nat /\ since \in Nat /\ DDR_MAX \in Nat \ {0}
        /\ FIFO_RESET_CYCLES \in Nat /\ FIFO_RESET_CYCLES >= 2 * DDR_MAX
    BY FrameTypes, PathConstants, PathTiming
  <2>7. CASE Unsent
    <3>1. reset_cnt = FIFO_RESET_CYCLES
      BY <2>7 DEF Unsent
    <3>2. fifo' = <<>>
      BY <1>4, <2>6, <3>1 DEF Write
    <3>3. reset_cnt' + since' >= 2 * DDR_MAX /\ reset_cnt' + since' >= DDR_MAX
      BY <1>4, <2>5, <2>6, <3>1
    <3>4. Open' \/ state' = "PREFETCH"
      BY DEF Open, Live
    <3> QED
      BY <1>2, <1>3, <2>2, <2>3, <2>4, <3>2, <3>3, <3>4 DEF CancelInv
  <2>8. CASE fifo = <<>> /\ Open /\ reset_cnt + since >= DDR_MAX
    <3>1. reset_cnt > 0
      BY <1>4, <2>6, <2>8
    <3>2. fifo' = <<>>
      BY <1>4, <3>1 DEF Write
    <3>3. reset_cnt' + since' >= DDR_MAX
      BY <1>4, <2>5, <2>6, <2>8
    <3> QED
      BY <1>2, <1>3, <2>2, <2>3, <2>4, <2>8, <3>2, <3>3 DEF CancelInv
  <2>9. CASE fifo = <<>> /\ state = "PREFETCH" /\ reset_cnt + since >= 2 * DDR_MAX
    <3>1. reset_cnt > 0
      BY <1>4, <2>6, <2>9
    <3>2. fifo' = <<>>
      BY <1>4, <3>1 DEF Write
    <3>3. reset_cnt' + since' >= 2 * DDR_MAX
      BY <1>4, <2>5, <2>6, <2>9
    <3> QED
      BY <1>2, <1>3, <2>2, <2>3, <2>4, <2>9, <3>2, <3>3 DEF CancelInv
  <2>10. CASE state = "PREFETCH" /\ settle < cmd_lag
    BY <1>2, <1>3, <2>2, <2>3, <2>4, <2>10 DEF CancelInv
  <2> QED
    BY <2>2, <2>7, <2>8, <2>9, <2>10
<1>8. CASE Commits(in) \/ Plays(in)
  BY <1>8 DEF Commits, Plays, cancelling, Cancelling
<1> QED
  BY <1>5, <1>6, <1>7, <1>8

LEMMA CancelDac ==
  ASSUME FeedInv, PlayInv, NEW in \in DacInputs, DacEdge(in), NoMeet
  PROVE  CancelInv'
<1> SUFFICES ASSUME cancelling', state' \in Live PROVE CancelInv'
  BY DEF CancelInv
<1>1. /\ CancelInv /\ Moves(in) /\ DescriptorInv
      /\ \/ taken(in) = "none" /\ flying' = flying
         \/ taken(in) = flying /\ flying' = "none"
      /\ in.rec \in BOOLEAN /\ (in.rec => ~current) /\ gen' = gen
  BY DacFacts DEF PlayInv, FeedInv
<1>2. taken(in) = "none" /\ flying' = flying /\ cancelling
  BY <1>1 DEF cancelling, Cancelling
<1>3. ~Restarting /\ ~Restarting' /\ ~loop_restart' /\ ~loop_restart
  BY DEF NoMeet, cancelling, Restarting
<1>4. /\ state \in Live /\ ~Faulty
      /\ \/ state = "PREFETCH" /\ state' = "PREFETCH"
         \/ state = "PREFETCH" /\ prefetch_done /\ Open'
         \/ Open /\ Open'
      /\ state' = "WAIT_TRIGGER" => state \in {"PREFETCH", "WAIT_TRIGGER"}
  BY <1>1, <1>2, <1>3 DEF Moves, Stays, LastBeat, Live, Open, Cancelling
<1>5. /\ disturbed /\ current
      /\ \/ Unsent
         \/ mailbox = <<>> /\ fifo = <<>> /\ Open /\ reset_cnt + since >= DDR_MAX
         \/ /\ mailbox = <<>> /\ fifo = <<>> /\ state = "PREFETCH"
            /\ reset_cnt + since >= 2 * DDR_MAX
         \/ mailbox = <<>> /\ state = "PREFETCH" /\ settle < cmd_lag
  BY <1>1, <1>2, <1>4 DEF CancelInv
<1>6. current' /\ total_dac' = total_dac
  BY <1>1, <1>2, <1>5, DacFacts
<1>7. enabled
  BY <1>1, <1>5, PathConstants DEF enabled, DescriptorInv
<1>8. ~in.take
  <2>1. in.take => taken(in) = Head(cmd_fifo)
    BY DEF taken
  <2>2. flying # "none"
    BY <1>2 DEF cancelling, Cancelling
  <2> QED
    BY <1>2, <2>2, FlightOfDac DEF FeedInv
<1>9. mailbox = <<>> => cmd_lag' = cmd_lag + 1 /\ cmd_lag < PUB_EDGES
  <2> SUFFICES ASSUME mailbox = <<>> PROVE cmd_lag' = cmd_lag + 1 /\ cmd_lag < PUB_EDGES
    OBVIOUS
  <2>1. cmd_fifo # <<>>
    BY <1>2 DEF flying, cancelling, Cancelling
  <2>2. cmd_lag' = cmd_lag + 1 /\ cmd_lag # PUB_EDGES
    BY <1>8, <2>1 DEF DacEdge, Descriptor, Shows
  <2>3. cmd_lag \in 0..PUB_EDGES
    BY DEF FeedInv, TypeOK
  <2> QED
    BY <2>2, <2>3, PathConstants
<1>10. /\ disturbed' = disturbed /\ mailbox' = mailbox /\ reset_cnt' = reset_cnt
       /\ rd_error' = rd_error /\ rd_left' = rd_left /\ since' = 0
  BY DdrSideStays DEF DacEdge
<1>11. /\ reset_cnt \in Nat /\ since \in 0..DDR_MAX /\ DDR_MAX \in Nat \ {0}
       /\ settle \in Nat /\ cmd_lag \in Nat /\ CDC_SETTLE_CYCLES \in Nat \ {0}
       /\ PUB_EDGES <= CDC_SETTLE_CYCLES /\ PUB_EDGES \in Nat
  BY FrameTypes, PathConstants, PathTiming
<1>12. fifo = <<>> => fifo' = <<>> /\ seen = 0
  BY StreamTakes, FrameTypes
<1>13. settle' = IF (state = "PREFETCH" /\ ~was_prefetch) \/ ~safe_sync[2] \/ ~lanes_published
                 THEN 0
                 ELSE IF settle < CDC_SETTLE_CYCLES THEN settle + 1 ELSE settle
  BY DEF DacEdge, Settle
<1>14. CASE Unsent
  <2>1. /\ FifoOrdered(Base)' /\ HeldNext(Base)' /\ InHand(Base)' = InHand(Base)
        /\ state' = "WAIT_TRIGGER" => position' = 0
    <3>1. taken(in) \notin Cancelling
      BY <1>2 DEF Cancelling
    <3>2. (Open => Open') /\ (~Open /\ Open' => state = "PREFETCH")
      BY <1>4 DEF Open
    <3> QED
      BY <1>1, <1>3, <1>4, <1>14, <3>1, <3>2, StreamStep DEF Unsent
  <2>2. Unsent'
    BY <1>6, <1>10, <1>14, <2>1 DEF Unsent
  <2> QED
    BY <1>3, <1>5, <1>6, <1>10, <2>2 DEF CancelInv
<1>15. CASE mailbox = <<>> /\ fifo = <<>> /\ Open /\ reset_cnt + since >= DDR_MAX
  <2>1. any_fifo_empty
    BY <1>7, <1>12, <1>15 DEF any_fifo_empty
  <2>2. Faulty
    BY <1>15, <2>1 DEF Faulty, Open
  <2> QED
    BY <1>4, <2>2
<1>16. CASE /\ mailbox = <<>> /\ fifo = <<>> /\ state = "PREFETCH"
            /\ reset_cnt + since >= 2 * DDR_MAX
  <2>1. fifo' = <<>> /\ mailbox' = <<>> /\ ~lanes_published
    BY <1>7, <1>10, <1>12, <1>16 DEF lanes_published
  <2>2. CASE state' = "PREFETCH"
    <3>1. settle' < cmd_lag'
      BY <1>9, <1>11, <1>13, <1>16, <2>1
    <3> QED
      BY <1>3, <1>5, <1>6, <1>10, <2>1, <2>2, <3>1 DEF CancelInv
  <2>3. CASE Open'
    <3>1. reset_cnt' + since' >= DDR_MAX
      BY <1>10, <1>11, <1>16
    <3> QED
      BY <1>3, <1>5, <1>6, <1>10, <2>1, <2>3, <3>1 DEF CancelInv
  <2> QED
    BY <1>4, <2>2, <2>3
<1>17. CASE mailbox = <<>> /\ state = "PREFETCH" /\ settle < cmd_lag
  <2>1. ~prefetch_done
    BY <1>9, <1>11, <1>17 DEF prefetch_done, fifo_published
  <2>2. state' = "PREFETCH"
    BY <1>4, <1>17, <2>1 DEF Open
  <2>3. settle' < cmd_lag'
    BY <1>9, <1>11, <1>13, <1>17
  <2> QED
    BY <1>3, <1>5, <1>6, <1>10, <1>17, <2>2, <2>3 DEF CancelInv
<1> QED
  BY <1>5, <1>14, <1>15, <1>16, <1>17

-----------------------------------------------------------------------------
(* Stopped, drained and restarted.                                           *)

\* An edge that assembles nothing keeps a low level low.
LEMMA LowStep ==
  ASSUME FeedInv, ReaderInv, LowLevel, NEW in \in DdrInputs, DdrEdge(in),
         ~assembles(in), ~reader_start(in), total' = total
  PROVE  LowLevel'
<1>1. /\ Reader(in) /\ Prefetch(in)
  BY DdrMoves
<1>2. /\ prefetched \in Nat /\ Len(rd_held) \in {0, 1} /\ (rd_held = <<>> <=> Len(rd_held) = 0)
  BY FrameTypes
<1>3. /\ prefetched + Len(rd_held) <= 1
      /\ prefetched + Len(rd_held) = 1 => total > FIFO_DEPTH_BEATS \/ rd_error
  BY DEF LowLevel
<1>4. rd_error => rd_error'
  BY <1>1 DEF Reader, StartReader, IdleReader, BusyReader
<1>5. \/ rd_held' = <<>> /\ Len(rd_held') = 0
      \/ rd_held' = rd_held /\ ~frame_fire
  <2>1. CASE rd_busy
    <3>1. rd_held' = IF fifo_ready THEN <<>> ELSE rd_held
      BY <1>1, <2>1 DEF Reader, StartReader, IdleReader, BusyReader
    <3> QED
      BY <3>1 DEF frame_fire
  <2>2. CASE ~rd_busy
    <3>1. rd_held' = <<>>
      BY <1>1, <2>2 DEF Reader, StartReader, IdleReader, BusyReader, ReaderInv
    <3> QED
      BY <3>1
  <2> QED
    BY <2>1, <2>2
<1>6. prefetched' \in {0, prefetched} \/ (frame_fire /\ prefetched' = prefetched + 1)
  BY <1>1 DEF Prefetch
<1>7. frame_fire => Len(rd_held) = 1
  BY <1>2 DEF frame_fire
<1>8. prefetched' + Len(rd_held') \in Nat /\ prefetched' + Len(rd_held') <= prefetched + Len(rd_held)
  <2>1. CASE frame_fire
    <3>1. Len(rd_held') = 0 /\ Len(rd_held) = 1
      BY <1>5, <1>7, <2>1
    <3> QED
      BY <1>2, <1>6, <3>1
  <2>2. CASE ~frame_fire
    <3>1. prefetched' \in {0, prefetched} /\ Len(rd_held') \in {0, Len(rd_held)}
      BY <1>5, <1>6, <2>2
    <3> QED
      BY <1>2, <3>1
  <2> QED
    BY <2>1, <2>2
<1>9. prefetched' + Len(rd_held') <= 1
      /\ (prefetched' + Len(rd_held') = 1 => prefetched + Len(rd_held) = 1)
  BY <1>2, <1>3, <1>8
<1> QED
  BY <1>3, <1>4, <1>9 DEF LowLevel

\* A low level is no finished prefetch.
LEMMA LowUnsafe ==
  ASSUME FeedInv, LowLevel, phase # "none", NEW in \in DdrInputs, DdrEdge(in)
  PROVE  ~prefetch_safe'
<1>1. Prefetch(in)
  BY DdrMoves
<1>2. total \in Totals /\ total \in Nat \ {0} /\ prefetched \in Nat /\ Len(rd_held) \in {0, 1}
  BY FrameTypes, PathConstants DEF FeedInv, PhaseInv, TypeOK
<1>3. CASE prefetched = 0
  BY <1>1, <1>3, EmptyCount DEF Prefetch
<1>4. CASE prefetched # 0
  <2>1. prefetched = 1 /\ (total > FIFO_DEPTH_BEATS \/ rd_error)
    BY <1>2, <1>4 DEF LowLevel
  <2>2. ASSUME total > FIFO_DEPTH_BEATS PROVE ~level_safe
    <3>1. START_WATERMARK > 1
      BY <1>2, <2>2, PathTiming
    <3>2. prefetch_target = START_WATERMARK
      BY <1>2, <2>2, PathConstants DEF prefetch_target
    <3> QED
      BY <2>1, <3>1, <3>2, PathConstants DEF level_safe
  <2> QED
    BY <1>1, <2>1, <2>2 DEF Prefetch
<1> QED
  BY <1>3, <1>4

\* Nothing is drained twice: a drained path stays drained until a start.
LEMMA DrainedStep ==
  ASSUME FeedInv, Drained, NEW in \in DdrInputs, DdrEdge(in), ~reader_start(in)
  PROVE  Drained'
<1>1. rd_left = 0 /\ rd_held = <<>> /\ ~rd_error /\ fifo = <<>> /\ ~(rd_left > 0) /\ ~frame_fire
  BY DEF Drained, frame_fire
<1>2. BusAnswers(in) /\ Reader(in) /\ Write
  BY DdrMoves
<1>3. fifo' = <<>>
  BY <1>1, <1>2 DEF Write
<1>4. ~assembles(in) /\ ~in.fault
  <2>1. in.fault => rd_left > 0
    BY <1>2, Zenon DEF BusAnswers
  <2>2. ~assembles(in)
    BY <1>1 DEF assembles
  <2>3. ASSUME in.fault PROVE FALSE
    BY <1>1, <2>1, <2>3
  <2> QED
    BY <2>2, <2>3
<1>5. rd_left' = 0 /\ rd_held' = <<>> /\ ~rd_error'
  <2>1. CASE IdleReader(in)
    BY <1>1, <2>1 DEF IdleReader
  <2>2. CASE BusyReader(in)
    <3>1. rd_error' = (rd_error \/ in.fault)
      BY <2>2 DEF BusyReader
    <3>2. rd_left' = 0 /\ rd_held' = <<>>
      BY <1>1, <1>4, <2>2 DEF BusyReader
    <3> QED
      BY <1>1, <1>4, <3>1, <3>2
  <2> QED
    BY <1>2, <2>1, <2>2 DEF Reader, StartReader
<1> QED
  BY <1>3, <1>5 DEF Drained

LEMMA StopDdr ==
  ASSUME ~Pipelined, FeedInv, PlayInv, NEW in \in DdrInputs, DdrEdge(in), NoMeet
  PROVE  StopInv'
<1> SUFFICES ASSUME phase' = "committed" PROVE StopInv'
  BY DEF StopInv
<1>1. /\ TokenInv /\ ReaderInv /\ SpoiledInv /\ FramesInv /\ StopInv /\ DoneInv /\ PhaseInv
  BY DEF PlayInv, FeedInv
<1>2. state' = state /\ safe_sync' = safe_sync
  BY DacSideStays
<1>3. Plain(in) \/ Commits(in) \/ Plays(in) \/ Cancels(in)
  BY DdrCommands DEF FeedInv
<1>4. CASE Commits(in)
  BY <1>1, <1>2, <1>4 DEF Commits, StopInv, PhaseInv
<1>5. CASE Plain(in) \/ Plays(in)
  <2>1. /\ phase = "committed" /\ total' = total /\ in.cmd # "commit"
        /\ flying' \in {"stop", "pause"} => flying \in {"stop", "pause"}
    BY <1>5 DEF Plain, Plays
  <2>2. ASSUME (flying' \in {"stop", "pause"} /\ state # "ERROR") \/ state = "READY"
        PROVE  LowLevel' /\ ~prefetch_safe'
    <3>1. LowLevel
      BY <1>1, <2>1, <2>2 DEF StopInv
    <3>2. Spoiled /\ ~restart_start
      BY <1>1, <2>1, <2>2 DEF SpoiledInv, cancelling, Cancelling, TokenInv, Restarting
    <3>3. ~assembles(in) /\ ~reader_start(in)
      BY <1>1, <2>1, <3>2, DdrMoves
         DEF assembles, draining, Spoiled, reader_start, BusAnswers, ReaderInv
    <3> QED
      BY <1>1, <2>1, <3>1, <3>3, LowStep, LowUnsafe
  <2> QED
    BY <1>1, <1>2, <2>1, <2>2 DEF StopInv
<1>6. CASE Cancels(in)
  <2>1. /\ in.cmd \in {"stop", "pause"} /\ flying = "none" /\ flying' = in.cmd /\ mailbox' # <<>>
        /\ phase = "committed" /\ total' = total /\ ~Restarting
    BY <1>6 DEF Cancels, NoMeet
  <2>2. /\ in.cmd \in Cancelling /\ in.cmd # "commit" /\ ~restart_start /\ ~reader_start(in)
        /\ ~assembles(in)
    BY <2>1 DEF Cancelling, Restarting, reader_start, assembles, draining
  <2>3. prefetched' = 0 /\ Reader(in)
    BY <2>2, DdrMoves DEF Prefetch, NewPrefetch
  <2>4. rd_error => rd_error'
    BY <2>2, <2>3 DEF Reader, StartReader, IdleReader, BusyReader
  <2>5. \/ rd_held' = <<>>
        \/ rd_held' = rd_held /\ rd_held # <<>> /\ ~fifo_ready /\ rd_busy
    BY <1>1, <2>2, <2>3 DEF Reader, StartReader, IdleReader, BusyReader, ReaderInv
  <2>6. ASSUME state # "ERROR", rd_held # <<>>, ~fifo_ready, rd_busy
        PROVE  total > FIFO_DEPTH_BEATS \/ rd_error
    <3>1. state \in Live \/ state = "READY"
      BY <1>1, <2>1, <2>6 DEF PhaseInv, DoneInv, Drained, Live, FeedInv, TypeOK, Ctl!States
    <3>2. Len(rd_held) = 1
      BY <2>6, FrameTypes
    <3>3. CASE state \in Live
      <4>1. Epoch
        BY <2>1, <3>3 DEF Epoch, cancelling, Cancelling
      <4>2. reset_cnt = 0 /\ (~rd_error => InHand(Base) + rd_left = total)
        BY <1>1, <2>6, <4>1 DEF FramesInv
      <4>3. /\ Len(fifo) \in Nat /\ Base \in Nat /\ rd_left \in Nat /\ total \in Nat
            /\ FIFO_DEPTH_BEATS \in Nat /\ Len(fifo) <= FIFO_DEPTH_BEATS
        BY FrameTypes, BaseType, PathConstants
      <4>4. ~(Len(fifo) < FIFO_DEPTH_BEATS)
        BY <2>6, <4>2 DEF fifo_ready
      <4>5. ~rd_error => Base + Len(fifo) + 1 + rd_left = total
        BY <3>2, <4>2 DEF InHand
      <4> QED
        BY <4>3, <4>4, <4>5
    <3>4. CASE state = "READY"
      <4>1. LowLevel /\ prefetched \in Nat
        BY <1>1, <2>1, <3>4, FrameTypes DEF StopInv
      <4> QED
        BY <3>2, <4>1 DEF LowLevel
    <3> QED
      BY <3>1, <3>3, <3>4
  <2>7. ASSUME state # "ERROR" PROVE LowLevel'
    <3>1. CASE rd_held' = <<>>
      <4>1. Len(rd_held') = 0
        BY <3>1
      <4> QED
        BY <2>3, <4>1 DEF LowLevel
    <3>2. CASE rd_held' = rd_held /\ rd_held # <<>> /\ ~fifo_ready /\ rd_busy
      <4>1. Len(rd_held') = 1
        BY <3>2, FrameTypes
      <4>2. total' > FIFO_DEPTH_BEATS \/ rd_error'
        BY <2>1, <2>4, <2>6, <2>7, <3>2
      <4> QED
        BY <2>3, <4>1, <4>2 DEF LowLevel
    <3> QED
      BY <2>5, <3>1, <3>2
  <2>8. state = "READY" => ~prefetch_safe' /\ ~safe_sync[1]
    BY <1>1, <2>1, LowUnsafe DEF StopInv
  <2> QED
    BY <1>2, <2>1, <2>7, <2>8 DEF StopInv
<1> QED
  BY <1>3, <1>4, <1>5, <1>6

LEMMA StopDac ==
  ASSUME FeedInv, PlayInv, NEW in \in DacInputs, DacEdge(in)
  PROVE  StopInv'
<1> SUFFICES ASSUME phase' = "committed" PROVE StopInv'
  BY DEF StopInv
<1>1. /\ StopInv /\ Moves(in) /\ phase = "committed" /\ PhaseInv
      /\ \/ taken(in) = "none" /\ flying' = flying
         \/ taken(in) = flying /\ flying \in Waiting /\ flying' = "none" /\ mailbox = <<>>
  BY DacFacts DEF PlayInv, FeedInv
<1>2. LowLevel' <=> LowLevel
  BY DdrSideStays DEF LowLevel
<1>3. prefetch_safe' = prefetch_safe /\ safe_sync'[1] = prefetch_safe /\ mailbox' = mailbox
  BY DdrSideStays, QuietDac
<1>4. taken(in) = "none" /\ state' # "ERROR" => state # "ERROR"
  BY <1>1 DEF Moves, Stays, LastBeat
<1>5. ASSUME flying' \in {"stop", "pause"}, state' # "ERROR"
      PROVE  flying \in {"stop", "pause"} /\ state # "ERROR"
  BY <1>1, <1>4, <1>5
<1>6. state' = "READY" => \/ state = "READY"
                          \/ flying \in {"stop", "pause"} /\ state # "ERROR" /\ mailbox = <<>>
  BY <1>1 DEF Moves, Stays, Ctl!Stoppable
<1> QED
  BY <1>1, <1>2, <1>3, <1>5, <1>6 DEF StopInv

\* The last beat of a pass leaves nothing behind, even if a cancelling command
\* is on its way.
LEMMA LastBeatDrains ==
  ASSUME FeedInv, TokenInv, FramesInv, CancelInv, NEW in \in DacInputs, DacEdge(in), LastBeat(in)
  PROVE  Drained'
<1>1. /\ taken(in) \notin Cancelling /\ ~Faulty
      /\ state = "PLAYING" /\ beat_fire(in) /\ position + 1 = total_dac
  BY DEF LastBeat
<1>2. /\ PhaseInv /\ RecordInv /\ DescriptorInv /\ phase \in {"none", "upload", "committed"}
  BY DEF FeedInv, TypeOK
<1>3. current /\ Open /\ Base = position /\ state \in Live
  BY <1>1, <1>2 DEF RecordInv, Open, Base, Live
<1>4. enabled
  BY <1>2, <1>3, PathConstants DEF enabled, DescriptorInv
<1>5. /\ fifo # <<>> /\ fifo' = Tail(fifo)
  BY <1>1, StreamTakes
<1>6. /\ Len(fifo) \in Nat /\ (fifo = <<>> <=> Len(fifo) = 0) /\ fifo \in Seq(Frames)
      /\ Len(rd_held) \in {0, 1} /\ (rd_held = <<>> <=> Len(rd_held) = 0) /\ rd_left \in Nat
      /\ position \in Nat
  BY FrameTypes
<1>7. /\ rd_error => InHand(Base) < total_dac
      /\ ~rd_error => InHand(Base) + rd_left <= total_dac
  <2>1. CASE cancelling
    <3>1. Unsent
      BY <1>1, <1>3, <1>5, <2>1 DEF CancelInv
    <3> QED
      BY <3>1 DEF Unsent
  <2>2. CASE ~cancelling
    <3>1. phase = "committed"
      BY <1>1, <1>2, <2>2 DEF PhaseInv, cancelling, Cancelling
    <3>2. total_dac = total
      BY <1>2, <1>3, <3>1 DEF DescriptorInv
    <3>3. Epoch
      BY <1>1, <1>3, <2>2, <3>1 DEF Epoch, TokenInv
    <3>4. InHand(Base) + rd_left = total => InHand(Base) + rd_left <= total
      BY <1>3, <1>6 DEF InHand
    <3> QED
      BY <3>2, <3>3, <3>4 DEF FramesInv
  <2> QED
    BY <2>1, <2>2
<1>8. /\ rd_error => position + Len(fifo) + Len(rd_held) < position + 1
      /\ ~rd_error => position + Len(fifo) + Len(rd_held) + rd_left <= position + 1
  BY <1>1, <1>3, <1>7 DEF InHand
<1>9. Len(fifo) >= 1
  BY <1>5, <1>6
<1>10. ~rd_error
  BY <1>6, <1>8, <1>9
<1>11. Len(fifo) = 1 /\ Len(rd_held) = 0 /\ rd_left = 0
  <2>1. \A p, f, h, l \in Nat : p + f + h + l <= p + 1 /\ f >= 1 => f = 1 /\ h = 0 /\ l = 0
    OBVIOUS
  <2>2. Len(rd_held) \in Nat
    BY <1>6
  <2>3. position + Len(fifo) + Len(rd_held) + rd_left <= position + 1
    BY <1>8, <1>10
  <2> QED
    BY <1>6, <1>9, <2>1, <2>2, <2>3, Zenon
<1>12. fifo' = <<>>
  BY <1>5, <1>6, <1>11, SeqTail, EmptySeq
<1> QED
  BY <1>6, <1>10, <1>11, <1>12, DdrSideStays DEF Drained

LEMMA DoneDdr ==
  ASSUME ~Pipelined, FeedInv, PlayInv, NEW in \in DdrInputs, DdrEdge(in)
  PROVE  DoneInv'
<1> SUFFICES ASSUME state' \in {"DRAINING", "DONE"} PROVE Drained'
  BY DEF DoneInv
<1>1. state \in {"DRAINING", "DONE"} /\ Drained /\ TokenInv /\ PhaseInv
  BY DacSideStays DEF PlayInv, DoneInv, FeedInv
<1>2. Plain(in) \/ Commits(in) \/ Plays(in) \/ Cancels(in)
  BY DdrCommands DEF FeedInv
<1>3. ~restart_start
  BY <1>1 DEF TokenInv, Restarting
<1>4. in.cmd # "commit"
  BY <1>1, <1>2 DEF PhaseInv, Plain, Commits, Plays, Cancels, Cancelling
<1> QED
  BY <1>1, <1>3, <1>4, DrainedStep DEF reader_start

LEMMA DoneDac ==
  ASSUME FeedInv, PlayInv, NEW in \in DacInputs, DacEdge(in)
  PROVE  DoneInv'
<1> SUFFICES ASSUME state' \in {"DRAINING", "DONE"} PROVE Drained'
  BY DEF DoneInv
<1>1. state \in {"DRAINING", "DONE"} \/ LastBeat(in)
  BY DacFacts DEF Moves, Stays
<1>2. CASE LastBeat(in)
  BY <1>2, LastBeatDrains DEF PlayInv
<1>3. CASE state \in {"DRAINING", "DONE"}
  <2>1. Drained
    BY <1>3 DEF PlayInv, DoneInv
  <2> QED
    BY <2>1, StreamTakes, DdrSideStays DEF Drained
<1> QED
  BY <1>1, <1>2, <1>3

LEMMA RestartDdr ==
  ASSUME ~Pipelined, FeedInv, PlayInv, NEW in \in DdrInputs, DdrEdge(in), NoMeet
  PROVE  RestartInv'
<1> SUFFICES ASSUME Restarting', state' = "PREFETCH" PROVE RestartInv'
  BY DEF RestartInv
<1>1. TokenInv /\ ReaderInv /\ RestartInv
  BY DEF PlayInv
<1>2. /\ state' = state /\ was_prefetch' = was_prefetch /\ settle' = settle
      /\ safe_sync' = safe_sync /\ src_toggle' = src_toggle /\ loop_restart' = loop_restart
  BY DacSideStays
<1>3. /\ restart_start' = (restart_pending /\ ~clear_pending /\ ~rd_busy /\ ~fifo_clear
                             /\ restart_guard = 0)
      /\ restart_pending' = (~restart_start' /\ (loop_restart_ddr
                               \/ (restart_pending /\ in.cmd \notin Cancelling)))
      /\ dst_sync'[1] = src_toggle /\ dst_sync'[2] = dst_sync[1]
      /\ (loop_restart_ddr' <=> dst_sync[1] # dst_sync[2]) /\ Restarting
  BY RestartOfDdr
<1>4. ~restart_start
  BY <1>1, <1>2, <1>3 DEF TokenInv, Restarting
<1>5. Plain(in) \/ Plays(in)
  <2>1. Plain(in) \/ Commits(in) \/ Plays(in) \/ Cancels(in)
    BY DdrCommands DEF FeedInv
  <2>2. ~Cancels(in)
    BY <1>3 DEF Cancels, NoMeet
  <2>3. ~Commits(in)
    BY <1>1, <1>3 DEF Commits, TokenInv
  <2> QED
    BY <2>1, <2>2, <2>3
<1>6. /\ in.cmd \notin Cancelling \cup {"commit"} /\ ~reader_start(in) /\ phase = "committed"
      /\ total' = total
  BY <1>1, <1>3, <1>4, <1>5 DEF Plain, Plays, reader_start, TokenInv, Cancelling
<1>7. /\ Reader(in) /\ Clear(in) /\ Prefetch(in) /\ Write /\ BusAnswers(in)
      /\ since < DDR_MAX /\ since' = since + 1
  BY DdrMoves
<1>8. /\ was_prefetch => settle = 0
      /\ \/ Drained
         \/ Spoiled /\ LowLevel /\ ~prefetch_safe /\ ~safe_sync[1] /\ ~safe_sync[2]
      /\ restart_pending => /\ LowLevel
                            /\ ~clear_pending =>
                                 fifo_clear \/ (prefetched = 0 /\ Quiet(restart_guard))
  BY <1>1, <1>2, <1>3 DEF RestartInv
<1>9. ~assembles(in)
  <2>1. CASE Drained
    <3>1. ~(rd_left > 0)
      BY <2>1 DEF Drained
    <3> QED
      BY <3>1 DEF assembles
  <2>2. CASE Spoiled
    BY <1>1, <1>7, <2>2 DEF assembles, draining, Spoiled, BusAnswers, ReaderInv
  <2> QED
    BY <1>8, <2>1, <2>2
<1>10. Drained => Drained'
  BY <1>6, DrainedStep
<1>11. LowLevel => LowLevel' /\ ~prefetch_safe'
  BY <1>1, <1>6, <1>9, LowStep, LowUnsafe
<1>12. Spoiled => Spoiled'
  BY <1>1, <1>6, SpoiledStep
<1>13. \/ Drained'
       \/ Spoiled' /\ LowLevel' /\ ~prefetch_safe' /\ ~safe_sync'[1] /\ ~safe_sync'[2]
  BY <1>2, <1>8, <1>10, <1>11, <1>12
<1>14. /\ clear_pending => clear_pending' \/ fifo_clear'
       /\ loop_restart_ddr => clear_pending' \/ fifo_clear'
       /\ ~clear_pending => restart_guard' = IF restart_guard > 0 THEN restart_guard - 1 ELSE 0
  BY <1>7 DEF Clear
<1>15. /\ restart_guard \in Nat /\ since \in Nat /\ DDR_MAX \in Nat \ {0}
       /\ FIFO_RESET_GUARD_CYCLES \in Nat /\ FIFO_RESET_GUARD_CYCLES >= 2 * DDR_MAX
  BY FrameTypes, PathConstants, PathTiming
<1>16. ASSUME restart_pending, ~clear_pending
       PROVE  /\ ~rd_busy /\ ~frame_fire
              /\ ~fifo_clear => prefetched = 0 /\ prefetched' = 0
  <2>1. ~rd_busy /\ rd_held = <<>> /\ ~frame_fire
    BY <1>1, <1>16 DEF ReaderInv, frame_fire
  <2>2. ~fifo_clear => prefetched = 0
    BY <1>8, <1>16
  <2> QED
    BY <1>7, <2>1, <2>2 DEF Prefetch
<1>17. ASSUME restart_pending' PROVE LowLevel'
  <2>1. CASE restart_pending
    BY <1>8, <1>11, <2>1
  <2>2. CASE loop_restart_ddr
    <3>1. prefetched' = 0
      BY <1>7, <2>2 DEF Prefetch, NewPrefetch
    <3>2. CASE Drained
      <4>1. rd_held' = <<>>
        BY <1>10, <3>2 DEF Drained
      <4>2. Len(rd_held') = 0
        BY <4>1
      <4> QED
        BY <3>1, <4>2 DEF LowLevel
    <3> QED
      BY <1>8, <1>11, <3>2
  <2> QED
    BY <1>3, <1>17, <2>1, <2>2
<1>18. ASSUME restart_pending', ~clear_pending', ~fifo_clear'
       PROVE  prefetched' = 0 /\ Quiet(restart_guard)'
  <2>1. restart_pending /\ ~clear_pending
    BY <1>3, <1>14, <1>18
  <2>2. ~prefetch_safe'
    BY <1>8, <1>11, <2>1
  <2>3. CASE fifo_clear
    <3>1. restart_guard = FIFO_RESET_GUARD_CYCLES
      BY <1>1, <2>3 DEF ReaderInv
    <3>2. prefetched' = 0
      BY <1>7, <2>3 DEF Prefetch
    <3>3. restart_guard' + since' >= 2 * DDR_MAX
      BY <1>7, <1>14, <1>15, <2>1, <3>1
    <3> QED
      BY <2>2, <3>2, <3>3 DEF Quiet
  <2>4. CASE ~fifo_clear
    <3>1. prefetched' = 0 /\ Quiet(restart_guard)
      BY <1>8, <1>16, <2>1, <2>4
    <3>2. restart_guard' + since' >= restart_guard + since
          /\ restart_guard' + since' \in Nat
      BY <1>7, <1>14, <1>15, <2>1
    <3> QED
      BY <1>2, <1>15, <2>2, <3>1, <3>2 DEF Quiet
  <2> QED
    BY <2>3, <2>4
<1>19. ASSUME restart_start'
       PROVE  /\ prefetched' = 0 /\ fifo' = <<>>
              /\ ~prefetch_safe' /\ ~safe_sync'[1] /\ ~safe_sync'[2]
  <2>1. restart_pending /\ ~clear_pending /\ ~rd_busy /\ ~fifo_clear /\ restart_guard = 0
    BY <1>3, <1>19
  <2>2. prefetched' = 0 /\ Quiet(restart_guard) /\ ~prefetch_safe' /\ ~frame_fire
    BY <1>8, <1>11, <1>16, <2>1
  <2>3. ~safe_sync[1] /\ ~safe_sync[2]
    BY <1>7, <1>15, <2>1, <2>2 DEF Quiet
  <2>4. fifo' = <<>>
    <3>1. CASE Drained
      BY <1>10, <3>1 DEF Drained
    <3>2. CASE Spoiled
      <4>1. fifo # <<>> => reset_cnt > 0
        BY <2>1, <3>2 DEF Spoiled
      <4> QED
        BY <1>7, <2>2, <4>1 DEF Write
    <3> QED
      BY <1>8, <3>1, <3>2
  <2> QED
    BY <1>2, <2>2, <2>3, <2>4
<1> QED
  BY <1>2, <1>8, <1>13, <1>17, <1>18, <1>19 DEF RestartInv

LEMMA RestartDac ==
  ASSUME FeedInv, PlayInv, NEW in \in DacInputs, DacEdge(in)
  PROVE  RestartInv'
<1> SUFFICES ASSUME Restarting', state' = "PREFETCH" PROVE RestartInv'
  BY DEF RestartInv
<1>1. /\ TokenInv /\ ReaderInv /\ SpoiledInv /\ StopInv /\ DoneInv /\ RestartInv
      /\ Moves(in) /\ PhaseInv /\ RecordInv /\ DescriptorInv
      /\ phase \in {"none", "upload", "committed"} /\ src_toggle \in BOOLEAN
      /\ loop_restart \in BOOLEAN
  BY DacFacts DEF PlayInv, FeedInv, TypeOK
<1>2. /\ src_toggle' = (src_toggle # loop_restart) /\ was_prefetch' = (state = "PREFETCH")
      /\ settle' = IF (state = "PREFETCH" /\ ~was_prefetch) \/ ~safe_sync[2] \/ ~lanes_published
                   THEN 0
                   ELSE IF settle < CDC_SETTLE_CYCLES THEN settle + 1 ELSE settle
      /\ safe_sync'[1] = prefetch_safe /\ safe_sync'[2] = safe_sync[1]
  BY QuietDac DEF DacEdge, Controller, Settle
<1>3. /\ Drained => Drained'
      /\ Spoiled => Spoiled'
      /\ LowLevel => LowLevel'
  BY StreamTakes, DdrSideStays DEF Drained, Spoiled, LowLevel
<1>4. CASE Restarting
  <2>1. state = "PREFETCH" /\ current
    BY <1>1, <1>4 DEF TokenInv, Moves, Stays, LastBeat
  <2>2. /\ was_prefetch => settle = 0
        /\ \/ Drained
           \/ Spoiled /\ LowLevel /\ ~prefetch_safe /\ ~safe_sync[1] /\ ~safe_sync[2]
        /\ restart_pending => /\ LowLevel
                              /\ ~clear_pending =>
                                   fifo_clear \/ (prefetched = 0 /\ Quiet(restart_guard))
        /\ restart_start => /\ prefetched = 0 /\ fifo = <<>>
                            /\ ~prefetch_safe /\ ~safe_sync[1] /\ ~safe_sync[2]
    BY <1>1, <1>4, <2>1 DEF RestartInv
  <2>3. settle' = 0
    <3>1. CASE Drained
      <4>1. seen = 0
        BY <3>1, FrameTypes DEF Drained
      <4>2. enabled
        BY <1>1, <2>1, PathConstants DEF enabled, DescriptorInv
      <4>3. ~lanes_published
        BY <4>1, <4>2 DEF lanes_published
      <4> QED
        BY <1>2, <4>3
    <3>2. CASE ~safe_sync[2]
      BY <1>2, <3>2
    <3> QED
      BY <2>2, <3>1, <3>2
  <2>4. restart_pending' /\ ~clear_pending' =>
          fifo_clear' \/ (prefetched' = 0 /\ Quiet(restart_guard)')
    BY <2>2, QuietDac, DdrSideStays
  <2>5. restart_pending' => LowLevel'
    BY <1>3, <2>2, DdrSideStays
  <2>6. restart_start' => /\ prefetched' = 0 /\ fifo' = <<>>
                          /\ ~prefetch_safe' /\ ~safe_sync'[1] /\ ~safe_sync'[2]
    BY <1>2, <2>2, StreamTakes, DdrSideStays
  <2>7. \/ Drained'
        \/ Spoiled' /\ LowLevel' /\ ~prefetch_safe' /\ ~safe_sync'[1] /\ ~safe_sync'[2]
    BY <1>2, <1>3, <2>2, DdrSideStays
  <2> QED
    BY <2>3, <2>4, <2>5, <2>6, <2>7 DEF RestartInv
<1>5. CASE ~Restarting
  <2>1. /\ ~loop_restart /\ src_toggle = dst_sync[1] /\ dst_sync[1] = dst_sync[2]
        /\ ~loop_restart_ddr /\ ~restart_pending /\ ~restart_start
    BY <1>5 DEF Restarting
  <2>2. src_toggle' = src_toggle
    BY <1>1, <1>2, <2>1
  <2>3. ~restart_pending' /\ ~restart_start' /\ loop_restart'
    BY <2>1, <2>2, DdrSideStays DEF Restarting, loop_restart_ddr
  <2>4. \/ LastBeat(in)
        \/ taken(in) = "play" /\ state \in {"READY", "DONE"}
    BY <1>1, <2>3 DEF Moves
  <2>5. ~was_prefetch'
    BY <1>2, <2>4 DEF LastBeat
  <2>6. \/ Drained'
        \/ Spoiled' /\ LowLevel' /\ ~prefetch_safe' /\ ~safe_sync'[1] /\ ~safe_sync'[2]
    <3>1. CASE LastBeat(in)
      BY <3>1, LastBeatDrains DEF PlayInv
    <3>2. CASE taken(in) = "play" /\ state = "DONE"
      BY <1>1, <1>3, <3>2 DEF DoneInv
    <3>3. CASE taken(in) = "play" /\ state = "READY"
      <4>1. flying = "play"
        BY <3>3, DacFacts
      <4>2. phase = "committed"
        BY <1>1, <4>1 DEF PhaseInv
      <4>3. Spoiled /\ LowLevel /\ ~prefetch_safe /\ ~safe_sync[1]
        BY <1>1, <3>3, <4>2 DEF SpoiledInv, StopInv
      <4> QED
        BY <1>2, <1>3, <4>3, DdrSideStays
    <3> QED
      BY <2>4, <3>1, <3>2, <3>3
  <2> QED
    BY <2>3, <2>5, <2>6 DEF RestartInv
<1> QED
  BY <1>4, <1>5

-----------------------------------------------------------------------------
(* The invariant and the theorems.                                          *)

LEMMA InitPlay == Init => PlayInv
<1> SUFFICES ASSUME Init PROVE PlayInv
  OBVIOUS
<1>1. /\ phase = "none" /\ state = "IDLE" /\ flying = "none" /\ ~cancelling
  BY DEF Init, flying, cancelling, Cancelling
<1>2. dst_sync[1] = FALSE /\ dst_sync[2] = FALSE
  BY DEF Init
<1>3. ~Restarting
  BY <1>2 DEF Init, Restarting, loop_restart_ddr
<1>4. TokenInv
  BY <1>3 DEF TokenInv, Restarting
<1>5. ReaderInv /\ SpoiledInv
  BY DEF Init, ReaderInv, SpoiledInv, Spoiled
<1>6. UploadInv /\ StopInv
  BY <1>1 DEF UploadInv, StopInv
<1>7. FramesInv /\ FitsInv
  BY <1>1 DEF FramesInv, FitsInv, Epoch
<1>8. CancelInv /\ DoneInv /\ RestartInv
  BY <1>1, <1>3 DEF CancelInv, DoneInv, RestartInv
<1> QED
  BY <1>4, <1>5, <1>6, <1>7, <1>8 DEF PlayInv

LEMMA PlayStays ==
  ASSUME PlayInv, UNCHANGED pathVars
  PROVE  PlayInv'
<1> USE DEF pathVars, ddrSide, writer, reader, refill, command, frames, dacSide, ctl
<1>1. flying' = flying /\ (Restarting' <=> Restarting) /\ (cancelling' <=> cancelling)
  BY DEF flying, Restarting, loop_restart_ddr, cancelling
<1>2. Base' = Base /\ (Open' <=> Open) /\ (Epoch' <=> Epoch) /\ (Spoiled' <=> Spoiled)
      /\ (LowLevel' <=> LowLevel) /\ (Drained' <=> Drained) /\ (Full' <=> Full)
  BY <1>1 DEF Base, Open, Epoch, Spoiled, LowLevel, Drained, Full, Live
<1>3. TokenInv' /\ ReaderInv' /\ SpoiledInv'
  BY <1>1, <1>2 DEF PlayInv, TokenInv, ReaderInv, SpoiledInv, loop_restart_ddr
<1>4. UploadInv'
  BY DEF PlayInv, UploadInv, Quiet
<1>5. FramesInv' /\ FitsInv'
  BY <1>1, <1>2 DEF PlayInv, FramesInv, FitsInv, FifoOrdered, HeldNext, InHand, Calm, Fits
<1>6. CancelInv'
  BY <1>1, <1>2 DEF PlayInv, CancelInv, Unsent, FifoOrdered, HeldNext, InHand, Live
<1>7. StopInv' /\ DoneInv' /\ RestartInv'
  BY <1>1, <1>2 DEF PlayInv, StopInv, DoneInv, RestartInv, Quiet
<1> QED
  BY <1>3, <1>4, <1>5, <1>6, <1>7 DEF PlayInv

LEMMA PlayStep ==
  ASSUME ~Pipelined, Racing = {}
  PROVE  FeedInv /\ PlayInv /\ [Next]_pathVars => PlayInv'
<1> SUFFICES ASSUME FeedInv, PlayInv, [Next]_pathVars PROVE PlayInv'
  OBVIOUS
<1>1. OneCommand /\ OneCommand'
  BY FeedStep DEF FeedInv
<1>2. CASE Next /\ DdrClock
  <2>1. PICK in \in DdrInputs : DdrEdge(in)
    BY <1>2 DEF DdrClock
  <2>2. NoMeet
    BY <1>1, <1>2, NoRace
  <2>3. TokenInv' /\ ReaderInv' /\ SpoiledInv' /\ UploadInv' /\ FramesInv'
    BY <2>1, <2>2, TokenDdr, ReaderDdr, SpoiledDdr, UploadDdr, FramesDdr
  <2>4. FitsInv' /\ CancelInv' /\ StopInv' /\ DoneInv' /\ RestartInv'
    BY <2>1, <2>2, FitsDdr, CancelDdr, StopDdr, DoneDdr, RestartDdr
  <2> QED
    BY <2>3, <2>4 DEF PlayInv
<1>3. CASE Next /\ DacClock
  <2>1. PICK in \in DacInputs : DacEdge(in)
    BY <1>3 DEF DacClock
  <2>2. NoMeet
    BY <1>1, <1>3, NoRace
  <2>3. ReaderInv /\ UploadInv
    BY DEF PlayInv
  <2>4. TokenInv' /\ ReaderInv' /\ SpoiledInv' /\ UploadInv' /\ FramesInv'
    BY <2>1, <2>2, <2>3, TokenDac, ReaderDac, SpoiledDac, UploadDac, FramesDac
  <2>5. FitsInv' /\ CancelInv' /\ StopInv' /\ DoneInv' /\ RestartInv'
    BY <2>1, <2>2, FitsDac, CancelDac, StopDac, DoneDac, RestartDac
  <2> QED
    BY <2>4, <2>5 DEF PlayInv
<1>4. CASE UNCHANGED pathVars
  BY <1>4, PlayStays
<1> QED
  BY <1>2, <1>3, <1>4 DEF Next

LEMMA PlayHolds ==
  ASSUME ~Pipelined, Racing = {}
  PROVE  Spec => []PlayInv
  BY FeedHolds, InitPlay, PlayStep, PTL DEF Spec

\* A controller that streams or prefetches without a command or a restart on
\* the way is in an epoch of the committed waveform.
LEMMA InEpoch ==
  ASSUME FeedInv, PlayInv, state \in Live, ~cancelling, ~Restarting, state = "PREFETCH" => current
  PROVE  Epoch /\ current /\ gen_dac = gen /\ total_dac = total /\ total \in Totals
<1>1. PhaseInv /\ RecordInv /\ DescriptorInv /\ phase \in {"none", "upload", "committed"}
  BY DEF FeedInv, TypeOK
<1>2. phase = "committed"
  BY <1>1 DEF PhaseInv, cancelling, Cancelling, Live
<1>3. current
  BY <1>1 DEF RecordInv, Live
<1> QED
  BY <1>1, <1>2, <1>3 DEF Epoch, DescriptorInv

LEMMA OrderFollows == FeedInv /\ PlayInv => PlayedInOrder
<1> SUFFICES ASSUME FeedInv, PlayInv, active, seen > 0
             PROVE  fifo[1] = [gen |-> gen_dac, n |-> position + 1]
  BY DEF PlayedInOrder
<1>1. state = "PLAYING" /\ Base = position /\ state \in Live /\ Open
  BY DEF active, playing, Base, Open, Live
<1>2. Len(fifo) \in Nat /\ seen \in 0..Len(fifo) /\ fifo # <<>> /\ 1 \in 1..Len(fifo)
  BY FrameTypes
<1>3. current /\ gen_dac = gen
  BY <1>1 DEF FeedInv, RecordInv, DescriptorInv
<1>4. FifoOrdered(Base)
  <2>1. CASE cancelling
    <3>1. Unsent
      BY <1>1, <1>2, <2>1 DEF PlayInv, CancelInv
    <3> QED
      BY <3>1 DEF Unsent
  <2>2. CASE ~cancelling
    <3>1. ~Restarting
      BY <1>1 DEF PlayInv, TokenInv
    <3>2. Epoch
      BY <1>1, <2>2, <3>1, InEpoch
    <3> QED
      BY <3>2 DEF PlayInv, FramesInv
  <2> QED
    BY <2>1, <2>2
<1> QED
  BY <1>1, <1>2, <1>3, <1>4 DEF FifoOrdered

LEMMA LevelFollows == FeedInv /\ PlayInv => PrefetchLevelExact
<1> SUFFICES ASSUME FeedInv, PlayInv, state = "PREFETCH", prefetch_done, ~disturbed
             PROVE  Len(fifo) = prefetched
  BY DEF PrefetchLevelExact
<1>1. current
  BY FeedImpliesFed DEF ControllerFed
<1>2. state \in Live /\ ~Open
  BY DEF Live, Open
<1>3. ~cancelling
  BY <1>2 DEF PlayInv, CancelInv
<1>4. ~Restarting
  BY RestartWaits DEF PlayInv
<1>5. Epoch
  BY <1>1, <1>2, <1>3, <1>4, InEpoch
<1> QED
  BY <1>2, <1>5 DEF PlayInv, FramesInv

LEMMA FitsFollows == FeedInv /\ PlayInv => FitsNeverUnderflows
<1> SUFFICES ASSUME FeedInv, PlayInv, total_dac <= FIFO_DEPTH_BEATS, ~disturbed, active, seen = 0
             PROVE  FALSE
  BY DEF FitsNeverUnderflows, underflow
<1>1. state = "PLAYING" /\ Base = position /\ state \in Live /\ Open /\ position < total_dac
  BY DEF active, playing, Base, Open, Live
<1>2. ~cancelling
  BY <1>1 DEF PlayInv, CancelInv
<1>3. ~Restarting
  BY <1>1 DEF PlayInv, TokenInv
<1>4. Epoch /\ total_dac = total
  BY <1>1, <1>2, <1>3, InEpoch
<1>5. Full /\ seen = Len(fifo)
  BY <1>1, <1>4 DEF PlayInv, FitsInv, Fits
<1>6. Len(fifo) = total - position /\ total \in Nat /\ position \in Nat
  BY <1>1, <1>5, FrameTypes DEF Full
<1> QED
  BY <1>1, <1>4, <1>5, <1>6

\* The beat the DAC is about to take is the next beat of the committed waveform,
\* in every pass, after every stop, pause, replay and replacement, for any
\* length, depth of the FIFO, latency and ratio of the clocks.
THEOREM BeatsInOrder ==
  ASSUME ~Pipelined, Racing = {}
  PROVE  Spec => []PlayedInOrder
  BY FeedHolds, PlayHolds, OrderFollows, PTL

\* The count that ends PREFETCH is the level of the FIFO: no frame of an earlier
\* pass, waveform or upload is counted or lies in front.
THEOREM PrefetchCountExact ==
  ASSUME ~Pipelined, Racing = {}
  PROVE  Spec => []PrefetchLevelExact
  BY FeedHolds, PlayHolds, LevelFollows, PTL

\* A waveform that fits the FIFO is published to its last beat before it plays:
\* no underflow, unless a command or a read error has emptied the FIFO.
THEOREM FittingNeverUnderflows ==
  ASSUME ~Pipelined, Racing = {}
  PROVE  Spec => []FitsNeverUnderflows
  BY FeedHolds, PlayHolds, FitsFollows, PTL
=============================================================================
