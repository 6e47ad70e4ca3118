---------------------------- MODULE UploadWriter ----------------------------
(***************************************************************************)
(* The waveform upload protocol: the board's packet engine                 *)
(* (waveform_upload_writer.v), the host driver that retries its requests   *)
(* (software/dr47), the network between them and the DDR behind it.        *)
(*                                                                         *)
(* A packet is one record.  DATA carries chunk idx of image img in two     *)
(* words per chunk (WORDS), offset and length follow from idx; crc says    *)
(* whether the payload still matches its checksum.  BEGIN's size, mask and  *)
(* loop count are those of its image.                                       *)
(*                                                                         *)
(* A malformed packet is answered BAD_REQUEST and changes nothing; the      *)
(* driver sends none, so the checks of the packet format are left out.      *)
(*                                                                         *)
(* External: the network keeps order but may lose, repeat and corrupt      *)
(* packets; the AXI slave stores a word at some time before it answers.    *)
(*                                                                         *)
(* History: owner is the image of the open or committed upload, executed   *)
(* the requests that took effect, effects how often each did.              *)
(***************************************************************************)
EXTENDS Naturals, Sequences, FiniteSets

Commands == {"PLAY", "PAUSE", "STOP", "ABORT", "COMMIT", "STATUS"}

CONSTANTS HostCommands, \* commands the host uses besides BEGIN and DATA
          Images,     \* what a host may upload
          SizeOf,     \* chunks of an image
          WORDS,      \* AXI writes per chunk
          Sessions,   \* session numbers a host uses, all non-zero
          RETRIES,    \* retransmissions of one request
          MAX_REQ,    \* bound: requests of one behaviour
          MAX_NET,    \* bound: packets in flight to the board
          MAX_RESP,   \* bound: responses in flight to the host
          GEN_MOD     \* modulus of the generation counter, 2^32 in the code

ASSUME WriterConstants ==
  /\ HostCommands \subseteq Commands
  /\ SizeOf \in [Images -> Nat \ {0}]
  /\ WORDS \in Nat \ {0} /\ Sessions \subseteq Nat \ {0}
  /\ RETRIES \in Nat /\ MAX_REQ \in Nat /\ MAX_NET \in Nat \ {0} /\ MAX_RESP \in Nat \ {0}
  /\ GEN_MOD \in Nat /\ GEN_MOD > 1

\* No image is larger than DDR_CAPACITY_BYTES, so there is a largest one.
ASSUME SizesAssumption ==
  \E n \in {SizeOf[i] : i \in Images} : \A i \in Images : SizeOf[i] <= n

MaxSize == CHOOSE n \in {SizeOf[i] : i \in Images} : \A i \in Images : SizeOf[i] <= n
NoImage == "none"

VARIABLES
  \* board
  state, cmd, status, duplicate, session, upload_active, committed, total,
  next_packet_seq, generation, descriptor,
  last_begin, last_data, last_commit, last_play,
  write_index, write_failed, axi, response,
  \* DDR
  ddr,
  \* network
  to_board, to_host,
  \* host
  request, tries, next_seq, uploading,
  \* history
  owner, executed, effects

engine  == <<state, cmd, status, duplicate, response>>
upload  == <<session, upload_active, committed, total, next_packet_seq, generation, descriptor>>
lasts   == <<last_begin, last_data, last_commit, last_play>>
axiWr   == <<write_index, write_failed, axi, ddr>>
board   == <<engine, upload, lasts, axiWr>>
net     == <<to_board, to_host>>
host    == <<request, tries, next_seq, uploading>>
history == <<owner, executed, effects>>
upVars  == <<board, net, host, history>>

Seqs == 1..MAX_REQ
NoReq == [op |-> "NONE", seq |-> 0, session |-> 0, img |-> NoImage, idx |-> 0, crc |-> TRUE]

-----------------------------------------------------------------------------
(* The host: one request at a time, the same packet until it is answered.   *)

Packets ==
  {[op |-> "BEGIN", seq |-> next_seq, session |-> s, img |-> i, idx |-> 0, crc |-> TRUE] :
      s \in Sessions, i \in Images}
  \cup
  {[op |-> c, seq |-> next_seq, session |-> s, img |-> NoImage, idx |-> 0, crc |-> TRUE] :
      c \in HostCommands, s \in Sessions \cup {0}}
  \cup
  {[op |-> "DATA", seq |-> next_seq, session |-> uploading.session, img |-> uploading.img,
    idx |-> k, crc |-> TRUE] :
      k \in {uploading.pos + 1} \cap 1..uploading.size}

NotUploading == [session |-> 0, img |-> NoImage, pos |-> 0, size |-> 0]

HostRequest(p) ==
  /\ request = NoReq /\ next_seq <= MAX_REQ /\ Len(to_board) < MAX_NET
  /\ request' = p /\ tries' = 0 /\ next_seq' = next_seq + 1
  /\ to_board' = Append(to_board, p)
  /\ uploading' = IF p.op = "BEGIN"
                  THEN [session |-> p.session, img |-> p.img, pos |-> 0, size |-> SizeOf[p.img]]
                  ELSE uploading
  /\ UNCHANGED <<board, to_host, history>>

\* The receive timeout expired: send the same packet again.
HostRetry ==
  /\ request # NoReq /\ tries < RETRIES /\ Len(to_board) < MAX_NET
  /\ tries' = tries + 1
  /\ to_board' = Append(to_board, request)
  /\ UNCHANGED <<board, to_host, request, next_seq, uploading, history>>

\* The last attempt timed out: the call raises and the upload is abandoned.
HostGiveUp ==
  /\ request # NoReq /\ tries = RETRIES
  /\ request' = NoReq /\ uploading' = NotUploading
  /\ UNCHANGED <<board, net, tries, next_seq, history>>

\* Only the answer to the open request is looked at; others are skipped.
HostReceive ==
  /\ to_host # <<>>
  /\ to_host' = Tail(to_host)
  /\ LET r == Head(to_host) IN
     IF r.seq = request.seq /\ r.op = request.op
     THEN /\ request' = NoReq
          /\ uploading' = IF r.op = "DATA" /\ uploading # NotUploading
                          THEN [uploading EXCEPT !.pos = @ + 1] ELSE uploading
     ELSE UNCHANGED <<request, uploading>>
  /\ UNCHANGED <<board, to_board, tries, next_seq, history>>

-----------------------------------------------------------------------------
(* The network (external).                                                  *)

Lose ==
  \/ to_board # <<>> /\ to_board' = Tail(to_board) /\ UNCHANGED <<board, to_host, host, history>>
  \/ to_host # <<>> /\ to_host' = Tail(to_host) /\ UNCHANGED <<board, to_board, host, history>>

Repeat ==
  /\ to_board # <<>> /\ Len(to_board) < MAX_NET
  /\ to_board' = <<Head(to_board)>> \o to_board
  /\ UNCHANGED <<board, to_host, host, history>>

Corrupt ==
  /\ to_board # <<>> /\ Head(to_board).op = "DATA" /\ Head(to_board).crc
  /\ to_board' = [to_board EXCEPT ![1].crc = FALSE]
  /\ UNCHANGED <<board, to_host, host, history>>

-----------------------------------------------------------------------------
(* The board.                                                               *)

\* Back to ST_IDLE.  The parsed fields are dead until the next packet.
Release == state' = "IDLE" /\ cmd' = NoReq /\ status' = "OK" /\ duplicate' = FALSE

\* A packet is parsed only by an idle engine whose response is gone; any
\* other packet is dropped whole.
Receive ==
  /\ to_board # <<>>
  /\ to_board' = Tail(to_board)
  /\ IF state = "IDLE" /\ response = <<>>
     THEN /\ state' = "FINAL" /\ cmd' = Head(to_board)
          /\ status' = "OK" /\ duplicate' = FALSE
     ELSE UNCHANGED <<state, cmd, status, duplicate>>
  /\ UNCHANGED <<response, upload, lasts, axiWr, to_host, host, history>>

Effect(req) ==
  /\ executed' = executed \cup {req.seq}
  /\ effects' = IF req.op \in {"BEGIN", "DATA", "COMMIT", "PLAY"}
                THEN [effects EXCEPT ![req.seq] = @ + 1] ELSE effects

\* The end of ST_FINAL for a request that changes nothing.
Answer(code) ==
  /\ state' = "EMIT" /\ status' = code
  /\ UNCHANGED <<cmd, duplicate, response, upload, lasts, axiWr, net, host, history>>

NoUpload == next_packet_seq' = 0 /\ descriptor' = 0 /\ upload_active' = FALSE

Accepted ==
  /\ state' = "EMIT"
  /\ Effect(cmd)
  /\ UNCHANGED <<cmd, status, duplicate, response, axiWr, net, host>>

\* Variant: a repeated BEGIN is not recognised.
begin_repeated_never == FALSE

\* A retransmission of the BEGIN that opened the upload.
begin_repeated ==
  /\ session = cmd.session /\ last_begin = cmd.seq
  /\ upload_active \/ committed

\* Variant: BEGIN leaves the position of the previous upload.
FinalBeginKeepsPosition ==
  /\ state = "FINAL" /\ cmd.op = "BEGIN"
  /\ IF begin_repeated
     THEN Answer(IF total = SizeOf[cmd.img] THEN "OK" ELSE "BAD_REQUEST")
     ELSE /\ session' = cmd.session /\ total' = SizeOf[cmd.img]
          /\ descriptor' = 0
          /\ upload_active' = TRUE /\ committed' = FALSE
          /\ last_begin' = cmd.seq /\ last_data' = 0 /\ last_play' = 0
          /\ owner' = cmd.img
          /\ Accepted
          /\ UNCHANGED <<next_packet_seq, generation, last_commit>>

FinalBegin ==
  /\ state = "FINAL" /\ cmd.op = "BEGIN"
  /\ IF begin_repeated
     THEN Answer(IF total = SizeOf[cmd.img] THEN "OK" ELSE "BAD_REQUEST")
     ELSE /\ session' = cmd.session /\ total' = SizeOf[cmd.img]
          /\ next_packet_seq' = 0 /\ descriptor' = 0
          /\ upload_active' = TRUE /\ committed' = FALSE
          /\ last_begin' = cmd.seq /\ last_data' = 0 /\ last_play' = 0
          /\ owner' = cmd.img
          /\ Accepted
          /\ UNCHANGED <<generation, last_commit>>

\* DATA: session, then repetition, then order; the checksum comes before any
\* write.  playback_state 8 (ERROR) refuses every upload step.
FinalData(playback) ==
  /\ state = "FINAL" /\ cmd.op = "DATA"
  /\ IF cmd.session # session \/ ~upload_active \/ playback = "ERROR"
     THEN Answer("BAD_REQUEST")
     ELSE IF last_data # cmd.seq /\ cmd.idx # next_packet_seq + 1
     THEN Answer("SEQUENCE")
     ELSE IF last_data # cmd.seq /\ cmd.idx > total
     THEN Answer("OFFSET")
     ELSE /\ state' = "CRC" /\ duplicate' = (last_data = cmd.seq)
          /\ UNCHANGED <<cmd, status, response, upload, lasts, axiWr, net, host, history>>

CheckCrc ==
  /\ state = "CRC"
  /\ IF ~cmd.crc
     THEN state' = "EMIT" /\ status' = "CRC" /\ UNCHANGED axiWr
     ELSE IF duplicate
     THEN state' = "EMIT" /\ UNCHANGED <<status, axiWr>>
     ELSE /\ state' = "WRITE" /\ write_index' = 1 /\ write_failed' = FALSE
          /\ axi' = "issued" /\ UNCHANGED <<status, ddr>>
  /\ UNCHANGED <<cmd, duplicate, response, upload, lasts, net, host, history>>

\* The slave stores the word it was given (external).
Payload == IF cmd.crc THEN cmd.img ELSE "garbage"

SlaveStores ==
  /\ axi = "issued"
  /\ axi' = "stored"
  /\ ddr' = [ddr EXCEPT ![cmd.idx][write_index] = Payload]
  /\ UNCHANGED <<engine, upload, lasts, write_index, write_failed, net, host, history>>

\* Variant: the late response of a timed-out write does not free the engine.
WriteResponseStuck(ok) ==
  /\ state = "WRITE" /\ axi = "stored"
  /\ IF write_failed
     THEN /\ axi' = "none"
          /\ UNCHANGED <<state, cmd, status, duplicate, write_index, write_failed, upload, last_data, executed, effects>>
     ELSE IF ~ok
     THEN /\ state' = "EMIT" /\ status' = "AXI_ERROR" /\ axi' = "none"
          /\ upload_active' = FALSE /\ committed' = FALSE
          /\ UNCHANGED <<cmd, duplicate, write_index, write_failed, session, total, next_packet_seq,
                         generation, descriptor, last_data, executed, effects>>
     ELSE IF write_index < WORDS
     THEN /\ write_index' = write_index + 1 /\ axi' = "issued"
          /\ UNCHANGED <<state, cmd, status, duplicate, write_failed, upload, last_data,
                         executed, effects>>
     ELSE /\ state' = "EMIT" /\ axi' = "none"
          /\ next_packet_seq' = next_packet_seq + 1 /\ last_data' = cmd.seq
          /\ Effect(cmd)
          /\ UNCHANGED <<cmd, status, duplicate, write_index, write_failed, session,
                         upload_active, committed, total, generation, descriptor>>
  /\ UNCHANGED <<response, last_begin, last_commit, last_play, ddr, net, host, owner>>

\* The write response: the next word, the end of the chunk, or a bus error.
WriteResponse(ok) ==
  /\ state = "WRITE" /\ axi = "stored"
  /\ IF write_failed
     THEN /\ Release /\ axi' = "none"
          /\ UNCHANGED <<write_index, write_failed, upload, last_data, executed, effects>>
     ELSE IF ~ok
     THEN /\ state' = "EMIT" /\ status' = "AXI_ERROR" /\ axi' = "none"
          /\ upload_active' = FALSE /\ committed' = FALSE
          /\ UNCHANGED <<cmd, duplicate, write_index, write_failed, session, total, next_packet_seq,
                         generation, descriptor, last_data, executed, effects>>
     ELSE IF write_index < WORDS
     THEN /\ write_index' = write_index + 1 /\ axi' = "issued"
          /\ UNCHANGED <<state, cmd, status, duplicate, write_failed, upload, last_data,
                         executed, effects>>
     ELSE /\ state' = "EMIT" /\ axi' = "none"
          /\ next_packet_seq' = next_packet_seq + 1 /\ last_data' = cmd.seq
          /\ Effect(cmd)
          /\ UNCHANGED <<cmd, status, duplicate, write_index, write_failed, session,
                         upload_active, committed, total, generation, descriptor>>
  /\ UNCHANGED <<response, last_begin, last_commit, last_play, ddr, net, host, owner>>

\* Variant: a timed-out write frees the engine at once.
WriteTimeoutForgets ==
  /\ state = "WRITE" /\ ~write_failed
  /\ state' = "IDLE" /\ write_failed' = TRUE /\ upload_active' = FALSE /\ committed' = FALSE
  /\ response' = <<[seq |-> cmd.seq, op |-> cmd.op, status |-> "TIMEOUT"]>>
  /\ UNCHANGED <<cmd, status, duplicate, session, total, next_packet_seq, generation,
                 descriptor, lasts, write_index, axi, ddr, net, host, history>>

\* A timeout cannot cancel the write: the upload is invalid, the engine stays.
WriteTimeout ==
  /\ state = "WRITE" /\ ~write_failed
  /\ write_failed' = TRUE /\ upload_active' = FALSE /\ committed' = FALSE
  /\ response' = <<[seq |-> cmd.seq, op |-> cmd.op, status |-> "TIMEOUT"]>>
  /\ UNCHANGED <<state, cmd, status, duplicate, session, total, next_packet_seq, generation,
                 descriptor, lasts, write_index, axi, ddr, net, host, history>>

\* The session word of every other command: zero, or the current session.
wrong_session == cmd.session # 0 /\ cmd.session # session

RefuseSession ==
  /\ state = "FINAL" /\ cmd.op \in Commands \ {"STATUS"} /\ wrong_session
  /\ Answer("BAD_REQUEST")

next_generation == IF generation = GEN_MOD - 1 THEN 1 ELSE generation + 1

FinalCommit(playback) ==
  /\ state = "FINAL" /\ cmd.op = "COMMIT" /\ ~wrong_session
  /\ IF committed /\ last_commit = cmd.seq THEN Answer("OK")
     ELSE IF ~upload_active \/ session = 0 \/ playback = "ERROR" THEN Answer("BAD_REQUEST")
     ELSE IF next_packet_seq # total THEN Answer("INCOMPLETE")
     ELSE /\ generation' = next_generation /\ descriptor' = next_generation
          /\ committed' = TRUE /\ upload_active' = FALSE /\ last_commit' = cmd.seq
          /\ Accepted
          /\ UNCHANGED <<session, total, next_packet_seq, last_begin, last_data, last_play, owner>>

\* Variant: a refused PLAY is remembered as played.
FinalPlayRemembersRefused(playback) ==
  /\ state = "FINAL" /\ cmd.op = "PLAY" /\ ~wrong_session
  /\ IF last_play = cmd.seq THEN Answer("OK")
     ELSE IF ~committed \/ playback # "SAFE"
     THEN /\ state' = "EMIT" /\ status' = "UNSAFE" /\ last_play' = cmd.seq
          /\ UNCHANGED <<cmd, duplicate, response, upload, last_begin, last_data, last_commit,
                         axiWr, net, host, history>>
     ELSE last_play' = cmd.seq /\ Accepted
          /\ UNCHANGED <<upload, last_begin, last_data, last_commit, owner>>

FinalPlay(playback) ==
  /\ state = "FINAL" /\ cmd.op = "PLAY" /\ ~wrong_session
  /\ IF last_play = cmd.seq THEN Answer("OK")
     ELSE IF ~committed \/ playback # "SAFE" THEN Answer("UNSAFE")
     ELSE last_play' = cmd.seq /\ Accepted
          /\ UNCHANGED <<upload, last_begin, last_data, last_commit, owner>>

FinalPauseStop(playback) ==
  /\ state = "FINAL" /\ cmd.op \in {"PAUSE", "STOP"} /\ ~wrong_session
  /\ IF upload_active /\ cmd.op = "STOP"
     THEN /\ session' = 0 /\ NoUpload /\ last_data' = 0
          /\ Accepted
          /\ UNCHANGED <<committed, total, generation, last_begin, last_commit, last_play, owner>>
     ELSE IF ~committed \/ playback = "ERROR" THEN Answer("UNSAFE")
     ELSE Accepted /\ UNCHANGED <<upload, lasts, owner>>

FinalAbort ==
  /\ state = "FINAL" /\ cmd.op = "ABORT" /\ ~wrong_session
  /\ session' = 0 /\ NoUpload /\ committed' = FALSE
  /\ last_data' = 0 /\ last_play' = 0
  /\ Accepted
  /\ UNCHANGED <<total, generation, last_begin, last_commit, owner>>

\* STATUS waits for the snapshot of the DAC domain and changes nothing.
FinalStatus ==
  /\ state = "FINAL" /\ cmd.op = "STATUS"
  /\ Answer("OK")

Emit ==
  /\ state = "EMIT"
  /\ Release
  /\ response' = <<[seq |-> cmd.seq, op |-> cmd.op, status |-> status]>>
  /\ UNCHANGED <<upload, lasts, axiWr, net, host, history>>

SendResponse ==
  /\ response # <<>> /\ Len(to_host) < MAX_RESP
  /\ to_host' = Append(to_host, Head(response)) /\ response' = <<>>
  /\ UNCHANGED <<state, cmd, status, duplicate, upload, lasts, axiWr, to_board, host, history>>

-----------------------------------------------------------------------------
Playback == {"SAFE", "OTHER", "ERROR"}

Init ==
  /\ state = "IDLE" /\ cmd = NoReq /\ status = "OK" /\ duplicate = FALSE /\ response = <<>>
  /\ session = 0 /\ upload_active = FALSE /\ committed = FALSE /\ total = 0
  /\ next_packet_seq = 0 /\ generation = 0 /\ descriptor = 0
  /\ last_begin = 0 /\ last_data = 0 /\ last_commit = 0 /\ last_play = 0
  /\ write_index = 1 /\ write_failed = FALSE /\ axi = "none"
  /\ ddr = [k \in 1..MaxSize |-> [w \in 1..WORDS |-> NoImage]]
  /\ to_board = <<>> /\ to_host = <<>>
  /\ request = NoReq /\ tries = 0 /\ next_seq = 1 /\ uploading = NotUploading
  /\ owner = NoImage /\ executed = {} /\ effects = [n \in Seqs |-> 0]

HostStep  == (\E p \in Packets : HostRequest(p)) \/ HostRetry \/ HostGiveUp \/ HostReceive
FinalStep == \/ FinalBegin \/ RefuseSession \/ FinalAbort \/ FinalStatus
             \/ \E playback \in Playback :
                  \/ FinalData(playback) \/ FinalCommit(playback)
                  \/ FinalPlay(playback) \/ FinalPauseStop(playback)
BusStep   == SlaveStores \/ \E ok \in BOOLEAN : WriteResponse(ok)
BoardStep == Receive \/ FinalStep \/ CheckCrc \/ WriteTimeout \/ Emit \/ SendResponse

Next == HostStep \/ Lose \/ Repeat \/ Corrupt \/ BoardStep \/ BusStep

Spec == Init /\ [][Next]_upVars

-----------------------------------------------------------------------------
Answers == {"OK", "BAD_REQUEST", "INCOMPLETE", "SEQUENCE", "OFFSET", "CRC", "AXI_ERROR",
            "TIMEOUT", "UNSAFE"}

TypeOK ==
  /\ state \in {"IDLE", "FINAL", "CRC", "WRITE", "EMIT"}
  /\ status \in Answers /\ duplicate \in BOOLEAN /\ Len(response) <= 1
  /\ session \in Sessions \cup {0}
  /\ upload_active \in BOOLEAN /\ committed \in BOOLEAN
  /\ next_packet_seq \in 0..total /\ total \in 0..MaxSize
  /\ generation \in 0..(GEN_MOD - 1) /\ descriptor \in 0..(GEN_MOD - 1)
  /\ {last_begin, last_data, last_commit, last_play} \subseteq 0..MAX_REQ
  /\ write_index \in 1..WORDS /\ axi \in {"none", "issued", "stored"}
  /\ ddr \in [1..MaxSize -> [1..WORDS -> Images \cup {NoImage, "garbage"}]]
  /\ owner \in Images \cup {NoImage}

\* A committed waveform is complete and is the image of the BEGIN it belongs
\* to, word for word, whatever was lost, repeated, corrupted, timed out or
\* failed on the way; and it has a descriptor the host can see.
CommittedImageWhole ==
  committed =>
    /\ \A k \in 1..SizeOf[owner], w \in 1..WORDS : ddr[k][w] = owner
    /\ descriptor # 0

\* While the response of the bus is owed the engine takes no packet, so a late
\* write can never land in the image of a later upload.
LateWriteHeld == axi # "none" => state = "WRITE" /\ ~committed

\* What is committed is what was uploaded, and no write that timed out or failed
\* can reach it any more.
UploadIsWhole == CommittedImageWhole /\ LateWriteHeld

\* Of one request's transmissions at most one takes effect: BEGIN restarts
\* the upload, DATA advances it, COMMIT and PLAY reach the playback path once.
AtMostOnce == \A n \in Seqs : effects[n] <= 1

\* The engine answers OK only to a request that has taken effect, in this
\* transmission or in an earlier one.
OkMeansExecuted ==
  \A r \in {to_host[i] : i \in 1..Len(to_host)} \cup {response[i] : i \in 1..Len(response)} :
    r.status = "OK" /\ r.op # "STATUS" => r.seq \in executed

\* Exactly once, as far as the host can tell: whatever the network repeats and
\* the host retries, a request acts at most once, and an OK means it has acted.
ActsAsAnswered == AtMostOnce /\ OkMeansExecuted

\* How far the engine is from ST_IDLE: the steps the packet in hand needs.
Distance ==
  CASE state = "IDLE" -> 0
    [] state = "EMIT" -> 1
    [] state = "WRITE" -> 2 * (WORDS - write_index) + IF axi = "issued" THEN 3 ELSE 2
    [] state = "CRC" -> 2 * WORDS + 2
    [] state = "FINAL" -> 2 * WORDS + 3

\* The engine never waits for anything but the bus: in every state but ST_IDLE
\* a step of its own or the answer of the bus is possible and brings it nearer
\* to the next packet, also after a timeout whose write is still owed.
EngineReturns ==
  state # "IDLE" => ENABLED ((FinalStep \/ CheckCrc \/ BusStep \/ Emit) /\ Distance' < Distance)
=============================================================================
