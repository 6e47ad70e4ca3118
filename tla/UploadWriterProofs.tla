------------------------- MODULE UploadWriterProofs -------------------------
(***************************************************************************)
(* Invariance proofs for UploadWriter, for every set of images, every      *)
(* length of chunk and image and any number of requests, losses and        *)
(* repetitions.  The argument is about the packets in transit: they are in *)
(* the order of their sequence numbers, none is older than a request that  *)
(* has taken effect (PacketOK), and every DATA packet belongs to the       *)
(* upload the board has open or committed.                                 *)
(*                                                                         *)
(* The second part proves MaxLength, for every set of processes and        *)
(* requests, every length of record, marker, chunk and packet: complete    *)
(* files stay complete (WholeFile), and what is in memory, in a file, in a     *)
(* chunk or on the way to the board is a piece of the record (Piece).      *)
(*                                                                         *)
(* The third part proves of HostLibrary, for every input: the limits of the *)
(* library are those of the board, an accepted request is carried out, and *)
(* a settings file is read back as it was when it was saved.               *)
(***************************************************************************)
EXTENDS UploadWriter, MaxLength, HostLibrary, WellFoundedInduction, TLAPS

Ops == {"BEGIN", "DATA"} \cup Commands
PacketRec == [op : Ops, seq : Seqs, session : Sessions \cup {0}, img : Images \cup {NoImage},
              idx : Nat, crc : BOOLEAN]
ResponseRec == [seq : Seqs, op : Ops, status : Answers]
UploadingRec == [session : Sessions, img : Images, pos : Nat, size : Nat]

TypeInv ==
  /\ state \in {"IDLE", "FINAL", "CRC", "WRITE", "EMIT"}
  /\ status \in Answers /\ duplicate \in BOOLEAN
  /\ response \in Seq(ResponseRec) /\ Len(response) <= 1
  /\ session \in Sessions \cup {0} /\ upload_active \in BOOLEAN /\ committed \in BOOLEAN
  /\ total \in 0..MaxSize /\ next_packet_seq \in 0..total
  /\ generation \in 0..(GEN_MOD - 1) /\ descriptor \in 0..(GEN_MOD - 1)
  /\ last_begin \in 0..MAX_REQ /\ last_data \in 0..MAX_REQ
  /\ last_commit \in 0..MAX_REQ /\ last_play \in 0..MAX_REQ
  /\ write_index \in 1..WORDS /\ write_failed \in BOOLEAN /\ axi \in {"none", "issued", "stored"}
  /\ ddr \in [1..MaxSize -> [1..WORDS -> Images \cup {NoImage, "garbage"}]]
  /\ to_board \in Seq(PacketRec) /\ to_host \in Seq(ResponseRec)
  /\ request \in PacketRec \cup {NoReq} /\ tries \in Nat /\ next_seq \in Nat \ {0}
  /\ uploading \in UploadingRec \cup {NotUploading}
  /\ owner \in Images \cup {NoImage} /\ executed \subseteq Seqs /\ effects \in [Seqs -> Nat]
  /\ IF state = "IDLE" THEN cmd = NoReq ELSE cmd \in PacketRec

Elems(s) == {s[i] : i \in 1..Len(s)}
Sorted(s) == \A i, j \in 1..Len(s) : i <= j => s[i].seq <= s[j].seq

\* The packets that the board may still see, and the one it has in hand.
Transit == Elems(to_board) \cup (IF request = NoReq THEN {} ELSE {request})
                           \cup (IF state = "IDLE" THEN {} ELSE {cmd})

\* The same packet, whether or not it was corrupted.
Same(p, q) == p.op = q.op /\ p.seq = q.seq /\ p.session = q.session /\ p.img = q.img /\ p.idx = q.idx

\* What the board still knows of a packet that has taken effect.
Acted(p) ==
  /\ p.op = "BEGIN" => /\ session = p.session /\ last_begin = p.seq /\ owner = p.img
                       /\ upload_active \/ committed
  /\ p.op = "DATA" => last_data = p.seq
  /\ p.op = "COMMIT" => committed /\ last_commit = p.seq
  /\ p.op = "PLAY" => last_play = p.seq

\* A packet in transit is not older than any request that has taken effect, and
\* its DATA are of the upload that the board has opened.
PacketOK(p) ==
  /\ \A n \in executed : n <= p.seq
  /\ p.op = "BEGIN" => p.img \in Images
  /\ p.op = "DATA" => owner = p.img
  /\ p.seq \in executed => Acted(p)

\* Two packets in transit: a BEGIN before a DATA has opened the upload of the DATA.
PairOK(p, q) ==
  /\ p.seq = q.seq => Same(p, q)
  /\ p.op = "BEGIN" /\ q.op = "DATA" /\ p.seq < q.seq => p.seq \in executed

OrderInv ==
  /\ Sorted(to_board)
  /\ state # "IDLE" => \A p \in Transit : cmd.seq <= p.seq
  /\ request # NoReq => \A p \in Transit : p.seq <= request.seq
  /\ \A p \in Transit : p.seq < next_seq
  /\ \A n \in executed : n < next_seq

\* The host sends DATA only for the upload that the board has opened.
HostInv ==
  IF request.op = "BEGIN" THEN uploading.img = request.img
  ELSE uploading # NotUploading =>
         owner = uploading.img /\ \A p \in Transit : p.op = "BEGIN" => p.seq \in executed

TransitInv ==
  (\A p \in Transit : PacketOK(p)) /\ \A p, q \in Transit : PairOK(p, q)

KnownSeq(n) == n = 0 \/ n \in executed

\* BEGIN is never refused for its order, so its every answer tells that it acted.
AnswerOK(op, seq, code) ==
  op = "BEGIN" \/ (code = "OK" /\ op # "STATUS") => seq \in executed
EmitOK == state = "EMIT" => AnswerOK(cmd.op, cmd.seq, status)

\* What has taken effect, and what is answered.
AnswerInv ==
  /\ KnownSeq(last_begin) /\ KnownSeq(last_data) /\ KnownSeq(last_commit) /\ KnownSeq(last_play)
  /\ \A n \in Seqs : effects[n] <= 1 /\ (n \notin executed => effects[n] = 0)
  /\ state \in {"FINAL", "CRC", "WRITE"} => status = "OK"
  /\ EmitOK
  /\ \A r \in Elems(to_host) \cup Elems(response) : AnswerOK(r.op, r.seq, r.status)

\* The words below the position of the open upload are those of its image.
Stored(n) == \A k \in 1..n, w \in 1..WORDS : ddr[k][w] = owner

ImageInv ==
  /\ upload_active \/ committed => owner \in Images /\ total = SizeOf[owner]
  /\ upload_active => ~committed /\ Stored(next_packet_seq)
  /\ committed => Stored(total) /\ descriptor # 0
  /\ state = "CRC" =>
       /\ cmd.op = "DATA"
       /\ IF duplicate THEN last_data = cmd.seq
          ELSE upload_active /\ last_data # cmd.seq /\ cmd.idx = next_packet_seq + 1 /\ cmd.idx <= total
  /\ state = "WRITE" <=> axi # "none"
  /\ state = "WRITE" =>
       /\ cmd.op = "DATA" /\ cmd.idx \in 1..MaxSize /\ ~committed
       /\ IF write_failed THEN ~upload_active
          ELSE /\ upload_active /\ last_data # cmd.seq /\ cmd.crc
               /\ cmd.idx = next_packet_seq + 1 /\ cmd.idx <= total
               /\ \A w \in 1..WORDS : (w < write_index \/ (w = write_index /\ axi = "stored"))
                                         => ddr[cmd.idx][w] = owner

IInv == TypeInv /\ OrderInv /\ HostInv /\ TransitInv /\ AnswerInv /\ ImageInv

-----------------------------------------------------------------------------
(* Sizes, sequences and packets.                                            *)

\* The largest image is one of the images.
LEMMA SizeFacts ==
  /\ MaxSize \in Nat
  /\ \A i \in Images : SizeOf[i] \in 1..MaxSize
<1> DEFINE Largest(n) == \A i \in Images : SizeOf[i] <= n
<1>1. \E n \in {SizeOf[i] : i \in Images} : Largest(n)
  BY SizesAssumption
<1>2. MaxSize \in {SizeOf[i] : i \in Images} /\ Largest(MaxSize)
  BY <1>1 DEF MaxSize
<1> QED BY <1>2, WriterConstants

\* Appending the newest packet keeps the order.
LEMMA AppendPacket ==
  ASSUME NEW Recs, NEW s \in Seq(Recs), NEW p \in Recs
  PROVE  /\ Append(s, p) \in Seq(Recs) /\ Elems(Append(s, p)) = Elems(s) \cup {p}
         /\ (Sorted(s) /\ (\A q \in Elems(s) : q.seq <= p.seq) /\ p.seq \in Nat)
              => Sorted(Append(s, p))
<1> DEFINE t == Append(s, p)
<1>1. /\ t \in Seq(Recs) /\ Len(t) = Len(s) + 1 /\ Len(s) \in Nat
      /\ t[Len(s) + 1] = p /\ \A i \in 1..Len(s) : t[i] = s[i]
  OBVIOUS
<1> HIDE DEF t
<1>2. Elems(t) = Elems(s) \cup {p}
  <2>1. 1..Len(t) = 1..Len(s) \cup {Len(s) + 1}
    BY <1>1
  <2> QED BY <1>1, <2>1 DEF Elems
<1>3. ASSUME Sorted(s), \A q \in Elems(s) : q.seq <= p.seq, p.seq \in Nat
      PROVE  Sorted(t)
  <2> SUFFICES ASSUME NEW i \in 1..Len(t), NEW j \in 1..Len(t), i <= j
               PROVE  t[i].seq <= t[j].seq
    BY DEF Sorted
  <2>1. CASE j \in 1..Len(s)
    BY <2>1, <1>1, <1>3 DEF Sorted
  <2>2. CASE j = Len(s) + 1 /\ i \in 1..Len(s)
    <3>1. s[i] \in Elems(s)
      BY <2>2 DEF Elems
    <3> QED BY <2>2, <3>1, <1>1, <1>3
  <2>3. CASE j = Len(s) + 1 /\ i = Len(s) + 1
    BY <2>3, <1>1, <1>3
  <2> QED BY <1>1, <2>1, <2>2, <2>3
<1> QED BY <1>1, <1>2, <1>3 DEF t

\* Taking the oldest packet keeps the order.
LEMMA TakePacket ==
  ASSUME NEW Recs, NEW s \in Seq(Recs), s # <<>>
  PROVE  /\ Tail(s) \in Seq(Recs) /\ Head(s) \in Elems(s) /\ Elems(s) \subseteq Recs
         /\ Elems(Tail(s)) \subseteq Elems(s)
         /\ Sorted(s) => Sorted(Tail(s)) /\ \A q \in Elems(s) : Head(s).seq <= q.seq
<1> DEFINE t == Tail(s)
<1>1. /\ t \in Seq(Recs) /\ Len(s) \in Nat \ {0} /\ Len(t) = Len(s) - 1
      /\ Head(s) = s[1] /\ \A i \in 1..Len(t) : t[i] = s[i + 1]
  OBVIOUS
<1> HIDE DEF t
<1>2. Head(s) \in Elems(s)
  <2>1. 1 \in 1..Len(s)
    BY <1>1
  <2> QED BY <1>1, <2>1 DEF Elems
<1>3. Elems(t) \subseteq Elems(s)
  <2> SUFFICES ASSUME NEW i \in 1..Len(t) PROVE t[i] \in Elems(s)
    BY DEF Elems
  <2>1. i + 1 \in 1..Len(s) /\ t[i] = s[i + 1]
    BY <1>1
  <2> QED BY <2>1 DEF Elems
<1>4. Elems(s) \subseteq Recs
  BY DEF Elems
<1>5. ASSUME Sorted(s) PROVE Sorted(t)
  <2> SUFFICES ASSUME NEW i \in 1..Len(t), NEW j \in 1..Len(t), i <= j
               PROVE  t[i].seq <= t[j].seq
    BY DEF Sorted
  <2>1. i + 1 \in 1..Len(s) /\ j + 1 \in 1..Len(s) /\ i + 1 <= j + 1
    BY <1>1
  <2>2. s[i + 1].seq <= s[j + 1].seq
    BY <2>1, <1>5 DEF Sorted
  <2> QED BY <2>2, <1>1
<1>6. ASSUME Sorted(s), NEW q \in Elems(s) PROVE Head(s).seq <= q.seq
  <2>1. PICK j \in 1..Len(s) : q = s[j]
    BY DEF Elems
  <2>2. 1 \in 1..Len(s) /\ 1 <= j
    BY <1>1, <2>1
  <2> QED BY <1>1, <1>6, <2>1, <2>2 DEF Sorted
<1> QED BY <1>1, <1>2, <1>3, <1>4, <1>5, <1>6 DEF t

\* A repeated packet is where the first one is.
LEMMA RepeatPacket ==
  ASSUME NEW s \in Seq(PacketRec), s # <<>>
  PROVE  /\ <<Head(s)>> \o s \in Seq(PacketRec) /\ Elems(<<Head(s)>> \o s) = Elems(s)
         /\ Sorted(s) => Sorted(<<Head(s)>> \o s)
<1> DEFINE t == <<Head(s)>> \o s
<1>0. Head(s) \in PacketRec /\ Head(s) = s[1]
  OBVIOUS
<1>1. /\ t \in Seq(PacketRec) /\ Len(s) \in Nat \ {0} /\ Len(t) = Len(s) + 1
      /\ t[1] = s[1] /\ \A i \in 2..Len(t) : t[i] = s[i - 1]
  BY <1>0
<1> HIDE DEF t
<1> DEFINE old(i) == IF i = 1 THEN 1 ELSE i - 1
<1>2. \A i \in 1..Len(t) : old(i) \in 1..Len(s) /\ t[i] = s[old(i)]
  BY <1>1
<1>3. \A i, j \in 1..Len(t) : i <= j => old(i) <= old(j)
  BY <1>1
<1>4. \A j \in 1..Len(s) : j + 1 \in 1..Len(t) /\ t[j + 1] = s[j]
  BY <1>1
<1> HIDE DEF old
<1>5. Elems(t) = Elems(s)
  <2>1. ASSUME NEW i \in 1..Len(t) PROVE t[i] \in Elems(s)
    BY <1>2 DEF Elems
  <2>2. ASSUME NEW j \in 1..Len(s) PROVE s[j] \in Elems(t)
    <3>1. j + 1 \in 1..Len(t) /\ t[j + 1] = s[j]
      BY <1>4
    <3> QED BY <3>1 DEF Elems
  <2> QED BY <2>1, <2>2 DEF Elems
<1>6. Sorted(s) => Sorted(t)
  BY <1>2, <1>3 DEF Sorted
<1> QED BY <1>1, <1>5, <1>6 DEF t

\* Corruption changes nothing but the checksum of one packet.
LEMMA CorruptPacket ==
  ASSUME NEW s \in Seq(PacketRec), s # <<>>
  PROVE  LET t == [s EXCEPT ![1].crc = FALSE] IN
         /\ t \in Seq(PacketRec) /\ (Sorted(s) => Sorted(t))
         /\ \A p \in Elems(t) : \E q \in Elems(s) : Same(p, q)
<1> DEFINE c == [s[1] EXCEPT !.crc = FALSE]
           t == [s EXCEPT ![1] = c]
<1>1. s[1] \in PacketRec /\ 1 \in 1..Len(s) /\ Len(s) \in Nat
  OBVIOUS
<1>2. c \in PacketRec /\ Same(c, s[1])
  BY <1>1 DEF PacketRec, Same
<1> HIDE DEF c
<1>3. t \in Seq(PacketRec) /\ Len(t) = Len(s)
  BY <1>1, <1>2
<1>4. \A i \in 1..Len(s) : t[i] = IF i = 1 THEN c ELSE s[i]
  BY <1>1
<1> HIDE DEF t
<1>5. \A i \in 1..Len(t) : Same(t[i], s[i])
  BY <1>2, <1>3, <1>4 DEF Same
<1>6. \A p \in Elems(t) : \E q \in Elems(s) : Same(p, q)
  BY <1>3, <1>5 DEF Elems
<1>7. Sorted(s) => Sorted(t)
  BY <1>3, <1>5 DEF Sorted, Same
<1>8. t = [s EXCEPT ![1].crc = FALSE]
  BY DEF t, c
<1> QED BY <1>3, <1>6, <1>7, <1>8

\* Every packet in transit is a packet.
LEMMA TransitFacts ==
  ASSUME TypeInv
  PROVE  /\ Transit \subseteq PacketRec
         /\ request # NoReq => request \in Transit
         /\ state # "IDLE" => cmd \in Transit /\ cmd \in PacketRec
         /\ \A n \in executed : n \in Nat /\ n # 0
         /\ \A p \in Transit : p.seq \in Nat /\ p.seq # 0
<1>1. Elems(to_board) \subseteq PacketRec
  BY DEF TypeInv, Elems
<1>2. Transit \subseteq PacketRec
  BY <1>1 DEF TypeInv, Transit
<1>3. \A p \in PacketRec : p.seq \in Nat /\ p.seq # 0
  BY WriterConstants DEF PacketRec, Seqs
<1>4. \A n \in executed : n \in Nat /\ n # 0
  BY WriterConstants DEF TypeInv, Seqs
<1> QED BY <1>2, <1>3, <1>4 DEF Transit, TypeInv

-----------------------------------------------------------------------------
(* Types.                                                                   *)

\* The types that the steps of the host disturb.
HostTypes ==
  /\ to_board \in Seq(PacketRec) /\ to_host \in Seq(ResponseRec)
  /\ request \in PacketRec \cup {NoReq} /\ tries \in Nat /\ next_seq \in Nat \ {0}
  /\ uploading \in UploadingRec \cup {NotUploading}

\* A step of the host or of the network keeps the types.
LEMMA HostTypeStep ==
  ASSUME TypeInv, HostTypes', UNCHANGED <<board, history>>
  PROVE  TypeInv'
BY DEF TypeInv, HostTypes, board, engine, upload, lasts, axiWr, history

\* A request has the type of a packet.
LEMMA RequestType ==
  ASSUME TypeInv, NEW p \in Packets, next_seq <= MAX_REQ
  PROVE  p \in PacketRec /\ p.seq = next_seq
<1>0. next_seq \in Seqs /\ HostCommands \subseteq Ops
  BY WriterConstants DEF TypeInv, Seqs, Ops
<1>1. ASSUME NEW s \in Sessions, NEW i \in Images,
             p = [op |-> "BEGIN", seq |-> next_seq, session |-> s, img |-> i, idx |-> 0, crc |-> TRUE]
      PROVE  p \in PacketRec /\ p.seq = next_seq
  BY <1>0, <1>1 DEF PacketRec, Ops
<1>2. ASSUME NEW c \in HostCommands, NEW s \in Sessions \cup {0},
             p = [op |-> c, seq |-> next_seq, session |-> s, img |-> NoImage, idx |-> 0, crc |-> TRUE]
      PROVE  p \in PacketRec /\ p.seq = next_seq
  BY <1>0, <1>2 DEF PacketRec
<1>3. ASSUME NEW k \in {uploading.pos + 1} \cap 1..uploading.size,
             p = [op |-> "DATA", seq |-> next_seq, session |-> uploading.session,
                  img |-> uploading.img, idx |-> k, crc |-> TRUE]
      PROVE  p \in PacketRec /\ p.seq = next_seq
  <2>1. uploading.size >= 1
    BY <1>3 DEF TypeInv, UploadingRec, NotUploading
  <2>2. uploading \in UploadingRec
    BY <2>1 DEF TypeInv, NotUploading
  <2>3. k \in Nat
    BY <2>2 DEF UploadingRec
  <2> QED BY <1>0, <1>3, <2>2, <2>3 DEF PacketRec, UploadingRec, Ops
<1> QED BY <1>1, <1>2, <1>3 DEF Packets

\* The host's steps keep the types.
LEMMA HostTyped ==
  ASSUME TypeInv, HostStep
  PROVE  TypeInv'
<1>0. HostTypes
  BY DEF TypeInv, HostTypes
<1>1. ASSUME NEW p \in Packets, HostRequest(p) PROVE TypeInv'
  <2>1. p \in PacketRec
    BY <1>1, RequestType DEF HostRequest
  <2>2. to_board' \in Seq(PacketRec)
    BY <1>0, <1>1, <2>1, AppendPacket DEF HostRequest, HostTypes
  <2>3. uploading' \in UploadingRec \cup {NotUploading}
    <3>1. CASE p.op = "BEGIN"
      <4>1. p.session \in Sessions /\ p.img \in Images
        BY <3>1, WriterConstants DEF Packets, Commands
      <4> QED BY <1>1, <3>1, <4>1, WriterConstants DEF HostRequest, UploadingRec
    <3>2. CASE p.op # "BEGIN"
      BY <1>0, <1>1, <3>2 DEF HostRequest, HostTypes
    <3> QED BY <3>1, <3>2
  <2>4. HostTypes'
    BY <1>0, <1>1, <2>1, <2>2, <2>3 DEF HostRequest, HostTypes
  <2> QED BY <1>1, <2>4, HostTypeStep DEF HostRequest
<1>2. CASE HostRetry
  <2>1. to_board' \in Seq(PacketRec)
    BY <1>0, <1>2, AppendPacket DEF HostRetry, HostTypes
  <2>2. HostTypes'
    BY <1>0, <1>2, <2>1 DEF HostRetry, HostTypes
  <2> QED BY <1>2, <2>2, HostTypeStep DEF HostRetry
<1>3. CASE HostGiveUp
  <2>1. HostTypes'
    BY <1>0, <1>3 DEF HostGiveUp, HostTypes, net
  <2> QED BY <1>3, <2>1, HostTypeStep DEF HostGiveUp
<1>4. CASE HostReceive
  <2>1. to_host' \in Seq(ResponseRec)
    BY <1>0, <1>4, TakePacket DEF HostReceive, HostTypes
  <2>2. uploading # NotUploading => [uploading EXCEPT !.pos = @ + 1] \in UploadingRec
    BY <1>0 DEF HostTypes, UploadingRec
  <2>3. HostTypes'
    BY <1>0, <1>4, <2>1, <2>2 DEF HostReceive, HostTypes
  <2> QED BY <1>4, <2>3, HostTypeStep DEF HostReceive
<1> QED BY <1>1, <1>2, <1>3, <1>4 DEF HostStep

\* The network keeps the types.
LEMMA NetworkTyped ==
  ASSUME TypeInv, Lose \/ Repeat \/ Corrupt
  PROVE  TypeInv'
<1>0. HostTypes
  BY DEF TypeInv, HostTypes
<1>1. CASE Lose
  <2>1. to_board # <<>> => Tail(to_board) \in Seq(PacketRec)
    BY <1>0, TakePacket DEF HostTypes
  <2>2. to_host # <<>> => Tail(to_host) \in Seq(ResponseRec)
    BY <1>0, TakePacket DEF HostTypes
  <2>3. HostTypes'
    BY <1>0, <1>1, <2>1, <2>2 DEF Lose, HostTypes, host
  <2> QED BY <1>1, <2>3, HostTypeStep DEF Lose
<1>2. CASE Repeat
  <2>1. to_board' \in Seq(PacketRec)
    BY <1>0, <1>2, RepeatPacket DEF Repeat, HostTypes
  <2>2. HostTypes'
    BY <1>0, <1>2, <2>1 DEF Repeat, HostTypes, host
  <2> QED BY <1>2, <2>2, HostTypeStep DEF Repeat
<1>3. CASE Corrupt
  <2>1. to_board' \in Seq(PacketRec)
    BY <1>0, <1>3, CorruptPacket DEF Corrupt, HostTypes
  <2>2. HostTypes'
    BY <1>0, <1>3, <2>1 DEF Corrupt, HostTypes, host
  <2> QED BY <1>3, <2>2, HostTypeStep DEF Corrupt
<1> QED BY <1>1, <1>2, <1>3

\* The types that the steps of the board disturb, in two parts.
EngineTypes ==
  /\ state \in {"IDLE", "FINAL", "CRC", "WRITE", "EMIT"}
  /\ status \in Answers /\ duplicate \in BOOLEAN
  /\ response \in Seq(ResponseRec) /\ Len(response) <= 1
  /\ IF state = "IDLE" THEN cmd = NoReq ELSE cmd \in PacketRec
  /\ write_index \in 1..WORDS /\ write_failed \in BOOLEAN /\ axi \in {"none", "issued", "stored"}
  /\ ddr \in [1..MaxSize -> [1..WORDS -> Images \cup {NoImage, "garbage"}]]
  /\ to_board \in Seq(PacketRec) /\ to_host \in Seq(ResponseRec)

UploadTypes ==
  /\ session \in Sessions \cup {0} /\ upload_active \in BOOLEAN /\ committed \in BOOLEAN
  /\ total \in 0..MaxSize /\ next_packet_seq \in 0..total
  /\ generation \in 0..(GEN_MOD - 1) /\ descriptor \in 0..(GEN_MOD - 1)
  /\ last_begin \in 0..MAX_REQ /\ last_data \in 0..MAX_REQ
  /\ last_commit \in 0..MAX_REQ /\ last_play \in 0..MAX_REQ
  /\ owner \in Images \cup {NoImage} /\ executed \subseteq Seqs /\ effects \in [Seqs -> Nat]

\* A step of the board keeps the types.
LEMMA BoardTypeStep ==
  ASSUME TypeInv, EngineTypes', UploadTypes', UNCHANGED host
  PROVE  TypeInv'
BY DEF TypeInv, EngineTypes, UploadTypes, host

\* What an effect does to the history.
LEMMA EffectTyped ==
  ASSUME TypeInv, NEW p \in PacketRec, Effect(p)
  PROVE  executed' \subseteq Seqs /\ effects' \in [Seqs -> Nat]
<1>1. p.seq \in Seqs
  BY DEF PacketRec
<1>2. effects \in [Seqs -> Nat] /\ executed \subseteq Seqs
  BY DEF TypeInv
<1> QED BY <1>1, <1>2 DEF Effect

\* The decisions of ST_FINAL keep the types.
LEMMA FinalTyped ==
  ASSUME TypeInv, FinalStep, cmd.op = "BEGIN" => cmd.img \in Images
  PROVE  TypeInv'
<1>0. EngineTypes /\ UploadTypes /\ MaxSize \in Nat
  BY SizeFacts DEF TypeInv, EngineTypes, UploadTypes
<1>1. ASSUME NEW code \in Answers, Answer(code), state # "IDLE" PROVE TypeInv'
  <2>1. EngineTypes'
    BY <1>0, <1>1 DEF Answer, EngineTypes, axiWr, net
  <2>2. UploadTypes'
    BY <1>0, <1>1 DEF Answer, UploadTypes, upload, lasts, history
  <2> QED BY <1>1, <2>1, <2>2, BoardTypeStep DEF Answer
<1>2. ASSUME Accepted, state # "IDLE",
             session' \in Sessions \cup {0}, upload_active' \in BOOLEAN, committed' \in BOOLEAN,
             total' \in 0..MaxSize, next_packet_seq' \in 0..total',
             generation' \in 0..(GEN_MOD - 1), descriptor' \in 0..(GEN_MOD - 1),
             last_begin' \in 0..MAX_REQ, last_data' \in 0..MAX_REQ,
             last_commit' \in 0..MAX_REQ, last_play' \in 0..MAX_REQ,
             owner' \in Images \cup {NoImage}
      PROVE  TypeInv'
  <2>0. cmd \in PacketRec
    BY <1>0, <1>2 DEF EngineTypes
  <2>1. EngineTypes'
    BY <1>0, <1>2, <2>0 DEF Accepted, EngineTypes, axiWr, net
  <2>2. executed' \subseteq Seqs /\ effects' \in [Seqs -> Nat]
    BY <1>2, <2>0, EffectTyped DEF Accepted
  <2>3. UploadTypes'
    BY <1>2, <2>2 DEF UploadTypes
  <2> QED BY <1>2, <2>1, <2>3, BoardTypeStep DEF Accepted
<1>3. {"OK", "BAD_REQUEST", "INCOMPLETE", "SEQUENCE", "OFFSET", "UNSAFE"} \subseteq Answers
  BY DEF Answers
<1>4. CASE FinalBegin
  <2>1. CASE begin_repeated
    BY <1>1, <1>3, <1>4, <2>1 DEF FinalBegin
  <2>2. CASE ~begin_repeated
    <3>1. cmd \in PacketRec /\ state # "IDLE" /\ cmd.seq \in 0..MAX_REQ
      BY <1>0, <1>4, WriterConstants DEF FinalBegin, EngineTypes, PacketRec, Seqs
    <3>2. SizeOf[cmd.img] \in 0..MaxSize /\ cmd.session \in Sessions \cup {0}
      BY <1>4, <3>1, SizeFacts DEF FinalBegin, PacketRec
    <3>3. 0 \in 0..(GEN_MOD - 1) /\ 0 \in 0..total' /\ 0 \in 0..MAX_REQ
      BY <1>4, <2>2, <3>2, <1>0, WriterConstants DEF FinalBegin
    <3> QED
      BY <1>0, <1>2, <1>4, <2>2, <3>1, <3>2, <3>3 DEF FinalBegin, UploadTypes
  <2> QED BY <2>1, <2>2
<1>5. CASE RefuseSession \/ FinalStatus
  BY <1>1, <1>3, <1>5 DEF RefuseSession, FinalStatus
<1>6. CASE FinalAbort
  <2>1. 0 \in 0..(GEN_MOD - 1) /\ 0 \in 0..total /\ 0 \in 0..MAX_REQ
    BY <1>0, WriterConstants DEF UploadTypes
  <2> QED BY <1>0, <1>2, <1>6, <2>1 DEF FinalAbort, NoUpload, UploadTypes
<1>7. ASSUME NEW playback \in Playback, FinalData(playback) PROVE TypeInv'
  <2>1. CASE state' = "CRC" /\ duplicate' = (last_data = cmd.seq)
             /\ UNCHANGED <<cmd, status, response, upload, lasts, axiWr, net, host, history>>
    <3>1. EngineTypes'
      BY <1>0, <1>7, <2>1 DEF FinalData, EngineTypes, axiWr, net
    <3>2. UploadTypes'
      BY <1>0, <2>1 DEF UploadTypes, upload, lasts, history
    <3> QED BY <2>1, <3>1, <3>2, BoardTypeStep
  <2> QED BY <1>1, <1>3, <1>7, <2>1 DEF FinalData
<1>8. ASSUME NEW playback \in Playback, FinalCommit(playback) PROVE TypeInv'
  <2>1. CASE Accepted
    <3>1. next_generation \in 0..(GEN_MOD - 1)
      BY <1>0, WriterConstants DEF UploadTypes, next_generation
    <3>2. cmd.seq \in 0..MAX_REQ
      BY <1>0, <1>8, WriterConstants DEF FinalCommit, EngineTypes, PacketRec, Seqs
    <3>3. CASE Answer("OK") \/ Answer("BAD_REQUEST") \/ Answer("INCOMPLETE")
      BY <1>1, <1>3, <1>8, <3>3 DEF FinalCommit
    <3>4. CASE ~(Answer("OK") \/ Answer("BAD_REQUEST") \/ Answer("INCOMPLETE"))
      BY <1>0, <1>2, <1>8, <2>1, <3>1, <3>2, <3>4 DEF FinalCommit, UploadTypes
    <3> QED BY <3>3, <3>4
  <2> QED BY <1>1, <1>3, <1>8, <2>1 DEF FinalCommit
<1>9. ASSUME NEW playback \in Playback, FinalPlay(playback) PROVE TypeInv'
  <2>1. CASE last_play = cmd.seq \/ (~committed \/ playback # "SAFE")
    BY <1>1, <1>3, <1>9, <2>1 DEF FinalPlay
  <2>2. CASE ~(last_play = cmd.seq \/ (~committed \/ playback # "SAFE"))
    <3>1. cmd.seq \in 0..MAX_REQ
      BY <1>0, <1>9, WriterConstants DEF FinalPlay, EngineTypes, PacketRec, Seqs
    <3> QED BY <1>0, <1>2, <1>9, <2>2, <3>1 DEF FinalPlay, UploadTypes, upload
  <2> QED BY <2>1, <2>2
<1>10. ASSUME NEW playback \in Playback, FinalPauseStop(playback) PROVE TypeInv'
  <2>1. CASE upload_active /\ cmd.op = "STOP"
    <3>1. 0 \in 0..(GEN_MOD - 1) /\ 0 \in 0..total /\ 0 \in 0..MAX_REQ
      BY <1>0, WriterConstants DEF UploadTypes
    <3> QED BY <1>0, <1>2, <1>10, <2>1, <3>1 DEF FinalPauseStop, NoUpload, UploadTypes
  <2>2. CASE ~(upload_active /\ cmd.op = "STOP") /\ (~committed \/ playback = "ERROR")
    BY <1>1, <1>3, <1>10, <2>2 DEF FinalPauseStop
  <2>3. CASE ~(upload_active /\ cmd.op = "STOP") /\ ~(~committed \/ playback = "ERROR")
    BY <1>0, <1>2, <1>10, <2>3 DEF FinalPauseStop, UploadTypes, upload, lasts
  <2> QED BY <2>1, <2>2, <2>3
<1> QED BY <1>4, <1>5, <1>6, <1>7, <1>8, <1>9, <1>10 DEF FinalStep

\* The engine's other steps, and those of the bus, keep the types.
LEMMA BusTyped ==
  ASSUME TypeInv, Receive \/ CheckCrc \/ WriteTimeout \/ Emit \/ SendResponse \/ BusStep,
         state = "WRITE" <=> axi # "none",
         state = "WRITE" /\ ~write_failed => next_packet_seq + 1 <= total
  PROVE  TypeInv'
<1>0. EngineTypes /\ UploadTypes /\ MaxSize \in Nat
  BY SizeFacts DEF TypeInv, EngineTypes, UploadTypes
<1>1. ASSUME EngineTypes', UNCHANGED <<upload, lasts, host, history>> PROVE TypeInv'
  <2>1. UploadTypes'
    BY <1>0, <1>1 DEF UploadTypes, upload, lasts, history
  <2> QED BY <1>1, <2>1, BoardTypeStep
<1>2. ASSUME state # "IDLE", NEW code \in Answers
      PROVE  /\ [seq |-> cmd.seq, op |-> cmd.op, status |-> code] \in ResponseRec
             /\ <<[seq |-> cmd.seq, op |-> cmd.op, status |-> code]>> \in Seq(ResponseRec)
             /\ Len(<<[seq |-> cmd.seq, op |-> cmd.op, status |-> code]>>) = 1
  <2>1. cmd \in PacketRec
    BY <1>0, <1>2 DEF EngineTypes
  <2>2. [seq |-> cmd.seq, op |-> cmd.op, status |-> code] \in ResponseRec
    BY <1>2, <2>1 DEF PacketRec, ResponseRec
  <2> QED BY <2>2
<1>3. CASE Receive
  <2>1. Tail(to_board) \in Seq(PacketRec) /\ Head(to_board) \in PacketRec
    BY <1>0, <1>3, TakePacket DEF Receive, EngineTypes
  <2>2. EngineTypes'
    <3>1. CASE state = "IDLE" /\ response = <<>>
      BY <1>0, <1>3, <2>1, <3>1 DEF Receive, EngineTypes, axiWr, Answers
    <3>2. CASE ~(state = "IDLE" /\ response = <<>>)
      BY <1>0, <1>3, <2>1, <3>2 DEF Receive, EngineTypes, axiWr
    <3> QED BY <3>1, <3>2
  <2> QED BY <1>1, <1>3, <2>2 DEF Receive
<1>4. CASE CheckCrc
  <2>1. EngineTypes'
    <3>1. 1 \in 1..WORDS
      BY WriterConstants
    <3>2. CASE ~cmd.crc \/ duplicate
      BY <1>0, <1>4, <3>2 DEF CheckCrc, EngineTypes, axiWr, net, Answers
    <3>3. CASE ~(~cmd.crc \/ duplicate)
      BY <1>0, <1>4, <3>1, <3>3 DEF CheckCrc, EngineTypes, axiWr, net
    <3> QED BY <3>2, <3>3
  <2> QED BY <1>1, <1>4, <2>1 DEF CheckCrc
<1>5. CASE WriteTimeout
  <2>1. "TIMEOUT" \in Answers /\ state # "IDLE"
    BY <1>5 DEF Answers, WriteTimeout
  <2>2. EngineTypes'
    BY <1>0, <1>2, <1>5, <2>1 DEF WriteTimeout, EngineTypes, net
  <2>3. UploadTypes'
    BY <1>0, <1>5 DEF WriteTimeout, UploadTypes, lasts, history
  <2> QED BY <1>5, <2>2, <2>3, BoardTypeStep DEF WriteTimeout
<1>6. CASE Emit
  <2>0. state # "IDLE" /\ status \in Answers
    BY <1>0, <1>6 DEF Emit, EngineTypes
  <2>1. response' \in Seq(ResponseRec) /\ Len(response') <= 1
    BY <1>2, <1>6, <2>0 DEF Emit
  <2>2. EngineTypes'
    BY <1>0, <1>6, <2>1 DEF Emit, Release, EngineTypes, axiWr, net, Answers
  <2> QED BY <1>1, <1>6, <2>2 DEF Emit
<1>7. CASE SendResponse
  <2>1. Head(response) \in ResponseRec
    BY <1>0, <1>7 DEF SendResponse, EngineTypes
  <2>2. Append(to_host, Head(response)) \in Seq(ResponseRec)
    BY <1>0, <2>1 DEF EngineTypes
  <2>3. EngineTypes'
    BY <1>0, <1>7, <2>2 DEF SendResponse, EngineTypes, axiWr
  <2> QED BY <1>1, <1>7, <2>3 DEF SendResponse
<1>8. CASE SlaveStores
  <2>1. Payload \in Images \cup {NoImage, "garbage"}
    <3>1. state # "IDLE"
      BY <1>8 DEF SlaveStores
    <3> QED BY <1>0, <3>1 DEF EngineTypes, PacketRec, Payload
  <2>2. ddr' \in [1..MaxSize -> [1..WORDS -> Images \cup {NoImage, "garbage"}]]
    BY <1>0, <1>8, <2>1 DEF SlaveStores, EngineTypes
  <2>3. EngineTypes'
    BY <1>0, <1>8, <2>2 DEF SlaveStores, EngineTypes, engine, net
  <2> QED BY <1>1, <1>8, <2>3 DEF SlaveStores
<1>9. ASSUME NEW ok \in BOOLEAN, WriteResponse(ok) PROVE TypeInv'
  <2>0. state = "WRITE" /\ cmd \in PacketRec /\ cmd.seq \in Seqs
    BY <1>0, <1>9 DEF WriteResponse, EngineTypes, PacketRec
  <2>1. CASE write_failed
    <3>1. EngineTypes'
      BY <1>0, <1>9, <2>1 DEF WriteResponse, Release, EngineTypes, net, Answers
    <3>2. UploadTypes'
      BY <1>0, <1>9, <2>1 DEF WriteResponse, UploadTypes, upload
    <3> QED BY <1>9, <3>1, <3>2, BoardTypeStep DEF WriteResponse
  <2>2. CASE ~write_failed /\ ~ok
    <3>1. EngineTypes'
      BY <1>0, <1>9, <2>0, <2>2 DEF WriteResponse, EngineTypes, net, Answers
    <3>2. UploadTypes'
      BY <1>0, <1>9, <2>2 DEF WriteResponse, UploadTypes
    <3> QED BY <1>9, <3>1, <3>2, BoardTypeStep DEF WriteResponse
  <2>3. CASE ~write_failed /\ ok /\ write_index < WORDS
    <3>1. EngineTypes'
      BY <1>0, <1>9, <2>0, <2>3, WriterConstants DEF WriteResponse, EngineTypes, net
    <3>2. UploadTypes'
      BY <1>0, <1>9, <2>3 DEF WriteResponse, UploadTypes, upload
    <3> QED BY <1>9, <3>1, <3>2, BoardTypeStep DEF WriteResponse
  <2>4. CASE ~write_failed /\ ok /\ ~(write_index < WORDS)
    <3>1. EngineTypes'
      BY <1>0, <1>9, <2>0, <2>4 DEF WriteResponse, EngineTypes, net
    <3>2. executed' \subseteq Seqs /\ effects' \in [Seqs -> Nat]
      BY <1>9, <2>0, <2>4, EffectTyped DEF WriteResponse
    <3>3. next_packet_seq' \in 0..total' /\ last_data' \in 0..MAX_REQ
      BY <1>0, <1>9, <2>0, <2>4, WriterConstants DEF WriteResponse, UploadTypes, Seqs
    <3>4. UploadTypes'
      BY <1>0, <1>9, <2>4, <3>2, <3>3 DEF WriteResponse, UploadTypes
    <3> QED BY <1>9, <3>1, <3>4, BoardTypeStep DEF WriteResponse
  <2> QED BY <2>1, <2>2, <2>3, <2>4
<1> QED BY <1>3, <1>4, <1>5, <1>6, <1>7, <1>8, <1>9 DEF BusStep

-----------------------------------------------------------------------------
(* The packets in transit.                                                  *)

upKnown == <<session, upload_active, committed, last_begin, last_data, last_commit, last_play,
             owner, executed>>

\* A step that lets packets arrive, vanish, be repeated or be corrupted, and
\* leaves what the board knows, keeps the order and the packets.
LEMMA ShrinkStep ==
  ASSUME TypeInv, TypeInv', OrderInv, TransitInv,
         UNCHANGED upKnown, next_seq' = next_seq,
         \A p \in Transit' : \E q \in Transit : Same(p, q),
         Sorted(to_board'),
         state' # "IDLE" => \A p \in Transit' : cmd'.seq <= p.seq,
         request' # NoReq => \A p \in Transit' : p.seq <= request'.seq
  PROVE  OrderInv' /\ TransitInv'
<1>1. OrderInv'
  <2>1. \A p \in Transit' : p.seq < next_seq'
    BY DEF OrderInv, Same
  <2>2. \A n \in executed' : n < next_seq'
    BY DEF OrderInv, upKnown
  <2> QED BY <2>1, <2>2 DEF OrderInv
<1>2. ASSUME NEW p \in Transit' PROVE PacketOK(p)'
  <2>1. PICK q \in Transit : Same(p, q)
    OBVIOUS
  <2>2. PacketOK(q)
    BY DEF TransitInv
  <2> QED BY <2>1, <2>2 DEF PacketOK, Acted, Same, upKnown
<1>3. ASSUME NEW p \in Transit', NEW r \in Transit' PROVE PairOK(p, r)'
  <2>1. PICK q \in Transit : Same(p, q)
    OBVIOUS
  <2>2. PICK z \in Transit : Same(r, z)
    OBVIOUS
  <2>3. PairOK(q, z)
    BY DEF TransitInv
  <2> QED BY <2>1, <2>2, <2>3 DEF PairOK, Same, upKnown
<1> QED BY <1>1, <1>2, <1>3 DEF TransitInv

\* A step that takes packets away leaves the host's view of the board true.
LEMMA HostKeeps ==
  ASSUME HostInv, UNCHANGED <<request, uploading, owner>>, executed \subseteq executed',
         \A p \in Transit' : \E q \in Transit : Same(p, q)
  PROVE  HostInv'
BY DEF HostInv, Same

\* A packet that has taken effect is the one in hand, or comes before it.
LEMMA InHand ==
  ASSUME TypeInv, OrderInv, TransitInv, state # "IDLE", NEW p \in Transit,
         p.seq \in executed \cup {cmd.seq}
  PROVE  p.seq = cmd.seq /\ Same(p, cmd)
<1>1. cmd \in Transit /\ p.seq \in Nat /\ cmd.seq \in Nat
  BY TransitFacts
<1>2. cmd.seq <= p.seq
  BY DEF OrderInv
<1>3. p.seq <= cmd.seq
  BY <1>1 DEF TransitInv, PacketOK
<1>4. p.seq = cmd.seq
  BY <1>1, <1>2, <1>3
<1> QED BY <1>1, <1>4 DEF TransitInv, PairOK

\* A step of the engine on the packet in hand: whatever takes effect is that
\* packet, and only a BEGIN that had no effect before opens another upload.
LEMMA BoardMove ==
  ASSUME TypeInv, TypeInv', OrderInv, TransitInv, HostInv,
         state # "IDLE", state' # "IDLE",
         UNCHANGED <<cmd, to_board, request, uploading, next_seq>>,
         executed \subseteq executed', executed' \subseteq executed \cup {cmd.seq},
         owner' = owner \/ (cmd.op = "BEGIN" /\ cmd.seq \notin executed),
         cmd.seq \in executed' => Acted(cmd)'
  PROVE  OrderInv' /\ TransitInv' /\ HostInv'
<1>1. Transit' = Transit
  BY DEF Transit
<1>2. cmd \in Transit /\ \A p \in Transit : p.seq \in Nat
  BY TransitFacts
<1>3. OrderInv'
  <2>1. \A n \in executed' : n < next_seq'
    BY <1>2 DEF OrderInv
  <2> QED BY <1>1, <2>1 DEF OrderInv
<1>4. ASSUME NEW p \in Transit PROVE PacketOK(p)'
  <2>1. PacketOK(p) /\ PairOK(cmd, p) /\ PairOK(p, cmd) /\ cmd.seq <= p.seq
    BY <1>2 DEF TransitInv, OrderInv
  <2>2. \A n \in executed' : n <= p.seq
    BY <2>1 DEF PacketOK
  <2>3. p.op = "DATA" => owner' = p.img
    <3>1. SUFFICES ASSUME p.op = "DATA", cmd.op = "BEGIN", cmd.seq \notin executed PROVE FALSE
      BY <2>1 DEF PacketOK
    <3>2. cmd.seq # p.seq
      BY <3>1, <2>1 DEF PairOK, Same
    <3> QED BY <3>1, <3>2, <2>1, <1>2 DEF PairOK
  <2>4. p.seq \in executed' => Acted(p)'
    <3> SUFFICES ASSUME p.seq \in executed' PROVE Acted(p)'
      OBVIOUS
    <3>1. p.seq = cmd.seq /\ Same(p, cmd)
      BY InHand
    <3>2. Acted(cmd)'
      BY <3>1
    <3> QED BY <3>1, <3>2 DEF Acted, Same
  <2> QED BY <2>1, <2>2, <2>3, <2>4 DEF PacketOK
<1>5. ASSUME NEW p \in Transit, NEW q \in Transit PROVE PairOK(p, q)'
  BY DEF TransitInv, PairOK
<1>6. HostInv'
  <2>1. CASE owner' = owner
    <3>1. \A p \in Transit' : \E q \in Transit : Same(p, q)
      BY <1>1 DEF Same
    <3> QED BY <2>1, <3>1, HostKeeps
  <2>2. CASE cmd.op = "BEGIN" /\ cmd.seq \notin executed
    BY <1>2, <2>2 DEF HostInv
  <2> QED BY <2>1, <2>2
<1> QED BY <1>1, <1>3, <1>4, <1>5, <1>6 DEF TransitInv

\* What the host and the network leave alone.
LEMMA BoardStill ==
  ASSUME UNCHANGED <<board, history>>
  PROVE  UNCHANGED upKnown /\ UNCHANGED <<state, cmd>>
BY DEF board, engine, upload, lasts, history, upKnown

\* A new request is newer than everything in transit.
LEMMA RequestStep ==
  ASSUME TypeInv, TypeInv', OrderInv, TransitInv, HostInv, NEW p \in Packets, HostRequest(p)
  PROVE  OrderInv' /\ TransitInv' /\ HostInv'
<1>0. UNCHANGED upKnown /\ UNCHANGED <<state, cmd>>
  BY BoardStill DEF HostRequest
<1>1. p \in PacketRec /\ p.seq = next_seq /\ next_seq \in Nat /\ next_seq' = next_seq + 1
  BY RequestType DEF HostRequest, TypeInv
<1>2. Transit' = Transit \cup {p}
  <2>1. Elems(to_board') = Elems(to_board) \cup {p}
    <3>1. to_board \in Seq(PacketRec) /\ to_board' = Append(to_board, p)
      BY DEF HostRequest, TypeInv
    <3> QED BY <1>1, <3>1, AppendPacket
  <2>2. request = NoReq /\ request' = p /\ p # NoReq
    BY <1>1, WriterConstants DEF HostRequest, NoReq, PacketRec, Seqs
  <2> QED BY <1>0, <2>1, <2>2 DEF Transit
<1>3. \A q \in Transit : q.seq \in Nat /\ q.seq < p.seq
  BY <1>1, TransitFacts DEF OrderInv
<1>4. \A n \in executed : n \in Nat /\ n < p.seq
  BY <1>1, TransitFacts DEF OrderInv
<1>5. executed' = executed /\ owner' = owner /\ request' = p /\ request = NoReq
  BY <1>0 DEF upKnown, HostRequest
<1>6. Sorted(to_board')
  <2>1. \A q \in Elems(to_board) : q.seq <= p.seq
    <3>1. \A q \in Elems(to_board) : q \in Transit
      BY DEF Transit
    <3> QED BY <1>1, <1>3, <3>1
  <2> QED BY <1>1, <2>1, AppendPacket DEF HostRequest, TypeInv, OrderInv
<1>7. OrderInv'
  <2>1. state' # "IDLE" => \A q \in Transit' : cmd'.seq <= q.seq
    <3> SUFFICES ASSUME state # "IDLE" PROVE \A q \in Transit' : cmd.seq <= q.seq
      BY <1>0
    <3>1. cmd \in Transit /\ cmd.seq \in Nat
      BY TransitFacts
    <3>2. cmd.seq < p.seq
      BY <1>3, <3>1
    <3>3. cmd.seq <= p.seq
      BY <1>1, <3>1, <3>2
    <3>4. \A q \in Transit : cmd.seq <= q.seq
      BY DEF OrderInv
    <3> QED BY <1>2, <3>3, <3>4
  <2>2. \A q \in Transit' : q.seq <= request'.seq
    BY <1>1, <1>2, <1>3, <1>5
  <2>3. \A q \in Transit' : q.seq < next_seq'
    BY <1>1, <1>2, <1>3
  <2>4. \A n \in executed' : n < next_seq'
    BY <1>1, <1>4, <1>5
  <2> QED BY <1>6, <2>1, <2>2, <2>3, <2>4 DEF OrderInv
<1>8. /\ p.op = "BEGIN" => p.img \in Images
      /\ p.op = "DATA" => uploading # NotUploading /\ p.img = uploading.img
  <2>1. "BEGIN" \notin HostCommands /\ "DATA" \notin HostCommands
    BY WriterConstants DEF Commands
  <2>2. {uploading.pos + 1} \cap 1..uploading.size # {} => uploading # NotUploading
    BY DEF NotUploading
  <2> QED BY <2>1, <2>2 DEF Packets
<1>9. p.op = "DATA" => owner = p.img /\ \A q \in Transit : q.op = "BEGIN" => q.seq \in executed
  BY <1>5, <1>8 DEF HostInv, NoReq
<1>10. PacketOK(p)'
  <2>1. p.seq \notin executed
    BY <1>4, <1>1
  <2> QED BY <1>1, <1>4, <1>5, <1>8, <1>9, <2>1 DEF PacketOK
<1>11. ASSUME NEW q \in Transit PROVE PacketOK(q)'
  BY <1>0 DEF TransitInv, PacketOK, Acted, upKnown
<1>12. ASSUME NEW q \in Transit', NEW r \in Transit' PROVE PairOK(q, r)'
  <2>1. CASE q \in Transit /\ r \in Transit
    BY <1>5, <2>1 DEF TransitInv, PairOK
  <2>2. CASE q = p /\ r = p
    BY <1>1, <2>2 DEF PairOK, Same
  <2>3. CASE q = p /\ r \in Transit
    <3>1. ~(q.seq = r.seq) /\ ~(q.seq < r.seq)
      BY <1>1, <1>3, <2>3
    <3> QED BY <3>1 DEF PairOK
  <2>4. CASE q \in Transit /\ r = p
    <3>1. ~(q.seq = r.seq)
      BY <1>1, <1>3, <2>4
    <3> QED BY <1>5, <1>9, <2>4, <3>1 DEF PairOK
  <2> QED BY <1>2, <2>1, <2>2, <2>3, <2>4
<1>13. HostInv'
  <2>1. CASE p.op = "BEGIN"
    BY <1>5, <2>1 DEF HostInv, HostRequest
  <2>2. CASE p.op # "BEGIN"
    <3>1. uploading' = uploading
      BY <2>2 DEF HostRequest
    <3>2. request.op # "BEGIN"
      BY <1>5 DEF NoReq
    <3> QED BY <1>2, <1>5, <2>2, <3>1, <3>2 DEF HostInv
  <2> QED BY <2>1, <2>2
<1> QED BY <1>2, <1>7, <1>10, <1>11, <1>12, <1>13 DEF TransitInv

\* A retransmission is the newest packet again.
LEMMA RetryStep ==
  ASSUME TypeInv, TypeInv', OrderInv, TransitInv, HostInv, HostRetry
  PROVE  OrderInv' /\ TransitInv' /\ HostInv'
<1>0. UNCHANGED upKnown /\ UNCHANGED <<state, cmd>>
  BY BoardStill DEF HostRetry
<1>1. request \in PacketRec /\ request.seq \in Nat /\ request \in Transit
  BY TransitFacts DEF HostRetry, TypeInv
<1>2. Elems(to_board') = Elems(to_board) \cup {request}
  <2>1. to_board \in Seq(PacketRec) /\ to_board' = Append(to_board, request)
    BY DEF HostRetry, TypeInv
  <2> QED BY <1>1, <2>1, AppendPacket
<1>3. Transit' = Transit
  BY <1>0, <1>1, <1>2 DEF Transit, HostRetry
<1>4. Sorted(to_board')
  <2>1. \A q \in Elems(to_board) : q.seq <= request.seq
    BY DEF OrderInv, Transit, HostRetry
  <2> QED BY <1>1, <2>1, AppendPacket DEF HostRetry, TypeInv, OrderInv
<1>5. \A p \in Transit' : \E q \in Transit : Same(p, q)
  BY <1>3 DEF Same
<1>6. OrderInv' /\ TransitInv'
  BY <1>0, <1>3, <1>4, <1>5, ShrinkStep DEF OrderInv, HostRetry
<1> QED BY <1>0, <1>5, <1>6, HostKeeps DEF HostRetry, upKnown

\* When the host gives up it uploads nothing any more.
LEMMA GiveUpStep ==
  ASSUME TypeInv, TypeInv', OrderInv, TransitInv, HostInv, HostGiveUp
  PROVE  OrderInv' /\ TransitInv' /\ HostInv'
<1>0. UNCHANGED upKnown /\ UNCHANGED <<state, cmd, to_board, next_seq>>
  BY BoardStill DEF HostGiveUp, net
<1>1. Transit' \subseteq Transit
  BY <1>0 DEF Transit, HostGiveUp
<1>2. \A p \in Transit' : \E q \in Transit : Same(p, q)
  BY <1>1 DEF Same
<1>3. OrderInv' /\ TransitInv'
  BY <1>0, <1>1, <1>2, ShrinkStep DEF OrderInv, HostGiveUp
<1>4. HostInv'
  BY DEF HostInv, HostGiveUp, NoReq
<1> QED BY <1>3, <1>4

\* The answer to a BEGIN tells the host that the board has opened its upload,
\* and there is no other BEGIN on the way.
LEMMA ReceiveAnswerStep ==
  ASSUME TypeInv, TypeInv', OrderInv, TransitInv, HostInv, AnswerInv, HostReceive
  PROVE  OrderInv' /\ TransitInv' /\ HostInv'
<1> DEFINE r == Head(to_host)
<1>0. UNCHANGED upKnown /\ UNCHANGED <<state, cmd, to_board, next_seq>>
  BY BoardStill DEF HostReceive
<1>1. r \in ResponseRec /\ r \in Elems(to_host)
  BY TakePacket DEF HostReceive, TypeInv
<1>2. AnswerOK(r.op, r.seq, r.status)
  BY <1>1 DEF AnswerInv
<1> HIDE DEF r
<1>3. CASE ~(r.seq = request.seq /\ r.op = request.op)
  <2>1. request' = request /\ uploading' = uploading
    BY <1>3 DEF HostReceive, r
  <2>2. Transit' = Transit
    BY <1>0, <2>1 DEF Transit
  <2>3. \A p \in Transit' : \E q \in Transit : Same(p, q)
    BY <2>2 DEF Same
  <2>4. OrderInv' /\ TransitInv'
    BY <1>0, <2>1, <2>2, <2>3, ShrinkStep DEF OrderInv
  <2> QED BY <1>0, <2>1, <2>3, <2>4, HostKeeps DEF upKnown
<1>4. CASE r.seq = request.seq /\ r.op = request.op
  <2>1. request' = NoReq /\ request # NoReq /\ r.seq \in Nat \ {0}
    BY <1>1, <1>4, WriterConstants DEF HostReceive, r, NoReq, ResponseRec, Seqs
  <2>2. Transit' \subseteq Transit /\ request \in Transit
    BY <1>0, <2>1 DEF Transit
  <2>3. \A p \in Transit' : \E q \in Transit : Same(p, q)
    BY <2>2 DEF Same
  <2>4. OrderInv' /\ TransitInv'
    BY <1>0, <2>1, <2>2, <2>3, ShrinkStep DEF OrderInv
  <2>5. uploading'.img = uploading.img /\ (uploading' # NotUploading => uploading # NotUploading)
    <3>1. CASE r.op = "DATA" /\ uploading # NotUploading
      <4>1. uploading' = [uploading EXCEPT !.pos = @ + 1] /\ uploading \in UploadingRec
        BY <1>4, <3>1 DEF HostReceive, r, TypeInv
      <4> QED BY <3>1, <4>1 DEF UploadingRec
    <3>2. CASE ~(r.op = "DATA" /\ uploading # NotUploading)
      BY <1>4, <3>2 DEF HostReceive, r
    <3> QED BY <3>1, <3>2
  <2>6. SUFFICES ASSUME uploading' # NotUploading
                 PROVE  owner = uploading.img /\ \A p \in Transit' : p.op = "BEGIN" => p.seq \in executed
    BY <1>0, <2>1, <2>4, <2>5 DEF HostInv, upKnown, NoReq
  <2>7. CASE request.op # "BEGIN"
    BY <2>2, <2>5, <2>6, <2>7 DEF HostInv
  <2>8. CASE request.op = "BEGIN"
    <3>1. request.seq \in executed
      BY <1>2, <1>4, <2>8 DEF AnswerOK
    <3>2. owner = request.img /\ uploading.img = request.img
      BY <2>2, <2>8, <3>1 DEF HostInv, TransitInv, PacketOK, Acted
    <3>3. ASSUME NEW p \in Transit PROVE p.seq = request.seq
      <4>1. p.seq <= request.seq /\ request.seq <= p.seq
        BY <2>1, <3>1 DEF OrderInv, TransitInv, PacketOK
      <4> QED BY <2>2, <4>1, TransitFacts
    <3> QED BY <2>2, <3>1, <3>2, <3>3
  <2> QED BY <2>7, <2>8
<1> QED BY <1>3, <1>4

\* The network's packets were sent by the host.
LEMMA NetworkStep ==
  ASSUME TypeInv, TypeInv', OrderInv, TransitInv, HostInv, Lose \/ Repeat \/ Corrupt
  PROVE  OrderInv' /\ TransitInv' /\ HostInv'
<1>0. UNCHANGED upKnown /\ UNCHANGED <<state, cmd, request, uploading, next_seq>>
  BY BoardStill DEF Lose, Repeat, Corrupt, host
<1>1. to_board \in Seq(PacketRec) /\ Sorted(to_board)
  BY DEF TypeInv, OrderInv
<1>2. Sorted(to_board') /\ \A p \in Elems(to_board') : \E q \in Elems(to_board) : Same(p, q)
  <2>1. \A p \in Elems(to_board) : Same(p, p)
    BY DEF Same
  <2>2. CASE Lose
    <3>1. to_board # <<>> => /\ Sorted(Tail(to_board))
                             /\ Elems(Tail(to_board)) \subseteq Elems(to_board)
      BY <1>1, TakePacket
    <3> QED BY <1>1, <2>1, <2>2, <3>1 DEF Lose
  <2>3. CASE Repeat
    <3>1. to_board # <<>> /\ to_board' = <<Head(to_board)>> \o to_board
      BY <2>3 DEF Repeat
    <3>2. Sorted(to_board') /\ Elems(to_board') = Elems(to_board)
      BY <1>1, <3>1, RepeatPacket
    <3> QED BY <2>1, <3>2
  <2>4. CASE Corrupt
    <3>1. to_board # <<>> /\ to_board' = [to_board EXCEPT ![1].crc = FALSE]
      BY <2>4 DEF Corrupt
    <3> QED BY <1>1, <3>1, CorruptPacket
  <2> QED BY <2>2, <2>3, <2>4
<1>3. ASSUME NEW p \in Transit' PROVE \E q \in Transit : Same(p, q)
  <2>1. CASE p \in Elems(to_board')
    BY <1>2, <2>1 DEF Transit
  <2>2. CASE p \notin Elems(to_board')
    <3>1. p \in Transit
      BY <1>0, <2>2 DEF Transit
    <3> QED BY <3>1 DEF Same
  <2> QED BY <2>1, <2>2
<1>4. OrderInv' /\ TransitInv'
  <2>1. state # "IDLE" => \A p \in Transit' : cmd.seq <= p.seq
    BY <1>3 DEF OrderInv, Same
  <2>2. request # NoReq => \A p \in Transit' : p.seq <= request.seq
    BY <1>3 DEF OrderInv, Same
  <2> QED BY <1>0, <1>2, <1>3, <2>1, <2>2, ShrinkStep
<1> QED BY <1>0, <1>3, <1>4, HostKeeps DEF upKnown

\* A step of the board that takes packets away, and leaves what it knows.
LEMMA BoardShrink ==
  ASSUME TypeInv, TypeInv', OrderInv, TransitInv, HostInv,
         UNCHANGED <<session, upload_active, committed, lasts, owner, executed>>, UNCHANGED host,
         Transit' \subseteq Transit, Sorted(to_board'),
         state' # "IDLE" => \A p \in Transit' : cmd'.seq <= p.seq
  PROVE  OrderInv' /\ TransitInv' /\ HostInv'
<1>0. UNCHANGED upKnown /\ UNCHANGED <<request, uploading, next_seq>>
  BY DEF upKnown, lasts, host
<1>1. \A p \in Transit' : \E q \in Transit : Same(p, q)
  BY DEF Same
<1>2. request' # NoReq => \A p \in Transit' : p.seq <= request'.seq
  BY <1>0 DEF OrderInv
<1> QED BY <1>0, <1>1, <1>2, ShrinkStep, HostKeeps DEF upKnown

\* Taking the next packet, or dropping it, keeps the order.
LEMMA ReceiveStep ==
  ASSUME TypeInv, TypeInv', OrderInv, TransitInv, HostInv, Receive
  PROVE  OrderInv' /\ TransitInv' /\ HostInv'
<1>0. UNCHANGED <<session, upload_active, committed, lasts, owner, executed>> /\ UNCHANGED host
  BY DEF Receive, upload, history
<1>1. /\ Sorted(to_board') /\ Head(to_board) \in Elems(to_board)
      /\ Elems(to_board') \subseteq Elems(to_board)
      /\ \A q \in Elems(to_board) : Head(to_board).seq <= q.seq
  <2>1. to_board # <<>> /\ to_board' = Tail(to_board)
    BY DEF Receive
  <2>2. to_board \in Seq(PacketRec) /\ Sorted(to_board)
    BY DEF TypeInv, OrderInv
  <2> QED BY <2>1, <2>2, TakePacket
<1>2. CASE state = "IDLE" /\ response = <<>>
  <2>1. state' = "FINAL" /\ cmd' = Head(to_board) /\ cmd' \in Elems(to_board)
    BY <1>1, <1>2 DEF Receive
  <2>2. Transit' \subseteq Transit
    BY <1>0, <1>1, <2>1 DEF Transit, host
  <2>3. \A p \in Elems(to_board) : cmd'.seq <= p.seq
    BY <1>1, <2>1
  <2>4. request # NoReq => cmd'.seq <= request.seq
    <3>1. cmd' \in Transit
      BY <2>1 DEF Transit
    <3> QED BY <3>1 DEF OrderInv
  <2>5. \A p \in Transit' : cmd'.seq <= p.seq
    <3>1. cmd'.seq <= cmd'.seq
      BY <2>1, <2>3
    <3> QED BY <1>0, <1>1, <2>3, <2>4, <3>1 DEF Transit, host
  <2> QED BY <1>0, <1>1, <2>2, <2>5, BoardShrink
<1>3. CASE ~(state = "IDLE" /\ response = <<>>)
  <2>1. UNCHANGED <<state, cmd>>
    BY <1>3 DEF Receive
  <2>2. Transit' \subseteq Transit
    BY <1>0, <1>1, <2>1 DEF Transit, host
  <2>3. state' # "IDLE" => \A p \in Transit' : cmd'.seq <= p.seq
    BY <2>1, <2>2 DEF OrderInv
  <2> QED BY <1>0, <1>1, <2>2, <2>3, BoardShrink
<1> QED BY <1>2, <1>3

\* The end of a packet takes it out of the board's hand.
LEMMA ReleaseStep ==
  ASSUME TypeInv, TypeInv', OrderInv, TransitInv, HostInv, Release,
         UNCHANGED <<session, upload_active, committed, lasts, owner, executed>>, UNCHANGED host,
         UNCHANGED to_board
  PROVE  OrderInv' /\ TransitInv' /\ HostInv'
<1>1. Transit' \subseteq Transit
  BY DEF Transit, Release, host
<1>2. Sorted(to_board')
  BY DEF OrderInv
<1>3. state' = "IDLE"
  BY DEF Release
<1> QED BY <1>1, <1>2, <1>3, BoardShrink

\* What the engine does with the packet in hand without an effect.
LEMMA QuietStep ==
  ASSUME TypeInv, TypeInv', OrderInv, TransitInv, HostInv, state # "IDLE", state' # "IDLE",
         UNCHANGED <<cmd, to_board, owner, executed, session, lasts>>, UNCHANGED host,
         (UNCHANGED <<upload_active, committed>>) \/ cmd.seq \notin executed
  PROVE  OrderInv' /\ TransitInv' /\ HostInv'
<1>1. UNCHANGED <<request, uploading, next_seq>>
  BY DEF host
<1>2. cmd.seq \in executed' => Acted(cmd)'
  <2> SUFFICES ASSUME cmd.seq \in executed PROVE Acted(cmd)'
    OBVIOUS
  <2>1. Acted(cmd)
    BY TransitFacts DEF TransitInv, PacketOK
  <2> QED BY <2>1 DEF Acted, lasts
<1> QED BY <1>1, <1>2, BoardMove

-----------------------------------------------------------------------------
(* The answers, the image, and the engine's steps.                          *)

\* What an effect adds to the history.
LEMMA EffectFacts ==
  ASSUME TypeInv, AnswerInv, state # "IDLE", Effect(cmd),
         cmd.seq \notin executed \/ cmd.op \notin {"BEGIN", "DATA", "COMMIT", "PLAY"}
  PROVE  /\ executed' = executed \cup {cmd.seq}
         /\ \A n \in Seqs : effects'[n] <= 1 /\ (n \notin executed' => effects'[n] = 0)
<1>1. cmd.seq \in Seqs /\ effects \in [Seqs -> Nat]
  BY DEF TypeInv, PacketRec
<1>2. \A n \in Seqs : effects[n] <= 1 /\ (n \notin executed => effects[n] = 0)
  BY DEF AnswerInv
<1>3. CASE cmd.op \in {"BEGIN", "DATA", "COMMIT", "PLAY"}
  <2>1. effects' = [effects EXCEPT ![cmd.seq] = @ + 1] /\ cmd.seq \notin executed
    BY <1>3 DEF Effect
  <2> QED BY <1>1, <1>2, <2>1 DEF Effect
<1>4. CASE cmd.op \notin {"BEGIN", "DATA", "COMMIT", "PLAY"}
  BY <1>1, <1>2, <1>4 DEF Effect
<1> QED BY <1>3, <1>4

\* A request that has acted stays so, and a new answer tells only what is true.
LEMMA AnswerMove ==
  ASSUME AnswerInv, executed \subseteq executed',
         last_begin' \in {last_begin, 0} \cup executed', last_data' \in {last_data, 0} \cup executed',
         last_commit' \in {last_commit, 0} \cup executed', last_play' \in {last_play, 0} \cup executed',
         \A n \in Seqs : effects'[n] <= 1 /\ (n \notin executed' => effects'[n] = 0),
         state' \in {"FINAL", "CRC", "WRITE"} => status' = "OK",
         EmitOK',
         \A r \in Elems(to_host') \cup Elems(response') :
           r \in Elems(to_host) \cup Elems(response) \/ AnswerOK(r.op, r.seq, r.status)'
  PROVE  AnswerInv'
<1>1. /\ KnownSeq(last_begin)' /\ KnownSeq(last_data)' /\ KnownSeq(last_commit)' /\ KnownSeq(last_play)'
  BY DEF AnswerInv, KnownSeq
<1>2. ASSUME NEW r \in Elems(to_host') \cup Elems(response') PROVE AnswerOK(r.op, r.seq, r.status)'
  BY <1>2 DEF AnswerInv, AnswerOK
<1> QED BY <1>1, <1>2 DEF AnswerInv

\* The same when neither the history nor the answers change.
LEMMA AnswerStill ==
  ASSUME AnswerInv, UNCHANGED <<executed, effects, lasts, to_host, response>>,
         state' \in {"FINAL", "CRC", "WRITE"} => status' = "OK",
         state' = "EMIT" => AnswerOK(cmd'.op, cmd'.seq, status')
  PROVE  AnswerInv'
<1>1. \A n \in Seqs : effects'[n] <= 1 /\ (n \notin executed' => effects'[n] = 0)
  BY DEF AnswerInv
<1>2. EmitOK'
  BY DEF EmitOK, AnswerOK
<1> QED BY <1>1, <1>2, AnswerMove DEF lasts

\* The image of the board is what it was, and no chunk is in hand.
LEMMA ImageStill ==
  ASSUME ImageInv, UNCHANGED <<upload, owner, ddr>>, state' \notin {"CRC", "WRITE"}, axi' = "none"
  PROVE  ImageInv'
BY DEF ImageInv, Stored, upload

\* The host and the network reach neither the answers of the board nor its image.
LEMMA OutsideStep ==
  ASSUME AnswerInv, ImageInv, UNCHANGED <<board, history>>,
         Elems(to_host') \subseteq Elems(to_host)
  PROVE  AnswerInv' /\ ImageInv'
<1>0. UNCHANGED <<engine, upload, lasts, axiWr, history>>
  BY DEF board
<1>1. UNCHANGED <<state, cmd, status, response, lasts, executed, effects>>
  BY <1>0 DEF engine, history
<1>2. AnswerInv'
  <2>1. \A n \in Seqs : effects'[n] <= 1 /\ (n \notin executed' => effects'[n] = 0)
    BY <1>1 DEF AnswerInv
  <2>2. /\ state' \in {"FINAL", "CRC", "WRITE"} => status' = "OK"
        /\ EmitOK'
    BY <1>1 DEF AnswerInv, EmitOK, AnswerOK
  <2>3. \A r \in Elems(to_host') \cup Elems(response') : r \in Elems(to_host) \cup Elems(response)
    BY <1>1
  <2> QED BY <1>1, <2>1, <2>2, <2>3, AnswerMove DEF lasts
<1>3. ImageInv'
  BY <1>0 DEF ImageInv, Stored, engine, upload, lasts, axiWr, history
<1> QED BY <1>2, <1>3

\* The end of ST_FINAL for a request that changes nothing.
LEMMA AnswerStep ==
  ASSUME IInv, TypeInv', state = "FINAL", NEW code \in Answers, Answer(code),
         AnswerOK(cmd.op, cmd.seq, code)
  PROVE  IInv'
<1>1. /\ UNCHANGED <<cmd, response, upload, lasts, axiWr, net, host, history>>
      /\ state' = "EMIT" /\ status' = code
  BY DEF Answer
<1>2. OrderInv' /\ TransitInv' /\ HostInv'
  BY <1>1, QuietStep DEF IInv, upload, history, net
<1>3. AnswerInv'
  BY <1>1, AnswerStill DEF IInv, history, net
<1>4. ImageInv'
  <2>1. axi' = "none" /\ UNCHANGED <<owner, ddr>>
    BY <1>1 DEF IInv, ImageInv, TypeInv, axiWr, history
  <2> QED BY <1>1, <2>1, ImageStill DEF IInv
<1> QED BY <1>2, <1>3, <1>4 DEF IInv

\* A request of ST_FINAL that takes effect.
LEMMA AcceptedStep ==
  ASSUME IInv, TypeInv', state = "FINAL", Accepted,
         cmd.seq \notin executed \/ cmd.op \notin {"BEGIN", "DATA", "COMMIT", "PLAY"},
         owner' = owner \/ (cmd.op = "BEGIN" /\ cmd.seq \notin executed),
         last_begin' \in {last_begin, 0, cmd.seq}, last_data' \in {last_data, 0},
         last_commit' \in {last_commit, cmd.seq}, last_play' \in {last_play, 0, cmd.seq},
         Acted(cmd)', ImageInv'
  PROVE  IInv'
<1>1. /\ UNCHANGED <<cmd, status, response, to_board, to_host, request, uploading, next_seq>>
      /\ state' = "EMIT" /\ Effect(cmd)
  BY DEF Accepted, net, host
<1>2. /\ executed' = executed \cup {cmd.seq}
      /\ \A n \in Seqs : effects'[n] <= 1 /\ (n \notin executed' => effects'[n] = 0)
  BY <1>1, EffectFacts DEF IInv
<1>3. OrderInv' /\ TransitInv' /\ HostInv'
  BY <1>1, <1>2, BoardMove DEF IInv
<1>4. AnswerInv'
  <2>1. EmitOK'
    BY <1>1, <1>2 DEF EmitOK, AnswerOK
  <2>2. \A r \in Elems(to_host') \cup Elems(response') : r \in Elems(to_host) \cup Elems(response)
    BY <1>1
  <2>3. AnswerInv /\ cmd.seq \in executed'
    BY <1>2 DEF IInv
  <2> QED BY <1>1, <1>2, <2>1, <2>2, <2>3, AnswerMove
<1> QED BY <1>3, <1>4 DEF IInv

\* The numbers of the open upload.
LEMMA UploadNumbers ==
  ASSUME TypeInv
  PROVE  /\ MaxSize \in Nat /\ total \in Nat /\ total <= MaxSize
         /\ next_packet_seq \in Nat /\ next_packet_seq <= total
<1>1. total \in 0..MaxSize /\ next_packet_seq \in 0..total
  BY DEF TypeInv
<1> QED BY <1>1, SizeFacts

\* What holds in ST_FINAL.
LEMMA FinalFacts ==
  ASSUME IInv, state = "FINAL"
  PROVE  /\ cmd \in PacketRec /\ cmd \in Transit /\ cmd.seq # 0
         /\ PacketOK(cmd) /\ axi = "none" /\ status = "OK"
         /\ \A n \in {last_begin, last_data, last_commit, last_play} :
              n = cmd.seq => cmd.seq \in executed
         /\ {"OK", "BAD_REQUEST", "INCOMPLETE", "SEQUENCE", "OFFSET", "UNSAFE"} \subseteq Answers
<1>1. cmd \in PacketRec /\ cmd \in Transit /\ cmd.seq # 0
  BY TransitFacts DEF IInv
<1>2. PacketOK(cmd) /\ status = "OK"
  BY <1>1 DEF IInv, TransitInv, AnswerInv
<1>3. axi = "none"
  BY DEF IInv, ImageInv
<1> QED BY <1>1, <1>2, <1>3 DEF IInv, AnswerInv, KnownSeq, Answers

\* BEGIN: a repetition of the one that opened the upload, or a new upload.
LEMMA FinalBeginStep ==
  ASSUME IInv, TypeInv', FinalBegin
  PROVE  IInv'
<1>0. state = "FINAL" /\ cmd.op = "BEGIN"
  BY DEF FinalBegin
<1>1. /\ cmd \in PacketRec /\ cmd \in Transit /\ PacketOK(cmd) /\ axi = "none"
      /\ last_begin = cmd.seq => cmd.seq \in executed
      /\ "OK" \in Answers /\ "BAD_REQUEST" \in Answers
  BY <1>0, FinalFacts
<1>2. CASE begin_repeated
  <2>1. cmd.seq \in executed
    BY <1>1, <1>2 DEF begin_repeated
  <2>2. PICK code \in {"OK", "BAD_REQUEST"} : Answer(code)
    BY <1>0, <1>2 DEF FinalBegin
  <2> QED BY <1>0, <1>1, <2>1, <2>2, AnswerStep DEF AnswerOK
<1>3. CASE ~begin_repeated
  <2>1. cmd.seq \notin executed
    BY <1>0, <1>1, <1>3 DEF PacketOK, Acted, begin_repeated
  <2>2. /\ session' = cmd.session /\ total' = SizeOf[cmd.img] /\ next_packet_seq' = 0
        /\ descriptor' = 0 /\ upload_active' = TRUE /\ committed' = FALSE
        /\ last_begin' = cmd.seq /\ last_data' = 0 /\ last_play' = 0 /\ last_commit' = last_commit
        /\ owner' = cmd.img /\ Accepted /\ cmd' = cmd /\ state' = "EMIT" /\ axi' = axi
    BY <1>0, <1>3 DEF FinalBegin, Accepted, axiWr
  <2>3. Acted(cmd)'
    BY <1>0, <2>2 DEF Acted
  <2>4. ImageInv'
    <3>1. cmd.img \in Images
      BY <1>0, <1>1 DEF PacketOK
    <3>2. Stored(next_packet_seq)'
      BY <2>2 DEF Stored
    <3> QED BY <1>1, <2>2, <3>1, <3>2 DEF ImageInv
  <2> QED BY <1>0, <2>1, <2>2, <2>3, <2>4, AcceptedStep
<1> QED BY <1>2, <1>3

\* DATA: refused, or on its way to the checksum.
LEMMA FinalDataStep ==
  ASSUME IInv, TypeInv', NEW playback \in Playback, FinalData(playback)
  PROVE  IInv'
<1>0. state = "FINAL" /\ cmd.op = "DATA" /\ {"BAD_REQUEST", "SEQUENCE", "OFFSET"} \subseteq Answers
      /\ axi = "none" /\ status = "OK"
  BY FinalFacts DEF FinalData
<1>1. ASSUME NEW code \in {"BAD_REQUEST", "SEQUENCE", "OFFSET"}, Answer(code) PROVE IInv'
  BY <1>0, <1>1, AnswerStep DEF AnswerOK
<1>2. CASE ~(cmd.session # session \/ ~upload_active \/ playback = "ERROR")
           /\ ~(last_data # cmd.seq /\ cmd.idx # next_packet_seq + 1)
           /\ ~(last_data # cmd.seq /\ cmd.idx > total)
  <2>1. /\ state' = "CRC" /\ duplicate' = (last_data = cmd.seq)
        /\ UNCHANGED <<cmd, status, response, upload, lasts, axiWr, net, host, history>>
    BY <1>2 DEF FinalData
  <2>2. OrderInv' /\ TransitInv' /\ HostInv'
    BY <1>0, <2>1, QuietStep DEF IInv, upload, history, net
  <2>3. AnswerInv'
    BY <1>0, <2>1, AnswerStill DEF IInv, history, net
  <2>4. ImageInv'
    <3>1. cmd.idx \in Nat /\ total \in Nat
      BY <1>0, SizeFacts DEF IInv, TypeInv, PacketRec
    <3>2. IF last_data = cmd.seq THEN TRUE
          ELSE upload_active /\ cmd.idx = next_packet_seq + 1 /\ cmd.idx <= total
      BY <1>2, <3>1
    <3>3. UNCHANGED <<upload_active, committed, total, next_packet_seq, descriptor, last_data, owner, ddr, axi>>
      BY <2>1 DEF upload, lasts, history, axiWr
    <3>4. Stored(next_packet_seq)' = Stored(next_packet_seq) /\ Stored(total)' = Stored(total)
      BY <3>3 DEF Stored
    <3> QED BY <1>0, <2>1, <3>2, <3>3, <3>4 DEF IInv, ImageInv
  <2> QED BY <2>2, <2>3, <2>4 DEF IInv
<1> QED BY <1>1, <1>2 DEF FinalData

\* COMMIT: only a complete upload, once.
LEMMA FinalCommitStep ==
  ASSUME IInv, TypeInv', NEW playback \in Playback, FinalCommit(playback)
  PROVE  IInv'
<1>0. state = "FINAL" /\ cmd.op = "COMMIT"
  BY DEF FinalCommit
<1>1. /\ cmd \in PacketRec /\ PacketOK(cmd) /\ axi = "none"
      /\ last_commit = cmd.seq => cmd.seq \in executed
      /\ {"OK", "BAD_REQUEST", "INCOMPLETE"} \subseteq Answers
  BY <1>0, FinalFacts
<1>2. CASE committed /\ last_commit = cmd.seq
  <2>1. Answer("OK")
    BY <1>2 DEF FinalCommit
  <2> QED BY <1>0, <1>1, <1>2, <2>1, AnswerStep DEF AnswerOK
<1>3. CASE ~(committed /\ last_commit = cmd.seq)
           /\ (~upload_active \/ session = 0 \/ playback = "ERROR" \/ next_packet_seq # total)
  <2>1. PICK code \in {"BAD_REQUEST", "INCOMPLETE"} : Answer(code)
    BY <1>3 DEF FinalCommit
  <2> QED BY <1>0, <1>1, <2>1, AnswerStep DEF AnswerOK
<1>4. CASE ~(committed /\ last_commit = cmd.seq)
           /\ ~(~upload_active \/ session = 0 \/ playback = "ERROR" \/ next_packet_seq # total)
  <2>1. cmd.seq \notin executed
    BY <1>0, <1>1, <1>4 DEF PacketOK, Acted
  <2>2. /\ descriptor' = next_generation /\ committed' = TRUE /\ upload_active' = FALSE
        /\ last_commit' = cmd.seq /\ Accepted /\ cmd' = cmd /\ state' = "EMIT"
        /\ UNCHANGED <<session, total, next_packet_seq, last_begin, last_data, last_play, owner, axi, ddr>>
    BY <1>4 DEF FinalCommit, Accepted, axiWr
  <2>3. Acted(cmd)'
    BY <1>0, <2>2 DEF Acted
  <2>4. ImageInv'
    <3>1. next_generation # 0
      BY DEF IInv, TypeInv, next_generation
    <3>2. Stored(total)'
      BY <1>4, <2>2 DEF IInv, ImageInv, Stored
    <3> QED BY <1>1, <1>4, <2>2, <3>1, <3>2 DEF IInv, ImageInv
  <2> QED BY <1>0, <2>1, <2>2, <2>3, <2>4, AcceptedStep
<1> QED BY <1>2, <1>3, <1>4

\* PLAY: only what is committed, once.
LEMMA FinalPlayStep ==
  ASSUME IInv, TypeInv', NEW playback \in Playback, FinalPlay(playback)
  PROVE  IInv'
<1>0. state = "FINAL" /\ cmd.op = "PLAY"
  BY DEF FinalPlay
<1>1. /\ PacketOK(cmd) /\ axi = "none" /\ {"OK", "UNSAFE"} \subseteq Answers
      /\ last_play = cmd.seq => cmd.seq \in executed
  BY <1>0, FinalFacts
<1>2. CASE last_play = cmd.seq
  <2>1. Answer("OK")
    BY <1>2 DEF FinalPlay
  <2> QED BY <1>0, <1>1, <1>2, <2>1, AnswerStep DEF AnswerOK
<1>3. CASE last_play # cmd.seq /\ (~committed \/ playback # "SAFE")
  <2>1. Answer("UNSAFE")
    BY <1>3 DEF FinalPlay
  <2> QED BY <1>0, <1>1, <2>1, AnswerStep DEF AnswerOK
<1>4. CASE last_play # cmd.seq /\ ~(~committed \/ playback # "SAFE")
  <2>1. cmd.seq \notin executed
    BY <1>0, <1>1, <1>4 DEF PacketOK, Acted
  <2>2. /\ last_play' = cmd.seq /\ Accepted /\ cmd' = cmd /\ state' = "EMIT"
        /\ UNCHANGED <<upload, last_begin, last_data, last_commit, owner, axi, ddr>>
    BY <1>4 DEF FinalPlay, Accepted, axiWr
  <2>3. Acted(cmd)'
    BY <1>0, <2>2 DEF Acted
  <2>4. ImageInv'
    BY <1>1, <2>2, ImageStill DEF IInv
  <2> QED BY <1>0, <2>1, <2>2, <2>3, <2>4, AcceptedStep
<1> QED BY <1>2, <1>3, <1>4

\* PAUSE, STOP and ABORT count no effect; ABORT, and STOP of an upload, drop it.
LEMMA FinalStopStep ==
  ASSUME IInv, TypeInv',
         FinalAbort \/ RefuseSession \/ FinalStatus \/ \E playback \in Playback : FinalPauseStop(playback)
  PROVE  IInv'
<1>0. /\ state = "FINAL" /\ {"OK", "BAD_REQUEST", "UNSAFE"} \subseteq Answers
      /\ axi = "none"
  <2>1. state = "FINAL"
    BY DEF FinalAbort, RefuseSession, FinalStatus, FinalPauseStop
  <2> QED BY <2>1, FinalFacts
<1>1. ASSUME cmd.op \in {"ABORT", "STOP", "PAUSE"}, Accepted, ImageInv', owner' = owner,
             last_begin' = last_begin, last_data' \in {last_data, 0},
             last_commit' = last_commit, last_play' \in {last_play, 0}
      PROVE  IInv'
  <2>1. Acted(cmd)'
    BY <1>1 DEF Acted, Accepted
  <2> QED BY <1>0, <1>1, <2>1, AcceptedStep
<1>2. CASE FinalAbort
  <2>1. ImageInv'
    BY <1>0, <1>2 DEF FinalAbort, NoUpload, Accepted, axiWr, ImageInv
  <2> QED BY <1>1, <1>2, <2>1 DEF FinalAbort
<1>3. CASE RefuseSession
  <2>1. Answer("BAD_REQUEST") /\ cmd.op # "BEGIN"
    BY <1>3 DEF RefuseSession, Commands
  <2> QED BY <1>0, <2>1, AnswerStep DEF AnswerOK
<1>4. CASE FinalStatus
  <2>1. Answer("OK") /\ cmd.op = "STATUS"
    BY <1>4 DEF FinalStatus
  <2> QED BY <1>0, <2>1, AnswerStep DEF AnswerOK
<1>5. ASSUME NEW playback \in Playback, FinalPauseStop(playback) PROVE IInv'
  <2>0. cmd.op \in {"PAUSE", "STOP"}
    BY <1>5 DEF FinalPauseStop
  <2>1. CASE upload_active /\ cmd.op = "STOP"
    <3>1. ImageInv'
      <4>1. ~committed
        BY <2>1 DEF IInv, ImageInv
      <4> QED BY <1>0, <1>5, <2>1, <4>1 DEF FinalPauseStop, NoUpload, Accepted, axiWr, ImageInv
    <3> QED BY <1>1, <1>5, <2>1, <3>1 DEF FinalPauseStop
  <2>2. CASE ~(upload_active /\ cmd.op = "STOP") /\ (~committed \/ playback = "ERROR")
    <3>1. Answer("UNSAFE")
      BY <1>5, <2>2 DEF FinalPauseStop
    <3> QED BY <1>0, <2>0, <3>1, AnswerStep DEF AnswerOK
  <2>3. CASE ~(upload_active /\ cmd.op = "STOP") /\ ~(~committed \/ playback = "ERROR")
    <3>1. Accepted /\ UNCHANGED <<upload, lasts, owner>>
      BY <1>5, <2>3 DEF FinalPauseStop
    <3>2. state' = "EMIT" /\ axi' = axi /\ ddr' = ddr
      BY <3>1 DEF Accepted, axiWr
    <3>3. ImageInv'
      BY <1>0, <3>1, <3>2, ImageStill DEF IInv
    <3> QED BY <1>1, <2>0, <3>1, <3>3 DEF lasts
  <2> QED BY <2>1, <2>2, <2>3
<1> QED BY <1>2, <1>3, <1>4, <1>5

\* The next packet is taken with a clean status.
LEMMA ReceiveKeeps ==
  ASSUME IInv, TypeInv', Receive
  PROVE  IInv'
<1>1. OrderInv' /\ TransitInv' /\ HostInv'
  BY ReceiveStep DEF IInv
<1>2. UNCHANGED <<executed, effects, lasts, to_host, response, upload, owner, ddr, axi>>
  BY DEF Receive, history, axiWr
<1>3. CASE state = "IDLE" /\ response = <<>>
  <2>1. state' = "FINAL" /\ status' = "OK" /\ axi = "none"
    BY <1>3 DEF Receive, IInv, ImageInv, TypeInv
  <2>2. AnswerInv' /\ ImageInv'
    BY <1>2, <2>1, AnswerStill, ImageStill DEF IInv
  <2> QED BY <1>1, <2>2 DEF IInv
<1>4. CASE ~(state = "IDLE" /\ response = <<>>)
  <2>1. UNCHANGED <<state, cmd, status, duplicate>>
    BY <1>4 DEF Receive
  <2>2. AnswerInv'
    BY <1>2, <2>1, AnswerStill DEF IInv, AnswerInv, EmitOK
  <2>3. ImageInv'
    BY <1>2, <2>1 DEF Receive, IInv, ImageInv, Stored, upload, lasts, axiWr
  <2> QED BY <1>1, <2>2, <2>3 DEF IInv
<1> QED BY <1>3, <1>4

\* The checksum comes before any write.
LEMMA CheckCrcKeeps ==
  ASSUME IInv, TypeInv', CheckCrc
  PROVE  IInv'
<1>0. /\ state = "CRC" /\ state' \in {"EMIT", "WRITE"}
      /\ UNCHANGED <<cmd, duplicate, response, upload, lasts, net, host, history>>
  BY DEF CheckCrc
<1>1. /\ cmd \in PacketRec /\ cmd.seq # 0 /\ cmd.op = "DATA" /\ status = "OK" /\ axi = "none"
      /\ last_data = cmd.seq => cmd.seq \in executed
  BY <1>0, TransitFacts DEF IInv, ImageInv, AnswerInv, KnownSeq, TypeInv
<1>2. OrderInv' /\ TransitInv' /\ HostInv'
  BY <1>0, QuietStep DEF IInv, upload, history, net
<1>3. CASE ~cmd.crc
  <2>1. state' = "EMIT" /\ status' = "CRC" /\ UNCHANGED axiWr
    BY <1>3 DEF CheckCrc
  <2>2. AnswerInv'
    BY <1>0, <1>1, <2>1, AnswerStill DEF IInv, AnswerOK, history, net
  <2>3. ImageInv'
    BY <1>0, <1>1, <2>1, ImageStill DEF IInv, axiWr, history
  <2> QED BY <1>2, <2>2, <2>3 DEF IInv
<1>4. CASE cmd.crc /\ duplicate
  <2>1. state' = "EMIT" /\ status' = status /\ UNCHANGED axiWr
    BY <1>4 DEF CheckCrc
  <2>2. cmd.seq \in executed
    BY <1>0, <1>1, <1>4 DEF IInv, ImageInv
  <2>3. AnswerInv'
    BY <1>0, <1>1, <2>1, <2>2, AnswerStill DEF IInv, AnswerOK, history, net
  <2>4. ImageInv'
    BY <1>0, <1>1, <2>1, ImageStill DEF IInv, axiWr, history
  <2> QED BY <1>2, <2>3, <2>4 DEF IInv
<1>5. CASE cmd.crc /\ ~duplicate
  <2>1. /\ state' = "WRITE" /\ write_index' = 1 /\ write_failed' = FALSE
        /\ axi' = "issued" /\ UNCHANGED <<status, ddr>>
    BY <1>5 DEF CheckCrc
  <2>2. AnswerInv'
    BY <1>0, <1>1, <2>1, AnswerStill DEF IInv, history, net
  <2>3. /\ upload_active /\ last_data # cmd.seq /\ cmd.idx = next_packet_seq + 1 /\ cmd.idx <= total
        /\ ~committed /\ owner \in Images /\ total = SizeOf[owner] /\ Stored(next_packet_seq)
    BY <1>0, <1>5 DEF IInv, ImageInv
  <2>4. cmd.idx \in 1..MaxSize
    <3>1. cmd.idx \in Nat
      BY <1>1 DEF PacketRec
    <3> QED BY <2>3, <3>1, UploadNumbers DEF IInv
  <2>5. UNCHANGED <<upload_active, committed, total, next_packet_seq, descriptor, last_data, owner, ddr, cmd>>
    BY <1>0, <2>1 DEF upload, lasts, history
  <2>6. Stored(next_packet_seq)'
    BY <2>3, <2>5 DEF Stored
  <2>7. ImageInv'
    BY <1>1, <1>5, <2>1, <2>3, <2>4, <2>5, <2>6, SMTT(60) DEF ImageInv, TypeInv
  <2> QED BY <1>2, <2>2, <2>7 DEF IInv
<1> QED BY <1>1, <1>3, <1>4, <1>5

\* What holds of the chunk in hand while it is written.
LEMMA WriteFacts ==
  ASSUME IInv, state = "WRITE"
  PROVE  /\ cmd \in PacketRec /\ cmd.seq # 0 /\ cmd.op = "DATA" /\ cmd.idx \in 1..MaxSize
         /\ ~committed /\ status = "OK" /\ axi # "none" /\ cmd.img = owner
         /\ write_failed => ~upload_active
         /\ ~write_failed => /\ upload_active /\ cmd.seq \notin executed /\ cmd.crc
                             /\ cmd.idx = next_packet_seq + 1 /\ cmd.idx <= total
<1>1. cmd \in PacketRec /\ cmd.seq # 0 /\ cmd \in Transit
  BY TransitFacts DEF IInv
<1>2. PacketOK(cmd)
  BY <1>1 DEF IInv, TransitInv
<1>3. /\ cmd.op = "DATA" /\ cmd.idx \in 1..MaxSize /\ ~committed /\ axi # "none"
      /\ write_failed => ~upload_active
      /\ ~write_failed => /\ upload_active /\ last_data # cmd.seq /\ cmd.crc
                          /\ cmd.idx = next_packet_seq + 1 /\ cmd.idx <= total
  BY DEF IInv, ImageInv
<1>4. status = "OK"
  BY DEF IInv, AnswerInv
<1> QED BY <1>1, <1>2, <1>3, <1>4 DEF PacketOK, Acted

\* The bus stores a word of the chunk in hand, beyond those already whole.
LEMMA SlaveStoresKeeps ==
  ASSUME IInv, TypeInv', SlaveStores
  PROVE  IInv'
<1>0. /\ state = "WRITE" /\ axi = "issued" /\ axi' = "stored"
      /\ ddr' = [ddr EXCEPT ![cmd.idx][write_index] = Payload]
      /\ UNCHANGED <<state, cmd, status, duplicate, response>>
      /\ UNCHANGED <<upload, lasts, write_index, write_failed, net, host, history>>
  BY DEF SlaveStores, engine, IInv, ImageInv
<1>1. OrderInv' /\ TransitInv' /\ HostInv'
  BY <1>0, QuietStep DEF IInv, upload, history, net
<1>2. AnswerInv'
  BY <1>0, AnswerStill DEF IInv, AnswerInv, history, net
<1>3. ImageInv'
  <2>1. /\ cmd.op = "DATA" /\ cmd.idx \in 1..MaxSize /\ ~committed /\ cmd.img = owner
        /\ write_failed => ~upload_active
        /\ ~write_failed => /\ upload_active /\ cmd.crc
                            /\ cmd.idx = next_packet_seq + 1 /\ cmd.idx <= total
    BY <1>0, WriteFacts
  <2>2. UNCHANGED <<upload_active, committed, total, next_packet_seq, descriptor, last_data, owner>>
    BY <1>0 DEF upload, lasts, history
  <2>3. CASE write_failed
    BY <1>0, <2>1, <2>2, <2>3 DEF IInv, ImageInv
  <2>4. CASE ~write_failed
    <3>1. Payload = owner
      BY <2>1, <2>4 DEF Payload
    <3>2. /\ ddr \in [1..MaxSize -> [1..WORDS -> Images \cup {NoImage, "garbage"}]]
          /\ write_index \in 1..WORDS
      BY DEF IInv, TypeInv
    <3>3. \A k \in 1..MaxSize, w \in 1..WORDS :
            ddr'[k][w] = IF k = cmd.idx /\ w = write_index THEN owner ELSE ddr[k][w]
      BY <1>0, <2>1, <3>1, <3>2
    <3>4. Stored(next_packet_seq)'
      <4>1. \A k \in 1..next_packet_seq : k \in 1..MaxSize /\ k # cmd.idx
        BY <2>1, <2>4, UploadNumbers DEF IInv
      <4>2. \A k \in 1..next_packet_seq, w \in 1..WORDS : ddr[k][w] = owner
        BY <2>1, <2>4 DEF IInv, ImageInv, Stored
      <4> QED BY <2>2, <3>3, <4>1, <4>2 DEF Stored
    <3>5. \A w \in 1..WORDS : w < write_index \/ w = write_index => ddr'[cmd.idx][w] = owner
      <4>1. \A w \in 1..WORDS : w < write_index => ddr[cmd.idx][w] = owner
        BY <1>0, <2>4 DEF IInv, ImageInv
      <4> QED BY <2>1, <3>3, <4>1
    <3>6. owner \in Images /\ total = SizeOf[owner] /\ last_data # cmd.seq
      BY <1>0, <2>1, <2>4 DEF IInv, ImageInv
    <3> QED BY <1>0, <2>1, <2>2, <2>4, <3>4, <3>5, <3>6 DEF ImageInv
  <2> QED BY <2>3, <2>4
<1> QED BY <1>1, <1>2, <1>3 DEF IInv

\* A timeout answers, ends the upload, and holds the engine for the late write.
LEMMA WriteTimeoutKeeps ==
  ASSUME IInv, TypeInv', WriteTimeout
  PROVE  IInv'
<1>0. /\ state = "WRITE" /\ ~write_failed /\ write_failed' = TRUE
      /\ upload_active' = FALSE /\ committed' = FALSE
      /\ response' = <<[seq |-> cmd.seq, op |-> cmd.op, status |-> "TIMEOUT"]>>
      /\ UNCHANGED <<state, cmd, status, session, total, next_packet_seq, descriptor,
                     lasts, axi, ddr, to_board, to_host, host, owner, executed, effects>>
  BY DEF WriteTimeout, net, history
<1>1. cmd.op = "DATA" /\ cmd.idx \in 1..MaxSize /\ cmd.seq \notin executed
  BY <1>0, WriteFacts
<1>2. OrderInv' /\ TransitInv' /\ HostInv'
  BY <1>0, <1>1, QuietStep DEF IInv
<1>3. AnswerInv'
  <2>1. \A n \in Seqs : effects'[n] <= 1 /\ (n \notin executed' => effects'[n] = 0)
    BY <1>0 DEF IInv, AnswerInv
  <2>2. EmitOK' /\ status' = "OK"
    BY <1>0 DEF IInv, AnswerInv, EmitOK
  <2>3. ASSUME NEW r \in Elems(response') PROVE AnswerOK(r.op, r.seq, r.status)'
    <3>1. r = [seq |-> cmd.seq, op |-> cmd.op, status |-> "TIMEOUT"]
      BY <1>0 DEF Elems
    <3> QED BY <1>1, <3>1 DEF AnswerOK
  <2>4. \A r \in Elems(to_host') \cup Elems(response') :
          r \in Elems(to_host) \cup Elems(response) \/ AnswerOK(r.op, r.seq, r.status)'
    BY <1>0, <2>3
  <2> QED BY <1>0, <2>1, <2>2, <2>4, AnswerMove DEF IInv, lasts
<1>4. ImageInv'
  BY <1>0, <1>1 DEF IInv, ImageInv
<1> QED BY <1>2, <1>3, <1>4 DEF IInv

\* The answer of the bus: the next word, the end of the chunk, or the end of the upload.
LEMMA WriteResponseKeeps ==
  ASSUME IInv, TypeInv', NEW ok \in BOOLEAN, WriteResponse(ok)
  PROVE  IInv'
<1>0. /\ state = "WRITE" /\ axi = "stored"
      /\ UNCHANGED <<response, last_begin, last_commit, last_play, ddr, to_board, to_host, host, owner>>
  BY DEF WriteResponse, net
<1>1. /\ cmd \in PacketRec /\ cmd.seq # 0 /\ cmd.op = "DATA" /\ cmd.idx \in 1..MaxSize
      /\ ~committed /\ status = "OK" /\ cmd.img = owner
      /\ write_failed => ~upload_active
      /\ ~write_failed => /\ upload_active /\ cmd.seq \notin executed /\ cmd.crc
                          /\ cmd.idx = next_packet_seq + 1 /\ cmd.idx <= total
  BY <1>0, WriteFacts
<1>2. CASE write_failed
  <2>1. Release /\ axi' = "none" /\ UNCHANGED <<write_index, write_failed, upload, last_data, executed, effects>>
    BY <1>2 DEF WriteResponse
  <2>2. OrderInv' /\ TransitInv' /\ HostInv'
    BY <1>0, <2>1, ReleaseStep DEF IInv, upload, lasts
  <2>3. AnswerInv'
    BY <1>0, <2>1, AnswerStill DEF IInv, Release, lasts
  <2>4. ImageInv'
    BY <1>0, <2>1, ImageStill DEF IInv, Release
  <2> QED BY <2>2, <2>3, <2>4 DEF IInv
<1>3. CASE ~write_failed /\ ~ok
  <2>1. /\ state' = "EMIT" /\ status' = "AXI_ERROR" /\ axi' = "none"
        /\ upload_active' = FALSE /\ committed' = FALSE
        /\ UNCHANGED <<cmd, session, last_data, executed, effects>>
    BY <1>3 DEF WriteResponse
  <2>2. OrderInv' /\ TransitInv' /\ HostInv'
    BY <1>0, <1>1, <1>3, <2>1, QuietStep DEF IInv, lasts
  <2>3. AnswerInv'
    BY <1>0, <1>1, <2>1, AnswerStill DEF IInv, AnswerOK, lasts
  <2>4. ImageInv'
    BY <2>1 DEF ImageInv
  <2> QED BY <2>2, <2>3, <2>4 DEF IInv
<1>4. CASE ~write_failed /\ ok /\ write_index < WORDS
  <2>1. /\ write_index' = write_index + 1 /\ axi' = "issued"
        /\ UNCHANGED <<state, cmd, status, duplicate, write_failed, upload, last_data, executed, effects>>
    BY <1>4 DEF WriteResponse
  <2>2. OrderInv' /\ TransitInv' /\ HostInv'
    BY <1>0, <2>1, QuietStep DEF IInv, upload, lasts
  <2>3. AnswerInv'
    BY <1>0, <1>1, <2>1, AnswerStill DEF IInv, AnswerInv, lasts
  <2>4. ImageInv'
    <3>1. \A w \in 1..WORDS : w < write_index' => ddr'[cmd.idx][w] = owner
      <4>1. write_index \in Nat /\ \A w \in 1..WORDS : w < write_index' => w < write_index \/ w = write_index
        BY <2>1 DEF IInv, TypeInv
      <4> QED BY <1>0, <1>4, <4>1 DEF IInv, ImageInv
    <3>2. UNCHANGED <<upload_active, committed, total, next_packet_seq, descriptor>>
      BY <2>1 DEF upload
    <3>3. owner \in Images /\ total = SizeOf[owner] /\ last_data # cmd.seq
      BY <1>0, <1>1, <1>4 DEF IInv, ImageInv
    <3>4. Stored(next_packet_seq)'
      BY <1>0, <1>1, <1>4, <3>2 DEF IInv, ImageInv, Stored
    <3> QED BY <1>0, <1>1, <1>4, <2>1, <3>1, <3>2, <3>3, <3>4 DEF ImageInv
  <2> QED BY <2>2, <2>3, <2>4 DEF IInv
<1>5. CASE ~write_failed /\ ok /\ ~(write_index < WORDS)
  <2>1. /\ state' = "EMIT" /\ axi' = "none" /\ next_packet_seq' = next_packet_seq + 1
        /\ last_data' = cmd.seq /\ Effect(cmd)
        /\ UNCHANGED <<cmd, status, session, upload_active, committed, total, descriptor>>
    BY <1>5 DEF WriteResponse
  <2>2. /\ executed' = executed \cup {cmd.seq}
        /\ \A n \in Seqs : effects'[n] <= 1 /\ (n \notin executed' => effects'[n] = 0)
    BY <1>0, <1>1, <1>5, <2>1, EffectFacts DEF IInv
  <2>3. OrderInv' /\ TransitInv' /\ HostInv'
    <3>1. Acted(cmd)'
      BY <1>1, <2>1 DEF Acted
    <3>2. UNCHANGED <<cmd, to_board, request, uploading, next_seq, owner>>
      BY <1>0, <2>1 DEF host
    <3>3. /\ state # "IDLE" /\ state' # "IDLE"
          /\ executed \subseteq executed' /\ executed' \subseteq executed \cup {cmd.seq}
      BY <1>0, <2>1, <2>2
    <3> QED BY <3>1, <3>2, <3>3, BoardMove DEF IInv
  <2>4. AnswerInv'
    <3>1. EmitOK'
      BY <2>1, <2>2 DEF EmitOK, AnswerOK
    <3>2. \A r \in Elems(to_host') \cup Elems(response') : r \in Elems(to_host) \cup Elems(response)
      BY <1>0
    <3>3. executed \subseteq executed' /\ cmd.seq \in executed' /\ state' = "EMIT" /\ AnswerInv
      BY <2>1, <2>2 DEF IInv
    <3> QED BY <1>0, <2>1, <2>2, <3>1, <3>2, <3>3, AnswerMove
  <2>5. ImageInv'
    <3>1. \A w \in 1..WORDS : ddr[cmd.idx][w] = owner
      <4>1. write_index = WORDS
        BY <1>5, WriterConstants DEF IInv, TypeInv
      <4> QED BY <1>0, <1>5, <4>1, WriterConstants DEF IInv, ImageInv
    <3>2. \A k \in 1..next_packet_seq, w \in 1..WORDS : ddr[k][w] = owner
      BY <1>1, <1>5 DEF IInv, ImageInv, Stored
    <3>3. \A k \in 1..(next_packet_seq + 1) : k \in 1..next_packet_seq \/ k = cmd.idx
      BY <1>1, <1>5, UploadNumbers DEF IInv
    <3>4. Stored(next_packet_seq)'
      BY <1>0, <2>1, <3>1, <3>2, <3>3 DEF Stored
    <3>5. owner \in Images /\ total = SizeOf[owner]
      BY <1>1, <1>5 DEF IInv, ImageInv
    <3> QED BY <1>0, <1>1, <1>5, <2>1, <3>4, <3>5 DEF ImageInv
  <2> QED BY <2>3, <2>4, <2>5 DEF IInv
<1> QED BY <1>2, <1>3, <1>4, <1>5

\* The answer leaves the engine, and then the board.
LEMMA AnswerLeaves ==
  ASSUME IInv, TypeInv', Emit \/ SendResponse
  PROVE  IInv'
<1>1. CASE Emit
  <2>0. /\ state = "EMIT" /\ Release /\ response' = <<[seq |-> cmd.seq, op |-> cmd.op, status |-> status]>>
        /\ UNCHANGED <<upload, lasts, axi, ddr, to_board, to_host, host, owner, executed, effects>>
    BY <1>1 DEF Emit, axiWr, net, history
  <2>1. OrderInv' /\ TransitInv' /\ HostInv'
    BY <2>0, ReleaseStep DEF IInv, upload
  <2>2. AnswerInv'
    <3>1. ASSUME NEW r \in Elems(response') PROVE AnswerOK(r.op, r.seq, r.status)'
      <4>1. r = [seq |-> cmd.seq, op |-> cmd.op, status |-> status]
        BY <2>0 DEF Elems
      <4>2. AnswerOK(cmd.op, cmd.seq, status)
        BY <2>0 DEF IInv, AnswerInv, EmitOK
      <4> QED BY <2>0, <4>1, <4>2 DEF AnswerOK
    <3>2. \A r \in Elems(to_host') \cup Elems(response') :
            r \in Elems(to_host) \cup Elems(response) \/ AnswerOK(r.op, r.seq, r.status)'
      BY <2>0, <3>1
    <3>3. \A n \in Seqs : effects'[n] <= 1 /\ (n \notin executed' => effects'[n] = 0)
      BY <2>0 DEF IInv, AnswerInv
    <3>4. state' = "IDLE" /\ EmitOK'
      BY <2>0 DEF Release, EmitOK
    <3> QED BY <2>0, <3>2, <3>3, <3>4, AnswerMove DEF IInv, lasts
  <2>3. ImageInv'
    <3>1. axi' = "none"
      BY <2>0 DEF IInv, ImageInv, TypeInv
    <3> QED BY <2>0, <3>1, ImageStill DEF IInv, Release
  <2> QED BY <2>1, <2>2, <2>3 DEF IInv
<1>2. CASE SendResponse
  <2>0. /\ response # <<>> /\ to_host' = Append(to_host, Head(response)) /\ response' = <<>>
        /\ UNCHANGED <<state, cmd, status, duplicate, upload, lasts, write_index, write_failed, axi, ddr,
                       to_board, host, owner, executed, effects>>
    BY <1>2 DEF SendResponse, axiWr, history
  <2>1. Head(response) \in ResponseRec /\ Head(response) \in Elems(response)
    BY <2>0, TakePacket DEF IInv, TypeInv
  <2>2. Elems(to_host') = Elems(to_host) \cup {Head(response)}
    <3>1. to_host \in Seq(ResponseRec)
      BY DEF IInv, TypeInv
    <3> QED BY <2>0, <2>1, <3>1, AppendPacket
  <2>3. OrderInv' /\ TransitInv' /\ HostInv'
    <3>1. Transit' = Transit
      BY <2>0 DEF Transit, host
    <3>2. UNCHANGED <<session, upload_active, committed, lasts, owner, executed>>
      BY <2>0 DEF upload
    <3>3. Sorted(to_board') /\ (state' # "IDLE" => \A p \in Transit' : cmd'.seq <= p.seq)
      BY <2>0, <3>1 DEF IInv, OrderInv
    <3> QED BY <2>0, <3>1, <3>2, <3>3, BoardShrink DEF IInv
  <2>4. AnswerInv'
    <3>1. \A r \in Elems(to_host') \cup Elems(response') : r \in Elems(to_host) \cup Elems(response)
      BY <2>0, <2>1, <2>2 DEF Elems
    <3>2. \A n \in Seqs : effects'[n] <= 1 /\ (n \notin executed' => effects'[n] = 0)
      BY <2>0 DEF IInv, AnswerInv
    <3>3. EmitOK' /\ (state' \in {"FINAL", "CRC", "WRITE"} => status' = "OK")
      BY <2>0 DEF IInv, AnswerInv, EmitOK, AnswerOK
    <3> QED BY <2>0, <3>1, <3>2, <3>3, AnswerMove DEF IInv, lasts
  <2>5. ImageInv'
    BY <2>0 DEF IInv, ImageInv, Stored, upload, lasts
  <2> QED BY <2>3, <2>4, <2>5 DEF IInv
<1> QED BY <1>1, <1>2

-----------------------------------------------------------------------------
(* The theorems.                                                            *)

\* Nothing is in transit, nothing is stored and nothing has been answered.
LEMMA InitHolds == Init => IInv
<1> SUFFICES ASSUME Init PROVE IInv
  OBVIOUS
<1> USE DEF Init
<1>0. /\ MaxSize \in Nat /\ 1 \in 1..WORDS /\ 0 \in 0..MAX_REQ /\ 0 \in 0..(GEN_MOD - 1)
      /\ 0 \in 0..MaxSize /\ 1 \in Nat \ {0}
  BY SizeFacts, WriterConstants
<1>1. TypeInv
  <2>1. ddr \in [1..MaxSize -> [1..WORDS -> Images \cup {NoImage, "garbage"}]]
    OBVIOUS
  <2>2. to_board \in Seq(PacketRec) /\ to_host \in Seq(ResponseRec) /\ response \in Seq(ResponseRec)
        /\ Len(response) <= 1
    OBVIOUS
  <2>3. executed \subseteq Seqs /\ effects \in [Seqs -> Nat] /\ "OK" \in Answers
    BY DEF Answers
  <2>4. EngineTypes
    BY <1>0, <2>1, <2>2, <2>3 DEF EngineTypes
  <2>5. total = 0 /\ 0 \in 0..0
    OBVIOUS
  <2>6. UploadTypes
    BY <1>0, <2>3, <2>5 DEF UploadTypes
  <2>7. HostTypes
    BY <1>0, <2>2 DEF HostTypes
  <2> QED BY <2>4, <2>6, <2>7 DEF TypeInv, EngineTypes, UploadTypes, HostTypes
<1>2. Transit = {}
  BY DEF Transit, Elems
<1>3. OrderInv /\ TransitInv
  BY <1>2 DEF OrderInv, TransitInv, Sorted
<1>4. HostInv
  BY DEF HostInv, NoReq
<1>5. AnswerInv
  BY DEF AnswerInv, KnownSeq, EmitOK, Elems
<1>6. ImageInv
  BY DEF ImageInv
<1> QED BY <1>1, <1>3, <1>4, <1>5, <1>6 DEF IInv

\* Every step keeps the invariant.
LEMMA StepHolds == IInv /\ [Next]_upVars => IInv'
<1> SUFFICES ASSUME IInv, [Next]_upVars PROVE IInv'
  OBVIOUS
<1>1. CASE HostStep
  <2>0. TypeInv'
    BY <1>1, HostTyped DEF IInv
  <2>1. UNCHANGED <<board, history>> /\ Elems(to_host') \subseteq Elems(to_host)
    <3>1. to_host # <<>> => Elems(Tail(to_host)) \subseteq Elems(to_host)
      BY TakePacket DEF IInv, TypeInv
    <3> QED BY <1>1, <3>1 DEF HostStep, HostRequest, HostRetry, HostGiveUp, HostReceive, net
  <2>2. AnswerInv' /\ ImageInv'
    BY <2>1, OutsideStep DEF IInv
  <2>3. OrderInv' /\ TransitInv' /\ HostInv'
    BY <1>1, <2>0, RequestStep, RetryStep, GiveUpStep, ReceiveAnswerStep DEF IInv, HostStep
  <2> QED BY <2>0, <2>2, <2>3 DEF IInv
<1>2. CASE Lose \/ Repeat \/ Corrupt
  <2>0. TypeInv'
    BY <1>2, NetworkTyped DEF IInv
  <2>1. UNCHANGED <<board, history>> /\ Elems(to_host') \subseteq Elems(to_host)
    <3>1. to_host # <<>> => Elems(Tail(to_host)) \subseteq Elems(to_host)
      BY TakePacket DEF IInv, TypeInv
    <3> QED BY <1>2, <3>1 DEF Lose, Repeat, Corrupt
  <2>2. AnswerInv' /\ ImageInv'
    BY <2>1, OutsideStep DEF IInv
  <2>3. OrderInv' /\ TransitInv' /\ HostInv'
    BY <1>2, <2>0, NetworkStep DEF IInv
  <2> QED BY <2>0, <2>2, <2>3 DEF IInv
<1>3. CASE FinalStep
  <2>1. state = "FINAL"
    BY <1>3 DEF FinalStep, FinalBegin, RefuseSession, FinalAbort, FinalStatus, FinalData,
                FinalCommit, FinalPlay, FinalPauseStop
  <2>2. cmd.op = "BEGIN" => cmd.img \in Images
    BY <2>1, FinalFacts DEF PacketOK
  <2>3. TypeInv'
    BY <1>3, <2>2, FinalTyped DEF IInv
  <2> QED BY <1>3, <2>3, FinalBeginStep, FinalDataStep, FinalCommitStep, FinalPlayStep, FinalStopStep
          DEF FinalStep
<1>4. CASE Receive \/ CheckCrc \/ WriteTimeout \/ Emit \/ SendResponse \/ BusStep
  <2>1. (state = "WRITE" <=> axi # "none")
        /\ (state = "WRITE" /\ ~write_failed => next_packet_seq + 1 <= total)
    BY DEF IInv, ImageInv
  <2>2. TypeInv'
    BY <1>4, <2>1, BusTyped DEF IInv
  <2> QED BY <1>4, <2>2, ReceiveKeeps, CheckCrcKeeps, WriteTimeoutKeeps, AnswerLeaves, SlaveStoresKeeps,
             WriteResponseKeeps DEF BusStep
<1>5. CASE UNCHANGED upVars
  <2>1. UNCHANGED <<board, history, net, host>>
    BY <1>5 DEF upVars
  <2>2. TypeInv'
    <3>1. HostTypes'
      BY <2>1 DEF IInv, TypeInv, HostTypes, net, host
    <3> QED BY <2>1, <3>1, HostTypeStep DEF IInv
  <2>3. AnswerInv' /\ ImageInv'
    BY <2>1, OutsideStep DEF IInv, net
  <2>4. Transit' \subseteq Transit /\ Sorted(to_board') /\ UNCHANGED <<state, cmd>>
    BY <2>1 DEF Transit, IInv, OrderInv, net, host, board, engine
  <2>5. OrderInv' /\ TransitInv' /\ HostInv'
    <3>1. state' # "IDLE" => \A p \in Transit' : cmd'.seq <= p.seq
      BY <2>4 DEF IInv, OrderInv
    <3>2. UNCHANGED <<session, upload_active, committed, lasts, owner, executed>>
      BY <2>1 DEF board, upload, history
    <3> QED BY <2>1, <2>2, <2>4, <3>1, <3>2, BoardShrink DEF IInv
  <2> QED BY <2>2, <2>3, <2>5 DEF IInv
<1> QED BY <1>1, <1>2, <1>3, <1>4, <1>5 DEF Next, BoardStep

\* The inductive invariant of the upload protocol: the packets in transit are in
\* order, none is older than what has taken effect, and the DDR holds the image
\* of the open upload up to its position.
THEOREM InvariantHolds == Spec => []IInv
<1>1. Init => IInv
  BY InitHolds
<1>2. IInv /\ [Next]_upVars => IInv'
  BY StepHolds
<1> QED BY <1>1, <1>2, PTL DEF Spec

\* Every variable of the board, the bus and the DDR keeps its type; the position
\* of the upload never passes its size.
THEOREM TypeSafe == Spec => []TypeOK
<1>1. IInv => TypeOK
  BY DEF IInv, TypeInv, TypeOK
<1> QED BY <1>1, InvariantHolds, PTL

\* What is committed is the whole image of its BEGIN, word for word, with a
\* descriptor; and a write that is still owed keeps the engine and reaches no
\* committed image.
THEOREM UploadSafe == Spec => []UploadIsWhole
<1>1. IInv => UploadIsWhole
  <2> SUFFICES ASSUME IInv PROVE UploadIsWhole
    OBVIOUS
  <2>1. CommittedImageWhole
    BY DEF IInv, ImageInv, Stored, CommittedImageWhole
  <2>2. LateWriteHeld
    BY DEF IInv, ImageInv, LateWriteHeld
  <2> QED BY <2>1, <2>2 DEF UploadIsWhole
<1> QED BY <1>1, InvariantHolds, PTL

\* However often the network repeats and the host retries a request, it acts at
\* most once, and an answer OK means that it has acted.
THEOREM AnswerSafe == Spec => []ActsAsAnswered
<1>1. IInv => ActsAsAnswered
  <2> SUFFICES ASSUME IInv PROVE ActsAsAnswered
    OBVIOUS
  <2>1. AtMostOnce
    BY DEF IInv, AnswerInv, AtMostOnce
  <2>2. OkMeansExecuted
    BY DEF IInv, AnswerInv, AnswerOK, Elems, OkMeansExecuted
  <2> QED BY <2>1, <2>2 DEF ActsAsAnswered
<1> QED BY <1>1, InvariantHolds, PTL

-----------------------------------------------------------------------------
(* Maximum-length records: the generator.                                   *)

Patterns == {"cw", "sine"}
Regions == {"start", "middle", "end", "body"}

\* The beat of the record of key k at position i.
Beat(k, i) == IF k[1] = "cw" THEN max_length_interleaved_beat(i, k[2]) ELSE i

\* v may stand at position i of a record of key k: it is the record's beat or,
\* when its chunks are not good, the body in place of the middle marker.
May(v, k, i, good) ==
  \/ v = Beat(k, i)
  \/ /\ ~good /\ k[1] = "cw" /\ max_length_marker_region(i, k[2]) = "middle"
     /\ v = max_length_marker_amplitude(1, "body")

\* s may be the piece of the record that begins at position from.
Piece(s, k, from, good) == \A j \in 1..Len(s) : May(s[j], k, from + j - 1, good)

LEMMA RegionIs ==
  ASSUME NEW i \in Nat, NEW t \in Nat
  PROVE  max_length_marker_region(i, t) \in Regions
BY DEF max_length_marker_region, Regions

LEMMA BeatIsNat ==
  ASSUME NEW k \in Keys, NEW i \in Nat
  PROVE  Beat(k, i) \in Nat
<1>1. k[2] \in Nat
  BY RecordSizes DEF Keys
<1>2. max_length_marker_region(i, k[2]) \in Regions
  BY <1>1, RegionIs
<1> QED BY <1>2 DEF Beat, max_length_interleaved_beat, max_length_marker_amplitude, Regions

\* A chunk whose ends are in one region lies in it, or it goes from the body over
\* the middle marker, of MARKER beats, to the body.
LEMMA RegionBetween ==
  ASSUME NEW i \in Nat, NEW j \in Nat, NEW l \in Nat, NEW t \in Nat,
         i <= j, j <= l,
         max_length_marker_region(l, t) = max_length_marker_region(i, t)
  PROVE  \/ max_length_marker_region(j, t) = max_length_marker_region(i, t)
         \/ /\ max_length_marker_region(i, t) = "body" /\ max_length_marker_region(j, t) = "middle"
            /\ l > i + MARKER
<1>1. MARKER \in Nat \ {0}
  BY RecordSizes
<1> DEFINE m == IF t \div 2 > MARKER \div 2 THEN t \div 2 - MARKER \div 2 ELSE 0
<1>2. m \in Nat
  BY <1>1
<1>3. ASSUME NEW x \in Nat
      PROVE  max_length_marker_region(x, t) =
               CASE x < MARKER -> "start"
                 [] x >= MARKER /\ m <= x /\ x < m + MARKER -> "middle"
                 [] x >= MARKER /\ ~(m <= x /\ x < m + MARKER) /\ x >= t - MARKER -> "end"
                 [] OTHER -> "body"
  BY DEF max_length_marker_region
<1>4. m > 0 => t - MARKER >= m
  <2>1. PICK a \in Nat, b \in Nat : /\ a = t \div 2 /\ b = MARKER \div 2
                                   /\ 2 * a <= t /\ MARKER <= 2 * b + 1
    BY <1>1
  <2> QED BY <1>1, <2>1
<1> HIDE DEF m
<1> DEFINE region(x) == max_length_marker_region(x, t)
<1>5. ASSUME NEW x \in Nat
      PROVE  /\ region(x) = "start" <=> x < MARKER
             /\ region(x) = "middle" <=> x >= MARKER /\ m <= x /\ x < m + MARKER
             /\ region(x) = "end" <=> x >= MARKER /\ ~(m <= x /\ x < m + MARKER) /\ x >= t - MARKER
             /\ region(x) \in {"start", "middle", "end", "body"}
  BY <1>1, <1>2, <1>3
<1> HIDE DEF region
<1>6. region(l) = region(i)
  BY DEF region
<1>7. region(j) = region(i) \/ (region(i) = "body" /\ region(j) = "middle" /\ l > i + MARKER)
  <2>1. CASE region(i) = "start"
    BY <1>1, <1>5, <1>6, <2>1
  <2>2. CASE region(i) = "middle"
    BY <1>1, <1>2, <1>5, <1>6, <2>2
  <2>3. CASE region(i) = "end"
    BY <1>1, <1>2, <1>4, <1>5, <1>6, <2>3
  <2>4. CASE region(i) = "body"
    BY <1>1, <1>2, <1>5, <1>6, <2>4
  <2> QED BY <1>5, <2>1, <2>2, <2>3, <2>4
<1> QED BY <1>7 DEF region

\* Every nonempty set of natural numbers has a least element.
LEMMA LeastElement ==
  ASSUME NEW T \in SUBSET Nat, T # {}
  PROVE  \E x \in T : \A y \in T : x <= y
<1> DEFINE Less == {ss \in Nat \X Nat : ss[1] < ss[2]}
<1>1. IsWellFoundedOn(Less, Nat)
  BY NatLessThanWellFounded DEF OpToRel
<1> HIDE DEF Less
<1>2. PICK x \in T : \A y \in T : ~(<<y, x>> \in Less)
  BY <1>1, WFMin
<1>3. ASSUME NEW y \in T PROVE x <= y
  <2>1. x \in Nat /\ y \in Nat /\ <<y, x>> \in Nat \X Nat
    OBVIOUS
  <2>2. <<y, x>> \in Less <=> y < x
    BY <2>1 DEF Less
  <2> QED BY <1>2, <2>1, <2>2
<1> QED BY <1>3

\* A chunk has at least one beat, and its last one is in the region of its first.
LEMMA ChunkCountIs ==
  ASSUME NEW pattern \in Patterns, NEW t \in Nat, NEW i \in Nat, i < t, NEW chunk \in Nat \ {0}
  PROVE  LET n == ChunkCount(pattern, t, i, chunk) IN
         /\ n \in Nat \ {0} /\ n <= chunk /\ i + n <= t
         /\ pattern = "cw" => max_length_marker_region(i + n - 1, t) = max_length_marker_region(i, t)
<1> DEFINE most == Smaller(chunk, t - i)
           fits(n) == max_length_marker_region(i + n - 1, t) = max_length_marker_region(i, t)
<1>1. most \in Nat \ {0} /\ most <= chunk /\ i + most <= t
  BY DEF Smaller
<1>2. CASE pattern = "sine"
  BY <1>1, <1>2 DEF ChunkCount
<1>3. CASE pattern = "cw"
  <2> DEFINE T == {d \in 0..(most - 1) : fits(most - d)}
             N == CHOOSE n \in 1..most : fits(n) /\ \A k \in (n + 1)..most : ~fits(k)
  <2>1. fits(1)
    OBVIOUS
  <2>2. ChunkCount(pattern, t, i, chunk) = N
    BY <1>3 DEF ChunkCount
  <2> HIDE DEF most, fits
  <2>3. most - 1 \in T
    BY <1>1, <2>1
  <2>4. T \in SUBSET Nat /\ T # {}
    BY <2>3
  <2>5. PICK d \in T : \A y \in T : d <= y
    BY <2>4, LeastElement
  <2>6. d \in 0..(most - 1) /\ fits(most - d)
    OBVIOUS
  <2>7. ASSUME NEW k \in (most - d + 1)..most PROVE ~fits(k)
    <3>1. most - k \in 0..(most - 1) /\ ~(d <= most - k) /\ most - (most - k) = k
      BY <1>1, <2>6
    <3>2. most - k \notin T
      BY <2>5, <3>1
    <3> QED BY <3>1, <3>2
  <2>8. \E n \in 1..most : fits(n) /\ \A k \in (n + 1)..most : ~fits(k)
    <3>1. most - d \in 1..most
      BY <1>1, <2>6
    <3> QED BY <2>6, <2>7, <3>1
  <2>9. N \in 1..most /\ fits(N)
    BY <2>8
  <2> HIDE DEF N
  <2> QED BY <1>1, <2>2, <2>9 DEF fits
<1> QED BY <1>2, <1>3 DEF Patterns

-----------------------------------------------------------------------------
(* Maximum-length records: the invariant.                                   *)

ProcPcs == {"idle", "ensure", "write", "open", "begin", "chunk", "data", "committed", "datagrams",
            "done", "failed"}
ProcRec == [pc : ProcPcs, req : Requests, next : Nat, file : Seq(Nat), chunk : Seq(Nat), at : Nat,
            fault : BOOLEAN]
Memories == UNION {[D -> Nat] : D \in SUBSET Nat}
BoardRec == [ddr : Memories, committed : BOOLEAN, playing : BOOLEAN]
DatagramRec == [addr : Nat, data : Seq(Nat)]
Files == Seq(Nat) \cup {Absent}

RecordTypes ==
  /\ proc \in [Procs -> ProcRec]
  /\ cache \in [Keys -> Files] /\ tmp \in [Procs -> Files]
  /\ boards \in [Procs -> BoardRec]
  /\ link \in [Procs -> SUBSET DatagramRec]
  /\ crashes \in 0..MaxCrashes

\* No chunk of a record of the pattern can span a marker.
Safe(pattern, chunk) == pattern = "sine" \/ chunk <= MARKER + 1
SafeRequest(r) == Safe(r.pattern, LargestChunk(r))

KeyOf(r) == <<r.pattern, r.total>>

\* A memory has beats of the record of k where it has any.
Filled(f, k, good) == \A i \in DOMAIN f : May(f[i], k, i, good)

\* f is a complete file of key k.
WholeFile(f, k) == f \in Seq(Nat) /\ Len(f) = k[2] /\ Piece(f, k, 0, Safe(k[1], CHUNK))

CacheInv == \A k \in Keys : cache[k] = Absent \/ WholeFile(cache[k], k)

\* What process k has in hand, when t is its temporary file and c the cache.
ProcOK(k, c, t) ==
  LET r == k.req IN
  /\ k.next <= r.total /\ k.at <= r.total
  /\ k.pc \in {"ensure", "write", "open"} => r.cached
  /\ k.pc = "write" =>
       t \in Seq(Nat) /\ Len(t) = k.next /\ Piece(t, KeyOf(r), 0, Safe(r.pattern, CHUNK))
  /\ k.pc = "open" => WholeFile(c[KeyOf(r)], KeyOf(r))
  /\ k.pc \in {"begin", "chunk", "data", "datagrams"} /\ r.cached => WholeFile(k.file, KeyOf(r))
  /\ k.pc \in {"begin", "chunk", "data", "committed"} => r.route # "udp"
  /\ k.pc = "datagrams" => r.route = "udp"
  /\ k.pc = "chunk" => k.next = k.at
  /\ k.pc = "data" =>
       /\ Len(k.chunk) > 0 /\ k.at + Len(k.chunk) <= r.total
       /\ Piece(k.chunk, KeyOf(r), k.at, SafeRequest(r))
  /\ k.pc = "failed" /\ ~k.fault => r.route = "extreme" /\ k.at > 0

\* What its board b has and what datagrams N are on their way to it.
BoardOK(k, b, N) ==
  LET r == k.req IN
  /\ k.pc \in {"idle", "ensure", "write", "open", "begin"} => b = Fresh /\ N = {}
  /\ N # {} => r.route = "udp" /\ k.pc \in {"datagrams", "done"}
  /\ \A d \in N : d.addr + Len(d.data) <= r.total /\ Piece(d.data, KeyOf(r), d.addr, SafeRequest(r))
  /\ DOMAIN b.ddr \subseteq 0..(r.total - 1)
  /\ Filled(b.ddr, KeyOf(r), SafeRequest(r))
  /\ k.pc \in {"chunk", "data"} => DOMAIN b.ddr = 0..(k.at - 1)
  /\ b.committed => DOMAIN b.ddr = 0..(r.total - 1) /\ r.route # "udp"
  /\ k.pc = "committed" => b.committed
  /\ b.playing => b.committed

RecordIInv ==
  /\ RecordTypes /\ CacheInv
  /\ \A p \in Procs : ProcOK(proc[p], cache, tmp[p]) /\ BoardOK(proc[p], boards[p], link[p])

LEMMA RequestIs ==
  ASSUME NEW r \in Requests
  PROVE  /\ r.route \in {"cli", "extreme", "udp"} /\ r.pattern \in Patterns
         /\ r.cached \in BOOLEAN /\ r.only \in {"all", "cache", "dry", "wait"}
         /\ r.total \in Nat \ {0} /\ KeyOf(r) \in Keys
         /\ KeyOf(r)[1] = r.pattern /\ KeyOf(r)[2] = r.total
<1>1. r.total \in Totals /\ r.pattern \in Patterns
  BY RequestsAssumption DEF Patterns
<1>2. r.total \in Nat \ {0}
  BY <1>1, RecordSizes
<1> QED BY <1>1, <1>2, RequestsAssumption DEF KeyOf, Keys, Patterns

LEMMA KeyIs ==
  ASSUME NEW k \in Keys
  PROVE  k = <<k[1], k[2]>> /\ k[1] \in Patterns /\ k[2] \in Nat \ {0}
BY RecordSizes DEF Keys, Patterns

LEMMA ChunkSizes ==
  /\ CHUNK \in Nat \ {0} /\ DATAGRAM \in Nat \ {0} /\ PACKET \in Nat \ {0}
  /\ MARKER \in Nat \ {0}
BY RecordSizes

LEMMA IdleIs == Idle \in ProcRec /\ Idle.req \in Requests /\ Idle.pc = "idle" /\ Idle.next = 0 /\ Idle.at = 0
<1>1. (CHOOSE r \in Requests : TRUE) \in Requests
  BY RequestsAssumption
<1> QED BY <1>1 DEF Idle, ProcRec, ProcPcs

LEMMA MemoryIs ==
  ASSUME NEW D \in SUBSET Nat, NEW f \in [D -> Nat]
  PROVE  f \in Memories
BY DEF Memories

LEMMA MemoryOf ==
  ASSUME NEW f \in Memories
  PROVE  DOMAIN f \subseteq Nat /\ f \in [DOMAIN f -> Nat]
<1>1. PICK D \in SUBSET Nat : f \in [D -> Nat]
  BY DEF Memories
<1> QED BY <1>1

LEMMA FreshIs ==
  /\ Fresh \in BoardRec /\ DOMAIN Fresh.ddr = {}
  /\ Fresh.committed = FALSE /\ Fresh.playing = FALSE
<1>1. [i \in {} |-> 0] \in [{} -> Nat]
  OBVIOUS
<1>2. [i \in {} |-> 0] \in Memories
  BY <1>1, MemoryIs
<1> QED BY <1>2 DEF Fresh, BoardRec

\* A process that has not sent anything yet.
LEMMA FreshOK ==
  ASSUME NEW k \in ProcRec, k.pc \in ProcPcs \ {"chunk", "data", "committed"}
  PROVE  BoardOK(k, Fresh, {})
BY FreshIs DEF BoardOK, Filled

-----------------------------------------------------------------------------
(* Pieces of a record.                                                      *)

\* A piece of a sequence.
LEMMA SubSeqIs ==
  ASSUME NEW s \in Seq(Nat), NEW a \in Nat \ {0}, NEW b \in Nat, a <= b + 1, b <= Len(s)
  PROVE  /\ SubSeq(s, a, b) \in Seq(Nat) /\ Len(SubSeq(s, a, b)) = b - a + 1
         /\ \A j \in 1..(b - a + 1) : SubSeq(s, a, b)[j] = s[a + j - 1]
OBVIOUS

LEMMA SubPiece ==
  ASSUME NEW s \in Seq(Nat), NEW a \in Nat \ {0}, NEW b \in Nat, a <= b + 1, b <= Len(s),
         NEW k, NEW from \in Nat, NEW good, Piece(s, k, from, good)
  PROVE  Piece(SubSeq(s, a, b), k, from + a - 1, good)
<1>1. SubSeq(s, a, b) \in Seq(Nat) /\ Len(SubSeq(s, a, b)) = b - a + 1
  BY SubSeqIs
<1>2. ASSUME NEW j \in 1..(b - a + 1) PROVE May(SubSeq(s, a, b)[j], k, (from + a - 1) + j - 1, good)
  <2>1. a + j - 1 \in 1..Len(s) /\ from + (a + j - 1) - 1 = (from + a - 1) + j - 1
    OBVIOUS
  <2>2. May(s[a + j - 1], k, from + (a + j - 1) - 1, good)
    BY <2>1 DEF Piece
  <2>3. SubSeq(s, a, b)[j] = s[a + j - 1]
    BY SubSeqIs
  <2> QED BY <2>1, <2>2, <2>3
<1> QED BY <1>1, <1>2 DEF Piece

\* Two pieces that meet.
LEMMA JoinPieces ==
  ASSUME NEW s \in Seq(Nat), NEW t \in Seq(Nat), NEW k, NEW from \in Nat, NEW good,
         Piece(s, k, from, good), Piece(t, k, from + Len(s), good)
  PROVE  s \o t \in Seq(Nat) /\ Len(s \o t) = Len(s) + Len(t) /\ Piece(s \o t, k, from, good)
<1>1. s \o t \in Seq(Nat) /\ Len(s \o t) = Len(s) + Len(t)
  OBVIOUS
<1>2. ASSUME NEW j \in 1..(Len(s) + Len(t)) PROVE May((s \o t)[j], k, from + j - 1, good)
  <2>1. CASE j <= Len(s)
    <3>1. (s \o t)[j] = s[j] /\ j \in 1..Len(s)
      BY <2>1
    <3> QED BY <3>1 DEF Piece
  <2>2. CASE j > Len(s)
    <3>1. (s \o t)[j] = t[j - Len(s)] /\ j - Len(s) \in 1..Len(t)
      BY <2>2
    <3>2. May(t[j - Len(s)], k, (from + Len(s)) + (j - Len(s)) - 1, good)
      BY <3>1 DEF Piece
    <3>3. (from + Len(s)) + (j - Len(s)) - 1 = from + j - 1
      OBVIOUS
    <3> QED BY <3>1, <3>2, <3>3
  <2> QED BY <2>1, <2>2
<1> QED BY <1>1, <1>2 DEF Piece

\* What the generator yields at position i.
LEMMA GeneratedIs ==
  ASSUME NEW r \in Requests, NEW i \in Nat, i < r.total, NEW chunk \in Nat \ {0}
  PROVE  LET c == iter_max_length_payload_chunks(r.pattern, r.total, i, chunk) IN
         /\ c \in Seq(Nat) /\ Len(c) > 0 /\ i + Len(c) <= r.total
         /\ Piece(c, KeyOf(r), i, Safe(r.pattern, chunk))
<1> DEFINE n == ChunkCount(r.pattern, r.total, i, chunk)
           c == iter_max_length_payload_chunks(r.pattern, r.total, i, chunk)
<1>1. r.pattern \in Patterns /\ r.total \in Nat /\ KeyOf(r) \in Keys
      /\ KeyOf(r)[1] = r.pattern /\ KeyOf(r)[2] = r.total
  BY RequestIs
<1>2. /\ n \in Nat \ {0} /\ n <= chunk /\ i + n <= r.total
      /\ r.pattern = "cw" => max_length_marker_region(i + n - 1, r.total) = max_length_marker_region(i, r.total)
  BY <1>1, ChunkCountIs
<1>3. CASE r.pattern = "sine"
  <2>1. c = [j \in 1..n |-> i + j - 1]
    BY <1>3 DEF iter_max_length_payload_chunks, max_length_lowfreq_sine_payload
  <2> HIDE DEF n, c
  <2>2. \A j \in 1..n : i + j - 1 \in Nat /\ Beat(KeyOf(r), i + j - 1) = i + j - 1
    BY <1>1, <1>2, <1>3 DEF Beat
  <2>3. c \in Seq(Nat) /\ Len(c) = n
    BY <1>2, <2>1, <2>2
  <2>4. \A j \in 1..n : c[j] = Beat(KeyOf(r), i + j - 1)
    BY <2>1, <2>2
  <2> QED BY <1>2, <2>3, <2>4 DEF Piece, May, c
<1>4. CASE r.pattern = "cw"
  <2> DEFINE b == max_length_interleaved_beat(i, r.total)
  <2>1. c = [j \in 1..n |-> b]
    BY <1>4 DEF iter_max_length_payload_chunks
  <2>2. b = Beat(KeyOf(r), i)
    BY <1>1, <1>4 DEF Beat
  <2>3. b \in Nat
    BY <1>1, <2>2, BeatIsNat
  <2>4. ASSUME NEW j \in 1..n PROVE May(b, KeyOf(r), i + j - 1, Safe(r.pattern, chunk))
    <3> DEFINE x == i + j - 1
               l == i + n - 1
    <3> HIDE DEF n
    <3>1. x \in Nat /\ l \in Nat /\ i <= x /\ x <= l
      BY <1>2
    <3>2. \/ max_length_marker_region(x, r.total) = max_length_marker_region(i, r.total)
          \/ /\ max_length_marker_region(i, r.total) = "body" /\ max_length_marker_region(x, r.total) = "middle"
             /\ l > i + MARKER
      BY <1>1, <1>2, <1>4, <3>1, RegionBetween
    <3>3. l > i + MARKER => ~(chunk <= MARKER + 1)
      BY <1>2, ChunkSizes
    <3> HIDE DEF x, l
    <3>4. CASE max_length_marker_region(x, r.total) = max_length_marker_region(i, r.total)
      <4>1. b = Beat(KeyOf(r), x)
        BY <1>1, <1>4, <3>4 DEF Beat, max_length_interleaved_beat
      <4> QED BY <4>1 DEF May, x
    <3>5. CASE /\ max_length_marker_region(i, r.total) = "body" /\ max_length_marker_region(x, r.total) = "middle"
               /\ l > i + MARKER
      <4>1. ~Safe(r.pattern, chunk)
        BY <1>4, <3>3, <3>5 DEF Safe
      <4>2. b = max_length_marker_amplitude(1, "body")
        BY <3>5 DEF max_length_interleaved_beat
      <4> QED BY <1>1, <1>4, <3>5, <4>1, <4>2 DEF May, x
    <3> QED BY <3>2, <3>4, <3>5
  <2> HIDE DEF n, c, b
  <2>5. c \in Seq(Nat) /\ Len(c) = n
    BY <1>2, <2>1, <2>3
  <2>6. \A j \in 1..n : May(c[j], KeyOf(r), i + j - 1, Safe(r.pattern, chunk))
    BY <2>1, <2>4
  <2> QED BY <1>2, <2>5, <2>6 DEF Piece, c
<1> QED BY <1>1, <1>3, <1>4 DEF Patterns

\* What a reader of a complete file yields at position i.
LEMMA ReadIs ==
  ASSUME NEW r \in Requests, NEW i \in Nat, i < r.total, NEW chunk \in Nat \ {0},
         NEW f, WholeFile(f, KeyOf(r))
  PROVE  LET c == iter_max_length_payload_chunks_from_cache(f, i, chunk) IN
         /\ c \in Seq(Nat) /\ Len(c) > 0 /\ i + Len(c) <= r.total
         /\ Piece(c, KeyOf(r), i, Safe(r.pattern, CHUNK))
<1> DEFINE b == Smaller(i + chunk, Len(f))
<1>1. /\ f \in Seq(Nat) /\ Len(f) = r.total /\ Piece(f, KeyOf(r), 0, Safe(r.pattern, CHUNK))
      /\ r.total \in Nat
  BY RequestIs DEF WholeFile
<1>2. b \in Nat /\ i + 1 <= b /\ b <= Len(f)
  BY <1>1 DEF Smaller
<1>3. iter_max_length_payload_chunks_from_cache(f, i, chunk) = SubSeq(f, i + 1, b)
  BY DEF iter_max_length_payload_chunks_from_cache
<1> HIDE DEF b
<1>4. SubSeq(f, i + 1, b) \in Seq(Nat) /\ Len(SubSeq(f, i + 1, b)) = b - (i + 1) + 1
  <2>1. i + 1 \in Nat \ {0} /\ i + 1 <= b + 1
    BY <1>2
  <2> QED BY <1>1, <1>2, <2>1, SubSeqIs
<1>5. Piece(SubSeq(f, i + 1, b), KeyOf(r), i, Safe(r.pattern, CHUNK))
  <2>1. i + 1 \in Nat \ {0} /\ i + 1 <= b + 1 /\ 0 + (i + 1) - 1 = i /\ 0 \in Nat
    BY <1>2
  <2>2. Piece(SubSeq(f, i + 1, b), KeyOf(r), 0 + (i + 1) - 1, Safe(r.pattern, CHUNK))
    BY <1>1, <1>2, <2>1, SubPiece
  <2> QED BY <2>1, <2>2
<1> QED BY <1>1, <1>2, <1>3, <1>4, <1>5

-----------------------------------------------------------------------------
(* Maximum-length records: the steps.                                       *)

\* A record that is safe with its largest chunk is safe with the chunks it is
\* made in.
LEMMA NextChunkIs ==
  ASSUME RecordIInv, NEW p \in Procs, proc[p].pc \in {"chunk", "datagrams"},
         proc[p].next < proc[p].req.total
  PROVE  /\ NextChunk(p) \in Seq(Nat) /\ Len(NextChunk(p)) > 0
         /\ proc[p].next + Len(NextChunk(p)) <= proc[p].req.total
         /\ Piece(NextChunk(p), KeyOf(proc[p].req), proc[p].next, SafeRequest(proc[p].req))
<1> DEFINE k == proc[p]
           r == proc[p].req
<1>1. k.next \in Nat /\ r \in Requests /\ ProcOK(k, cache, tmp[p])
  BY DEF RecordIInv, RecordTypes, ProcRec
<1>2. CASE r.cached
  <2>1. WholeFile(k.file, KeyOf(r))
    BY <1>1, <1>2 DEF ProcOK
  <2>2. ChunkBeats(p) \in Nat \ {0}
    BY ChunkSizes DEF ChunkBeats
  <2>3. NextChunk(p) = iter_max_length_payload_chunks_from_cache(k.file, k.next, ChunkBeats(p))
    BY <1>2 DEF NextChunk, Req
  <2>4. SafeRequest(r) = Safe(r.pattern, CHUNK)
    BY <1>2 DEF SafeRequest, LargestChunk
  <2> QED BY <1>1, <2>1, <2>2, <2>3, <2>4, ReadIs
<1>3. CASE ~r.cached
  <2>1. ChunkBeats(p) \in Nat \ {0} /\ ChunkBeats(p) = LargestChunk(r)
    BY <1>3, ChunkSizes DEF ChunkBeats, LargestChunk, Req
  <2>2. NextChunk(p) = iter_max_length_payload_chunks(r.pattern, r.total, k.next, ChunkBeats(p))
    BY <1>3 DEF NextChunk, Req
  <2>3. SafeRequest(r) = Safe(r.pattern, ChunkBeats(p))
    BY <2>1 DEF SafeRequest
  <2> QED BY <1>1, <2>1, <2>2, <2>3, GeneratedIs
<1> QED BY <1>2, <1>3

\* A step of process p; the others rely on nothing of it but complete files.
LEMMA RecordStep ==
  ASSUME RecordIInv, RecordTypes', CacheInv', NEW p \in Procs,
         \A q \in Procs \ {p} : /\ proc'[q] = proc[q] /\ tmp'[q] = tmp[q]
                                /\ boards'[q] = boards[q] /\ link'[q] = link[q],
         \A k \in Keys : WholeFile(cache[k], k) => WholeFile(cache'[k], k),
         ProcOK(proc'[p], cache', tmp'[p]), BoardOK(proc'[p], boards'[p], link'[p])
  PROVE  RecordIInv'
<1>1. ASSUME NEW q \in Procs
      PROVE  ProcOK(proc'[q], cache', tmp'[q]) /\ BoardOK(proc'[q], boards'[q], link'[q])
  <2>1. CASE q = p
    BY <2>1
  <2>2. CASE q # p
    <3>1. proc'[q] = proc[q] /\ tmp'[q] = tmp[q] /\ boards'[q] = boards[q] /\ link'[q] = link[q]
      BY <2>2
    <3>2. proc[q].req \in Requests /\ ProcOK(proc[q], cache, tmp[q]) /\ BoardOK(proc[q], boards[q], link[q])
      BY DEF RecordIInv, RecordTypes, ProcRec
    <3>3. KeyOf(proc[q].req) \in Keys
      BY <3>2, RequestIs
    <3>4. ProcOK(proc[q], cache', tmp[q])
      BY <3>2, <3>3 DEF ProcOK
    <3> QED BY <3>1, <3>2, <3>4
  <2> QED BY <2>1, <2>2
<1> QED BY <1>1 DEF RecordIInv

\* The same for a step that leaves the files alone.
LEMMA UploadMove ==
  ASSUME RecordIInv, NEW p \in Procs, NEW k \in ProcRec, NEW b \in BoardRec,
         NEW N \in SUBSET DatagramRec,
         proc' = [proc EXCEPT ![p] = k], boards' = [boards EXCEPT ![p] = b],
         link' = [link EXCEPT ![p] = N], UNCHANGED <<cache, tmp>>, crashes' \in 0..MaxCrashes,
         ProcOK(k, cache, tmp[p]), BoardOK(k, b, N)
  PROVE  RecordIInv'
<1>1. RecordTypes' /\ CacheInv'
  BY DEF RecordIInv, RecordTypes, CacheInv
<1>2. \A q \in Procs \ {p} : /\ proc'[q] = proc[q] /\ tmp'[q] = tmp[q]
                             /\ boards'[q] = boards[q] /\ link'[q] = link[q]
  BY DEF RecordIInv, RecordTypes
<1>3. ProcOK(proc'[p], cache', tmp'[p]) /\ BoardOK(proc'[p], boards'[p], link'[p])
  BY DEF RecordIInv, RecordTypes
<1> QED BY <1>1, <1>2, <1>3, RecordStep

LEMMA SameBoard ==
  ASSUME RecordTypes, NEW p \in Procs
  PROVE  boards = [boards EXCEPT ![p] = boards[p]] /\ link = [link EXCEPT ![p] = link[p]]
BY DEF RecordTypes

\* What the invariant says of a process.
LEMMA ProcIs ==
  ASSUME RecordIInv, NEW p \in Procs
  PROVE  /\ proc[p] \in ProcRec /\ proc[p].req \in Requests /\ boards[p] \in BoardRec
         /\ link[p] \in SUBSET DatagramRec /\ crashes \in 0..MaxCrashes /\ tmp[p] \in Files
         /\ ProcOK(proc[p], cache, tmp[p]) /\ BoardOK(proc[p], boards[p], link[p])
         /\ Key(p) = KeyOf(proc[p].req) /\ Key(p) \in Keys
         /\ boards = [boards EXCEPT ![p] = boards[p]] /\ link = [link EXCEPT ![p] = link[p]]
<1>1. proc[p] \in ProcRec /\ proc[p].req \in Requests
  BY DEF RecordIInv, RecordTypes, ProcRec
<1>2. Key(p) = KeyOf(proc[p].req) /\ Key(p) \in Keys
  BY <1>1, RequestIs DEF Key, KeyOf, Req
<1> QED BY <1>1, <1>2, SameBoard DEF RecordIInv, RecordTypes

\* A process starts: it has sent nothing.
LEMMA StartStep ==
  ASSUME RecordIInv, NEW p \in Procs, NEW r \in Requests, NEW pc \in {"done", "ensure", "begin", "datagrams"},
         At(p, "idle"), proc' = [proc EXCEPT ![p] = [Idle EXCEPT !.req = r, !.pc = pc]],
         UNCHANGED <<cache, tmp, boards, link, crashes>>,
         pc = "ensure" => r.cached, pc = "begin" => r.route # "udp" /\ ~r.cached,
         pc = "datagrams" => r.route = "udp" /\ ~r.cached
  PROVE  RecordIInv'
<1> DEFINE k == [Idle EXCEPT !.req = r, !.pc = pc]
<1>1. k \in ProcRec /\ k.pc = pc /\ k.req = r /\ k.next = 0 /\ k.at = 0
  BY IdleIs DEF ProcRec, ProcPcs
<1>2. boards[p] = Fresh /\ link[p] = {}
  BY ProcIs DEF BoardOK, At
<1> HIDE DEF k
<1>3. ProcOK(k, cache, tmp[p])
  BY <1>1, RequestIs DEF ProcOK
<1>4. BoardOK(k, boards[p], link[p])
  BY <1>1, <1>2, FreshOK DEF ProcPcs
<1>5. proc' = [proc EXCEPT ![p] = k]
  BY DEF k
<1>6. boards' = [boards EXCEPT ![p] = boards[p]] /\ link' = [link EXCEPT ![p] = link[p]]
  BY ProcIs
<1>7. /\ boards[p] \in BoardRec /\ link[p] \in SUBSET DatagramRec
      /\ crashes' \in 0..MaxCrashes /\ UNCHANGED <<cache, tmp>>
  BY ProcIs
<1> QED BY <1>1, <1>3, <1>4, <1>5, <1>6, <1>7, UploadMove

LEMMA StartsStep ==
  ASSUME RecordIInv, NEW p \in Procs,
         run_max_length(p) \/ run_extreme_playback(p) \/ upload_max_length_udp(p)
  PROVE  RecordIInv'
<1>1. CASE run_max_length(p)
  <2>1. PICK r \in Requests :
          /\ r.route = "cli"
          /\ proc' = [proc EXCEPT ![p] = [Idle EXCEPT !.req = r, !.pc =
               CASE r.only = "dry" -> "done" [] r.only # "dry" /\ r.cached -> "ensure"
                 [] OTHER -> "begin"]]
    BY <1>1 DEF run_max_length
  <2> DEFINE pc == CASE r.only = "dry" -> "done" [] r.only # "dry" /\ r.cached -> "ensure" [] OTHER -> "begin"
  <2>2. /\ pc \in {"done", "ensure", "begin", "datagrams"}
        /\ pc = "ensure" => r.cached
        /\ pc = "begin" => r.route # "udp" /\ ~r.cached
        /\ pc # "datagrams"
    BY <2>1
  <2>3. proc' = [proc EXCEPT ![p] = [Idle EXCEPT !.req = r, !.pc = pc]]
    BY <2>1
  <2> HIDE DEF pc
  <2> QED BY <1>1, <2>2, <2>3, StartStep DEF run_max_length
<1>2. CASE run_extreme_playback(p)
  <2>1. PICK r \in Requests :
          /\ r.route = "extreme"
          /\ proc' = [proc EXCEPT ![p] = [Idle EXCEPT !.req = r, !.pc =
               CASE r.only = "dry" -> "done" [] r.only # "dry" /\ r.cached -> "ensure"
                 [] OTHER -> "begin"]]
    BY <1>2 DEF run_extreme_playback
  <2> DEFINE pc == CASE r.only = "dry" -> "done" [] r.only # "dry" /\ r.cached -> "ensure" [] OTHER -> "begin"
  <2>2. /\ pc \in {"done", "ensure", "begin", "datagrams"}
        /\ pc = "ensure" => r.cached
        /\ pc = "begin" => r.route # "udp" /\ ~r.cached
        /\ pc # "datagrams"
    BY <2>1
  <2>3. proc' = [proc EXCEPT ![p] = [Idle EXCEPT !.req = r, !.pc = pc]]
    BY <2>1
  <2> HIDE DEF pc
  <2> QED BY <1>2, <2>2, <2>3, StartStep DEF run_extreme_playback
<1>3. CASE upload_max_length_udp(p)
  <2>1. PICK r \in Requests :
          /\ r.route = "udp"
          /\ proc' = [proc EXCEPT ![p] = [Idle EXCEPT !.req = r, !.pc =
               IF r.cached THEN "ensure" ELSE "datagrams"]]
    BY <1>3 DEF upload_max_length_udp
  <2> QED BY <1>3, <2>1, StartStep DEF upload_max_length_udp
<1> QED BY <1>1, <1>2, <1>3

\* A process that has sent nothing goes on to pc.
LEMMA QuietMove ==
  ASSUME RecordIInv, NEW p \in Procs, NEW k \in ProcRec, proc' = [proc EXCEPT ![p] = k],
         UNCHANGED <<cache, tmp, boards, link, crashes>>,
         proc[p].pc \in {"idle", "ensure", "write", "open", "begin"},
         k.pc \in ProcPcs \ {"chunk", "data", "committed"}, ProcOK(k, cache, tmp[p])
  PROVE  RecordIInv'
<1>1. boards[p] = Fresh /\ link[p] = {}
  BY ProcIs DEF BoardOK
<1>2. BoardOK(k, boards[p], link[p])
  BY <1>1, FreshOK
<1>3. boards' = [boards EXCEPT ![p] = boards[p]] /\ link' = [link EXCEPT ![p] = link[p]]
  BY ProcIs
<1> QED BY <1>2, <1>3, ProcIs, UploadMove

LEMMA ReuseStep ==
  ASSUME RecordIInv, NEW p \in Procs, reuse(p)
  PROVE  RecordIInv'
<1> DEFINE k == [proc[p] EXCEPT !.pc = AfterEnsure(p)]
<1>1. AfterEnsure(p) \in {"done", "open"}
  BY DEF AfterEnsure
<1>2. /\ k \in ProcRec /\ k.pc = AfterEnsure(p) /\ k.req = proc[p].req /\ k.next = proc[p].next
      /\ k.at = proc[p].at
  BY <1>1, ProcIs DEF ProcRec, ProcPcs
<1>3. WholeFile(cache[Key(p)], Key(p))
  BY ProcIs DEF reuse, RecordIInv, CacheInv
<1> HIDE DEF k
<1>4. ProcOK(k, cache, tmp[p])
  <2>1. proc[p].req.cached /\ proc[p].next <= proc[p].req.total /\ proc[p].at <= proc[p].req.total
    BY ProcIs DEF reuse, At, ProcOK
  <2> QED BY <1>1, <1>2, <1>3, <2>1, ProcIs DEF ProcOK
<1>5. proc' = [proc EXCEPT ![p] = k]
  BY DEF reuse, Goto, k
<1> QED BY <1>1, <1>2, <1>4, <1>5, QuietMove DEF reuse, At, ProcPcs

LEMMA OpenTmpStep ==
  ASSUME RecordIInv, NEW p \in Procs, open_tmp(p)
  PROVE  RecordIInv'
<1> DEFINE k == [proc[p] EXCEPT !.pc = "write", !.next = 0]
<1>1. k \in ProcRec /\ k.pc = "write" /\ k.req = proc[p].req /\ k.next = 0 /\ k.at = proc[p].at
  BY ProcIs DEF ProcRec, ProcPcs
<1>2. boards[p] = Fresh /\ link[p] = {}
  BY ProcIs DEF BoardOK, open_tmp, At
<1> HIDE DEF k
<1>3. ProcOK(k, cache, <<>>)
  <2>1. proc[p].req.cached /\ proc[p].at <= proc[p].req.total /\ proc[p].req.total \in Nat
    BY ProcIs, RequestIs DEF open_tmp, At, ProcOK
  <2>2. <<>> \in Seq(Nat) /\ Len(<<>>) = 0
    OBVIOUS
  <2> QED BY <1>1, <2>1, <2>2 DEF ProcOK, Piece
<1>4. BoardOK(k, boards[p], link[p])
  BY <1>1, <1>2, FreshOK DEF ProcPcs
<1>5. proc' = [proc EXCEPT ![p] = k] /\ tmp' = [tmp EXCEPT ![p] = <<>>]
  BY DEF open_tmp, k
<1>6. UNCHANGED <<cache, boards, link, crashes>>
  BY DEF open_tmp
<1>7. RecordTypes' /\ CacheInv'
  BY <1>1, <1>5, <1>6 DEF RecordIInv, RecordTypes, CacheInv, Files
<1>8. proc'[p] = k /\ tmp'[p] = <<>>
  BY <1>5 DEF RecordIInv, RecordTypes
<1>9. \A q \in Procs \ {p} : proc'[q] = proc[q] /\ tmp'[q] = tmp[q] /\ boards'[q] = boards[q] /\ link'[q] = link[q]
  BY <1>5, <1>6 DEF RecordIInv, RecordTypes
<1> QED BY <1>3, <1>4, <1>6, <1>7, <1>8, <1>9, RecordStep

LEMMA WriteChunkStep ==
  ASSUME RecordIInv, NEW p \in Procs, write_chunk(p)
  PROVE  RecordIInv'
<1> DEFINE r == proc[p].req
           c == iter_max_length_payload_chunks(r.pattern, r.total, proc[p].next, CHUNK)
           k == [proc[p] EXCEPT !.next = @ + Len(c)]
<1>1. proc[p].pc = "write" /\ proc[p].next < r.total /\ r \in Requests /\ proc[p].next \in Nat
  BY ProcIs DEF write_chunk, At, Req, ProcRec
<1>2. /\ c \in Seq(Nat) /\ Len(c) > 0 /\ proc[p].next + Len(c) <= r.total
      /\ Piece(c, KeyOf(r), proc[p].next, Safe(r.pattern, CHUNK))
  BY <1>1, ChunkSizes, GeneratedIs
<1>3. /\ tmp[p] \in Seq(Nat) /\ Len(tmp[p]) = proc[p].next
      /\ Piece(tmp[p], KeyOf(r), 0, Safe(r.pattern, CHUNK))
      /\ r.cached /\ proc[p].at <= r.total
  BY <1>1, ProcIs DEF ProcOK
<1>4. proc' = [proc EXCEPT ![p] = k] /\ tmp' = [tmp EXCEPT ![p] = tmp[p] \o c]
  BY DEF write_chunk, Req
<1>5. UNCHANGED <<cache, boards, link, crashes>>
  BY DEF write_chunk
<1> HIDE DEF c
<1>6. /\ k \in ProcRec /\ k.pc = "write" /\ k.req = r /\ k.next = proc[p].next + Len(c) /\ k.at = proc[p].at
  <2>1. proc[p] \in ProcRec /\ proc[p].next + Len(c) \in Nat
    BY <1>1, <1>2, ProcIs
  <2> QED BY <1>1, <2>1 DEF ProcRec, ProcPcs
<1> HIDE DEF k
<1>7. /\ tmp[p] \o c \in Seq(Nat) /\ Len(tmp[p] \o c) = k.next
      /\ Piece(tmp[p] \o c, KeyOf(r), 0, Safe(r.pattern, CHUNK))
  <2>1. Piece(c, KeyOf(r), 0 + Len(tmp[p]), Safe(r.pattern, CHUNK))
    BY <1>1, <1>2, <1>3
  <2> QED BY <1>2, <1>3, <1>6, <2>1, JoinPieces
<1>8. ProcOK(k, cache, tmp[p] \o c)
  BY <1>2, <1>3, <1>6, <1>7 DEF ProcOK
<1>9. BoardOK(k, boards[p], link[p])
  <2>1. boards[p] = Fresh /\ link[p] = {}
    BY <1>1, ProcIs DEF BoardOK
  <2> QED BY <1>6, <2>1, FreshOK DEF ProcPcs
<1>10. RecordTypes' /\ CacheInv'
  BY <1>4, <1>5, <1>6, <1>7 DEF RecordIInv, RecordTypes, CacheInv, Files
<1>11. proc'[p] = k /\ tmp'[p] = tmp[p] \o c
  BY <1>4 DEF RecordIInv, RecordTypes
<1>12. \A q \in Procs \ {p} : proc'[q] = proc[q] /\ tmp'[q] = tmp[q] /\ boards'[q] = boards[q] /\ link'[q] = link[q]
  BY <1>4, <1>5 DEF RecordIInv, RecordTypes
<1> QED BY <1>5, <1>8, <1>9, <1>10, <1>11, <1>12, RecordStep

\* The file that is put in place is complete.
LEMMA ReplaceStep ==
  ASSUME RecordIInv, NEW p \in Procs, replace(p)
  PROVE  RecordIInv'
<1> DEFINE r == proc[p].req
           k == [proc[p] EXCEPT !.pc = AfterEnsure(p), !.next = 0]
<1>1. /\ proc[p].pc = "write" /\ proc[p].next = r.total /\ r \in Requests
      /\ Key(p) = KeyOf(r) /\ Key(p) \in Keys /\ AfterEnsure(p) \in {"done", "open"}
  BY ProcIs DEF replace, At, Req, AfterEnsure
<1>2. WholeFile(tmp[p], KeyOf(r)) /\ r.cached /\ proc[p].at <= r.total
  BY <1>1, ProcIs, RequestIs DEF ProcOK, WholeFile
<1>3. k \in ProcRec /\ k.pc = AfterEnsure(p) /\ k.req = r /\ k.next = 0 /\ k.at = proc[p].at
  BY <1>1, ProcIs DEF ProcRec, ProcPcs
<1>4. /\ proc' = [proc EXCEPT ![p] = k] /\ tmp' = [tmp EXCEPT ![p] = Absent]
      /\ cache' = [cache EXCEPT ![KeyOf(r)] = tmp[p]]
  BY <1>1 DEF replace
<1>5. UNCHANGED <<boards, link, crashes>>
  BY DEF replace
<1> HIDE DEF k
<1>6. cache'[KeyOf(r)] = tmp[p] /\ \A j \in Keys \ {KeyOf(r)} : cache'[j] = cache[j]
  BY <1>1, <1>4 DEF RecordIInv, RecordTypes
<1>7. \A j \in Keys : WholeFile(cache[j], j) => WholeFile(cache'[j], j)
  BY <1>2, <1>6
<1>8. ProcOK(k, cache', Absent)
  <2>1. r.total \in Nat
    BY <1>1, RequestIs
  <2> QED BY <1>1, <1>2, <1>3, <1>6, <2>1 DEF ProcOK
<1>9. BoardOK(k, boards[p], link[p])
  <2>1. boards[p] = Fresh /\ link[p] = {}
    BY <1>1, ProcIs DEF BoardOK
  <2> QED BY <1>1, <1>3, <2>1, FreshOK DEF ProcPcs
<1>10. RecordTypes'
  <2>1. tmp[p] \in Seq(Nat)
    BY <1>2 DEF WholeFile
  <2> QED BY <1>3, <1>4, <1>5, <2>1 DEF RecordIInv, RecordTypes, Files
<1>11. CacheInv'
  BY <1>2, <1>6 DEF RecordIInv, CacheInv
<1>12. proc'[p] = k /\ tmp'[p] = Absent
  BY <1>4 DEF RecordIInv, RecordTypes
<1>13. \A q \in Procs \ {p} : proc'[q] = proc[q] /\ tmp'[q] = tmp[q] /\ boards'[q] = boards[q] /\ link'[q] = link[q]
  BY <1>4, <1>5 DEF RecordIInv, RecordTypes
<1> QED BY <1>5, <1>7, <1>8, <1>9, <1>10, <1>11, <1>12, <1>13, RecordStep

LEMMA OpenCacheStep ==
  ASSUME RecordIInv, NEW p \in Procs, open_cache(p)
  PROVE  RecordIInv'
<1> DEFINE r == proc[p].req
           f == cache[KeyOf(r)]
           pc == IF r.route = "udp" THEN "datagrams" ELSE "begin"
           k == [proc[p] EXCEPT !.file = f, !.pc = pc]
<1>1. proc[p].pc = "open" /\ r \in Requests /\ Key(p) = KeyOf(r)
  BY ProcIs DEF open_cache, At
<1>2. WholeFile(f, KeyOf(r)) /\ r.cached /\ proc[p].at <= r.total /\ proc[p].next <= r.total
  BY <1>1, ProcIs DEF ProcOK
<1>3. f \in Seq(Nat) /\ Len(f) = r.total
  BY <1>1, <1>2, RequestIs DEF WholeFile
<1>4. proc' = [proc EXCEPT ![p] = k]
  BY <1>1, <1>3 DEF open_cache, Req
<1> HIDE DEF f
<1>5. /\ k \in ProcRec /\ k.pc = pc /\ k.req = r /\ k.file = f
      /\ k.next = proc[p].next /\ k.at = proc[p].at
  BY <1>3, ProcIs DEF ProcRec, ProcPcs
<1> HIDE DEF k
<1>6. ProcOK(k, cache, tmp[p])
  BY <1>2, <1>5 DEF ProcOK
<1> QED BY <1>1, <1>4, <1>5, <1>6, QuietMove DEF open_cache, ProcPcs

\* A piece s is written at position a of a memory.
Written(f, a, s) ==
  [i \in DOMAIN f \cup (a..(a + Len(s) - 1)) |-> IF i >= a /\ i < a + Len(s) THEN s[i - a + 1] ELSE f[i]]

LEMMA WrittenIs ==
  ASSUME NEW f \in Memories, NEW a \in Nat, NEW s \in Seq(Nat), NEW n \in Nat, a + Len(s) <= n,
         DOMAIN f \subseteq 0..(n - 1), NEW k, NEW good, Piece(s, k, a, good),
         Filled(f, k, good)
  PROVE  LET g == Written(f, a, s) IN
         /\ g \in Memories /\ DOMAIN g = DOMAIN f \cup (a..(a + Len(s) - 1))
         /\ DOMAIN g \subseteq 0..(n - 1) /\ Filled(g, k, good)
<1> DEFINE D == DOMAIN f \cup (a..(a + Len(s) - 1))
           g == Written(f, a, s)
<1>1. DOMAIN f \subseteq Nat /\ f \in [DOMAIN f -> Nat]
  BY MemoryOf
<1>2. D \in SUBSET Nat /\ D \subseteq 0..(n - 1) /\ DOMAIN g = D
  BY <1>1 DEF Written
<1>3. ASSUME NEW i \in D, i >= a /\ i < a + Len(s)
      PROVE  g[i] = s[i - a + 1] /\ i - a + 1 \in 1..Len(s)
  BY <1>2, <1>3 DEF Written
<1>4. ASSUME NEW i \in D, ~(i >= a /\ i < a + Len(s))
      PROVE  g[i] = f[i] /\ i \in DOMAIN f
  BY <1>2, <1>4 DEF Written
<1>5. g \in Memories
  <2>1. \A i \in D : g[i] \in Nat
    BY <1>1, <1>3, <1>4
  <2>2. g = [i \in D |-> g[i]]
    BY DEF Written
  <2> HIDE DEF g, D
  <2>3. g \in [D -> Nat]
    BY <2>1, <2>2
  <2> QED BY <1>2, <2>3, MemoryIs
<1>6. ASSUME NEW i \in D PROVE May(g[i], k, i, good)
  <2>1. CASE i >= a /\ i < a + Len(s)
    <3>1. g[i] = s[i - a + 1] /\ i - a + 1 \in 1..Len(s)
      BY <1>3, <2>1
    <3>2. May(s[i - a + 1], k, a + (i - a + 1) - 1, good)
      BY <3>1 DEF Piece
    <3>3. a + (i - a + 1) - 1 = i
      BY <1>2
    <3> QED BY <3>1, <3>2, <3>3
  <2>2. CASE ~(i >= a /\ i < a + Len(s))
    BY <1>4, <2>2 DEF Filled
  <2> QED BY <2>1, <2>2
<1> QED BY <1>2, <1>5, <1>6 DEF Filled

LEMMA BeginWaveformStep ==
  ASSUME RecordIInv, NEW p \in Procs, begin_waveform(p)
  PROVE  RecordIInv'
<1> DEFINE r == proc[p].req
           k == [proc[p] EXCEPT !.pc = "chunk", !.next = 0, !.at = 0]
<1>1. proc[p].pc = "begin" /\ r \in Requests /\ r.total \in Nat
  BY ProcIs, RequestIs DEF begin_waveform, At
<1>2. /\ k \in ProcRec /\ k.pc = "chunk" /\ k.req = r /\ k.next = 0 /\ k.at = 0
      /\ k.file = proc[p].file
  BY ProcIs DEF ProcRec, ProcPcs
<1>3. proc' = [proc EXCEPT ![p] = k]
  BY DEF begin_waveform
<1> HIDE DEF k
<1>4. ProcOK(k, cache, tmp[p])
  <2>1. r.route # "udp" /\ (r.cached => WholeFile(proc[p].file, KeyOf(r)))
    BY <1>1, ProcIs DEF ProcOK
  <2> QED BY <1>1, <1>2, <2>1 DEF ProcOK
<1>5. BoardOK(k, boards[p], link[p])
  <2>1. boards[p] = Fresh /\ link[p] = {}
    BY <1>1, ProcIs DEF BoardOK
  <2>2. 0..(k.at - 1) = {}
    BY <1>2
  <2> QED BY <1>2, <2>1, <2>2, FreshIs DEF BoardOK, Filled
<1>6. /\ boards[p] \in BoardRec /\ link[p] \in SUBSET DatagramRec
      /\ boards' = [boards EXCEPT ![p] = boards[p]] /\ link' = [link EXCEPT ![p] = link[p]]
      /\ UNCHANGED <<cache, tmp>> /\ crashes' \in 0..MaxCrashes
  BY ProcIs DEF begin_waveform
<1> QED BY <1>2, <1>3, <1>4, <1>5, <1>6, UploadMove

\* An upload that fails by a request that was not answered or, when it is
\* run_extreme_playback's, by the offset of a chunk after the first.
LEMMA FailMove ==
  ASSUME RecordIInv, NEW p \in Procs, NEW fault \in BOOLEAN,
         proc' = [proc EXCEPT ![p] = [proc[p] EXCEPT !.pc = "failed", !.fault = fault]],
         UNCHANGED <<cache, tmp, boards, link>>, crashes' \in 0..MaxCrashes,
         proc[p].pc \in {"begin", "chunk", "data", "committed"},
         fault \/ (proc[p].req.route = "extreme" /\ proc[p].at > 0)
  PROVE  RecordIInv'
<1> DEFINE k == [proc[p] EXCEPT !.pc = "failed", !.fault = fault]
<1>1. /\ k \in ProcRec /\ k.pc = "failed" /\ k.req = proc[p].req /\ k.next = proc[p].next
      /\ k.at = proc[p].at /\ k.fault = fault
  BY ProcIs DEF ProcRec, ProcPcs
<1> HIDE DEF k
<1>2. ProcOK(k, cache, tmp[p])
  <2>1. proc[p].next <= proc[p].req.total /\ proc[p].at <= proc[p].req.total
    BY ProcIs DEF ProcOK
  <2> QED BY <1>1, <2>1 DEF ProcOK
<1>3. BoardOK(k, boards[p], link[p])
  <2>1. BoardOK(proc[p], boards[p], link[p]) /\ link[p] = {}
    BY ProcIs DEF BoardOK
  <2> QED BY <1>1, <2>1 DEF BoardOK
<1>4. proc' = [proc EXCEPT ![p] = k]
  BY DEF k
<1> QED BY <1>1, <1>2, <1>3, <1>4, ProcIs, UploadMove

LEMMA RequestFailsStep ==
  ASSUME RecordIInv, NEW p \in Procs, request_fails(p)
  PROVE  RecordIInv'
<1>1. proc' = [proc EXCEPT ![p] = [proc[p] EXCEPT !.pc = "failed", !.fault = TRUE]]
  BY DEF request_fails
<1>2. crashes' \in 0..MaxCrashes
  BY ProcIs, CrashesAssumption DEF request_fails
<1> QED BY <1>1, <1>2, FailMove DEF request_fails, At

LEMMA NextChunkStep ==
  ASSUME RecordIInv, NEW p \in Procs, next_chunk(p)
  PROVE  RecordIInv'
<1> DEFINE r == proc[p].req
           c == NextChunk(p)
           k == [proc[p] EXCEPT !.pc = "data", !.chunk = c]
<1>1. /\ proc[p].pc = "chunk" /\ proc[p].next < r.total /\ r \in Requests
      /\ proc[p].next = proc[p].at /\ proc[p].next \in Nat
  BY ProcIs DEF next_chunk, At, Req, ProcOK, ProcRec
<1>2. CASE ChunkOffset(p) # 64 * proc[p].at
  <2>1. r.route = "extreme" /\ proc[p].at > 0
    <3>1. r.route # "cli" /\ proc[p].next # 64 * proc[p].next
      BY <1>1, <1>2 DEF ChunkOffset, Req
    <3>2. r.route # "udp"
      BY <1>1, ProcIs DEF ProcOK
    <3>3. proc[p].next > 0
      BY <1>1, <3>1
    <3> QED BY <1>1, <3>1, <3>2, <3>3, RequestIs
  <2>2. proc[p].fault \in BOOLEAN
        /\ [proc[p] EXCEPT !.pc = "failed"] = [proc[p] EXCEPT !.pc = "failed", !.fault = proc[p].fault]
    BY ProcIs DEF ProcRec
  <2>3. proc' = [proc EXCEPT ![p] = [proc[p] EXCEPT !.pc = "failed", !.fault = proc[p].fault]]
    <3>1. proc' = [proc EXCEPT ![p] = [proc[p] EXCEPT !.pc = "failed"]]
      BY <1>2 DEF next_chunk, Goto
    <3> QED BY <2>2, <3>1
  <2> QED BY <1>1, <2>1, <2>2, <2>3, FailMove, ProcIs DEF next_chunk
<1>3. CASE ChunkOffset(p) = 64 * proc[p].at
  <2>1. /\ c \in Seq(Nat) /\ Len(c) > 0 /\ proc[p].next + Len(c) <= r.total
        /\ Piece(c, KeyOf(r), proc[p].next, SafeRequest(r))
    BY <1>1, NextChunkIs
  <2>2. proc' = [proc EXCEPT ![p] = k]
    BY <1>3 DEF next_chunk
  <2> HIDE DEF c
  <2>3. /\ k \in ProcRec /\ k.pc = "data" /\ k.req = r /\ k.next = proc[p].next /\ k.at = proc[p].at
        /\ k.chunk = c /\ k.file = proc[p].file
    BY <2>1, ProcIs DEF ProcRec, ProcPcs
  <2> HIDE DEF k
  <2>4. ProcOK(k, cache, tmp[p])
    <3>1. /\ r.route # "udp" /\ (r.cached => WholeFile(proc[p].file, KeyOf(r)))
          /\ proc[p].next <= r.total /\ proc[p].at <= r.total
      BY <1>1, ProcIs DEF ProcOK
    <3> QED BY <1>1, <2>1, <2>3, <3>1 DEF ProcOK
  <2>5. BoardOK(k, boards[p], link[p])
    <3>1. BoardOK(proc[p], boards[p], link[p])
      BY ProcIs
    <3> QED BY <1>1, <2>3, <3>1 DEF BoardOK
  <2> QED BY <2>2, <2>3, <2>4, <2>5, ProcIs, UploadMove DEF next_chunk
<1> QED BY <1>2, <1>3

\* A DATA packet is the begin of what is left of the chunk.
LEMMA DataWaveformStep ==
  ASSUME RecordIInv, NEW p \in Procs, data_waveform(p)
  PROVE  RecordIInv'
<1> DEFINE r == proc[p].req
           c == proc[p].chunk
           n == Smaller(PACKET, Len(c))
           piece == SubSeq(c, 1, n)
           rest == SubSeq(c, Len(piece) + 1, Len(c))
           at == proc[p].at
           k == [proc[p] EXCEPT !.chunk = rest, !.at = at + Len(piece),
                                !.next = IF rest = <<>> THEN at + Len(piece) ELSE @,
                                !.pc = IF rest = <<>> THEN "chunk" ELSE "data"]
           b == [boards[p] EXCEPT !.ddr = Written(boards[p].ddr, at, piece)]
<1>1. /\ proc[p].pc = "data" /\ r \in Requests /\ r.total \in Nat /\ at \in Nat /\ proc[p].next \in Nat
      /\ c \in Seq(Nat) /\ Len(c) > 0 /\ at + Len(c) <= r.total
      /\ Piece(c, KeyOf(r), at, SafeRequest(r))
      /\ r.route # "udp" /\ (r.cached => WholeFile(proc[p].file, KeyOf(r))) /\ proc[p].next <= r.total
  BY ProcIs, RequestIs DEF data_waveform, At, ProcOK, ProcRec
<1>2. proc' = [proc EXCEPT ![p] = k] /\ boards' = [boards EXCEPT ![p] = b]
  BY DEF data_waveform, Written
<1>3. n \in Nat /\ n > 0 /\ n <= Len(c) /\ Len(c) \in Nat
  BY <1>1, ChunkSizes DEF Smaller
<1> HIDE DEF n
<1>4. piece \in Seq(Nat) /\ Len(piece) = n /\ Piece(piece, KeyOf(r), at, SafeRequest(r))
  <2>1. 1 \in Nat \ {0} /\ 1 <= n + 1 /\ at + 1 - 1 = at
    BY <1>1, <1>3
  <2>2. SubSeq(c, 1, n) \in Seq(Nat) /\ Len(SubSeq(c, 1, n)) = n - 1 + 1
    BY <1>1, <1>3, <2>1, SubSeqIs
  <2>3. Piece(SubSeq(c, 1, n), KeyOf(r), at + 1 - 1, SafeRequest(r))
    BY <1>1, <1>3, <2>1, SubPiece
  <2> QED BY <1>3, <2>1, <2>2, <2>3
<1>5. /\ rest \in Seq(Nat) /\ Len(rest) = Len(c) - n
      /\ Piece(rest, KeyOf(r), at + n, SafeRequest(r))
  <2> DEFINE a == n + 1
             m == Len(c)
  <2>1. a \in Nat \ {0} /\ m \in Nat /\ a <= m + 1 /\ m <= Len(c)
        /\ at + a - 1 = at + n /\ m - a + 1 = Len(c) - n
    BY <1>1, <1>3
  <2>2. rest = SubSeq(c, a, m)
    BY <1>4
  <2> HIDE DEF a, m
  <2>3. SubSeq(c, a, m) \in Seq(Nat) /\ Len(SubSeq(c, a, m)) = m - a + 1
    BY <1>1, <2>1, SubSeqIs
  <2>4. Piece(SubSeq(c, a, m), KeyOf(r), at + a - 1, SafeRequest(r))
    BY <1>1, <2>1, SubPiece
  <2> QED BY <2>1, <2>2, <2>3, <2>4
<1> HIDE DEF piece, rest
<1>6. /\ k \in ProcRec /\ k.req = r /\ k.file = proc[p].file /\ k.chunk = rest /\ k.at = at + n
      /\ IF rest = <<>> THEN k.pc = "chunk" /\ k.next = at + n ELSE k.pc = "data" /\ k.next = proc[p].next
  <2>1. at + n \in Nat
    BY <1>1, <1>3
  <2> QED BY <1>1, <1>4, <1>5, <2>1, ProcIs DEF ProcRec, ProcPcs
<1> HIDE DEF k
<1>7. rest # <<>> => Len(rest) > 0
  BY <1>5
<1>8. ProcOK(k, cache, tmp[p])
  <2>1. at + n <= r.total /\ (at + n) + Len(rest) <= r.total
    BY <1>1, <1>3, <1>5, SMTT(60)
  <2>2. CASE rest = <<>>
    BY <1>1, <1>6, <2>1, <2>2 DEF ProcOK
  <2>3. CASE rest # <<>>
    BY <1>1, <1>5, <1>6, <1>7, <2>1, <2>3 DEF ProcOK
  <2> QED BY <2>2, <2>3
<1>9. /\ BoardOK(proc[p], boards[p], link[p]) /\ DOMAIN boards[p].ddr = 0..(at - 1)
      /\ link[p] = {} /\ boards[p] \in BoardRec /\ boards[p].ddr \in Memories
  BY <1>1, ProcIs DEF BoardOK, BoardRec
<1>10. /\ Written(boards[p].ddr, at, piece) \in Memories
       /\ DOMAIN Written(boards[p].ddr, at, piece) = DOMAIN boards[p].ddr \cup (at..(at + Len(piece) - 1))
       /\ DOMAIN Written(boards[p].ddr, at, piece) \subseteq 0..(r.total - 1)
       /\ Filled(Written(boards[p].ddr, at, piece), KeyOf(r), SafeRequest(r))
  <2>1. at + Len(piece) <= r.total
    <3> DEFINE l == Len(c)  t == r.total
    <3>1. Len(piece) = n
      BY <1>4
    <3>2. at \in Nat /\ l \in Nat /\ t \in Nat /\ at + l <= t
      BY <1>1, <1>3
    <3> HIDE DEF at, l, t
    <3>3. at + n <= t
      BY <1>3, <3>2 DEF l
    <3> QED BY <3>1, <3>3 DEF t
  <2> DEFINE f == boards[p].ddr
             t == r.total
             key == KeyOf(r)
             good == SafeRequest(r)
  <2>2. DOMAIN f \subseteq 0..(t - 1) /\ Filled(f, key, good)
    BY <1>9 DEF BoardOK
  <2>3. /\ f \in Memories /\ at \in Nat /\ t \in Nat /\ piece \in Seq(Nat)
        /\ at + Len(piece) <= t /\ Piece(piece, key, at, good)
    BY <1>1, <1>4, <1>9, <2>1
  <2> HIDE DEF f, t, key, good, at
  <2>4. LET g == Written(f, at, piece) IN
        /\ g \in Memories /\ DOMAIN g = DOMAIN f \cup (at..(at + Len(piece) - 1))
        /\ DOMAIN g \subseteq 0..(t - 1) /\ Filled(g, key, good)
    BY <2>2, <2>3, WrittenIs
  <2> QED BY <2>4 DEF f, t, key, good, at
<1>11. /\ b \in BoardRec /\ b.ddr = Written(boards[p].ddr, at, piece)
       /\ b.committed = boards[p].committed /\ b.playing = boards[p].playing
  BY <1>9, <1>10 DEF BoardRec
<1> HIDE DEF b
<1>12. DOMAIN b.ddr = 0..(k.at - 1)
  <2>1. (0..(at - 1)) \cup (at..(at + n - 1)) = 0..(at + n - 1)
    BY <1>1, <1>3
  <2>2. DOMAIN b.ddr = (0..(at - 1)) \cup (at..(at + n - 1))
    BY <1>4, <1>9, <1>10, <1>11
  <2>3. k.at - 1 = at + n - 1
    BY <1>1, <1>3, <1>6
  <2> QED BY <2>1, <2>2, <2>3
<1>13. BoardOK(k, b, link[p])
  <2>1. ~b.committed /\ ~b.playing
    BY <1>9, <1>11, <1>1, <1>3, SMTT(60) DEF BoardOK
  <2> QED BY <1>6, <1>9, <1>10, <1>11, <1>12, <2>1 DEF BoardOK
<1> QED BY <1>2, <1>6, <1>8, <1>11, <1>13, ProcIs, UploadMove DEF data_waveform

LEMMA CommitWaveformStep ==
  ASSUME RecordIInv, NEW p \in Procs, commit_waveform(p)
  PROVE  RecordIInv'
<1> DEFINE k == [proc[p] EXCEPT !.pc = "committed"]
           b == [boards[p] EXCEPT !.committed = TRUE]
<1>1. /\ proc[p].pc = "chunk" /\ proc[p].next = proc[p].req.total /\ proc[p].next = proc[p].at
      /\ proc[p].next <= proc[p].req.total /\ proc[p].at <= proc[p].req.total
      /\ proc[p].req.route # "udp"
  BY ProcIs DEF commit_waveform, At, Req, ProcOK
<1>2. proc' = [proc EXCEPT ![p] = k] /\ boards' = [boards EXCEPT ![p] = b]
  BY DEF commit_waveform, Goto
<1>3. /\ k \in ProcRec /\ k.pc = "committed" /\ k.req = proc[p].req /\ k.next = proc[p].next
      /\ k.at = proc[p].at
  BY ProcIs DEF ProcRec, ProcPcs
<1>4. b \in BoardRec /\ b.ddr = boards[p].ddr /\ b.committed = TRUE /\ b.playing = boards[p].playing
  BY ProcIs DEF BoardRec
<1> HIDE DEF k, b
<1>5. ProcOK(k, cache, tmp[p])
  BY <1>1, <1>3 DEF ProcOK
<1>6. BoardOK(k, b, link[p])
  <2>1. BoardOK(proc[p], boards[p], link[p]) /\ link[p] = {} /\ DOMAIN boards[p].ddr = 0..(proc[p].req.total - 1)
    BY <1>1, ProcIs DEF BoardOK
  <2> QED BY <1>1, <1>3, <1>4, <2>1 DEF BoardOK
<1> QED BY <1>2, <1>3, <1>4, <1>5, <1>6, ProcIs, UploadMove DEF commit_waveform

LEMMA PlayStep ==
  ASSUME RecordIInv, NEW p \in Procs, play(p)
  PROVE  RecordIInv'
<1> DEFINE k == [proc[p] EXCEPT !.pc = "done"]
           on == Req(p).only # "wait"
           b == [boards[p] EXCEPT !.playing = on]
<1>1. /\ proc[p].pc = "committed" /\ proc[p].next <= proc[p].req.total /\ proc[p].at <= proc[p].req.total
  BY ProcIs DEF play, At, ProcOK
<1>2. proc' = [proc EXCEPT ![p] = k] /\ boards' = [boards EXCEPT ![p] = b]
  BY DEF play, Goto
<1>3. /\ k \in ProcRec /\ k.pc = "done" /\ k.req = proc[p].req /\ k.next = proc[p].next
      /\ k.at = proc[p].at
  BY ProcIs DEF ProcRec, ProcPcs
<1>4. on \in BOOLEAN
  OBVIOUS
<1> HIDE DEF on
<1>5. b \in BoardRec /\ b.ddr = boards[p].ddr /\ b.committed = boards[p].committed
  BY <1>4, ProcIs DEF BoardRec
<1> HIDE DEF k, b
<1>6. ProcOK(k, cache, tmp[p])
  BY <1>1, <1>3 DEF ProcOK
<1>7. BoardOK(k, b, link[p])
  <2>1. BoardOK(proc[p], boards[p], link[p]) /\ link[p] = {} /\ boards[p].committed
    BY <1>1, ProcIs DEF BoardOK
  <2> QED BY <1>1, <1>3, <1>5, <2>1 DEF BoardOK
<1> QED BY <1>2, <1>3, <1>5, <1>6, <1>7, ProcIs, UploadMove DEF play

LEMMA BatchesStep ==
  ASSUME RecordIInv, NEW p \in Procs, iter_max_length_udp_batches(p)
  PROVE  RecordIInv'
<1> DEFINE r == proc[p].req
           c == NextChunk(p)
           d == [addr |-> proc[p].next, data |-> c]
           N == link[p] \cup {d}
           k == [proc[p] EXCEPT !.next = @ + Len(c)]
<1>1. /\ proc[p].pc = "datagrams" /\ proc[p].next < r.total /\ r \in Requests
      /\ proc[p].next \in Nat /\ proc[p].at <= r.total
      /\ r.route = "udp" /\ (r.cached => WholeFile(proc[p].file, KeyOf(r)))
  BY ProcIs DEF iter_max_length_udp_batches, At, Req, ProcOK, ProcRec
<1>2. /\ c \in Seq(Nat) /\ Len(c) > 0 /\ proc[p].next + Len(c) <= r.total
      /\ Piece(c, KeyOf(r), proc[p].next, SafeRequest(r))
  BY <1>1, NextChunkIs
<1>3. proc' = [proc EXCEPT ![p] = k] /\ link' = [link EXCEPT ![p] = N]
  BY DEF iter_max_length_udp_batches
<1> HIDE DEF c
<1>4. /\ k \in ProcRec /\ k.pc = "datagrams" /\ k.req = r /\ k.next = proc[p].next + Len(c)
      /\ k.at = proc[p].at /\ k.file = proc[p].file
  <2>1. proc[p] \in ProcRec /\ proc[p].next + Len(c) \in Nat
    BY <1>1, <1>2, ProcIs
  <2> QED BY <1>1, <2>1 DEF ProcRec, ProcPcs
<1>5. d \in DatagramRec /\ d.addr = proc[p].next /\ d.data = c
  BY <1>1, <1>2 DEF DatagramRec
<1> HIDE DEF k, d
<1>6. N \in SUBSET DatagramRec
  BY <1>5, ProcIs
<1>7. ProcOK(k, cache, tmp[p])
  BY <1>1, <1>2, <1>4 DEF ProcOK
<1>8. BoardOK(k, boards[p], N)
  <2>1. BoardOK(proc[p], boards[p], link[p])
    BY ProcIs
  <2> QED BY <1>1, <1>2, <1>4, <1>5, <2>1 DEF BoardOK
<1>9. boards' = [boards EXCEPT ![p] = boards[p]]
  BY ProcIs DEF iter_max_length_udp_batches
<1> HIDE DEF N
<1> QED BY <1>3, <1>4, <1>6, <1>7, <1>8, <1>9, ProcIs, UploadMove DEF iter_max_length_udp_batches

LEMMA UdpSentStep ==
  ASSUME RecordIInv, NEW p \in Procs, udp_sent(p)
  PROVE  RecordIInv'
<1> DEFINE k == [proc[p] EXCEPT !.pc = "done"]
<1>1. /\ proc[p].pc = "datagrams" /\ proc[p].next <= proc[p].req.total /\ proc[p].at <= proc[p].req.total
      /\ proc[p].req.route = "udp"
  BY ProcIs DEF udp_sent, At, ProcOK
<1>2. proc' = [proc EXCEPT ![p] = k]
  BY DEF udp_sent, Goto
<1>3. /\ k \in ProcRec /\ k.pc = "done" /\ k.req = proc[p].req /\ k.next = proc[p].next
      /\ k.at = proc[p].at
  BY ProcIs DEF ProcRec, ProcPcs
<1> HIDE DEF k
<1>4. ProcOK(k, cache, tmp[p])
  BY <1>1, <1>3 DEF ProcOK
<1>5. BoardOK(k, boards[p], link[p])
  <2>1. BoardOK(proc[p], boards[p], link[p])
    BY ProcIs
  <2> QED BY <1>1, <1>3, <2>1 DEF BoardOK
<1> QED BY <1>2, <1>3, <1>4, <1>5, ProcIs, UploadMove DEF udp_sent

\* A datagram arrives, whatever has arrived before it.
LEMMA DeliverStep ==
  ASSUME RecordIInv, NEW p \in Procs, deliver(p)
  PROVE  RecordIInv'
<1> DEFINE r == proc[p].req
<1>1. PICK d \in link[p] :
        /\ link' = [link EXCEPT ![p] = @ \ {d}]
        /\ boards' = [boards EXCEPT ![p].ddr = Written(boards[p].ddr, d.addr, d.data)]
  BY DEF deliver, Written
<1> DEFINE b == [boards[p] EXCEPT !.ddr = Written(boards[p].ddr, d.addr, d.data)]
           N == link[p] \ {d}
<1>2. /\ d.addr \in Nat /\ d.data \in Seq(Nat) /\ d.addr + Len(d.data) <= r.total
      /\ Piece(d.data, KeyOf(r), d.addr, SafeRequest(r))
      /\ r.route = "udp" /\ proc[p].pc \in {"datagrams", "done"} /\ r.total \in Nat
  <2>1. d \in DatagramRec
    BY ProcIs
  <2>2. r.total \in Nat
    BY ProcIs, RequestIs
  <2> QED BY <2>1, <2>2, ProcIs DEF BoardOK, DatagramRec
<1>3. /\ BoardOK(proc[p], boards[p], link[p]) /\ boards[p] \in BoardRec /\ boards[p].ddr \in Memories
  BY ProcIs DEF BoardRec
<1>4. LET g == Written(boards[p].ddr, d.addr, d.data) IN
      g \in Memories /\ DOMAIN g \subseteq 0..(r.total - 1) /\ Filled(g, KeyOf(r), SafeRequest(r))
  <2> DEFINE f == boards[p].ddr
             t == r.total
             key == KeyOf(r)
             good == SafeRequest(r)
             at == d.addr
             piece == d.data
  <2>1. DOMAIN f \subseteq 0..(t - 1) /\ Filled(f, key, good)
    BY <1>3 DEF BoardOK
  <2>2. /\ f \in Memories /\ at \in Nat /\ t \in Nat /\ piece \in Seq(Nat)
        /\ at + Len(piece) <= t /\ Piece(piece, key, at, good)
    BY <1>2, <1>3
  <2> HIDE DEF f, t, key, good, at, piece
  <2>3. LET g == Written(f, at, piece) IN
        /\ g \in Memories /\ DOMAIN g = DOMAIN f \cup (at..(at + Len(piece) - 1))
        /\ DOMAIN g \subseteq 0..(t - 1) /\ Filled(g, key, good)
    BY <2>1, <2>2, WrittenIs
  <2> QED BY <2>3 DEF f, t, key, good, at, piece
<1>5. /\ b \in BoardRec /\ b.ddr = Written(boards[p].ddr, d.addr, d.data)
      /\ b.committed = boards[p].committed /\ b.playing = boards[p].playing
  BY <1>3, <1>4 DEF BoardRec
<1> HIDE DEF b
<1>6. BoardOK(proc[p], b, N)
  <2>1. ~b.committed /\ ~b.playing
    BY <1>2, <1>3, <1>5 DEF BoardOK
  <2> QED BY <1>2, <1>3, <1>4, <1>5, <2>1 DEF BoardOK
<1>7. proc' = [proc EXCEPT ![p] = proc[p]] /\ boards' = [boards EXCEPT ![p] = b]
  BY <1>1 DEF deliver, RecordIInv, RecordTypes, b
<1>8. N \in SUBSET DatagramRec
  BY ProcIs
<1>9. link' = [link EXCEPT ![p] = N]
  BY <1>1
<1> HIDE DEF N
<1> QED BY <1>5, <1>6, <1>7, <1>8, <1>9, ProcIs, UploadMove DEF deliver

LEMMA LoseStep ==
  ASSUME RecordIInv, NEW p \in Procs, lose(p)
  PROVE  RecordIInv'
<1>1. PICK d \in link[p] : link' = [link EXCEPT ![p] = @ \ {d}]
  BY DEF lose
<1> DEFINE N == link[p] \ {d}
<1>2. BoardOK(proc[p], boards[p], N)
  BY ProcIs DEF BoardOK
<1>3. proc' = [proc EXCEPT ![p] = proc[p]] /\ boards' = [boards EXCEPT ![p] = boards[p]]
  BY ProcIs DEF lose, RecordIInv, RecordTypes
<1>4. N \in SUBSET DatagramRec /\ link' = [link EXCEPT ![p] = N]
  BY <1>1, ProcIs
<1>5. crashes' \in 0..MaxCrashes
  BY ProcIs, CrashesAssumption DEF lose
<1> HIDE DEF N
<1> QED BY <1>2, <1>3, <1>4, <1>5, ProcIs, UploadMove DEF lose

\* A process that starts again, after a crash or its end.
LEMMA RestartStep ==
  ASSUME RecordIInv, NEW p \in Procs, crash(p) \/ again(p)
  PROVE  RecordIInv'
<1>1. ProcOK(Idle, cache, tmp[p])
  BY IdleIs, RequestIs DEF ProcOK
<1>2. BoardOK(Idle, Fresh, {})
  BY IdleIs, FreshOK DEF ProcPcs
<1>3. /\ proc' = [proc EXCEPT ![p] = Idle] /\ boards' = [boards EXCEPT ![p] = Fresh]
      /\ UNCHANGED <<cache, tmp>> /\ link' = [link EXCEPT ![p] = {}]
  <2>1. CASE crash(p)
    BY <2>1 DEF crash
  <2>2. CASE again(p)
    BY <2>2, ProcIs DEF again
  <2> QED BY <2>1, <2>2
<1>4. crashes' \in 0..MaxCrashes
  BY ProcIs, CrashesAssumption DEF crash, again
<1>5. {} \in SUBSET DatagramRec
  OBVIOUS
<1> QED BY <1>1, <1>2, <1>3, <1>4, <1>5, IdleIs, FreshIs, UploadMove

LEMMA RecordInitOK == RecordInit => RecordIInv
<1> SUFFICES ASSUME RecordInit PROVE RecordIInv
  OBVIOUS
<1>1. RecordTypes /\ CacheInv
  BY IdleIs, FreshIs, CrashesAssumption DEF RecordInit, RecordTypes, CacheInv, Files
<1>2. ASSUME NEW p \in Procs PROVE ProcOK(proc[p], cache, tmp[p]) /\ BoardOK(proc[p], boards[p], link[p])
  <2>1. proc[p] = Idle /\ boards[p] = Fresh /\ link[p] = {}
    BY DEF RecordInit
  <2>2. ProcOK(Idle, cache, tmp[p])
    BY IdleIs, RequestIs DEF ProcOK
  <2>3. BoardOK(Idle, Fresh, {})
    BY IdleIs, FreshOK DEF ProcPcs
  <2> QED BY <2>1, <2>2, <2>3
<1> QED BY <1>1, <1>2 DEF RecordIInv

LEMMA RecordNextOK == RecordIInv /\ [RecordNext]_recordVars => RecordIInv'
<1> SUFFICES ASSUME RecordIInv, [RecordNext]_recordVars PROVE RecordIInv'
  OBVIOUS
<1>1. CASE UNCHANGED recordVars
  BY <1>1 DEF recordVars, RecordIInv, RecordTypes, CacheInv
<1>2. CASE RecordNext
  <2>1. PICK p \in Procs :
          \/ run_max_length(p) \/ run_extreme_playback(p) \/ upload_max_length_udp(p)
          \/ Step(p) \/ request_fails(p) \/ deliver(p) \/ lose(p) \/ crash(p) \/ again(p)
    BY <1>2 DEF RecordNext
  <2>2. CASE run_max_length(p) \/ run_extreme_playback(p) \/ upload_max_length_udp(p)
    BY <2>2, StartsStep
  <2>3. CASE Step(p)
    BY <2>3, ReuseStep, OpenTmpStep, WriteChunkStep, ReplaceStep, OpenCacheStep, BeginWaveformStep,
       NextChunkStep, DataWaveformStep, CommitWaveformStep, PlayStep, BatchesStep, UdpSentStep DEF Step
  <2>4. CASE request_fails(p) \/ deliver(p) \/ lose(p) \/ crash(p) \/ again(p)
    BY <2>4, RequestFailsStep, DeliverStep, LoseStep, RestartStep
  <2> QED BY <2>1, <2>2, <2>3, <2>4
<1> QED BY <1>1, <1>2

\* The invariant holds in every reachable state, whichever processes share the
\* cache directory and whatever is killed, lost or reordered.
THEOREM RecordInvariantHolds == RecordSpec => []RecordIInv
BY RecordInitOK, RecordNextOK, PTL DEF RecordSpec

\* Every reachable state of the processes is well typed.
THEOREM RecordTypeSafe == RecordSpec => []RecordTypeOK
<1>1. RecordIInv => RecordTypeOK
  <2> SUFFICES ASSUME RecordIInv PROVE RecordTypeOK
    OBVIOUS
  <2>1. ASSUME NEW p \in Procs
        PROVE  /\ proc[p].pc \in ProcPcs /\ Req(p) \in Requests
               /\ proc[p].next \in 0..Req(p).total /\ proc[p].at \in 0..Req(p).total
               /\ boards[p].committed \in BOOLEAN /\ boards[p].playing \in BOOLEAN
               /\ DOMAIN boards[p].ddr \subseteq Nat
               /\ tmp[p] = Absent \/ Len(tmp[p]) <= Req(p).total \/ proc[p].pc # "write"
    <3>1. proc[p] \in ProcRec /\ proc[p].req \in Requests /\ ProcOK(proc[p], cache, tmp[p])
          /\ boards[p] \in BoardRec
      BY ProcIs
    <3>2. proc[p].req.total \in Nat
      BY <3>1, RequestIs
    <3>3. DOMAIN boards[p].ddr \subseteq Nat
      BY <3>1, MemoryOf DEF BoardRec
    <3>4. proc[p].pc = "write" => Len(tmp[p]) <= proc[p].req.total
      BY <3>1 DEF ProcOK
    <3> QED BY <3>1, <3>2, <3>3, <3>4 DEF Req, ProcRec, BoardRec, ProcOK
  <2> QED BY <2>1 DEF RecordTypeOK, ProcPcs, RecordIInv, RecordTypes
<1> QED BY <1>1, RecordInvariantHolds, PTL

\* A cache file that another process can see has the length of a record of its
\* key, whoever writes it, forces it again or is killed
\* (ensure_max_length_waveform_cache).
THEOREM CacheSafe == RecordSpec => []CacheIsWhole
<1>1. RecordIInv => CacheIsWhole
  BY DEF RecordIInv, CacheInv, CacheIsWhole, WholeFile
<1> QED BY <1>1, RecordInvariantHolds, PTL

\* What a board is told to play is the record that was asked for, to its last
\* beat, whichever way it came (upload_interleaved_chunks,
\* iter_max_length_udp_batches) and for every chunk size and marker; only the
\* middle marker can be missing, and only where a chunk is longer than it.
THEOREM RecordSafe == RecordSpec => []UploadIsRecord
<1>1. RecordIInv => UploadIsRecord
  <2> SUFFICES ASSUME RecordIInv PROVE UploadIsRecord
    OBVIOUS
  <2>1. WrittenIsRecord
    <3> SUFFICES ASSUME NEW p \in Procs, NEW i \in DOMAIN boards[p].ddr
                 PROVE  LET r == proc[p].req
                        IN  StandsAt(boards[p].ddr[i], i, r.pattern, r.total, LargestChunk(r) > MARKER + 1)
      BY DEF WrittenIsRecord, Req
    <3> DEFINE r == proc[p].req
    <3>1. r \in Requests /\ i \in 0..(r.total - 1) /\ May(boards[p].ddr[i], KeyOf(r), i, SafeRequest(r))
      BY ProcIs DEF BoardOK, Filled
    <3>2. r.total \in Nat /\ KeyOf(r)[1] = r.pattern /\ KeyOf(r)[2] = r.total
      BY <3>1, RequestIs
    <3>3. i + 1 \in 1..r.total /\ (i + 1) - 1 = i
      BY <3>1, <3>2
    <3>4. Record(r.pattern, r.total)[i + 1] = Beat(KeyOf(r), i)
      BY <3>2, <3>3 DEF Record, Beat
    <3>5. ~SafeRequest(r) => LargestChunk(r) > MARKER + 1
      BY ChunkSizes DEF SafeRequest, Safe, LargestChunk
    <3> QED BY <3>1, <3>2, <3>4, <3>5 DEF May, StandsAt
  <2>2. CommitMeansAll
    BY ProcIs DEF CommitMeansAll, BoardOK, Req
  <2>3. FailsByFaultOnly
    BY ProcIs DEF FailsByFaultOnly, ProcOK, At, Req
  <2> QED BY <2>1, <2>2, <2>3 DEF UploadIsRecord
<1> QED BY <1>1, RecordInvariantHolds, PTL

-----------------------------------------------------------------------------
(* Datagrams.  A phase goes over in a 32-bit field in which every half turn   *)
(* fits, so the limits of the library and of the board can be compared.       *)

\* Rounding to thousandths of a degree keeps a phase within half a turn.
LEMMA PhaseInRange ==
  ASSUME NEW p \in Int
  PROVE  LET n == normalize_rfdc_phase_mdeg(p) IN n \in Int /\ n >= -180000 /\ n <= 180000
<1> DEFINE r == (p + 1800000) % 3600000
           x == r - 1800000
           q == x \div 10
<1>1. r \in Int /\ 0 <= r /\ r < 3600000
  <2>1. \A a \in Int, b \in Nat \ {0} : a % b \in Int /\ 0 <= a % b /\ a % b < b
    BY SMT
  <2> QED
    BY <2>1, SMT
<1> HIDE DEF r
<1>2. x \in Int /\ x >= -1800000 /\ x < 1800000
  BY <1>1, SMT
<1> HIDE DEF x
<1>3. q \in Int /\ q >= -180000 /\ q < 180000
  <2>1. q \in Int /\ 10 * q <= x /\ x < 10 * q + 10
    BY <1>2, SMT
  <2> HIDE DEF q
  <2> QED
    BY <1>2, <2>1, SMT
<1>4. round10(x) \in {q, q + 1}
  <2> DEFINE half == IF q % 2 = 0 THEN q ELSE q + 1
  <2>1. half \in {q, q + 1}
    OBVIOUS
  <2>2. round10(x) = CASE x % 10 < 5 -> q [] x % 10 > 5 -> q + 1 [] OTHER -> half
    BY DEF round10
  <2> HIDE DEF q, half
  <2> QED
    BY <2>1, <2>2
<1> HIDE DEF q
<1>5. normalize_rfdc_phase_mdeg(p) = round10(x)
  BY DEF normalize_rfdc_phase_mdeg, x, r
<1> QED
  BY <1>3, <1>4, <1>5, SMT

LEMMA PlanPacks ==
  ASSUME NEW target \in Int
  PROVE  LET plan == rfdc_nco_plan_for_target(target)
         IN  plan.ok => plan.nco >= -3200 /\ plan.nco <= 3200 /\ plan.zone \in {1, 2}
<1> DEFINE plan == rfdc_nco_plan_for_target(target)
<1>1. plan \in {[ok |-> FALSE, nco |-> 0, zone |-> 1]}
        \/ (plan = [ok |-> TRUE, nco |-> target, zone |-> 1] /\ target >= 0 /\ target < 3200)
        \/ (plan = [ok |-> TRUE, nco |-> target - 6400, zone |-> 2]
              /\ ~(target < 0 \/ target > 6400) /\ ~(target >= 0 /\ target < 3200))
  BY DEF rfdc_nco_plan_for_target
<1> HIDE DEF plan
<1>2. plan.ok => plan.nco >= -3200 /\ plan.nco <= 3200 /\ plan.zone \in {1, 2}
  BY <1>1, SMT
<1> QED
  BY <1>2 DEF plan

\* Fields as wide as they are in the packets (the zone has two bits).
BeginFields == 
  [session : {n \in Nat : n < 2^30}, mask : {n \in Nat : n < 2^8}, loops : {n \in Nat : n < 2^30},
   frames : Int, total : Nat]
EntryFields == [nco : Int, zone : 0..3, phase : Int, current : Int]

\* The limits of the library are those of the board for every entry of an RFDC
\* request, every BEGIN and every length of DATA.
THEOREM LimitsAgree ==
  ASSUME Is("rfdc") => Arg.entry \in EntryFields /\ Arg.target \in Int,
         Is("begin") => Arg \in BeginFields,
         Is("data") => Arg \in Nat
  PROVE  PackedIsAccepted /\ AcceptsTheSame
<1>1. PackedIsAccepted
  <2> SUFFICES ASSUME Is("rfdc") PROVE
        LET sent == [Arg.entry EXCEPT !.phase = normalize_rfdc_phase_mdeg(@)]
            plan == rfdc_nco_plan_for_target(Arg.target)
            planned == [sent EXCEPT !.nco = plan.nco, !.zone = plan.zone]
        IN  /\ rfdc_entry_packs(Arg.channel, sent) =>
                 (validate_entry(Arg.channel, sent) <=> sent.phase # 180000)
            /\ validate_entry(Arg.channel, sent) => rfdc_entry_packs(Arg.channel, sent)
            /\ plan.ok /\ sent.current \in CurrentRange(Arg.channel) =>
                 rfdc_entry_packs(Arg.channel, planned)
    BY DEF PackedIsAccepted
  <2> DEFINE entry == Arg.entry
             phase == normalize_rfdc_phase_mdeg(entry.phase)
             sent == [Arg.entry EXCEPT !.phase = normalize_rfdc_phase_mdeg(@)]
             plan == rfdc_nco_plan_for_target(Arg.target)
             planned == [sent EXCEPT !.nco = plan.nco, !.zone = plan.zone]
  <2>1. entry \in EntryFields /\ Arg.target \in Int /\ phase \in Int /\ phase >= -180000 /\ phase <= 180000
    BY PhaseInRange DEF EntryFields
  <2>2. /\ sent.nco = entry.nco /\ sent.zone = entry.zone /\ sent.current = entry.current
        /\ sent.phase = phase
        /\ planned.nco = plan.nco /\ planned.zone = plan.zone /\ planned.current = entry.current
    BY <2>1 DEF EntryFields
  <2>3. sent.zone % 4 = sent.zone
    <3>1. \A z \in 0..3 : z % 4 = z
      BY SMT
    <3> QED
      BY <2>1, <2>2, <3>1 DEF EntryFields
  <2>4. plan.ok => plan.nco >= -3200 /\ plan.nco <= 3200 /\ plan.zone \in {1, 2}
    BY <2>1, PlanPacks
  <2> HIDE DEF entry, phase, sent, plan, planned
  <2>5. rfdc_entry_packs(Arg.channel, sent) => (validate_entry(Arg.channel, sent) <=> sent.phase # 180000)
    BY <2>1, <2>2, <2>3, SMT DEF rfdc_entry_packs, validate_entry
  <2>6. validate_entry(Arg.channel, sent) => rfdc_entry_packs(Arg.channel, sent)
    BY <2>1, <2>2, <2>3, SMT DEF rfdc_entry_packs, validate_entry
  <2>7. plan.ok /\ sent.current \in CurrentRange(Arg.channel) => rfdc_entry_packs(Arg.channel, planned)
    BY <2>2, <2>4, SMT DEF rfdc_entry_packs
  <2> QED
    BY <2>5, <2>6, <2>7 DEF sent, plan, planned
<1>2. AcceptsTheSame
  <2>1. ASSUME Is("begin") PROVE begin_packs(Arg) <=> begin_accepted(Arg)
    <3>1. Arg \in BeginFields
      BY <2>1
    <3> QED
      BY <3>1 DEF BeginFields, begin_packs, begin_accepted, _wave_uint
  <2>2. ASSUME Is("data") PROVE data_packs(Arg) <=> data_accepted(Arg)
    BY <2>2 DEF data_packs, data_accepted
  <2> QED
    BY <2>1, <2>2 DEF AcceptsTheSame
<1> QED
  BY <1>1, <1>2

-----------------------------------------------------------------------------
(* Requests.  Rounding keeps the order, DAC words stay DAC words.  *)

Count(t) == IF Nearest(t) < 1 THEN 1 ELSE Nearest(t)

LEMMA NearestFacts ==
  ASSUME NEW t \in Int
  PROVE  /\ Nearest(t) \in Int /\ t - 1 <= 2 * Nearest(t) /\ 2 * Nearest(t) <= t + 1
         /\ Nearest(t) % 2 = 1 => 2 * Nearest(t) = t
<1> DEFINE q == t \div 2
           r == t % 2
<1>1. q \in Int /\ r \in 0..1 /\ t = 2 * q + r
  OBVIOUS
<1>2. q % 2 \in 0..1 /\ (q % 2 = 1 => (q + 1) % 2 = 0)
  OBVIOUS
<1> QED
  BY <1>1, <1>2 DEF Nearest

LEMMA NearestMonotone ==
  ASSUME NEW s \in Int, NEW t \in Int, s <= t
  PROVE  Nearest(s) <= Nearest(t)
<1>1. CASE s = t
  BY <1>1, NearestFacts
<1>2. CASE s + 1 <= t
  BY <1>2, NearestFacts
<1> QED
  BY <1>1, <1>2

LEMMA NearestShift ==
  ASSUME NEW t \in Int, NEW k \in Int
  PROVE  Nearest(16 * k + t) = 8 * k + Nearest(t)
<1> DEFINE q == t \div 2
<1>1. (16 * k + t) \div 2 = 8 * k + q /\ (16 * k + t) % 2 = t % 2
  OBVIOUS
<1>2. (8 * k + q) % 2 = q % 2
  OBVIOUS
<1> QED
  BY <1>1, <1>2 DEF Nearest

LEMMA AlignFacts ==
  ASSUME NEW n \in Int
  PROVE  /\ align_bytes_to_beat(n) \in Int
         /\ n <= align_bytes_to_beat(n) /\ align_bytes_to_beat(n) <= n + 7
  BY DEF align_bytes_to_beat

LEMMA AlignMonotone ==
  ASSUME NEW m \in Int, NEW n \in Int, m <= n
  PROVE  align_bytes_to_beat(m) <= align_bytes_to_beat(n)
  BY DEF align_bytes_to_beat

LEMMA AlignShift ==
  ASSUME NEW n \in Int, NEW k \in Int
  PROVE  align_bytes_to_beat(8 * k + n) = 8 * k + align_bytes_to_beat(n)
  BY DEF align_bytes_to_beat

\* The two roundings of a duration and of a record are one.
LEMMA CountsAgree ==
  ASSUME NEW t \in Int
  PROVE  /\ Count(t) \in Nat \ {0}
         /\ iq_duration_to_sample_count(t) = align_bytes_to_beat(Count(t))
         /\ _record_int16_sample_count(t) = align_bytes_to_beat(Count(t))
         /\ iq_duration_to_sample_count(t) \in Nat \ {0}
         /\ _record_int16_sample_count(t) \in Nat \ {0}
<1>1. Count(t) \in Nat \ {0}
  BY NearestFacts DEF Count
<1>2. \A n \in Int : align_bytes_to_beat(n) = IF n % 8 # 0 THEN n + 8 - (n % 8) ELSE n
  BY DEF align_bytes_to_beat
<1> QED
  BY <1>1, <1>2, AlignFacts DEF Count, iq_duration_to_sample_count, _record_int16_sample_count

\* A pulse that starts on a DAC word and ends in the record ends in its words.
LEMMA WordsFit ==
  ASSUME NEW k \in Nat, NEW d \in Int, d >= 2, NEW r \in Int, 16 * k + d <= r
  PROVE  8 * k + iq_duration_to_sample_count(d) <= _record_int16_sample_count(r)
<1>1. Nearest(d) >= 1 /\ Nearest(d) \in Int /\ Nearest(r) \in Int
  BY NearestFacts
<1>2. 8 * k + Nearest(d) <= Nearest(r)
  BY NearestMonotone, NearestShift
<1>3. Count(d) = Nearest(d) /\ Count(r) = Nearest(r)
  BY <1>1, <1>2 DEF Count
<1>4. align_bytes_to_beat(8 * k + Nearest(d)) <= align_bytes_to_beat(Nearest(r))
  BY <1>1, <1>2, AlignMonotone
<1> QED
  BY <1>1, <1>3, <1>4, AlignShift, CountsAgree

\* A manual request as models.py lets it through, and its overrides.
WaveformNames ==
  {"iq-sine", "sine", "dc-iq-cw", "iq-gaussian-sine", "pypulse", "burst", "quantum", "xy", "readout", "z"}
ManualAsked(q, o) ==
  /\ q.record \in Nat \ {0}
  /\ \A c \in Lanes : /\ q.items[c].type \in WaveformNames
                      /\ q.items[c].start \in Nat /\ q.items[c].duration \in Nat \ {0}
  /\ \A c \in DOMAIN o.start : o.start[c] \in Int

LEMMA PulseFacts ==
  ASSUME NEW n \in Nat
  PROVE  /\ Pulse(n) \in Seq(Nat) /\ Len(Pulse(n)) = n /\ \A i \in 1..n : Pulse(n)[i] = i
  BY DEF Pulse

LEMMA ZerosFacts ==
  ASSUME NEW n \in Nat
  PROVE  /\ Zeros(n) \in Seq(Nat) /\ Len(Zeros(n)) = n /\ \A i \in 1..n : Zeros(n)[i] = 0
  BY DEF Zeros

\* A channel of a manual request is off or one of the four shapes of a duration.
LEMMA ManualChannelMade ==
  ASSUME NEW type, NEW delay, NEW duration \in Int, NEW record \in Nat \ {0}
  PROVE  LET made == _make_channel_waveform([type |-> type, delay |-> delay, duration |-> duration,
                                             record |-> record, tail |-> 0])
             n == iq_duration_to_sample_count(duration)
             r == _record_int16_sample_count(record)
         IN  /\ type = "off" => made = Made(Zeros(r))
             /\ type \in {"sine", "xy", "readout", "z"} => made = InRecord(Pulse(n), delay, r)
<1> DEFINE ch == [type |-> type, delay |-> delay, duration |-> duration, record |-> record, tail |-> 0]
<1>1. CASE type = "off"
  <2>1. _normalize_channel_waveform_type(ch.type) = "off" /\ "off" \notin TileTypes
    BY <1>1 DEF _normalize_channel_waveform_type, TileTypes
  <2>2. _make_channel_waveform(ch)
          = Made(Zeros(IF ch.record = 0 THEN iq_duration_to_sample_count(ch.duration)
                       ELSE _record_int16_sample_count(ch.record)))
    BY <2>1 DEF _make_channel_waveform
  <2>3. (IF ch.record = 0 THEN iq_duration_to_sample_count(ch.duration)
         ELSE _record_int16_sample_count(ch.record)) = _record_int16_sample_count(record)
    OBVIOUS
  <2>4. _make_channel_waveform(ch) = Made(Zeros(_record_int16_sample_count(record)))
    BY <2>2, <2>3, Zenon
  <2> HIDE DEF ch
  <2> QED
    BY <1>1, <2>4 DEF ch
<1>2. CASE type \in {"sine", "xy", "readout", "z"}
  <2>1. /\ _normalize_channel_waveform_type(ch.type) # "off"
        /\ _normalize_channel_waveform_type(ch.type) \notin TileTypes
    BY <1>2 DEF _normalize_channel_waveform_type, TileTypes
  <2>2. _make_channel_waveform(ch) = _place_channel_waveform(_make_active_channel_waveform(ch), ch, TRUE)
    BY <2>1 DEF _make_channel_waveform
  <2> QED
    BY <1>2, <2>2 DEF _place_channel_waveform, _make_active_channel_waveform
<1> QED
  BY <1>1, <1>2

LEMMA ManualIsGenerated ==
  ASSUME NEW q, NEW o, ManualAsked(q, o), _manual_config(q, o).ok,
         \A c \in _channel_mask_for_job(q, o) :
           Shifted(q, o, c) >= 0 /\ Shifted(q, o, c) % 16 = 0 /\ q.items[c].duration >= 2
  PROVE  generate_waveforms(_manual_config(q, o)).ok
<1> DEFINE on(c) == _override_for(o.enabled, c, q.items[c].enabled)
           delay(c) == q.items[c].start + _override_for(o.start, c, 0)
           Setting(c) == [type |-> IF on(c) THEN normalize_waveform(q.items[c].type) ELSE "off",
                          delay |-> delay(c), duration |-> q.items[c].duration,
                          record |-> q.record, tail |-> 0]
           config == _manual_config(q, o)
<1>1. ~\E c \in Lanes : on(c) /\ delay(c) + q.items[c].duration > q.record
  BY DEF _manual_config, NoConfig
<1>2. config = [DefaultConfig EXCEPT !.mode = "manual-channels", !.loop = q.loop,
                                     !.channels = [c \in Lanes |-> Setting(c)]]
  BY <1>1 DEF _manual_config
<1>3. config.channels = [c \in Lanes |-> Setting(c)]
  BY <1>2 DEF DefaultConfig
<1>4. ASSUME NEW c \in Lanes PROVE _make_channel_waveform(Setting(c)).ok
  <2> DEFINE d == q.items[c].duration
             n == iq_duration_to_sample_count(d)
             r == _record_int16_sample_count(q.record)
  <2>0. d \in Nat \ {0} /\ q.record \in Nat \ {0} /\ q.items[c].type \in WaveformNames
    BY DEF ManualAsked
  <2>1. CASE ~on(c)
    <3>1. Setting(c) = [type |-> "off", delay |-> delay(c), duration |-> d, record |-> q.record,
                        tail |-> 0]
      BY <2>1
    <3> HIDE DEF Setting, delay, d, r
    <3>2. _make_channel_waveform(Setting(c)) = Made(Zeros(r))
      BY <2>0, <3>1, ManualChannelMade DEF r
    <3> QED
      BY <3>2 DEF Made
  <2>2. CASE on(c)
    <3>1. c \in _channel_mask_for_job(q, o)
      BY <2>2 DEF _channel_mask_for_job
    <3>2. delay(c) \in Nat /\ delay(c) % 16 = 0 /\ d >= 2
      BY <3>1 DEF Shifted, ManualAsked, _override_for
    <3>3. PICK k \in Nat : delay(c) = 16 * k
      BY <3>2
    <3>4. 16 * k + d <= q.record
      BY <1>1, <2>0, <2>2, <3>3
    <3>5. 8 * k + n <= r /\ n \in Nat /\ r \in Nat
      BY <2>0, <3>2, <3>4, WordsFit, CountsAgree
    <3>6. Nearest(delay(c)) = 8 * k
      <4>1. Nearest(0) = 0
        BY DEF Nearest
      <4> QED
        BY <3>3, <4>1, NearestShift
    <3>7. InRecord(Pulse(n), delay(c), r).ok
      BY <3>5, <3>6, PulseFacts DEF InRecord, Made
    <3>8. normalize_waveform(q.items[c].type) \in {"sine", "xy", "readout", "z"}
      BY <2>0 DEF normalize_waveform, WaveformNames
    <3>9. Setting(c) = [type |-> normalize_waveform(q.items[c].type), delay |-> delay(c),
                        duration |-> d, record |-> q.record, tail |-> 0]
      BY <2>2
    <3> HIDE DEF Setting, delay, d, r, n
    <3>10. _make_channel_waveform(Setting(c)) = InRecord(Pulse(n), delay(c), r)
      BY <2>0, <3>8, <3>9, ManualChannelMade DEF r, n
    <3> QED
      BY <3>7, <3>10
  <2> QED
    BY <2>1, <2>2
<1> HIDE DEF Setting
<1>5. config.channels # <<>>
  <2>1. DOMAIN config.channels = Lanes /\ DOMAIN <<>> = 1..0 /\ 1 \in Lanes
    BY <1>3 DEF Lanes
  <2> QED
    BY <2>1
<1>6. generate_waveforms(config) = _generate_independent_waveforms(config)
  BY <1>5 DEF generate_waveforms
<1>7. _generate_independent_waveforms(config).ok
  BY <1>3, <1>4 DEF _generate_independent_waveforms, Together
<1> QED
  BY <1>6, <1>7

\* A gate reads the slots that a request for it fills in, but for x12_half.
LEMMA GateReadsItsSlots ==
  ASSUME NEW e, NEW amplitude, NEW duration, e.role \in {"xy", "z", "readout"},
         e.amp[EzqSlots(e.role, e.gate).amp] = amplitude,
         \A s \in EzqSlots(e.role, e.gate).len : e.len[s] = duration
  PROVE  /\ _ezq_channel_duration_s(e) = duration
         /\ ~(e.role = "xy" /\ e.gate = "x12_half") => Amplitude(e) = amplitude
<1> DEFINE slots == EzqSlots(e.role, e.gate)
           read == _ezq_xy_gate_parameters(e)
<1>1. CASE e.role = "z"
  <2>1. slots = [amp |-> "z", len |-> {"z", "z_gate"}]
    BY <1>1 DEF EzqSlots
  <2>2. _ezq_channel_duration_s(e) = IF e.len["z"] > e.len["z_gate"] THEN e.len["z"] ELSE e.len["z_gate"]
    BY <1>1 DEF _ezq_channel_duration_s
  <2> QED
    BY <1>1, <2>1, <2>2 DEF Amplitude
<1>2. CASE e.role = "readout"
  <2>1. slots = [amp |-> "readout", len |-> {"readout"}]
    BY <1>2 DEF EzqSlots
  <2>2. _ezq_channel_duration_s(e) = e.len["readout"]
    BY <1>2 DEF _ezq_channel_duration_s
  <2> QED
    BY <1>2, <2>1, <2>2 DEF Amplitude
<1>3. CASE e.role = "xy"
  <2>0. _ezq_channel_duration_s(e) = read.duration /\ Amplitude(e) = read.amp
    <3>1. _ezq_channel_duration_s(e) = read.duration
      BY <1>3 DEF _ezq_channel_duration_s
    <3> QED
      BY <1>3, <3>1 DEF Amplitude
  <2>1. CASE e.gate = "x12_pi"
    <3>1. slots = [amp |-> "pi21", len |-> {"pi"}]
      BY <1>3, <2>1 DEF EzqSlots
    <3>2. read = [amp |-> e.amp["pi21"], duration |-> e.len["pi"]]
      BY <2>1 DEF _ezq_xy_gate_parameters
    <3> QED
      BY <2>0, <3>1, <3>2
  <2>2. CASE e.gate = "x12_half"
    <3>1. slots = [amp |-> "half", len |-> {"half"}]
      BY <1>3, <2>2 DEF EzqSlots
    <3>2. read = [amp |-> e.amp["half21"], duration |-> e.len["half"]]
      BY <2>2 DEF _ezq_xy_gate_parameters
    <3> QED
      BY <1>3, <2>0, <2>2, <3>1, <3>2
  <2>3. CASE e.gate = "spec"
    <3>1. slots = [amp |-> "spec", len |-> {"spec"}]
      BY <1>3, <2>3 DEF EzqSlots
    <3>2. read = [amp |-> e.amp["spec"], duration |-> e.len["spec"]]
      BY <2>3 DEF _ezq_xy_gate_parameters
    <3> QED
      BY <2>0, <3>1, <3>2
  <2>4. CASE e.gate \in {"x_half", "y_half"}
    <3>1. slots = [amp |-> "half", len |-> {"half"}]
      BY <1>3, <2>4 DEF EzqSlots
    <3>2. read = [amp |-> e.amp["half"], duration |-> e.len["half"]]
      BY <2>4 DEF _ezq_xy_gate_parameters
    <3> QED
      BY <2>0, <3>1, <3>2
  <2>5. CASE e.gate \notin {"x12_pi", "x12_half", "spec", "x_half", "y_half"}
    <3>1. slots = [amp |-> "pi", len |-> {"pi"}]
      BY <1>3, <2>5 DEF EzqSlots
    <3>2. read = [amp |-> e.amp["pi"], duration |-> e.len["pi"]]
      BY <2>5 DEF _ezq_xy_gate_parameters
    <3> QED
      BY <2>0, <3>1, <3>2
  <2> QED
    BY <2>1, <2>2, <2>3, <2>4, <2>5
<1> QED
  BY <1>1, <1>2, <1>3

\* The slots of every role and gate exist in the default settings.
LEMMA SlotsExist ==
  ASSUME NEW role \in {"xy", "z", "readout"}, NEW gate
  PROVE  EzqSlots(role, gate).amp \in DOMAIN DefaultAmp /\ EzqSlots(role, gate).len \subseteq DOMAIN DefaultLen
<1>1. EzqSlots(role, gate) \in
        {[amp |-> "z", len |-> {"z", "z_gate"}], [amp |-> "readout", len |-> {"readout"}],
         [amp |-> "half", len |-> {"half"}], [amp |-> "spec", len |-> {"spec"}],
         [amp |-> "pi21", len |-> {"pi"}], [amp |-> "pi", len |-> {"pi"}]}
  BY DEF EzqSlots
<1> QED
  BY <1>1 DEF DefaultAmp, DefaultLen

LEMMA GateIsRequested ==
  ASSUME NEW q, NEW o, NEW c \in Lanes
  PROVE  LET e == _ezq_effective_channel_config(_ezq_config(q, o).ezq, c)
             item == q.items[c]
         IN  /\ _ezq_channel_duration_s(e) = item.duration
             /\ ~(e.role = "xy" /\ e.gate = "x12_half") => Amplitude(e) = item.amplitude
<1> DEFINE base == default_test_ezq_config.ch[c]
           item == q.items[c]
           ch == [k \in Lanes |-> _apply_ezq_values(default_test_ezq_config.ch[k], k, q.items[k], o)]
           e == _apply_ezq_values(base, c, item, o)
           role == _fixed_channel_role(c)
           slots == EzqSlots(role, item.gate)
<1>1. base.role = role /\ base.amp = DefaultAmp /\ base.len = DefaultLen
      /\ role \in {"xy", "z", "readout"}
      /\ DOMAIN base = {"enabled", "role", "gate", "start", "detune", "target", "readout_freq", "amp",
                        "len", "flattop"}
  BY DEF default_test_ezq_config, _fixed_channel_role
<1> HIDE DEF role, base
<1>2. /\ e.role = role /\ e.gate = item.gate
      /\ e.amp = [DefaultAmp EXCEPT ![slots.amp] = item.amplitude]
      /\ e.len = [s \in DOMAIN DefaultLen |-> IF s \in slots.len THEN item.duration ELSE DefaultLen[s]]
  BY <1>1 DEF _apply_ezq_values
<1> HIDE DEF e
<1>3. /\ e.amp[slots.amp] = item.amplitude
      /\ \A s \in slots.len : e.len[s] = item.duration
  BY <1>1, <1>2, SlotsExist
<1>4. _ezq_effective_channel_config(_ezq_config(q, o).ezq, c) = e
  <2>1. _ezq_config(q, o).ezq.ch = ch
    <3>1. DefaultConfig.ezq = default_test_ezq_config /\ {"ezq", "loop"} \subseteq DOMAIN DefaultConfig
      BY DEF DefaultConfig
    <3>2. {"ch", "record", "mask"} \subseteq DOMAIN default_test_ezq_config
      BY DEF default_test_ezq_config
    <3> HIDE DEF ch
    <3>3. _ezq_config(q, o)
            = [DefaultConfig EXCEPT
                 !.loop = q.loop,
                 !.ezq = [@ EXCEPT !.record = q.record, !.ch = ch, !.mask = {k \in Lanes : ch[k].enabled}]]
      BY DEF _ezq_config, ch
    <3> QED
      BY <3>1, <3>2, <3>3
  <2>2. c \in DOMAIN ch /\ ch[c] = e
    BY DEF base, e
  <2> HIDE DEF ch
  <2> QED
    BY <1>2, <2>1, <2>2 DEF _ezq_effective_channel_config, role
<1>5. /\ _ezq_channel_duration_s(e) = item.duration
      /\ ~(e.role = "xy" /\ e.gate = "x12_half") => Amplitude(e) = item.amplitude
  <2> HIDE DEF item
  <2>1. /\ e.role \in {"xy", "z", "readout"} /\ e.amp[EzqSlots(e.role, e.gate).amp] = item.amplitude
        /\ \A s \in EzqSlots(e.role, e.gate).len : e.len[s] = item.duration
    BY <1>1, <1>2, <1>3
  <2> QED
    BY <2>1, GateReadsItsSlots
<1> QED
  BY <1>4, <1>5

\* The settings of a configuration: times are numbers, records are not negative.
SettingsOf(cfg) ==
  /\ cfg.duration \in Int /\ cfg.tail \in Int /\ cfg.ezq.record \in Int
  /\ DOMAIN cfg.channels \subseteq Lanes
  /\ \A c \in DOMAIN cfg.channels :
       /\ cfg.channels[c].delay \in Int /\ cfg.channels[c].duration \in Int
       /\ cfg.channels[c].tail \in Int /\ cfg.channels[c].record \in Nat
  /\ \A s \in DOMAIN DefaultLen : cfg.ezq.len[s] \in Int
  /\ \A c \in DOMAIN cfg.ezq.ch :
       /\ {"start", "len"} \subseteq DOMAIN cfg.ezq.ch[c]
       /\ cfg.ezq.ch[c].start \in Int /\ \A s \in DOMAIN DefaultLen : cfg.ezq.ch[c].len[s] \in Int

Sounds(w) == \E i \in DOMAIN w : w[i] # 0

LEMMA PulseSounds ==
  ASSUME NEW n \in Nat \ {0}
  PROVE  Sounds(Pulse(n))
  BY PulseFacts DEF Sounds, Pulse

LEMMA ZerosSilent ==
  ASSUME NEW n
  PROVE  ~Sounds(Zeros(n))
  BY DEF Sounds, Zeros

LEMMA ConcatFacts ==
  ASSUME NEW s \in Seq(Nat), NEW t \in Seq(Nat)
  PROVE  /\ s \o t \in Seq(Nat) /\ Len(s \o t) = Len(s) + Len(t)
         /\ DOMAIN (s \o t) = 1..(Len(s) + Len(t)) /\ DOMAIN s = 1..Len(s) /\ Len(s) \in Nat
         /\ \A i \in 1..(Len(s) + Len(t)) : (s \o t)[i] = IF i <= Len(s) THEN s[i] ELSE t[i - Len(s)]
  OBVIOUS

\* Followed by silence it still sounds.
LEMMA TailSounds ==
  ASSUME NEW n \in Nat \ {0}, NEW m \in Nat
  PROVE  Sounds(Pulse(n) \o Zeros(m))
<1> DEFINE p == Pulse(n)  z == Zeros(m)
<1>1. p \in Seq(Nat) /\ Len(p) = n /\ p[1] = 1 /\ z \in Seq(Nat) /\ Len(z) = m
  BY PulseFacts, ZerosFacts
<1> HIDE DEF p, z
<1>2. 1 \in DOMAIN (p \o z) /\ (p \o z)[1] = 1
  BY <1>1, ConcatFacts
<1> QED
  BY <1>2 DEF Sounds, p, z

\* A record sounds if and only if what was placed in it does.
LEMMA RecordSounds ==
  ASSUME NEW w \in Seq(Nat), NEW start \in Int, NEW n \in Int, InRecord(w, start, n).ok
  PROVE  Sounds(InRecord(w, start, n).wave) <=> Sounds(w)
<1> DEFINE at == IF Nearest(start) < 0 THEN 0 ELSE Nearest(start)
           rest == n - at - Len(w)
           all == Zeros(at) \o w \o Zeros(rest)
<1>1. at \in Nat
  <2>1. Nearest(start) \in Int
    BY NearestFacts
  <2> QED
    BY <2>1
<1>2. Len(w) \in Nat /\ ~(at + Len(w) > n)
  BY DEF InRecord, Raised
<1>3. rest \in Nat /\ InRecord(w, start, n).wave = all
  <2>1. rest \in Nat
    BY <1>1, <1>2
  <2> QED
    BY <1>2, <2>1 DEF InRecord, Made
<1> DEFINE z == Zeros(at)  y == Zeros(rest)  zw == z \o w
<1>4. z \in Seq(Nat) /\ Len(z) = at /\ \A i \in 1..at : z[i] = 0
  BY <1>1, ZerosFacts
<1>5. y \in Seq(Nat) /\ Len(y) = rest /\ \A i \in 1..rest : y[i] = 0
  BY <1>3, ZerosFacts
<1>6. all = zw \o y
  OBVIOUS
<1> HIDE DEF at, rest, z, y, all
<1>7. /\ zw \in Seq(Nat) /\ Len(zw) = at + Len(w)
      /\ \A i \in 1..(at + Len(w)) : zw[i] = IF i <= at THEN z[i] ELSE w[i - at]
  BY <1>4, ConcatFacts
<1> HIDE DEF zw
<1>8. /\ DOMAIN all = 1..(at + Len(w) + rest) /\ DOMAIN w = 1..Len(w)
      /\ \A i \in 1..(at + Len(w) + rest) :
           all[i] = IF i <= at + Len(w) THEN zw[i] ELSE y[i - (at + Len(w))]
  BY <1>5, <1>6, <1>7, ConcatFacts
<1>9. ASSUME NEW i \in DOMAIN all, all[i] # 0 PROVE Sounds(w)
  <2>1. i <= at + Len(w)
    BY <1>1, <1>2, <1>3, <1>5, <1>8, <1>9
  <2>2. all[i] = zw[i] /\ i \in 1..(at + Len(w)) /\ i \in Nat
    BY <1>1, <1>2, <1>3, <1>8, <1>9, <2>1
  <2>3. ~(i <= at)
    BY <1>1, <1>4, <1>7, <1>9, <2>2
  <2>4. i - at \in 1..Len(w)
    BY <1>1, <1>2, <2>2, <2>3
  <2>5. all[i] = w[i - at]
    BY <1>7, <2>2, <2>3
  <2> QED
    BY <1>8, <1>9, <2>4, <2>5 DEF Sounds
<1>10. ASSUME NEW i \in DOMAIN w, w[i] # 0 PROVE Sounds(all)
  <2>1. /\ i \in 1..Len(w) /\ at + i \in 1..(at + Len(w)) /\ ~(at + i <= at) /\ (at + i) - at = i
        /\ at + i \in 1..(at + Len(w) + rest) /\ at + i <= at + Len(w)
    BY <1>1, <1>2, <1>3, <1>8
  <2>2. zw[at + i] = w[i]
    BY <1>7, <2>1
  <2>3. at + i \in DOMAIN all /\ all[at + i] = w[i]
    BY <1>8, <2>1, <2>2
  <2> QED
    BY <1>10, <2>3 DEF Sounds
<1> QED
  BY <1>3, <1>9, <1>10 DEF Sounds

\* A channel with settings is off, or its pulse sounds.
LEMMA ChannelSounds ==
  ASSUME NEW s, s.delay \in Int, s.duration \in Int, s.tail \in Int, s.record \in Nat,
         _make_channel_waveform(s).ok
  PROVE  Sounds(_make_channel_waveform(s).wave) <=> s.type # "off"
<1> DEFINE type == _normalize_channel_waveform_type(s.type)
           made == _make_channel_waveform(s)
<1>0. type = "off" <=> s.type = "off"
  <2>1. CASE s.type = "off"
    BY <2>1 DEF _normalize_channel_waveform_type
  <2>2. CASE s.type \in {"hls", "ezq-xy"}
    BY <2>2 DEF _normalize_channel_waveform_type
  <2>3. CASE s.type \in {"sine", "xy", "readout", "z", "dc-iq-cw", "iq-sine", "iq-gaussian-sine",
                         "pypulse", "quantum", "burst", "golden", "pulse"}
    BY <2>3 DEF _normalize_channel_waveform_type
  <2>4. CASE s.type \notin {"hls", "ezq-xy", "off", "sine", "xy", "readout", "z", "dc-iq-cw", "iq-sine",
                            "iq-gaussian-sine", "pypulse", "quantum", "burst", "golden", "pulse"}
    BY <2>4 DEF _normalize_channel_waveform_type
  <2> QED
    BY <2>1, <2>2, <2>3, <2>4
<1>1. CASE type = "off"
  <2>1. "off" \notin TileTypes
    BY DEF TileTypes
  <2>2. made = Made(Zeros(IF s.record = 0 THEN iq_duration_to_sample_count(s.duration)
                          ELSE _record_int16_sample_count(s.record)))
    BY <1>1, <2>1 DEF _make_channel_waveform
  <2> QED
    BY <1>0, <1>1, <2>2, ZerosSilent DEF Made
<1>2. ASSUME NEW n \in Nat \ {0}, NEW tail \in BOOLEAN, made = _place_channel_waveform(Pulse(n), s, tail)
      PROVE  Sounds(made.wave)
  <2>1. CASE s.record > 0
    <3> DEFINE r == _record_int16_sample_count(s.record)
    <3>1. made = InRecord(Pulse(n), s.delay, r)
      BY <1>2, <2>1 DEF _place_channel_waveform
    <3>2. r \in Int
      BY CountsAgree
    <3> HIDE DEF r, made
    <3> QED
      BY <3>1, <3>2, RecordSounds, PulseSounds, PulseFacts DEF made
  <2>2. CASE ~(s.record > 0) /\ ~tail
    BY <1>2, <2>2, PulseSounds DEF _place_channel_waveform, Made
  <2>3. CASE ~(s.record > 0) /\ tail
    <3> DEFINE m == iq_duration_to_sample_count(s.tail)
    <3>1. m \in Nat
      BY CountsAgree
    <3>2. made = IF s.tail <= 0 THEN Raised ELSE Made(Pulse(n) \o Zeros(m))
      BY <1>2, <2>3 DEF _place_channel_waveform
    <3>3. made.wave = Pulse(n) \o Zeros(m)
      BY <3>2 DEF Raised, Made
    <3> QED
      BY <3>1, <3>3, TailSounds
  <2> QED
    BY <2>1, <2>2, <2>3
<1>3. CASE type # "off" /\ type \in TileTypes
  <2>1. made = _place_channel_waveform(Pulse(TILE_SAMPLES), s, FALSE)
    BY <1>3 DEF _make_channel_waveform
  <2> QED
    BY <1>0, <1>2, <1>3, <2>1, TileAssumption
<1>4. CASE type # "off" /\ type \notin TileTypes
  <2>1. made = _place_channel_waveform(_make_active_channel_waveform(s), s, TRUE)
    BY <1>4 DEF _make_channel_waveform
  <2>2. made = _place_channel_waveform(Pulse(iq_duration_to_sample_count(s.duration)), s, TRUE)
    BY <2>1 DEF _make_active_channel_waveform
  <2> QED
    BY <1>0, <1>2, <1>4, <2>2, CountsAgree
<1> QED
  BY <1>1, <1>3, <1>4

\* An ez-Q channel has whole times whichever gate it plays, and sounds if it is
\* enabled and its times are accepted.
LEMMA EzqTimes ==
  ASSUME NEW e, \A s \in DOMAIN DefaultLen : e.len[s] \in Int
  PROVE  _ezq_channel_duration_s(e) \in Int
<1>1. \A s \in {"pi", "half", "spec", "z", "z_gate", "readout"} : e.len[s] \in Int
  BY DEF DefaultLen
<1>2. CASE e.role = "z"
  <2>1. _ezq_channel_duration_s(e) = IF e.len["z"] > e.len["z_gate"] THEN e.len["z"] ELSE e.len["z_gate"]
    BY <1>2 DEF _ezq_channel_duration_s
  <2> QED
    BY <1>1, <2>1
<1>3. CASE e.role = "readout"
  <2>1. _ezq_channel_duration_s(e) = e.len["readout"]
    BY <1>3 DEF _ezq_channel_duration_s
  <2> QED
    BY <1>1, <2>1
<1>4. CASE e.role \notin {"z", "readout"}
  <2>1. _ezq_channel_duration_s(e) = _ezq_xy_gate_parameters(e).duration
    BY <1>4 DEF _ezq_channel_duration_s
  <2>2. _ezq_xy_gate_parameters(e) \in
          {[amp |-> e.amp["pi21"], duration |-> e.len["pi"]],
           [amp |-> e.amp["half21"], duration |-> e.len["half"]],
           [amp |-> e.amp["spec"], duration |-> e.len["spec"]],
           [amp |-> e.amp["half"], duration |-> e.len["half"]],
           [amp |-> e.amp["pi"], duration |-> e.len["pi"]]}
    BY DEF _ezq_xy_gate_parameters
  <2> QED
    BY <1>1, <2>1, <2>2
<1> QED
  BY <1>2, <1>3, <1>4

LEMMA EffectiveTimes ==
  ASSUME NEW cfg, SettingsOf(cfg), NEW c \in Lanes
  PROVE  LET e == _ezq_effective_channel_config(cfg.ezq, c)
         IN  e.start \in Int /\ _ezq_channel_duration_s(e) \in Int
<1> DEFINE e == _ezq_effective_channel_config(cfg.ezq, c)
<1>1. CASE c \notin DOMAIN cfg.ezq.ch
  <2>1. e = _ezq_global_channel_config(cfg.ezq, c)
    BY <1>1 DEF _ezq_effective_channel_config
  <2>2. e.start = 0 /\ e.len = cfg.ezq.len
    BY <2>1 DEF _ezq_global_channel_config
  <2> QED
    BY <2>2, EzqTimes DEF SettingsOf
<1>2. CASE c \in DOMAIN cfg.ezq.ch
  <2> DEFINE own == cfg.ezq.ch[c]
  <2>1. own.start \in Int /\ (\A s \in DOMAIN DefaultLen : own.len[s] \in Int)
        /\ "start" \in DOMAIN own /\ "len" \in DOMAIN own
    BY <1>2 DEF SettingsOf
  <2>2. e.start = own.start /\ e.len = own.len
    BY <1>2, <2>1 DEF _ezq_effective_channel_config
  <2> QED
    BY <2>1, <2>2, EzqTimes
<1> QED
  BY <1>1, <1>2

LEMMA EzqSounds ==
  ASSUME NEW cfg, SettingsOf(cfg), _generate_ezq_quantum_waveforms(cfg.ezq).ok, NEW c \in Lanes
  PROVE  Sounds(_generate_ezq_quantum_waveforms(cfg.ezq).waves[c]) <=> c \in EzqEnabled(cfg.ezq)
<1> DEFINE E(k) == _ezq_effective_channel_config(cfg.ezq, k)
           N(k) == iq_duration_to_sample_count(_ezq_channel_duration_s(E(k)))
           r == _record_int16_sample_count(cfg.ezq.record)
           active(k) == IF E(k).enabled THEN Pulse(N(k)) ELSE Zeros(N(k))
           made == [k \in Lanes |-> IF ~EzqValid(E(k)) THEN Raised ELSE InRecord(active(k), E(k).start, r)]
<1>1. _generate_ezq_quantum_waveforms(cfg.ezq) = Together(made)
  BY DEF _generate_ezq_quantum_waveforms, _place_iq_wave_in_record
<1>2. E(c).start \in Int /\ N(c) \in Nat \ {0} /\ r \in Int
  BY EffectiveTimes, CountsAgree DEF SettingsOf
<1>3. made[c].ok /\ _generate_ezq_quantum_waveforms(cfg.ezq).waves[c] = made[c].wave
  <2> HIDE DEF made
  <2> QED
    BY <1>1 DEF Together
<1>4. made[c] = IF ~EzqValid(E(c)) THEN Raised ELSE InRecord(active(c), E(c).start, r)
  OBVIOUS
<1>5. c \in EzqEnabled(cfg.ezq) <=> E(c).enabled
  BY DEF EzqEnabled
<1> HIDE DEF made, E, N, r
<1>6. made[c] = InRecord(active(c), E(c).start, r)
  BY <1>3, <1>4 DEF Raised
<1>7. active(c) \in Seq(Nat)
  BY <1>2, PulseFacts, ZerosFacts
<1>8. Sounds(active(c)) <=> E(c).enabled
  BY <1>2, PulseSounds, ZerosSilent
<1> HIDE DEF active
<1> QED
  BY <1>2, <1>3, <1>5, <1>6, <1>7, <1>8, RecordSounds

LEMMA IndependentSounds ==
  ASSUME NEW cfg, SettingsOf(cfg), _generate_independent_waveforms(cfg).ok, NEW c \in Lanes
  PROVE  Sounds(_generate_independent_waveforms(cfg).waves[c])
           <=> c \in {k \in DOMAIN cfg.channels : cfg.channels[k].type # "off"}
<1> DEFINE S(k) == IF k \in DOMAIN cfg.channels THEN cfg.channels[k] ELSE DefaultOff
           made == [k \in Lanes |-> _make_channel_waveform(S(k))]
<1>1. _generate_independent_waveforms(cfg) = Together(made)
  BY DEF _generate_independent_waveforms
<1>2. made[c].ok /\ _generate_independent_waveforms(cfg).waves[c] = made[c].wave
  <2> HIDE DEF made
  <2> QED
    BY <1>1 DEF Together
<1>3. made[c] = _make_channel_waveform(S(c))
  OBVIOUS
<1>4. S(c).delay \in Int /\ S(c).duration \in Int /\ S(c).tail \in Int /\ S(c).record \in Nat
  BY DEF SettingsOf, DefaultOff
<1>5. S(c).type # "off" <=> c \in {k \in DOMAIN cfg.channels : cfg.channels[k].type # "off"}
  BY DEF DefaultOff
<1> HIDE DEF S, made
<1> QED
  BY <1>2, <1>3, <1>4, <1>5, ChannelSounds

\* The waves of one mode for two channels.
LEMMA TwoSound ==
  ASSUME NEW first, NEW second, NEW c \in Lanes
  PROVE  Sounds(ForTwo(first, second).waves[c])
           <=> (c = 1 /\ Sounds(first)) \/ (c = 2 /\ Sounds(second))
<1>1. CASE c = 1
  <2>1. ForTwo(first, second).waves[c] = first
    BY <1>1 DEF ForTwo
  <2> QED
    BY <1>1, <2>1
<1>2. CASE c = 2
  <2>1. ForTwo(first, second).waves[c] = second
    BY <1>2 DEF ForTwo
  <2> QED
    BY <1>2, <2>1
<1>3. CASE c \notin {1, 2}
  <2>1. ForTwo(first, second).waves[c] = Zeros(TILE_SAMPLES)
    BY <1>3 DEF ForTwo
  <2> QED
    BY <1>3, <2>1, ZerosSilent
<1> QED
  BY <1>1, <1>2, <1>3

LEMMA MaskSounds ==
  ASSUME NEW cfg, SettingsOf(cfg), ~(cfg.mode = "ezq-quantum" /\ cfg.channels # <<>>),
         generate_waveforms(cfg).ok
  PROVE  LET sounding == {c \in Lanes : Sounds(generate_waveforms(cfg).waves[c])}
             selected == enabled_channels_for_config(cfg)
         IN  /\ sounding \subseteq selected
             /\ selected # sounding => cfg.mode = "pulse" /\ cfg.channels = <<>>
<1> DEFINE made == generate_waveforms(cfg)
           sounding == {c \in Lanes : Sounds(made.waves[c])}
           selected == enabled_channels_for_config(cfg)
           sine == append_iq_zero_tail(Pulse(iq_duration_to_sample_count(cfg.duration)), cfg.tail)
<1>1. CASE cfg.channels # <<>>
  <2>1. made = _generate_independent_waveforms(cfg)
    BY <1>1 DEF generate_waveforms
  <2>2. selected = {c \in DOMAIN cfg.channels : cfg.channels[c].type # "off"}
    BY <1>1 DEF enabled_channels_for_config
  <2>3. selected \subseteq Lanes
    BY <2>2 DEF SettingsOf
  <2> HIDE DEF made, selected
  <2>4. \A c \in Lanes : Sounds(made.waves[c]) <=> c \in selected
    BY <2>1, <2>2, IndependentSounds DEF made
  <2> QED
    BY <2>3, <2>4 DEF made, selected
<1>2. CASE cfg.channels = <<>> /\ cfg.mode = "ezq-quantum"
  <2>1. made = _generate_ezq_quantum_waveforms(cfg.ezq)
    BY <1>2 DEF generate_waveforms
  <2>2. selected = EzqEnabled(cfg.ezq) /\ selected \subseteq Lanes
    BY <1>2 DEF enabled_channels_for_config, EzqEnabled
  <2> HIDE DEF made, selected
  <2>3. \A c \in Lanes : Sounds(made.waves[c]) <=> c \in selected
    BY <2>1, <2>2, EzqSounds DEF made
  <2> QED
    BY <2>2, <2>3 DEF made, selected
<1>3. CASE cfg.channels = <<>> /\ cfg.mode # "ezq-quantum"
  <2>1. selected = {1, 2} /\ {1, 2} \subseteq Lanes
    BY <1>3 DEF enabled_channels_for_config, Lanes
  <2>2. CASE cfg.mode = "pulse"
    <3>1. made = _make_pulse_preset(cfg.preset)
      BY <1>3, <2>2 DEF generate_waveforms
    <3>2. PICK first, second : made = ForTwo(first, second)
      <4>1. made \in {ForTwo(Pulse(TILE_SAMPLES), Zeros(TILE_SAMPLES)),
                      ForTwo(Zeros(TILE_SAMPLES), Pulse(TILE_SAMPLES)),
                      ForTwo(Pulse(TILE_SAMPLES), Pulse(TILE_SAMPLES)),
                      [ok |-> FALSE, waves |-> <<>>]}
        BY <3>1 DEF _make_pulse_preset
      <4>2. made # [ok |-> FALSE, waves |-> <<>>]
        OBVIOUS
      <4> HIDE DEF made
      <4> QED
        BY <4>1, <4>2
    <3>3. \A c \in Lanes : Sounds(made.waves[c]) => c \in {1, 2}
      BY <3>2, TwoSound
    <3> QED
      BY <1>3, <2>1, <2>2, <3>3
  <2>3. ASSUME NEW w, made = ForTwo(w, w), Sounds(w)
        PROVE  sounding = selected
    <3>1. \A c \in Lanes : Sounds(made.waves[c]) <=> c \in {1, 2}
      BY <2>3, TwoSound
    <3> QED
      BY <2>1, <3>1
  <2>4. CASE cfg.mode \in {"sine", "iq-sine"}
    <3>1. made = ForTwo(sine, sine)
      BY <1>3, <2>4 DEF generate_waveforms
    <3>2. Sounds(sine)
      <4> DEFINE n == iq_duration_to_sample_count(cfg.duration)
                 m == iq_duration_to_sample_count(cfg.tail)
      <4>1. n \in Nat \ {0} /\ m \in Nat
        BY CountsAgree DEF SettingsOf
      <4> HIDE DEF n, m
      <4>2. Sounds(Pulse(n)) /\ Sounds(Pulse(n) \o Zeros(m))
        BY <4>1, PulseSounds, TailSounds
      <4> QED
        BY <4>2 DEF append_iq_zero_tail, n, m
    <3> HIDE DEF made, sine, sounding, selected
    <3> QED
      BY <2>3, <3>1, <3>2 DEF made, sine, sounding, selected
  <2>5. CASE cfg.mode \in {"burst", "golden"}
    <3>1. made = ForTwo(Pulse(TILE_SAMPLES), Pulse(TILE_SAMPLES))
      BY <1>3, <2>5 DEF generate_waveforms
    <3>2. Sounds(Pulse(TILE_SAMPLES))
      BY PulseSounds, TileAssumption
    <3> QED
      BY <2>3, <3>1, <3>2
  <2>6. CASE cfg.mode \notin {"pulse", "sine", "iq-sine", "burst", "golden"}
    <3>1. made = [ok |-> FALSE, waves |-> <<>>]
      BY <1>3, <2>6 DEF generate_waveforms
    <3> QED
      BY <3>1
  <2> QED
    BY <2>2, <2>4, <2>5, <2>6
<1> QED
  BY <1>1, <1>2, <1>3

\* A request of any lengths, starts and overrides, and settings of any kind, are
\* carried out as they stand once they are accepted: they are generated, each
\* gate with its own values, on the channels the board is told.
THEOREM PlanSafe ==
  ASSUME Is("web") /\ Arg.request.mode = "manual" => ManualAsked(Arg.request, Arg.override),
         Is("settings") => SettingsOf(Arg)
  PROVE  PlanIsRequest
<1>1. AcceptedIsGenerated
  BY ManualIsGenerated DEF AcceptedIsGenerated, to_waveform_config
<1>2. GateGetsItsValues
  <2> SUFFICES ASSUME Is("web"), Arg.request.mode = "ezq", NEW c \in Lanes
               PROVE  LET e == _ezq_effective_channel_config(
                                 to_waveform_config(Arg.request, Arg.override).ezq, c)
                          item == Arg.request.items[c]
                      IN  /\ _ezq_channel_duration_s(e) = item.duration
                          /\ ~(e.role = "xy" /\ e.gate = "x12_half") => Amplitude(e) = item.amplitude
    BY DEF GateGetsItsValues
  <2>1. to_waveform_config(Arg.request, Arg.override) = _ezq_config(Arg.request, Arg.override)
    BY DEF to_waveform_config
  <2> QED
    BY <2>1, GateIsRequested
<1>3. MaskIsWhatSounds
  BY MaskSounds DEF MaskIsWhatSounds, Sounds
<1> QED
  BY <1>1, <1>2, <1>3 DEF PlanIsRequest

-----------------------------------------------------------------------------
(* The settings file.  An object that was read has all of its fields with    *)
(* allowed values, so it is written whole and reading it again changes none.  *)

LEMMA ChannelSettles ==
  ASSUME NEW d
  PROVE  LET g == _channel_config_from_dict(d)
         IN  _channel_config_from_dict(_channel_config_to_dict(g)) = g
<1> DEFINE g == _channel_config_from_dict(d)
           a == Allowed(d, ChannelFields)
           reread == Allowed(Restrict(g, ChannelFields), ChannelFields)
<1>1. "waveform_type" \in ChannelFields /\ "domain" \in ChannelFields
  BY DEF ChannelFields
<1>2. a = [key \in ChannelFields |-> a[key]]
  BY DEF Allowed
<1>3. /\ g = [key \in ChannelFields |-> g[key]]
      /\ g["waveform_type"] \in {"sine", "xy", "readout", "z", "off", "iq-sine", "dc-iq-cw",
                                 "iq-gaussian-sine"}
      /\ g["domain"] \in {"iq", "real"}
  BY <1>1, <1>2 DEF _channel_config_from_dict, Known
<1>4. reread = g
  BY <1>3 DEF Allowed, Restrict
<1>5. g = [g EXCEPT !["waveform_type"] = g["waveform_type"], !["domain"] = g["domain"]]
  BY <1>3
<1> HIDE DEF g, reread
<1>6. _channel_config_from_dict(Restrict(g, ChannelFields)) = g
  BY <1>3, <1>4, <1>5 DEF _channel_config_from_dict, Known, reread
<1> QED
  BY <1>6 DEF _channel_config_to_dict, g

LEMMA EzqChannelSettles ==
  ASSUME NEW d
  PROVE  LET g == _ezq_channel_config_from_dict(d)
         IN  _ezq_channel_config_from_dict(_ezq_channel_config_to_dict(g)) = g
<1> DEFINE g == _ezq_channel_config_from_dict(d)
           a == Allowed(d, EzqChannelFields)
           reread == Allowed(Restrict(g, EzqChannelFields), EzqChannelFields)
<1>1. {"waveform", "z_shape", "xy_gate"} \subseteq EzqChannelFields
  BY DEF EzqChannelFields
<1>2. a = [key \in EzqChannelFields |-> a[key]]
  BY DEF Allowed
<1>3. /\ g = [key \in EzqChannelFields |-> g[key]]
      /\ g["waveform"] \in {"xy", "z", "readout"} /\ g["z_shape"] \in {"square", "diabatic_cz"}
      /\ g["xy_gate"] \in {"x_pi", "y_pi", "x_half", "y_half", "x12_pi", "x12_half", "spec"}
  BY <1>1, <1>2 DEF _ezq_channel_config_from_dict, Known
<1>4. reread = g
  BY <1>3 DEF Allowed, Restrict
<1>5. g = [g EXCEPT !["waveform"] = g["waveform"], !["z_shape"] = g["z_shape"],
                    !["xy_gate"] = g["xy_gate"]]
  BY <1>3
<1> HIDE DEF g, reread
<1>6. _ezq_channel_config_from_dict(Restrict(g, EzqChannelFields)) = g
  BY <1>3, <1>4, <1>5 DEF _ezq_channel_config_from_dict, Known, reread
<1> QED
  BY <1>6 DEF _ezq_channel_config_to_dict, g

LEMMA EzqSettles ==
  ASSUME NEW d
  PROVE  LET g == _ezq_config_from_dict(d)
         IN  _ezq_config_from_dict(_ezq_config_to_dict(g)) = g
<1> DEFINE a == Allowed(d.values, EzqFields)
           v == [a EXCEPT !["z_shape"] = Known(@, {"square", "diabatic_cz"}, "square")]
           reread == Allowed(Restrict(v, EzqFields), EzqFields)
           ch == [c \in DOMAIN d.ch |-> _ezq_channel_config_from_dict(d.ch[c])]
           written == [c \in DOMAIN ch |-> _ezq_channel_config_to_dict(ch[c])]
           read == [c \in DOMAIN written |-> _ezq_channel_config_from_dict(written[c])]
<1>1. "z_shape" \in EzqFields
  BY DEF EzqFields
<1>2. a = [key \in EzqFields |-> a[key]]
  BY DEF Allowed
<1>3. v = [key \in EzqFields |-> v[key]] /\ v["z_shape"] \in {"square", "diabatic_cz"}
  BY <1>1, <1>2 DEF Known
<1>4. reread = v
  BY <1>3 DEF Allowed, Restrict
<1>5. v = [v EXCEPT !["z_shape"] = v["z_shape"]]
  BY <1>3
<1>6. read = ch
  BY EzqChannelSettles
<1>7. _ezq_config_from_dict(d) = [values |-> v, ch |-> ch]
  BY DEF _ezq_config_from_dict
<1>8. _ezq_config_to_dict([values |-> v, ch |-> ch]) = [values |-> Restrict(v, EzqFields), ch |-> written]
  BY DEF _ezq_config_to_dict
<1> HIDE DEF v, ch, written, reread
<1>9. [reread EXCEPT !["z_shape"] = Known(@, {"square", "diabatic_cz"}, "square")] = v
  BY <1>3, <1>4, <1>5 DEF Known
<1>10. _ezq_config_from_dict([values |-> Restrict(v, EzqFields), ch |-> written])
         = [values |-> v, ch |-> ch]
  BY <1>6, <1>9 DEF _ezq_config_from_dict, reread
<1> QED
  BY <1>7, <1>8, <1>10

LEMMA WaveformSettles ==
  ASSUME NEW d
  PROVE  LET g == _waveform_config_from_dict(d)
         IN  _waveform_config_from_dict(_waveform_config_to_dict(g)) = g
<1> DEFINE a == Allowed(d.values, WaveformFields)
           Rate(r) == IF r \in {"6400M", "9600M", "8000M", "6000M"} THEN "400M" ELSE r
           Layout(l) == Known(l, {"contiguous", "tiled", "interleaved_512b", "null"},
                              "interleaved_512b")
           v == [a EXCEPT !["sample_rate_hz"] = Rate(@), !["ddr_layout"] = Layout(@)]
           reread == Allowed(Restrict(v, WaveformFields), WaveformFields)
           ch == [c \in DOMAIN d.ch |-> _channel_config_from_dict(d.ch[c])]
           written == [c \in DOMAIN ch |-> _channel_config_to_dict(ch[c])]
           read == [c \in DOMAIN written |-> _channel_config_from_dict(written[c])]
           ezq == _ezq_config_from_dict(d.ezq)
<1>1. "sample_rate_hz" \in WaveformFields /\ "ddr_layout" \in WaveformFields
  BY DEF WaveformFields
<1>2. a = [key \in WaveformFields |-> a[key]]
  BY DEF Allowed
<1>3. /\ v = [key \in WaveformFields |-> v[key]]
      /\ Rate(v["sample_rate_hz"]) = v["sample_rate_hz"] /\ Layout(v["ddr_layout"]) = v["ddr_layout"]
  <2>1. \A r : Rate(Rate(r)) = Rate(r)
    OBVIOUS
  <2>2. \A l : Layout(Layout(l)) = Layout(l)
    BY DEF Known
  <2> HIDE DEF Rate, Layout
  <2> QED
    BY <1>1, <1>2, <2>1, <2>2
<1>4. reread = v
  BY <1>3 DEF Allowed, Restrict
<1>5. v = [v EXCEPT !["sample_rate_hz"] = v["sample_rate_hz"], !["ddr_layout"] = v["ddr_layout"]]
  BY <1>3
<1>6. read = ch
  BY ChannelSettles
<1>7. _ezq_config_from_dict(_ezq_config_to_dict(ezq)) = ezq
  BY EzqSettles
<1>8. _waveform_config_from_dict(d) = [values |-> v, ch |-> ch, ezq |-> ezq]
  BY DEF _waveform_config_from_dict
<1>9. _waveform_config_to_dict([values |-> v, ch |-> ch, ezq |-> ezq])
        = [values |-> Restrict(v, WaveformFields), ch |-> written, ezq |-> _ezq_config_to_dict(ezq)]
  BY DEF _waveform_config_to_dict
<1>10. [reread EXCEPT !["sample_rate_hz"] = Rate(@), !["ddr_layout"] = Layout(@)] = v
  <2> HIDE DEF v, reread, Rate, Layout
  <2> QED
    BY <1>3, <1>4, <1>5
<1> HIDE DEF v, ch, written, reread, ezq
<1>11. _waveform_config_from_dict(
         [values |-> Restrict(v, WaveformFields), ch |-> written, ezq |-> _ezq_config_to_dict(ezq)])
         = [values |-> v, ch |-> ch, ezq |-> ezq]
  BY <1>6, <1>7, <1>10 DEF _waveform_config_from_dict, reread
<1> QED
  BY <1>8, <1>9, <1>11

LEMMA ConnectionSettles ==
  ASSUME NEW d
  PROVE  LET g == _connection_config_from_dict(d)
         IN  _connection_config_from_dict(_connection_config_to_dict(g)) = g
  BY DEF _connection_config_from_dict, _connection_config_to_dict, Allowed, Restrict

\* Once written, the artifacts have a directory of their own.
LEMMA IlaSettles ==
  ASSUME NEW d, NEW dir, NEW other
  PROVE  LET g == _ila_config_from_dict(d, dir)
         IN  _ila_config_from_dict(_ila_config_to_dict(g), other) = g
  BY DEF _ila_config_from_dict, _ila_config_to_dict, Restrict

LEMMA GuiSettles ==
  ASSUME NEW file
  PROVE  LET settings == load_gui_settings(file)
         IN  load_gui_settings(save_gui_settings(settings)) = settings
<1> DEFINE w == _waveform_config_from_dict(file.waveform)
           c == _connection_config_from_dict(file.connection)
           i == _ila_config_from_dict(file.ila, w.values["output_dir"])
<1>1. load_gui_settings(file) = [waveform |-> w, connection |-> c, ila |-> i]
  BY DEF load_gui_settings, gui_settings_from_dict
<1>2. _waveform_config_from_dict(_waveform_config_to_dict(w)) = w
  BY WaveformSettles
<1>3. _connection_config_from_dict(_connection_config_to_dict(c)) = c
  BY ConnectionSettles
<1>4. \A dir : _ila_config_from_dict(_ila_config_to_dict(i), dir) = i
  BY IlaSettles
<1> HIDE DEF w, c, i
<1>5. save_gui_settings([waveform |-> w, connection |-> c, ila |-> i])
        = [waveform |-> _waveform_config_to_dict(w), connection |-> _connection_config_to_dict(c),
           ila |-> _ila_config_to_dict(i)]
  BY DEF save_gui_settings, gui_settings_to_dict
<1>6. load_gui_settings(save_gui_settings([waveform |-> w, connection |-> c, ila |-> i]))
        = [waveform |-> w, connection |-> c, ila |-> i]
  BY <1>2, <1>3, <1>4, <1>5 DEF load_gui_settings, gui_settings_from_dict
<1> QED
  BY <1>1, <1>6

\* Whatever a settings file says, of this version or an older one, and whatever
\* it leaves out: saving what was loaded from it loses nothing.
THEOREM SettingsSafe == SettingsSettle
  BY GuiSettles DEF SettingsSettle
=============================================================================
