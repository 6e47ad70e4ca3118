------------------------------ MODULE MaxLength ------------------------------
(***************************************************************************)
(* Maximum-length records: how the host generates the record beat by beat, *)
(* keeps it in a cache file and uploads it (host.py, Dr47Device in         *)
(* dr47/device.py, run_max_length of send_waveform_udp.py and              *)
(* run_extreme_playback of waveform_model.py).                             *)
(*                                                                         *)
(* A process is one command line or one GUI; it may be killed at any step. *)
(* Processes share the cache directory and nothing else: each drives its   *)
(* own board.  The unit is the 512-bit DDR beat.  A beat of the low-       *)
(* frequency sine is named by its position, a beat of the CW pattern by    *)
(* the code of its first lane (max_length_marker_amplitude).               *)
(***************************************************************************)
EXTENDS Integers, Sequences, FiniteSets

CONSTANTS Procs,
          Totals,          \* lengths of a record, in beats
          FRAME,           \* beats of one descriptor frame (256 bytes: 4)
          MARKER,          \* beats of one marker (8 * 4096 bytes: 512)
          CHUNK,           \* beats a generator chunk holds (8192)
          DATAGRAM,        \* beats a bulk datagram holds (UDP_BULK_SAFE_MAX_BEATS: 4)
          PACKET,          \* beats a DATA packet holds (1024 bytes: 16)
          Requests,        \* what a user may ask for
          MaxCrashes       \* bound: processes killed

ASSUME RecordSizes ==
  /\ {FRAME, MARKER, CHUNK, DATAGRAM, PACKET} \subseteq Nat \ {0}
  /\ \A n \in Totals : n \in Nat \ {0} /\ n % FRAME = 0
ASSUME RequestsAssumption ==
  Requests # {} /\ Requests \subseteq [route : {"cli", "extreme", "udp"}, pattern : {"cw", "sine"},
                                       total : Totals, cached : BOOLEAN, force : BOOLEAN,
                                       only : {"all", "cache", "dry", "wait"}]
ASSUME CrashesAssumption == MaxCrashes \in Nat

VARIABLES proc, cache, tmp, boards, link, crashes

recordVars == <<proc, cache, tmp, boards, link, crashes>>

Keys == {"cw", "sine"} \X Totals
Absent == <<"absent">>

-----------------------------------------------------------------------------
(* The record. *)

max_length_marker_region(i, total) ==
  LET middle == IF total \div 2 > MARKER \div 2 THEN total \div 2 - MARKER \div 2 ELSE 0
  IN  CASE i < MARKER -> "start"
        [] i >= MARKER /\ middle <= i /\ i < middle + MARKER -> "middle"
        [] i >= MARKER /\ ~(middle <= i /\ i < middle + MARKER) /\ i >= total - MARKER -> "end"
        [] OTHER -> "body"

max_length_marker_amplitude(channel, region) ==
  (CASE region = "body" -> 2048 [] region = "start" -> 4096
     [] region = "middle" -> 8192 [] region = "end" -> 12288) + channel * 128

max_length_interleaved_beat(i, total) ==
  max_length_marker_amplitude(1, max_length_marker_region(i, total))
max_length_lowfreq_sine_payload(start, count) == [j \in 1..count |-> start + j - 1]

\* The record the pattern stands for, whatever the chunks it is made in.
Record(pattern, total) ==
  [j \in 1..total |-> IF pattern = "cw" THEN max_length_interleaved_beat(j - 1, total) ELSE j - 1]

Smaller(a, b) == IF a < b THEN a ELSE b

\* Variant: a chunk is never shortened.
ChunkCount_whole(pattern, total, i, chunk) == Smaller(chunk, total - i)

\* The chunk shrinks from its end until its last beat is in the region of its
\* first one.
ChunkCount(pattern, total, i, chunk) ==
  LET most == Smaller(chunk, total - i)
      fits(n) == max_length_marker_region(i + n - 1, total) = max_length_marker_region(i, total)
  IN  IF pattern = "sine" THEN most
      ELSE CHOOSE n \in 1..most : fits(n) /\ \A k \in (n + 1)..most : ~fits(k)

\* One (beat_index, payload) pair of the generator.
iter_max_length_payload_chunks(pattern, total, i, chunk) ==
  LET count == ChunkCount(pattern, total, i, chunk)
  IN  IF pattern = "cw"
      THEN [j \in 1..count |-> max_length_interleaved_beat(i, total)]
      ELSE max_length_lowfreq_sine_payload(i, count)

\* The same from a cache file that was opened when its content was file.
iter_max_length_payload_chunks_from_cache(file, i, chunk) ==
  SubSeq(file, i + 1, Smaller(i + chunk, Len(file)))

-----------------------------------------------------------------------------
Idle == [pc |-> "idle", req |-> CHOOSE r \in Requests : TRUE, next |-> 0, file |-> <<>>,
         chunk |-> <<>>, at |-> 0, fault |-> FALSE]
Fresh == [ddr |-> [i \in {} |-> 0], committed |-> FALSE, playing |-> FALSE]

RecordInit ==
  /\ proc = [p \in Procs |-> Idle]
  /\ cache = [k \in Keys |-> Absent]
  /\ tmp = [p \in Procs |-> Absent]
  /\ boards = [p \in Procs |-> Fresh]
  /\ link = [p \in Procs |-> {}]
  /\ crashes = 0

Req(p) == proc[p].req
Key(p) == <<Req(p).pattern, Req(p).total>>
At(p, pc) == proc[p].pc = pc
Goto(p, pc) == proc' = [proc EXCEPT ![p].pc = pc]

\* run_max_length: the command line sends chunks of CHUNK beats with their
\* byte offset.  A dry run ends before the cache.
run_max_length(p) ==
  /\ At(p, "idle")
  /\ \E r \in Requests :
       /\ r.route = "cli" /\ (r.only = "cache" => r.cached)
       /\ proc' = [proc EXCEPT ![p] = [Idle EXCEPT !.req = r, !.pc =
            CASE r.only = "dry" -> "done" [] r.only # "dry" /\ r.cached -> "ensure"
              [] OTHER -> "begin"]]
  /\ UNCHANGED <<cache, tmp, boards, link, crashes>>

\* run_extreme_playback: chunks of at most DATAGRAM beats, passed on with
\* their beat index, as the web application's max-length tests pass theirs.
\* The converter settings it applies first are RfdcControl's.
run_extreme_playback(p) ==
  /\ At(p, "idle")
  /\ \E r \in Requests :
       /\ r.route = "extreme" /\ r.only # "cache"
       /\ proc' = [proc EXCEPT ![p] = [Idle EXCEPT !.req = r, !.pc =
            CASE r.only = "dry" -> "done" [] r.only # "dry" /\ r.cached -> "ensure"
              [] OTHER -> "begin"]]
  /\ UNCHANGED <<cache, tmp, boards, link, crashes>>

\* RFSocController.upload_max_length_udp: bulk datagrams, none acknowledged.
upload_max_length_udp(p) ==
  /\ At(p, "idle")
  /\ \E r \in Requests :
       /\ r.route = "udp" /\ r.only = "all"
       /\ proc' = [proc EXCEPT ![p] = [Idle EXCEPT !.req = r, !.pc =
            IF r.cached THEN "ensure" ELSE "datagrams"]]
  /\ UNCHANGED <<cache, tmp, boards, link, crashes>>

-----------------------------------------------------------------------------
(* ensure_max_length_waveform_cache. *)

AfterEnsure(p) ==
  IF Req(p).only = "cache" THEN "done" ELSE "open"

reuse(p) ==
  /\ At(p, "ensure")
  /\ cache[Key(p)] # Absent /\ Len(cache[Key(p)]) = Req(p).total /\ ~Req(p).force
  /\ Goto(p, AfterEnsure(p))
  /\ UNCHANGED <<cache, tmp, boards, link, crashes>>

\* The file of an earlier process with the same pid goes first.
open_tmp(p) ==
  /\ At(p, "ensure")
  /\ cache[Key(p)] = Absent \/ Len(cache[Key(p)]) # Req(p).total \/ Req(p).force
  /\ tmp' = [tmp EXCEPT ![p] = <<>>]
  /\ proc' = [proc EXCEPT ![p].pc = "write", ![p].next = 0]
  /\ UNCHANGED <<cache, boards, link, crashes>>

\* Variant: chunks go to the cache file itself.
write_chunk_in_place(p) ==
  /\ At(p, "write") /\ proc[p].next < Req(p).total
  /\ LET c == iter_max_length_payload_chunks(Req(p).pattern, Req(p).total, proc[p].next, CHUNK)
     IN  /\ tmp' = [tmp EXCEPT ![p] = @ \o c]
         /\ cache' = [cache EXCEPT ![Key(p)] = tmp[p] \o c]
         /\ proc' = [proc EXCEPT ![p].next = @ + Len(c)]
  /\ UNCHANGED <<boards, link, crashes>>

write_chunk(p) ==
  /\ At(p, "write") /\ proc[p].next < Req(p).total
  /\ LET c == iter_max_length_payload_chunks(Req(p).pattern, Req(p).total, proc[p].next, CHUNK)
     IN  /\ tmp' = [tmp EXCEPT ![p] = @ \o c]
         /\ proc' = [proc EXCEPT ![p].next = @ + Len(c)]
  /\ UNCHANGED <<cache, boards, link, crashes>>

replace(p) ==
  /\ At(p, "write") /\ proc[p].next = Req(p).total
  /\ cache' = [cache EXCEPT ![Key(p)] = tmp[p]]
  /\ tmp' = [tmp EXCEPT ![p] = Absent]
  /\ proc' = [proc EXCEPT ![p].pc = AfterEnsure(p), ![p].next = 0]
  /\ UNCHANGED <<boards, link, crashes>>

\* The reader checks the size of the file and opens it; the file another
\* process puts in its place later does not change what it reads.
open_cache(p) ==
  /\ At(p, "open")
  /\ proc' = [proc EXCEPT ![p].file = cache[Key(p)],
                          ![p].pc = CASE Len(cache[Key(p)]) # Req(p).total -> "failed"
                                      [] Req(p).route = "udp" -> "datagrams"
                                      [] OTHER -> "begin"]
  /\ UNCHANGED <<cache, tmp, boards, link, crashes>>

-----------------------------------------------------------------------------
(* Dr47Device.upload_interleaved_chunks: BEGIN, DATA and COMMIT, each       *)
(* acknowledged; UploadWriter is about how a request survives the network. *)

ChunkBeats(p) == IF Req(p).route = "cli" THEN CHUNK ELSE DATAGRAM
NextChunk(p) ==
  IF Req(p).cached
  THEN iter_max_length_payload_chunks_from_cache(proc[p].file, proc[p].next, ChunkBeats(p))
  ELSE iter_max_length_payload_chunks(Req(p).pattern, Req(p).total, proc[p].next, ChunkBeats(p))

\* Variant: the command line passes the beat index on, too.
ChunkOffset_beats(p) == proc[p].next

\* What the pair carries as its offset, in the unit upload_interleaved_chunks
\* reads: 64 bytes to a beat on the command line, the bare beat index in
\* run_extreme_playback.
ChunkOffset(p) == IF Req(p).route = "cli" THEN 64 * proc[p].next ELSE proc[p].next

begin_waveform(p) ==
  /\ At(p, "begin")
  /\ proc' = [proc EXCEPT ![p].pc = "chunk", ![p].next = 0, ![p].at = 0]
  /\ UNCHANGED <<cache, tmp, boards, link, crashes>>

\* A chunk must start where the last one ended.
next_chunk(p) ==
  /\ At(p, "chunk") /\ proc[p].next < Req(p).total
  /\ IF ChunkOffset(p) # 64 * proc[p].at
     THEN Goto(p, "failed")
     ELSE proc' = [proc EXCEPT ![p].pc = "data", ![p].chunk = NextChunk(p)]
  /\ UNCHANGED <<cache, tmp, boards, link, crashes>>

\* One DATA packet of at most PACKET beats, written at its byte offset.
data_waveform(p) ==
  /\ At(p, "data")
  /\ LET piece == SubSeq(proc[p].chunk, 1, Smaller(PACKET, Len(proc[p].chunk)))
         rest == SubSeq(proc[p].chunk, Len(piece) + 1, Len(proc[p].chunk))
         at == proc[p].at
     IN  /\ boards' = [boards EXCEPT ![p].ddr =
              [i \in DOMAIN @ \cup (at..(at + Len(piece) - 1)) |->
                 IF i >= at /\ i < at + Len(piece) THEN piece[i - at + 1] ELSE @[i]]]
         /\ proc' = [proc EXCEPT ![p].chunk = rest, ![p].at = at + Len(piece),
                                 ![p].next = IF rest = <<>> THEN at + Len(piece) ELSE @,
                                 ![p].pc = IF rest = <<>> THEN "chunk" ELSE "data"]
  /\ UNCHANGED <<cache, tmp, link, crashes>>

\* Variant: the descriptor is committed when the chunks stop coming.
commit_waveform_early(p) ==
  /\ At(p, "chunk") /\ proc[p].next > 0
  /\ boards' = [boards EXCEPT ![p].committed = TRUE]
  /\ Goto(p, "committed")
  /\ UNCHANGED <<cache, tmp, link, crashes>>

commit_waveform(p) ==
  /\ At(p, "chunk") /\ proc[p].next = Req(p).total
  /\ boards' = [boards EXCEPT ![p].committed = TRUE]
  /\ Goto(p, "committed")
  /\ UNCHANGED <<cache, tmp, link, crashes>>

\* PLAY, unless the user wants to wait for the trigger input.
play(p) ==
  /\ At(p, "committed")
  /\ boards' = [boards EXCEPT ![p].playing = Req(p).only # "wait"]
  /\ Goto(p, "done")
  /\ UNCHANGED <<cache, tmp, link, crashes>>

\* A request whose retries are spent raises; close() is all that follows.
request_fails(p) ==
  /\ \/ proc[p].pc \in {"begin", "chunk", "data"}
     \/ At(p, "committed") /\ Req(p).only # "wait"
  /\ crashes < MaxCrashes /\ crashes' = crashes + 1
  /\ proc' = [proc EXCEPT ![p].pc = "failed", ![p].fault = TRUE]
  /\ UNCHANGED <<cache, tmp, boards, link>>

-----------------------------------------------------------------------------
(* Bulk datagrams: sent once each, lost, delayed or reordered at will. *)

iter_max_length_udp_batches(p) ==
  /\ At(p, "datagrams") /\ proc[p].next < Req(p).total
  /\ LET c == NextChunk(p)
     IN  /\ link' = [link EXCEPT ![p] = @ \cup {[addr |-> proc[p].next, data |-> c]}]
         /\ proc' = [proc EXCEPT ![p].next = @ + Len(c)]
  /\ UNCHANGED <<cache, tmp, boards, crashes>>

udp_sent(p) ==
  /\ At(p, "datagrams") /\ proc[p].next = Req(p).total
  /\ Goto(p, "done")
  /\ UNCHANGED <<cache, tmp, boards, link, crashes>>

deliver(p) ==
  /\ \E d \in link[p] :
       /\ link' = [link EXCEPT ![p] = @ \ {d}]
       /\ boards' = [boards EXCEPT ![p].ddr =
            [i \in DOMAIN @ \cup (d.addr..(d.addr + Len(d.data) - 1)) |->
               IF i >= d.addr /\ i < d.addr + Len(d.data) THEN d.data[i - d.addr + 1] ELSE @[i]]]
  /\ UNCHANGED <<proc, cache, tmp, crashes>>

lose(p) ==
  /\ crashes < MaxCrashes /\ crashes' = crashes + 1
  /\ \E d \in link[p] : link' = [link EXCEPT ![p] = @ \ {d}]
  /\ UNCHANGED <<proc, cache, tmp, boards>>

-----------------------------------------------------------------------------
(* The process is killed; its temporary file stays.  It may be started     *)
(* again, and a finished one too; boards is what its present start has      *)
(* written.                                                                *)
crash(p) ==
  /\ proc[p].pc \notin {"idle", "done", "failed"}
  /\ crashes < MaxCrashes /\ crashes' = crashes + 1
  /\ proc' = [proc EXCEPT ![p] = Idle]
  /\ link' = [link EXCEPT ![p] = {}]
  /\ boards' = [boards EXCEPT ![p] = Fresh]
  /\ UNCHANGED <<cache, tmp>>

again(p) ==
  /\ proc[p].pc \in {"done", "failed"} /\ link[p] = {}
  /\ proc' = [proc EXCEPT ![p] = Idle]
  /\ boards' = [boards EXCEPT ![p] = Fresh]
  /\ UNCHANGED <<cache, tmp, link, crashes>>

Step(p) ==
  \/ reuse(p) \/ open_tmp(p) \/ write_chunk(p) \/ replace(p) \/ open_cache(p)
  \/ begin_waveform(p) \/ next_chunk(p) \/ data_waveform(p) \/ commit_waveform(p) \/ play(p)
  \/ iter_max_length_udp_batches(p) \/ udp_sent(p)

RecordNext ==
  \E p \in Procs :
    \/ run_max_length(p) \/ run_extreme_playback(p) \/ upload_max_length_udp(p)
    \/ Step(p) \/ request_fails(p) \/ deliver(p) \/ lose(p) \/ crash(p) \/ again(p)

RecordSpec == RecordInit /\ [][RecordNext]_recordVars

-----------------------------------------------------------------------------
RecordTypeOK ==
  /\ \A p \in Procs :
       /\ proc[p].pc \in {"idle", "ensure", "write", "open", "begin", "chunk", "data",
                          "committed", "datagrams", "done", "failed"}
       /\ Req(p) \in Requests
       /\ proc[p].next \in 0..Req(p).total /\ proc[p].at \in 0..Req(p).total
       /\ boards[p].committed \in BOOLEAN /\ boards[p].playing \in BOOLEAN /\ DOMAIN boards[p].ddr \subseteq Nat
       /\ tmp[p] = Absent \/ Len(tmp[p]) <= Req(p).total \/ proc[p].pc # "write"
  /\ crashes \in 0..MaxCrashes

\* A cache file another process can see always has the length of a record of its
\* key, whichever processes write it, force it again or are killed on the way
\* (ensure_max_length_waveform_cache reuses a file by its size alone, and the
\* reader refuses one of another size).  What its beats are, WrittenIsRecord says.
CacheIsWhole ==
  \A k \in Keys : cache[k] # Absent => Len(cache[k]) = k[2]

\* The largest chunk the beats of a request went through.
LargestChunk(r) == IF r.cached \/ r.route = "cli" THEN CHUNK ELSE DATAGRAM

\* v stands at position i of a record of the pattern: it is the record's own
\* beat or, when a chunk can span a marker (one beat on either side of it), the
\* body code inside the middle marker: iter_max_length_payload_chunks compares
\* the two ends of a chunk only.
StandsAt(v, i, pattern, total, spans) ==
  \/ v = Record(pattern, total)[i + 1]
  \/ /\ spans /\ pattern = "cw"
     /\ max_length_marker_region(i, total) = "middle"
     /\ v = max_length_marker_amplitude(1, "body")

\* Every beat that has reached the DDR is the beat the pattern has at that
\* position, in whatever order datagrams arrive, whatever is lost, whoever wrote
\* the cache file and whatever the size of the chunks; with one exception: a
\* chunk that spans the middle marker of a CW record can put the body in its
\* place (the 8192 beats of a cache file or of the command line against a
\* marker of 512). MarkersKept is what the marker is for.
WrittenIsRecord ==
  \A p \in Procs : LET r == Req(p) IN
    \A i \in DOMAIN boards[p].ddr :
      StandsAt(boards[p].ddr[i], i, r.pattern, r.total, LargestChunk(r) > MARKER + 1)

\* A descriptor is committed over a record that is in DDR to its last beat, and
\* PLAY comes only for such a descriptor.
CommitMeansAll ==
  \A p \in Procs :
    /\ boards[p].committed => DOMAIN boards[p].ddr = 0..(Req(p).total - 1)
    /\ boards[p].playing => boards[p].committed

\* An upload fails by a request that was not answered, or it is
\* run_extreme_playback's and fails after its first chunk: no other chunk is
\* refused by upload_interleaved_chunks, whatever lengths the generator gave it,
\* and no cache file is found to have the wrong size when it is opened.
FailsByFaultOnly ==
  \A p \in Procs : At(p, "failed") /\ ~proc[p].fault => Req(p).route = "extreme" /\ proc[p].at > 0

\* What a board is told to play is the record that was asked for, from its first
\* beat to its last, but for a middle marker that a chunk spans.
UploadIsRecord == WrittenIsRecord /\ CommitMeansAll /\ FailsByFaultOnly

\* "start/middle/end marker regions" (send_waveform_udp.py, the help of
\* --marker-bytes-per-channel): a committed record has all three.
MarkersKept ==
  \A p \in Procs : boards[p].committed =>
    \A i \in DOMAIN boards[p].ddr : boards[p].ddr[i] = Record(Req(p).pattern, Req(p).total)[i + 1]

\* The marker code of a lane tells its channel and its region apart.
CodesDistinct ==
  \A c1, c2 \in 1..8 : \A r1, r2 \in {"start", "middle", "end", "body"} :
    max_length_marker_amplitude(c1, r1) = max_length_marker_amplitude(c2, r2) => c1 = c2 /\ r1 = r2
ASSUME CodesAssumption == CodesDistinct
==============================================================================
