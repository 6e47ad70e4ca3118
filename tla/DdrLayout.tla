------------------------------ MODULE DdrLayout ------------------------------
(***************************************************************************)
(* From the samples of eight channels to the words the converters are fed:  *)
(* the conversions of ez-Q waves, the interleaved and the tiled image, the   *)
(* packets that carry an image, the mailbox writes, and the assembly of the  *)
(* DAC words in waveform_ddr_reader.v.                                      *)
(*                                                                         *)
(* A wave is a sequence of complex samples (two int16, 4 bytes).  A lane     *)
(* word is 8 bytes, 2 samples; a DAC word 32 bytes, 8 samples; a frame is    *)
(* one DAC word of each channel.                                            *)
(***************************************************************************)
EXTENDS Integers, Sequences, FiniteSets, SequencesExt, FiniteSetsExt

CONSTANTS DATA_WORDS,      \* lane words of a DATA packet (1024 bytes: 128)
          TILE,        \* DAC words of a tile (DDR_TILE_BYTES: 128)
          IQ_BITS      \* bits of an I or Q value (16)

ASSUME LayoutAssumption ==
  /\ DATA_WORDS \in Nat \ {0} /\ DATA_WORDS % 32 = 0
  /\ TILE \in Nat \ {0}
  /\ IQ_BITS \in 2..15

Lanes == 1..8
Zeros(n) == [i \in 1..n |-> 0]

\* align_bytes_to_beat, in samples.
align_bytes_to_beat(n) == ((n + 7) \div 8) * 8

\* Cut or filled up with zeros.
_normalize_waveform_int16(wave, n) ==
  [i \in 1..n |-> IF i <= Len(wave) THEN wave[i] ELSE 0]

-----------------------------------------------------------------------------
(* ez-Q waves: sequences of <<I, Q>> in one of four shapes. *)

Signed(v, bits) == IF v % 2 ^ bits >= 2 ^ (bits - 1) THEN (v % 2 ^ bits) - 2 ^ bits ELSE v % 2 ^ bits

\* Variant: the I half keeps its sign in the packed word.
ezq_wave_to_packed_int32_signed(iq) ==
  [i \in DOMAIN iq |-> Signed(iq[i][2] * 2 ^ IQ_BITS + iq[i][1], 2 * IQ_BITS)]

\* ((q & 0xFFFF) << 16) | (i & 0xFFFF), as a signed word.
ezq_wave_to_packed_int32(iq) ==
  [i \in DOMAIN iq |-> Signed((iq[i][2] % 2 ^ IQ_BITS) * 2 ^ IQ_BITS + (iq[i][1] % 2 ^ IQ_BITS),
                              2 * IQ_BITS)]

\* An I/Q matrix has two rows or, failing that, two columns; with two of both
\* it is read as rows.
ezq_wave_to_interleaved_int16(wave, format) ==
  CASE format = "iq_matrix" ->
         IF Len(wave) = 2 THEN FlattenSeq([i \in DOMAIN wave[1] |-> <<wave[1][i], wave[2][i]>>])
         ELSE FlattenSeq(wave)
    [] format = "packed_iq" ->
         FlattenSeq([i \in DOMAIN wave |->
           <<Signed(wave[i], IQ_BITS), Signed((wave[i] - (wave[i] % 2 ^ IQ_BITS)) \div 2 ^ IQ_BITS, IQ_BITS)>>])
    [] format = "interleaved_iq" -> wave
    [] format = "z" -> FlattenSeq([i \in DOMAIN wave |-> <<wave[i], 0>>])

-----------------------------------------------------------------------------
(* The interleaved image: lane word b of channel c is word 8 b + c - 1. *)

interleaved_ddr_addr(c, b) == 8 * b + c - 1

Longest(waves) == align_bytes_to_beat(Max({Len(waves[c]) : c \in DOMAIN waves}))

\* Variant: channels are not filled up to a whole DAC word.
pack_interleaved_512b_waveforms_ragged(waves) ==
  LET n == Max({Len(waves[c]) : c \in DOMAIN waves})
      sample(c, i) == IF c \in DOMAIN waves /\ i <= Len(waves[c]) THEN waves[c][i] ELSE 0
  IN  [w \in 0..(8 * (n \div 2) - 1) |->
         LET c == (w % 8) + 1  b == w \div 8 IN <<sample(c, 2 * b + 1), sample(c, 2 * b + 2)>>]

pack_interleaved_512b_waveforms(waves) ==
  LET padded == [c \in Lanes |-> IF c \in DOMAIN waves
                                 THEN _normalize_waveform_int16(waves[c], Longest(waves))
                                 ELSE Zeros(Longest(waves))]
  IN  [w \in 0..(8 * (Longest(waves) \div 2) - 1) |->
         LET c == (w % 8) + 1  b == w \div 8 IN <<padded[c][2 * b + 1], padded[c][2 * b + 2]>>]

\* upload_waveforms: the image of the channels given, those outside the mask
\* silenced, in DATA packets <<first word, words>>.
upload_waveforms(waves, mask) ==
  LET kept == [c \in DOMAIN waves |-> IF c \in mask THEN waves[c] ELSE Zeros(Len(waves[c]))]
      image == pack_interleaved_512b_waveforms(kept)
      n == Cardinality(DOMAIN image)
  IN  {<<DATA_WORDS * k, [i \in 1..(IF n - DATA_WORDS * k < DATA_WORDS THEN n - DATA_WORDS * k ELSE DATA_WORDS)
                        |-> image[DATA_WORDS * k + i - 1]]>> :
         k \in 0..((n + DATA_WORDS - 1) \div DATA_WORDS - 1)}

\* What the packets leave in memory, whatever their order; 0 where nothing was
\* written, <<>> where two packets disagree.
Memory(packets) ==
  LET at(a) == {p[2][a - p[1] + 1] : p \in {q \in packets : q[1] <= a /\ a < q[1] + Len(q[2])}}
      top == Max({p[1] + Len(p[2]) : p \in packets} \cup {0})
  IN  [a \in 0..(top - 1) |-> IF Cardinality(at(a)) = 1 THEN CHOOSE v \in at(a) : TRUE ELSE <<>>]

\* waveform_ddr_reader: the four beats of frame f become a DAC word per channel,
\* beat s in slice s.
assembling(memory, f, c) ==
  FlattenSeq([s \in 1..4 |-> memory[8 * (4 * f + s - 1) + c - 1]])

\* The DAC words of a channel, for a descriptor of so many frames.
Played(memory, frames, c) == FlattenSeq([f \in 1..frames |-> assembling(memory, f - 1, c)])

-----------------------------------------------------------------------------
(* The 32-byte writes of host.py: packets <<address, one DAC word>>.  Here   *)
(* an address counts DAC words.                                             *)

\* Variant: tiles of one channel follow each other.
tiled_ddr_addr_packed(c, offset) ==
  (offset \div TILE) * TILE + (c - 1) * TILE + (offset % TILE)

tiled_ddr_addr(c, offset) ==
  (offset \div TILE) * TILE * 8 + (c - 1) * TILE + (offset % TILE)

\* iter_udp_waveform_packets: whole DAC words, the last filled with zeros.
iter_udp_waveform_packets(wave, addr) ==
  LET padded == _normalize_waveform_int16(wave, align_bytes_to_beat(Len(wave)))
  IN  [k \in 1..(Len(padded) \div 8) |-> <<addr + k - 1, SubSeq(padded, 8 * k - 7, 8 * k)>>]

iter_tiled_udp_waveform_packets(wave, c) ==
  LET padded == _normalize_waveform_int16(wave, align_bytes_to_beat(Len(wave)))
  IN  [k \in 1..(Len(padded) \div 8) |->
         <<tiled_ddr_addr(c, k - 1), SubSeq(padded, 8 * k - 7, 8 * k)>>]

\* Four lane words of the image to a packet.
iter_interleaved_udp_waveform_packets(waves) ==
  LET image == pack_interleaved_512b_waveforms(waves)
  IN  [k \in 1..(Cardinality(DOMAIN image) \div 4) |->
         <<k - 1, FlattenSeq([i \in 1..4 |-> image[4 * (k - 1) + i - 1]])>>]

\* The mailboxes: an entry of 16 or 32 bytes per channel, then the header of one
\* packet, which is what the firmware looks for.
iter_rfdc_nco_mailbox_packets(offset) ==
  iter_udp_waveform_packets(Zeros(4 * 8), offset + 1) \o iter_udp_waveform_packets(Zeros(8), offset)

\* Variant: the image is sent in the order of its addresses.
iter_rfdc_runtime_mailbox_packets_in_order(offset) ==
  iter_udp_waveform_packets(Zeros(8 + 8 * 8), offset)

iter_rfdc_runtime_mailbox_packets(offset) ==
  iter_udp_waveform_packets(Zeros(8 * 8), offset + 1) \o iter_udp_waveform_packets(Zeros(8), offset)
=============================================================================
