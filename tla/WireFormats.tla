----------------------------- MODULE WireFormats -----------------------------
(***************************************************************************)
(* The datagrams the host and the board exchange, as layouts of named bits. *)
(* Each format is written down on both sides: the board's registers        *)
(* (pl_riscv_control_v1.v, waveform_response_serializer.v,                  *)
(* waveform_upload_writer.v) and two Python libraries (host.py and          *)
(* dr47/protocol.py, "host" and "driver" below).  A field is a name (with a  *)
(* channel, 0 for none) and a width; bit 0 is the first of the first byte,   *)
(* Zero is padding.  What a reader finds does not depend on the values, so a *)
(* check of the layouts stands for every value.                              *)
(***************************************************************************)
EXTENDS Integers, Sequences, FiniteSets, SequencesExt

Ch(name, c, width) == <<<<name, c>>, width>>
Fld(name, width) == Ch(name, 0, width)
Zero(width) == Fld("0", width)
Bit(name) == Fld(name, 1)
U8(name) == Fld(name, 8)
U16(name) == Fld(name, 16)
U32(name) == Fld(name, 32)
U64(name) == Fld(name, 64)

\* Where the i-th of a sequence of fields starts, and the bits of all of them.
Start(fields, i) ==
  LET start[k \in 1..i] == IF k = 1 THEN 0 ELSE start[k - 1] + fields[k - 1][2] IN start[i]
Width(fields) == Start(fields, Len(fields) + 1)

\* A layout: the fields, from a bit on, that are not padding.
Placed(bit, fields) ==
  {[name |-> fields[i][1], at |-> bit + Start(fields, i), width |-> fields[i][2]] :
     i \in {j \in DOMAIN fields : fields[j][1][1] # "0"}}

\* A Verilog concatenation names its most significant field first; assigned
\* to a 64-bit word it loses what is above bit 63.
Word(w, fields) == {f \in Placed(64 * w, Reverse(fields)) : f.at < 64 * (w + 1)}
Words(first, words) == UNION {Word(first + i - 1, words[i]) : i \in DOMAIN words}

\* What is in the bits at..at + width - 1: pieces <<field, lowest bit of the
\* field, lowest bit of the reading, bits>>.
Read(layout, at, width) ==
  LET lo(f) == IF f.at > at THEN f.at ELSE at
      hi(f) == IF f.at + f.width < at + width THEN f.at + f.width ELSE at + width
  IN  {<<f.name, lo(f) - f.at, lo(f) - at, hi(f) - lo(f)>> : f \in {g \in layout : lo(g) < hi(g)}}

\* The reading is the whole of one field and nothing else.
Whole(layout, name) == {<<name, 0, 0, f.width>> : f \in {g \in layout : g.name = name}}

Channels == 1..8

-----------------------------------------------------------------------------
(* What the board sends. *)

state_flags ==
  <<Zero(23), Bit("dac_mts_required"), Bit("nco_sync_ready"), Bit("dac_mts_failed"),
    Bit("dac_mts_ready"), Bit("prepared"), Bit("running"), Bit("armed"), Bit("rfdc_busy"),
    Bit("rfdc_ready")>>

load_rf2_status ==
  Words(0, <<
    state_flags \o <<U32("capabilities")>>,
    <<U32("last_revision"), Zero(24), U8("config_valid_mask")>>,
    <<U32("last_error_stage"), Zero(16), U16("last_error")>>,
    <<Zero(32), Zero(14), Fld("last_error_addr", 18)>>,
    <<Zero(24), U8("play_fifo_valid_mask"), Zero(24), U8("play_config_channel_mask")>>,
    <<Zero(24), U8("play_executor_state"), Zero(24), U8("play_fifo_ready_mask")>>,
    <<U32("play_bad_instr_count"), U32("play_ddr_read_counter")>>,
    <<Zero(30), Bit("play_active_valid"), Bit("play_pending_valid"), Zero(31),
      Bit("play_prefill_ready")>>,
    <<U32("nco_sync_epoch"), U16("dac_mts_error"), Zero(8), Fld("dac_mts_tile_mask", 4), Zero(1),
      Bit("dac_mts_required"), Bit("dac_mts_failed"), Bit("dac_mts_ready")>>,
    <<U32("trigger_path_version"), Zero(28), Bit("sync_role"), Bit("sync_mode"),
      Bit("sync_link_ready"), Bit("sync_seen")>>,
    <<U32("trigger_accepted_count"), U32("trigger_input_count")>>,
    <<Zero(32), U32("trigger_output_count")>>,
    <<Zero(32), Zero(8), Bit("sync_align_failed"), Bit("sync_align_busy"), Zero(16),
      Fld("sync_alignment_epoch", 6)>>,
    <<U32("source_commit_id"), U16("build_profile_id"), U16("sync_alignment_error")>>,
    <<Zero(32), U16("ext_trigger_phase_ps_x10"), U8("ext_trigger_tap_index"), Zero(2),
      Bit("ext_trigger_phase_metastable"), Bit("ext_trigger_phase_overflow"),
      Bit("ext_trigger_phase_valid"), Fld("ext_trigger_phase_slot", 3)>>,
    <<U32("playback_skipped_count"), U32("playback_admitted_count")>>>>)

\* Words 9 and 10 carry the difference of two 32-bit counters; the last two
\* words repeat two flags and name the build.
load_rf2_diag ==
  Words(0, <<
    <<U64("generation")>>, <<Zero(32), U32("trigger_input_count")>>,
    <<U64("trigger_capture_tick")>>, <<Zero(32), U32("trigger_accepted_count")>>,
    <<Zero(32), U32("trigger_skipped_count")>>, <<Zero(64)>>, <<U64("trigger_launch_tick")>>,
    <<U64("playback_start_tick")>>, <<U64("first_valid_tick")>>,
    <<Zero(32), U32("trigger_to_launch_last")>>, <<Zero(32), U32("launch_to_first_valid_last")>>,
    <<Zero(48), U8("underflow_mask"), Zero(2), Bit("output_permitted_dac"), Bit("prepared_dac"),
      Bit("dac_trigger_launch"), Bit("dac_direct_trigger_pulse"), Bit("replay_active"),
      Bit("replay_ready")>>,
    <<Zero(32), U16("rfdc_status"), U16("rfdc_failure_stage")>>,
    <<Zero(44), Fld("rfdc_axi_response", 2), Fld("rfdc_failure_address", 18)>>,
    <<U32("dac_direct_accept_count"), U32("dac_direct_input_count")>>,
    <<Zero(32), U32("play_ddr_read_counter")>>, <<Zero(32), U32("play_ddr_read_counter")>>,
    <<Zero(32), Bit("dac_direct_trigger_pulse"), Bit("dac_trigger_launch"), Zero(6),
      Fld("source_commit_id", 24)>>,
    <<Zero(32), U32("trigger_path_version")>>>>)

load_rfdc_response ==
  Words(0, <<<<Zero(24), U8("applied_mask"), U32("revision")>>,
          <<Zero(24), U8("config_valid_mask"), Zero(24), U8("error_mask")>>,
          <<Zero(14), Fld("failure_address", 18), U32("failure_stage")>>,
          <<U32("state_flags"), Zero(30), Fld("axi_response", 2)>>>>)
    \cup UNION {Words(4 + 5 * (c - 1), <<
          <<Ch("nco_hz", c, 64)>>,
          <<Ch("phase_mdeg", c, 32), Zero(30), Ch("zone", c, 2)>>,
          <<Ch("status", c, 32), Ch("current_ua", c, 32)>>,
          <<Ch("nco_word", c, 64)>>,
          <<Ch("vop_code", c, 32), Ch("phase_word", c, 32)>>>>) : c \in Channels}

\* The status flags are sent twice; the first copy is read as network flags,
\* the second as the playback state.
network_flags ==
  <<Zero(25), Bit("sync_done"), Bit("hmc_done"), Bit("playback_prepared"),
    Bit("playback_running"), Bit("playback_armed"), Zero(2)>>
load_network_response ==
  Words(0, <<<<U64("device_uid")>>, <<U32("bootstrap_ip"), U32("current_ip")>>,
          <<Zero(16), Fld("current_mac", 48)>>,
          <<Zero(16), U16("link_state"), U16("port"), U32("revision")>>,
          network_flags \o <<U32("capabilities")>>,
          <<Zero(16), Fld("bootstrap_mac", 48)>>, <<Zero(32), U32("subnet_mask")>>,
          <<Zero(32), U32("gateway")>>, network_flags \o <<U32("build_profile_id")>>,
          <<Zero(56), U8("rfdc_config_valid_mask")>>>>)

load_tdc_response == Words(0, <<<<U32("data"), Zero(16), U16("address")>>>>)

\* WAVERSP0 (waveform_response_serializer); offsets and byte counts are two
\* halves in two words.
Lo(name) == Ch(name, 1, 32)
Hi(name) == Ch(name, 2, 32)
serialize(opcode) ==
  Words(0, <<<<U32("state"), U32("session")>>, <<U32("error_code"), Zero(16), U16("status")>>,
          <<Lo("error_offset"), U32("descriptor")>>>>
    \o CASE opcode = "DATA" ->
             <<<<U32("ack_packet_seq"), Hi("error_offset")>>,
               <<Lo("received_bytes"), U32("next_expected_sequence")>>,
               <<Lo("first_error_offset"), Hi("received_bytes")>>,
               <<U32("expected_crc"), Hi("first_error_offset")>>,
               <<Zero(32), U32("actual_crc")>>>>
         [] opcode = "STATUS" ->
             <<<<U32("current_beat"), Hi("error_offset")>>,
               <<U32("loop_count"), U32("loop_position")>>,
               <<Ch("fifo_level", 2, 16), Ch("fifo_level", 1, 16), Zero(16), U8("layout"),
                 U8("channel_mask")>>,
               <<Ch("fifo_level", 6, 16), Ch("fifo_level", 5, 16), Ch("fifo_level", 4, 16),
                 Ch("fifo_level", 3, 16)>>,
               <<U32("error_count"), Ch("fifo_level", 8, 16), Ch("fifo_level", 7, 16)>>,
               <<U32("trigger_seen_count"), U32("underflow_count")>>,
               <<U32("trigger_fire_count"), U32("trigger_dropped_count")>>>>
         [] OTHER -> <<<<Zero(32), Hi("error_offset")>>>>)
ResponseBytes(opcode) == CASE opcode = "DATA" -> 60 [] opcode = "STATUS" -> 80 [] OTHER -> 28

-----------------------------------------------------------------------------
(* What the libraries read.  A reading is of width bits at a bit of a word; *)
(* Tier(n, S): the readings S need a payload of n bytes.  A value read at   *)
(* several places is the OR of what is found there.                         *)

Rc(name, c, word, low, width) == [name |-> <<name, c>>, at |-> 64 * word + low, width |-> width]
R(name, word, low, width) == Rc(name, 0, word, low, width)
Tier(n, S) == {[bytes |-> n, of |-> r] : r \in S}

parse_rfctrl2_status_common ==
  Tier(32, {R("capabilities", 0, 0, 32), R("config_valid_mask", 1, 0, 32),
            R("last_revision", 1, 32, 32), R("last_error", 2, 0, 32),
            R("last_error_stage", 2, 32, 32), R("last_error_addr", 3, 0, 32),
            R("rfdc_ready", 0, 32, 1), R("rfdc_busy", 0, 33, 1), R("armed", 0, 34, 1),
            R("running", 0, 35, 1), R("prepared", 0, 36, 1), R("dac_mts_ready", 0, 37, 1),
            R("dac_mts_failed", 0, 38, 1), R("nco_sync_ready", 0, 39, 1),
            R("dac_mts_required", 0, 40, 1)})
  \cup Tier(64, {R("play_config_channel_mask", 4, 0, 8), R("play_fifo_valid_mask", 4, 32, 8),
            R("play_fifo_ready_mask", 5, 0, 8), R("play_executor_state", 5, 32, 8),
            R("play_ddr_read_counter", 6, 0, 32), R("play_bad_instr_count", 6, 32, 32),
            R("play_prefill_ready", 7, 0, 1), R("play_pending_valid", 7, 32, 1),
            R("play_active_valid", 7, 33, 1)})
  \cup Tier(72, {R("nco_sync_epoch", 8, 32, 32), R("dac_mts_ready", 8, 0, 1),
            R("dac_mts_failed", 8, 1, 1), R("dac_mts_required", 8, 2, 1),
            R("dac_mts_tile_mask", 8, 4, 4), R("dac_mts_error", 8, 16, 16)})
  \cup Tier(80, {R("trigger_path_version", 9, 32, 32)})
  \cup Tier(88, {R("trigger_input_count", 10, 0, 32), R("trigger_accepted_count", 10, 32, 32)})
  \cup Tier(96, {R("trigger_output_count", 11, 0, 32)})
  \cup Tier(112, {R("source_commit_id", 13, 32, 32), R("build_profile_id", 13, 16, 16)})

\* host.py also decodes the sync flags, the driver the two later words.
parse_rfctrl2_status_host ==
  parse_rfctrl2_status_common
  \cup Tier(80, {R("sync_seen", 9, 0, 1), R("sync_link_ready", 9, 1, 1), R("sync_mode", 9, 2, 1),
            R("sync_role", 9, 3, 1)})

\* Variant: the trigger counters are read one word early.
parse_rfctrl2_status_driver_early ==
  {t \in parse_rfctrl2_status_common : t.bytes # 96}
  \cup Tier(88, {R("trigger_output_count", 11, 0, 32)})

parse_rfctrl2_status_driver ==
  parse_rfctrl2_status_common
  \cup Tier(120, {R("ext_trigger_phase_slot", 14, 0, 3), R("ext_trigger_phase_valid", 14, 3, 1),
            R("ext_trigger_phase_overflow", 14, 4, 1), R("ext_trigger_phase_metastable", 14, 5, 1),
            R("ext_trigger_tap_index", 14, 8, 8), R("ext_trigger_phase_ps_x10", 14, 16, 16)})
  \cup Tier(128, {R("playback_admitted_count", 15, 0, 32), R("playback_skipped_count", 15, 32, 32)})

\* A payload of words is read as far as it goes.
parse_rfctrl2_diagnostics ==
  UNION {Tier(8 * (w + 1), {R(<<"generation", "trigger_input_count", "trigger_capture_tick",
                                "trigger_accepted_count", "trigger_skipped_count",
                                "trigger_rejected_count", "trigger_launch_tick",
                                "playback_start_tick", "first_valid_tick">>[w + 1], w, 0, 64)}) :
           w \in 0..8}
  \cup Tier(96, {R("replay_ready", 11, 0, 1), R("replay_active", 11, 1, 1),
            R("dac_direct_trigger_pulse", 11, 2, 1), R("dac_trigger_launch", 11, 3, 1),
            R("prepared_dac", 11, 4, 1), R("output_permitted_dac", 11, 5, 1),
            R("mute", 11, 6, 1), R("abort", 11, 7, 1), R("underflow_mask", 11, 8, 8)})
  \cup Tier(104, {R("trigger_to_launch_last", 9, 0, 64), R("launch_to_first_valid_last", 10, 0, 64),
            R("rfdc_failure_stage", 12, 0, 16), R("rfdc_status", 12, 16, 16)})
  \cup Tier(112, {R("rfdc_failure_address", 13, 0, 18), R("rfdc_axi_response", 13, 18, 2)})
  \cup Tier(120, {R("dac_direct_input_count", 14, 0, 32), R("dac_direct_accept_count", 14, 32, 32)})
  \cup Tier(128, {R("dma_chunk_beats", 15, 0, 32)})
  \cup Tier(136, {R("dma_outstanding_beats", 16, 0, 32)})
  \cup Tier(144, {R("dac_direct_trigger_pulse", 17, 32, 1), R("dac_trigger_launch", 17, 33, 1)})

\* The readings of one little-endian struct format from a byte on.
Unpack(byte, fields) == Placed(8 * byte, fields)

parse_rfctrl2_rfdc_config_response ==
  Tier(352, Unpack(0, <<U32("revision"), U32("applied_mask"), U32("error_mask"),
                        U32("config_valid_mask"), U32("failure_stage"), U32("failure_address"),
                        U32("axi_response"), U32("state_flags")>>)
    \cup UNION {Unpack(32 + 40 * (c - 1),
                       <<Ch("nco_hz", c, 64), Ch("zone", c, 32), Ch("phase_mdeg", c, 32),
                         Ch("current_ua", c, 32), Ch("status", c, 32), Ch("nco_word", c, 64),
                         Ch("phase_word", c, 32), Ch("vop_code", c, 32)>>) : c \in Channels})

parse_rfctrl2_network_response ==
  Tier(64, {R("device_uid", 0, 0, 64), R("current_ip", 1, 0, 32), R("bootstrap_ip", 1, 32, 32),
            R("current_mac", 2, 0, 48), R("revision", 3, 0, 32), R("port", 3, 32, 16),
            R("link_state", 3, 48, 16), R("capabilities", 4, 0, 32), R("bootstrap_mac", 5, 0, 48),
            R("subnet_mask", 6, 0, 32), R("gateway", 7, 0, 32), R("hmc_done", 4, 37, 1),
            R("sync_done", 4, 38, 1)})
  \cup Tier(80, {R("build_profile_id", 8, 0, 32), R("playback_armed", 8, 34, 1),
            R("playback_running", 8, 35, 1), R("playback_prepared", 8, 36, 1),
            R("rfdc_config_valid_mask", 9, 0, 8)})

parse_rfctrl2_tdc_register_response == Tier(8, Unpack(0, <<U32("address"), U32("data")>>))

\* "<IIIIIQ", then "<IIQQII" or "<IIII8HIIIII".
parse_wave_response(opcode) ==
  Tier(28, Unpack(0, <<U32("session"), U32("state"), U32("status"), U32("error_code"),
                       U32("descriptor"), Lo("error_offset"), Hi("error_offset")>>))
  \cup CASE opcode = "DATA" ->
         Tier(60, Unpack(28, <<U32("ack_packet_seq"), U32("next_expected_sequence"),
                               Lo("received_bytes"), Hi("received_bytes"),
                               Lo("first_error_offset"), Hi("first_error_offset"),
                               U32("expected_crc"), U32("actual_crc")>>))
       [] opcode = "STATUS" ->
         Tier(80, Unpack(28, <<U32("current_beat"), U32("loop_position"), U32("loop_count"),
                               U8("channel_mask"), U8("layout"), Zero(16)>>
                             \o [c \in Channels |-> Ch("fifo_level", c, 16)]
                             \o <<U32("error_count"), U32("underflow_count"),
                                  U32("trigger_seen_count"), U32("trigger_dropped_count"),
                                  U32("trigger_fire_count")>>))
       [] OTHER -> {}

\* The responses, the lengths a payload can have (bitstreams older than the
\* present one send a prefix where the parser takes any length), what the
\* board puts in and what a library takes out.
Messages ==
  {[of |-> "status", lib |-> l, sizes |-> {8 * n : n \in 0..16}] : l \in {"host", "driver"}}
  \cup {[of |-> "diag", lib |-> "driver", sizes |-> {8 * n : n \in 0..19}],
        [of |-> "rfdc", lib |-> "driver", sizes |-> {352}],
        [of |-> "network", lib |-> "driver", sizes |-> {64, 80}],
        [of |-> "tdc", lib |-> "driver", sizes |-> {8}]}
  \cup {[of |-> op, lib |-> "driver", sizes |-> {ResponseBytes(op)}] : op \in {"COMMIT", "DATA", "STATUS"}}

Sent(m) ==
  CASE m.of = "status" -> load_rf2_status [] m.of = "diag" -> load_rf2_diag
    [] m.of = "rfdc" -> load_rfdc_response [] m.of = "network" -> load_network_response
    [] m.of = "tdc" -> load_tdc_response [] OTHER -> serialize(m.of)
Taken(m) ==
  CASE m.of = "status" /\ m.lib = "host" -> parse_rfctrl2_status_host
    [] m.of = "status" /\ m.lib = "driver" -> parse_rfctrl2_status_driver
    [] m.of = "diag" -> parse_rfctrl2_diagnostics
    [] m.of = "rfdc" -> parse_rfctrl2_rfdc_config_response
    [] m.of = "network" -> parse_rfctrl2_network_response
    [] m.of = "tdc" -> parse_rfctrl2_tdc_register_response
    [] OTHER -> parse_wave_response(m.of)

\* The first n bytes of a layout.
Prefix(layout, n) == {f \in layout : f.at < 8 * n}

-----------------------------------------------------------------------------
(* What the libraries send: the two header words after the magic, then the  *)
(* payload of the request.                                                  *)

pack_rfctrl2_packet == <<U16("version"), U16("flags"), U32("opcode"), U32("seq"), U32("size")>>

pack_rfctrl2_rfdc_apply ==
  <<U32("revision"), U8("mask"), Zero(24)>>
    \o FlattenSeq([c \in Channels |-> <<Ch("nco_hz", c, 64), Ch("zone", c, 2), Zero(30),
                                         Ch("phase_mdeg", c, 32), Ch("current_ua", c, 32), Zero(32)>>])
pack_rfctrl2_network_apply ==
  <<U32("revision"), U32("ip"), Fld("mac", 48), Zero(16), U32("subnet_mask"), U32("gateway"),
    U16("port"), Zero(16), Zero(32)>>
pack_rfctrl2_tdc_register ==
  <<Bit("write"), Zero(31), U16("address"), Zero(16), U32("data"), Zero(32)>>
pack_rfctrl2_diag_control == <<U32("events"), Bit("counters"), Zero(31)>>
pack_rfctrl2_sync_epoch == <<U64("epoch")>>
pack_rfctrl2_start_at == <<U64("start_tick")>>
\* "<IQBBHIII", "<IIQII" and "<I" padded to a word.
pack_wave_begin ==
  <<U32("session"), Lo("total_bytes"), Hi("total_bytes"), U8("channel_mask"), U8("layout"),
    Zero(16), U32("total_beats"), U32("loop_count"), U32("bytes_per_beat"), Zero(32)>>
pack_wave_data == <<U32("session"), U32("packet_seq"), U64("byte_offset"), U32("length"), U32("crc")>>
pack_wave_command == <<U32("session"), Zero(32)>>

RequestKinds ==
  {"HELLO", "STATUS", "DIAG_SNAPSHOT", "RFDC_GET_CONFIG", "NETWORK_GET", "NETWORK_RESTART",
   "RFDC_APPLY", "NETWORK_APPLY", "TDC_REG", "DIAG_CONTROL", "SYNC_EPOCH", "START_AT",
   "WAVE_BEGIN", "WAVE_DATA", "WAVE_COMMAND"}
Packed(q) ==
  CASE q = "RFDC_APPLY" -> pack_rfctrl2_rfdc_apply [] q = "NETWORK_APPLY" -> pack_rfctrl2_network_apply
    [] q = "TDC_REG" -> pack_rfctrl2_tdc_register [] q = "DIAG_CONTROL" -> pack_rfctrl2_diag_control
    [] q = "SYNC_EPOCH" -> pack_rfctrl2_sync_epoch [] q = "START_AT" -> pack_rfctrl2_start_at
    [] q = "WAVE_BEGIN" -> pack_wave_begin [] q = "WAVE_DATA" -> pack_wave_data
    [] q = "WAVE_COMMAND" -> pack_wave_command [] OTHER -> <<>>
\* What the header says of the payload, in bytes (padding not counted).
Size(q) ==
  CASE q = "WAVE_BEGIN" -> 28 [] q = "WAVE_COMMAND" -> 4 [] OTHER -> Width(Packed(q)) \div 8

-----------------------------------------------------------------------------
(* What the board makes of a request: payload_words[k] are the 32-bit words *)
(* after the magic, the header being the first four of them.                *)

P(name, k, low, width) == [name |-> <<name, 0>>, at |-> 32 * k + low, width |-> width]
Pc(name, c, k, width) == [name |-> <<name, c>>, at |-> 32 * k, width |-> width]

header_latch ==
  {P("version", 0, 0, 16), P("flags", 0, 16, 16), P("opcode", 1, 0, 32), P("seq", 2, 0, 32),
   P("size", 3, 0, 32)}

\* Variant: a channel record is five words.
rfdc_latch_five ==
  {P("revision", 4, 0, 32), P("mask", 5, 0, 8)}
  \cup UNION {{Pc("nco_hz", c, 6 + 5 * (c - 1), 64), Pc("zone", c, 8 + 5 * (c - 1), 2),
              Pc("phase_mdeg", c, 9 + 5 * (c - 1), 32), Pc("current_ua", c, 10 + 5 * (c - 1), 32)} :
               c \in Channels}

rfdc_latch ==
  {P("revision", 4, 0, 32), P("mask", 5, 0, 8)}
  \cup UNION {{Pc("nco_hz", c, 6 + 6 * (c - 1), 64), Pc("zone", c, 8 + 6 * (c - 1), 2),
              Pc("phase_mdeg", c, 9 + 6 * (c - 1), 32), Pc("current_ua", c, 10 + 6 * (c - 1), 32)} :
               c \in Channels}
network_latch ==
  {P("revision", 4, 0, 32), P("ip", 5, 0, 32), P("mac", 6, 0, 64), P("subnet_mask", 8, 0, 32),
   P("gateway", 9, 0, 32), P("port", 10, 0, 16)}
tdc_latch == {P("write", 4, 0, 1), P("address", 5, 0, 16), P("data", 6, 0, 32)}
begin_latch ==
  {P("session", 4, 0, 32), Pc("total_bytes", 1, 5, 32), Pc("total_bytes", 2, 6, 32),
   P("channel_mask", 7, 0, 8), P("layout", 7, 8, 8), P("total_beats", 8, 0, 32),
   P("loop_count", 9, 0, 32), P("bytes_per_beat", 10, 0, 32)}
data_latch ==
  {P("session", 4, 0, 32), P("packet_seq", 5, 0, 32), P("byte_offset", 6, 0, 64),
   P("length", 8, 0, 32), P("crc", 9, 0, 32)}

\* Bits a command is refused for when they are not zero.
MustBeZero(q) ==
  CASE q = "RFDC_APPLY" -> {<<5, 8, 24>>} \cup {<<11 + 6 * (c - 1), 0, 32>> : c \in Channels}
    [] q = "TDC_REG" -> {<<4, 1, 31>>, <<5, 16, 16>>, <<7, 0, 32>>}
    [] q = "WAVE_BEGIN" -> {<<7, 16, 16>>, <<11, 0, 32>>}
    [] q = "WAVE_COMMAND" -> {<<5, 0, 32>>}
    [] OTHER -> {}

Latched(q) ==
  header_latch \cup
  (CASE q = "RFDC_APPLY" -> rfdc_latch [] q = "NETWORK_APPLY" -> network_latch
     [] q = "TDC_REG" -> tdc_latch [] q = "WAVE_BEGIN" -> begin_latch [] q = "WAVE_DATA" -> data_latch
     [] q = "DIAG_CONTROL" -> {P("events", 4, 0, 32), P("counters", 5, 0, 1)}
     [] q = "SYNC_EPOCH" -> {P("epoch", 4, 0, 64)}
     [] q = "WAVE_COMMAND" -> {P("session", 4, 0, 32)} [] OTHER -> {})

\* udp_rvctrl_framer: the 32-bit words of a request that carries size bytes.
framed_word_count(size) == 4 + (size + 3) \div 4

\* The sizes a handler insists on, in bytes and in words.
SizeWanted(q) ==
  CASE q = "RFDC_APPLY" -> {<<200, 54>>} [] q = "NETWORK_APPLY" -> {<<32, 12>>}
    [] q = "TDC_REG" -> {<<16, 8>>} [] q = "DIAG_CONTROL" -> {<<8, 6>>}
    [] q \in {"DIAG_SNAPSHOT", "NETWORK_RESTART"} -> {<<0, 4>>}
    [] q = "SYNC_EPOCH" -> {<<8, 6>>} [] q = "WAVE_BEGIN" -> {<<28, 11>>}
    [] q = "WAVE_COMMAND" -> {<<4, 5>>} [] q = "START_AT" -> {}
    [] OTHER -> {<<n, framed_word_count(n)>> : n \in 0..64}

\* decode_kind knows no START_AT: it is answered with status 2.
decode_kind(q) == IF q = "START_AT" THEN "unsupported" ELSE q

-----------------------------------------------------------------------------
(* Values.  Frequencies are in MHz, phases in tenths of a millidegree,      *)
(* currents in microamperes.                                                *)

\* Python rounds a half to the even neighbour.
round10(x) ==
  LET q == x \div 10 IN
  CASE x % 10 < 5 -> q [] x % 10 > 5 -> q + 1 [] OTHER -> IF q % 2 = 0 THEN q ELSE q + 1

\* Variant: the phase is only reduced below a full turn.
normalize_rfdc_phase_mdeg_turn(p) == round10(p % 3600000)

normalize_rfdc_phase_mdeg(p) == round10(((p + 1800000) % 3600000) - 1800000)

\* The fine NCO and the Nyquist zone of an analog target; 6400 MHz is Fs.
rfdc_nco_plan_for_target(target) ==
  CASE target < 0 \/ target > 6400 -> [ok |-> FALSE, nco |-> 0, zone |-> 1]
    [] target >= 0 /\ target < 3200 -> [ok |-> TRUE, nco |-> target, zone |-> 1]
    [] OTHER -> [ok |-> TRUE, nco |-> target - 6400, zone |-> 2]

CurrentRange(c) == IF c \in {5, 6} THEN 6400..32000 ELSE 2250..40500

\* pack_rfctrl2_rfdc_apply refuses the request for any of its channels.
rfdc_entry_packs(c, v) ==
  /\ v.nco >= -3200 /\ v.nco <= 3200
  /\ v.zone \in {1, 2}
  /\ v.current \in CurrentRange(c)

\* validation_error_mask of rfdc_runtime_config_pl.
validate_entry(c, v) ==
  /\ v.nco >= -3200 /\ v.nco <= 3200
  /\ v.zone % 4 \in {1, 2}
  /\ v.phase >= -180000 /\ v.phase < 180000
  /\ v.current \in CurrentRange(c)

\* BEGIN: total in 32-byte beats; 33550336 descriptor frames of 256 bytes are
\* the usable memory (DDR_MAX_INTERLEAVED_BYTES, DDR_CAPACITY_BYTES).
_wave_uint(v, bits, nonzero) == v >= (IF nonzero THEN 1 ELSE 0) /\ v < 2 ^ bits
begin_packs(b) ==
  /\ _wave_uint(b.session, 30, TRUE) /\ _wave_uint(b.mask, 8, TRUE)
  /\ _wave_uint(b.loops, 30, TRUE) /\ b.frames >= 1
  /\ b.total <= 8 * 33550336 /\ b.total = 8 * b.frames
begin_accepted(b) ==
  /\ b.session # 0 /\ b.mask # 0 /\ b.loops # 0 /\ b.total # 0
  /\ b.total <= 8 * 33550336 /\ b.total = 8 * b.frames

\* Variant: the headers are not taken off the datagram.
data_packs_whole_datagram(length) == length > 0 /\ length <= (1472 \div 32) * 32 /\ length % 32 = 0

\* DATA: 1472 bytes of UDP payload less two headers of 24, in whole beats.
data_packs(length) ==
  length > 0 /\ length <= ((1472 - 24 - 24) \div 32) * 32 /\ length % 32 = 0
data_accepted(length) == length # 0 /\ length <= 1408 /\ length % 32 = 0
=============================================================================
