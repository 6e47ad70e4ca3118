----------------------------- MODULE WaveformPlan -----------------------------
(***************************************************************************)
(* From a request of the web application, or the settings of the GUI, to    *)
(* the waves of the eight channels and their upload: webapp/waveforms.py,    *)
(* waveform_model.py and upload_and_play of waveform_tools.py.  A wave is a  *)
(* sequence of complex samples (DdrLayout): 0 is silence, i the i-th sample  *)
(* of the channel's pulse; the samples' values, sines and envelopes, are     *)
(* data.  Times are in half samples, so that what is rounded can be seen;    *)
(* frequencies in MHz.                                                      *)
(***************************************************************************)
EXTENDS DdrLayout

CONSTANT TILE_SAMPLES   \* complex samples of a tile (NUM_SAMPLES / 2: 1024)

ASSUME TileAssumption == TILE_SAMPLES \in Nat \ {0} /\ TILE_SAMPLES % 8 = 0

\* int(round(t * rate)): the nearest sample, a half to the even one.
Nearest(t) ==
  LET q == t \div 2 IN IF t % 2 = 1 /\ q % 2 = 1 THEN q + 1 ELSE q

\* Samples of a duration, in whole DAC words (t > 0, else it raises).
iq_duration_to_sample_count(t) ==
  align_bytes_to_beat(IF Nearest(t) < 1 THEN 1 ELSE Nearest(t))

\* The same of a record, by waveform_model's own arithmetic.
_record_int16_sample_count(t) ==
  LET n == IF Nearest(t) < 1 THEN 1 ELSE Nearest(t)
  IN  IF n % 8 # 0 THEN n + 8 - (n % 8) ELSE n

Pulse(n) == [i \in 1..n |-> i]
Raised == [ok |-> FALSE, wave |-> <<>>]
Made(w) == [ok |-> TRUE, wave |-> w]

\* A pulse in a record of n samples, from the sample nearest to a start.
InRecord(active, start, n) ==
  LET at == IF Nearest(start) < 0 THEN 0 ELSE Nearest(start)
  IN  IF at + Len(active) > n THEN Raised
      ELSE Made(Zeros(at) \o active \o Zeros(n - at - Len(active)))

-----------------------------------------------------------------------------
(* Independent channels: [type, delay, duration, record (0: none), tail]. *)

\* Names the generator does not know are sines.
_normalize_channel_waveform_type(t) ==
  CASE t \in {"hls", "ezq-xy"} -> "xy"
    [] t \in {"sine", "xy", "readout", "z", "off", "dc-iq-cw", "iq-sine", "iq-gaussian-sine",
              "pypulse", "quantum", "burst", "golden", "pulse"} -> t
    [] OTHER -> "sine"

\* Variant: the pulse always starts with the record.
_place_channel_waveform_at_start(active, c, append_tail) ==
  IF c.record > 0 THEN InRecord(active, 0, _record_int16_sample_count(c.record))
  ELSE IF ~append_tail THEN Made(active)
  ELSE IF c.tail <= 0 THEN Raised
  ELSE Made(active \o Zeros(iq_duration_to_sample_count(c.tail)))

\* Without a record the delay is left to the player and a tail of silence is
\* added, which has to be longer than nothing.
_place_channel_waveform(active, c, append_tail) ==
  IF c.record > 0 THEN InRecord(active, c.delay, _record_int16_sample_count(c.record))
  ELSE IF ~append_tail THEN Made(active)
  ELSE IF c.tail <= 0 THEN Raised
  ELSE Made(active \o Zeros(iq_duration_to_sample_count(c.tail)))

\* The generators of one period fill a tile, the others the duration: also
\* dc-iq-cw, whose build_dc_iq_tone takes bytes, two for each int16 sample.
TileTypes == {"pypulse", "pulse", "quantum", "burst", "golden"}
_make_active_channel_waveform(c) == Pulse(iq_duration_to_sample_count(c.duration))

_make_channel_waveform(c) ==
  LET type == _normalize_channel_waveform_type(c.type) IN
  CASE type = "off" ->
         Made(Zeros(IF c.record = 0 THEN iq_duration_to_sample_count(c.duration)
                    ELSE _record_int16_sample_count(c.record)))
    [] type \in TileTypes -> _place_channel_waveform(Pulse(TILE_SAMPLES), c, FALSE)
    [] OTHER -> _place_channel_waveform(_make_active_channel_waveform(c), c, TRUE)

\* A channel without settings is off, for the default microsecond (400 samples).
DefaultOff == [type |-> "off", delay |-> 64, duration |-> 800, record |-> 0, tail |-> 40]

\* All channels, or nothing when one of them raises.
Together(made) ==
  IF \A c \in Lanes : made[c].ok THEN [ok |-> TRUE, waves |-> [c \in Lanes |-> made[c].wave]]
  ELSE [ok |-> FALSE, waves |-> <<>>]

_generate_independent_waveforms(cfg) ==
  Together([c \in Lanes |->
    _make_channel_waveform(IF c \in DOMAIN cfg.channels THEN cfg.channels[c] ELSE DefaultOff)])

-----------------------------------------------------------------------------
(* ez-Q channels: [enabled, role, start, gate, detune, target, readout_freq,  *)
(* flattop] and an amplitude and a length for each of the slots below.  The   *)
(* pulse settings are [record, mask, ch] with the channels set of their own   *)
(* in ch, and the values the others take.                                     *)

_fixed_channel_role(c) == IF c <= 4 THEN "xy" ELSE IF c <= 6 THEN "z" ELSE "readout"
Gates == {"x_pi", "y_pi", "x_half", "y_half", "x12_pi", "x12_half", "spec"}
ReadoutTarget(c) == IF c = 7 THEN 5800 ELSE 6200

\* A channel without settings of its own takes the common ones.
_ezq_global_channel_config(ezq, c) ==
  LET role == _fixed_channel_role(c)
  IN  [enabled |-> c \in ezq.mask, role |-> role, start |-> 0, gate |-> "x_pi",
       detune |-> IF role = "xy" THEN ezq.detune ELSE 0,
       target |-> IF role = "readout" THEN ReadoutTarget(c) ELSE 0,
       readout_freq |-> IF role = "readout" THEN ReadoutTarget(c) ELSE 5800,
       amp |-> ezq.amp, len |-> ezq.len, flattop |-> ezq.flattop]

\* The role of a channel is fixed: settings made for another one keep their
\* values, and a readout channel gets its default target.
_ezq_effective_channel_config(ezq, c) ==
  LET role == _fixed_channel_role(c) IN
  IF c \notin DOMAIN ezq.ch THEN _ezq_global_channel_config(ezq, c)
  ELSE IF ezq.ch[c].role = role THEN ezq.ch[c]
  ELSE IF role = "readout"
       THEN [ezq.ch[c] EXCEPT !.role = role, !.target = ReadoutTarget(c), !.readout_freq = ReadoutTarget(c)]
  ELSE [ezq.ch[c] EXCEPT !.role = role]

\* Which amplitude and which length a gate uses.
_ezq_xy_gate_parameters(e) ==
  CASE e.gate = "x12_pi" -> [amp |-> e.amp["pi21"], duration |-> e.len["pi"]]
    [] e.gate = "x12_half" -> [amp |-> e.amp["half21"], duration |-> e.len["half"]]
    [] e.gate = "spec" -> [amp |-> e.amp["spec"], duration |-> e.len["spec"]]
    [] e.gate \in {"x_half", "y_half"} -> [amp |-> e.amp["half"], duration |-> e.len["half"]]
    [] OTHER -> [amp |-> e.amp["pi"], duration |-> e.len["pi"]]

\* The amplitude a channel is generated with.
Amplitude(e) == IF e.role = "xy" THEN _ezq_xy_gate_parameters(e).amp ELSE e.amp[e.role]

_ezq_channel_duration_s(e) ==
  CASE e.role = "z" -> IF e.len["z"] > e.len["z_gate"] THEN e.len["z"] ELSE e.len["z_gate"]
    [] e.role = "readout" -> e.len["readout"]
    [] OTHER -> _ezq_xy_gate_parameters(e).duration

_ezq_channel_target_rf_hz(e) ==
  CASE e.role = "z" -> 0
    [] e.role # "z" /\ e.target > 0 -> e.target
    [] e.role = "readout" /\ e.target <= 0 -> e.readout_freq
    [] OTHER -> IF e.gate \in {"x12_pi", "x12_half"} THEN 4350 ELSE 4500

\* The offset made in software (that of the pulse settings, pi_df, is 0 in
\* settings of a channel).
_ezq_channel_baseband_hz(e) == IF e.role = "z" THEN 0 ELSE e.detune

\* Durations, a flat top, an offset up to 160 MHz and a target in 0..Fs are
\* required of disabled channels too.
EzqValid(e) ==
  /\ _ezq_channel_duration_s(e) > 0
  /\ e.role = "z" => e.len["z_gate"] > 0
  /\ e.role = "readout" => e.flattop > 0
  /\ _ezq_channel_baseband_hz(e) \in -160..160
  /\ _ezq_channel_target_rf_hz(e) \in 0..6400

_place_iq_wave_in_record(active, start, n) == InRecord(active, start, n)

_generate_ezq_quantum_waveforms(ezq) ==
  Together([c \in Lanes |->
    LET e == _ezq_effective_channel_config(ezq, c)
        n == iq_duration_to_sample_count(_ezq_channel_duration_s(e))
    IN  IF ~EzqValid(e) THEN Raised
        ELSE _place_iq_wave_in_record(IF e.enabled THEN Pulse(n) ELSE Zeros(n), e.start,
                                      _record_int16_sample_count(ezq.record))])

-----------------------------------------------------------------------------
(* A configuration: [mode, channels, ezq, record, duration, tail, layout,    *)
(* delay]; channels is a function on the channels that have settings.       *)

append_iq_zero_tail(w, tail) ==
  IF tail <= 0 THEN w ELSE w \o Zeros(iq_duration_to_sample_count(tail))

EzqEnabled(ezq) == {c \in Lanes : _ezq_effective_channel_config(ezq, c).enabled}

\* Two waves for channels 1 and 2, a tile of silence for the others.
ForTwo(first, second) ==
  [ok |-> TRUE,
   waves |-> [c \in Lanes |-> CASE c = 1 -> first [] c = 2 -> second [] OTHER -> Zeros(TILE_SAMPLES)]]

_make_pulse_preset(preset) ==
  CASE preset = "x" -> ForTwo(Pulse(TILE_SAMPLES), Zeros(TILE_SAMPLES))
    [] preset = "y" -> ForTwo(Zeros(TILE_SAMPLES), Pulse(TILE_SAMPLES))
    [] preset = "z" -> ForTwo(Pulse(TILE_SAMPLES), Pulse(TILE_SAMPLES))
    [] OTHER -> [ok |-> FALSE, waves |-> <<>>]

generate_waveforms(cfg) ==
  LET sine == append_iq_zero_tail(Pulse(iq_duration_to_sample_count(cfg.duration)), cfg.tail)
  IN  IF cfg.channels # <<>> THEN _generate_independent_waveforms(cfg)
      ELSE CASE cfg.mode = "ezq-quantum" -> _generate_ezq_quantum_waveforms(cfg.ezq)
             [] cfg.mode = "pulse" -> _make_pulse_preset(cfg.preset)
             [] cfg.mode \in {"sine", "iq-sine"} -> ForTwo(sine, sine)
             [] cfg.mode \in {"burst", "golden"} -> ForTwo(Pulse(TILE_SAMPLES), Pulse(TILE_SAMPLES))
             [] OTHER -> [ok |-> FALSE, waves |-> <<>>]

\* Variant: every channel is loaded.
enabled_channels_for_config_all(cfg) == Lanes

\* The mode decides before the settings do.
enabled_channels_for_config(cfg) ==
  CASE cfg.mode = "ezq-quantum" -> EzqEnabled(cfg.ezq)
    [] cfg.mode # "ezq-quantum" /\ cfg.channels # <<>> ->
         {c \in DOMAIN cfg.channels : cfg.channels[c].type # "off"}
    [] OTHER -> {1, 2}

\* Delays the player would have to add; none in the interleaved layout.
channel_delay_cycles(cfg) ==
  CASE cfg.layout = "interleaved_512b" -> {}
    [] cfg.layout # "interleaved_512b" /\ cfg.channels # <<>> ->
         {c \in DOMAIN cfg.channels : cfg.channels[c].type # "off"}
    [] OTHER -> IF cfg.mode = "ezq-quantum" THEN EzqEnabled(cfg.ezq)
                ELSE IF cfg.mode = "burst" THEN {1, 2} ELSE {}

NotSent == [ok |-> FALSE, mask |-> {}, packets |-> {}, loops |-> 0]

\* upload_and_play refuses the removed layouts and delays, and loads the
\* enabled channels.
upload_and_play(waves, enabled, cfg) ==
  IF cfg.layout # "interleaved_512b" \/ channel_delay_cycles(cfg) # {} \/ enabled = {} THEN NotSent
  ELSE [ok |-> TRUE, mask |-> enabled, loops |-> IF cfg.loop THEN 2 ELSE 1,
        packets |-> upload_waveforms([c \in enabled |-> waves[c]], enabled)]

\* WaveformController.run.
run(cfg) ==
  LET generated == generate_waveforms(cfg)
      enabled == enabled_channels_for_config(cfg)
  IN  IF ~generated.ok \/ enabled = {} THEN NotSent
      ELSE upload_and_play(generated.waves, enabled, cfg)

-----------------------------------------------------------------------------
(* The web application: a request [mode, record, loop, items], an item       *)
(* [enabled, type, gate, start, duration, amplitude, target, detune] for each *)
(* channel, and the overrides of the board, functions on some channels.      *)

_override_for(field, c, default) == IF c \in DOMAIN field THEN field[c] ELSE default

\* models.ManualChannel.normalize_waveform; other names are refused.
normalize_waveform(t) ==
  CASE t \in {"iq-sine", "sine", "dc-iq-cw"} -> "sine"
    [] t \in {"iq-gaussian-sine", "pypulse", "burst", "quantum", "xy"} -> "xy"
    [] t \in {"readout", "z"} -> t

NoConfig == [ok |-> FALSE]

\* Amplitudes and lengths of default_test_ezq_config; amplitude 0 stands for
\* "a default".
DefaultAmp == [s \in {"pi", "half", "pi21", "half21", "spec", "z", "readout"} |-> 0]
DefaultLen == [pi |-> 96, half |-> 24, spec |-> 800, z |-> 192, z_gate |-> 160, readout |-> 800]

default_test_ezq_config ==
  [record |-> 8000, mask |-> Lanes, detune |-> 0, amp |-> DefaultAmp, flattop |-> 720,
   len |-> [DefaultLen EXCEPT !["half"] = 48],
   ch |-> [c \in Lanes |->
     LET target == CASE c <= 4 -> 4500 [] c \in {5, 6} -> 0 [] OTHER -> ReadoutTarget(c)
     IN  [enabled |-> TRUE, role |-> _fixed_channel_role(c), gate |-> "x_pi",
          start |-> <<80, 200, 320, 440, 640, 840, 1120, 1320>>[c],
          detune |-> <<0, 10, -10, 40, 0, 0, 0, 0>>[c], target |-> target, readout_freq |-> target,
          amp |-> DefaultAmp, len |-> DefaultLen, flattop |-> 720]]]

\* What WaveformConfig holds when nothing else is said.
DefaultConfig ==
  [ok |-> TRUE, mode |-> "ezq-quantum", layout |-> "interleaved_512b", loop |-> FALSE, preset |-> "x",
   duration |-> 800, tail |-> 40, channels |-> <<>>, ezq |-> default_test_ezq_config]

\* Variant: the end of a pulse is not looked at.
_manual_config_unchecked(q, o) ==
  LET on(c) == _override_for(o.enabled, c, q.items[c].enabled)
      delay(c) == q.items[c].start + _override_for(o.start, c, 0)
  IN  [DefaultConfig EXCEPT
         !.mode = "manual-channels", !.loop = q.loop,
         !.channels = [c \in Lanes |->
            [type |-> IF on(c) THEN normalize_waveform(q.items[c].type) ELSE "off",
             delay |-> delay(c), duration |-> q.items[c].duration, record |-> q.record, tail |-> 0]]]

\* Enabled channels must end inside the record.
_manual_config(q, o) ==
  LET on(c) == _override_for(o.enabled, c, q.items[c].enabled)
      delay(c) == q.items[c].start + _override_for(o.start, c, 0)
  IN  IF \E c \in Lanes : on(c) /\ delay(c) + q.items[c].duration > q.record THEN NoConfig
      ELSE [DefaultConfig EXCEPT
              !.mode = "manual-channels", !.loop = q.loop,
              !.channels = [c \in Lanes |->
                 [type |-> IF on(c) THEN normalize_waveform(q.items[c].type) ELSE "off",
                  delay |-> delay(c), duration |-> q.items[c].duration, record |-> q.record, tail |-> 0]]]

\* The slots the amplitude and the duration of an item go to.
EzqSlots(role, gate) ==
  CASE role = "z" -> [amp |-> "z", len |-> {"z", "z_gate"}]
    [] role = "readout" -> [amp |-> "readout", len |-> {"readout"}]
    [] role = "xy" /\ gate \in {"x_half", "y_half", "x12_half"} -> [amp |-> "half", len |-> {"half"}]
    [] role = "xy" /\ gate = "spec" -> [amp |-> "spec", len |-> {"spec"}]
    [] role = "xy" /\ gate = "x12_pi" -> [amp |-> "pi21", len |-> {"pi"}]
    [] OTHER -> [amp |-> "pi", len |-> {"pi"}]

\* Variant: the length of a spectroscopy pulse is taken for the one of a pi pulse.
_apply_ezq_values_spec_pi(base, c, item, o) ==
  LET target == item.target + _override_for(o.nco, c, 0)
      slots == EzqSlots(base.role, item.gate)
  IN  [base EXCEPT
         !.enabled = _override_for(o.enabled, c, item.enabled),
         !.start = item.start + _override_for(o.start, c, 0),
         !.gate = item.gate, !.detune = item.detune, !.target = target, !.readout_freq = target,
         !.amp = [@ EXCEPT ![slots.amp] = item.amplitude],
         !.len = [s \in DOMAIN @ |-> IF s \in slots.len \ {"spec"} THEN item.duration ELSE @[s]],
         !.flattop = IF item.duration > 48 THEN item.duration - 48 ELSE 0]

_apply_ezq_values(base, c, item, o) ==
  LET target == item.target + _override_for(o.nco, c, 0)
      slots == EzqSlots(base.role, item.gate)
  IN  [base EXCEPT
         !.enabled = _override_for(o.enabled, c, item.enabled),
         !.start = item.start + _override_for(o.start, c, 0),
         !.gate = item.gate, !.detune = item.detune, !.target = target, !.readout_freq = target,
         !.amp = [@ EXCEPT ![slots.amp] = item.amplitude],
         !.len = [s \in DOMAIN @ |-> IF s \in slots.len THEN item.duration ELSE @[s]],
         !.flattop = IF item.duration > 48 THEN item.duration - 48 ELSE 0]

_ezq_config(q, o) ==
  LET ch == [c \in Lanes |-> _apply_ezq_values(default_test_ezq_config.ch[c], c, q.items[c], o)]
  IN  [DefaultConfig EXCEPT
         !.loop = q.loop,
         !.ezq = [@ EXCEPT !.record = q.record, !.ch = ch, !.mask = {c \in Lanes : ch[c].enabled}]]

to_waveform_config(q, o) == IF q.mode = "manual" THEN _manual_config(q, o) ELSE _ezq_config(q, o)

\* The channels the run coordinator believes enabled.
_channel_mask_for_job(q, o) == {c \in Lanes : _override_for(o.enabled, c, q.items[c].enabled)}

=============================================================================
