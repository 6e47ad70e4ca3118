----------------------------- MODULE GuiSettings -----------------------------
(***************************************************************************)
(* The settings file of waveform_model.py.  A JSON object is a function     *)
(* from some keys to values, a settings object a function on all of its     *)
(* fields; a channel that is null in the file, or None, is not in ch.       *)
(* Numbers and texts are one kind of value here: a load copies most of them  *)
(* and converts the few named below.                                        *)
(***************************************************************************)
EXTENDS Integers, Functions

\* The fields of the settings objects, by their names in the file.
ChannelFields ==
  {"waveform_type", "domain", "pypulse_waveform", "quantum_gate", "rotation_angle_rad",
   "virtual_z_phase_rad", "freq_hz", "phase_rad", "amplitude", "encoding", "delay_s", "duration_s",
   "record_duration_s", "zero_tail_s", "pulse_preset", "pulse_sigma_s", "pulse_center_s", "start"}
EzqFields ==
  {"qubit_name", "f10_hz", "f21_hz", "fc_hz", "uwave_power_dbm", "uwave_phase_rad",
   "nonlinearity_hz", "pi_amp", "pi_len_s", "pi_fwhm_s", "pi_alpha", "pi_amp_half", "pi_len_half_s",
   "pi_fwhm_half_s", "pi_alpha_half", "pi_amp21", "pi_amp21_half", "pi_df_hz", "xy_phase_rad",
   "z_offset", "pi_amp_z", "pi_len_z_s", "z_shape", "z_start_s", "z_gate_time_s", "z_edge_s",
   "z_ripple0", "z_ripple1", "z_ripple2", "z_ripple3", "readout_freq_hz", "readout_fc_hz",
   "readout_len_s", "readout_edge_s", "readout_flattop_s", "readout_zpa", "readout_power_dbm",
   "ring_power_dbm", "readout_uwave_power_dbm", "ring_len_s", "readout_start_s", "spec_amp",
   "spec_len_s", "adc_start_delay_s", "timing_lag_xy_s", "timing_lag_z_s", "timing_lag_read_s",
   "repeat", "period_s", "record_duration_s", "channel_mask"}
EzqChannelFields ==
  {"enabled", "waveform", "xy_gate", "target_rf_hz", "detune_hz", "start_time_s", "f10_hz", "f21_hz",
   "fc_hz", "nonlinearity_hz", "pi_amp", "pi_len_s", "pi_fwhm_s", "pi_alpha", "pi_amp_half",
   "pi_len_half_s", "pi_fwhm_half_s", "pi_alpha_half", "pi_amp21", "pi_amp21_half", "pi_df_hz",
   "xy_phase_rad", "spec_amp", "spec_len_s", "z_amp", "z_len_s", "z_shape", "z_start_s",
   "z_gate_time_s", "z_edge_s", "z_ripple0", "z_ripple1", "z_ripple2", "z_ripple3",
   "readout_freq_hz", "readout_fc_hz", "readout_amp", "readout_len_s", "readout_start_s",
   "readout_phase_rad", "readout_edge_s", "readout_flattop_s", "readout_zpa", "timing_lag_xy_s",
   "period_s"}
WaveformFields ==
  {"mode", "ddr_layout", "output_dir", "sample_rate_hz", "rfdc_interpolation", "axis_freq_hz",
   "loop", "wait_for_trigger", "dry_run", "ch1_freq_hz", "ch2_freq_hz", "ch1_phase_rad",
   "ch2_phase_rad", "ch1_delay_s", "ch2_delay_s", "ch1_start", "ch2_start", "x_freq_hz", "y_freq_hz",
   "x_phase_rad", "y_phase_rad", "amplitude", "encoding", "x_delay_s", "y_delay_s", "duration_s",
   "zero_tail_s", "record_duration_s", "pulse_preset", "pulse_sigma_s", "pulse_center_s", "x_start",
   "y_start"}
ConnectionFields ==
  {"ip", "port", "udp_interface", "udp_source_ip", "timeout_s", "post_upload_sleep_s"}
IlaFields == {"bitstream_path", "ltx_path", "output_dir", "artifact_dir", "program_mode"}

\* The value of a field nothing was said about.
Default(key) ==
  CASE key = "waveform_type" -> "sine" [] key = "domain" -> "iq" [] key = "waveform" -> "xy"
    [] key = "xy_gate" -> "x_pi" [] key = "z_shape" -> "square" [] key = "ddr_layout" -> "interleaved_512b"
    [] key = "sample_rate_hz" -> "400M" [] key = "mode" -> "ezq-quantum" [] OTHER -> "default"

\* The keys of an object that are among the fields, the others filled in.
Allowed(object, fields) ==
  [key \in fields |-> IF key \in DOMAIN object THEN object[key] ELSE Default(key)]
Known(value, values, otherwise) == IF value \in values THEN value ELSE otherwise

-----------------------------------------------------------------------------
(* Reading. *)

_channel_config_from_dict(d) ==
  [Allowed(d, ChannelFields) EXCEPT
     !["waveform_type"] =
        IF @ \in {"pypulse", "burst", "hls", "iq-gaussian"} THEN "iq-gaussian-sine"
        ELSE Known(@, {"sine", "xy", "readout", "z", "off", "iq-sine", "dc-iq-cw",
                       "iq-gaussian-sine"}, "dc-iq-cw"),
     !["domain"] = Known(@, {"iq", "real"}, "iq")]

_ezq_channel_config_from_dict(d) ==
  [Allowed(d, EzqChannelFields) EXCEPT
     !["waveform"] = Known(@, {"xy", "z", "readout"}, "xy"),
     !["z_shape"] = Known(@, {"square", "diabatic_cz"}, "square"),
     !["xy_gate"] = Known(@, {"x_pi", "y_pi", "x_half", "y_half", "x12_pi", "x12_half", "spec"}, "x_pi")]

_ezq_config_from_dict(d) ==
  [values |-> [Allowed(d.values, EzqFields) EXCEPT !["z_shape"] = Known(@, {"square", "diabatic_cz"}, "square")],
   ch |-> [c \in DOMAIN d.ch |-> _ezq_channel_config_from_dict(d.ch[c])]]

\* Analog rates are those of older versions; an unknown layout is the default.
_waveform_config_from_dict(d) ==
  [values |-> [Allowed(d.values, WaveformFields) EXCEPT
                 !["sample_rate_hz"] = IF @ \in {"6400M", "9600M", "8000M", "6000M"} THEN "400M" ELSE @,
                 !["ddr_layout"] = Known(@, {"contiguous", "tiled", "interleaved_512b", "null"},
                                         "interleaved_512b")],
   ch |-> [c \in DOMAIN d.ch |-> _channel_config_from_dict(d.ch[c])],
   ezq |-> _ezq_config_from_dict(d.ezq)]

_connection_config_from_dict(d) == Allowed(d, ConnectionFields)

\* Artifacts are looked for where the waveform settings put them.
_ila_config_from_dict(d, artifact_dir) ==
  [key \in IlaFields |-> IF key \in DOMAIN d THEN d[key]
                         ELSE IF key = "artifact_dir" THEN artifact_dir ELSE Default(key)]

gui_settings_from_dict(d) ==
  LET waveform == _waveform_config_from_dict(d.waveform)
  IN  [waveform |-> waveform, connection |-> _connection_config_from_dict(d.connection),
       ila |-> _ila_config_from_dict(d.ila, waveform.values["output_dir"])]

\* The file exists (without one the settings are the defaults).
load_gui_settings(file) == gui_settings_from_dict(file)

-----------------------------------------------------------------------------
(* Writing: the named fields and no others. *)

_channel_config_to_dict(config) == Restrict(config, ChannelFields)
_ezq_channel_config_to_dict(config) == Restrict(config, EzqChannelFields)

\* Variant: a field was not added to the writer.
_ezq_config_to_dict_forgets(config) ==
  [values |-> Restrict(config.values, EzqFields \ {"adc_start_delay_s"}),
   ch |-> [c \in DOMAIN config.ch |-> _ezq_channel_config_to_dict(config.ch[c])]]

_ezq_config_to_dict(config) ==
  [values |-> Restrict(config.values, EzqFields),
   ch |-> [c \in DOMAIN config.ch |-> _ezq_channel_config_to_dict(config.ch[c])]]
_waveform_config_to_dict(config) ==
  [values |-> Restrict(config.values, WaveformFields),
   ch |-> [c \in DOMAIN config.ch |-> _channel_config_to_dict(config.ch[c])],
   ezq |-> _ezq_config_to_dict(config.ezq)]
_connection_config_to_dict(config) == Restrict(config, ConnectionFields)
_ila_config_to_dict(config) == Restrict(config, IlaFields)

gui_settings_to_dict(settings) ==
  [waveform |-> _waveform_config_to_dict(settings.waveform),
   connection |-> _connection_config_to_dict(settings.connection),
   ila |-> _ila_config_to_dict(settings.ila)]
save_gui_settings(settings) == gui_settings_to_dict(settings)
=============================================================================
