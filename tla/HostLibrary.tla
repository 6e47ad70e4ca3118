----------------------------- MODULE HostLibrary -----------------------------
(***************************************************************************)
(* The pure functions of the host's libraries, called with one input each.   *)
(* An input is <<kind, arguments>>; the properties relate what two sides of  *)
(* an interface make of it: the two ends of a datagram, a request and what   *)
(* the converters play, a file that is saved and the one that is read.       *)
(***************************************************************************)
EXTENDS WireFormats, WaveformPlan, GuiSettings

CONSTANT Inputs   \* <<kind, set of arguments>>, ...
VARIABLE input

NoInput == <<"none", 0>>
Is(kind) == input[1] = kind
Arg == input[2]

\* A library function is called.
call ==
  /\ input = NoInput
  /\ \E i \in DOMAIN Inputs : LET kind == Inputs[i][1] IN \E x \in Inputs[i][2] : input' = <<kind, x>>

-----------------------------------------------------------------------------
(* Datagrams. *)

\* Every value a parser returns is the whole of the field the board filled in,
\* and no parser reads past the payload, for every length a response can have
\* (status and diagnostics grew with the bitstreams, parse_rfctrl2_status and
\* parse_rfctrl2_diagnostics read as far as there are words).
ReadsBack ==
  Is("response") =>
    LET layout == Prefix(Sent(Arg.message), Arg.bytes)
        taken == {t.of : t \in {u \in Taken(Arg.message) : u.bytes <= Arg.bytes}}
        fields == {f.name : f \in layout}
    IN  /\ \A r \in taken : r.at + r.width <= 8 * Arg.bytes
        /\ \A name \in {r.name : r \in taken} \cap fields :
             UNION {Read(layout, r.at, r.width) : r \in {s \in taken : s.name = name}} = Whole(layout, name)

\* What a library packs into a command is what the board latches from it, field
\* by field; the words have the size the handler insists on and the bits a
\* handler refuses are never set.  START_AT is the one command the board does
\* not know (decode_kind).
RequestLatched ==
  Is("request") /\ decode_kind(Arg) # "unsupported" =>
    LET layout == Placed(0, pack_rfctrl2_packet \o Packed(Arg))
        latched == {l.name : l \in Latched(Arg)}
    IN  /\ <<Size(Arg), framed_word_count(Size(Arg))>> \in SizeWanted(Arg)
        /\ \A l \in Latched(Arg) : Read(layout, l.at, l.width) = Whole(layout, l.name)
        /\ \A z \in MustBeZero(Arg) : Read(layout, 32 * z[1] + z[2], z[3]) = {}
        /\ \A f \in layout : f.name \in latched

\* A channel entry that pack_rfctrl2_rfdc_apply takes is one the board's
\* validation takes, but for the phase that rounds to half a turn; one the
\* board takes can be packed, and the plan of every target packs.
PackedIsAccepted ==
  Is("rfdc") =>
    LET sent == [Arg.entry EXCEPT !.phase = normalize_rfdc_phase_mdeg(@)]
        plan == rfdc_nco_plan_for_target(Arg.target)
        planned == [sent EXCEPT !.nco = plan.nco, !.zone = plan.zone]
    IN  /\ rfdc_entry_packs(Arg.channel, sent) =>
             (validate_entry(Arg.channel, sent) <=> sent.phase # 180000)
        /\ validate_entry(Arg.channel, sent) => rfdc_entry_packs(Arg.channel, sent)
        /\ plan.ok /\ sent.current \in CurrentRange(Arg.channel) =>
             rfdc_entry_packs(Arg.channel, planned)

\* BEGIN and DATA are refused by the library exactly when the board would refuse
\* them, up to the largest image and the largest packet.
AcceptsTheSame ==
  /\ Is("begin") => (begin_packs(Arg) <=> begin_accepted(Arg))
  /\ Is("data") => (data_packs(Arg) <=> data_accepted(Arg))

\* The two ends of every datagram agree: on where a field is, how wide it is and
\* which values it may have.
EndsAgree == ReadsBack /\ RequestLatched /\ PackedIsAccepted /\ AcceptsTheSame

-----------------------------------------------------------------------------
(* Images.  The i-th sample of channel c is 100 c + i. *)

Wave(c, n) == [i \in 1..n |-> 100 * c + i]
Waves(lengths) == [c \in DOMAIN lengths |-> Wave(c, lengths[c])]
FramesOf(packets) == FoldSet(LAMBDA p, sum : sum + Len(p[2]), 0, packets) \div 32

\* Waves of any lengths, packed by upload_waveforms into packets and taken apart
\* again by the reader's assembly of DAC words: every channel plays its own
\* wave, filled up with silence to the longest, and a channel that has none or
\* is not in the mask plays silence.
LaneGetsItsWave ==
  Is("waves") =>
    LET waves == Waves(Arg.lengths)
        packets == upload_waveforms(waves, Arg.mask)
        frames == FramesOf(packets)
        memory == Memory(packets)
    IN  /\ \A c \in DOMAIN waves : Len(waves[c]) <= 8 * frames
        /\ \A c \in Lanes :
             Played(memory, frames, c) =
               _normalize_waveform_int16(IF c \in DOMAIN waves \cap Arg.mask THEN waves[c] ELSE <<>>, 8 * frames)

\* The 32-byte writes of the older paths: in the tiled layout no two channels
\* write one address and each word is where tiled_ddr_addr looks for it; the
\* interleaved writes make the image upload_waveforms sends.
WritesReadBack ==
  Is("waves") =>
    LET waves == Waves(Arg.lengths)
        tiled == [c \in DOMAIN waves |-> iter_tiled_udp_waveform_packets(waves[c], c)]
        all == UNION {{<<c, k>> : k \in DOMAIN tiled[c]} : c \in DOMAIN waves}
        direct == iter_interleaved_udp_waveform_packets(waves)
        memory == Memory(upload_waveforms(waves, Lanes))
    IN  /\ \A x, y \in all : tiled[x[1]][x[2]][1] = tiled[y[1]][y[2]][1] => x = y
        /\ \A x \in all : tiled[x[1]][x[2]][2] =
             SubSeq(_normalize_waveform_int16(waves[x[1]], 8 * x[2]), 8 * x[2] - 7, 8 * x[2])
        /\ \A k \in DOMAIN direct :
             direct[k] = <<k - 1, FlattenSeq([i \in 1..4 |-> memory[4 * (k - 1) + i - 1]])>>
        /\ \A c \in DOMAIN waves : \A b \in 0..((Len(waves[c]) \div 2) - 1) :
             memory[interleaved_ddr_addr(c, b)] = <<waves[c][2 * b + 1], waves[c][2 * b + 2]>>

\* While a mailbox arrives in order, firmware that sees the header sees all the
\* entries ("header is written last"); nothing is written twice.
HeaderMeansWhole ==
  Is("mailbox") =>
    LET packets == IF Arg.of = "nco" THEN iter_rfdc_nco_mailbox_packets(Arg.at)
                   ELSE iter_rfdc_runtime_mailbox_packets(Arg.at)
        arrived == {packets[i][1] : i \in 1..Arg.arrived}
    IN  Arg.arrived <= Len(packets) =>
          /\ Cardinality(arrived) = Arg.arrived
          /\ Arg.at \in arrived =>
               arrived = Arg.at..(Arg.at + (IF Arg.of = "nco" THEN 4 ELSE 8))

\* The four shapes an ez-Q wave can be given in mean the same samples, negative
\* values and the extreme ones included (two columns of two samples are the one
\* ambiguous case, read as rows).
FormatsAgree ==
  Is("iq") =>
    LET samples == FlattenSeq(Arg)
        rows == <<[i \in DOMAIN Arg |-> Arg[i][1]], [i \in DOMAIN Arg |-> Arg[i][2]]>>
    IN  /\ ezq_wave_to_interleaved_int16(ezq_wave_to_packed_int32(Arg), "packed_iq") = samples
        /\ ezq_wave_to_interleaved_int16(rows, "iq_matrix") = samples
        /\ Len(Arg) # 2 => ezq_wave_to_interleaved_int16(Arg, "iq_matrix") = samples
        /\ (\A i \in DOMAIN Arg : Arg[i][2] = 0) => ezq_wave_to_interleaved_int16(rows[1], "z") = samples

\* What a library lays out in memory is what its reader finds there: the DAC
\* words of a channel, the 32-byte writes, a mailbox, the samples of an I/Q wave.
ImageIsWaves == LaneGetsItsWave /\ WritesReadBack /\ HeaderMeansWhole /\ FormatsAgree

-----------------------------------------------------------------------------
(* Requests of the web application. *)

Shifted(q, o, c) == q.items[c].start + _override_for(o.start, c, 0)
Starts(q, o, c) == IF Shifted(q, o, c) > 0 THEN Shifted(q, o, c) ELSE 0

\* From the request to the converters: a run that is not refused loads the
\* channels the run coordinator believes loaded; each plays its pulse once, in
\* order and uncut, from within half a sample of its start, for its duration
\* rounded up to a DAC word; the others and the rest of the record are silent.
DacPlaysRequest ==
  Is("web") =>
    LET q == Arg.request  o == Arg.override
        config == to_waveform_config(q, o)
        sent == run(config)
        memory == Memory(sent.packets)
        frames == FramesOf(sent.packets)
    IN  config.ok /\ sent.ok =>
          /\ sent.mask = _channel_mask_for_job(q, o)
          /\ 16 * frames \in (q.record - 1)..(q.record + 16)
          /\ \A c \in Lanes :
               LET w == Played(memory, frames, c)
                   on == {i \in DOMAIN w : w[i] # 0}
                   at == Min(on) - 1
               IN  IF c \notin sent.mask THEN on = {}
                   ELSE /\ \A i \in on : w[i] = i - at
                        /\ on = (at + 1)..(at + Cardinality(on))
                        /\ 2 * at - Starts(q, o, c) \in -1..1
                        /\ 2 * Cardinality(on) - q.items[c].duration \in -1..16

\* A manual request the web application accepts (_manual_config checks it in
\* nanoseconds) is one the generator does not refuse later, in the worker, when
\* its pulses last a sample and start on DAC words of the record.  The others
\* are exceptions: a start between DAC words is not rounded to one and the
\* length is; a pulse that an override moves before the record starts with the
\* record and keeps its length; one shorter than a sample takes a DAC word too.
AcceptedIsGenerated ==
  Is("web") /\ Arg.request.mode = "manual" =>
    LET q == Arg.request  o == Arg.override
        config == to_waveform_config(q, o)
        onWords == \A c \in _channel_mask_for_job(q, o) :
                     Shifted(q, o, c) >= 0 /\ Shifted(q, o, c) % 16 = 0 /\ q.items[c].duration >= 2
    IN  config.ok /\ onWords => generate_waveforms(config).ok

\* The amplitude and the duration of an ez-Q item are the ones its gate is
\* generated with, whatever the defaults are.  The amplitude of x12_half is the
\* exception: _apply_ezq_values stores it as pi_amp_half and the generator
\* reads pi_amp21_half.
GateGetsItsValues ==
  Is("web") /\ Arg.request.mode = "ezq" =>
    LET ezq == to_waveform_config(Arg.request, Arg.override).ezq
    IN  \A c \in Lanes :
          LET e == _ezq_effective_channel_config(ezq, c)  item == Arg.request.items[c]
          IN  /\ _ezq_channel_duration_s(e) = item.duration
              /\ ~(e.role = "xy" /\ e.gate = "x12_half") => Amplitude(e) = item.amplitude

-----------------------------------------------------------------------------
(* Settings. *)

\* The channels enabled_channels_for_config selects are the ones the generator
\* has made a wave for, whichever of the channels have settings of their own
\* and whatever role these were made for (a pulse preset leaves one of two
\* selected channels silent).  A configuration with channels and the ez-Q mode
\* is left out: there the two functions look at different settings.
MaskIsWhatSounds ==
  Is("settings") /\ ~(Arg.mode = "ezq-quantum" /\ Arg.channels # <<>>) =>
    LET made == generate_waveforms(Arg)
        sounding == {c \in Lanes : \E i \in DOMAIN made.waves[c] : made.waves[c][i] # 0}
        selected == enabled_channels_for_config(Arg)
    IN  made.ok => /\ sounding \subseteq selected
                   /\ selected # sounding => Arg.mode = "pulse" /\ Arg.channels = <<>>

\* A request or configuration that is accepted is carried out as it stands: it is
\* generated, each gate with its own values, on the channels the board is told.
PlanIsRequest == AcceptedIsGenerated /\ GateGetsItsValues /\ MaskIsWhatSounds

\* Saving what was loaded loses nothing: the settings read back are the same,
\* for files of this version, of older ones and for keys that are unknown.
SettingsSettle ==
  Is("file") => LET settings == load_gui_settings(Arg)
                IN  load_gui_settings(save_gui_settings(settings)) = settings
=============================================================================
