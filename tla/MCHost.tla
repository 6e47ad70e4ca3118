-------------------------------- MODULE MCHost --------------------------------
(* The max-length upload (two processes, records of four and sixteen beats, a  *)
(* marker of four, so that the middle marker of the longer record lies inside  *)
(* its body and a chunk of eight, from the cache or the command line, spans    *)
(* it, while a datagram of four cannot) and, from its initial state, every     *)
(* library function on the inputs below.                                       *)
EXTENDS MaxLength, HostLibrary, TLC

CONSTANTS p1, p2

Ask(route, pattern, total, cached) ==
  [route |-> route, pattern |-> pattern, total |-> total, cached |-> cached,
   force |-> FALSE, only |-> "all"]

MCRequests ==
  {Ask("cli", "cw", 16, FALSE), Ask("cli", "cw", 16, TRUE), Ask("cli", "sine", 4, TRUE),
   [Ask("cli", "cw", 16, TRUE) EXCEPT !.force = TRUE],
   [Ask("cli", "cw", 16, TRUE) EXCEPT !.only = "cache"],
   [Ask("cli", "sine", 4, FALSE) EXCEPT !.only = "dry"],
   [Ask("extreme", "sine", 4, TRUE) EXCEPT !.only = "wait"], Ask("extreme", "cw", 16, FALSE),
   Ask("udp", "cw", 16, TRUE), Ask("udp", "cw", 16, FALSE)}

MCSymmetry == Permutations({p1, p2})

-----------------------------------------------------------------------------
Responses == UNION {{[message |-> m, bytes |-> n] : n \in m.sizes} : m \in Messages}

\* Both sides of every limit; a phase in tenths of a millidegree.
Entries ==
  [channel : {1, 5}, target : {-1, 3199, 3200, 6400},
   entry : [nco : {-3201, -3200, 3200}, zone : {0, 2, 3},
            phase : {-1800000, 5, 1799994, 1799995, 1900000, 5400000},
            current : {2249, 2250, 6399, 32001, 40501}]]
Begins ==
  [session : {0, 1}, mask : {0, 1, 255}, loops : {0, 1}, frames : {0, 1, 33550336, 33550337},
   total : {0, 8, 9, 8 * 33550336, 8 * 33550337}]

\* Up to three channels of lengths around one and two DAC words.
SomeWaves ==
  UNION {[lengths : [S -> {1, 8, 9, 17}], mask : {S, {Min(S)}, Lanes}] : S \in {{1}, {2, 8}, {1, 5, 7}}}
Mailboxes == [of : {"nco", "runtime"}, at : {0, 3}, arrived : 0..9]
Samples == {-8, -1, 0, 7}
Iq == UNION {[1..n -> Samples \X Samples] : n \in 1..3}

\* A request in which one channel differs from the others.
Items(c, one, others) == [k \in Lanes |-> IF k = c THEN one ELSE others]
Item(on, type, gate, start, duration) ==
  [enabled |-> on, type |-> type, gate |-> gate, start |-> start, duration |-> duration,
   amplitude |-> 1, target |-> 4500, detune |-> 0]
Ask2(mode, record, items) == [mode |-> mode, record |-> record, loop |-> FALSE, items |-> items]
Plain == [enabled |-> <<>>, start |-> <<>>, nco |-> <<>>]
Override(c) == [enabled |-> (c :> FALSE), start |-> (c :> 3), nco |-> (c :> -4500)]
Early(c) == [Plain EXCEPT !.start = (c :> -20)]
Overrides(c) == {Plain, Early(c), [Override(c) EXCEPT !.enabled = <<>>], Override(c)}

Manual ==
  UNION {[request : {Ask2("manual", r, Items(c, Item(on, t, "x_pi", s, d), Item(other, "z", "x_pi", 0, 5))) :
                       r \in {16, 17, 31, 49}, on \in BOOLEAN, other \in BOOLEAN, t \in {"sine", "burst"},
                       s \in {0, 1, 3, 16, 17, 33}, d \in {1, 3, 15, 16, 17, 31}},
          override : Overrides(c)] : c \in {1, 6, 8}}
Ezq ==
  UNION {[request : {Ask2("ezq", r, Items(c, Item(on, "xy", g, s, d), Item(other, "xy", "x_pi", 0, 50))) :
                       r \in {63, 81}, on \in BOOLEAN, other \in BOOLEAN,
                       g \in IF c <= 4 THEN Gates ELSE {"x_pi"}, s \in {0, 3, 16}, d \in {15, 48, 49}},
          override : Overrides(c)] : c \in {2, 5, 7}}

\* Settings: channels of one configuration with settings for some of them.
Channel(type, record, tail) == [type |-> type, delay |-> 16, duration |-> 20, record |-> record, tail |-> tail]
Independent ==
  {[DefaultConfig EXCEPT !.mode = mode, !.channels = (1 :> Channel(t, r, tail) @@ c :> Channel(u, 64, 0))] :
     mode \in {"manual-channels", "ezq-quantum"}, t \in {"off", "hls", "readout", "pulse", "other"},
     u \in {"off", "z"}, r \in {0, 40, 64}, tail \in {0, 8}, c \in {2, 7}}
EzqSettings ==
  {[DefaultConfig EXCEPT !.ezq = [@ EXCEPT !.mask = mask, !.record = record,
      !.ch = [c \in own |-> [default_test_ezq_config.ch[c] EXCEPT
                !.enabled = on, !.role = IF role = "own" THEN @ ELSE role, !.start = start]]]] :
     mask \in {{}, {1, 8}, Lanes}, own \in {{}, {1, 6, 7}, Lanes}, on \in BOOLEAN,
     role \in {"own", "xy", "readout"}, start \in {0, 100}, record \in {800, 1000}}
Presets ==
  {[DefaultConfig EXCEPT !.mode = m, !.preset = p, !.tail = t] :
     m \in {"sine", "burst", "pulse", "golden", "other"}, p \in {"x", "y", "z", "w"}, t \in {0, 40}}

\* Files that say one thing about some of their parts.
Nothing == [values |-> <<>>, ch |-> <<>>]
Said(keys, values) == {(k :> v) : k \in keys, v \in values}
Waveform(values, ch, ezq) == [values |-> values, ch |-> ch, ezq |-> ezq]
Parts ==
  {Waveform(v, <<>>, Nothing) : v \in Said(WaveformFields \cup {"unknown"}, {"6400M", "250M", "tiled", "null"})}
  \cup {Waveform(<<>>, (c :> d), Nothing) : c \in {1, 8},
           d \in Said(ChannelFields \cup {"unknown"}, {"burst", "iq-gaussian-sine", "off", "golden", "real"})}
  \cup {Waveform(<<>>, <<>>, [Nothing EXCEPT !.values = v]) : v \in Said(EzqFields, {"diabatic_cz", "5"})}
  \cup {Waveform(<<>>, <<>>, [Nothing EXCEPT !.ch = (3 :> d)]) : d \in Said(EzqChannelFields, {"spec", "z", "1"})}
Files ==
  [waveform : Parts, connection : {<<>>, ("ip" :> "10.0.0.1")},
   ila : {<<>>, ("artifact_dir" :> "/a"), ("output_dir" :> "/b")}]

MCInputs ==
  <<<<"response", Responses>>, <<"request", RequestKinds>>, <<"rfdc", Entries>>, <<"begin", Begins>>,
    <<"data", {0, 1, 31, 32, 33, 1376, 1408, 1424, 1440}>>, <<"waves", SomeWaves>>,
    <<"mailbox", Mailboxes>>, <<"iq", Iq>>, <<"settings", Independent>>,
    <<"settings", EzqSettings>>, <<"settings", Presets>>, <<"file", Files>>,
    <<"web", Manual>>, <<"web", Ezq>>>>

HostInit == RecordInit /\ input = NoInput
HostNext ==
  \/ RecordNext /\ input = NoInput /\ UNCHANGED input
  \/ RecordInit /\ call /\ UNCHANGED recordVars
HostSpec == HostInit /\ [][HostNext]_<<recordVars, input>>
=============================================================================
