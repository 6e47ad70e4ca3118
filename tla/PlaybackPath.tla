---------------------------- MODULE PlaybackPath ----------------------------
(***************************************************************************)
(* The playback path, waveform_playback_path.v with the shadow state and   *)
(* the FIFO reset of Top.v: two clock domains that meet only in            *)
(* synchronisers and asynchronous FIFOs.  DdrEdge(in) and DacEdge(in) are  *)
(* one rising edge of ddr_clk (300 MHz) and of dac_clk (50 MHz): between   *)
(* two DAC edges there are DDR_MIN to DDR_MAX DDR edges, in any phase.     *)
(*                                                                         *)
(* The controller is PlaybackController (its counters, which nothing in    *)
(* the path reads, are left out).  The reader is DdrReader seen from the   *)
(* FIFO: it assembles and hands over frames, drains when cancelled and     *)
(* may fail.  The eight lanes are one: a frame is generation and position. *)
(*                                                                         *)
(* External: the asynchronous FIFOs (frames, commands, descriptor records) *)
(* deliver in order, each entry within PUB_EDGES edges of dac_clk.         *)
(*                                                                         *)
(* History: disturbed says that a command or an error has emptied the FIFO *)
(* since the last prefetch was started.                                    *)
(***************************************************************************)
EXTENDS Integers, Sequences

LOCAL INSTANCE SequencesExt

CONSTANTS CountMod, Loops,    \* of PlaybackController
          Totals,             \* frames of a descriptor
          FIFO_DEPTH_BEATS, START_WATERMARK,
          FIFO_RESET_CYCLES,  \* Top.v, 16
          FIFO_RESET_GUARD_CYCLES, CDC_SETTLE_CYCLES,
          PUB_EDGES, DDR_MIN, DDR_MAX,
          MAILBOX,            \* entries of command_mem, 8
          CMD_DEPTH,          \* entries of the command FIFO, 16
          HostCommands,       \* commands the host sends in this instance
          FaultInputs,        \* {FALSE}, or BOOLEAN if reads may fail
          Pipelined,          \* TRUE if a command may follow one still crossing
          Racing              \* commands that may meet a restart in flight

ASSUME PathConstants ==
  /\ CountMod \in Nat /\ CountMod > 1 /\ Loops \subseteq 1..(CountMod - 1)
  /\ Totals # {} /\ Totals \subseteq Nat \ {0} /\ FIFO_DEPTH_BEATS \in Nat \ {0}
  /\ START_WATERMARK \in 1..FIFO_DEPTH_BEATS
  /\ FIFO_RESET_CYCLES \in Nat \ {0} /\ FIFO_RESET_GUARD_CYCLES \in Nat
  /\ CDC_SETTLE_CYCLES \in Nat \ {0} /\ PUB_EDGES \in Nat
  /\ DDR_MIN \in Nat /\ DDR_MAX \in Nat /\ DDR_MIN <= DDR_MAX /\ DDR_MAX > 0
  /\ MAILBOX \in Nat \ {0} /\ CMD_DEPTH \in Nat \ {0}
  /\ HostCommands \subseteq {"begin", "commit", "play", "pause", "stop", "abort", "status"}
  /\ FaultInputs \subseteq BOOLEAN /\ Pipelined \in BOOLEAN /\ Racing \subseteq HostCommands

\* What the timing constants of the code satisfy: a FIFO entry crosses within
\* the settle time (16 edges), a FIFO reset and the guard of a restart (16 DDR
\* edges each) outlast two DAC edges (12 DDR edges), and the watermark (768) is
\* more than the frame a cancelled read may leave in the count.
ASSUME PathTiming ==
  /\ PUB_EDGES <= CDC_SETTLE_CYCLES
  /\ DDR_MIN >= 1 /\ FIFO_RESET_CYCLES >= 2 * DDR_MAX
  /\ FIFO_RESET_GUARD_CYCLES >= FIFO_RESET_CYCLES
  /\ (\E n \in Totals : n > FIFO_DEPTH_BEATS) => START_WATERMARK > 1

VARIABLES
  \* upload writer, as the path sees it
  phase, gen, image, total, loops,
  \* reader
  rd_busy, rd_done, rd_error, rd_cancelled, rd_left, rd_held,
  \* DDR side of the path
  clear_pending, fifo_clear, restart_pending, restart_start, restart_guard,
  prefetched, prefetch_complete, prefetch_safe,
  mailbox, descriptor_pending, descriptor_accepted, dst_sync, dst_seen,
  \* Top
  reset_cnt, shadow, shadow_play, snapshot,
  \* asynchronous FIFOs
  fifo, seen, lag, cmd_fifo, desc_fifo, cmd_lag, desc_lag,
  \* DAC side
  state, play_pending, loop_restart, loop_position, loop_count, launched, passes, current,
  gen_dac, total_dac, safe_sync, error_sync, was_prefetch, settle, position, src_toggle,
  \* DDR edges since the last DAC edge
  since,
  \* history
  disturbed

writer  == <<phase, gen, image, total, loops>>
reader  == <<rd_busy, rd_done, rd_error, rd_cancelled, rd_left, rd_held>>
refill  == <<clear_pending, fifo_clear, restart_pending, restart_start, restart_guard,
             prefetched, prefetch_complete, prefetch_safe, dst_sync, dst_seen>>
command == <<mailbox, descriptor_pending, descriptor_accepted>>
top     == <<reset_cnt, shadow, shadow_play, snapshot>>
ddrSide == <<writer, reader, refill, command, reset_cnt, shadow, shadow_play>>
frames  == <<fifo, seen, lag>>
ctl     == <<state, play_pending, loop_restart, loop_position, loop_count, launched, passes,
             current>>
dacSide == <<ctl, gen_dac, total_dac, safe_sync, error_sync, was_prefetch, settle, position,
             src_toggle, cmd_lag, desc_lag>>
pathVars == <<ddrSide, snapshot, frames, cmd_fifo, desc_fifo, dacSide, since, disturbed>>

Ctl == INSTANCE PlaybackController
         WITH trigger_seen_count <- 0, trigger_dropped_count <- 0, trigger_fire_count <- 0

Cancelling == {"begin", "pause", "stop", "abort"}
\* in.go: the AXI side completes a frame, or the last owed beat of a drain.
\* Only BEGIN carries a descriptor.
DdrInputs ==
  [cmd : (HostCommands \ {"begin"}) \cup {"none"}, desc : {<<0, 0>>},
   go : BOOLEAN, fault : FaultInputs]
  \cup
  [cmd : HostCommands \cap {"begin"}, desc : Totals \X Loops,
   go : BOOLEAN, fault : FaultInputs]

-----------------------------------------------------------------------------
(* Commands the writer lets through, from its own phase, the shadow state   *)
(* and the admission level of the mailbox.                                  *)

command_ready == Len(mailbox) < MAILBOX /\ ~descriptor_pending

loop_restart_ddr == dst_sync[2] # dst_seen

\* A restart that has been or will be asked for and has not started the reader.
RestartInFlight ==
  \/ Contains(mailbox, "play") \/ Contains(cmd_fifo, "play")
  \/ loop_restart \/ src_toggle # dst_sync[1] \/ dst_sync[1] # dst_sync[2]
  \/ loop_restart_ddr \/ restart_pending \/ restart_start

\* An upload has at least one DATA packet, whose checksum takes 256 clocks:
\* by the COMMIT the BEGIN and any restart have crossed, the FIFO has been
\* reset and a cancelled read has drained.
UploadTookTime ==
  /\ mailbox = <<>> /\ cmd_fifo = <<>> /\ ~RestartInFlight
  /\ ~clear_pending /\ ~fifo_clear /\ reset_cnt = 0
  /\ ~(rd_busy /\ rd_cancelled)

\* The driver waits for the response of a command, longer than a crossing.
Crossed == mailbox = <<>> /\ cmd_fifo = <<>> /\ desc_fifo = <<>>

Admitted(cmd) ==
  /\ snapshot = "idle"
  /\ Pipelined \/ Crossed
  /\ cmd = "status" \/ command_ready
  /\ cmd = "commit" => phase = "upload" /\ shadow # "ERROR" /\ UploadTookTime
  /\ cmd = "play" => /\ phase = "committed"
                     /\ shadow \in {"READY", "PREFETCH", "WAIT_TRIGGER", "DONE"}
  /\ cmd = "pause" => phase = "committed" /\ shadow # "ERROR"
  /\ cmd = "stop" => phase = "upload" \/ (phase = "committed" /\ shadow # "ERROR")

Writer(in) ==
  /\ in.cmd # "none" => Admitted(in.cmd)
  /\ phase' = CASE in.cmd = "begin" -> "upload"
                [] in.cmd = "commit" -> "committed"
                [] in.cmd = "abort" \/ (in.cmd = "stop" /\ phase = "upload") -> "none"
                [] OTHER -> phase
  /\ gen' = IF in.cmd = "commit" THEN 3 - gen ELSE gen
  /\ image' = IF in.cmd = "begin" THEN 0 ELSE IF in.cmd = "commit" THEN 3 - gen ELSE image
  /\ total' = IF in.cmd = "begin" THEN in.desc[1] ELSE total
  /\ loops' = IF in.cmd = "begin" THEN in.desc[2] ELSE loops

-----------------------------------------------------------------------------
(* The reader, seen from the FIFO.                                          *)

fifo_ready  == reset_cnt = 0 /\ Len(fifo) < FIFO_DEPTH_BEATS
frame_fire  == rd_held # <<>> /\ fifo_ready
reader_start(in) == in.cmd = "commit" \/ restart_start

draining(in) == rd_cancelled \/ in.cmd \in Cancelling \/ rd_error \/ in.fault

assembles(in) == in.go /\ rd_left > 0 /\ ~draining(in) /\ (rd_held = <<>> \/ fifo_ready)

finishes(in) ==
  /\ rd_held = <<>>
  /\ rd_left = 0 \/ (in.go /\ (rd_cancelled \/ in.cmd \in Cancelling \/ rd_error))

\* A frame read now: image is the generation the memory holds, 0 from the
\* BEGIN of an upload to its COMMIT.
FrameTag == [gen |-> image, n |-> total + 1 - rd_left]

\* The bus answers only what a busy reader still has to read.
BusAnswers(in) == in.go \/ in.fault => rd_busy /\ rd_left > 0

StartReader(in) ==
  /\ ~rd_busy /\ reader_start(in)
  /\ rd_busy' = TRUE /\ rd_done' = FALSE /\ rd_error' = FALSE /\ rd_cancelled' = FALSE
  /\ rd_left' = total /\ rd_held' = <<>>

IdleReader(in) ==
  /\ ~rd_busy /\ ~reader_start(in)
  /\ rd_done' = FALSE
  /\ UNCHANGED <<rd_busy, rd_error, rd_cancelled, rd_left, rd_held>>

BusyReader(in) ==
  /\ rd_busy
  /\ rd_busy' = ~finishes(in)
  /\ rd_done' = (finishes(in) /\ ~draining(in))
  /\ rd_error' = (rd_error \/ in.fault)
  /\ rd_cancelled' = (rd_cancelled \/ in.cmd \in Cancelling)
  /\ rd_left' = IF finishes(in) THEN 0 ELSE IF assembles(in) THEN rd_left - 1 ELSE rd_left
  /\ rd_held' = IF assembles(in) THEN <<FrameTag>> ELSE IF fifo_ready THEN <<>> ELSE rd_held

Reader(in) == StartReader(in) \/ IdleReader(in) \/ BusyReader(in)

-----------------------------------------------------------------------------
(* FIFO clear and restart sequencing.                                       *)

Clear(in) ==
  LET now == clear_pending /\ ~rd_busy IN
  /\ fifo_clear' = now
  /\ clear_pending' = (~now /\ (clear_pending \/ in.cmd \in Cancelling \/ rd_error
                                 \/ loop_restart_ddr))
  /\ restart_guard' = IF now THEN FIFO_RESET_GUARD_CYCLES
                      ELSE IF restart_guard > 0 THEN restart_guard - 1 ELSE 0

\* Variant: a restart that meets a busy reader is forgotten.
RestartForgotten(in) ==
  LET now == restart_pending /\ ~clear_pending /\ ~rd_busy /\ ~fifo_clear /\ restart_guard = 0 IN
  /\ restart_start' = now
  /\ restart_pending' = (~now /\ ~rd_busy /\ (loop_restart_ddr
                                   \/ (restart_pending /\ in.cmd \notin Cancelling)))

Restart(in) ==
  LET now == restart_pending /\ ~clear_pending /\ ~rd_busy /\ ~fifo_clear /\ restart_guard = 0 IN
  /\ restart_start' = now
  /\ restart_pending' = (~now /\ (loop_restart_ddr
                                   \/ (restart_pending /\ in.cmd \notin Cancelling)))

\* Variant: the watermark admits every descriptor.
prefetch_target_watermark == IF total <= START_WATERMARK THEN total ELSE START_WATERMARK

prefetch_target == IF total <= FIFO_DEPTH_BEATS THEN total ELSE START_WATERMARK
level_safe == total # 0 /\ prefetched >= prefetch_target

NewPrefetch(in) ==
  in.cmd \in Cancelling \cup {"commit"} \/ loop_restart_ddr \/ restart_start

\* Variant: only a command starts a new count.
PrefetchKeepsCount(in) ==
  /\ prefetched' = IF in.cmd \in Cancelling \cup {"commit"} THEN 0
                   ELSE IF frame_fire /\ prefetched < total THEN prefetched + 1
                   ELSE prefetched
  /\ prefetch_complete' = (~rd_error /\ (rd_done \/ (prefetch_complete /\ ~NewPrefetch(in))))
  /\ prefetch_safe' = (~rd_error /\ level_safe /\ (rd_busy \/ prefetch_complete))

Prefetch(in) ==
  /\ prefetched' = IF NewPrefetch(in) \/ fifo_clear THEN 0
                   ELSE IF frame_fire /\ prefetched < total THEN prefetched + 1
                   ELSE prefetched
  /\ prefetch_complete' = (~rd_error /\ (rd_done \/ (prefetch_complete /\ ~NewPrefetch(in))))
  /\ prefetch_safe' = (~rd_error /\ level_safe /\ (rd_busy \/ prefetch_complete))

RestartSync ==
  /\ dst_sync' = <<src_toggle, dst_sync[1]>>
  /\ dst_seen' = dst_sync[2]

-----------------------------------------------------------------------------
(* Command mailbox and descriptor record.                                   *)

head_waits == Head(mailbox) = "commit" /\ ~descriptor_accepted
sends == mailbox # <<>> /\ ~head_waits /\ Len(cmd_fifo) < CMD_DEPTH

\* Variant: the record is written only when no command waits in the mailbox.
MailboxRecordGivesWay(in) ==
  LET enters == in.cmd \notin {"none", "status"} IN
  /\ mailbox' = (IF sends THEN Tail(mailbox) ELSE mailbox)
                  \o (IF enters THEN <<in.cmd>> ELSE <<>>)
  /\ cmd_fifo' = IF sends THEN Append(cmd_fifo, Head(mailbox)) ELSE cmd_fifo
  /\ descriptor_pending' = (in.cmd = "commit")
  /\ descriptor_accepted' = (descriptor_pending \/ (descriptor_accepted /\ in.cmd # "commit"))
  /\ desc_fifo' = IF descriptor_pending /\ mailbox = <<>>
                  THEN Append(desc_fifo, [gen |-> gen, total |-> total, loops |-> loops])
                  ELSE desc_fifo

Mailbox(in) ==
  LET enters == in.cmd \notin {"none", "status"} IN
  /\ mailbox' = (IF sends THEN Tail(mailbox) ELSE mailbox)
                  \o (IF enters THEN <<in.cmd>> ELSE <<>>)
  /\ cmd_fifo' = IF sends THEN Append(cmd_fifo, Head(mailbox)) ELSE cmd_fifo
  /\ descriptor_pending' = (in.cmd = "commit")
  /\ descriptor_accepted' = (descriptor_pending \/ (descriptor_accepted /\ in.cmd # "commit"))
  /\ desc_fifo' = IF descriptor_pending
                  THEN Append(desc_fifo, [gen |-> gen, total |-> total, loops |-> loops])
                  ELSE desc_fifo

-----------------------------------------------------------------------------
(* Top: the FIFO reset and the shadow of the playback state.                *)

FifoReset(in) ==
  reset_cnt' = IF in.cmd \in Cancelling \/ fifo_clear THEN FIFO_RESET_CYCLES
               ELSE IF reset_cnt > 0 THEN reset_cnt - 1 ELSE 0

ShadowOf(cmd) ==
  CASE cmd = "begin" -> "UPLOAD"
    [] cmd = "abort" -> "IDLE"
    [] cmd \in {"stop", "pause"} -> IF shadow = "UPLOAD" THEN "IDLE" ELSE "READY"
    [] cmd = "commit" -> "PREFETCH"
    [] cmd = "play" -> CASE shadow = "WAIT_TRIGGER" -> "PLAYING"
                         [] shadow \in {"READY", "DONE"} -> "PREFETCH"
                         [] OTHER -> shadow
    [] OTHER -> IF shadow = "PREFETCH" /\ prefetch_safe
                THEN IF shadow_play THEN "PLAYING" ELSE "WAIT_TRIGGER"
                ELSE shadow

Shadow(in) ==
  /\ shadow' = CASE rd_error -> "ERROR"
                 [] ~rd_error /\ snapshot \in Ctl!States -> snapshot
                 [] OTHER -> ShadowOf(in.cmd)
  /\ shadow_play' = (~rd_error /\ (in.cmd = "play"
                       \/ (shadow_play /\ in.cmd \in {"none", "status"}
                             /\ ~(shadow = "PREFETCH" /\ prefetch_safe))))
  /\ snapshot' = IF in.cmd = "status" THEN "asked"
                 ELSE IF snapshot \in Ctl!States THEN "idle" ELSE snapshot

-----------------------------------------------------------------------------
(* One edge of ddr_clk.                                                     *)

Write ==
  /\ fifo' = IF reset_cnt > 0 THEN <<>> ELSE IF frame_fire THEN fifo \o rd_held ELSE fifo
  /\ seen' = IF reset_cnt > 0 THEN 0 ELSE seen
  /\ lag' = IF reset_cnt > 0 \/ frame_fire THEN 0 ELSE lag

DdrEdge(in) ==
  /\ since < DDR_MAX /\ since' = since + 1
  /\ BusAnswers(in)
  /\ Writer(in) /\ Reader(in) /\ Clear(in) /\ Restart(in) /\ Prefetch(in) /\ RestartSync
  /\ Mailbox(in) /\ FifoReset(in) /\ Shadow(in) /\ Write
  /\ disturbed' = (in.cmd \in Cancelling \/ rd_error \/ (disturbed /\ ~NewPrefetch(in)))
  /\ UNCHANGED dacSide

-----------------------------------------------------------------------------
(* One edge of dac_clk.  in.take and in.rec say what the FIFOs show.        *)

DacInputs == [take : BOOLEAN, rec : BOOLEAN, trigger : BOOLEAN, ready : BOOLEAN,
              shown : 0..FIFO_DEPTH_BEATS]

taken(in) == IF in.take THEN Head(cmd_fifo) ELSE "none"

playing == state = "PLAYING"
enabled == total_dac # 0
active == playing /\ position < total_dac /\ enabled

\* A trigger passes only in WAIT_TRIGGER; ready matters only to an active stream.
Shows(in) ==
  /\ in.take => cmd_fifo # <<>>
  /\ in.rec => desc_fifo # <<>>
  /\ cmd_fifo # <<>> /\ cmd_lag = PUB_EDGES => in.take
  /\ desc_fifo # <<>> /\ desc_lag = PUB_EDGES => in.rec
  /\ in.trigger => state = "WAIT_TRIGGER"
  /\ in.ready => active

beat_fire(in) == active /\ seen > 0 /\ in.ready
underflow == active /\ seen = 0
lanes_published == seen > 0 \/ ~enabled
any_fifo_empty == seen = 0 /\ enabled

fifo_published == settle >= CDC_SETTLE_CYCLES

prefetch_done == safe_sync[2] /\ fifo_published /\ was_prefetch

ControllerInput(in) ==
  [cmd |-> taken(in), trigger_event |-> in.trigger, prefetch_done |-> prefetch_done,
   fifo_safe |-> safe_sync[2], fifo_empty |-> underflow \/ any_fifo_empty,
   axi_error |-> error_sync[2], beat |-> beat_fire(in), beat_last |-> position + 1 = total_dac,
   record |-> IF in.rec THEN Head(desc_fifo).loops ELSE 0]

Controller(in) ==
  /\ Ctl!TakeDescriptor(ControllerInput(in)) /\ Ctl!Transition(ControllerInput(in))
  /\ src_toggle' = (src_toggle # loop_restart)

Descriptor(in) ==
  /\ gen_dac' = IF in.rec THEN Head(desc_fifo).gen ELSE gen_dac
  /\ total_dac' = IF taken(in) = "abort" THEN 0
                  ELSE IF in.rec THEN Head(desc_fifo).total ELSE total_dac
  /\ desc_fifo' = IF in.rec THEN Tail(desc_fifo) ELSE desc_fifo
  /\ cmd_fifo' = IF in.take THEN Tail(cmd_fifo) ELSE cmd_fifo
  /\ cmd_lag' = IF in.take \/ cmd_fifo = <<>> THEN 0 ELSE cmd_lag + 1
  /\ desc_lag' = IF in.rec \/ desc_fifo = <<>> THEN 0 ELSE desc_lag + 1

Settle ==
  /\ safe_sync' = <<prefetch_safe, safe_sync[1]>>
  /\ error_sync' = <<rd_error, error_sync[1]>>
  /\ was_prefetch' = (state = "PREFETCH")
  /\ settle' = IF (state = "PREFETCH" /\ ~was_prefetch) \/ ~safe_sync[2] \/ ~lanes_published
               THEN 0
               ELSE IF settle < CDC_SETTLE_CYCLES THEN settle + 1 ELSE settle

stream_clear(in) ==
  taken(in) \in Cancelling \/ loop_restart \/ state = "PREFETCH"

\* Variant: the FIFO is read without waiting for the DAC's ready.
StreamIgnoresReady(in) ==
  LET pop == IF active /\ seen > 0 THEN 1 ELSE 0 IN
  /\ position' = IF stream_clear(in) THEN 0
                 ELSE IF beat_fire(in) THEN position + 1 ELSE position
  /\ fifo' = IF pop = 1 THEN Tail(fifo) ELSE fifo
  /\ in.shown \in (seen - pop)..Len(fifo')
  /\ lag = PUB_EDGES => in.shown = Len(fifo')
  /\ seen' = in.shown
  /\ lag' = IF in.shown = Len(fifo') THEN 0 ELSE lag + 1

Stream(in) ==
  LET pop == IF beat_fire(in) THEN 1 ELSE 0 IN
  /\ position' = IF stream_clear(in) THEN 0 ELSE position + pop
  /\ fifo' = IF beat_fire(in) THEN Tail(fifo) ELSE fifo
  /\ in.shown \in (seen - pop)..Len(fifo')
  /\ lag = PUB_EDGES => in.shown = Len(fifo')
  /\ seen' = in.shown
  /\ lag' = IF in.shown = Len(fifo') THEN 0 ELSE lag + 1

DacEdge(in) ==
  /\ since >= DDR_MIN /\ since' = 0
  /\ Shows(in)
  /\ Controller(in) /\ Descriptor(in) /\ Settle /\ Stream(in)
  /\ snapshot' = IF snapshot = "asked" THEN state ELSE snapshot
  /\ UNCHANGED <<ddrSide, disturbed>>

-----------------------------------------------------------------------------
Init ==
  /\ phase = "none" /\ gen = 1 /\ image = 0 /\ total = 0 /\ loops = 0
  /\ rd_busy = FALSE /\ rd_done = FALSE /\ rd_error = FALSE /\ rd_cancelled = FALSE
  /\ rd_left = 0 /\ rd_held = <<>>
  /\ clear_pending = FALSE /\ fifo_clear = FALSE /\ restart_pending = FALSE
  /\ restart_start = FALSE /\ restart_guard = 0
  /\ prefetched = 0 /\ prefetch_complete = FALSE /\ prefetch_safe = FALSE
  /\ mailbox = <<>> /\ descriptor_pending = FALSE /\ descriptor_accepted = FALSE
  /\ dst_sync = <<FALSE, FALSE>> /\ dst_seen = FALSE /\ src_toggle = FALSE
  /\ reset_cnt = 0 /\ shadow = "IDLE" /\ shadow_play = FALSE /\ snapshot = "idle"
  /\ fifo = <<>> /\ seen = 0 /\ lag = 0 /\ cmd_fifo = <<>> /\ desc_fifo = <<>>
  /\ cmd_lag = 0 /\ desc_lag = 0
  /\ state = "IDLE" /\ play_pending = FALSE /\ loop_restart = FALSE /\ loop_position = 0
  /\ loop_count = 0 /\ launched = FALSE /\ passes = 0 /\ current = FALSE
  /\ gen_dac = 0 /\ total_dac = 0 /\ position = 0
  /\ safe_sync = <<FALSE, FALSE>> /\ error_sync = <<FALSE, FALSE>>
  /\ was_prefetch = FALSE /\ settle = 0
  /\ since = 0 /\ disturbed = FALSE

DdrClock == \E in \in DdrInputs : DdrEdge(in)
DacClock == \E in \in DacInputs : DacEdge(in)

Crossing(cmds) == \E c \in cmds : Contains(mailbox, c) \/ Contains(cmd_fifo, c)

MeetsRestart == Crossing(Cancelling \ Racing)' /\ (RestartInFlight \/ RestartInFlight')

Next == (DdrClock \/ DacClock) /\ ~MeetsRestart

Spec == Init /\ [][Next]_pathVars

\* The clocks run, and DDR keeps answering a busy reader.
ReaderProgress == rd_busy /\ \E in \in DdrInputs : in.go /\ ~in.fault /\ DdrEdge(in)

FairSpec == Spec /\ WF_pathVars(Next) /\ SF_pathVars(ReaderProgress /\ Next)

-----------------------------------------------------------------------------
Frames == [gen : 0..2, n : Int]
Waiting == Cancelling \cup {"commit", "play"}

TypeOK ==
  /\ phase \in {"none", "upload", "committed"} /\ gen \in 1..2 /\ image \in 0..2
  /\ total \in Totals \cup {0} /\ loops \in Loops \cup {0}
  /\ {rd_busy, rd_done, rd_error, rd_cancelled} \subseteq BOOLEAN
  /\ (\E t \in Totals : rd_left \in 0..t) /\ rd_held \in Seq(Frames) /\ Len(rd_held) <= 1
  /\ {clear_pending, fifo_clear, restart_pending, restart_start} \subseteq BOOLEAN
  /\ restart_guard \in 0..FIFO_RESET_GUARD_CYCLES /\ (\E t \in Totals : prefetched \in 0..t)
  /\ {prefetch_complete, prefetch_safe} \subseteq BOOLEAN
  /\ mailbox \in Seq(Waiting) /\ Len(mailbox) <= MAILBOX
  /\ {descriptor_pending, descriptor_accepted, dst_seen, src_toggle} \subseteq BOOLEAN
  /\ {dst_sync, safe_sync, error_sync} \subseteq BOOLEAN \X BOOLEAN
  /\ reset_cnt \in 0..FIFO_RESET_CYCLES /\ shadow \in Ctl!States /\ shadow_play \in BOOLEAN
  /\ snapshot \in Ctl!States \cup {"idle", "asked"}
  /\ fifo \in Seq(Frames) /\ Len(fifo) <= FIFO_DEPTH_BEATS /\ seen \in 0..Len(fifo)
  /\ {lag, cmd_lag, desc_lag} \subseteq 0..PUB_EDGES /\ since \in 0..DDR_MAX
  /\ cmd_fifo \in Seq(Waiting) /\ Len(cmd_fifo) <= CMD_DEPTH
  /\ desc_fifo \in Seq([gen : 1..2, total : Totals, loops : Loops]) /\ Len(desc_fifo) <= 1
  /\ state \in Ctl!States /\ {play_pending, loop_restart, launched, current} \subseteq BOOLEAN
  /\ {loop_position, loop_count} \subseteq 0..(CountMod - 1) /\ passes \in 0..CountMod
  /\ gen_dac \in 0..2 /\ total_dac \in Totals \cup {0} /\ position \in 0..total_dac
  /\ was_prefetch \in BOOLEAN /\ settle \in 0..CDC_SETTLE_CYCLES /\ disturbed \in BOOLEAN

\* The beat the DAC is about to take is the next beat of the committed
\* waveform, in every pass, after every stop, pause, replay and replacement.
PlayedInOrder ==
  active /\ seen > 0 => fifo[1] = [gen |-> gen_dac, n |-> position + 1]

\* The environment PlaybackController assumes: a record arrives once for an
\* upload, and prefetch_done is not seen before it.
ControllerFed ==
  /\ desc_fifo # <<>> => ~current
  /\ state = "PREFETCH" /\ prefetch_done => current

\* The DAC side of the path implements the controller: whatever the FIFOs and
\* the synchronisers deliver, each edge is one that its specification allows.
ImplementsController == Ctl!AdmissionSpec

\* A descriptor that fits the FIFO never underflows: while it plays, and no
\* command or read error has emptied the FIFO, a beat is always published.
FitsNeverUnderflows ==
  total_dac <= FIFO_DEPTH_BEATS /\ ~disturbed => ~underflow

\* When PREFETCH may end, the count of accepted frames that admitted it is
\* the write-side level of the FIFO: nothing of an earlier pass, waveform or
\* upload is in front.
PrefetchLevelExact ==
  state = "PREFETCH" /\ prefetch_done /\ ~disturbed => Len(fifo) = prefetched

\* PREFETCH ends: a COMMIT, a PLAY of a stopped waveform and every further pass
\* get their frames, or a later command or a read error ends the wait.
PrefetchEnds == state = "PREFETCH" ~> state # "PREFETCH"

\* The step is a DAC edge that takes a command of cmds from the FIFO.
Takes(cmds) == cmd_fifo # <<>> /\ Head(cmd_fifo) \in cmds /\ cmd_fifo' = Tail(cmd_fifo)

\* STOP and PAUSE leave the path ready to play again.
StopReturnsReady ==
  [][Takes({"stop", "pause"}) => state' \in {"READY", "IDLE"}]_pathVars
=============================================================================
