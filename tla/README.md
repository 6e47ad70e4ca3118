# Verification of the XCZU47DR waveform playback system

TLA+ specifications, TLC runs and TLAPS proofs for the waveform playback
hardware and the host software of this repository. Paths are relative to `src/`;
RTL files without a directory are in `hardware/vivado/src/`, Python files
without one in `software/`.

## 1. The system and its parts

Users of a web application, a GUI or a command line describe waveforms. The host
generates the samples of eight channels, lays them out in one image and uploads
it over UDP to a board. The board stores the image in DDR4, prefetches it into
per-channel FIFOs and plays it on the DACs, on a software PLAY or on an external
trigger.

```
 web application: users, leases, runs, tests, inventory   (webapp/*.py, SQLite)
   |  threads, one control lock per board
   v
 waveform generation -> image layout -> packets           (waveform_model.py, host.py, dr47)
   |  UDP: RFWAVE v2 (waveforms), RFCTRL2 (settings, network), retried on a timeout
   v
 upload writer --AXI--> DDR --AXI--> DDR readers --> FIFOs --> DAC stream --> DAC
   |   ^                               ^   ^                      ^
   |   | response                      |   | cancel/start         | gate
   |   +--- Top shadow state <--- status CDC <--- playback controller
   +------- command CDC, descriptor CDC --------------^   ^
                                            pad trigger --+ trigger CDC
```

The left part of the board runs on the DDR clock, the controller and the stream
on the DAC clock. Every arrow that crosses the two is a synchroniser or a mailbox.

| Component | State | Operations | What makes it correct |
|---|---|---|---|
| Playback controller (`waveform_playback_controller.v`) | 9-state FSM, pending PLAY, loop position, trigger counters | BEGIN, COMMIT, PLAY, PAUSE, STOP, ABORT, trigger, fault, last beat | the gate opens only for a launch; a run is exactly `loop_count` passes; each trigger is counted once |
| DDR reader (`waveform_ddr_reader.v`) | addresses, outstanding bursts, reserved FIFO space, error | start, cancel, AR, R, watchdog | requests are covered by space; quiescent before it reports done |
| Playback path (`waveform_playback_path.v`, `Top.v`) | command mailbox, FIFO clear and restart sequencing, settle guard, shadow state | DDR and DAC edges | stale data is never played; a restarted pass is prefetched from the beginning |
| Status and trigger crossings (`waveform_status_cdc.v`, `waveform_trigger_cdc.v`) | toggles, synchroniser stages, held record; latch, quiet counters | request, acknowledge; capture, arm, admit | a snapshot is one state; a pad edge counts once and only in the window it arrived in |
| Upload writer (`waveform_upload_writer.v`) | session, expected sequence, descriptor, AXI write state | BEGIN, DATA, COMMIT, PLAY, PAUSE, STOP, ABORT, STATUS | with loss, duplication and retries a committed image is the uploaded one; a command takes effect once |
| Run-time control (`pl_riscv_control_v1.v`, `rfdc_runtime_config_pl.v`, `network_config_pl.v`) | staged and active settings | get, set, apply, restart | what it latches is what was packed; only valid settings become active |
| Host driver (`dr47/`) | sequence numbers, socket, pending settings | request with retries, upload, play, apply, provision | an answer is matched to its request; success means it happened |
| Image layout and waveform generation (`host.py`, `waveform_tools.py`, `waveform_model.py`, `webapp/waveforms.py`) | none (pure functions), a settings file | interleave, tile, place, plan, load, save | each converter plays what was asked of it |
| Maximum-length records (`host.py`, `send_waveform_udp.py`) | cache files, the upload under way | generate, cache, upload, play | a cache file is whole, a committed record complete |
| Runs (`webapp/controller.py`, `store.py`) | run rows, claims, worker threads | create, arm, play, abort, recover | one owner of a board; nothing is left behind |
| Board network (`webapp/management.py`, `dr47/network.py`) | inventory rows, staged addresses | scan, refresh, apply, restart, provision | distinct addresses, true claims |
| RFDC settings (`webapp/rfdc.py`) | stored and actual settings, revision | get, apply | the store is never better than the board |
| Tests (`webapp/performance.py`, `max_length.py`) | tests, points, loaded run, stop events | start, pause, execute, measure, abort | completed means covered; what plays can be stopped |
| Access (`webapp/management.py`, `main.py`, `hardware_services.py`) | users, sessions, leases, run owners, jobs | login, lease, release, control, program | control needs the lease |

### The behaviours that are hard

* **Two clocks.** A command acts in the DDR domain at once (it cancels the
  reader, resets the FIFO, drops `prefetch_safe`) and reaches the controller in
  the DAC domain later, through a mailbox and an asynchronous FIFO. In the other
  direction a loop restart crosses through a toggle synchroniser. Any command
  can meet any restart in flight.
* **Draining.** A read that is cancelled, fails or times out still owes beats;
  nothing may be reset or restarted before they have come back.
* **Stale values.** The reader's credit, the prefetch-safe flag, the settle
  counter and the shadow of the playback state are used some clocks after they
  were computed. In the web application what a handler has checked may have
  changed when it acts.
* **An unreliable network.** Requests and answers are lost, repeated and
  retried; the engine drops every packet that arrives while it is busy.
* **Late writes.** A write that timed out on the bus may still reach DDR.
* **Threads without a common lock.** Workers, request handlers and restarts of
  the server meet in SQLite rows and dictionaries; a lock protects one call on
  one board, never a whole operation.
* **Crashes.** A killed server leaves rows that say "in progress"; a killed
  upload leaves temporary files and half an image.

The hazards of `PROJECT.json` list them one by one, with their lines and the
properties that cover them.

## 2. Modules

| Module | Models | Composes |
|---|---|---|
| `PlaybackController` | the admission controller and the descriptor register that feeds it | |
| `StatusCdc`, `TriggerCdc` | the two crossings of the controller's domain | |
| `DdrReader` | the reader with one FIFO, its reset and the credit pipeline | |
| `PlaybackPath` | `waveform_playback_path.v`, the FIFO reset and the shadow state of `Top.v`, the DAC stream | instantiates `PlaybackController` |
| `UploadWriter` | the writer, the response serializer, the request loop of `dr47`, network and DDR | |
| `WebRuns` | runs, claims, store, recovery | boards external |
| `BoardNetwork` | inventory and network identity of boards | RFCTRL2 of the boards external |
| `TestSessions` | performance and max-length tests | `WebRuns`' part external |
| `RfdcControl` | converter settings through web application and library | |
| `Access` | users, sessions, leases, owners, programming jobs | |
| `MaxLength` | maximum-length records | |
| `WireFormats` | every datagram as a layout of bits, on both ends | |
| `DdrLayout`, `WaveformPlan`, `GuiSettings` | layout, generation, settings file | `WaveformPlan` extends `DdrLayout` |
| `HostLibrary` | one call of a pure function and what two sides make of it | extends the three above and `WireFormats` |
| `PlaybackControllerProofs` | theorems about the controller, the two crossings and the reader | extends the four |
| `PlaybackPathProofs` | theorems about the path with its two clocks | extends `PlaybackPath` |
| `UploadWriterProofs` | theorems about the writer, the maximum-length records and the pure functions | extends the three |
| `AccessProofs`, `WebRunsProofs`, `TestSessionsProofs`, `RfdcControlProofs`, `BoardNetworkProofs` | theorems | extend the component |
| `MC...` | constants for TLC; `MCPlaybackController` also puts the crossings and the reader beside the controller, `MCHost` the pure functions beside `MaxLength` | extend the component |

In the modules of hardware a step is one clock edge: every register of the
clock's domain moves at once, and the input wires of that edge are a record `in`
chosen freely. In the modules of software a step is what the code does
atomically: one SQLite transaction, one access to a shared dictionary, one call
on a board under its control lock, one datagram. Bounds are constants
(`MaxCalls`, `MaxFaults`, ...) that occur in guards only. Definitions whose
comment begins with "Variant" are plausible wrong forms of the definition that
follows them; no specification uses them, `PROJECT.json` names for each the
property that rejects it.

### PlaybackController

`state`, `play_pending`, `loop_restart`, `loop_position` and the three trigger
counters are the registers of the same names. `Transition` is the `if` chain:
`Abort`, `Fault`, `Begin`, `StopUpload`, `StopOrPause` and, when none of them
takes the edge (`CaseEdge`), one disjunct per state of the `case`.
`CountTrigger` runs on every edge beside it. `CountMod` is the modulus of the
32-bit counters. `launched`, `passes` and `current` are history: was the run
launched, how many of its passes have ended, does `loop_count` belong to the
last upload.

`Feed` is the one assumption about the environment: a descriptor record arrives
once per upload, and PREFETCH does not see `prefetch_done` before it. (On the
edge after PREFETCH `prefetch_done` may still be high; nothing reads it then.)
`AdmissionSpec` is the specification without the trigger counters. That the path
really feeds the controller this way, and moves as it does, is the refinement
`ImplementsController` of `PlaybackPath`.

### StatusCdc and TriggerCdc

Here synchronizers are modelled as what they are: a flop that samples a signal
that has changed since its own last edge takes the old or the new value, for a
word each bit on its own. `StatusCdc` has an edge of either clock in any order
and ratio; `SnapshotCoherent` says that the word handed to the DDR side is a
record the DAC domain had after the request, never a mixture. `TriggerCdc` has a
pad that rises and falls at any moment, also for less than a clock; the history
tags every rise with the window it met. `PlaybackPath` uses what these two
promise. A reset of one side of the status bridge alone is not modelled: after a
DAC-only reset the first snapshot may be stale.

### DdrReader

One `Clock(in)` is one edge: `Start`, `BadStart`, `Idle` or `Busy`, together
with `Fifo`. The addresses are reduced to the frame number inside a 4 KiB page,
the bursts in flight to the queue of their lengths. The AXI slave is external:
it returns beats of the oldest burst, may answer with an error, end a burst too
early or too late, accept nothing or fall silent. A cancelling command resets
the FIFO for `FIFO_RESET_CYCLES`, whatever the reader is doing, and a FIFO in
reset takes nothing, as in `Top.v`. `delivered` is history.

### PlaybackPath

`DdrEdge(in)` and `DacEdge(in)` are the edges of the two clocks. Between two DAC
edges there are `DDR_MIN` to `DDR_MAX` DDR edges, in any phase. The DDR side
holds the writer's admission (`Admitted`, reduced to phase, generation and
descriptor), the reader as the FIFO sees it, clear and restart sequencing, the
prefetch count, the mailbox with the descriptor record, the FIFO reset and the
shadow state. The DAC side holds the controller, which is the module
`PlaybackController` itself with its counters left out, the descriptor
registers, the settle counter, the synchronisers and the stream. A frame in the
FIFO is a record of generation and position, so that "the right data" can be
stated. `disturbed` is history.

The asynchronous FIFOs are external. They deliver in order; an entry becomes
visible in the DAC domain after a free number of DAC edges up to `PUB_EDGES`.
Assumptions about the environment, each an operator or a constant:

* `UploadTookTime`: between BEGIN and COMMIT there is at least one DATA packet,
  whose checksum alone takes 256 clocks, so the BEGIN has crossed and the reset
  of the FIFO is over at the COMMIT.
* `Pipelined = FALSE` (`Crossed`): the driver waits for the answer of a command
  before it sends the next, and the round trip is longer than a crossing. The
  run `path` does without it.
* `Racing`: the commands that may be accepted while a restart is still
  crossing. A restart takes some 100 ns to cross; `path` admits STOP, the other
  runs leave such commands out (section 3 says what they do).
* `PathTiming`: the four relations between constants that the code's numbers
  satisfy and that the arguments of section 6 use. A FIFO entry crosses within the
  settle window of 16 DAC edges; there is a DDR edge between two DAC edges; the
  FIFO reset and the guard of a restart, 16 DDR edges each, outlast two DAC edges
  (12 DDR edges); and, if some waveform does not fit the FIFO, the watermark (768) is
  more than the one frame that a cancelled read may leave in the count.

### UploadWriter

A packet is a record; the engine parses it (`Receive`), decides (`FinalBegin`,
`FinalData`, ...), checks the checksum, writes word by word, and answers
(`Emit`, `SendResponse`). The host sends one request at a time with a fresh
sequence number and repeats the same packet when no answer comes. The network
keeps order but loses, repeats and corrupts. The AXI slave stores the word at
some moment before it answers, also after the timeout. The playback state the
engine looks at is free: `SAFE` (PLAY is admitted), `ERROR` or `OTHER`.
`owner`, `executed` and `effects` are history. Malformed packets (wrong magic,
length, mask, alignment) are refused without effect; the limits are in
`WireFormats`.

### WebRuns

A thread is the worker of a run (`_execute`), the thread of an API call or the
recovery at start-up, with the method it runs, its program counter and the index
of the board a loop has reached. A board call may fail, and PLAY and STOP may
take effect although the answer is lost. `crash` kills every thread and claim
and keeps the rows; `recover_orphaned` is what the next start does. A board holds
the set of runs whose data is in its DDR, so that "its own image" can be stated.

### BoardNetwork

Four operations give boards their address: the scan, the recovery in `refresh`,
the administrator's apply and restart, and `provision_board`. Each step is a
NETWORK_GET, APPLY or RESTART that may be lost before or after its effect, or a
transaction on the inventory. Boards are unplugged, replugged, reset and
playing (then they refuse APPLY). An operation begins with a refresh of its row;
the refreshes that the gateway makes later inside the same operation are the
independent refreshes of another thread.

`solo` and `raced` are history. `solo[t]` says that nothing else has happened
since thread t began its operation. `raced` is set when a thread writes the
inventory while it is not alone or while several boards share the link, when a
row takes the identity of another board, when a board that wants an address out
of the pool keeps the one it was last seen at (`Adopted`), and when an
administrator enables a row or chooses a pool address. Section 3 says what
happens then. A board's known address is that of the row
seen last (`Latest`; of several, any may be it). An APPLY or RESTART that the
board refuses raises in the driver (`device.py:208-230`), so the row of an
administrator's refused apply stays "pending": the branches that would mark it
failed (`webapp/main.py:614-622`) are not reached.

### TestSessions

The two services with their workers. No lock protects their dictionaries, so each
access is a step of its own and two handlers or workers can be anywhere in the
same method: popping a remembered run and stopping it are two steps (`abort_pop`
and `abort_mute`, `unload` and `unload_mute`), stopping one and forgetting it too
(`settled`, `forget`), and a measurement is three transactions, the point, the
look at all points and the test (`record_measurement`, `measured`, `complete`).
`covered` and `manual` are history.

### RfdcControl

`UdpTransport.request` with its retransmissions, sequence numbers and answers
that come late, below both users of it: `RfdcService` (a socket per call, a
store) and the library object (one socket in which late answers stay; one of the
other protocol is an error, `protocol.py:333`, `:534`). A board that plays
refuses; the driver then aborts and repeats.

The board is `rfdc_runtime_config_pl.v`. An application makes its channels
invalid (l.507), writes them one by one and makes them valid again as a whole
(l.878): `Committed`, or `Broken` after some registers were written. A refused
one leaves its revision (`Refused`). A request with the number and the revision
of the last one that ended is answered from the cache (`repeat_apply`); a refusal
empties the cache. An application is one step: it is shorter than the time-out of
a receive, and the board takes no packet meanwhile. A probe of the tiles makes
the board busy. `alone`, `overlap` and `good` are history.

### Access

Handlers check in one transaction and act in a later one, with the user and role
that were read when the request was admitted. `held` is history: the boards the
user had leased at some moment of the request.

### MaxLength

Processes share the cache directory. A record is generated in chunks, written to
a temporary file, renamed, opened again, and uploaded by one of three ways:
`upload_interleaved_chunks` from the command line, `run_extreme_playback` of the
GUI, or raw datagrams. A process may be killed at every step. The sizes keep the
order the code gives them: a datagram is shorter than a marker, a chunk of the
cache or of the command line (8192 beats) longer than one (512). Each chunk
carries its offset in the unit its caller passes on (`ChunkOffset`).

### The pure functions: WireFormats, DdrLayout, WaveformPlan, GuiSettings

A datagram is a set of fields with bit positions, written down from each of its
descriptions (`host.py`, `dr47/protocol.py`, the Verilog); whether the ends agree
does not depend on the values. A sample is a number that says whose sample it is
and which one, so that a converter that plays the wrong one is seen. A pulse is
the sequence of its sample numbers; sines and envelopes are data. Times are in
half samples so that rounding is visible. `HostLibrary!call` chooses an input
and the properties compare two independent definitions of what should come out.

## 3. What the runs check

| Run | Checks | Shows |
|---|---|---|
| `controller` | `GateNeedsLaunch`, `RunIsLoopCountPasses`, `TriggersAccounted`; `SnapshotCoherent`, `StatusAnswered`; `EachEdgeOnce`, `WindowDecides`; `QuiescentWhenIdle`, `RequestsCovered`, `DoneMeansDelivered`, `CancelQuiesces` | four blocks, one at a time (`block`): under every sequence of inputs the gate opens only for a launch, a run is exactly `loop_count` passes, every trigger is counted once, also across the wrap, and as fired only when it launches; a status snapshot is one state and is always answered; a pad edge acts once and only in its window; the reader's bookkeeping and bounds hold with a slave that misbehaves and a credit that is late, and a cancelled read ends, even with a full FIFO that nobody reads |
| `upload` | `UploadIsWhole`, `ActsAsAnswered`, `EngineReturns` | a committed waveform is the uploaded one, word for word; retries and duplicates act once and an OK is true; the engine is never stuck |
| `path` | `PlayedInOrder`, `FitsNeverUnderflows` | with commands pipelined and a STOP racing a restart, the DAC takes the committed beats in order, in both passes, and does not underflow |
| `path_prefetch` | `ImplementsController`, `PrefetchLevelExact`, `PrefetchEnds` | for a waveform larger than the FIFO, with read errors, PAUSE and STATUS: the DAC side implements the controller, what ends PREFETCH is true, and every prefetch ends |
| `path_stop` | `StopReturnsReady` (violated) | see below |
| `web_runs` | `WorkerOwnsBoards`, `NothingStranded`, `PlaysOwnImage` | boards are owned by one worker, come back after any failure and restart, and play the image of the run that started them |
| `network` | `DistinctIps`, `AppliedIsTrue`, `VerifiedMeansOwn` | which addresses are handed out and which claims about a board are true |
| `tests` | `CompletedMeansCovered`, `PlayingIsRemembered`, `RunningHasThread` | completed tests are covered, a playing board can be stopped, no point stays RUNNING |
| `rfdc` | `StoreIsTrue`, `ReturnMeansApplied` | what the store calls applied is what the board has, and a library call that returns has set the converters, whatever is lost, late or breaks off |
| `access` | `OneHolder`, `ControlHeldLease`, `LeaseEndsByRight` | what is exclusive has one holder; control of a board needs its lease; a lease ends by its holder or an administrator |
| `host` | `CacheIsWhole`, `UploadIsRecord`; `EndsAgree`, `ImageIsWaves`, `DacPlaysRequest`, `PlanIsRequest`, `SettingsSettle` | cache and upload with two processes that are killed, in chunks shorter and longer than a marker; the two ends of every datagram, a request and what the converters play, a settings file written and read |
| `host_marker` | `MarkersKept` (violated) | see below |

Several of these are conjunctions of named parts that are one idea; each part
has a variant of its own that breaks it. Each module states the type of its
state as `TypeOK`. It is a theorem, or part of a proved inductive invariant, for
every module of section 6; the others hold in the same runs and can be added to
the configurations.

### Disagreement between the code and what is said of it

Two runs expect a violation; they are the findings in `PROJECT.json`.

`path_stop`: STOP or PAUSE of an armed or playing waveform ends in ERROR: the FIFO
is emptied before the controller hears of the STOP. The documents promise READY.

`host_marker`: the generator shortens a chunk until its last beat is in the region
of its first and then repeats one beat (`host.py:1270-1291`). A chunk that begins
and ends in the body swallows a middle marker between. This is the case of the
cache and of the command line with the code's own numbers; the test of the
markers uses chunks of four beats.

### Observations

What the models show, or show when an assumption is dropped.

Board:

* The answer to a STOP of an upload or to an ABORT is lost; the retransmission is
  refused (`waveform_upload_writer.v:423-425`, `:448`), although the driver relies
  on repeating the same packet.
* A restart that is still crossing when STOP is accepted starts the cancelled
  reader again (`waveform_playback_path.v:147`); with a descriptor larger than the
  FIFO it fills the FIFO, never ends, and the next PLAY waits for it for ever.
  With a BEGIN in place of the STOP the frames of the old waveform are played.
* A read error survives ABORT (`waveform_ddr_reader.v:113`), and everything that
  would start the reader again is refused while it stands.
* A BEGIN that replaces an armed waveform empties the FIFO as a STOP does; when
  the fault this causes reaches the controller on the edge that takes the BEGIN,
  the fault wins (`waveform_playback_controller.v:85` before `:88`) and the COMMIT
  that follows is acknowledged to the host and ignored in ERROR.
* A reservation is returned when a frame is handed over, but the credit that
  shows the frame is five registers late, so in between the reader asks for the
  same space twice: by at most one frame per register (`CreditSafe`), and TLC
  reaches the bound. `Top.v:2483-2485` calls the late credit conservative. The
  FIFO's ready prevents a loss; the cost is back-pressure on the shared bus.
* `waveform_ddr_reader.v:62-63` says that the FIFO is not reset while the reader
  is busy; `Top.v:2643` resets it on the command itself. The models follow
  `Top.v`; `CancelQuiesces` even depends on it.
* `docs/API参考.md:203-206` describes a counter of dropped triggers;
  `waveform_playback_path.v:432-437` lets a pad trigger through only in
  WAIT_TRIGGER, so most dropped pad triggers are never counted.
* The comment at `waveform_playback_path.v:241` says the COMMIT waits until the
  record has crossed; the code waits until it was written to its FIFO. The
  settle window makes this harmless (theorem `ControllerIsFed`).

Web application:

* A dry run still synchronises boards and applies converter settings
  (`webapp/controller.py:1338-1349`); an abort does not stop the worker, whose
  last write replaces ABORTED; a crash leaves a board playing.
* A row that was disabled and is enabled again may come back with an address in
  use. A refresh at the shared bootstrap address stores whichever board answered.
  A lost answer to RESTART leaves "failed" although the board has moved.
* A known board whose row wants an address outside the pool is given the pool
  address it was last seen at, without a look at the addresses in use
  (`webapp/management.py:571-575` comes before `used`): another board may have
  been given it since. The proof of `DistinctIps` found this, the bounds of the run
  are too small for it (`Adopted`).
* A finishing worker overwrites PAUSED and ABORTED with COMPLETED; two starts, or
  a pause and a start, can give one test two workers; tests in progress are not
  recovered at a restart.
* Overlapping applies of converter settings get the same revision, and a read
  that overlaps one stores the old request beside the new values; `StoreIsTrue`
  holds again only after a call that was alone.
* An apply of converter settings that breaks off stores the valid channels as they
  were before it (`webapp/rfdc.py:118`, `:151-152`), while the board cleared them
  when it accepted the request (`rfdc_runtime_config_pl.v:507`). Until the next
  apply or refresh that succeeds, the page shows as "PL 回读" (read back from the
  PL) channels that the board holds invalid. `StoreIsTrue` is about a store that
  says applied.
* Every live upload makes a new `Dr47Device`, which numbers its first session 1
  (`dr47/device.py:150`), so with live boards the session that is to keep an action
  from another waveform (`webapp/controller.py:419-425`) separates nothing: the
  play of a finished run starts the image of a later one. `PlaysOwnImage` is about
  simulation, where sessions differ.
* A scan chooses a free address in one transaction and stores it in a later one
  (`webapp/management.py:578`, `webapp/main.py:428` and `:470`). A second scan that
  chooses in between, when the cable has moved to the next board, gives that board
  the same address; `raced` excludes this from `DistinctIps`.
* `run_action` checks the lease of the first board only (`ControlHeldLease` says
  so); an administrator may demote itself; programming jobs are not recovered.

Host libraries:

* A phase less than half a millidegree below 180 degrees rounds to 180000, which
  the board refuses (`host.py:628`, `rfdc_runtime_config_pl.v:272`);
  `PackedIsAccepted` names the exception.
* The mailbox comment "header is written last" (`host.py:370`) holds for the order
  of sending; UDP may lose or reorder.
* The amplitude of `x12_half` is stored as `pi_amp_half`
  (`webapp/waveforms.py:86`) and read from `pi_amp21_half`.
* Three kinds of manual request are accepted at the door and may be refused in
  the worker (`webapp/waveforms.py:39`, `waveform_model.py:1903-1906`): the delay
  is not a whole DAC word and the length is rounded up to one; an override moves
  the pulse before the record, where it starts with the record and keeps its
  length (the sum that is checked has the negative delay); the pulse is shorter
  than a sample and takes a DAC word all the same. The proof of `PlanSafe` found
  the last two; `AcceptedIsGenerated` names all three, and `MCHost` has them
  among its inputs.
* A cache file is reused by its length alone: one whose middle marker was
  swallowed is played by every later upload of its key.
* `run_extreme_playback` and the max-length tests of the web application pass beat
  numbers where `upload_interleaved_chunks` documents byte offsets
  (`waveform_model.py:2644`, `webapp/max_length.py:289`, `dr47/device.py:802`), so
  the second chunk is always refused. `UploadIsRecord` allows this failure of this
  route and no other.

## 4. Bounds

* `controller`: `CountMod = 4` with loop counts 1 to 3 makes the counters wrap and
  reaches runs of one, two and three passes, the largest the modulus allows. The
  status record has two bits, enough for a mixture. The lengths of the trigger
  circuit (4, 5, 4) are the code's. All inputs are free.

  The reader has bursts of two frames, a page of three, descriptors of up to
  three, two AXI beats per frame and a FIFO of two: bursts are cut by the page, by
  the descriptor and by the credit, two are in flight, frames span beats, the FIFO
  is full while frames are in flight. The credit is one register late instead
  of five, the shortest delay that has the effect. The watchdog of two expires
  in every state it can expire in. A FIFO reset of one clock is the hard case.
  `ReaderInputs` and `Observed` give one value to wires that nobody looks at on an
  edge.
* `path`, `path_prefetch`, `path_stop`: a FIFO of two frames, descriptors of two
  frames (just fits) and, in `path_prefetch`, three (one more) with a start
  watermark of two, two passes.
  `MAILBOX` and `CMD_DEPTH` of one or two reach full queues. Two or three DDR edges
  per DAC edge instead of six keep the order of the domains with few phases. The
  reset of the FIFO and the restart guard last six DDR edges, two or three DAC
  edges, as the sixteen of the code do at 300 and 50 MHz; the settle window of
  two or three DAC edges (sixteen in the code) outlasts the publication of a
  frame and of a record.
* `upload`: images of one and two chunks of two words, four requests with one
  retransmission each, two packets and one response in flight. Four requests are
  a complete upload of the larger image, or of the smaller one with a command
  or a second BEGIN before or after it.
* `web_runs`: two boards, two runs (on one board and on both), one handler with
  two calls, one restart. Every pair of conflicts (two runs, a run and an abort,
  a run and a restart) occurs.
* `network`: two boards, two inventory rows, two operations at once, a pool of
  two addresses, one event and one lost packet. `MCSameReset` gives both boards
  the same address after reset, the hard case.
* `tests`: one test of two points and one max-length test, two handlers, two
  workers, three calls and one failure: a pause, a resume and an abort. The
  automatic test leaves its points playing; tests of single points mute them, or
  are dry.
* `rfdc`: two channels with two values, two web calls or three of a
  library user, one retransmission, two faults, six requests. A
  third web call, one that repairs what two overlapping ones left, is covered by
  the theorem `StoreSafe` only.
* `access`: two users, two clients, two boards, a run, two jobs, six requests.
* `host`, `host_marker`: two processes, records of four and sixteen
  beats, markers of four, chunks of eight, datagrams of four and DATA packets of
  three, one crash. The middle marker of the longer record lies inside its body;
  a chunk of eight spans it, a datagram cannot. Records are several chunks long,
  chunks several packets. Inputs on both sides of every
  limit for the pure functions (`MCInputs`).

Symmetry is used in `host`, `network`, `rfdc` and `tests`, which check
safety only and whose specifications do not tell the permuted values apart. The
runs of software and `upload` do not check deadlock: their behaviours end when
the bounded calls are used up. The others do: clocks can always tick.

## 5. Fairness

* `controller`: both clocks of the status bridge run (`WF` of an edge of each). The
  clock of the reader ticks (`WF` of `Tick`, on edges without a new command), the
  slave accepts a request that waits (`WF` of `Accept`) and ends a burst it has
  accepted (`SF` of `Retire`; strong, because the reader's ready comes and goes).
  AXI requires both of a slave. Nothing is assumed of the DAC.
* `path_prefetch`: the clocks run (`WF(Next)`) and DDR keeps answering a
  busy reader (`SF(ReaderProgress)`), which is the AXI contract again.

`EngineReturns` needs no fairness: it says that in every state of the engine a
step is possible that brings it nearer to the next packet.

## 6. What is proved

TLAPS proves, for every value of the constants that satisfies the named
assumptions of each module, that the properties below hold in every reachable
state. Each component has an inductive invariant (`IInv`, `StatusIInv`, `FeedInv`, `PlayInv`,
`TriggerIInv`, `RecordIInv`): true initially, kept by every action, with one lemma per action,
and strong enough for the properties.

| Module | Theorems | Properties of the runs |
|---|---|---|
| `PlaybackController` | `TypeCorrect`, `GateSafe`, `LoopCountExact`, `TriggerAccounting` | `GateNeedsLaunch`, `RunIsLoopCountPasses`, `TriggersAccounted` |
| `StatusCdc` | `SnapshotSafe` | `SnapshotCoherent` |
| `TriggerCdc` | `EdgeOnceSafe`, `WindowSafe` | `EachEdgeOnce`, `WindowDecides` |
| `PlaybackPath` | `TypeCorrect`, `ControllerIsFed`, `ControllerImplemented`, `RunsAreExact`, `BeatsInOrder`, `PrefetchCountExact`, `FittingNeverUnderflows` | `ImplementsController`, `PlayedInOrder`, `PrefetchLevelExact`, `FitsNeverUnderflows` |
| `DdrReader` | `ReaderQuiescent`, `RequestsSafe` (`RequestsInBounds`, `ReservedExact`, `CreditSafe`), `DoneSafe` | `QuiescentWhenIdle`, `RequestsCovered`, `DoneMeansDelivered` |
| `UploadWriter` | `TypeSafe`, `UploadSafe`, `AnswerSafe` | `UploadIsWhole`, `ActsAsAnswered` |
| `MaxLength` | `RecordTypeSafe`, `CacheSafe`, `RecordSafe` | `CacheIsWhole`, `UploadIsRecord` |
| `HostLibrary` | `PlanSafe`, `SettingsSafe`, `LimitsAgree` | `PlanIsRequest`, `SettingsSettle` |
| `WebRuns` | `TypeSafe`, `OwnershipSafe`, `StrandedSafe`, `OwnImageSafe` | `WorkerOwnsBoards`, `NothingStranded`, `PlaysOwnImage` |
| `TestSessions` | `TypeSafe`, `CompletedSafe`, `RememberedSafe`, `RunningSafe` | `CompletedMeansCovered`, `PlayingIsRemembered`, `RunningHasThread` |
| `RfdcControl` | `TypeSafe`, `StoreSafe`, `ReturnSafe` | `StoreIsTrue`, `ReturnMeansApplied` |
| `Access` | `AccessTypeCorrect`, `OneHolderSafe`, `ControlSafe`, `LeaseEndsSafe` | `OneHolder`, `ControlHeldLease`, `LeaseEndsByRight` |
| `BoardNetwork` | `TypeSafe`, `DistinctSafe`, `AppliedSafe`, `OwnSafe` | `DistinctIps`, `AppliedIsTrue`, `VerifiedMeansOwn` |

The assumptions say of the constants what the code says of them: a counter has
at least two values and loop counts are below its modulus (`CountModAssumption`,
`LoopsAssumption`); the guard of the trigger outlasts the synchronizer and the
history is at most one register longer than it (`GuardAssumption`); sizes and
depths are positive (`ReaderConstants`, `WriterConstants`, `PathConstants`), the
times of the path are related as in the code (`PathTiming`), and some image is
the largest (`SizesAssumption`, the capacity of the DDR); the sizes of a
maximum-length record and its chunks are positive (`RecordSizes`); a request for runs
names at least one board (`RequestsAssumption`, `GroupsAssumption`); a
performance test has a point (`NAssumption`); the channels are finitely many and
the initial value is one of the values (`ChannelsAssumption`, `V0Assumption`);
the pool is not empty, the shared addresses are not given to boards, and boards
come out of reset outside the pool (`PoolAssumption`, `ResetAssumption`). The
others only keep names apart and bounds natural (`NoneAssumption`,
`NoRunAssumption`, `OneSessionAssumption`, `ThreadsAssumption`,
`LibAssumption`, `SeedAssumption`, `DevicesAssumption`, `SettingsAssumption`,
`RetriesAssumption`, `CrashesAssumption`, `BoundsAssumption`). The numbers of threads, requests,
faults and events are arbitrary, so the proofs are not limited to the bounds of
section 4.

* **PlaybackController**. `IInv` adds two parts. `PendingInv`: a retained PLAY
  exists in PREFETCH only and belongs to the run in progress; without it a step
  from PREFETCH into PLAYING might open the gate for nothing. `DescriptorInv`:
  from WAIT_TRIGGER on the loop count is the one of the last upload and at least
  one, and the pass in progress is still owed; without it the comparison at the
  last beat says nothing. The counters are treated in a lemma of their own
  (`CountStep`), by cases on whether each increment wraps.
* **StatusCdc**. `OneInFlight`: the request toggle is in exactly one place of
  its round trip; a flop it has passed implies the flops before it, whatever
  value each sampled. `HeldIsSent`: while the acknowledgement is on its way the
  held record is one the DAC domain had since the request, and what lies behind
  the flops it has passed is that record, all bits of it. The bits of a word may
  be sampled one by one because nothing changes the word in that time.
* **TriggerCdc**. `RiseTravels`: a rise that met an armed circuit stays latched
  and moves one flop per clock, which bounds the capture by four clocks.
  `ImagesNamed`: each bit in the synchronizer is the image of one rise, and a
  second image of the same rise has the first in front of it, which disarms the
  circuit. `WindowSince`: the place of an image bounds how long the window can
  have been open or shut since its rise, so the guard counter and the history
  decide as the window stood at the rise.
* **PlaybackPath**. All theorems assume a driver that waits for its answer
  (`~Pipelined`), as the request loop of `dr47` does. Then one command is on its
  way at most (`OneCommand`, `flying`), and `FeedInv` relates it to what the writer
  has promised and to the state of the controller (`PhaseInv`), keeps the
  descriptor record in exactly one place (`RecordInv`), and shows that without a
  record the settle counter is behind the age of the record (`DescriptorInv`). Each
  edge of either clock then maps to a step of `PlaybackController` or to a
  stutter: `ControllerImplemented` is the refinement, and `RunsAreExact` brings
  the theorems of the controller into the path.
  The other three theorems also assume that no cancelling command meets a restart
  (`Racing = {}`); section 3 says what happens otherwise, so they would be false
  without it. `PlayInv` follows the frames. An *epoch* runs from a COMMIT, or the
  start of the reader for a further pass, to the next command or the last beat; in
  it the beats taken, the FIFO, the held frame and what the reader has left add up
  to the waveform and carry consecutive numbers (`FramesInv`). `FitsInv` adds
  that a flag which can end PREFETCH implies a full waveform in the FIFO, and that
  the settle window outlasts the publication of its last frame. Between epochs lie
  a restart, which is one token passed along seven registers (`TokenInv`,
  `RestartInv`), what a cancelled read leaves (`Spoiled`, `LowLevel`: a reset
  still removes its frames, its count is too low to look like a prefetch), and a
  command that has emptied the FIFO but has not reached the controller
  (`CancelInv`: the timers of the FIFO reset and of the settle window say that the
  controller cannot start to play meanwhile). Distances between the two clocks are
  stated as `timer + since`, DDR edges still to come plus edges gone since the
  last DAC edge, so no edge is counted twice.
  TLC checked every conjunct on instances with waveforms that do and do not fit
  before the proof. It refuted two first versions: with a watermark of one the
  frame that a cancelled read still hands over makes `prefetch_safe` rise during
  the drain (hence the last part of `PathTiming`), and `prefetch_done` is still
  high on the edge after PREFETCH (hence `Feed` as it is).
* **DdrReader**. The invariant of the bookkeeping is the conjunction of
  `QuiescentWhenIdle`, `ReservedIsInFlight` and `RequestInBounds` with the
  ranges of the registers they mention. `RequestInBounds` is needed for
  `ReservedIsInFlight`, because an accepted request is subtracted from
  `remaining`. `ProposedFits` says what the four clamps of a burst guarantee,
  `IssueStep`, `ReserveStep` and `ReturnStep` what each group of registers does
  on a busy edge. `CreditSafe` needs to know how old each register of the credit
  is: `CreditAge` bounds the free count in the i-th register by what the FIFO
  has gained since it was sampled, one frame per clock. `DoneSafe` has to relate
  the frames delivered to the bursts in flight. `CleanInv` says that, while
  nothing has disturbed the read, the bursts in flight are a chain (`Chain`)
  from the beats received to the beats asked for; `ChainTail` and `ChainAppend`
  move its ends. A chain is a list of partial sums, so no sum is defined and no
  induction is needed.
* **UploadWriter**. The argument is about the packets in transit. They are in
  the order of their sequence numbers (`OrderInv`), none is older than a request
  that has taken effect (`PacketOK`), one that has taken effect is still
  remembered by the board (`Acted`), so its copies are recognised, and a BEGIN
  in front of a DATA has opened the upload of that DATA (`PairOK`). `HostInv`
  says the same of the host: it sends DATA only for the upload that is open.
  `AnswerInv` gives `ActsAsAnswered`; `ImageInv` says which words are stored
  (`Stored`) in each state of the engine, also while a word that timed out may
  still be written.
* **MaxLength**. Whatever lies in the temporary file, a cache file, a chunk or a
  datagram is a `Piece` of the record at a known position, and the memory is
  `Filled` where it has anything; pieces are cut (`SubPiece`), joined
  (`JoinPieces`) and written (`WrittenIs`). `WholeFile` files stay whole, so a
  process may rely on the file it has checked although others replace it. The
  generator compares the two ends of a chunk only: `RegionBetween` shows that what
  lies between two beats of one region is in that region, or is the middle marker
  between two beats of the body, and the latter only in a chunk of more than
  `MARKER + 1` beats. `StandsAt` carries that one exception through file, chunk,
  datagram and memory, so `RecordSafe` needs no condition on the request: it holds
  for every route and any chunks. That no route but `run_extreme_playback` has a
  chunk refused is part of the invariant: the offset of a chunk is 64 times what
  has been written. `ChunkCountIs` shows that
  the shrinking of a chunk ends, by the least element of a set of numbers
  (`LeastElement`, from the library's `WFMin`).
* **HostLibrary**. The three theorems hold for every input, so there is no
  behaviour to follow. `SettingsSafe`: an object that was read has all of its
  fields with values a read keeps, so it is written whole and read back equal,
  whatever the file held; one lemma per kind of object, from the channels up.
  `PlanSafe` has the limits `webapp/models.py` puts on a request as hypotheses
  (`ManualAsked`: a positive record and durations, natural delays, offsets of any
  sign) and integer times of the settings (`SettingsOf`). `AcceptedIsGenerated`
  rests on rounding: `Nearest` is monotone and moves with a shift by DAC words,
  and so does the rounding to a DAC word (`WordsFit`). `GateGetsItsValues` is a
  case per role and gate (`GateReadsItsSlots`). For `MaskIsWhatSounds` a record
  sounds if and only if the wave placed in it does (`RecordSounds`).
  `LimitsAgree` is the part of `EndsAgree` that is about values: the limits of
  RFDC entries (`PackedIsAccepted`), of BEGIN and of DATA (`AcceptsTheSame`), for
  fields as wide as they are in the packets.
* **WebRuns**. `ThreadOK` says where each method may be and what it may rely on
  there: a worker that no abort has overtaken owns the boards of its run until
  its release, a thread past its release owns nothing. `NewRunInv`: one thread
  creates a run. `BoardInv`: in simulation the session of a board names the run
  whose image it holds, the fact behind `PlaysOwnImage`.
* **TestSessions**. `ThreadOK` and `CoverInv`: a worker has covered every point
  below its own, and a test every point below its current one, unless a client
  has executed a point itself (`manual`); `covered` only grows, so this survives
  the other worker, and one that looks at the points of a measurement while they
  change. `MuteInv`: only tests that leave their waveforms playing remember any, so
  that forgetting one after its stop forgets nothing that plays. `MaxInv` ties a
  max-length test to its worker.
* **RfdcControl**. A request that was answered OK has taken effect (`AnswerInv`,
  `Done`), and the board still has the answer to the copies of it on the link
  (`Quiet`, `Confirmed`), so that they change nothing: without the cache of the
  board the invariant fails, for a copy could break off half way. `PacketInv`:
  the link holds packets in the order of their numbers, those with the last
  number are copies of the outstanding request; hence no other packet can follow
  the answered one. `SyncInv` and `GoodInv` carry this to the store (`InSync`)
  and to the pending values of the library. A call that overlaps no other
  (`alone`) is the only one that writes the store meanwhile, which is why it
  makes the store true whatever was there before.
* **Access**. The properties speak of a request at its last step, so the
  invariant has to carry what its earlier transactions established. `CallOK`
  does, per step of a request: an operation of an administrator was admitted as
  one; the boards checked so far are in `held`, and `held` has every board the
  user has leased now; a run that was found still exists. `CallOKStable` shows
  why this survives the others: it depends on the leases and the runs in one
  direction only, and the one step that adds a lease adds it to `held` of its
  user as well (`LeaseStep`). For the jobs, a thread that is not over works on
  an unfinished job; without it the step that takes the lock could revive a
  finished one.
* **BoardNetwork**. The invariant says two things of a thread: what its call is
  at each step whatever the others do (`CallOK`), and what is true of boards and
  inventory while it is alone (`SoloOK`): the identity it read is the board's,
  the address it chose is free. `KeyInv` is `DistinctIps` made inductive: every
  board has one enabled row and no two rows want the same pool address. The
  first attempt failed, and rightly: on larger instances than the run's a
  refresh that rewrites an identity and a scan that keeps an adopted address
  break `DistinctIps`; `raced` tells of both since. `OwnSafe` has the hypothesis
  that `UidOf` is injective: `dr47/network.py:405-406` says that boards of old
  DNA revisions may share a UID, and such boards can be taken for each other.

### Only model-checked

* Liveness (`StatusAnswered`, `CancelQuiesces`, `PrefetchEnds`): fairness is
  beyond the installed provers.
* `EngineReturns`: it speaks of `ENABLED`.
* `PlayedInOrder` and `FitsNeverUnderflows` with pipelined commands and with a
  STOP that meets a restart: the run `path` checks them there, the theorems
  exclude both.
* `ImageIsWaves`, `DacPlaysRequest` and the layouts of `EndsAgree`: they fold
  over the sequences and packets the functions build, and the provers have no
  induction over them. `MCHost` lists the inputs they are checked on.

## 7. What is not modelled

* Sample values: IQ arithmetic, sines and envelopes, phase rotation, fractional
  delay, TDC delay line and calibration. They have no control state.
* Several lanes: `PlaybackPath` and `DdrReader` have one lane. The sent mask of
  the DAC stream and the reduction over lanes of the mask adapter are left out.
* Metastability beyond the old-or-new choice of `StatusCdc` and `TriggerCdc`.
* Reset during traffic: the modules start at reset and are never reset again, nor
  is a board configured again under a store that remembers it (`RfdcControl`).
* The request FSM of `pl_riscv_control_v1.v` and the AXI-Lite bus below it, the
  NCO bridge, link training, firmware start-up.
* The simulator of `dr47` (a second, simpler board), event streams to the UI,
  serial consoles, JTAG discovery, exports, phase calibration tables, pypulse
  bundles, the ILA report.
* The vendored UDP stack, the Chisel library, generated IP, the legacy instruction
  writer, the bandwidth test design, the clock chip's fixed SPI sequence,
  measurement scripts and the web UI.

## 8. Plan

1. **UploadContract**, the abstract device of the upload protocol (open, received,
   committed, one effect per request), and `UploadWriter` as its refinement; the
   simulator (`dr47/simulator.py`) against the same contract.
2. The theorems of `PlaybackPath` with pipelined commands, for which `flying`
   becomes a queue.
3. **DacStream**: several lanes, the sent mask, the mask adapter's reduction.
4. **RuntimeControl**: the request FSM of `pl_riscv_control_v1.v` with
   **AxiLiteBus** (arbiter and clock crossing) below it.
5. **SyncLink** and **TdcCapture**: link training and roles; event capture and its
   FIFO.
