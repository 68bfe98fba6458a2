# HypeHouse Live: specification and verification

HypeHouse Live is a DJ application: a Rust engine that mixes two decks, a
Python co-pilot that analyses and suggests tracks, a web interface, and a desktop
shell that starts the others. This directory specifies the program in TLA+,
model-checks it with TLC and proves the invariants that carry it with TLAPS.
`PROJECT.json` lists the runs, mutants, theorems and hazards and, for every
definition, the source lines it stands for.

1. The system
2. The modules and how they correspond to the code
3. The runs
4. The proofs
5. Where the code and what is said of it part
6. Not modelled
7. Plan

## 1. The system

    UI, co-pilot --ws--> WsServer --gate--> EngineHandle --event channel--> control_loop
                             |                                               |  apply (reducer)
                             +--> library proxy --HTTP--> co-pilot           |  event log, clock
                                                                             |  translate, open decoders
                                                                             v
    speakers <-- audio callback <-- stretcher, effects <-- ring of commands -+
                   |   ^
                   |   +-- sample rings <-- decoder threads <-- file or HTTP source
                   +-- ring --> recorder thread --> master.wav --> export

| Component | State | Operations | What makes it correct |
|---|---|---|---|
| Reducer `state.rs` | decks, effect slots, loops, master section | `EngineState::apply`, one arm per event kind | total on any event the wire carries; loops, one-shots and clamps stay sound in any order of events |
| Translator `audio/translator.rs` | none | event and the states around it to audio commands; opens the decoder of a load | what it emits makes the audio thread follow the state |
| Command ring `audio/ring.rs` | bounded single-producer queue | `try_push`, `try_pop` | a full ring loses a command and nothing else |
| Mixer `audio/mixer.rs`, `audio/effects` | hot copy of decks, effect banks, master section | `apply`, `render` | the hot copy is the state's, up to the commands under way; a delay line plays each frame once |
| Control loop `main.rs`, `audio/io.rs`, `audio/clock.rs` | its own `EngineState`, log, shared clock | receive, apply, log, translate, push; the device callback | order of the channel kept, clock and state agree, everything accepted lands |
| Engine handle `bridge/rpc.rs` | id counter, a state, a log, a broadcast | stamp, forward, `submit_event_kind`, snapshots | ids unique, a source's order kept, state, log, notice in that order |
| One-shot sweeper `oneshot_sweeper.rs` | none between polls | clock, snapshot, one disengage per expired slot | every one-shot is switched back |
| WebSocket server `bridge/ws_server.rs`, `auth.rs`, `ratelimit.rs` | client tasks, outbound queues, token buckets, counter | accept, authenticate, limit, dispatch, notice fan-out, write, time out, shut down | answers in order, notices lost only by lag, a stranger reaches nothing, a rate is bounded, shutdown ends |
| Library proxy `bridge/library_proxy.rs` | none | HTTP request with a timeout | one answer per call |
| Decode service `audio/decode.rs`, `bridge/decode_drain.rs`, `audio/http_source.rs` | slots, sample rings, decoder threads, page cache, failure channel | open, open_stems, read, seek, close, drain | a ring has one owner, a load is all or nothing, what is heard is the file, failures are told |
| Session persistence `persistence/` | event log file, its buffer, session directories | append, flush, replay, list, retention | a replay gives the live state back up to the last flush; the sweep spares what it must |
| Recording `recording/` | ring, writer thread, header | push, drain, stop, patch, export | frames whole and in order, no drop counted that was none, the file reads back |
| MIDI `midi/` | mapping, clock-in window, clock-out phase, bounded channel | listen, map, follow, send clock | a control stands where it was turned; the tempo follower holds; no burst of late ticks |
| Signal processing `pitch_tempo.rs`, `wsola.rs`, `limiter.rs`, `sidechain.rs` | cursors, rings, envelopes | process a block | frames are neither lost nor played twice |
| Performance counters `audio/perf.rs` | atomics | record, read and reset | a reader loses at most what it raced |
| Co-pilot service `copilot/` | socket, request table, auto-mix task, playlist | reconnect, call, propose, plan, submit | a call gets an end, a plan stops where an event of it failed |
| UI client `ui/src/ws/client.ts` | sockets, timers, request table | connect, close, call, reconnect | one socket, a call gets an end |
| Desktop shell `tauri/` | child guard, update state | spawn, drop, look for updates | the engine does not outlive the app; an update is offered only when it is one |
| Peer clock `clock_sync/` | a stub in this version | | |
| Co-pilot library, presets, cloud sync | SQLite stores, sync cursor | | |

What is hard here: three threads (client task, control thread, audio callback)
with a copy of the mix each; ids taken before the send; a sweeper that acts on an
old snapshot; a bounded ring that drops; decoder threads that outlive a failed
load; queues that fill up; writes that stop half-way and processes that end with
a buffer full; callbacks of sockets that were given up; tasks cancelled in the
middle of a plan. `PROJECT.json` lists each hazard at its line with the
properties that would catch it going wrong.

## 2. The modules and how they correspond to the code

| Module | Models | Extends |
|---|---|---|
| `BeatGrid` | bar arithmetic: preset clamp, next downbeat, loop length | |
| `EngineState` | `state.rs`: types, default state, `Apply` | `BeatGrid` |
| `BarLoop` | a deck asking for bar loops, with a reference definition of the answer | `EngineState` |
| `AudioTranslator` | `Commands(prev, next, ev, handle)` | `EngineState` |
| `AudioMixer` | `ApplyCmd(mixer, cmd)` and the effect bank | `AudioTranslator` |
| `Effects` | one effect slot as it sounds: memories of the effects, LFO, blocks of a callback | `AudioMixer` |
| `ControlPlane` | channel, control loop, ring and callback around reducer, translator and mixer | `AudioMixer` |
| `AudioCallback` | the device callback, the atomics it publishes and their readers | |
| `TimeStretch` | pitch and tempo of a deck: the stretcher's cursors and scratch | |
| `EngineBridge` | engine handle, clients, sweeper and either consumer of the channel | `EngineState` |
| `DecodeService` | slots, rings, control thread, decoder threads, reads, drain | |
| `DecodeFeed` | sample streams of a deck's stems on their way to the mixer | |
| `DecodePath` | both together | `DecodeService` |
| `HttpSource` | a track behind an HTTP server as a file that is read and sought | |
| `WsServer` | accept loop and the three tasks of a client | |
| `TokenBucket`, `Gateway` | rate limit; handshake, gate and dispatch of a connection, library proxy | `TokenBucket` |
| `DurableLog` | abstract: what an event log promises | |
| `EventLog` | the log of a process, its replay, crashes and broken writes; implements `DurableLog` | `EngineState` |
| `SessionStore` | the directories of all processes: boot, retention sweep, list | `EventLog` |
| `Export`, `Recorder` | trim and chapters; the recorder's ring, writer and header | `Export` |
| `Disk` | what a session leaves on disk: its log and its recording | `SessionStore`, `Recorder` |
| `MidiClock`, `MidiInput` | clock in, clock out and the shared clock; mapping and listener | `BeatGrid`, `EngineState` |
| `CoPilot`, `UiSocket` | the two clients | |
| `BothEnds` | the server and its two clients side by side, with the constants of all three | `WsServer` |
| `Shell` | child guard and update check | |
| `Parts` | the stretcher, a track over HTTP, the shell, the MIDI clock, an effects slot and the device's callback beside bar loops and the MIDI listener, with the constants of all eight and the names of their properties | `BarLoop`, `MidiInput` |
| `EngineStateProofs`, `ControlPlaneProofs`, `GatewayProofs`, `BothEndsProofs`, `BridgeProofs`, `DecodeProofs`, `DiskProofs`, `PartsProofs` | theorems | the module they are about |
| `MC*` | TLC's values for the constants and, where parts that share no state are checked together, the choice of part | |

**EngineState.** A deck is a record of the fields of `Deck` on which a decision or
command depends. `Apply` splits by the kind of event into `MasterAfter`, `DeckAfter`
and, for an effect slot, `SlotAfter`; each arm of the `match` is a named operator or
one `EXCEPT`. Knobs are integers in hundredths with the code's clamps, and one
value `NonFinite` where the code tests `is_finite`. An index past the end of an
array is a value events may carry, as on the wire.

**BeatGrid.** Beat length is the exact fraction 60000 / bpm. In the code it is an
`f32` and its quotient an `f64`, so within a rounding error of a bar line the code
may choose the next bar or be a millisecond off; the model does not show this.

**ControlPlane.** One event is `Receive` (apply, clock, log, translate, open) and then
one `Push` per command, because the callback (`Pop`) runs between any two pushes.
Whether a load opens is a parameter of `Receive`.

**EngineBridge.** `Submit` (stamp) and `Forward` (send) are separate because dispatch
holds no lock over both. The sweeper's poll is `SweepClock`, `SweepSnapshot`,
`SweepEmit`. The wiring is a variable: `main.rs`'s `control_loop`, or the loop
the bridge's tests put there, which calls `submit_event_kind` (`SubmitApply`,
`SubmitLog`, `SubmitNotify`: three locks, one after the other).

**DecodeService, DecodeFeed.** Every step between two looks at a shared flag or
ring is an action: claim, open the source, spawn; signal, join; look at the
flag, read a packet, look again, push. In `DecodeFeed` a sample is a frame and a
side, so that a slip of one sample, which swaps left and right, shows.

**HttpSource.** Byte k of a track is the number k; the server may ignore ranges,
omit lengths, answer short or fail, and a reader reads and seeks through the cache.

**TimeStretch, Effects, AudioCallback.** Sound is abstracted to which frames a
buffer holds. `TimeStretch` keeps the stretcher's two cursors; `Effects` keeps what
a delay line still carries and the blocks a callback is cut into while the clock
stands; `AudioCallback` has the swap of the performance gauge, the meters and the
frame counter with its width.

**WsServer, Gateway.** In `WsServer` reader, notice task and writer are three program
counters per client; the outbound queue is bounded and closing it is an outcome
of a send. A request stands for any frame that is answered. `Gateway` is what one
frame is answered and may reach: authentication, the bucket with its time in exact
units, the engine's channel, which may be full, and the library call the reader waits for.

**EventLog, SessionStore.** A file is its whole lines and whether a torn one ends
it. A write takes any prefix, perhaps with a piece of the next line; `BufWriter`
keeps what the file has not taken. A process ends by a crash, by unwinding (a debug
build: `Drop` flushes) or by `SIGTERM`. `SessionStore` adds boots, days, mtimes and the
sweep. Processes follow one another; two at once on one root are not modelled.

**Recorder.** Samples are a frame and a channel; the ring, the writer's scratch, the
stop flag and the header's length are the code's, with the order of the flag and
the last block left to chance as the threads leave it.

**MidiClock, MidiInput.** Ticks arrive at any time within the bounds, the transport
at any tick. A message is a key and a value, spelled as the lookup spells it or not.

**CoPilot, UiSocket, Shell.** Between two awaits of a Python task nothing else runs,
so a step goes from await to await. A handler of a JavaScript socket is a closure
over the client and may run after the socket was given up. `Shell` splits the
drop of a guard at its read of the reference count; the process ends once the app's own guard is
dropped, whatever the other threads hold.

## 3. The runs

Seven passing runs fire every action between them. `CHECK_DEADLOCK FALSE` is there
where the bounds let the system stop for good. Parts that share no state are checked
side by side in one run: the initial state chooses the part and a behaviour
is a behaviour of that part alone, so that each part's state space is the one it has
on its own.

| Run (module) | What it shows | Bounds and why they are enough | Distinct states |
|---|---|---|---|
| `Session` (`MCSession`) | types; a pending one-shot sits on a live slot; an active loop has both ends; clock = state's bpm; the copies of the mix part only for a cause the code gives; an absolute event brings them back; everything accepted lands | three events in a row from one of four panels (58 inputs, every kind, boundary and non-finite values); a ring of one place, so that it overflows with the second command; the invariants are proved for any bound | 94,607 |
| `Bridge` (`MCEngineBridge`) | each source's order survives from stamp to fold, everything accepted is folded, one-shots end where the handle's state is fed | two clients race for the counter, three events and the sweeper's own; assign, shot and switch in any order; the clock runs until the last shot has ended | 72,419 |
| `Decode` (`MCDecodeService`) | one owner per ring, atomic open of stems, failures told, nothing hangs, the feed plays the files' samples once and in order | three slots and loads of one to three stems: a third stem that fails has two to roll back, and two loads use the slots up half-way; a ring of two is filled by a packet, so that draining it does not free the decoder; two streams, two gain changes | 113,646 |
| `Clients` (`MCClients`) | queue order and connection counter, requests and notices served, shutdown ends; the UI has one socket but for the known cause; a plan stops where an event failed; calls end | one server client (clients share only `published` and the shutdown; the order is proved for any number), queue and buffer of two, two requests, four notices so that it lags; three sockets, four calls, three mounts; two tracks, two plans of two events, two toggles | 382,675 |
| `Gateway` (`MCGateway`) | strangers reach nothing, the rate is bounded in every window, only floods are denied, the retry advice holds | burst of two, a token in three units of time, two of them a millisecond, so that refills fall between milliseconds; four frames over six units, so that a frame comes before, at and after a refill; 17 frames, each with its own answer; a channel of one, so that it is full | 1,796,208 |
| `Disk` (`MCDisk`) | the log is what was folded, its replay the live state, a crash costs less than a flush interval; `EventLog` implements `DurableLog`; the sweep spares the newest and, with a limit of a day or more, the current session; the recording is whole and reads back; stopping ends | one process with five events and two broken writes (flush interval and buffer of two or three lines: every case of flush, full and retry), or three processes with an event each and the clock set back; six frames over a ring of six samples, a size limit below the longest file, four recordings with silence at head, tail, neither and all | 623,095 |
| `Parts` (`MCParts`) | eight parts: a track over HTTP reads like a file; the stretcher panics only by overreaching and is tidy otherwise; effects, callback and gauge; a bar loop starts at the next downbeat and has the nearest preset; the shell keeps its word; the MIDI clock holds and makes no burst; controls stand where they were turned; the drop of the listener ends | pages of two bytes in the code's cache of five and tracks up to eleven bytes, so that a page is evicted and the last is short, from servers with ranges, a length, both or neither, where a cursor goes no further than `MaxPos`; slow, normal, fast and not-a-number tempos with every pitch; one slot with each of the four effects, whose delay lines are shorter than the run; all bars 0..17 and 255 on, before and after the bar lines of whole and fractional grids; three clones of the guard on two threads; a tempo window of two intervals on both sides of the plausible range, filled by six bytes (that it slides on is left to the theorem); a counter two bits wide that wraps; a full channel | 666,822 |

Five runs end in a violation of a statement the repository makes:

| Run | The statement | What the code does |
|---|---|---|
| `OneShotLive` | the sweeper switches every one-shot back (`oneshot_sweeper.rs`) | it polls the handle's state, which `main.rs` never writes |
| `SlotLeak` | close a deck and retry (`ws-protocol.md`) | nothing in live mode closes a handle |
| `WrongDeck` | a failure names its deck (`decode.rs`, `DecodeFailure`) | one in mid-stream carries no deck and is announced for deck A |
| `StretchPanic` | no panic over the supported range (test in `wsola.rs`) | a slow tempo with a raised pitch moves the read cursor past the write cursor it is then subtracted from |
| `OwnAnswer` | a call times out because the engine is silent (`engine_client.py`) | a notice's handler calls from the task that reads the answers, so the call always times out |

### Fairness

* `ControlPlane`: weak fairness of `Receive`, `Push`, `Pop`. The control thread loops
  on a blocking receive, the device calls back for ever.
* `EngineBridge`: every thread with work, and the clock; the sweeper polls on a
  timer. Clients owe nothing.
* `DecodeService`: the control thread, each decoder, the drain's 100 ms tick.
  Reading is not fair: a paused deck is not read, and `NothingHangs` holds even so.
  `DecodeFeed`: each decoder and the audio pull.
* `WsServer`: each task weakly. Waiting for room in the queue is strongly fair,
  because tokio's channel serves waiting senders in order. Only `Readers` are sure
  to read; requests and leaving are free.
* `Recorder`: the writer thread, the stop and the join. `MidiClock`: the clock-out
  thread, the passing of time and its join. `AudioCallback`: the device's callback.
* `CoPilot`: the event loop's reads, the engine's taking, and per plan the send,
  the timeout and the cancellation once requested. `UiSocket`: the answers and the
  ends of sockets; not the user.

## 4. The proofs

Each theorem holds for every value of the constants its module's assumptions
allow. All are checked by TLAPS with SMT, Zenon and, for the temporal steps, PTL.

| Theorem | Shows | Argument |
|---|---|---|
| `EngineStateProofs!ApplyType` | the reducer is total and typed | a lemma per arm over lemmas about clamps, rounding division and bar arithmetic |
| `ControlPlaneProofs!ApplyCmdType` | the mixer stays typed under every command the translator emits | a lemma per command; `Commands` emits at most two, each typed |
| `TypeCorrect` | `[]TypeOK` | inductive as it stands: it says of each command in flight that the mixer can apply it and of each event that the reducer can |
| `ClockCorrect`, `OneShotCorrect`, `LoopCorrect` | `[]ClockFollowsState`, `[]OneShotOnLiveSlot`, `[]ActiveLoopHasEnds` | each inductive relative to `TypeOK`: only `Receive` changes the state, and every arm of `Apply` keeps the property of each slot and deck |
| `CopiesCorrect` | no step parts the loop's copy of an aspect from what the audio thread will play, but for a cause | see below |
| `ResyncCorrect` | an absolute event leaves both copies of its aspect equal, whatever was lost before | see below |
| `GatewayProofs!BucketCorrect`, `RateCorrect` | the bucket's bounds; in every window no more frames than burst plus refill | invariant `Account` keeps the tokens together with each admitted submit: what was admitted since any time and what is left in the bucket never exceed what the bucket held and was refilled |
| `DenialCorrect` | a submit is refused only where one more would break the rate law | invariant `Spent`: a bucket that is not full owes what it lacks, to the unit, to some admitted submit since which it was never full |
| `AdviceCorrect`, `GateCorrect` | a client that waits as told is let in; without authentication nothing is reached | from the bucket's definition; `GateCorrect` by the dispatch of each frame |
| `BothEndsProofs!OrderCorrect` | answers come one each and in order, notices with gaps only of a whole buffer, the counter is exact | see below |
| `SocketCorrect` | the user interface has one socket and stays closed when it was closed, but for a socket made while another was closing; hello comes first | see below |
| `PlansCorrect` | a plan reaches the engine in order and without gaps; two mixes of a deck, or one after auto-mix was switched off, only where the code leaves it open | see below |
| `BridgeProofs!SourceOrderCorrect` | no id reaches the control loop twice, each source's events keep their order, notices follow the log | see below |
| `DecodeProofs!RingCorrect`, `OpenCorrect` | a ring has one owner; opening the stems of a track is all or nothing | see below |
| `ReportsCorrect` | only decoders that gave up are announced, none twice; while there were no more decoders than the side channel holds reports, each one that gave up is announced or its report waits | see below |
| `FeedCorrect` | every sample of a file is heard once and in order, on its own side but for reads that ran out in mid-frame | see below |
| `DiskProofs!LogIsDurable`, `LogCorrect`, `StoreIsDurable` | `EventLog` implements `DurableLog`; the log is what was folded; a crash costs less than a flush interval; the same of all processes of a store | see below |
| `ReplayCorrect` | replaying a whole log rebuilds the state that is live | see below |
| `StoreCorrect`, `SweepCorrect` | of every process of a store: its log is true, and the list of sessions is cut off in its own order, those without events before the others newest first; a sweep takes only what is as old as the limit and has `min_keep` newer ones, and not the current session while the limit is a day or more | see below |
| `RecordingCorrect` | a recording holds whole frames in order; the count of dropped ones is never too high, and where no write failed a finished file lacks just what was counted and what the writer left in the ring; it reads back whole; the export is trimmed to the first sound and its chapters follow without a gap | see below |
| `PartsProofs!PanicCorrect` | the stretcher panics only once the knobs have asked for a hop wider than the sound it waits for | see below |
| `StretchCorrect` | both channels of a deck take the same way and return equally many frames; a block's tail is silence | see below |
| `ShellCorrect` | the engine outlives the app only after a crash, after main returned while another thread had a clone, or after a race of two drops; a drop spares other holders; only upgrades are offered | see below |
| `BarLoopCorrect` | a bar loop starts at the next downbeat and has the nearest preset's length | see below |
| `ReadsCorrect` | a track over HTTP reads like a file | see below |
| `ClockCorrect`, `TicksCorrect` | the clock follows the last whole beats; the port sees one Start, ticks, Stops; lost ticks are not made up for | see below |
| `CallbackCorrect` | an effect sounds of nothing older than its assignment; the echo is a delay, the gate keeps time, the filter is tuned, parameters stay in range; the gauge loses no slow callback | see below |
| `ControlsCorrect` | with nothing on its way, a control stands where it was turned, unless its last turn met a full channel or the mapping's EQ range is wider than the reducer's | see below |

*ControlPlane.* What the audio thread will play is the mixer with every command of the ring
and of the loop's hands applied to it, a fold. A pop takes the first command of the ring
and applies it, which leaves the fold as it was; a push moves a command from the hands to
the ring. What is left is `Receive`: aspect by aspect, the command an event is
translated to does to the mixer's copy what the reducer does to the state's, or the
event cannot touch the aspect and its commands do not either. The folds of the community
modules are defined with a recursive function; that it exists, and hence what a fold of
one more or one less command is, is proved by a least counterexample.

*WsServer.* That `wire` is in order is not inductive: two tasks fill one queue and each
holds a frame meanwhile. The invariant speaks of the pipe, `wire` followed by `queue`:
its answers are 1..n for the n requests the reader has finished and the reader holds
n + 1 or nothing; its notices follow one another, the last precedes what the notice
task holds, and that what its subscription has next; a client whose tasks are not
started has an empty pipe. Reader and notice task then append to the pipe, the
writer only moves its boundary.

*UiSocket.* Handlers and timers are closures over the client, so whether a late one does
harm depends on all the sockets and timers there are. While no socket was made beside
one that is closing (`slip`), the invariant allows at most one socket that is not closed, makes
the one that can be used the one in hand, leaves no timer but the remembered one, and that only
while no socket is up. A closed client then has neither timer nor socket to come back by.
The hello goes out in the handler that makes a socket usable, before the calls it flushes.

*CoPilot.* That the engine gets the events of a plan in order follows from where the plan
is: what the engine has taken is behind the plan's next event, and is the event before it
once that was answered; at most one event of a plan is on its way and one call of it waits, both
for the next event; an answer is to an event that was taken. A timeout or a cancellation
ends the plan, so a late answer finds no call. Of a deck the invariant says that a mix
that is not cancelled is the one it remembers, for the track it was launched for, unless the
source was reloaded under it or it began before the last task was gone; a notice that launches
mixes for several decks appends one plan for each, which needs that a finite set has a sequence
with each element once.

*Bridge.* An event is in one place at a time: stamped by its source, in the channel,
or folded. The invariant speaks of the path `applied \o channel`: the events of each
source are in order on it, what a source has stamped may follow all of its own there,
and every id is below the next one. Forwarding appends to the path, the loop only moves
its boundary, and the sweeper's scan has no say in the order. What the handle has logged
is what it has announced, or that and the event in its hands.

*DecodeService.* Who a slot belongs to is spread over a flag, a join handle, threads and
a call half done. The invariant brings them together: the taken slots are those taken
before the call under way and, apart from them, those it got; a free slot has no thread
to join; a decoder that is not over is the one its slot's join handle names, and so is
the maker of every sample in the ring. A rollback frees a slot only when that decoder is
over, so that the next claim finds neither a producer nor a sample; the call's slots
shrink one by one to none, which is the table it found. A decoder that waits for room has
samples left to push, which keeps its count in range.

*DecodeFeed.* The community modules flatten a sequence of sequences with a recursive function;
that it exists, and hence that one packet more is joined at the end, is again proved by a
least counterexample. `played \o ring \o out` is then the flattening of the packets decoded:
a push and a pop only move its boundaries. Every packet alternates left and right and has an even
length, so the flattening alternates too. Whether the next sample is a left one depends on
the parity of `played`; the invariant says of every stream, in the middle of a read too, that
what was played, the reads that ran out and what the read under way has are together even,
for which a block must be a whole number of frames.

*DecodeService, reports.* A report is sent once per decoder, when it fails, so the reports that wait
are of different decoders that failed before, and fewer than all decoders together while one that
has not failed is left (an injection into a finite set). A channel that is full when a decoder
fails therefore proves that there were more decoders than it has places.

*EventLog.* `file \o buf` is `DurableLog`'s log and `Len(file)` its kept prefix. A
write, wherever it stops, only moves lines from one to the other (`FlushMoves`), so
that it is a `Persist`; an append is an `Accept`, or a `Persist` when it is refused;
every end of a process is a `Lose`. The bound on what a crash costs needs the
flush counter: without write errors the buffer is no longer than `since`, which is
below the flush interval. `StoreIsDurable` follows because every step of the store
is a step of the log or leaves it alone. For
`ReplayCorrect` the live state is the fold of all lines the process received, whether or not
they were written; one event more is one step more of the fold. The code sorts
by a start only, so the list is cut from any of the orders that leaves (`Sortings`); that there
is one for every finite set is proved from a least cardinality without, by inserting an element. The sweep spares the newest because the floor it
keeps is newer than all else, unless the floor is every session, when nothing is removed.

*Recorder.* Samples move from the ring to the write buffer and from there to the file, so
`Recorded`, the three in a row, changes only where a block is rendered: at its end, by what
fits. That what fits is whole frames is a matter of parity: the ring, its capacity, the
scratch and every piece are even, which the invariant keeps of each (`Even`, `WholeFrames`); without
it a block cut by a full ring would part a left sample from its right one. Frames on the
way are numbered below those still to be rendered, which keeps a new block behind them. A write that
fails, or the end of the process, leaves the file a beginning of `Recorded`, and
beginnings of pairs are pairs. The header is a placeholder until the recorder has
finished, which it does only after the writer has. A frame is in `Recorded` or in `dropped`
until a write fails; from there on some are in neither, and only the inequality is left. What a
finished file lacks beyond the count lies in the ring: the writer ends on a pop that found nothing
and a flag it reads afterwards, and a block may come between. The export's silence is a run of
blocks, and the first loud one stands behind it; chapter starts are the order of a finite
set, as above, and rounding to milliseconds is monotone, so that none is after the end.

*TimeStretch.* Until a hop wider than `WINDOW + SEARCH` has been asked for (`widest`), the
read cursor of a channel, the hop it is about to take included, never passes the write cursor: a
hop is taken only when that much sound has come, so that the subtraction in `compact_ring` stays
at zero or above. The two channels are walked one after the other by a loop that reads its own
cursors only; the invariant says that the right one, while it runs, stands at some frame of the
left one's walk, which starts from the same cursors with the same knobs, so that both end
equal and have returned equally many frames. What a block has beyond the frames written was zeroed by this very call.

*Shell.* The child is killed by the drop that sees the count at one. The invariant says that a
child not yet killed has a holder that may still kill it, unless two drops read the count before
either gave its handle up (`raced`), the shell crashed, or the process ended under a clone of a
thread that `main` does not wait for; and since the count is that of the
handles not given up, a drop that sees one has no other holder to take the engine from.

*BarLoop.* The grid's answer is a ceiling of a rounded quotient: by the lemmas on division, the
rounded bar is off by at most half a millisecond, and the bar chosen is the first that is not
behind the playhead. An analysed grid is sorted by the load, and the first downbeat ahead in a
sorted sequence is the least ahead. The presets are compared distance by distance, the
smaller first, which is the nearest preset with ties to the smaller.

*HttpSource.* `Right` says of a cached page that its bytes are the track's, from where it
says they are, and end within it. It holds of what a server that honours ranges or gives a
length sends, and moving and evicting pages keeps it. A page a read has just fetched
is among the last `FetchPages` pushed, of which the cache keeps more, so that the second look after a
fetch finds it, which needs what a fold of pushes leaves (`Pushed`, again by a least
counterexample); and the whole of a server's track is in the cache when it can send nothing
but all of it and says how long it is.

*MidiClock.* Of the follower the invariant says (`Stands`) that it stands some ticks behind a
whole beat of what was received since Start, that the anchor is that beat's time, and
that the window shows the last plausible tempi of the beats before; `Tempi` of one tick more is
`Tempi`, or one beat longer. What was last emitted is the clock's tempo unless the clock was set,
and the mean of the window is within the dead-band of it. Of the tick thread it says that
the deadline lies a period after the tick before the last one, so a tick sent at or after it does too;
a tick that comes late moves the deadline to the present, never the ticks behind it together.

*Effects, AudioCallback.* The invariant says where a frame can still be heard: the cell as far
behind the echo's write head as the delay is long holds as its newest frame the one fed that long
ago, and the cells of the reverb and the filter's state only frames fed since the assignment.
Frames fed rise and lie below the one now played. The gate's own count is
never ahead of the callback's frame, and level with it as soon as a block of the callback has gone
through the effect, which is what the first block of a callback must set right. A block is a
fold over its frames; that the fold exists is proved by a least counterexample. An LFO
swings within its depth and the clamp keeps what it moves in range. That the gauge's peak is
the longest callback since it was last taken is inductive as it stands.

*MidiInput.* The invariant says of a control whose last turn was not lost that either some event in
the channel is the last one about it and carries that turn, or none is about it and the control
stands by the turn. A new event goes behind the others, a fold takes the first; the rest is that
the reducer moves a band, a pitch or the crossfader for a turn of just that control and for no button,
and that every conversion ends within the reducer's clamp, but for an EQ range of the mapping.

Assumptions: `ConstantsAssumption`, `LfoAssumption` and `ParamSpecAssumption` (descriptors name
known parameters, min <= default <= max; no LFO is the absent one), `DescriptorsAssumption` (an
effect has at most `MAX_PARAMS` parameters and each once), `ControlPlaneAssumption` (a ring of at least one
place, inputs the wire can carry), `TokenBucket`'s and `Gateway`'s (positive burst and
rate), `WsServerAssumption` (positive capacities, finitely many clients), `BothEndsAssumption`
(finitely many decks, plans of at least one event, a value for none that is none of the others),
`EngineBridgeAssumption` (what clients submit is an event the engine knows),
`DecodeAssumption` (numbered slots, positive sizes, no empty track), `FeedAssumption`
(numbered streams, packets of any length, blocks of whole frames),
`EventLogAssumption` (a positive flush interval, at least one positive buffer size),
`SessionStoreAssumption` (policies and limits are natural numbers), `RecorderAssumption`
(an even ring and scratch, blocks of at least a frame, positive rates),
`PartsAssumption` (positive sizes of rings, pages, windows and periods; a hop no longer than its
window; a fetch no longer than the cache; tempi and positions that are numbers; effects whose
parameters have their default in their range; mapping files that bind notes, knobs and wheels to
what the file's types allow, validated or not).

Model-checked only: every liveness property and whatever needs `ENABLED`, which TLAPS does not
reach: `EverythingLands`, `EveryAcceptedIsFolded`, `OneShotsEndAtHandle`, `NothingHangs`,
`FailuresAreTold` (that nothing needed for it is lost is `ReportsCorrect`), `ReadersAreServed`,
`ShutdownEndsWithClients`, `CallersGetAnEnd`, `StopEnds` and `DropEnds`. Every invariant and every
action property of a passing run is a theorem.

## 5. Where the code and what is said of it part

Besides the five runs above, the models show what the code does in these places,
and the properties are stated with these causes named:

* **State and sound.** A failed load keeps the new state, a load while playing stops only
  the state's deck (`translator.rs` 101, 126 say otherwise). An unload leaves effects,
  pitch and handoff on the audio thread. A manual loop may be armed with its end
  before its start. A second one-shot records `enabled` as the state to go back to.
  `state_changed` is sent only by `submit_event_kind`, which the live wiring never calls.
  Ids are not monotonic in the order of receipt (`rpc.rs` 1023).
* **Sound.** The time stretch runs against the documented direction; it emits hops of
  512 frames of which a block keeps 256, so that the rest is thrown away and the next
  block silent; a short block's padding enters its ring, which the comment rules out;
  sound of an earlier track survives a toggle. The two channels always return equally
  many frames, where `pitch_tempo.rs` 447-449 has their matches make them differ. After an odd number of samples an
  underrun swaps left and right. A muted stem is not read and lags. A delay line that is
  disabled and enabled again plays its old tail. An LFO moves once per callback.
  One not-a-number sample leaves the limiter's envelope not a number for good.
* **Decode.** Slot 15 with the last id is the value for no handle. Probe errors are
  only logged. A server without a length loops the track; a range past the end is an
  error; an unexpected end of file ends a track silently.
* **Disk.** The final flush never runs: `control_loop` holds a sender of its own, and the
  release profile aborts on panic. A refused append leaves a gap. A torn line is
  refused by the replay and counted by the list. The list sorts sessions without
  events first (`sessions.rs` 141-143 say last), and enough of them push all others out of it,
  whatever "most recent" in 48-50 promises. An age limit of 0 days may take the current
  session. Blocks that come between the recorder's last pop and its look at the stop flag
  stay in the ring, in no file and no count, though `recording/mod.rs` 173-175 says the writer
  ends with an empty ring; a recording past 4 GiB keeps
  its placeholder header.
* **Bridge.** An id is used up by a rejected submit and a token by an invalid one; the
  timer of the handshake starts anew with each frame, so that a stranger who keeps sending is
  never closed (modelled, and forbidden by no property); a library call holds up the
  client's later frames.
* **MIDI.** The source of the clock and the follower's state change in two steps; the follower's
  deadband is measured from the last tempo it sent, whatever was set since; lower-case hexadecimal keys never match; the last
  turn of a knob is lost on a full channel; a mapping may give an EQ knob a wider range than the
  reducer, whose clamp then ends it before the knob does (`clamp.rs` 21 asks that both agree). Nothing in `main.rs` starts the listener.
* **Co-pilot.** A source that changes under a running mix starts a second; switching
  auto-mix off cancels the last only; an ended task forgets its successor. A failed
  submit loses the head of the playlist. A handshake that times out is fatal.
* **UI and shell.** The close of an old socket takes away the new one, whose frames
  then reach nobody's calls; an old timer makes the client forget a later one. Two guards dropped at once
  may both take the other for the last, and leave the engine running; so does a `main` that
  returns while another thread has a clone, though `main.rs` 11-12 says the drop of the managed
  guard kills the engine. The updater's fetch is a placeholder that fails.

## 6. Not modelled

* Sample arithmetic: gains, filters, windows and resampling are left out of the signal
  modules, which keep counts and identities of frames.
* Frame stamps and ramps of commands: the mixer applies a command when it pops it.
* The handle's methods that only copy state out; texts of errors; argument parsing;
  device enumeration; parsing of frames and files; the time comparison of tokens.
* `clock_sync/`: a stub without behaviour.
* Co-pilot library, presets, analysis and cloud sync: databases and network services
  beside the engine, reached by none of the paths above but the library proxy.
* UI stores and components: presentation of what notices say.
* Two engine processes on one persistence root at the same time.

## 7. Plan

What would add most from here: the composition of
`WsServer` with `EngineBridge` through an abstract connection (answers in order, notices
with gaps); the co-pilot's sync cursor against a server that repeats itself.
