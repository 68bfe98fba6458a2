-------------------------------- MODULE Parts --------------------------------
(***************************************************************************)
(* Parts of the product that share no state: bar loops (BarLoop), the      *)
(* pitch and tempo knobs of a deck (TimeStretch), a track read over HTTP   *)
(* (HttpSource), the desktop shell (Shell), the MIDI clock (MidiClock), a  *)
(* slot of the effects chain (Effects), the device's callback              *)
(* (AudioCallback) and the MIDI listener (MidiInput).                      *)
(***************************************************************************)
EXTENDS BarLoop, MidiInput

CONSTANTS
  WINDOW, HOP_OUT, SEARCH, RING_LEN, CHUNK_FRAMES, SCRATCH_CAPACITY, Blocks,
  Tempos, Pitches, MaxFrames,                           \* of a stretcher
  PAGE_SIZE, MAX_CACHED_PAGES, FetchPages, Servers, Reads, Seeks, MaxPos,  \* of a track
  Threads, Versions, Release, Malformed, MaxClones,     \* of the shell
  Minute, TICKS_PER_BEAT, SMOOTHING_WINDOW, BPM_DEADBAND, MIN_PLAUSIBLE_BPM, MAX_PLAUSIBLE_BPM,
  MIN_TICK_PERIOD, MAX_TICK_PERIOD, SPIN_FLOOR,
  MasterTempos, MaxTime, MaxBytes, MaxSets,             \* of the MIDI clock
  ParamSpec, SampleRate, STEREO_PULL_FRAMES, MAX_DELAY_FRAMES, CombSizes, Callbacks, FxTempos,
  FxCommands, MaxFxFrames, MaxFxCommands,               \* of the effects
  Devices, Fragment, CallbackFrames, MAX_MONO_FRAMES, Durations, CounterWidth, RingCapacity,
  MaxSwitches                                           \* of the callback

VARIABLES
  last_tempo_ratio, last_pitch_semitones, wsola, call, block, widest,
  server, source, pos, total_len, accept_ranges, pages, last_read, broken,
  app, child, inner, guard, clones, raced, updater,
  time, clock_bpm, clock_source, input, follower, byte, output, worker, deadline, period,
  port, ticks, set_since, received, sets,
  bank, filter, echo, reverb, local_frame, fx_frame, fx_bpm, fx_callback, fed, heard, applied,
  device, switches, switched, limiter, sidechain, frame, callback, peak, reader, owed

stretch_vars == <<last_tempo_ratio, last_pitch_semitones, wsola, call, block, widest>>
http_vars == <<server, source, pos, total_len, accept_ranges, pages, last_read, broken>>
shell_vars == <<app, child, inner, guard, clones, raced, updater>>
midi_vars == <<time, clock_bpm, clock_source, input, follower, byte, output, worker, deadline,
               period, port, ticks, set_since, received, sets>>
fx_vars == <<bank, filter, echo, reverb, local_frame, fx_frame, fx_bpm, fx_callback, fed, heard,
             applied>>
audio_vars == <<device, switches, switched, limiter, sidechain, frame, callback, peak, reader, owed>>

Knobs == INSTANCE TimeStretch
Http == INSTANCE HttpSource
Desktop == INSTANCE Shell
Midi == INSTANCE MidiClock WITH
  now <- time, bpm <- clock_bpm, source <- clock_source, sent <- port, Tempos <- MasterTempos
Fx == INSTANCE Effects WITH
  frame <- fx_frame, bpm <- fx_bpm, callback <- fx_callback, Bpms <- FxTempos,
  MaxFrames <- MaxFxFrames, MaxCommands <- MaxFxCommands
Audio == INSTANCE AudioCallback WITH
  commands <- switches, sent <- switched, MaxCommands <- MaxSwitches

ASSUME PartsAssumption ==
  /\ BarLoopConstants /\ Knobs!TimeStretchConstants
  /\ Http!HttpSourceConstants /\ Desktop!ShellConstants /\ Midi!MidiClockConstants
  /\ Fx!EffectsConstants /\ Audio!CallbackConstants
  /\ MidiInputConstants

-----------------------------------------------------------------------------
(* A stretcher aborts only once the knobs asked for too wide a hop, which  *)
(* a test says no setting of theirs makes it do (TimeStretch).             *)
PanicsOnlyOverreaching == Knobs!PanicsOnlyOverreaching
NeverPanics == Knobs!NeverPanics

(* The two channels of a stretcher keep step and a block holds no sound of *)
(* an earlier call (TimeStretch).                                          *)
StretchIsTidy == Knobs!ChannelsInStep /\ Knobs!BlocksAreFresh

(* What a decoder reads over HTTP is the track, and it is told of the end  *)
(* at the end and of an error only when the network failed (HttpSource).   *)
ReadsLikeAFile == Http!ReadsAreTheTrack /\ Http!EndsOnlyAtTheEnd

(* A bar loop starts at the next downbeat and is as long as the nearest    *)
(* preset (BarLoop).                                                       *)
BarLoopFits == LoopStartsAtNextDownbeat /\ LoopHasNearestPreset

(* The engine outlives the app only after a crash of the shell, a return   *)
(* of main under a clone still held or a race of two drops; a drop spares  *)
(* a handle still held, and the updater offers only upgrades (Shell).      *)
ShellKeepsWord ==
  Desktop!OrphanOnlyForCause /\ Desktop!DropSparesTheOthers /\ Desktop!OffersAreUpgrades

(* The clock follows the last whole beats, within the deadband, and the    *)
(* output port sees one Start, then ticks, and a Stop last (MidiClock).    *)
ClockHolds ==
  /\ Midi!TypeOK /\ Midi!WindowIsLastBeats /\ Midi!ClockWithinDeadband /\ Midi!PortProtocol

(* A late worker does not make up for lost ticks (MidiClock). *)
NoCatchUp == Midi!NoCatchUp

(* No sound of an earlier assignment comes out of an effect's memory, the  *)
(* echo repeats what it was fed delay_frames ago, the gate keeps the time  *)
(* that is played, the filter's coefficients are fresh and no parameter is *)
(* swung out of its range (Effects); and no slow callback escapes the      *)
(* gauge (AudioCallback).                                                  *)
CallbackIsTrue ==
  /\ Fx!NothingBleeds /\ Fx!EchoIsADelay /\ Fx!GateKeepsTime
  /\ Fx!FilterIsTuned /\ Fx!ParamsInRange
  /\ Audio!NoPeakLost
=============================================================================
