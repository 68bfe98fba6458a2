------------------------------ MODULE MCParts ------------------------------
(***************************************************************************)
(* Eight parts of the product that share no state with each other: the     *)
(* stretcher of a deck, a track read over HTTP, the device's callback, a   *)
(* slot of the effects chain, bar loops, the desktop shell, the MIDI clock *)
(* and the MIDI listener.  A behaviour is one of any of them.              *)
(***************************************************************************)
EXTENDS Parts, TLC

VARIABLE part

mc_vars == <<part, vars, stretch_vars, shell_vars, http_vars, audio_vars, fx_vars, midi_vars,
             listener_vars>>

-----------------------------------------------------------------------------
MCTempos == {-3, 0, 2, NonFinite}
MCPitches == {-1, 0, 3}

(* Tracks of no byte, of whole pages and of a fraction of one, the longest *)
(* more than the cache holds; servers without ranges, a length, or both.   *)
Server(ranges, length, size) == [ranges |-> ranges, length |-> length, size |-> size]
MCServers ==
  {Server(TRUE, TRUE, size) : size \in {0, 8, 11}}
    \cup {Server(FALSE, TRUE, 11), Server(TRUE, FALSE, 9), Server(FALSE, FALSE, 5)}

MCSeeks == {-3, 0, 5}

MCDevices == {<<>>, <<{"built-in"}, {"blackhole"}>>, <<{"built-in"}>>}

Descriptor(min, max, default) == [min |-> min, max |-> max, default |-> default]
MCParamSpec ==
  "cutoff_hz" :> Descriptor(20, 20000, 500) @@ "resonance" :> Descriptor(0, 100, 30)
    @@ "mode" :> Descriptor(0, 2, 0)
    @@ "time_ms" :> Descriptor(10, 2000, 250) @@ "feedback" :> Descriptor(0, 95, 45)
    @@ "tone" :> Descriptor(-100, 100, 0)
    @@ "room_size" :> Descriptor(0, 100, 50) @@ "damping" :> Descriptor(0, 100, 40)
    @@ "width" :> Descriptor(0, 100, 70)
    @@ "period_div" :> Descriptor(0, 3, 1) @@ "duty" :> Descriptor(0, 100, 50)

SetLfo(shape, rate_div, target) ==
  [kind |-> "EffectLfoSet",
   config |-> [shape |-> shape, rate_div |-> rate_div, depth |-> 100, target_param |-> target]]

MCFxCommands ==
  [kind : {"EffectAssign"}, effect_id : 1..4] \cup [kind : {"EffectClear", "EffectLfoClear"}]
    \cup [kind : {"EffectEnable"}, enabled : BOOLEAN] \cup [kind : {"EffectWetDry"}, value : {0}]
    \cup [kind : {"EffectParam"}, param_id : {1, 2}, value : {0, 9999}]
    \cup {SetLfo("sine", "beat", 0), SetLfo("saw", "beat", 0), SetLfo("square", "half", 1)}

MCParamNames == DOMAIN MCParamSpec
MCDescriptors ==
  <<<<"cutoff_hz", "resonance", "mode">>, <<"time_ms", "feedback", "tone">>,
    <<"room_size", "damping", "width">>, <<"period_div", "duty">>>>

(* Eight frames a second: a beat is four or two of them, the echo's line   *)
(* holds half a second, and a block is two frames of a callback of three.  *)
MCCombSizes == <<1, 2>>

Grid(tempo, anchor, downbeats) ==
  [kind |-> "DeckLoad", deck |-> "A", track |-> "song", bpm |-> tempo,
   beat_grid_anchor_ms |-> anchor, downbeats_ms |-> downbeats,
   hot_cues |-> [c \in 0..7 |-> None], track_gain_db |-> 0]

(* Whole and fractional bars (2000, 1714.3 and 2474.2 ms), no tempo at all *)
(* (the load falls back to 120), a late anchor, analysed downbeats; and    *)
(* positions on the bar lines, just before, just after, and far from them. *)
MCGrids ==
  {Grid(120, 0, <<>>), Grid(140, 0, <<>>), Grid(97, 310, <<>>), Grid(0, 0, <<>>),
   Grid(140, 0, <<12, 1726, 3440>>)}
MCPositions ==
  {0, 11, 12, 13, 309, 310, 311, 1713, 1714, 1715, 1726, 1727, 1999, 2000, 2001,
   2784, 2785, 3428, 3429, 3440, 3441, 5000, 5143, 10286}
MCRequests == 0..17 \cup {255}

MCVersions == [core : 1..2, pre : {0, 2}]

(* Of the MIDI clock, where a beat is two ticks and a minute two beats of  *)
(* the slowest tempo.                                                      *)
MCMasterTempos == {20, NonFinite}

Key(msg, spelled) == [msg |-> msg, spelled |-> spelled]
Bind(d, action) == [deck |-> d, action |-> action, slot |-> None, range |-> None]

Pad == Key("pad", "as_looked_up")
Knob == Key("knob", "as_looked_up")
Wheel == Key("wheel", "as_looked_up")

Narrow == [lo |-> -100, hi |-> 0]
Wide == [lo |-> -600, hi |-> 120]
Reversed == [lo |-> 0, hi |-> -100]
MCMappings ==
  { (Pad :> b) : b \in {Bind("A", "DeckPlay"), Bind("A", "DeckCue"), Bind("A", "TakeOver"), Bind(None, "LoopIn"),
                        Bind("A", "HotCueTrigger"), [Bind("A", "HotCueTrigger") EXCEPT !.slot = 7]} } \cup
  { (Knob :> b) : b \in {Bind(None, "Crossfader"), Bind("A", "PitchBend"), Bind("A", "Low"),
                         [Bind("B", "High") EXCEPT !.range = Narrow],
                         [Bind("B", "High") EXCEPT !.range = Wide],
                         [Bind("B", "High") EXCEPT !.range = Reversed],
                         [Bind(None, "Crossfader") EXCEPT !.range = Reversed]} } \cup
  { (Knob :> Bind("A", "Low")) @@ (Wheel :> [Bind("A", None) EXCEPT !.range = r])
      : r \in {20, 240, NonFinite, -5} } \cup
  { (Key("knob", "in lower case") :> Bind(None, "Crossfader")) }

Msg(status, key, d1, d2) == [status |-> status, key |-> key, data1 |-> d1, data2 |-> d2, short |-> FALSE]
MCMessages ==
  { Msg("note_on", "pad", 0, 127), Msg("note_on", "pad", 0, 128), Msg("note_off", "pad", 0, 64),
    Msg("sysex", "pad", 0, 0), [Msg("cc", "knob", 0, 0) EXCEPT !.short = TRUE] } \cup
  { Msg("cc", "knob", 0, v) : v \in {0, 63, 64, 127, 255} } \cup
  { Msg("pitch_bend", "wheel", 0, 0), Msg("pitch_bend", "wheel", 0, 64), Msg("pitch_bend", "wheel", 127, 127) }

-----------------------------------------------------------------------------
\* The parts that do not run stand in some initial state of theirs.
MCInit ==
  /\ part \in {"stretch", "http", "audio", "effects", "bars", "shell", "clock", "listener"}
  /\ Init /\ Knobs!Init /\ Desktop!Init /\ Http!Init /\ Audio!Init /\ Fx!Init
  /\ Midi!Init /\ ListenerInit
  /\ part # "http" => server = Server(TRUE, TRUE, 11)
  /\ part # "audio" => device = None
  /\ part # "effects" => fx_bpm = 120
  /\ part # "clock" => input = "none" /\ output = "none"
  /\ part # "listener" => mapping = (Pad :> Bind("A", "DeckPlay"))

Only(p) ==
  /\ part = p /\ UNCHANGED part
  /\ p # "stretch" => UNCHANGED stretch_vars
  /\ p # "http" => UNCHANGED http_vars
  /\ p # "audio" => UNCHANGED audio_vars
  /\ p # "effects" => UNCHANGED fx_vars
  /\ p # "bars" => UNCHANGED vars
  /\ p # "shell" => UNCHANGED shell_vars
  /\ p # "clock" => UNCHANGED midi_vars
  /\ p # "listener" => UNCHANGED listener_vars

MCNext ==
  \/ Only("stretch") /\ Knobs!Next
  \/ Only("http") /\ Http!Next
  \/ Only("audio") /\ Audio!Next
  \/ Only("effects") /\ Fx!Next
  \/ Only("bars") /\ Next
  \/ Only("shell") /\ Desktop!Next
  \/ Only("clock") /\ Midi!Next
  \/ Only("listener") /\ ListenerNext

(* The fairness of MidiClock's Spec. *)
MCSpec ==
  /\ MCInit /\ [][MCNext]_mc_vars
  /\ WF_midi_vars(part = "clock" /\ Midi!Pass) /\ WF_midi_vars(part = "clock" /\ Midi!WorkerStep)
  /\ WF_midi_vars(part = "clock" /\ Midi!JoinWorker)

-----------------------------------------------------------------------------
(* Dropping the clock's output ends although its worker may be asleep      *)
(* (MidiClock).                                                            *)
DropEnds == Midi!DropEnds
=============================================================================
