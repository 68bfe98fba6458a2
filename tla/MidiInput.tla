----------------------------- MODULE MidiInput -----------------------------
(***************************************************************************)
(* MIDI controllers: the mapping of messages to events (midi/mapping.rs),  *)
(* its value conversions (midi/clamp.rs), and the listener whose callback  *)
(* puts the events on a bounded channel without ever waiting               *)
(* (midi/listener.rs), in front of the reducer.  A mapping is a function   *)
(* from keys to bindings; a key is spelled the way lookups spell it or     *)
(* otherwise.  Values are in the reducer's units.                          *)
(***************************************************************************)
EXTENDS EngineState

CONSTANTS
  Mappings,          \* mapping files
  Messages,          \* what controllers send
  ChannelCapacity,   \* of the event channel
  MaxMessages        \* bound: messages

VARIABLES mapping, channel, next_id, engine, messages, last
  \* last: history: of every control, its last event and whether it was lost

listener_vars == <<mapping, channel, next_id, engine, messages, last>>
-----------------------------------------------------------------------------
DEFAULT_EQ_DB_LO == -260
DEFAULT_EQ_DB_HI == 60

clamp_midi_byte(b) == b % 128

\* Division that rounds toward zero, so that scales are symmetric.
Scaled(n, of, by) == IF n < 0 THEN -((-n * by) \div of) ELSE (n * by) \div of

cc_to_unit(v) == Scaled(clamp_midi_byte(v), 127, 100)

SafeRange(range) ==
  IF range # None /\ NonFinite \notin {range.lo, range.hi} /\ range.lo < range.hi THEN range
  ELSE [lo |-> DEFAULT_EQ_DB_LO, hi |-> DEFAULT_EQ_DB_HI]

cc_to_range(v, range) ==
  LET r == SafeRange(range) IN r.lo + Scaled(clamp_midi_byte(v), 127, r.hi - r.lo)

HalfScaled(n, below, above, range) ==
  Clamp(IF n >= 0 THEN Scaled(n, above, range) ELSE Scaled(n, below, range), -120, 120)

pitch_bend_14_to_semitones(lsb, msb, range) ==
  HalfScaled(clamp_midi_byte(msb) * 128 + clamp_midi_byte(lsb) - 8192, 8192, 8191,
             IF range # NonFinite /\ range > 0 THEN range ELSE 20)

clamp_hot_cue_slot(slot) == Clamp(slot, 0, 7)

cc_to_semitones(v) == HalfScaled(clamp_midi_byte(v) - 64, 64, 63, 20)
-----------------------------------------------------------------------------
NoteActions == {"DeckPlay", "DeckCue", "HotCueTrigger", "LoopIn", "LoopOut", "LoopExit",
                "CopilotEngage", "TakeOver"}
EqActions == {"Low", "Mid", "High"}

\* What a file may bind to a note, a knob and a pitch wheel.
MapDeck == DeckId \cup {None}
NoteBinding ==
  [deck : MapDeck, action : NoteActions, slot : Nat \cup {None}, range : {None}]
CcBinding ==
  [deck : MapDeck, action : EqActions \cup {"Crossfader", "PitchBend"}, slot : {None},
   range : [lo : Real32, hi : Real32] \cup {None}]
PitchBendBinding == [deck : DeckId, action : {None}, slot : {None}, range : Real32]

\* Lookups format the key anew and compare texts.
LookupKey(msg) == [msg |-> msg.key, spelled |-> "as_looked_up"]

MidiInputConstants ==
  /\ ChannelCapacity \in Nat \ {0} /\ MaxMessages \in Nat
  /\ \A msg \in Messages : msg.short \in BOOLEAN /\ msg.data1 \in Nat /\ msg.data2 \in Nat
  /\ \A file \in Mappings, msg \in Messages :
       LET key == LookupKey(msg)
       IN key \in DOMAIN file =>
            /\ msg.status = "note_on" => file[key] \in NoteBinding
            /\ msg.status = "cc" => file[key] \in CcBinding
            /\ msg.status = "pitch_bend" => file[key] \in PitchBendBinding

\* Mapping::validate, of one binding: a hot cue needs a slot, everything but
\* the crossfader a deck (the wheel, a binding without an action, always has
\* one), and the range of a knob, whatever its action, its order.
Valid(b) ==
  /\ b.action = "HotCueTrigger" => b.slot # None
  /\ b.action \in NoteActions => b.slot \in {None} \cup CueSlots
  /\ b.action # "Crossfader" => b.deck # None
  /\ b.action # None /\ b.range # None =>
       NonFinite \notin {b.range.lo, b.range.hi} /\ b.range.lo < b.range.hi

from_json_str(file) == IF \A k \in DOMAIN file : Valid(file[k]) THEN file ELSE None

Binding(msg) ==
  IF LookupKey(msg) \in DOMAIN mapping THEN mapping[LookupKey(msg)] ELSE None

translate_note(b) ==
  CASE b.action = "DeckCue" -> [kind |-> "DeckCue", deck |-> b.deck, position_ms |-> 0]
    [] b.action = "HotCueTrigger" -> [kind |-> "HotCueTrigger", deck |-> b.deck, slot |-> clamp_hot_cue_slot(b.slot)]
    [] b.action = "TakeOver" -> [kind |-> "TakeOver", deck |-> b.deck, handoff_until_frame |-> 0]
    [] OTHER -> [kind |-> b.action, deck |-> b.deck]

translate_cc(b, v) ==
  CASE b.action = "Crossfader" -> [kind |-> "Crossfader", value |-> cc_to_unit(v)]
    [] b.action = "PitchBend" -> [kind |-> "PitchBend", deck |-> b.deck, semitones |-> cc_to_semitones(v)]
    [] OTHER -> [kind |-> "EqAdjust", deck |-> b.deck, band |-> b.action, value_db |-> cc_to_range(v, b.range)]

translate_pitch_bend(b, msg) ==
  [kind |-> "PitchBend", deck |-> b.deck,
   semitones |-> pitch_bend_14_to_semitones(msg.data1, msg.data2, b.range)]

(* Short messages, releases and what has no binding come to nothing. *)
EventOf(msg) ==
  LET b == Binding(msg)
  IN IF msg.short \/ b = None THEN None
     ELSE CASE msg.status = "note_on" /\ clamp_midi_byte(msg.data2) > 0 -> translate_note(b)
            [] msg.status = "cc" -> translate_cc(b, msg.data2)
            [] msg.status = "pitch_bend" -> translate_pitch_bend(b, msg)
            [] OTHER -> None

\* What an event sets, and to what; None for buttons.
Control(ev) ==
  CASE ev.kind = "EqAdjust" -> <<ev.deck, ev.band>>
    [] ev.kind = "PitchBend" -> <<ev.deck, "pitch">>
    [] ev.kind = "Crossfader" -> <<"master", "crossfader">>
    [] OTHER -> None
Setting(ev) ==
  CASE ev.kind = "EqAdjust" -> ev.value_db
    [] ev.kind = "PitchBend" -> ev.semitones
    [] ev.kind = "Crossfader" -> ev.value
    [] OTHER -> None
StandsAt(c) ==
  CASE c[2] = "crossfader" -> engine.crossfader
    [] c[2] = "pitch" -> engine.deck[c[1]].pitch_semitones
    [] OTHER -> engine.deck[c[1]].eq[c[2]]
-----------------------------------------------------------------------------
ListenerInit ==
  /\ mapping \in {from_json_str(f) : f \in Mappings} \ {None}
  /\ channel = <<>> /\ next_id = 1 /\ engine = DefaultState
  /\ messages = 0 /\ last = <<>>

\* Mutant: a full channel gives up its oldest event.
TrySend_makesRoom(ev) == channel' = Append(IF Len(channel) < ChannelCapacity THEN channel ELSE Tail(channel), ev)

(* try_send: an event that does not fit is dropped. *)
TrySend(ev) == channel' = IF Len(channel) < ChannelCapacity THEN Append(channel, ev) ELSE channel

(* The callback; an event takes an id whether it fits or not. *)
handle_midi_message(msg) ==
  /\ messages < MaxMessages /\ messages' = messages + 1
  /\ LET kind == EventOf(msg)
         ev == [id |-> next_id, kind |-> kind]
     IN IF kind = None THEN UNCHANGED <<channel, next_id, last>>
        ELSE /\ next_id' = next_id + 1
             /\ TrySend(ev)
             /\ last' = IF Control(kind) = None THEN last
                        ELSE [c \in DOMAIN last \cup {Control(kind)} |->
                                IF c # Control(kind) THEN last[c]
                                ELSE [to |-> Setting(kind), lost |-> Len(channel) = ChannelCapacity]]
  /\ UNCHANGED <<mapping, engine>>

(* The control thread folds the next event. *)
Fold ==
  /\ channel # <<>>
  /\ engine' = Apply(engine, Head(channel).kind)
  /\ channel' = Tail(channel)
  /\ UNCHANGED <<mapping, next_id, messages, last>>

ListenerNext == (\E msg \in Messages : handle_midi_message(msg)) \/ Fold
-----------------------------------------------------------------------------
\* The mapping gives an EQ knob more than the reducer lets through.
WiderThanReducer(c) ==
  \E k \in DOMAIN mapping :
    LET b == mapping[k]
    IN /\ b.action \in EqActions /\ c = <<b.deck, b.action>>
       /\ SafeRange(b.range).lo < DEFAULT_EQ_DB_LO \/ SafeRange(b.range).hi > DEFAULT_EQ_DB_HI

\* Where a control comes to stand: the reducer clamps an EQ band once more.
Landed(c, v) == IF c[2] \in Bands THEN Clamp(v, DEFAULT_EQ_DB_LO, DEFAULT_EQ_DB_HI) ELSE v

(* With nothing on its way, every control the engine heard last stands     *)
(* where its controller left it: a later turn is never overtaken by an     *)
(* earlier one, and what the listener clamps to, the reducer does not      *)
(* clamp again (clamp.rs: "Both layers must stay in sync") unless the      *)
(* mapping's range is wider than the reducer's.  A last turn that met a    *)
(* full channel is lost.                                                   *)
ControlsStandWhereTurned ==
  channel = <<>> =>
    \A c \in DOMAIN last :
      \/ last[c].lost
      \/ StandsAt(c) = last[c].to
      \/ WiderThanReducer(c) /\ StandsAt(c) = Landed(c, last[c].to)
=============================================================================
