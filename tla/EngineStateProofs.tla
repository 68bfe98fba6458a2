-------------------------- MODULE EngineStateProofs --------------------------
(***************************************************************************)
(* What the reducer keeps, for every event the wire can carry.             *)
(***************************************************************************)
EXTENDS EngineState, SequenceTheorems, WellFoundedInduction, TLAPS

(* A clamped value is inside its range. *)
LEMMA ClampRange ==
  ASSUME NEW x \in Int, NEW lo \in Int, NEW hi \in Int, lo <= hi
  PROVE  Clamp(x, lo, hi) \in lo..hi
BY DEF Clamp

(* Rounding and ceiling of non-negative fractions are natural numbers. *)
LEMMA DivNat ==
  ASSUME NEW a \in Nat, NEW b \in Nat \ {0}
  PROVE  RoundDiv(a, b) \in Nat /\ CeilDiv(a, b) \in Nat
<1>1. 2 * a + b \in Nat /\ 2 * b \in Nat \ {0} /\ a + b - 1 \in Nat
  OBVIOUS
<1>2. ASSUME NEW p \in Nat, NEW q \in Nat \ {0} PROVE p \div q \in Nat
  BY <1>2
<1>3. QED
  BY <1>1, <1>2 DEF RoundDiv, CeilDiv

LEMMA ProductNat ==
  ASSUME NEW a \in Nat, NEW b \in Nat
  PROVE  a * b \in Nat
OBVIOUS

LEMMA PresetNat ==
  ASSUME NEW bars \in Nat
  PROVE  clamp_loop_bars(bars) \in {1, 2, 4, 8, 16}
<1>1. CASE bars <= 1 \/ bars >= 16
  BY <1>1 DEF clamp_loop_bars
<1>2. CASE bars > 1 /\ bars < 16
  <2>1. \E i \in 1..4 : LOOP_BAR_PRESETS[i] <= bars /\ bars <= LOOP_BAR_PRESETS[i + 1]
    <3>1. CASE bars <= 2
      <4>1. LOOP_BAR_PRESETS[1] = 1 /\ LOOP_BAR_PRESETS[1 + 1] = 2
        BY DEF LOOP_BAR_PRESETS
      <4>2. QED BY <3>1, <1>2, <4>1
    <3>2. CASE bars > 2 /\ bars <= 4
      <4>1. LOOP_BAR_PRESETS[2] = 2 /\ LOOP_BAR_PRESETS[2 + 1] = 4
        BY DEF LOOP_BAR_PRESETS
      <4>2. QED BY <3>2, <4>1
    <3>3. CASE bars > 4 /\ bars <= 8
      <4>1. LOOP_BAR_PRESETS[3] = 4 /\ LOOP_BAR_PRESETS[3 + 1] = 8
        BY DEF LOOP_BAR_PRESETS
      <4>2. QED BY <3>3, <4>1
    <3>4. CASE bars > 8
      <4>1. LOOP_BAR_PRESETS[4] = 8 /\ LOOP_BAR_PRESETS[4 + 1] = 16
        BY DEF LOOP_BAR_PRESETS
      <4>2. QED BY <3>4, <1>2, <4>1
    <3>5. QED BY <3>1, <3>2, <3>3, <3>4
  <2>2. \A i \in 1..4 : LOOP_BAR_PRESETS[i] \in {1, 2, 4, 8, 16}
                        /\ LOOP_BAR_PRESETS[i + 1] \in {1, 2, 4, 8, 16}
    BY DEF LOOP_BAR_PRESETS
  <2>3. QED
    BY <1>2, <2>1, <2>2 DEF clamp_loop_bars
<1>3. QED
  BY <1>1, <1>2

(* A non-empty set of naturals has a least element. *)
LEMMA LeastNat ==
  ASSUME NEW S, S \subseteq Nat, S # {}
  PROVE  \E i \in S : \A j \in S : i <= j
<1> DEFINE R == {p \in Nat \X Nat : p[1] < p[2]}
<1>1. R = OpToRel(<, Nat)
  BY Zenon DEF OpToRel
<1>2. \E i \in S : \A j \in S : ~(<<j, i>> \in R)
  <2>1. IsWellFoundedOn(R, Nat)
    BY <1>1, NatLessThanWellFounded
  <2> HIDE DEF R
  <2>2. QED
    BY <2>1, WFMin
<1>3. PICK i \in S : \A j \in S : ~(<<j, i>> \in R)
  BY <1>2
<1>4. ASSUME NEW j \in S PROVE i <= j
  <2>1. i \in Nat /\ j \in Nat
    OBVIOUS
  <2>2. j < i => <<j, i>> \in R
    BY <2>1
  <2>3. QED
    BY <1>3, <2>1, <2>2
<1>5. QED
  BY <1>4

(* The downbeat a loop starts on is a position. *)
LEMMA DownbeatNat ==
  ASSUME NEW pos \in Nat, NEW anchor \in Nat, NEW bpm \in Nat \ {0}, NEW db \in Seq(Nat)
  PROVE  next_downbeat_at_or_after_ms(pos, anchor, bpm, db) \in Nat
<1> DEFINE later == {i \in DOMAIN db : db[i] >= pos}
<1>1. GridDownbeat(pos, anchor, bpm) \in Nat
  <2>1. CASE pos <= anchor
    BY <2>1 DEF GridDownbeat
  <2>2. CASE pos > anchor
    <3> DEFINE bar == BeatsPerBar * MinuteMs
               m   == (pos - anchor) * bpm
               n   == CeilDiv(m, bar)
               x   == anchor * bpm + n * bar
    <3>1. bar \in Nat \ {0}
      BY SMT DEF BeatsPerBar, MinuteMs
    <3>2. m \in Nat
      <4>1. pos - anchor \in Nat
        BY <2>2
      <4>2. QED BY <4>1, ProductNat
    <3> HIDE DEF bar, m
    <3>3. n \in Nat
      BY <3>1, <3>2, DivNat
    <3> HIDE DEF n
    <3>4. x \in Nat
      BY <3>1, <3>3, ProductNat
    <3> HIDE DEF x
    <3>5. RoundDiv(x, bpm) \in Nat
      BY <3>4, DivNat
    <3> USE DEF bar, m, n, x
    <3>6. GridDownbeat(pos, anchor, bpm) = RoundDiv(x, bpm)
      BY <2>2 DEF GridDownbeat
    <3>7. QED
      BY <3>5, <3>6
  <2>3. QED BY <2>1, <2>2
<1>2. CASE later = {}
  BY <1>1, <1>2 DEF next_downbeat_at_or_after_ms
<1>3. CASE later # {}
  <2>1. DOMAIN db \subseteq Nat /\ later \subseteq DOMAIN db
    OBVIOUS
  <2>2. \E i \in later : \A j \in later : i <= j
    BY <1>3, <2>1, LeastNat
  <2>3. QED
    BY <1>3, <2>2 DEF next_downbeat_at_or_after_ms
<1>4. QED
  BY <1>2, <1>3

-----------------------------------------------------------------------------
(* Slots *)

LEMMA UnitPercent == ASSUME NEW v \in Int PROVE clamp_unit(v) \in Percent
BY SMT DEF clamp_unit, Clamp, Percent

LEMMA EmptySlotType == EmptySlot \in EffectSlot
<1>1. EmptySlot.params \in ParamMap
  BY DEF EmptySlot, ParamMap
<1>2. QED
  BY <1>1 DEF EmptySlot, EffectSlot, LfoOption, OneShotOption, Percent

LEMMA OneShotType ==
  ASSUME NEW d \in Deck, NEW s \in EffectSlot, NEW ts \in Int, NEW beats \in Nat,
         NEW ev, ev.ts = ts, ev.beats = beats
  PROVE  OneShot(d, s, ev) \in EffectSlot
<1> DEFINE beat == IF d.bpm > 0 THEN MinuteMs \div d.bpm ELSE 500
           n    == Clamp(ev.beats, 1, 64)
           os   == [ends_at |-> ev.ts + beat * n, was_enabled |-> s.enabled]
<1>1. d.bpm \in Nat /\ s.enabled \in BOOLEAN
  BY DEF Deck, EffectSlot
<1>2. beat \in Nat
  <2>1. MinuteMs \in Nat
    BY SMT DEF MinuteMs
  <2>2. \A p \in Nat, q \in Nat \ {0} : p \div q \in Nat
    BY SMT
  <2>3. QED
    BY <1>1, <2>1, <2>2
<1>3. n \in Nat
  BY SMT DEF Clamp
<1> HIDE DEF beat, n
<1>4. beat * n \in Nat
  BY <1>2, <1>3, ProductNat
<1>5. os \in OneShotOption
  BY <1>1, <1>4 DEF OneShotOption, OneShotState
<1> HIDE DEF os
<1>6. [s EXCEPT !.enabled = TRUE, !.one_shot = os] \in EffectSlot
  BY <1>5 DEF EffectSlot
<1> USE DEF beat, n, os
<1>7. QED
  BY <1>6 DEF OneShot

(* Every slot event leaves a slot. *)
LEMMA SlotAfterType ==
  ASSUME NEW d \in Deck, NEW s \in EffectSlot, NEW ev \in FxEvent,
         ev.kind \in SlotKinds
  PROVE  SlotAfter(d, s, ev) \in EffectSlot
<1>1. CASE ev.kind = "EffectAssign"
  <2>1. ev.effect_id \in Nat
    BY <1>1 DEF FxEvent
  <2>2. SlotAfter(d, s, ev) = [EmptySlot EXCEPT !.effect_id = ev.effect_id,
                                                !.wet_dry = 50, !.enabled = TRUE]
    BY <1>1 DEF SlotAfter, AssignedSlot
  <2>3. 50 \in Percent
    BY DEF Percent
  <2>4. QED
    BY <2>1, <2>2, <2>3, EmptySlotType DEF EffectSlot
<1>2. CASE ev.kind = "EffectClear"
  BY <1>2, EmptySlotType DEF SlotAfter
<1>3. CASE ev.kind = "EffectParam"
  <2>1. ev.param \in ParamNames /\ ev.value \in Int
    BY <1>3 DEF FxEvent
  <2>2. SlotAfter(d, s, ev) = [s EXCEPT !.params[ev.param] = ev.value]
    BY <1>3 DEF SlotAfter
  <2>3. s.params \in ParamMap
    BY DEF EffectSlot
  <2> DEFINE p == [s.params EXCEPT ![ev.param] = ev.value]
  <2>4. p \in ParamMap
    BY <2>1, <2>3 DEF ParamMap
  <2> HIDE DEF p
  <2>5. [s EXCEPT !.params = p] \in EffectSlot
    BY <2>4 DEF EffectSlot
  <2> USE DEF p
  <2>6. QED
    BY <2>2, <2>5
<1>4. CASE ev.kind = "EffectWetDry"
  <2>1. clamp_unit(ev.value) \in Percent
    BY <1>4, UnitPercent DEF FxEvent
  <2>2. SlotAfter(d, s, ev) = [s EXCEPT !.wet_dry = clamp_unit(ev.value)]
    BY <1>4 DEF SlotAfter
  <2>3. QED
    BY <2>1, <2>2 DEF EffectSlot
<1>5. CASE ev.kind = "EffectEnable"
  <2>1. ev.enabled \in BOOLEAN
    BY <1>5 DEF FxEvent
  <2>2. SlotAfter(d, s, ev) = [s EXCEPT !.enabled = ev.enabled, !.one_shot = None]
    BY <1>5 DEF SlotAfter, EffectEnable
  <2>3. QED
    BY <2>1, <2>2 DEF EffectSlot, OneShotOption
<1>6. CASE ev.kind = "EffectLfoSet"
  <2> DEFINE n   == Len(descriptors(s.effect_id))
             t   == IF ev.target_param < n THEN ev.target_param
                    ELSE IF n = 0 THEN 0 ELSE n - 1
             cfg == [depth |-> clamp_unit(ev.depth), target_param |-> t]
  <2>1. ev.depth \in Int /\ ev.target_param \in Nat
    BY <1>6 DEF FxEvent
  <2>2. n \in Nat
    BY ConstantsAssumption DEF descriptors
  <2> HIDE DEF n
  <2>3. t \in Nat
    BY <2>1, <2>2
  <2> HIDE DEF t
  <2>4. cfg \in LfoOption
    BY <2>1, <2>3, UnitPercent DEF LfoOption, Lfo
  <2> HIDE DEF cfg
  <2>5. [s EXCEPT !.lfo = cfg] \in EffectSlot
    BY <2>4 DEF EffectSlot
  <2> USE DEF n, t, cfg
  <2>6. QED
    BY <1>6, <2>5 DEF SlotAfter, LfoSet
<1>7. CASE ev.kind = "EffectLfoClear"
  <2>1. SlotAfter(d, s, ev) = [s EXCEPT !.lfo = None]
    BY <1>7 DEF SlotAfter
  <2>2. QED
    BY <2>1 DEF EffectSlot, LfoOption
<1>8. CASE ev.kind = "EffectOneShot"
  <2>1. ev.ts \in Int /\ ev.beats \in Nat
    BY <1>8 DEF FxEvent
  <2>2. SlotAfter(d, s, ev) = OneShot(d, s, ev)
    BY <1>8 DEF SlotAfter
  <2>3. QED
    BY <2>1, <2>2, OneShotType
<1>9. QED
  BY <1>1, <1>2, <1>3, <1>4, <1>5, <1>6, <1>7, <1>8 DEF SlotKinds

-----------------------------------------------------------------------------
(* Decks *)

LEMMA DefaultDeckType == DefaultDeck \in Deck
<1>1. [b \in Bands |-> 0] \in EqGains
  BY SMT DEF EqGains
<1>2. [c \in CueSlots |-> None] \in HotCues
  BY DEF HotCues, Position
<1>3. AllAudible \in StemGains
  BY SMT DEF AllAudible, StemGains, Percent
<1>4. [s \in Slots |-> EmptySlot] \in EffectSlots
  BY EmptySlotType DEF EffectSlots
<1>5. 0 \in PitchRange /\ 100 \in TempoRange /\ None \in Position /\ None \in TrackOption
  BY SMT DEF PitchRange, TempoRange, Position, TrackOption
<1>6. <<>> \in Downbeats
  BY DEF Downbeats
<1>7. QED
  BY <1>1, <1>2, <1>3, <1>4, <1>5, <1>6 DEF DefaultDeck, Deck

(* The fields a load replaces, in three groups the provers can handle. *)
LEMMA TransportFields ==
  ASSUME NEW d \in Deck, NEW track \in TrackOption
  PROVE  [d EXCEPT !.loaded = track, !.position_ms = 0, !.playing = FALSE] \in Deck
BY DEF Deck

LEMMA GridFields ==
  ASSUME NEW d \in Deck, NEW bpm \in Nat, NEW anchor \in Nat,
         NEW phase \in Int
  PROVE  [d EXCEPT !.bpm = bpm, !.beat_grid_anchor_ms = anchor,
                   !.phase_offset_ms = phase] \in Deck
BY DEF Deck

LEMMA TrackFields ==
  ASSUME NEW d \in Deck, NEW db \in Downbeats, NEW cues \in HotCues, NEW gains \in StemGains
  PROVE  [d EXCEPT !.downbeats = db, !.hot_cues = cues, !.stem_gains = gains] \in Deck
BY DEF Deck

LEMMA LoadedDeckType ==
  ASSUME NEW d \in Deck, NEW ev \in LoadEvent \cup LoadStemsEvent
  PROVE  LoadedDeck(d, ev) \in Deck
<1> DEFINE db  == SubSeq(ev.downbeats_ms, 1,
                         Clamp(Len(ev.downbeats_ms), 0, DOWNBEATS_INLINE_CAPACITY))
           bpm == IF ev.bpm > 0 THEN ev.bpm ELSE 120
<1>1. /\ ev.track \in TrackOption /\ ev.bpm \in Int /\ ev.beat_grid_anchor_ms \in Nat
      /\ ev.downbeats_ms \in Seq(Nat) /\ ev.hot_cues \in HotCues
  BY DEF LoadEvent, LoadStemsEvent, TrackOption, HotCues
<1>2. db \in Downbeats
  <2>1. Clamp(Len(ev.downbeats_ms), 0, DOWNBEATS_INLINE_CAPACITY) \in 0..Len(ev.downbeats_ms)
    BY <1>1, SMT DEF Clamp, DOWNBEATS_INLINE_CAPACITY
  <2>2. QED
    BY <1>1, <2>1, SubSeqProperties DEF Downbeats
<1>3. bpm \in Nat
  BY <1>1, SMT
<1>4. AllAudible \in StemGains
  BY SMT DEF AllAudible, StemGains, Percent
<1> HIDE DEF db, bpm
<1> DEFINE d1 == [d EXCEPT !.loaded = ev.track, !.position_ms = 0, !.playing = FALSE]
           d2 == [d1 EXCEPT !.bpm = bpm, !.beat_grid_anchor_ms = ev.beat_grid_anchor_ms,
                            !.phase_offset_ms = 0]
           d3 == [d2 EXCEPT !.downbeats = db, !.hot_cues = ev.hot_cues,
                            !.stem_gains = AllAudible]
<1>5. d1 \in Deck
  BY <1>1, TransportFields
<1> HIDE DEF d1
<1>6. d2 \in Deck
  <2>1. 0 \in Int
    OBVIOUS
  <2>2. QED
    BY <1>1, <1>3, <1>5, <2>1, GridFields, Zenon
<1> HIDE DEF d2
<1>7. d3 \in Deck
  BY <1>1, <1>2, <1>4, <1>6, TrackFields
<1> USE DEF db, bpm, d1, d2
<1>8. LoadedDeck(d, ev) = d3
  BY DEF LoadedDeck
<1> HIDE DEF d3
<1>9. QED
  BY <1>7, <1>8

LEMMA SaturatingAddInt ==
  ASSUME NEW a \in Int, NEW b \in Int PROVE SaturatingAdd(a, b) \in Int
BY SMT DEF SaturatingAdd, I32_MAX

(* The length of a bar loop is a natural number of milliseconds. *)
LEMMA LoopLengthNat ==
  ASSUME NEW bars \in Nat, NEW bpm \in Nat \ {0}
  PROVE  loop_length_ms(clamp_loop_bars(bars), bpm) \in Nat
<1> DEFINE b == clamp_loop_bars(bars)
           x == b * BeatsPerBar * MinuteMs
<1>1. b \in Nat
  BY PresetNat
<1> HIDE DEF b
<1>2. BeatsPerBar \in Nat /\ MinuteMs \in Nat
  BY SMT DEF BeatsPerBar, MinuteMs
<1>3. x \in Nat
  BY <1>1, <1>2, ProductNat
<1> HIDE DEF x
<1>4. RoundDiv(x, bpm) \in Nat
  BY <1>3, DivNat
<1> USE DEF b, x
<1>5. QED
  BY <1>4 DEF loop_length_ms

LEMMA SetLoopBarsType ==
  ASSUME NEW d \in Deck, NEW ev, ev.bars \in Nat
  PROVE  SetLoopBars(d, ev) \in Deck
<1> DEFINE in  == next_downbeat_at_or_after_ms(d.position_ms, d.beat_grid_anchor_ms,
                                               d.bpm, d.downbeats)
           len == loop_length_ms(clamp_loop_bars(ev.bars), d.bpm)
<1>1. CASE d.bpm <= 0
  BY <1>1 DEF SetLoopBars
<1>2. CASE d.bpm > 0
  <2>1. /\ d.position_ms \in Nat /\ d.beat_grid_anchor_ms \in Nat
        /\ d.bpm \in Nat \ {0} /\ d.downbeats \in Seq(Nat)
    BY <1>2 DEF Deck, Downbeats
  <2>2. in \in Nat
    BY <2>1, DownbeatNat
  <2>3. len \in Nat
    BY <2>1, LoopLengthNat
  <2> DEFINE out == in + len
  <2> HIDE DEF in, len
  <2>a. in \in Position /\ out \in Position
    BY <2>2, <2>3 DEF Position
  <2> HIDE DEF out
  <2>4. [d EXCEPT !.loop_in_ms = in, !.loop_active = TRUE, !.loop_out_ms = out] \in Deck
    BY <2>a DEF Deck
  <2> USE DEF in, len, out
  <2>5. ~(d.bpm <= 0)
    BY <2>1
  <2>6. QED
    BY <2>4, <2>5, Zenon DEF SetLoopBars
<1>3. QED
  BY <1>1, <1>2 DEF Deck

LEMMA DeckLoadType ==
  ASSUME NEW d \in Deck, NEW ev \in LoadEvent PROVE DeckLoad(d, ev) \in Deck
<1> DEFINE g == IF ev.track_gain_db = NonFinite THEN 0 ELSE ev.track_gain_db
           l == LoadedDeck(d, ev)
<1>1. g \in Int
  BY DEF LoadEvent, Real32
<1>2. l \in Deck
  BY LoadedDeckType
<1> HIDE DEF g, l
<1>3. [l EXCEPT !.track_gain_db = g, !.stem_mode = FALSE] \in Deck
  <2>1. \A x \in Deck, v \in Int : [x EXCEPT !.track_gain_db = v, !.stem_mode = FALSE] \in Deck
    BY DEF Deck
  <2>2. QED
    BY <1>1, <1>2, <2>1
<1> USE DEF g, l
<1>4. QED
  BY <1>3 DEF DeckLoad

LEMMA DeckLoadStemsType ==
  ASSUME NEW d \in Deck, NEW ev \in LoadStemsEvent PROVE DeckLoadStems(d, ev) \in Deck
<1> DEFINE l == LoadedDeck(d, ev)
<1>1. l \in Deck
  BY LoadedDeckType
<1> HIDE DEF l
<1>2. [l EXCEPT !.stem_mode = TRUE] \in Deck
  BY <1>1 DEF Deck
<1> USE DEF l
<1>3. QED
  BY <1>2 DEF DeckLoadStems

LEMMA SetStemGainType ==
  ASSUME NEW d \in Deck, NEW ev, ev.stem \in Nat, ev.gain \in Int
  PROVE  SetStemGain(d, ev) \in Deck
<1> DEFINE g == [d.stem_gains EXCEPT ![ev.stem] = clamp_unit(ev.gain)]
<1>1. ev.stem \in Stems => g \in StemGains
  BY UnitPercent DEF Deck, StemGains
<1> HIDE DEF g
<1>2. ev.stem \in Stems => [d EXCEPT !.stem_gains = g] \in Deck
  BY <1>1 DEF Deck
<1> USE DEF g
<1>3. QED
  BY <1>2 DEF SetStemGain

LEMMA SlotEventType ==
  ASSUME NEW d \in Deck, NEW ev \in FxEvent, ev.kind \in SlotKinds
  PROVE  SlotEvent(d, ev) \in Deck
<1>1. CASE ev.slot \notin Slots
  BY <1>1 DEF SlotEvent
<1>2. CASE ev.slot \in Slots
  <2> DEFINE after == SlotAfter(d, d.effects[ev.slot], ev)
             fx    == [d.effects EXCEPT ![ev.slot] = after]
  <2>1. d.effects \in EffectSlots
    BY DEF Deck
  <2>2. d.effects[ev.slot] \in EffectSlot
    BY <1>2, <2>1 DEF EffectSlots
  <2>3. after \in EffectSlot
    BY <2>2, SlotAfterType
  <2> HIDE DEF after
  <2>4. fx \in EffectSlots
    BY <2>1, <2>3 DEF EffectSlots
  <2> HIDE DEF fx
  <2>5. [d EXCEPT !.effects = fx] \in Deck
    BY <2>4 DEF Deck
  <2> USE DEF after, fx
  <2>6. QED
    BY <1>2, <2>5 DEF SlotEvent
<1>3. QED
  BY <1>1, <1>2

LEMMA EffectSwapSlotsType ==
  ASSUME NEW d \in Deck, NEW ev, ev.slot_a \in Nat, ev.slot_b \in Nat
  PROVE  EffectSwapSlots(d, ev) \in Deck
<1> DEFINE a  == SwapIndex(ev.slot_a)
           b  == SwapIndex(ev.slot_b)
           fx == [d.effects EXCEPT ![a] = d.effects[b], ![b] = d.effects[a]]
<1>1. a \in Slots /\ b \in Slots
  BY SMT DEF SwapIndex, Clamp, Slots
<1>2. d.effects \in EffectSlots
  BY DEF Deck
<1> HIDE DEF a, b
<1>3. fx \in EffectSlots
  BY <1>1, <1>2 DEF EffectSlots
<1> HIDE DEF fx
<1>4. [d EXCEPT !.effects = fx] \in Deck
  BY <1>3 DEF Deck
<1> USE DEF a, b, fx
<1>5. QED
  BY <1>4 DEF EffectSwapSlots

(* Every deck event leaves a deck. *)
LEMMA DeckAfterType ==
  ASSUME NEW d \in Deck, NEW ev \in DeckEvent \cup FxEvent
  PROVE  DeckAfter(d, ev) \in Deck
<1>1. CASE ev.kind = "DeckLoad"
  <2>1. ev \in LoadEvent
    BY <1>1 DEF DeckEvent, FxEvent, LoadEvent, LoadStemsEvent, PlainDeckEvent
  <2>2. DeckAfter(d, ev) = DeckLoad(d, ev)
    BY <1>1 DEF DeckAfter, SlotKinds
  <2>3. QED
    BY <2>1, <2>2, DeckLoadType
<1>2. CASE ev.kind = "DeckLoadStems"
  <2>1. ev \in LoadStemsEvent
    BY <1>2 DEF DeckEvent, FxEvent, LoadEvent, LoadStemsEvent, PlainDeckEvent
  <2>2. DeckAfter(d, ev) = DeckLoadStems(d, ev)
    BY <1>2 DEF DeckAfter, SlotKinds
  <2>3. QED
    BY <2>1, <2>2, DeckLoadStemsType
<1>3. CASE ev.kind = "SetStemGain"
  <2>1. ev.stem \in Nat /\ ev.gain \in Int
    BY <1>3 DEF DeckEvent, FxEvent, LoadEvent, LoadStemsEvent, PlainDeckEvent
  <2>2. DeckAfter(d, ev) = SetStemGain(d, ev)
    BY <1>3 DEF DeckAfter, SlotKinds
  <2>3. QED
    BY <2>1, <2>2, SetStemGainType
<1>4. CASE ev.kind = "DeckUnload"
  <2>1. DeckAfter(d, ev) = DefaultDeck
    BY <1>4 DEF DeckAfter, SlotKinds
  <2>2. QED
    BY <2>1, DefaultDeckType
<1>5. CASE ev.kind = "PhaseNudge"
  <2> DEFINE v == SaturatingAdd(d.phase_offset_ms, ev.delta_ms)
  <2>1. ev.delta_ms \in Int
    BY <1>5 DEF DeckEvent, FxEvent, LoadEvent, LoadStemsEvent, PlainDeckEvent
  <2>2. d.phase_offset_ms \in Int
    BY DEF Deck
  <2>3. v \in Int
    BY <2>1, <2>2, SaturatingAddInt
  <2> HIDE DEF v
  <2>4. [d EXCEPT !.phase_offset_ms = v] \in Deck
    BY <2>3 DEF Deck
  <2> USE DEF v
  <2>5. QED
    BY <1>5, <2>4 DEF DeckAfter, SlotKinds
<1>6. CASE ev.kind \in SlotKinds
  <2>1. ev \in FxEvent
    BY <1>6 DEF DeckEvent, FxEvent, LoadEvent, LoadStemsEvent, PlainDeckEvent, SlotKinds
  <2>2. DeckAfter(d, ev) = SlotEvent(d, ev)
    BY <1>6 DEF DeckAfter, SlotKinds
  <2>3. QED
    BY <1>6, <2>1, <2>2, SlotEventType
<1>7. CASE ev.kind = "EffectSwapSlots"
  <2>1. ev.slot_a \in Nat /\ ev.slot_b \in Nat
    BY <1>7 DEF DeckEvent, FxEvent, LoadEvent, LoadStemsEvent, PlainDeckEvent
  <2>2. DeckAfter(d, ev) = EffectSwapSlots(d, ev)
    BY <1>7 DEF DeckAfter, SlotKinds
  <2>3. QED
    BY <2>1, <2>2, EffectSwapSlotsType
<1>8. CASE ev.kind = "DeckPlay"
  <2>1. DeckAfter(d, ev) = [d EXCEPT !.playing = TRUE]
    BY <1>8 DEF DeckAfter, SlotKinds
  <2>2. QED
    BY <2>1 DEF Deck
<1>9. CASE ev.kind = "DeckPause"
  <2>1. DeckAfter(d, ev) = [d EXCEPT !.playing = FALSE]
    BY <1>9 DEF DeckAfter, SlotKinds
  <2>2. QED
    BY <2>1 DEF Deck
<1>10. CASE ev.kind = "DeckCue"
  <2>1. ev.position_ms \in Nat
    BY <1>10 DEF DeckEvent, FxEvent, LoadEvent, LoadStemsEvent, PlainDeckEvent
  <2>2. DeckAfter(d, ev) = [d EXCEPT !.position_ms = ev.position_ms]
    BY <1>10 DEF DeckAfter, SlotKinds
  <2>3. QED
    BY <2>1, <2>2 DEF Deck
<1>11. CASE ev.kind = "EqAdjust"
  <2> DEFINE g == [d.eq EXCEPT ![ev.band] = Clamp(ev.value_db, -260, 60)]
  <2>1. ev.band \in Bands /\ ev.value_db \in Int
    BY <1>11 DEF DeckEvent, FxEvent, LoadEvent, LoadStemsEvent, PlainDeckEvent
  <2>2. Clamp(ev.value_db, -260, 60) \in -260..60
    BY <2>1, SMT DEF Clamp
  <2>3. d.eq \in EqGains
    BY DEF Deck
  <2>4. g \in EqGains
    BY <2>2, <2>3 DEF EqGains
  <2> HIDE DEF g
  <2>5. [d EXCEPT !.eq = g] \in Deck
    BY <2>4 DEF Deck
  <2> USE DEF g
  <2>6. DeckAfter(d, ev) = EqAdjust(d, ev)
    BY <1>11 DEF DeckAfter, SlotKinds
  <2>7. QED
    BY <2>5, <2>6 DEF EqAdjust
<1>12. CASE ev.kind = "HotCueSet"
  <2> DEFINE c == [d.hot_cues EXCEPT ![ev.slot] = ev.position_ms]
  <2>1. ev.position_ms \in Position
    BY <1>12 DEF DeckEvent, FxEvent, LoadEvent, LoadStemsEvent, PlainDeckEvent, Position
  <2>2. d.hot_cues \in HotCues
    BY DEF Deck
  <2>3. c \in HotCues
    BY <2>1, <2>2 DEF HotCues
  <2> HIDE DEF c
  <2>4. [d EXCEPT !.hot_cues = c] \in Deck
    BY <2>3 DEF Deck
  <2> USE DEF c
  <2>5. DeckAfter(d, ev) = HotCueSet(d, ev)
    BY <1>12 DEF DeckAfter, SlotKinds
  <2>6. QED
    BY <2>4, <2>5 DEF HotCueSet
<1>13. CASE ev.kind = "HotCueTrigger"
  <2>1. d.hot_cues \in [CueSlots -> Position]
    BY DEF Deck, HotCues
  <2>2. ev.slot \in CueSlots /\ d.hot_cues[ev.slot] # None => d.hot_cues[ev.slot] \in Nat
    BY <2>1 DEF Position
  <2>3. DeckAfter(d, ev) = HotCueTrigger(d, ev)
    BY <1>13 DEF DeckAfter, SlotKinds
  <2>4. \A v \in Nat : [d EXCEPT !.position_ms = v] \in Deck
    <3>1. ASSUME NEW v \in Nat PROVE [d EXCEPT !.position_ms = v] \in Deck
      BY DEF Deck
    <3>2. QED
      BY <3>1
  <2>5. QED
    BY <2>2, <2>3, <2>4 DEF HotCueTrigger
<1>14. CASE ev.kind = "LoopIn"
  <2> DEFINE v == d.position_ms
  <2>1. v \in Position
    BY DEF Deck, Position
  <2> HIDE DEF v
  <2>2. [d EXCEPT !.loop_in_ms = v] \in Deck
    BY <2>1 DEF Deck
  <2> USE DEF v
  <2>3. QED
    BY <1>14, <2>2 DEF DeckAfter, SlotKinds
<1>15. CASE ev.kind = "LoopOut"
  <2> DEFINE v == d.position_ms
             b == (d.loop_in_ms # None)
  <2>1. v \in Position /\ b \in BOOLEAN
    BY DEF Deck, Position
  <2> HIDE DEF v, b
  <2>2. [d EXCEPT !.loop_out_ms = v, !.loop_active = b] \in Deck
    BY <2>1 DEF Deck
  <2> USE DEF v, b
  <2>3. QED
    BY <1>15, <2>2 DEF DeckAfter, SlotKinds, LoopOut
<1>16. CASE ev.kind = "LoopExit"
  <2>1. None \in Position
    BY DEF Position
  <2>2. [d EXCEPT !.loop_in_ms = None, !.loop_out_ms = None, !.loop_active = FALSE] \in Deck
    BY <2>1 DEF Deck
  <2>3. QED
    BY <1>16, <2>2 DEF DeckAfter, SlotKinds, LoopExit
<1>17. CASE ev.kind = "SetLoopBars"
  <2>1. ev.bars \in Nat
    BY <1>17 DEF DeckEvent, FxEvent, LoadEvent, LoadStemsEvent, PlainDeckEvent
  <2>2. DeckAfter(d, ev) = SetLoopBars(d, ev)
    BY <1>17 DEF DeckAfter, SlotKinds
  <2>3. QED
    BY <2>1, <2>2, SetLoopBarsType
<1>18. CASE ev.kind \in {"PitchBend", "TempoBend", "PitchTempoReset"}
  <2>1. ev.kind = "PitchBend" => clamp_pitch_semitones(ev.semitones) \in PitchRange
    <3>1. ev.kind = "PitchBend" => ev.semitones \in Real32
      BY DEF DeckEvent, FxEvent, LoadEvent, LoadStemsEvent, PlainDeckEvent
    <3>2. \A v \in Real32 : clamp_pitch_semitones(v) \in PitchRange
      BY SMT DEF clamp_pitch_semitones, Clamp, PitchRange, Real32
    <3>3. QED
      BY <3>1, <3>2
  <2>2. ev.kind = "TempoBend" => clamp_tempo_ratio(ev.ratio) \in TempoRange
    <3>1. ev.kind = "TempoBend" => ev.ratio \in Real32
      BY DEF DeckEvent, FxEvent, LoadEvent, LoadStemsEvent, PlainDeckEvent
    <3>2. \A v \in Real32 : clamp_tempo_ratio(v) \in TempoRange
      BY SMT DEF clamp_tempo_ratio, Clamp, TempoRange, Real32
    <3>3. QED
      BY <3>1, <3>2
  <2>3. 0 \in PitchRange /\ 100 \in TempoRange
    BY SMT DEF PitchRange, TempoRange
  <2>4. ASSUME NEW p \in PitchRange PROVE [d EXCEPT !.pitch_semitones = p] \in Deck
    BY DEF Deck
  <2>5. ASSUME NEW t \in TempoRange PROVE [d EXCEPT !.tempo_ratio = t] \in Deck
    BY DEF Deck
  <2>6. ASSUME NEW p \in PitchRange, NEW t \in TempoRange
        PROVE [d EXCEPT !.pitch_semitones = p, !.tempo_ratio = t] \in Deck
    BY DEF Deck
  <2>7. CASE ev.kind = "PitchBend"
    BY <2>1, <2>4, <2>7 DEF DeckAfter, SlotKinds
  <2>8. CASE ev.kind = "TempoBend"
    BY <2>2, <2>5, <2>8 DEF DeckAfter, SlotKinds
  <2>9. CASE ev.kind = "PitchTempoReset"
    BY <2>3, <2>6, <2>9 DEF DeckAfter, SlotKinds
  <2>10. QED
    BY <1>18, <2>7, <2>8, <2>9
<1>19. CASE ev.kind = "CopilotEngage"
  <2>1. DeckAfter(d, ev) = [d EXCEPT !.copilot_engaged = TRUE]
    BY <1>19 DEF DeckAfter, SlotKinds
  <2>2. QED
    BY <2>1 DEF Deck
<1>20. CASE ev.kind = "CopilotDisengage"
  <2>1. DeckAfter(d, ev) = [d EXCEPT !.copilot_engaged = FALSE]
    BY <1>20 DEF DeckAfter, SlotKinds
  <2>2. QED
    BY <2>1 DEF Deck
<1>21. CASE ev.kind = "TakeOver"
  <2>1. ev.handoff_until_frame \in Nat
    BY <1>21 DEF DeckEvent, FxEvent, LoadEvent, LoadStemsEvent, PlainDeckEvent
  <2>2. DeckAfter(d, ev) = TakeOver(d, ev)
    BY <1>21 DEF DeckAfter, SlotKinds
  <2>3. QED
    BY <2>1, <2>2 DEF Deck, TakeOver
<1>22. ev.kind \in SlotKinds \cup {"DeckLoad", "DeckLoadStems", "SetStemGain", "DeckUnload",
         "PhaseNudge", "EffectSwapSlots", "DeckPlay", "DeckPause", "DeckCue", "EqAdjust",
         "HotCueSet", "HotCueTrigger", "LoopIn", "LoopOut", "LoopExit", "SetLoopBars",
         "PitchBend", "TempoBend", "PitchTempoReset", "CopilotEngage", "CopilotDisengage",
         "TakeOver"}
  BY DEF DeckEvent, FxEvent, LoadEvent, LoadStemsEvent, PlainDeckEvent, SlotKinds
<1>23. QED
  BY <1>1, <1>2, <1>3, <1>4, <1>5, <1>6, <1>7, <1>8, <1>9, <1>10, <1>11, <1>12, <1>13, <1>14,
     <1>15, <1>16, <1>17, <1>18, <1>19, <1>20, <1>21, <1>22

-----------------------------------------------------------------------------
(* The whole state *)

LEMMA KnobRanges ==
  ASSUME NEW k \in SidechainKnobs
  PROVE  knob_min[k] \in Int /\ knob_max[k] \in Int /\ knob_min[k] <= knob_max[k]
BY SMT DEF SidechainKnobs, knob_min, knob_max

LEMMA SidechainType ==
  ASSUME NEW sc \in SidechainConfig, NEW ev,
         ev.trigger_deck \in DeckId \cup {None},
         ev.knobs \in [SidechainKnobs -> Real32 \cup {None}]
  PROVE  SetSidechainParams(sc, ev) \in SidechainConfig
<1> DEFINE trigger == IF ev.trigger_deck = None THEN sc.trigger_deck ELSE ev.trigger_deck
           knob(k) == IF ev.knobs[k] \in {None, NonFinite} THEN sc.knobs[k]
                      ELSE clamp_knob(k, ev.knobs[k])
           knobs   == [k \in SidechainKnobs |-> knob(k)]
<1>1. sc.knobs \in SidechainKnobSet /\ sc.trigger_deck \in DeckId
  BY DEF SidechainConfig
<1>2. trigger \in DeckId
  BY <1>1
<1>3. ASSUME NEW k \in SidechainKnobs
      PROVE  knob(k) \in knob_min[k]..knob_max[k] /\ knob(k) \in Int
  <2>1. CASE ev.knobs[k] \in {None, NonFinite}
    <3>1. knob(k) = sc.knobs[k]
      BY <2>1
    <3>2. QED
      BY <1>1, <3>1 DEF SidechainKnobSet
  <2>2. CASE ev.knobs[k] \notin {None, NonFinite}
    <3>1. ev.knobs[k] \in Int
      BY <2>2 DEF Real32
    <3>2. clamp_knob(k, ev.knobs[k]) \in knob_min[k]..knob_max[k]
      BY <3>1, KnobRanges, ClampRange DEF clamp_knob
    <3>3. QED
      BY <2>2, <3>2, KnobRanges
  <2>3. QED
    BY <2>1, <2>2
<1> HIDE DEF trigger, knob
<1>4. knobs \in SidechainKnobSet
  BY <1>3 DEF SidechainKnobSet
<1> HIDE DEF knobs
<1>5. [sc EXCEPT !.trigger_deck = trigger, !.knobs = knobs] \in SidechainConfig
  BY <1>2, <1>4 DEF SidechainConfig
<1> USE DEF trigger, knob, knobs
<1>6. QED
  BY <1>5 DEF SetSidechainParams

LEMMA DefaultStateType == DefaultState \in EngineStateType
<1>1. [d \in DeckId |-> DefaultDeck] \in DeckPair
  BY DefaultDeckType DEF DeckPair
<1>2. DefaultState.sidechain.knobs \in SidechainKnobSet
  BY SMT DEF DefaultState, SidechainKnobSet, SidechainKnobs, knob_min, knob_max
<1>3. DefaultState.sidechain \in SidechainConfig
  BY <1>2 DEF DefaultState, SidechainConfig, DeckId
<1>4. 50 \in Percent /\ 120 \in Tempo /\ -5 \in LimiterRange /\ "Linear" \in Curves
  BY SMT DEF Percent, Tempo, LimiterRange, Curves
<1>5. QED
  BY <1>1, <1>3, <1>4 DEF DefaultState, EngineStateType

LEMMA MasterAfterType ==
  ASSUME NEW s \in EngineStateType, NEW ev \in MasterEvent
  PROVE  MasterAfter(s, ev) \in EngineStateType
<1>1. CASE ev.kind \in {"SessionStart", "SessionEnd"}
  <2>1. CASE ev.kind = "SessionStart"
    BY <2>1 DEF MasterAfter, EngineStateType
  <2>2. CASE ev.kind = "SessionEnd"
    BY <2>2 DEF MasterAfter, EngineStateType
  <2>3. QED BY <1>1, <2>1, <2>2
<1>2. CASE ev.kind = "Crossfader"
  <2>1. clamp_unit(ev.value) \in Percent
    BY <1>2, UnitPercent DEF MasterEvent
  <2>2. MasterAfter(s, ev) = [s EXCEPT !.crossfader = clamp_unit(ev.value)]
    BY <1>2 DEF MasterAfter
  <2>3. QED BY <2>1, <2>2 DEF EngineStateType
<1>3. CASE ev.kind = "SetCrossfaderCurve"
  <2>1. ev.curve \in Curves
    BY <1>3 DEF MasterEvent
  <2>2. MasterAfter(s, ev) = [s EXCEPT !.crossfader_curve = ev.curve]
    BY <1>3 DEF MasterAfter
  <2>3. QED BY <2>1, <2>2 DEF EngineStateType
<1>4. CASE ev.kind = "SetMasterBpm"
  <2> DEFINE b == IF ev.bpm > 0 THEN ev.bpm ELSE s.master_bpm
  <2>1. ev.bpm \in Int
    BY <1>4 DEF MasterEvent
  <2>2. s.master_bpm \in Tempo
    BY DEF EngineStateType
  <2>3. b \in Tempo
    BY <2>1, <2>2 DEF Tempo
  <2>4. MasterAfter(s, ev) = [s EXCEPT !.master_bpm = b]
    BY <1>4 DEF MasterAfter
  <2> HIDE DEF b
  <2>5. QED BY <2>3, <2>4 DEF EngineStateType
<1>5. CASE ev.kind = "SetSidechainEnabled"
  <2> DEFINE sc == [s.sidechain EXCEPT !.enabled = ev.enabled]
  <2>1. ev.enabled \in BOOLEAN
    BY <1>5 DEF MasterEvent
  <2>2. s.sidechain \in SidechainConfig
    BY DEF EngineStateType
  <2>3. sc \in SidechainConfig
    BY <2>1, <2>2 DEF SidechainConfig
  <2>4. MasterAfter(s, ev) = [s EXCEPT !.sidechain = sc]
    BY <1>5 DEF MasterAfter
  <2> HIDE DEF sc
  <2>5. QED BY <2>3, <2>4 DEF EngineStateType
<1>6. CASE ev.kind = "SetSidechainParams"
  <2> DEFINE sc == SetSidechainParams(s.sidechain, ev)
  <2>1. /\ ev.trigger_deck \in DeckId \cup {None}
        /\ ev.knobs \in [SidechainKnobs -> Real32 \cup {None}]
    BY <1>6 DEF MasterEvent
  <2>2. s.sidechain \in SidechainConfig
    BY DEF EngineStateType
  <2>3. sc \in SidechainConfig
    BY <2>1, <2>2, SidechainType
  <2>4. MasterAfter(s, ev) = [s EXCEPT !.sidechain = sc]
    BY <1>6 DEF MasterAfter
  <2> HIDE DEF sc
  <2>5. QED BY <2>3, <2>4 DEF EngineStateType
<1>7. CASE ev.kind = "SetMasterLimiterEnabled"
  <2>1. ev.enabled \in BOOLEAN
    BY <1>7 DEF MasterEvent
  <2>2. MasterAfter(s, ev) = [s EXCEPT !.master_limiter_enabled = ev.enabled]
    BY <1>7 DEF MasterAfter
  <2>3. QED BY <2>1, <2>2 DEF EngineStateType
<1>8. CASE ev.kind = "SetMasterLimiterThreshold"
  <2>1. ev.threshold_db \in Real32
    BY <1>8 DEF MasterEvent
  <2>2. \A v \in Real32 : clamp_threshold_db(v) \in LimiterRange
    BY SMT DEF clamp_threshold_db, Clamp, LimiterRange, Real32
  <2>3. MasterAfter(s, ev) =
          [s EXCEPT !.master_limiter_threshold_db = clamp_threshold_db(ev.threshold_db)]
    BY <1>8 DEF MasterAfter
  <2>4. QED BY <2>1, <2>2, <2>3 DEF EngineStateType
<1>9. QED
  BY <1>1, <1>2, <1>3, <1>4, <1>5, <1>6, <1>7, <1>8 DEF MasterEvent

LEMMA EventKinds ==
  ASSUME NEW ev \in EventKind
  PROVE  /\ ev.kind \in MasterKinds => ev \in MasterEvent
         /\ ev.kind \notin MasterKinds => /\ ev \in DeckEvent \cup FxEvent
                                          /\ ev.deck \in DeckId
BY DEF EventKind, MasterKinds, MasterEvent, DeckEvent, FxEvent, LoadEvent, LoadStemsEvent,
       PlainDeckEvent

(* EngineState::apply is total: a well-typed event takes a well-typed state *)
(* to one, whatever the order of events before it (state.rs, apply).        *)
THEOREM ApplyType ==
  ASSUME NEW s \in EngineStateType, NEW ev \in EventKind
  PROVE  Apply(s, ev) \in EngineStateType
<1>1. CASE ev.kind \in MasterKinds
  BY <1>1, EventKinds, MasterAfterType DEF Apply
<1>2. CASE ev.kind \notin MasterKinds
  <2> DEFINE d  == DeckAfter(s.deck[ev.deck], ev)
             ds == [s.deck EXCEPT ![ev.deck] = d]
  <2>1. ev \in DeckEvent \cup FxEvent /\ ev.deck \in DeckId
    BY <1>2, EventKinds
  <2>2. s.deck \in DeckPair
    BY DEF EngineStateType
  <2>3. d \in Deck
    BY <2>1, <2>2, DeckAfterType DEF DeckPair
  <2> HIDE DEF d
  <2>4. ds \in DeckPair
    BY <2>1, <2>2, <2>3 DEF DeckPair
  <2> HIDE DEF ds
  <2>5. [s EXCEPT !.deck = ds] \in EngineStateType
    BY <2>4 DEF EngineStateType
  <2> USE DEF d, ds
  <2>6. QED
    BY <1>2, <2>5 DEF Apply
<1>3. QED
  BY <1>1, <1>2
=============================================================================
