---------------------------- MODULE PartsProofs ----------------------------
(***************************************************************************)
(* What the parts of the product keep for every value of their constants:  *)
(* the stretcher of a deck (TimeStretch, here Knobs), the desktop shell    *)
(* (Shell, here Desktop), bar loops (BarLoop), a track read over HTTP      *)
(* (HttpSource, here Http), the MIDI clock (MidiClock, here Midi), a slot  *)
(* of the effects chain (Effects, here Fx), the device's callback          *)
(* (AudioCallback, here Audio) and the MIDI listener (MidiInput).          *)
(***************************************************************************)
EXTENDS Parts, EngineStateProofs, FiniteSetTheorems, TLAPS

-----------------------------------------------------------------------------
(* The stretcher of a deck. *)

LEMMA StretchConstants ==
  /\ WINDOW \in Nat \ {0} /\ HOP_OUT \in 1..WINDOW /\ SEARCH \in 0..WINDOW
  /\ RING_LEN \in Nat \ {0} /\ CHUNK_FRAMES \in Nat \ {0}
  /\ SCRATCH_CAPACITY \in Nat \ {0}
  /\ Tempos \cup Pitches \subseteq Int \cup {NonFinite}
  /\ Blocks \subseteq Nat \ {0} /\ MaxFrames \in Nat /\ NonFinite \notin Int
BY PartsAssumption DEF Knobs!TimeStretchConstants

Stretcher == [w : Nat, r : Nat, hop : Nat, pending : Nat, fed : Nat]

CallState ==
  [step : {"idle", "left", "right", "panicked"}, frames : Nat,
   written : [Knobs!Channels -> 0..SCRATCH_CAPACITY], target : Nat]

StretchTypes ==
  /\ last_tempo_ratio \in -2..2 /\ last_pitch_semitones \in -2..2
  /\ wsola \in [Knobs!Channels -> Stretcher]
  /\ call \in CallState /\ (call.step # "idle" => call.target \in Blocks)
  /\ widest \in Nat

\* While no hop was too wide the cursors are in order.
CursorsInOrder ==
  /\ \A c \in Knobs!Channels : wsola[c].hop <= widest
  /\ widest <= WINDOW + SEARCH =>
       call.step # "panicked" /\ \A c \in Knobs!Channels : wsola[c].r <= wsola[c].w

\* A stretcher and what it has written of a block.
Place == [s : Stretcher, written : 0..SCRATCH_CAPACITY]
At(c) == [s |-> wsola[c], written |-> call.written[c]]

\* After refill and drain, and after one more frame: nothing is left to choose.
Entered(s, n) ==
  LET t == Knobs!refill_input_ring(s, n)
      out == Knobs!Min2(t.pending, SCRATCH_CAPACITY)
  IN [s |-> [t EXCEPT !.pending = @ - out], written |-> out]

Moved(s, room) ==
  LET a == Knobs!Advanced(s, room)
  IN IF a.r > RING_LEN \div 2 /\ ~Knobs!Underflows(a) THEN Knobs!compact_ring(a) ELSE a

After(x) ==
  LET room == SCRATCH_CAPACITY - x.written
  IN [s |-> Moved(x.s, room), written |-> x.written + Knobs!Min2(HOP_OUT, room)]

\* From a place to another, frame by frame.
Walk(q, from, to) ==
  /\ q \in Seq(Place) /\ q # <<>> /\ q[1] = from /\ q[Len(q)] = to
  /\ \A i \in 1..Len(q) - 1 : Knobs!HasFrame(q[i].s) /\ q[i + 1] = After(q[i])

\* The left channel goes first; the right one has the same way before it.
InStep ==
  /\ call.step = "idle" => wsola["left"] = wsola["right"]
  /\ call.step = "left" => \E q : Walk(q, Entered(wsola["right"], call.frames), At("left"))
  /\ call.step = "right" => \E q : Walk(q, At("right"), At("left")) /\ ~Knobs!HasFrame(wsola["left"])

StretchInv == StretchTypes /\ CursorsInOrder /\ InStep /\ Knobs!BlocksAreFresh

LEMMA ScaledType == \A n \in Nat, e \in -4..4 : Knobs!Scaled(n, e) \in Nat
<1> SUFFICES ASSUME NEW n \in Nat, NEW e \in -4..4 PROVE Knobs!Scaled(n, e) \in Nat
  OBVIOUS
<1> DEFINE up == <<3, 4, 6, 8>>
<1>1. Knobs!Factor[e].by \in 2..8 /\ Knobs!Factor[e].over \in 2..8
  <2>1. Knobs!Factor[e] = IF e = 0 THEN [by |-> 2, over |-> 2]
                    ELSE IF e > 0 THEN [by |-> up[e], over |-> 2] ELSE [by |-> 2, over |-> up[-e]]
    BY DEF Knobs!Factor
  <2>2. \A i \in 1..4 : up[i] \in 2..8
    BY DEF up
  <2> HIDE DEF up
  <2>3. CASE e = 0
    BY <2>1, <2>3
  <2>4. CASE e > 0
    <3>1. e \in 1..4
      BY <2>4
    <3> QED
      BY <2>1, <2>2, <2>4, <3>1
  <2>5. CASE e < 0
    <3>1. -e \in 1..4
      BY <2>5
    <3> QED
      BY <2>1, <2>2, <2>5, <3>1
  <2> QED
    BY <2>3, <2>4, <2>5
<1> DEFINE a == 2 * n * Knobs!Factor[e].by + Knobs!Factor[e].over
           b == 2 * Knobs!Factor[e].over
<1>2. a \in Nat
  <2>1. \A k \in 2..8 : 2 * n * k \in Nat
    OBVIOUS
  <2> QED
    BY <1>1, <2>1
<1>3. b \in Nat \ {0}
  BY <1>1
<1> HIDE DEF a, b
<1>4. a \div b \in Nat
  BY <1>2, <1>3
<1> QED
  BY <1>4 DEF Knobs!Scaled, a, b

LEMMA HopType == StretchTypes => Knobs!HopIn \in Nat
<1> SUFFICES ASSUME StretchTypes PROVE Knobs!HopIn \in Nat
  OBVIOUS
<1>1. HOP_OUT \in Nat
  BY StretchConstants
<1>2. last_pitch_semitones - last_tempo_ratio \in -4..4
  BY DEF StretchTypes
<1>3. Knobs!Scaled(HOP_OUT, last_pitch_semitones - last_tempo_ratio) \in Nat
  BY <1>1, <1>2, ScaledType
<1> QED
  BY <1>1, <1>3 DEF Knobs!HopIn, Knobs!Min2

LEMMA RetunedType ==
  ASSUME StretchTypes
  PROVE  /\ Knobs!Retuned \in [Knobs!Channels -> Stretcher]
         /\ \A c \in Knobs!Channels :
              /\ Knobs!Retuned[c].hop = Knobs!HopIn
              /\ Knobs!Retuned[c].w = wsola[c].w /\ Knobs!Retuned[c].r = wsola[c].r
              /\ Knobs!Retuned[c].pending = wsola[c].pending /\ Knobs!Retuned[c].fed = wsola[c].fed
  BY HopType DEF StretchTypes, Knobs!Retuned, Stretcher

\* Frames put in: the counts are as long as before, the cursors as far apart or more.
LEMMA RefillType ==
  ASSUME NEW s \in Stretcher, NEW n \in Nat, ~(Knobs!Refills(s, n) /\ Knobs!Underflows(s))
  PROVE  /\ Knobs!refill_input_ring(s, n) \in Stretcher
         /\ Knobs!refill_input_ring(s, n).hop = s.hop /\ Knobs!refill_input_ring(s, n).pending = s.pending
         /\ s.r <= s.w => Knobs!refill_input_ring(s, n).r <= Knobs!refill_input_ring(s, n).w
<1> DEFINE t == Knobs!refill_input_ring(s, n)
<1>1. RING_LEN \in Nat
  BY StretchConstants
<1>2. /\ s.w \in Nat /\ s.r \in Nat /\ s.hop \in Nat /\ s.pending \in Nat /\ s.fed \in Nat
  BY DEF Stretcher
<1>3. CASE n >= RING_LEN
  <2>1. t = [s EXCEPT !.w = RING_LEN, !.r = 0, !.fed = @ + n]
    BY <1>3 DEF Knobs!refill_input_ring
  <2>2. /\ t.w = RING_LEN /\ t.r = 0 /\ t.hop = s.hop /\ t.pending = s.pending
        /\ t.fed = s.fed + n /\ t = [w |-> t.w, r |-> t.r, hop |-> t.hop, pending |-> t.pending, fed |-> t.fed]
    BY <2>1 DEF Stretcher
  <2> HIDE DEF t
  <2>3. t \in Stretcher /\ t.hop = s.hop /\ t.pending = s.pending /\ t.r <= t.w
    BY <1>1, <1>2, <2>2 DEF Stretcher
  <2> QED
    BY <2>3 DEF t
<1>4. CASE n < RING_LEN
  <2> DEFINE c == IF Knobs!Refills(s, n) THEN Knobs!compact_ring(s) ELSE s
             over == Knobs!NonNegative(c.w + n - RING_LEN)
             w == Knobs!NonNegative(c.w - over) + n
             r == Knobs!NonNegative(c.r - over)
  <2>1. t = [c EXCEPT !.w = w, !.r = r, !.fed = @ + n]
    BY <1>1, <1>4 DEF Knobs!refill_input_ring
  <2>2. /\ c \in Stretcher /\ c.hop = s.hop /\ c.pending = s.pending
        /\ s.r <= s.w => c.r <= c.w
    <3>1. CASE Knobs!Refills(s, n)
      <4>1. s.w - s.r \in Nat
        BY <1>2, <3>1 DEF Knobs!Underflows
      <4>2. c = [s EXCEPT !.w = s.w - s.r, !.r = 0]
        BY <3>1 DEF Knobs!compact_ring
      <4>3. /\ c.w = s.w - s.r /\ c.r = 0 /\ c.hop = s.hop /\ c.pending = s.pending /\ c.fed = s.fed
            /\ c = [w |-> c.w, r |-> c.r, hop |-> c.hop, pending |-> c.pending, fed |-> c.fed]
        BY <4>2 DEF Stretcher
      <4> HIDE DEF c
      <4> QED
        BY <1>2, <4>1, <4>3 DEF Stretcher
    <3>2. CASE ~Knobs!Refills(s, n)
      BY <3>2
    <3> QED
      BY <3>1, <3>2
  <2> HIDE DEF c
  <2>3. c.w \in Nat /\ c.r \in Nat
    BY <2>2 DEF Stretcher
  <2>4. over \in Nat
    BY <1>1, <2>3 DEF Knobs!NonNegative
  <2> HIDE DEF over
  <2>5. w \in Nat /\ r \in Nat /\ (c.r <= c.w => r <= w)
    BY <2>3, <2>4 DEF Knobs!NonNegative
  <2> HIDE DEF w, r
  <2>6. /\ t.w = w /\ t.r = r /\ t.hop = c.hop /\ t.pending = c.pending /\ t.fed = c.fed + n
        /\ t = [w |-> t.w, r |-> t.r, hop |-> t.hop, pending |-> t.pending, fed |-> t.fed]
    BY <2>1, <2>2 DEF Stretcher
  <2> HIDE DEF t
  <2>7. c.hop \in Nat /\ c.pending \in Nat /\ c.fed + n \in Nat
    BY <2>2 DEF Stretcher
  <2>8. t \in Stretcher
    BY <2>5, <2>6, <2>7 DEF Stretcher
  <2>9. t.hop = s.hop /\ t.pending = s.pending /\ (s.r <= s.w => t.r <= t.w)
    BY <2>2, <2>5, <2>6
  <2> QED
    BY <2>8, <2>9 DEF t
<1> QED
  BY <1>1, <1>3, <1>4

\* Refill and drain, or the engine aborts.
LEMMA EnteredType ==
  ASSUME NEW s \in Stretcher, NEW n \in Nat, ~(Knobs!Refills(s, n) /\ Knobs!Underflows(s))
  PROVE  /\ Entered(s, n) \in Place /\ Entered(s, n).s.hop = s.hop
         /\ s.r <= s.w => Entered(s, n).s.r <= Entered(s, n).s.w
<1> DEFINE t == Knobs!refill_input_ring(s, n)
           out == Knobs!Min2(t.pending, SCRATCH_CAPACITY)
           d == [t EXCEPT !.pending = @ - out]
<1>1. t \in Stretcher /\ t.hop = s.hop /\ (s.r <= s.w => t.r <= t.w)
  BY RefillType
<1>2. Entered(s, n) = [s |-> d, written |-> out]
  BY DEF Entered
<1> HIDE DEF t
<1>3. t.pending \in Nat /\ SCRATCH_CAPACITY \in Nat
  BY <1>1, StretchConstants DEF Stretcher
<1>4. out \in 0..SCRATCH_CAPACITY /\ t.pending - out \in Nat
  BY <1>3 DEF Knobs!Min2
<1> HIDE DEF out
<1>5. d \in Stretcher /\ d.hop = t.hop /\ d.r = t.r /\ d.w = t.w
  BY <1>1, <1>4 DEF Stretcher
<1> HIDE DEF d
<1>6. Entered(s, n).s = d /\ Entered(s, n).written = out
  BY <1>2
<1>7. Entered(s, n) \in Place
  BY <1>2, <1>4, <1>5 DEF Place
<1> QED
  BY <1>1, <1>5, <1>6, <1>7

\* A frame: the read cursor moves by the hop, what does not fit is owed.
LEMMA AfterType ==
  ASSUME NEW x \in Place
  PROVE  /\ After(x) \in Place /\ After(x).s.hop = x.s.hop
         /\ Knobs!HasFrame(x.s) /\ x.s.hop <= WINDOW + SEARCH =>
              /\ ~Knobs!Underflows(Knobs!Advanced(x.s, SCRATCH_CAPACITY - x.written))
              /\ After(x).s.r <= After(x).s.w
<1> DEFINE s == x.s
           room == SCRATCH_CAPACITY - x.written
           left == HOP_OUT - Knobs!Min2(HOP_OUT, room)
           p == [s EXCEPT !.pending = left]
           a == Knobs!Advanced(s, room)
           m == Moved(s, room)
<1>1. s \in Stretcher /\ x.written \in 0..SCRATCH_CAPACITY
  BY DEF Place
<1>2. /\ SCRATCH_CAPACITY \in Nat /\ HOP_OUT \in Nat /\ WINDOW \in Nat \ {0} /\ SEARCH \in Nat
      /\ RING_LEN \in Nat
  BY StretchConstants
<1>3. room \in Nat /\ left \in Nat /\ x.written + Knobs!Min2(HOP_OUT, room) \in 0..SCRATCH_CAPACITY
  BY <1>1, <1>2 DEF Knobs!Min2
<1>4. a = [s EXCEPT !.pending = left, !.r = @ + s.hop]
  BY DEF Knobs!Advanced
<1>5. After(x) = [s |-> m, written |-> x.written + Knobs!Min2(HOP_OUT, room)]
  BY DEF After
<1>6. m = IF a.r > RING_LEN \div 2 /\ ~Knobs!Underflows(a) THEN Knobs!compact_ring(a) ELSE a
  BY DEF Moved
<1> HIDE DEF s, room, left, a, m
<1>7. /\ s.w \in Nat /\ s.r \in Nat /\ s.hop \in Nat /\ s.pending \in Nat /\ s.fed \in Nat
  BY <1>1 DEF Stretcher
<1>8. /\ a \in Stretcher /\ a.hop = s.hop /\ a.w = s.w /\ a.r = s.r + s.hop
  <2>1. p \in Stretcher /\ p.hop = s.hop /\ p.w = s.w /\ p.r = s.r
    BY <1>1, <1>3 DEF Stretcher
  <2>2. a = [p EXCEPT !.r = s.r + s.hop]
    BY <1>1, <1>4 DEF Stretcher
  <2>3. s.r + s.hop \in Nat
    BY <1>7
  <2> HIDE DEF p
  <2> QED
    BY <2>1, <2>2, <2>3 DEF Stretcher
<1>9. /\ m \in Stretcher /\ m.hop = a.hop /\ (a.r <= a.w => m.r <= m.w)
  <2>1. CASE a.r > RING_LEN \div 2 /\ ~Knobs!Underflows(a)
    <3>1. a.w \in Nat /\ a.r \in Nat /\ a.w - a.r \in Nat
      BY <1>8, <2>1 DEF Knobs!Underflows, Stretcher
    <3> DEFINE u == [a EXCEPT !.w = a.w - a.r]
    <3>2. m = [u EXCEPT !.r = 0]
      BY <1>6, <1>8, <2>1 DEF Knobs!compact_ring, Stretcher
    <3>3. u \in Stretcher /\ u.hop = a.hop /\ u.w = a.w - a.r
      BY <1>8, <3>1 DEF Stretcher
    <3> HIDE DEF u
    <3>4. m \in Stretcher /\ m.hop = a.hop /\ m.w = a.w - a.r /\ m.r = 0
      BY <3>2, <3>3 DEF Stretcher
    <3> QED
      BY <3>1, <3>4
  <2>2. CASE ~(a.r > RING_LEN \div 2 /\ ~Knobs!Underflows(a))
    BY <1>6, <1>8, <2>2
  <2> QED
    BY <2>1, <2>2
<1>10. After(x) \in Place /\ After(x).s = m
  BY <1>3, <1>5, <1>9 DEF Place
<1>11. ASSUME Knobs!HasFrame(s), s.hop <= WINDOW + SEARCH PROVE a.r <= a.w
  <2>1. Knobs!NonNegative(s.w - s.r) >= WINDOW + SEARCH
    BY <1>11 DEF Knobs!HasFrame
  <2>2. s.w - s.r >= WINDOW + SEARCH
    BY <1>2, <1>7, <2>1 DEF Knobs!NonNegative
  <2> QED
    BY <1>2, <1>7, <1>8, <1>11, <2>2
<1>12. a \in Stretcher /\ a.w \in Nat /\ a.r \in Nat
  BY <1>8 DEF Stretcher
<1>13. ASSUME Knobs!HasFrame(s), s.hop <= WINDOW + SEARCH PROVE ~Knobs!Underflows(a) /\ m.r <= m.w
  BY <1>9, <1>11, <1>12, <1>13 DEF Knobs!Underflows
<1> QED
  BY <1>8, <1>9, <1>10, <1>13 DEF s, room, a

LEMMA EnterSplits ==
  ASSUME NEW c \in Knobs!Channels, NEW st \in [Knobs!Channels -> Stretcher], NEW now \in CallState,
         Knobs!Enter(c, st, now)
  PROVE  \/ /\ Knobs!Underflows(st[c]) /\ wsola' = st /\ call' \in CallState
            /\ call'.step = "panicked" /\ call'.target = now.target
         \/ /\ ~(Knobs!Refills(st[c], now.frames) /\ Knobs!Underflows(st[c]))
            /\ wsola' \in [Knobs!Channels -> Stretcher] /\ call' \in CallState
            /\ call'.step = c /\ call'.frames = now.frames /\ call'.target = now.target
            /\ Entered(st[c], now.frames) = [s |-> wsola'[c], written |-> call'.written[c]]
            /\ \A d \in Knobs!Channels \ {c} : wsola'[d] = st[d] /\ call'.written[d] = now.written[d]
<1>1. CASE Knobs!Refills(st[c], now.frames) /\ Knobs!Underflows(st[c])
  <2>1. wsola' = st /\ call' = [now EXCEPT !.step = "panicked"]
    BY <1>1 DEF Knobs!Enter
  <2> QED
    BY <1>1, <2>1 DEF CallState
<1>2. CASE ~(Knobs!Refills(st[c], now.frames) /\ Knobs!Underflows(st[c]))
  <2> DEFINE s == Knobs!refill_input_ring(st[c], now.frames)
             out == Knobs!Min2(s.pending, SCRATCH_CAPACITY)
             d == [s EXCEPT !.pending = @ - out]
             on == [now EXCEPT !.step = c]
  <2>1. wsola' = [st EXCEPT ![c] = d] /\ call' = [now EXCEPT !.step = c, !.written[c] = out]
    BY <1>2 DEF Knobs!Enter
  <2>2. st[c] \in Stretcher /\ now.frames \in Nat
    BY DEF CallState
  <2>3. Entered(st[c], now.frames) = [s |-> d, written |-> out]
    BY DEF Entered
  <2>4. Entered(st[c], now.frames) \in Place
    BY <1>2, <2>2, EnteredType
  <2> HIDE DEF s, out, d
  <2>5. d \in Stretcher /\ out \in 0..SCRATCH_CAPACITY
    <3>1. d = Entered(st[c], now.frames).s /\ out = Entered(st[c], now.frames).written
      BY <2>3
    <3> QED
      BY <2>4, <3>1 DEF Place
  <2>6. on \in CallState /\ on.step = c /\ on.frames = now.frames /\ on.target = now.target
        /\ on.written = now.written
    BY DEF CallState, Knobs!Channels
  <2>7. call' = [on EXCEPT !.written = [now.written EXCEPT ![c] = out]]
    BY <2>1 DEF CallState
  <2> HIDE DEF on
  <2>8. now.written \in [Knobs!Channels -> 0..SCRATCH_CAPACITY]
    BY DEF CallState
  <2> DEFINE wr == [now.written EXCEPT ![c] = out]
  <2>9. /\ wr \in [Knobs!Channels -> 0..SCRATCH_CAPACITY] /\ wr[c] = out
        /\ \A e \in Knobs!Channels \ {c} : wr[e] = now.written[e]
    BY <2>5, <2>8
  <2> HIDE DEF wr
  <2>10. /\ call' \in CallState /\ call'.step = c /\ call'.frames = now.frames
         /\ call'.target = now.target /\ call'.written = wr
    BY <2>6, <2>7, <2>9 DEF CallState, wr
  <2>11. /\ wsola' \in [Knobs!Channels -> Stretcher] /\ wsola'[c] = d
         /\ \A e \in Knobs!Channels \ {c} : wsola'[e] = st[e]
    BY <2>1, <2>5
  <2> QED
    BY <1>2, <2>3, <2>9, <2>10, <2>11
<1> QED
  BY <1>1, <1>2

LEMMA StretchInitHolds == Knobs!Init => StretchInv
<1> SUFFICES ASSUME Knobs!Init PROVE StretchInv
  OBVIOUS
<1>1. /\ HOP_OUT \in Nat /\ WINDOW \in Nat /\ SEARCH \in Nat /\ HOP_OUT <= WINDOW + SEARCH
      /\ SCRATCH_CAPACITY \in Nat
  BY StretchConstants
<1>2. Knobs!New \in Stretcher /\ Knobs!New.hop = HOP_OUT /\ Knobs!New.r <= Knobs!New.w
  BY <1>1 DEF Knobs!New, Stretcher
<1>3. call \in CallState /\ call.step = "idle"
  BY <1>1 DEF Knobs!Init, Knobs!Idle, CallState
<1>4. StretchTypes
  BY <1>1, <1>2, <1>3 DEF Knobs!Init, StretchTypes
<1>5. CursorsInOrder
  BY <1>1, <1>2, <1>3 DEF Knobs!Init, CursorsInOrder
<1>6. InStep
  BY <1>3 DEF Knobs!Init, InStep, Knobs!Channels
<1>7. Knobs!BlocksAreFresh
  BY DEF Knobs!Init, Knobs!BlocksAreFresh
<1> QED
  BY <1>4, <1>5, <1>6, <1>7 DEF StretchInv

\* A block is of the length asked for, sound first.
LEMMA BlockIsFresh ==
  ASSUME NEW n \in Nat, NEW target \in Blocks, block' = Knobs!BlockOf(n, target)
  PROVE  Knobs!BlocksAreFresh'
<1> DEFINE k == Knobs!Min2(n, target)
           a == Knobs!Repeat(k, "sound")
           b == Knobs!Repeat(target - k, "silence")
<1>1. target \in Nat \ {0}
  BY StretchConstants
<1>2. k \in Nat /\ target - k \in Nat
  BY <1>1 DEF Knobs!Min2
<1>3. block' = a \o b
  BY DEF Knobs!BlockOf
<1> HIDE DEF k
<1>4. a \in Seq({"sound", "silence"}) /\ Len(a) = k
  BY <1>2 DEF Knobs!Repeat
<1>5. b \in Seq({"sound", "silence"}) /\ Len(b) = target - k
  BY <1>2 DEF Knobs!Repeat
<1> HIDE DEF a, b
<1>6. block' \in Seq({"sound", "silence"}) /\ Len(block') = Len(a) + Len(b)
  BY <1>3, <1>4, <1>5, ConcatProperties
<1>7. Len(block') = target
  BY <1>1, <1>2, <1>4, <1>5, <1>6
<1>8. \A i \in 1..Len(block') : block'[i] \in {"sound", "silence"}
  BY <1>6
<1> QED
  BY <1>7, <1>8 DEF Knobs!BlocksAreFresh

LEMMA ResampledType == \A n \in Nat, e \in -4..4 : Knobs!Resampled(n, e) \subseteq Nat
  BY ScaledType DEF Knobs!Resampled

LEMMA KnobsKeep ==
  ASSUME StretchInv,
         (\E t \in Tempos : Knobs!set_tempo_ratio(t)) \/ (\E st \in Pitches : Knobs!set_pitch_semitones(st)) \/ Knobs!reset
  PROVE  StretchInv'
<1> USE DEF StretchInv
<1>1. \A t : Knobs!clamp_tempo_ratio(t) \in -2..2 \/ t \notin Int \cup {NonFinite}
  BY StretchConstants DEF Knobs!clamp_tempo_ratio
<1>2. /\ last_tempo_ratio' \in -2..2 /\ last_pitch_semitones' \in -2..2
      /\ UNCHANGED <<call, block, widest>>
  BY <1>1, StretchConstants
     DEF Knobs!set_tempo_ratio, Knobs!set_pitch_semitones, Knobs!reset, Knobs!clamp_pitch_semitones, StretchTypes
<1>3. Knobs!BlocksAreFresh'
  BY <1>2 DEF Knobs!BlocksAreFresh
<1>4. CASE UNCHANGED wsola
  BY <1>2, <1>3, <1>4 DEF StretchTypes, CursorsInOrder, InStep, At
<1>5. CASE Knobs!reset
  <2>1. wsola' = [c \in Knobs!Channels |-> Knobs!Cleared(wsola[c])] /\ call.step = "idle"
    BY <1>5 DEF Knobs!reset
  <2>2. \A c \in Knobs!Channels : /\ Knobs!Cleared(wsola[c]) \in Stretcher /\ Knobs!Cleared(wsola[c]).hop = wsola[c].hop
                           /\ Knobs!Cleared(wsola[c]).r = 0 /\ Knobs!Cleared(wsola[c]).w = 0
    BY StretchConstants DEF StretchTypes, Stretcher, Knobs!Cleared, Knobs!New
  <2>3. StretchTypes'
    BY <1>2, <2>1, <2>2 DEF StretchTypes
  <2>4. CursorsInOrder'
    BY <1>2, <2>1, <2>2 DEF CursorsInOrder
  <2>5. InStep'
    BY <1>2, <2>1 DEF InStep, Knobs!Channels
  <2> QED
    BY <1>3, <2>3, <2>4, <2>5
<1> QED
  BY <1>4, <1>5 DEF Knobs!set_tempo_ratio, Knobs!set_pitch_semitones

\* Both stretchers are told the hop and nothing else happens to them.
LEMMA RetunedKeeps ==
  ASSUME StretchInv, call.step = "idle", wsola' = Knobs!Retuned, call' = call,
         UNCHANGED <<last_tempo_ratio, last_pitch_semitones>>,
         widest' = IF Knobs!HopIn > widest THEN Knobs!HopIn ELSE widest, Knobs!BlocksAreFresh'
  PROVE  StretchInv'
<1>1. /\ StretchTypes /\ CursorsInOrder /\ InStep
  BY DEF StretchInv
<1>2. Knobs!HopIn \in Nat /\ widest \in Nat
  BY <1>1, HopType DEF StretchTypes
<1>3. widest' \in Nat /\ widest <= widest' /\ Knobs!HopIn <= widest'
  BY <1>2
<1>4. StretchTypes'
  BY <1>1, <1>3, RetunedType DEF StretchTypes
<1>5. CursorsInOrder'
  <2>1. \A c \in Knobs!Channels : wsola'[c].hop = Knobs!HopIn /\ wsola'[c].r = wsola[c].r /\ wsola'[c].w = wsola[c].w
    BY <1>1, RetunedType
  <2>2. WINDOW + SEARCH \in Nat
    BY StretchConstants
  <2>3. ASSUME widest' <= WINDOW + SEARCH
        PROVE  call'.step # "panicked" /\ \A c \in Knobs!Channels : wsola'[c].r <= wsola'[c].w
    <3>1. widest <= WINDOW + SEARCH
      BY <1>2, <1>3, <2>2, <2>3
    <3> QED
      BY <1>1, <2>1, <3>1 DEF CursorsInOrder
  <2> QED
    BY <1>3, <2>1, <2>3 DEF CursorsInOrder
<1>6. InStep'
  BY <1>1 DEF InStep, Knobs!Retuned, Knobs!Channels
<1> QED
  BY <1>4, <1>5, <1>6 DEF StretchInv

LEMMA PassingKeeps ==
  ASSUME StretchInv, NEW target \in Blocks, Knobs!Bypass(target) \/ Knobs!TwoResamplers(target)
  PROVE  StretchInv'
<1>1. StretchTypes
  BY DEF StretchInv
<1>2. CASE Knobs!Bypass(target)
  <2>1. target \in Nat \ {0}
    BY StretchConstants
  <2>2. block' = Knobs!Repeat(target, "sound")
    BY <1>2 DEF Knobs!Bypass
  <2>3. Len(block') = target /\ \A i \in 1..target : block'[i] = "sound"
    BY <2>1, <2>2 DEF Knobs!Repeat
  <2>4. Knobs!BlocksAreFresh'
    BY <2>3 DEF Knobs!BlocksAreFresh
  <2> QED
    BY <1>2, <2>4 DEF Knobs!Bypass, StretchInv, StretchTypes, CursorsInOrder, InStep, At
<1>3. CASE Knobs!TwoResamplers(target)
  <2>1. PICK mid \in Knobs!Resampled(CHUNK_FRAMES, -last_pitch_semitones),
             out \in Knobs!Resampled(CHUNK_FRAMES, last_pitch_semitones - last_tempo_ratio) :
          block' = Knobs!BlockOf(IF mid = 0 THEN 0 ELSE Knobs!Min2(out, SCRATCH_CAPACITY), target)
    BY <1>3 DEF Knobs!TwoResamplers
  <2>2. out \in Nat
    <3>1. last_pitch_semitones - last_tempo_ratio \in -4..4 /\ CHUNK_FRAMES \in Nat
      BY <1>1, StretchConstants DEF StretchTypes
    <3> QED
      BY <3>1, ResampledType
  <2> DEFINE n == IF mid = 0 THEN 0 ELSE Knobs!Min2(out, SCRATCH_CAPACITY)
  <2>3. n \in Nat
    BY <2>2, StretchConstants DEF Knobs!Min2
  <2>4. block' = Knobs!BlockOf(n, target)
    BY <2>1
  <2> HIDE DEF n
  <2>5. Knobs!BlocksAreFresh'
    BY <2>3, <2>4, BlockIsFresh
  <2> QED
    BY <1>3, <2>5, RetunedKeeps DEF Knobs!TwoResamplers
<1> QED
  BY <1>2, <1>3

LEMMA WalkOfOne == \A x \in Place : Walk(<<x>>, x, x)
  BY DEF Walk

LEMMA StretchKeeps ==
  ASSUME StretchInv, NEW target \in Blocks, Knobs!Stretch(target) PROVE StretchInv'
<1>1. StretchTypes /\ CursorsInOrder /\ InStep /\ Knobs!BlocksAreFresh
  BY DEF StretchInv
<1>2. /\ call.step = "idle" /\ widest' = IF Knobs!HopIn > widest THEN Knobs!HopIn ELSE widest
      /\ UNCHANGED <<last_tempo_ratio, last_pitch_semitones>>
  BY DEF Knobs!Stretch
<1>3. PICK n \in Knobs!Resampled(CHUNK_FRAMES, -last_pitch_semitones) :
        IF n = 0
        THEN /\ wsola' = Knobs!Retuned /\ block' = Knobs!BlockOf(0, target) /\ UNCHANGED call
        ELSE Knobs!Enter("left", Knobs!Retuned, [Knobs!Idle EXCEPT !.frames = n, !.target = target]) /\ UNCHANGED block
  BY DEF Knobs!Stretch
<1>4. n \in Nat
  <2>1. -last_pitch_semitones \in -4..4 /\ CHUNK_FRAMES \in Nat
    BY <1>1, StretchConstants DEF StretchTypes
  <2> QED
    BY <2>1, ResampledType
<1>5. CASE n = 0
  <2>1. Knobs!BlocksAreFresh'
    BY <1>3, <1>5, BlockIsFresh
  <2> QED
    BY <1>2, <1>3, <1>5, <2>1, RetunedKeeps
<1>6. CASE n # 0
  <2> DEFINE now == [Knobs!Idle EXCEPT !.frames = n, !.target = target]
  <2>1. /\ now \in CallState /\ now.frames = n /\ now.target = target
    <3> DEFINE on == [Knobs!Idle EXCEPT !.frames = n]
    <3>1. target \in Nat /\ SCRATCH_CAPACITY \in Nat
      BY StretchConstants
    <3>2. Knobs!Idle \in CallState
      BY <3>1 DEF Knobs!Idle, CallState
    <3>3. on \in CallState /\ on.frames = n
      BY <1>4, <3>2 DEF CallState
    <3>4. now = [on EXCEPT !.target = target]
      BY <3>2 DEF CallState
    <3> HIDE DEF on
    <3> QED
      BY <3>1, <3>3, <3>4 DEF CallState
  <2>2. Knobs!Enter("left", Knobs!Retuned, now) /\ UNCHANGED block
    BY <1>3, <1>6
  <2> HIDE DEF now
  <2>3. Knobs!Retuned \in [Knobs!Channels -> Stretcher] /\ Knobs!Retuned["left"] = Knobs!Retuned["right"]
    BY <1>1, <1>2, RetunedType DEF InStep, Knobs!Retuned, Knobs!Channels
  <2>4. Knobs!HopIn \in Nat /\ widest \in Nat
    BY <1>1, HopType DEF StretchTypes
  <2>5. widest' \in Nat /\ widest <= widest' /\ Knobs!HopIn <= widest'
    BY <1>2, <2>4
  <2>6. /\ Knobs!Retuned["left"].hop <= widest' /\ Knobs!Retuned["right"].hop <= widest'
        /\ widest' <= WINDOW + SEARCH =>
             Knobs!Retuned["left"].r <= Knobs!Retuned["left"].w /\ Knobs!Retuned["right"].r <= Knobs!Retuned["right"].w
    <3>1. \A c \in Knobs!Channels : Knobs!Retuned[c].hop = Knobs!HopIn /\ Knobs!Retuned[c].r = wsola[c].r /\ Knobs!Retuned[c].w = wsola[c].w
      BY <1>1, RetunedType
    <3>2. WINDOW + SEARCH \in Nat
      BY StretchConstants
    <3>3. widest' <= WINDOW + SEARCH => \A c \in Knobs!Channels : wsola[c].r <= wsola[c].w
      BY <1>1, <2>4, <2>5, <3>2 DEF CursorsInOrder
    <3>4. "left" \in Knobs!Channels /\ "right" \in Knobs!Channels
      BY DEF Knobs!Channels
    <3> QED
      BY <2>5, <3>1, <3>3, <3>4
  <2>7. Knobs!BlocksAreFresh'
    BY <1>1, <2>2 DEF Knobs!BlocksAreFresh
  <2>8. "left" \in Knobs!Channels /\ "right" \in Knobs!Channels /\ "right" \in Knobs!Channels \ {"left"} /\ \A c \in Knobs!Channels : c \in {"left", "right"}
    BY DEF Knobs!Channels
  <2>9. CASE call'.step = "panicked"
    <3>1. Knobs!Underflows(Knobs!Retuned["left"]) /\ wsola' = Knobs!Retuned /\ call' \in CallState /\ call'.target = target
      BY <2>1, <2>2, <2>3, <2>8, <2>9, EnterSplits
    <3>2. StretchTypes'
      BY <1>1, <1>2, <2>3, <2>5, <3>1 DEF StretchTypes
    <3>3. Knobs!Retuned["left"].w \in Nat /\ Knobs!Retuned["left"].r \in Nat
      BY <2>3, <2>8 DEF Stretcher
    <3>4. ~(Knobs!Retuned["left"].r <= Knobs!Retuned["left"].w)
      BY <3>1, <3>3 DEF Knobs!Underflows
    <3>6. ~(widest' <= WINDOW + SEARCH)
      BY <2>6, <2>8, <3>4
    <3>7. CursorsInOrder'
      BY <2>6, <2>8, <3>1, <3>6 DEF CursorsInOrder
    <3>5. InStep'
      BY <2>9 DEF InStep
    <3> QED
      BY <2>7, <3>2, <3>5, <3>7 DEF StretchInv
  <2>10. CASE call'.step # "panicked"
    <3>1. /\ ~(Knobs!Refills(Knobs!Retuned["left"], n) /\ Knobs!Underflows(Knobs!Retuned["left"]))
          /\ wsola' \in [Knobs!Channels -> Stretcher] /\ call' \in CallState
          /\ call'.step = "left" /\ call'.frames = n /\ call'.target = target
          /\ Entered(Knobs!Retuned["left"], n) = At("left")' /\ wsola'["right"] = Knobs!Retuned["right"]
      <4>1. /\ ~(Knobs!Refills(Knobs!Retuned["left"], n) /\ Knobs!Underflows(Knobs!Retuned["left"]))
            /\ wsola' \in [Knobs!Channels -> Stretcher] /\ call' \in CallState
            /\ call'.step = "left" /\ call'.frames = n /\ call'.target = target
            /\ Entered(Knobs!Retuned["left"], n) = [s |-> wsola'["left"], written |-> call'.written["left"]]
            /\ wsola'["right"] = Knobs!Retuned["right"]
        <5>1. now \in CallState /\ "left" \in Knobs!Channels
          BY <2>1, <2>8
        <5>2. \/ call'.step = "panicked"
              \/ /\ ~(Knobs!Refills(Knobs!Retuned["left"], now.frames) /\ Knobs!Underflows(Knobs!Retuned["left"]))
                 /\ wsola' \in [Knobs!Channels -> Stretcher] /\ call' \in CallState
                 /\ call'.step = "left" /\ call'.frames = now.frames /\ call'.target = now.target
                 /\ Entered(Knobs!Retuned["left"], now.frames) = [s |-> wsola'["left"], written |-> call'.written["left"]]
                 /\ \A d \in Knobs!Channels \ {"left"} : wsola'[d] = Knobs!Retuned[d] /\ call'.written[d] = now.written[d]
          BY <2>2, <2>3, <5>1, EnterSplits, Zenon
        <5> QED
          BY <2>1, <2>8, <2>10, <5>2
      <4> QED
        BY <4>1, Zenon DEF At
    <3>2. StretchTypes'
      BY <1>1, <1>2, <2>5, <3>1 DEF StretchTypes
    <3>3. Knobs!Retuned["left"] \in Stretcher
      BY <2>3, <2>8
    <3>4. /\ At("left")' \in Place /\ wsola'["left"].hop = Knobs!Retuned["left"].hop
          /\ Knobs!Retuned["left"].r <= Knobs!Retuned["left"].w => wsola'["left"].r <= wsola'["left"].w
      BY <1>4, <3>1, <3>3, EnteredType DEF At
    <3>5. CursorsInOrder'
      <4>1. wsola'["left"].hop <= widest' /\ wsola'["right"].hop <= widest'
        BY <2>6, <2>8, <3>1, <3>4
      <4>2. widest' <= WINDOW + SEARCH =>
              wsola'["left"].r <= wsola'["left"].w /\ wsola'["right"].r <= wsola'["right"].w
        BY <2>6, <2>8, <3>1, <3>4
      <4>3. call'.step # "panicked"
        BY <3>1
      <4> QED
        BY <2>8, <4>1, <4>2, <4>3 DEF CursorsInOrder
    <3>6. Walk(<<At("left")'>>, Entered(wsola'["right"], call'.frames), At("left")')
      BY <2>3, <3>1, <3>4, WalkOfOne
    <3>7. InStep'
      BY <3>1, <3>6 DEF InStep
    <3> QED
      BY <2>7, <3>2, <3>5, <3>7 DEF StretchInv
  <2> QED
    BY <2>9, <2>10
<1> QED
  BY <1>5, <1>6

LEMMA WalkOn ==
  ASSUME NEW q, NEW from, NEW to, Walk(q, from, to), Knobs!HasFrame(to.s), After(to) \in Place
  PROVE  Walk(Append(q, After(to)), from, After(to))
<1> DEFINE x == After(to)
           p == Append(q, x)
<1>1. /\ q \in Seq(Place) /\ q # <<>> /\ q[1] = from /\ q[Len(q)] = to
      /\ \A i \in 1..Len(q) - 1 : Knobs!HasFrame(q[i].s) /\ q[i + 1] = After(q[i])
  BY DEF Walk
<1>2. Len(q) \in Nat \ {0}
  BY <1>1, EmptySeq
<1> HIDE DEF x
<1>3. p \in Seq(Place) /\ Len(p) = Len(q) + 1 /\ p[Len(q) + 1] = x
      /\ \A i \in 1..Len(q) : p[i] = q[i]
  BY <1>1 DEF x
<1> HIDE DEF p
<1>4. p # <<>> /\ p[1] = from /\ p[Len(p)] = x
  BY <1>1, <1>2, <1>3
<1>5. ASSUME NEW i \in 1..Len(p) - 1 PROVE Knobs!HasFrame(p[i].s) /\ p[i + 1] = After(p[i])
  <2>1. CASE i = Len(q)
    BY <1>1, <1>2, <1>3, <2>1 DEF x
  <2>2. CASE i # Len(q)
    <3>1. i \in 1..Len(q) - 1 /\ i \in 1..Len(q) /\ i + 1 \in 1..Len(q)
      BY <1>2, <1>3, <2>2
    <3> QED
      BY <1>1, <1>3, <3>1
  <2> QED
    BY <2>1, <2>2
<1> QED
  BY <1>3, <1>4, <1>5 DEF Walk, x, p

LEMMA WalkBegun ==
  ASSUME NEW q, NEW from, NEW to, Walk(q, from, to), Knobs!HasFrame(from.s), ~Knobs!HasFrame(to.s)
  PROVE  Walk(Tail(q), After(from), to)
<1> DEFINE p == Tail(q)
<1>1. /\ q \in Seq(Place) /\ q # <<>> /\ q[1] = from /\ q[Len(q)] = to
      /\ \A i \in 1..Len(q) - 1 : Knobs!HasFrame(q[i].s) /\ q[i + 1] = After(q[i])
  BY DEF Walk
<1>2. Len(q) \in Nat \ {0} /\ Len(q) # 1
  BY <1>1, EmptySeq
<1>3. /\ p \in Seq(Place) /\ Len(p) = Len(q) - 1
      /\ \A i \in 1..Len(q) - 1 : p[i] = q[i + 1]
  BY <1>1, HeadTailProperties
<1> HIDE DEF p
<1>4. /\ 1 \in 1..Len(q) - 1 /\ Len(q) - 1 \in 1..Len(q) - 1
  BY <1>1, <1>2
<1>5. p # <<>> /\ p[1] = After(from) /\ p[Len(p)] = to
  <2>1. p[1] = q[2] /\ q[2] = After(q[1])
    BY <1>1, <1>3, <1>4
  <2>2. p[Len(p)] = q[Len(q)]
    BY <1>2, <1>3, <1>4
  <2>3. Len(p) # 0
    BY <1>2, <1>3
  <2>4. Len(<<>>) = 0
    OBVIOUS
  <2> QED
    BY <1>1, <2>1, <2>2, <2>3, <2>4
<1>6. ASSUME NEW i \in 1..Len(p) - 1 PROVE Knobs!HasFrame(p[i].s) /\ p[i + 1] = After(p[i])
  <2>1. i \in 1..Len(q) - 1 /\ i + 1 \in 1..Len(q) - 1
    BY <1>2, <1>3
  <2> QED
    BY <1>1, <1>3, <2>1
<1> QED
  BY <1>3, <1>5, <1>6 DEF Walk, p

LEMMA WalkOver ==
  ASSUME NEW q, NEW from, NEW to, Walk(q, from, to), ~Knobs!HasFrame(from.s)
  PROVE  from = to
<1>1. /\ q \in Seq(Place) /\ q # <<>> /\ q[1] = from /\ q[Len(q)] = to
      /\ \A i \in 1..Len(q) - 1 : Knobs!HasFrame(q[i].s)
  BY DEF Walk
<1>2. Len(q) \in Nat \ {0}
  BY <1>1, EmptySeq
<1>3. ASSUME Len(q) # 1 PROVE FALSE
  <2>1. PICK n \in Nat \ {0} : n = Len(q)
    BY <1>2
  <2>2. 1 \in 1..n - 1
    BY <1>3, <2>1
  <2> QED
    BY <1>1, <2>1, <2>2
<1>4. Len(q) = 1
  BY <1>3
<1> QED
  BY <1>1, <1>4

LEMMA SynthesiseType ==
  ASSUME StretchTypes, NEW c \in Knobs!Channels, Knobs!Synthesise(c)
  PROVE  /\ At(c) \in Place /\ At(c)' = After(At(c)) /\ StretchTypes'
         /\ call'.frames = call.frames
         /\ \A d \in Knobs!Channels \ {c} : wsola'[d] = wsola[d] /\ At(d)' = At(d)
         /\ \/ call'.step = c
            \/ /\ call'.step = "panicked"
               /\ Knobs!Underflows(Knobs!Advanced(wsola[c], SCRATCH_CAPACITY - call.written[c]))
<1> DEFINE room == SCRATCH_CAPACITY - call.written[c]
           s == Knobs!Advanced(wsola[c], room)
           far == s.r > RING_LEN \div 2
           now == IF far /\ Knobs!Underflows(s) THEN "panicked" ELSE c
           k == call.written[c] + Knobs!Min2(HOP_OUT, room)
           m == Moved(wsola[c], room)
<1>1. /\ wsola \in [Knobs!Channels -> Stretcher] /\ call \in CallState
      /\ call.written \in [Knobs!Channels -> 0..SCRATCH_CAPACITY]
  BY DEF StretchTypes, CallState
<1>2. At(c) \in Place /\ At(c).s = wsola[c] /\ At(c).written = call.written[c]
  BY <1>1 DEF At, Place
<1>3. wsola' = [wsola EXCEPT ![c] = m]
  BY DEF Knobs!Synthesise, Moved
<1>4. call' = [call EXCEPT !.written[c] = @ + Knobs!Min2(HOP_OUT, room), !.step = now]
  BY DEF Knobs!Synthesise
<1>5. After(At(c)) = [s |-> m, written |-> k]
  BY <1>2 DEF After
<1>6. After(At(c)) \in Place
  BY <1>2, AfterType
<1>7. now = c \/ (now = "panicked" /\ Knobs!Underflows(s))
  OBVIOUS
<1> HIDE DEF m, k, now
<1>8. m \in Stretcher /\ k \in 0..SCRATCH_CAPACITY
  <2>1. m = After(At(c)).s /\ k = After(At(c)).written
    BY <1>5
  <2> QED
    BY <1>6, <2>1 DEF Place
<1> DEFINE wr == [call.written EXCEPT ![c] = k]
           on == [call EXCEPT !.written = wr]
<1>9. /\ wr \in [Knobs!Channels -> 0..SCRATCH_CAPACITY] /\ wr[c] = k
      /\ \A d \in Knobs!Channels \ {c} : wr[d] = call.written[d]
  BY <1>1, <1>8
<1>10. call' = [on EXCEPT !.step = now]
  BY <1>1, <1>4 DEF k, CallState
<1> HIDE DEF wr
<1>11. /\ on \in CallState /\ on.written = wr /\ on.frames = call.frames /\ on.target = call.target
  BY <1>1, <1>9 DEF CallState
<1> HIDE DEF on
<1>12. now \in {"left", "right", "panicked"}
  BY <1>7 DEF Knobs!Channels
<1>13. /\ call' \in CallState /\ call'.written = wr /\ call'.frames = call.frames
       /\ call'.target = call.target /\ call'.step = now
  BY <1>10, <1>11, <1>12 DEF CallState
<1>14. /\ wsola' \in [Knobs!Channels -> Stretcher] /\ wsola'[c] = m
       /\ \A d \in Knobs!Channels \ {c} : wsola'[d] = wsola[d]
  BY <1>1, <1>3, <1>8
<1>15. StretchTypes'
  <2>1. call.target \in Blocks
    BY DEF Knobs!Synthesise, StretchTypes, Knobs!Channels
  <2> QED
    BY <1>13, <1>14, <2>1 DEF StretchTypes, Knobs!Synthesise
<1>16. At(c)' = [s |-> m, written |-> k]
  BY <1>9, <1>13, <1>14 DEF At
<1>17. \A d \in Knobs!Channels \ {c} : wsola'[d] = wsola[d] /\ At(d)' = At(d)
  BY <1>9, <1>13, <1>14 DEF At
<1> QED
  BY <1>2, <1>5, <1>7, <1>13, <1>15, <1>16, <1>17

LEMMA SynthesiseKeeps ==
  ASSUME StretchInv, NEW c \in Knobs!Channels, Knobs!Synthesise(c) PROVE StretchInv'
<1>1. StretchTypes /\ CursorsInOrder /\ InStep /\ Knobs!BlocksAreFresh
  BY DEF StretchInv
<1>2. call.step = c /\ Knobs!HasFrame(wsola[c]) /\ UNCHANGED <<block, widest>>
  BY DEF Knobs!Synthesise
<1>3. /\ At(c) \in Place /\ At(c)' = After(At(c)) /\ StretchTypes'
      /\ call'.frames = call.frames
      /\ \A d \in Knobs!Channels \ {c} : wsola'[d] = wsola[d] /\ At(d)' = At(d)
      /\ \/ call'.step = c
         \/ /\ call'.step = "panicked"
            /\ Knobs!Underflows(Knobs!Advanced(wsola[c], SCRATCH_CAPACITY - call.written[c]))
  BY <1>1, SynthesiseType
<1>4. At(c).s = wsola[c] /\ At(c).written = call.written[c] /\ At(c)'.s = wsola'[c]
  BY DEF At
<1>5. Knobs!BlocksAreFresh'
  BY <1>1, <1>2 DEF Knobs!BlocksAreFresh
<1>6. /\ After(At(c)) \in Place /\ wsola'[c].hop = wsola[c].hop
      /\ wsola[c].hop <= WINDOW + SEARCH =>
           /\ ~Knobs!Underflows(Knobs!Advanced(wsola[c], SCRATCH_CAPACITY - call.written[c]))
           /\ wsola'[c].r <= wsola'[c].w
  BY <1>2, <1>3, <1>4, AfterType
<1>7. CursorsInOrder'
  <2>1. \A d \in Knobs!Channels : wsola'[d].hop <= widest'
    BY <1>1, <1>2, <1>3, <1>6 DEF CursorsInOrder
  <2>2. ASSUME widest' <= WINDOW + SEARCH
        PROVE  call'.step # "panicked" /\ \A d \in Knobs!Channels : wsola'[d].r <= wsola'[d].w
    <3>1. wsola[c].hop \in Nat /\ widest \in Nat /\ WINDOW + SEARCH \in Nat
      BY <1>1, StretchConstants DEF StretchTypes, Stretcher
    <3>2. wsola[c].hop <= widest
      BY <1>1 DEF CursorsInOrder
    <3>3. wsola[c].hop <= WINDOW + SEARCH
      BY <1>2, <2>2, <3>1, <3>2
    <3>4. call'.step # "panicked"
      BY <1>3, <1>6, <3>3 DEF Knobs!Channels
    <3>5. \A d \in Knobs!Channels : wsola[d].r <= wsola[d].w
      BY <1>1, <1>2, <2>2 DEF CursorsInOrder
    <3> QED
      BY <1>3, <1>6, <3>3, <3>4, <3>5
  <2> QED
    BY <2>1, <2>2 DEF CursorsInOrder
<1>8. InStep'
  <2>1. CASE call'.step = "panicked"
    BY <2>1 DEF InStep
  <2>2. CASE c = "left" /\ call'.step = "left"
    <3>1. PICK q : Walk(q, Entered(wsola["right"], call.frames), At("left"))
      BY <1>1, <1>2, <2>2 DEF InStep
    <3>2. Walk(Append(q, After(At("left"))), Entered(wsola["right"], call.frames), After(At("left")))
      BY <1>2, <1>4, <1>6, <2>2, <3>1, WalkOn
    <3>3. wsola'["right"] = wsola["right"] /\ call'.frames = call.frames /\ At("left")' = After(At("left"))
      BY <1>3, <2>2 DEF Knobs!Channels
    <3>4. Walk(Append(q, After(At("left"))), Entered(wsola'["right"], call'.frames), At("left")')
      BY <3>2, <3>3
    <3> QED
      BY <2>2, <3>4 DEF InStep
  <2>3. CASE c = "right" /\ call'.step = "right"
    <3>1. PICK q : Walk(q, At("right"), At("left")) /\ ~Knobs!HasFrame(wsola["left"])
      BY <1>1, <1>2, <2>3 DEF InStep
    <3>2. At("left").s = wsola["left"]
      BY DEF At
    <3>3. Walk(Tail(q), After(At("right")), At("left"))
      BY <1>2, <1>4, <2>3, <3>1, <3>2, WalkBegun
    <3>4. At("left")' = At("left") /\ wsola'["left"] = wsola["left"] /\ At("right")' = After(At("right"))
      BY <1>3, <2>3 DEF Knobs!Channels
    <3>5. Walk(Tail(q), At("right")', At("left")') /\ ~Knobs!HasFrame(wsola'["left"])
      BY <3>1, <3>3, <3>4
    <3> QED
      BY <2>3, <3>5 DEF InStep
  <2> QED
    BY <1>3, <2>1, <2>2, <2>3 DEF Knobs!Channels
<1> QED
  BY <1>3, <1>5, <1>7, <1>8 DEF StretchInv

LEMMA LeftDoneKeeps == ASSUME StretchInv, Knobs!LeftDone PROVE StretchInv'
<1>1. StretchTypes /\ CursorsInOrder /\ InStep /\ Knobs!BlocksAreFresh
  BY DEF StretchInv
<1>2. /\ call.step = "left" /\ ~Knobs!HasFrame(wsola["left"]) /\ Knobs!Enter("right", wsola, call)
      /\ UNCHANGED <<last_tempo_ratio, last_pitch_semitones, block, widest>>
  BY DEF Knobs!LeftDone
<1>3. /\ wsola \in [Knobs!Channels -> Stretcher] /\ call \in CallState /\ call.frames \in Nat
      /\ call.target \in Blocks
  BY <1>1, <1>2 DEF StretchTypes, CallState
<1>4. "right" \in Knobs!Channels /\ "left" \in Knobs!Channels \ {"right"} /\ \A c \in Knobs!Channels : c \in {"left", "right"}
  BY DEF Knobs!Channels
<1>5. \/ /\ Knobs!Underflows(wsola["right"]) /\ wsola' = wsola /\ call' \in CallState
         /\ call'.step = "panicked" /\ call'.target = call.target
      \/ /\ ~(Knobs!Refills(wsola["right"], call.frames) /\ Knobs!Underflows(wsola["right"]))
         /\ wsola' \in [Knobs!Channels -> Stretcher] /\ call' \in CallState
         /\ call'.step = "right" /\ call'.frames = call.frames /\ call'.target = call.target
         /\ Entered(wsola["right"], call.frames) = [s |-> wsola'["right"], written |-> call'.written["right"]]
         /\ \A d \in Knobs!Channels \ {"right"} : wsola'[d] = wsola[d] /\ call'.written[d] = call.written[d]
  BY <1>2, <1>3, <1>4, EnterSplits, Zenon
<1>6. Knobs!BlocksAreFresh'
  BY <1>1, <1>2 DEF Knobs!BlocksAreFresh
<1>7. StretchTypes'
  BY <1>1, <1>2, <1>3, <1>5 DEF StretchTypes
<1>8. wsola["right"] \in Stretcher /\ wsola["right"].r \in Nat /\ wsola["right"].w \in Nat
  BY <1>3, <1>4 DEF Stretcher
<1>9. CASE call'.step = "panicked"
  <2>1. Knobs!Underflows(wsola["right"]) /\ wsola' = wsola
    BY <1>5, <1>9
  <2>2. ~(wsola["right"].r <= wsola["right"].w)
    BY <1>8, <2>1 DEF Knobs!Underflows
  <2>3. ~(widest <= WINDOW + SEARCH)
    BY <1>1, <1>4, <2>2 DEF CursorsInOrder
  <2>4. CursorsInOrder'
    BY <1>1, <1>2, <2>1, <2>3 DEF CursorsInOrder
  <2> QED
    BY <1>6, <1>7, <1>9, <2>4 DEF StretchInv, InStep
<1>10. CASE call'.step # "panicked"
  <2>1. /\ ~(Knobs!Refills(wsola["right"], call.frames) /\ Knobs!Underflows(wsola["right"]))
        /\ call'.step = "right" /\ At("right")' = Entered(wsola["right"], call.frames)
        /\ wsola'["left"] = wsola["left"] /\ At("left")' = At("left")
        /\ wsola'["right"] = Entered(wsola["right"], call.frames).s
    BY <1>4, <1>5, <1>10 DEF At
  <2>2. /\ wsola'["right"].hop = wsola["right"].hop
        /\ wsola["right"].r <= wsola["right"].w => wsola'["right"].r <= wsola'["right"].w
    BY <1>3, <1>8, <2>1, EnteredType
  <2>3. CursorsInOrder'
    <3>1. wsola'["left"].hop <= widest' /\ wsola'["right"].hop <= widest'
      BY <1>1, <1>2, <1>4, <2>1, <2>2 DEF CursorsInOrder
    <3>2. widest' <= WINDOW + SEARCH =>
            wsola'["left"].r <= wsola'["left"].w /\ wsola'["right"].r <= wsola'["right"].w
      BY <1>1, <1>2, <1>4, <2>1, <2>2 DEF CursorsInOrder
    <3> QED
      BY <1>4, <1>10, <3>1, <3>2 DEF CursorsInOrder
  <2>4. PICK q : Walk(q, Entered(wsola["right"], call.frames), At("left"))
    BY <1>1, <1>2 DEF InStep
  <2>5. Walk(q, At("right")', At("left")') /\ ~Knobs!HasFrame(wsola'["left"])
    BY <1>2, <2>1, <2>4
  <2>6. InStep'
    BY <2>1, <2>5 DEF InStep
  <2> QED
    BY <1>6, <1>7, <2>3, <2>6 DEF StretchInv
<1> QED
  BY <1>9, <1>10

LEMMA RightDoneKeeps == ASSUME StretchInv, Knobs!RightDone PROVE StretchInv'
<1>1. StretchTypes /\ CursorsInOrder /\ InStep /\ Knobs!BlocksAreFresh
  BY DEF StretchInv
<1>2. /\ call.step = "right" /\ ~Knobs!HasFrame(wsola["right"]) /\ call' = Knobs!Idle
      /\ block' = Knobs!BlockOf(Knobs!Min2(call.written["left"], call.written["right"]), call.target)
      /\ UNCHANGED <<last_tempo_ratio, last_pitch_semitones, wsola, widest>>
  BY DEF Knobs!RightDone
<1>3. PICK q : Walk(q, At("right"), At("left"))
  BY <1>1, <1>2 DEF InStep
<1>4. At("right").s = wsola["right"] /\ At("left").s = wsola["left"]
  BY DEF At
<1>5. At("right") = At("left")
  BY <1>2, <1>3, <1>4, WalkOver
<1>6. wsola["right"] = wsola["left"]
  BY <1>4, <1>5
<1>7. Knobs!Idle \in CallState /\ Knobs!Idle.step = "idle"
  BY StretchConstants DEF Knobs!Idle, CallState
<1>8. StretchTypes' /\ CursorsInOrder' /\ InStep'
  BY <1>1, <1>2, <1>6, <1>7 DEF StretchTypes, CursorsInOrder, InStep
<1>9. Knobs!BlocksAreFresh'
  <2>1. call.target \in Blocks /\ call.written["left"] \in Nat /\ call.written["right"] \in Nat
    BY <1>1, <1>2, StretchConstants DEF StretchTypes, CallState, Knobs!Channels
  <2>2. Knobs!Min2(call.written["left"], call.written["right"]) \in Nat
    BY <2>1 DEF Knobs!Min2
  <2> QED
    BY <1>2, <2>1, <2>2, BlockIsFresh
<1> QED
  BY <1>8, <1>9 DEF StretchInv

LEMMA StretchStepKeeps == StretchInv /\ [Knobs!Next]_(Knobs!vars) => StretchInv'
<1> SUFFICES ASSUME StretchInv, [Knobs!Next]_(Knobs!vars) PROVE StretchInv'
  OBVIOUS
<1>1. CASE UNCHANGED Knobs!vars
  BY <1>1 DEF Knobs!vars, StretchInv, StretchTypes, CursorsInOrder, InStep, Knobs!BlocksAreFresh, At
<1>2. CASE Knobs!Next
  BY <1>2, KnobsKeep, PassingKeeps, StretchKeeps, SynthesiseKeeps, LeftDoneKeeps, RightDoneKeeps DEF Knobs!Next
<1> QED
  BY <1>1, <1>2

LEMMA StretchHolds ==
  StretchInv => Knobs!PanicsOnlyOverreaching /\ Knobs!ChannelsInStep /\ Knobs!BlocksAreFresh
<1> SUFFICES ASSUME StretchInv PROVE Knobs!PanicsOnlyOverreaching /\ Knobs!ChannelsInStep
  BY DEF StretchInv
<1>1. Knobs!PanicsOnlyOverreaching
  <2>1. widest \in Nat /\ WINDOW + SEARCH \in Nat
    BY StretchConstants DEF StretchInv, StretchTypes
  <2> QED
    BY <2>1 DEF StretchInv, CursorsInOrder, Knobs!PanicsOnlyOverreaching
<1>2. Knobs!ChannelsInStep
  <2>1. ASSUME call.step = "right", ~Knobs!HasFrame(wsola["right"])
        PROVE  call.written["left"] = call.written["right"]
    <3>1. PICK q : Walk(q, At("right"), At("left"))
      BY <2>1 DEF StretchInv, InStep
    <3>2. At("right").s = wsola["right"]
      BY DEF At
    <3>3. At("right") = At("left")
      BY <2>1, <3>1, <3>2, WalkOver
    <3> QED
      BY <3>3 DEF At
  <2> QED
    BY <2>1 DEF StretchInv, InStep, Knobs!ChannelsInStep
<1> QED
  BY <1>1, <1>2

(* Unless the knobs have asked for a hop longer than what the stretcher    *)
(* waits for, no order of calls, resets and knob turns makes compact_ring  *)
(* subtract below zero (wsola.rs, compact_ring and pull_frame).            *)
THEOREM PanicCorrect == Knobs!Spec => []PanicsOnlyOverreaching
<1>1. StretchInv => PanicsOnlyOverreaching
  BY StretchHolds DEF PanicsOnlyOverreaching
<1> QED
  BY <1>1, StretchInitHolds, StretchStepKeeps, PTL DEF Knobs!Spec

(* A call gets as many frames from either channel, and between two calls   *)
(* both have the same cursors and frames to come, though each walks the    *)
(* ring for itself and finds the knobs and the scratch as the other left   *)
(* them; and a block's tail is silence, never sound an earlier call left   *)
(* in the scratch (timestretch.rs, process; pitch_tempo.rs says that the   *)
(* counts can differ).                                                     *)
THEOREM StretchCorrect == Knobs!Spec => []StretchIsTidy
<1>1. StretchInv => StretchIsTidy
  BY StretchHolds DEF StretchIsTidy
<1> QED
  BY <1>1, StretchInitHolds, StretchStepKeeps, PTL DEF Knobs!Spec

-----------------------------------------------------------------------------
(* The desktop shell. *)

LEMMA ShellFacts == "app" \notin Threads /\ IsFiniteSet(Threads)
BY PartsAssumption DEF Desktop!ShellConstants, Desktop!IsFiniteSet, IsFiniteSet

Check ==
  [step : {"idle", "fetch", "tell"}, listening : BOOLEAN, current : Versions \cup {Malformed},
   answer : {"none", "Disabled", "Network", "BadManifest", "BadVersion", "available", "current"},
   offer : Versions \cup {Malformed}]

ShellTypes ==
  /\ app \in {"boot", "up", "exiting", "gone", "crashed"}
  /\ child \in {"none", "running", "exited", "reaped"}
  /\ inner \in BOOLEAN /\ raced \in BOOLEAN
  /\ guard \in [Desktop!Holders -> {"none", "held", "killing", "releasing"}]

\* Somebody will still take the child out of the guard.
WillKill == \E h \in Desktop!Holders : guard[h] \in {"held", "killing"}

Silent == \A h \in Desktop!Holders : guard[h] = "none"

(* Nobody holds a guard before the engine runs; an engine not yet killed   *)
(* has a holder who may kill it, and once the app has gone that is not the *)
(* app itself.                                                             *)
GuardLives ==
  /\ app \in {"boot", "crashed"} => Silent
  /\ app = "gone" => guard["app"] = "none"
  /\ app = "boot" => child = "none"
  /\ child = "none" => app \in {"boot", "gone"} /\ ~inner
  /\ child = "reaped" <=> child # "none" /\ ~inner
  /\ inner /\ ~raced /\ app # "crashed" => WillKill

ShellInv ==
  ShellTypes /\ GuardLives /\ Desktop!DropSparesTheOthers

LEMMA ShellInitHolds == Desktop!Init => ShellInv
BY DEF Desktop!Init, ShellInv, ShellTypes, GuardLives, Silent, Desktop!DropSparesTheOthers,
       Desktop!Holders

(* The count tells the last holder from the others. *)
LEMMA CountOfOne ==
  ASSUME ShellTypes, NEW h \in Desktop!Holders, guard[h] # "none"
  PROVE  Desktop!LooksLast <=> \A g \in Desktop!Holders \ {h} : guard[g] = "none"
<1> DEFINE held == {g \in Desktop!Holders : guard[g] # "none"}
<1>1. IsFiniteSet(Desktop!Holders)
  BY ShellFacts, FS_Singleton, FS_Union DEF Desktop!Holders
<1>2. IsFiniteSet(held)
  BY <1>1, FS_Subset
<1>3. h \in held
  OBVIOUS
<1>4. Cardinality(held) = 1 <=> \E x : held = {x}
  BY <1>2, FS_Singleton
<1>5. Cardinality(held) = 1 <=> held = {h}
  <2> HIDE DEF held
  <2> QED BY <1>3, <1>4
<1>6. held = {h} <=> \A g \in Desktop!Holders \ {h} : guard[g] = "none"
  BY <1>3
<1> QED
  BY <1>5, <1>6 DEF Desktop!LooksLast, Desktop!strong_count, Desktop!Cardinality, Cardinality

LEMMA SpawnKeeps == ASSUME ShellInv, Desktop!spawn PROVE ShellInv'
<1>1. "app" \in Desktop!Holders
  BY DEF Desktop!Holders
<1>2. CASE app' = "gone" /\ UNCHANGED <<child, inner, guard>>
  BY <1>1, <1>2 DEF Desktop!spawn, ShellInv, ShellTypes, GuardLives, Silent, WillKill,
              Desktop!DropSparesTheOthers
<1>3. CASE app' = "up" /\ child' = "running" /\ inner' = TRUE
           /\ guard' = [guard EXCEPT !["app"] = "held"]
  <2>1. app = "boot" /\ UNCHANGED raced
    BY DEF Desktop!spawn
  <2>2. ShellTypes'
    BY <1>3, <2>1 DEF ShellInv, ShellTypes
  <2>3. guard'["app"] = "held" /\ \A h \in Desktop!Holders : guard'[h] # "killing"
    BY <1>1, <1>3, <2>1 DEF ShellInv, ShellTypes, GuardLives, Silent
  <2>4. GuardLives'
    BY <1>1, <1>3, <2>3 DEF GuardLives, WillKill
  <2>5. Desktop!DropSparesTheOthers'
    BY <2>3 DEF Desktop!DropSparesTheOthers
  <2> QED
    BY <2>2, <2>4, <2>5 DEF ShellInv
<1> QED
  BY <1>2, <1>3 DEF Desktop!spawn

LEMMA CloneKeeps ==
  ASSUME ShellInv, NEW h \in Desktop!Holders, NEW new \in Threads, Desktop!clone(h, new)
  PROVE  ShellInv'
<1>0. new \in Desktop!Holders
  BY DEF Desktop!Holders
<1>1. ShellTypes' /\ guard'[new] = "held"
  BY <1>0 DEF Desktop!clone, ShellInv, ShellTypes
<1>2. GuardLives'
  BY <1>0, <1>1 DEF Desktop!clone, Desktop!Alive, ShellInv, GuardLives, WillKill
<1>3. Desktop!DropSparesTheOthers'
  BY <1>0 DEF Desktop!clone, ShellInv, ShellTypes, Desktop!DropSparesTheOthers
<1> QED
  BY <1>1, <1>2, <1>3 DEF ShellInv

LEMMA AppKeeps ==
  ASSUME ShellInv,
         Desktop!EngineExits \/ Desktop!LastWindowCloses \/ Desktop!RuntimeCrashes \/ Desktop!Exit
  PROVE  ShellInv'
<1>1. CASE Desktop!EngineExits
  BY <1>1 DEF Desktop!EngineExits, ShellInv, ShellTypes, GuardLives, WillKill, Silent,
              Desktop!DropSparesTheOthers
<1>2. CASE Desktop!LastWindowCloses
  BY <1>2 DEF Desktop!LastWindowCloses, ShellInv, ShellTypes, GuardLives, WillKill, Silent,
              Desktop!DropSparesTheOthers
<1>3. CASE Desktop!RuntimeCrashes
  BY <1>3 DEF Desktop!RuntimeCrashes, ShellInv, ShellTypes, GuardLives, WillKill, Silent,
              Desktop!DropSparesTheOthers
<1>4. CASE Desktop!Exit
  BY <1>4 DEF Desktop!Exit, ShellInv, ShellTypes, GuardLives, WillKill, Silent,
              Desktop!DropSparesTheOthers
<1> QED
  BY <1>1, <1>2, <1>3, <1>4

LEMMA KillKeeps ==
  ASSUME ShellInv, NEW h \in Desktop!Holders, Desktop!kill_now(h) \/ Desktop!DropKill(h)
  PROVE  ShellInv'
<1>1. app \notin {"boot", "gone", "crashed"} /\ child # "none"
  BY DEF Desktop!kill_now, Desktop!DropKill, Desktop!Alive, ShellInv, GuardLives
<1>2. inner' = FALSE /\ child' = "reaped" /\ app' = app /\ raced' = raced
  BY <1>1 DEF Desktop!kill_now, Desktop!DropKill, Desktop!TakeAndKill, ShellInv, ShellTypes, GuardLives
<1>3. ShellTypes'
  <2>1. guard' = guard \/ guard' = [guard EXCEPT ![h] = "releasing"]
    BY DEF Desktop!kill_now, Desktop!DropKill
  <2>2. guard' \in [Desktop!Holders -> {"none", "held", "killing", "releasing"}]
    BY <2>1 DEF ShellInv, ShellTypes
  <2> QED
    BY <1>2, <2>2 DEF ShellInv, ShellTypes
<1>4. GuardLives'
  BY <1>1, <1>2 DEF GuardLives
<1>5. Desktop!DropSparesTheOthers'
  BY DEF Desktop!kill_now, Desktop!DropKill, ShellInv, ShellTypes, Desktop!DropSparesTheOthers
<1> QED
  BY <1>3, <1>4, <1>5 DEF ShellInv

LEMMA DropLookKeeps ==
  ASSUME ShellInv, NEW h \in Desktop!Holders, Desktop!DropLook(h)
  PROVE  ShellInv'
<1>1. guard[h] = "held" /\ Desktop!LooksLast <=> \A g \in Desktop!Holders \ {h} : guard[g] = "none"
  BY CountOfOne DEF Desktop!DropLook, ShellInv
<1>2. /\ guard[h] = "held" /\ app' = app /\ child' = child /\ inner' = inner
      /\ guard' = [guard EXCEPT ![h] = IF Desktop!LooksLast THEN "killing" ELSE "releasing"]
  BY DEF Desktop!DropLook
<1>3. raced' = \/ raced
               \/ /\ ~Desktop!LooksLast
                  /\ {g \in Desktop!Holders \ {h} : guard[g] # "none"} # {}
                  /\ \A g \in Desktop!Holders \ {h} : guard[g] # "held"
  BY DEF Desktop!DropLook
<1>4. ShellTypes'
  BY <1>2, <1>3 DEF ShellInv, ShellTypes
<1>5. /\ guard'[h] = IF Desktop!LooksLast THEN "killing" ELSE "releasing"
      /\ \A g \in Desktop!Holders \ {h} : guard'[g] = guard[g]
  BY <1>2 DEF ShellInv, ShellTypes
<1>6. ~raced' => WillKill'
  <2>1. CASE Desktop!LooksLast
    BY <2>1, <1>5 DEF WillKill
  <2>2. CASE ~Desktop!LooksLast
    <3>1. SUFFICES ASSUME ~raced' PROVE WillKill'
      OBVIOUS
    <3>2. PICK g \in Desktop!Holders \ {h} : guard[g] # "none"
      BY <1>1, <1>2, <2>2
    <3>3. {k \in Desktop!Holders \ {h} : guard[k] # "none"} # {}
      BY <3>2
    <3>4. PICK k \in Desktop!Holders \ {h} : guard[k] = "held"
      BY <1>3, <2>2, <3>1, <3>3
    <3> QED
      BY <1>5, <3>4 DEF WillKill
  <2> QED
    BY <2>1, <2>2
<1>7. GuardLives'
  <2>1. app \in {"up", "exiting"}
    BY DEF Desktop!DropLook, Desktop!Alive
  <2> QED
    BY <1>2, <1>6, <2>1 DEF ShellInv, GuardLives
<1>8. Desktop!DropSparesTheOthers'
  BY <1>1, <1>2, <1>5 DEF ShellInv, Desktop!DropSparesTheOthers
<1> QED
  BY <1>4, <1>7, <1>8 DEF ShellInv

LEMMA ReleaseKeeps ==
  ASSUME ShellInv, NEW h \in Desktop!Holders, Desktop!release(h) PROVE ShellInv'
<1>1. ShellTypes'
  BY DEF Desktop!release, ShellInv, ShellTypes
<1>2. /\ app \in {"up", "exiting"} /\ guard[h] = "releasing" /\ guard'[h] = "none"
      /\ \A g \in Desktop!Holders \ {h} : guard'[g] = guard[g]
      /\ UNCHANGED <<app, child, inner, raced>>
  BY DEF Desktop!release, Desktop!Alive, ShellInv, ShellTypes
<1>3. GuardLives'
  BY <1>2 DEF ShellInv, GuardLives, WillKill
<1>4. Desktop!DropSparesTheOthers'
  BY <1>2 DEF ShellInv, Desktop!DropSparesTheOthers
<1> QED
  BY <1>1, <1>3, <1>4 DEF ShellInv

LEMMA UpdaterKeeps ==
  ASSUME ShellInv, UNCHANGED <<app, child, inner, guard, raced>> PROVE ShellInv'
BY DEF ShellInv, ShellTypes, GuardLives, Silent, WillKill, Desktop!DropSparesTheOthers

(* The updater on its own. *)
OffersInv == updater \in Check /\ Desktop!OffersAreUpgrades

LEMMA OffersInitHolds == Desktop!Init => OffersInv
BY DEF Desktop!Init, Desktop!NoCheck, OffersInv, Check, Desktop!OffersAreUpgrades

LEMMA OffersKeep == OffersInv /\ [Desktop!Next]_(Desktop!vars) => OffersInv'
<1> SUFFICES ASSUME OffersInv, [Desktop!Next]_(Desktop!vars) PROVE OffersInv'
  OBVIOUS
<1>1. CASE UNCHANGED updater
  BY <1>1 DEF OffersInv, Desktop!OffersAreUpgrades
<1>2. ASSUME NEW opt_in \in BOOLEAN, NEW current \in Versions, Desktop!check_async(opt_in, current)
      PROVE  OffersInv'
  BY <1>2 DEF Desktop!check_async, Desktop!NoCheck, OffersInv, Check, Desktop!OffersAreUpgrades
<1>3. CASE Desktop!Fetch
  <2>1. ASSUME NEW error \in {"Network", "BadManifest", "BadVersion"},
               updater' = [updater EXCEPT !.step = "tell", !.answer = error]
        PROVE  OffersInv'
    BY <2>1 DEF OffersInv, Check, Desktop!OffersAreUpgrades
  <2>2. ASSUME NEW v \in Versions,
               updater' = [updater EXCEPT !.step = "tell", !.offer = v,
                             !.answer = IF Desktop!is_newer_semver(v, updater.current)
                                        THEN "available" ELSE "current"]
        PROVE  OffersInv'
    BY <2>2 DEF OffersInv, Check, Desktop!OffersAreUpgrades, Desktop!is_newer_semver
  <2> QED
    BY <1>3, <2>1, <2>2 DEF Desktop!Fetch
<1>4. CASE Desktop!Tell \/ Desktop!HangUp
  <2>1. CASE \/ updater' = [updater EXCEPT !.step = "idle"]
             \/ updater' = [updater EXCEPT !.listening = FALSE]
    BY <2>1 DEF OffersInv, Check, Desktop!OffersAreUpgrades
  <2>2. CASE updater' = Desktop!NoCheck
    BY <2>2 DEF Desktop!NoCheck, OffersInv, Check, Desktop!OffersAreUpgrades
  <2> QED
    BY <1>4, <2>1, <2>2 DEF Desktop!Tell, Desktop!HangUp
<1>5. CASE Desktop!Next
  <2>1. ASSUME Desktop!spawn \/ Desktop!EngineExits \/ Desktop!LastWindowCloses \/ Desktop!RuntimeCrashes \/ Desktop!Exit
        PROVE  UNCHANGED updater
    BY <2>1 DEF Desktop!spawn, Desktop!EngineExits, Desktop!LastWindowCloses, Desktop!RuntimeCrashes, Desktop!Exit
  <2>2. ASSUME NEW h \in Desktop!Holders, NEW new \in Threads, Desktop!clone(h, new)
        PROVE  UNCHANGED updater
    BY <2>2 DEF Desktop!clone
  <2>3. ASSUME NEW h \in Desktop!Holders,
               Desktop!kill_now(h) \/ Desktop!DropLook(h) \/ Desktop!DropKill(h) \/ Desktop!release(h)
        PROVE  UNCHANGED updater
    BY <2>3 DEF Desktop!kill_now, Desktop!DropLook, Desktop!DropKill, Desktop!release
  <2> QED
    BY <1>1, <1>2, <1>3, <1>4, <1>5, <2>1, <2>2, <2>3 DEF Desktop!Next
<1> QED
  BY <1>1, <1>5 DEF Desktop!vars

LEMMA ShellStepKeeps == ShellInv /\ [Desktop!Next]_(Desktop!vars) => ShellInv'
<1> SUFFICES ASSUME ShellInv, [Desktop!Next]_(Desktop!vars) PROVE ShellInv'
  OBVIOUS
<1>1. CASE UNCHANGED <<app, child, inner, guard, raced>>
  BY <1>1, UpdaterKeeps
<1>2. ASSUME NEW opt_in \in BOOLEAN, NEW current \in Versions, Desktop!check_async(opt_in, current)
      PROVE  ShellInv'
  BY <1>1, <1>2 DEF Desktop!check_async
<1>3. CASE Desktop!Fetch \/ Desktop!Tell \/ Desktop!HangUp
  BY <1>1, <1>3 DEF Desktop!Fetch, Desktop!Tell, Desktop!HangUp
<1>4. CASE Desktop!Next
  BY <1>2, <1>3, <1>4, SpawnKeeps, AppKeeps, CloneKeeps, KillKeeps, DropLookKeeps, ReleaseKeeps
     DEF Desktop!Next
<1> QED
  BY <1>1, <1>4 DEF Desktop!vars

(* The engine outlives the app only after a crash of the shell, after main *)
(* returned under a clone that a thread still held, or after two drops     *)
(* that each saw the other's handle still counted; a drop never kills the  *)
(* engine under another holder, and what the updater offers is newer       *)
(* (main.rs; sidecar.rs, Drop for ChildGuard; updater.rs, check_blocking). *)
THEOREM ShellCorrect == Desktop!Spec => []ShellKeepsWord
<1>1. ShellInv => Desktop!OrphanOnlyForCause
  BY DEF ShellInv, ShellTypes, GuardLives, WillKill, Desktop!OrphanOnlyForCause, Desktop!Holders
<1>2. ShellInv /\ OffersInv => ShellKeepsWord
  BY <1>1 DEF ShellInv, OffersInv, ShellKeepsWord
<1> QED
  BY <1>2, ShellInitHolds, OffersInitHolds, ShellStepKeeps, OffersKeep, PTL DEF Desktop!Spec

-----------------------------------------------------------------------------
(* Bar loops. *)

LEMMA BarLoopFacts ==
  /\ Grids \subseteq LoadEvent /\ \A ev \in Grids : Ascending(ev.downbeats_ms)
  /\ Positions \subseteq Nat /\ Requests \subseteq Nat /\ None \notin Int
BY PartsAssumption, ConstantsAssumption DEF BarLoopConstants

LEMMA DivBounds ==
  ASSUME NEW p \in Nat, NEW q \in Nat \ {0}
  PROVE  /\ p \div q \in Nat
         /\ q * (p \div q) <= p /\ p < q * (p \div q) + q
OBVIOUS

(* What is rounded is off by half at the most. *)
LEMMA RoundBounds ==
  ASSUME NEW a \in Nat, NEW b \in Nat \ {0}
  PROVE  LET r == RoundDiv(a, b)
         IN /\ r \in Nat
            /\ 2 * r * b - b <= 2 * a /\ 2 * a < 2 * r * b + b
<1> DEFINE r == RoundDiv(a, b)
<1>1. 2 * a + b \in Nat /\ 2 * b \in Nat \ {0}
  OBVIOUS
<1>2. r \in Nat /\ (2 * b) * r <= 2 * a + b /\ 2 * a + b < (2 * b) * r + 2 * b
  <2>1. r = (2 * a + b) \div (2 * b)
    BY DEF RoundDiv
  <2> QED
    BY <1>1, <2>1, DivBounds, Zenon
<1>3. (2 * b) * r = 2 * r * b
  BY <1>2
<1> HIDE DEF r
<1>4. 2 * r * b \in Nat
  BY <1>2
<1> DEFINE product == 2 * r * b
<1>5. product <= 2 * a + b /\ 2 * a + b < product + 2 * b
  BY <1>2, <1>3
<1>6. product \in Nat
  BY <1>4
<1> HIDE DEF product
<1>7. product - b <= 2 * a /\ 2 * a < product + b
  BY <1>5, <1>6
<1> USE DEF product
<1>8. r \in Nat /\ 2 * r * b - b <= 2 * a /\ 2 * a < 2 * r * b + b
  BY <1>2, <1>7
<1> QED
  BY <1>8 DEF r

Apart(p, bars) == IF p > bars THEN p - bars ELSE bars - p

Nearest(p, bars) ==
  /\ p \in {1, 2, 4, 8, 16}
  /\ \A q \in {1, 2, 4, 8, 16} \ {p} :
       Apart(p, bars) < Apart(q, bars) \/ (Apart(p, bars) = Apart(q, bars) /\ p < q)

LEMMA PresetIsNearest == ASSUME NEW bars \in Nat PROVE Nearest(clamp_loop_bars(bars), bars)
<1>1. CASE bars <= 1 \/ bars >= 16
  BY <1>1 DEF clamp_loop_bars, Nearest, Apart
<1>2. CASE bars > 1 /\ bars < 16
  <2> DEFINE P(i) == LOOP_BAR_PRESETS[i] <= bars /\ bars <= LOOP_BAR_PRESETS[i + 1]
             w == CHOOSE i \in 1..4 : P(i)
             lo == LOOP_BAR_PRESETS[w]
             hi == LOOP_BAR_PRESETS[w + 1]
  <2>1. \A i \in 1..4 : \/ i = 1 /\ LOOP_BAR_PRESETS[i] = 1 /\ LOOP_BAR_PRESETS[i + 1] = 2
                        \/ i = 2 /\ LOOP_BAR_PRESETS[i] = 2 /\ LOOP_BAR_PRESETS[i + 1] = 4
                        \/ i = 3 /\ LOOP_BAR_PRESETS[i] = 4 /\ LOOP_BAR_PRESETS[i + 1] = 8
                        \/ i = 4 /\ LOOP_BAR_PRESETS[i] = 8 /\ LOOP_BAR_PRESETS[i + 1] = 16
    BY DEF LOOP_BAR_PRESETS
  <2>2. \E i \in 1..4 : P(i)
    <3>1. P(1) \/ P(2) \/ P(3) \/ P(4)
      <4>1. /\ LOOP_BAR_PRESETS[1] = 1 /\ LOOP_BAR_PRESETS[2] = 2 /\ LOOP_BAR_PRESETS[3] = 4
            /\ LOOP_BAR_PRESETS[4] = 8 /\ LOOP_BAR_PRESETS[5] = 16
        BY DEF LOOP_BAR_PRESETS
      <4>2. /\ P(1) <=> 1 <= bars /\ bars <= 2
            /\ P(2) <=> 2 <= bars /\ bars <= 4
            /\ P(3) <=> 4 <= bars /\ bars <= 8
            /\ P(4) <=> 8 <= bars /\ bars <= 16
        BY <4>1
      <4> HIDE DEF P
      <4> QED
        BY <1>2, <4>2
    <3> QED
      BY <3>1
  <2>3. w \in 1..4 /\ P(w)
    BY <2>2
  <2>4. clamp_loop_bars(bars) = IF bars - lo <= hi - bars THEN lo ELSE hi
    BY <1>2 DEF clamp_loop_bars
  <2>5. lo <= bars /\ bars <= hi
    BY <2>3
  <2> HIDE DEF w
  <2>6. (lo = 1 /\ hi = 2) \/ (lo = 2 /\ hi = 4) \/ (lo = 4 /\ hi = 8) \/ (lo = 8 /\ hi = 16)
    BY <2>1, <2>3
  <2> HIDE DEF lo, hi
  <2> QED
    BY <2>4, <2>5, <2>6 DEF Nearest, Apart
<1> QED
  BY <1>1, <1>2

Bar == BeatsPerBar * MinuteMs

(* The grid's own next bar line, to the nearest millisecond. *)
OnGrid(start, at, anchor, bpm) ==
  \E n \in 0..((at * bpm) \div Bar + 1) :
    /\ anchor * bpm + n * BeatsPerBar * MinuteMs >= at * bpm
    /\ n = 0 \/ anchor * bpm + (n - 1) * BeatsPerBar * MinuteMs < at * bpm
    /\ 2 * start * bpm - bpm <= 2 * (anchor * bpm + n * BeatsPerBar * MinuteMs)
    /\ 2 * (anchor * bpm + n * BeatsPerBar * MinuteMs) < 2 * start * bpm + bpm

LEMMA GridDownbeatFits ==
  ASSUME NEW at \in Nat, NEW anchor \in Nat, NEW bpm \in Nat \ {0}
  PROVE  LET start == GridDownbeat(at, anchor, bpm)
         IN start \in Nat /\ start >= at /\ OnGrid(start, at, anchor, bpm)
<1> DEFINE P == at * bpm
           A == anchor * bpm
           k == P \div Bar
<1>1. P \in Nat /\ A \in Nat
  OBVIOUS
<1>2. Bar = 240000 /\ BeatsPerBar = 4 /\ MinuteMs = 60000
  BY DEF Bar, BeatsPerBar, MinuteMs
<1>3. k \in Nat /\ P < 240000 * k + 240000
  <2> HIDE DEF P
  <2> QED
    BY <1>1, <1>2
<1>4. CASE at <= anchor
  <2>1. P <= A
    BY <1>4
  <2>2. GridDownbeat(at, anchor, bpm) = anchor
    BY <1>4 DEF GridDownbeat
  <2>3. 2 * anchor * bpm = 2 * A
    OBVIOUS
  <2> HIDE DEF P, A, k
  <2>4. /\ A + 0 * BeatsPerBar * MinuteMs >= P
        /\ 2 * A - bpm <= 2 * (A + 0 * BeatsPerBar * MinuteMs)
        /\ 2 * (A + 0 * BeatsPerBar * MinuteMs) < 2 * A + bpm
        /\ 0 \in 0..(k + 1)
    BY <1>1, <1>2, <1>3, <2>1
  <2> USE DEF P, A, k
  <2>5. OnGrid(anchor, at, anchor, bpm)
    BY <2>3, <2>4, Zenon DEF OnGrid
  <2> QED
    BY <1>4, <2>2, <2>5
<1>5. CASE at > anchor
  <2> DEFINE n == CeilDiv((at - anchor) * bpm, Bar)
             x == A + n * Bar
             start == RoundDiv(x, bpm)
  <2>1. (at - anchor) * bpm = P - A /\ P - A \in Nat /\ P - A > 0
    <3>1. at - anchor \in Nat \ {0}
      BY <1>5
    <3>2. (at - anchor) * bpm \in Nat \ {0}
      BY <3>1
    <3>3. (at - anchor) * bpm = P - A
      OBVIOUS
    <3> QED
      BY <3>2, <3>3
  <2>2. n \in Nat /\ 240000 * n >= P - A /\ 240000 * n < P - A + 240000 /\ n > 0
    <3>1. n = (P - A + 240000 - 1) \div 240000
      BY <1>2, <2>1 DEF CeilDiv
    <3> HIDE DEF n, P, A
    <3> QED
      BY <1>1, <2>1, <3>1
  <2>3. GridDownbeat(at, anchor, bpm) = start
    <3>1. ~(at <= anchor)
      BY <1>5
    <3> QED
      BY <3>1 DEF GridDownbeat, Bar
  <2> HIDE DEF n, P, A, k
  <2>4. /\ x \in Nat /\ x = A + n * BeatsPerBar * MinuteMs /\ x >= P
        /\ A + (n - 1) * BeatsPerBar * MinuteMs < P
        /\ n \in 0..(k + 1)
    BY <1>1, <1>2, <1>3, <2>1, <2>2
  <2> HIDE DEF x
  <2>5. start \in Nat /\ 2 * start * bpm - bpm <= 2 * x /\ 2 * x < 2 * start * bpm + bpm
    BY <2>4, RoundBounds
  <2> HIDE DEF start
  <2>6. start >= at
    <3>1. SUFFICES ASSUME start < at PROVE FALSE
      BY <2>5
    <3>2. start + 1 <= at /\ start + 1 \in Nat
      BY <2>5, <3>1
    <3>3. (start + 1) * bpm <= at * bpm
      BY <3>2
    <3>4. (start + 1) * bpm = start * bpm + bpm /\ start * bpm \in Nat
      BY <2>5
    <3>5. 2 * start * bpm = 2 * (start * bpm)
      BY <2>5
    <3> DEFINE z == start * bpm
    <3>6. z \in Nat /\ z + bpm <= P /\ 2 * x < 2 * z + bpm
      BY <2>5, <3>3, <3>4, <3>5 DEF P
    <3> HIDE DEF z
    <3> QED
      BY <1>1, <2>4, <3>6
  <2>7. OnGrid(start, at, anchor, bpm)
    <3>1. /\ A + n * BeatsPerBar * MinuteMs >= P
          /\ n = 0 \/ A + (n - 1) * BeatsPerBar * MinuteMs < P
          /\ 2 * start * bpm - bpm <= 2 * (A + n * BeatsPerBar * MinuteMs)
          /\ 2 * (A + n * BeatsPerBar * MinuteMs) < 2 * start * bpm + bpm
      BY <2>4, <2>5
    <3> QED
      BY <2>4, <3>1, Zenon DEF OnGrid, P, A, k
  <2> QED
    BY <2>3, <2>5, <2>6, <2>7
<1> QED
  BY <1>4, <1>5

(* What lies ahead of the playhead, and the loop's start among it. *)
Ahead(at, downbeats) == {downbeats[i] : i \in DOMAIN downbeats} \ 0..(at - 1)

LEMMA DownbeatIsNext ==
  ASSUME NEW at \in Nat, NEW anchor \in Nat, NEW bpm \in Nat \ {0}, NEW db \in Seq(Nat),
         Ascending(db)
  PROVE  LET start == next_downbeat_at_or_after_ms(at, anchor, bpm, db)
         IN /\ start \in Nat /\ start >= at
            /\ IF Ahead(at, db) # {}
               THEN start \in Ahead(at, db) /\ \A b \in Ahead(at, db) : start <= b
               ELSE OnGrid(start, at, anchor, bpm)
<1> DEFINE later == {i \in DOMAIN db : db[i] >= at}
           first == CHOOSE i \in later : \A j \in later : i <= j
<1>1. DOMAIN db \subseteq Nat /\ \A i \in DOMAIN db : db[i] \in Nat
  OBVIOUS
<1>2. Ahead(at, db) = {db[i] : i \in later}
  <2>1. \A i \in DOMAIN db : db[i] \notin 0..(at - 1) <=> db[i] >= at
    BY <1>1
  <2> QED
    BY <2>1 DEF Ahead
<1>3. CASE later # {}
  <2>1. \E i \in later : \A j \in later : i <= j
    BY <1>1, <1>3, LeastNat
  <2>2. first \in later /\ \A j \in later : first <= j
    BY <2>1
  <2>3. next_downbeat_at_or_after_ms(at, anchor, bpm, db) = db[first]
    BY <1>3 DEF next_downbeat_at_or_after_ms
  <2> HIDE DEF first
  <2>4. \A j \in later : db[first] <= db[j]
    BY <2>2 DEF Ascending
  <2>5. db[first] \in Nat /\ db[first] >= at
    BY <1>1, <2>2
  <2>6. Ahead(at, db) # {} /\ db[first] \in Ahead(at, db) /\ \A b \in Ahead(at, db) : db[first] <= b
    BY <1>2, <2>2, <2>4
  <2> QED
    BY <2>3, <2>5, <2>6
<1>4. CASE later = {}
  <2>1. Ahead(at, db) = {}
    BY <1>2, <1>4
  <2>2. next_downbeat_at_or_after_ms(at, anchor, bpm, db) = GridDownbeat(at, anchor, bpm)
    BY <1>4 DEF next_downbeat_at_or_after_ms
  <2> QED
    BY <2>1, <2>2, GridDownbeatFits
<1> QED
  BY <1>3, <1>4

(* A loop under way is one its DJ asked for, on a deck with a tempo. *)
BarLoopInv ==
  /\ deck \in Deck /\ asked \in Nat \cup {None} /\ Ascending(deck.downbeats)
  /\ asked = None <=> ~deck.loop_active
  /\ deck.loop_active =>
       /\ deck.bpm \in Nat \ {0}
       /\ deck.loop_in_ms \in Nat /\ deck.loop_in_ms >= deck.position_ms
       /\ deck.loop_out_ms =
            deck.loop_in_ms + loop_length_ms(clamp_loop_bars(asked), deck.bpm)
       /\ IF Ahead(deck.position_ms, deck.downbeats) # {}
          THEN /\ deck.loop_in_ms \in Ahead(deck.position_ms, deck.downbeats)
               /\ \A b \in Ahead(deck.position_ms, deck.downbeats) : deck.loop_in_ms <= b
          ELSE OnGrid(deck.loop_in_ms, deck.position_ms, deck.beat_grid_anchor_ms, deck.bpm)

LEMMA BarLoopInitHolds == Init => BarLoopInv
<1> SUFFICES ASSUME Init PROVE BarLoopInv
  OBVIOUS
<1>1. deck \in Deck
  BY DefaultDeckType DEF Init
<1>2. deck.loop_active = FALSE /\ deck.downbeats = <<>>
  BY DEF Init, DefaultDeck
<1>3. Ascending(<<>>)
  BY DEF Ascending
<1> QED
  BY <1>1, <1>2, <1>3 DEF Init, BarLoopInv

(* A load leaves the loop alone, and the grid sorted. *)
LEMMA LoadedFields ==
  ASSUME NEW d \in Deck, NEW ev \in LoadEvent
  PROVE  /\ DeckLoad(d, ev).loop_active = d.loop_active
         /\ DeckLoad(d, ev).downbeats =
              SubSeq(ev.downbeats_ms, 1, Clamp(Len(ev.downbeats_ms), 0, DOWNBEATS_INLINE_CAPACITY))
<1> DEFINE db == SubSeq(ev.downbeats_ms, 1,
                        Clamp(Len(ev.downbeats_ms), 0, DOWNBEATS_INLINE_CAPACITY))
           bpm == IF ev.bpm > 0 THEN ev.bpm ELSE 120
           d1 == [d EXCEPT !.loaded = ev.track, !.position_ms = 0, !.playing = FALSE]
           d2 == [d1 EXCEPT !.bpm = bpm, !.beat_grid_anchor_ms = ev.beat_grid_anchor_ms,
                            !.phase_offset_ms = 0]
           d3 == [d2 EXCEPT !.downbeats = db, !.hot_cues = ev.hot_cues,
                            !.stem_gains = AllAudible]
<1>1. LoadedDeck(d, ev) = d3
  BY DEF LoadedDeck
<1> HIDE DEF db, bpm
<1>2. DOMAIN d1 = DOMAIN d /\ d1.loop_active = d.loop_active
  BY DEF Deck
<1> HIDE DEF d1
<1>3. DOMAIN d2 = DOMAIN d /\ d2.loop_active = d.loop_active
  BY <1>2
<1> HIDE DEF d2
<1>4. DOMAIN d3 = DOMAIN d /\ d3.loop_active = d.loop_active /\ d3.downbeats = db
  BY <1>3 DEF Deck
<1> HIDE DEF d3
<1> DEFINE g == IF ev.track_gain_db = NonFinite THEN 0 ELSE ev.track_gain_db
           d4 == [d3 EXCEPT !.track_gain_db = g, !.stem_mode = FALSE]
<1>5. DeckLoad(d, ev) = d4
  BY <1>1 DEF DeckLoad
<1> HIDE DEF g
<1>6. d4.loop_active = d.loop_active /\ d4.downbeats = db
  BY <1>4
<1> QED
  BY <1>5, <1>6 DEF db

LEMMA LoadKeeps ==
  ASSUME BarLoopInv, NEW ev \in Grids, Load(ev) PROVE BarLoopInv'
<1>1. ev \in LoadEvent /\ Ascending(ev.downbeats_ms) /\ ev.downbeats_ms \in Seq(Nat)
  BY BarLoopFacts DEF LoadEvent
<1>2. deck \in Deck /\ asked = None /\ asked' = None /\ deck' = DeckLoad(deck, ev) /\ ~deck.loop_active
  BY DEF Load, BarLoopInv
<1>3. deck' \in Deck
  BY <1>1, <1>2, DeckLoadType
<1>4. ~deck'.loop_active
  BY <1>1, <1>2, LoadedFields
<1>5. Ascending(deck'.downbeats)
  <2> DEFINE n == Clamp(Len(ev.downbeats_ms), 0, DOWNBEATS_INLINE_CAPACITY)
             s == ev.downbeats_ms
             t == SubSeq(s, 1, n)
  <2>1. n \in 0..Len(s)
    BY <1>1, SMT DEF Clamp, DOWNBEATS_INLINE_CAPACITY
  <2> HIDE DEF n
  <2>2. t \in Seq(Nat) /\ Len(t) = n /\ \A i \in 1..n : t[i] = s[i]
    BY <1>1, <2>1, SubSeqProperties
  <2>3. deck'.downbeats = t
    BY <1>1, <1>2, LoadedFields DEF n
  <2> HIDE DEF t
  <2>4. Ascending(t)
    <3>1. DOMAIN t = 1..n /\ DOMAIN s = 1..Len(s) /\ Len(s) \in Nat
      BY <1>1, <2>1, <2>2
    <3>2. \A i \in 1..n : i \in DOMAIN s /\ t[i] = s[i]
      BY <2>1, <2>2, <3>1
    <3> HIDE DEF s
    <3> QED
      BY <1>1, <3>1, <3>2 DEF Ascending, s
  <2> QED
    BY <2>3, <2>4
<1> QED
  BY <1>2, <1>3, <1>4, <1>5 DEF BarLoopInv

LEMMA CueKeeps ==
  ASSUME BarLoopInv, NEW ms \in Positions, Cue(ms) PROVE BarLoopInv'
<1>1. ms \in Nat /\ deck \in Deck /\ asked = None /\ ~deck.loop_active /\ Ascending(deck.downbeats)
  BY BarLoopFacts DEF Cue, BarLoopInv
<1>2. asked' = None /\ deck' = [deck EXCEPT !.position_ms = ms]
  BY <1>1 DEF Cue
<1>3. deck' \in Deck /\ deck'.loop_active = deck.loop_active /\ deck'.downbeats = deck.downbeats
  BY <1>1, <1>2 DEF Deck
<1> QED
  BY <1>1, <1>2, <1>3 DEF BarLoopInv

LEMMA LeaveKeeps == ASSUME BarLoopInv, LeaveLoop PROVE BarLoopInv'
<1>1. deck \in Deck /\ asked' = None /\ deck' = LoopExit(deck) /\ Ascending(deck.downbeats)
  BY DEF LeaveLoop, BarLoopInv
<1>2. deck' \in Deck /\ deck'.loop_active = FALSE /\ deck'.downbeats = deck.downbeats
  BY <1>1 DEF LoopExit, Deck, Position
<1> QED
  BY <1>1, <1>2 DEF BarLoopInv

LEMMA AskKeeps ==
  ASSUME BarLoopInv, NEW bars \in Requests, Ask(bars) PROVE BarLoopInv'
<1> DEFINE ev == [kind |-> "SetLoopBars", deck |-> "A", bars |-> bars]
<1>1. bars \in Nat /\ deck \in Deck /\ Ascending(deck.downbeats) /\ None \notin Int
  BY BarLoopFacts DEF BarLoopInv
<1>2. deck' = SetLoopBars(deck, ev) /\ asked' = IF deck'.loop_active THEN bars ELSE None
  BY DEF Ask
<1>3. deck' \in Deck
  BY <1>1, <1>2, SetLoopBarsType
<1>4. deck.bpm \in Nat /\ deck.position_ms \in Nat /\ deck.beat_grid_anchor_ms \in Nat
      /\ deck.downbeats \in Seq(Nat)
  BY <1>1 DEF Deck, Downbeats
<1>5. CASE deck.bpm = 0
  <2>1. deck' = deck
    BY <1>2, <1>5 DEF SetLoopBars
  <2>2. ~deck.loop_active
    BY <1>5 DEF BarLoopInv
  <2> QED
    BY <1>1, <1>2, <1>3, <2>1, <2>2 DEF BarLoopInv
<1>6. CASE deck.bpm # 0
  <2> DEFINE in == next_downbeat_at_or_after_ms(deck.position_ms, deck.beat_grid_anchor_ms,
                                                deck.bpm, deck.downbeats)
             len == loop_length_ms(clamp_loop_bars(bars), deck.bpm)
             out == in + len
  <2>1. ~(deck.bpm <= 0) /\ deck.bpm \in Nat \ {0}
    BY <1>4, <1>6
  <2>2. deck' = [deck EXCEPT !.loop_in_ms = in, !.loop_active = TRUE, !.loop_out_ms = out]
    BY <1>2, <2>1, Zenon DEF SetLoopBars
  <2>3. /\ in \in Nat /\ in >= deck.position_ms
        /\ IF Ahead(deck.position_ms, deck.downbeats) # {}
           THEN /\ in \in Ahead(deck.position_ms, deck.downbeats)
                /\ \A b \in Ahead(deck.position_ms, deck.downbeats) : in <= b
           ELSE OnGrid(in, deck.position_ms, deck.beat_grid_anchor_ms, deck.bpm)
    BY <1>1, <1>4, <2>1, DownbeatIsNext
  <2> HIDE DEF in, len, out
  <2>4. /\ deck'.loop_in_ms = in /\ deck'.loop_active = TRUE /\ deck'.loop_out_ms = out
        /\ deck'.position_ms = deck.position_ms /\ deck'.bpm = deck.bpm
        /\ deck'.beat_grid_anchor_ms = deck.beat_grid_anchor_ms
        /\ deck'.downbeats = deck.downbeats
    BY <1>1, <2>2 DEF Deck
  <2>5. asked' = bars
    BY <1>2, <2>4
  <2>6. deck'.loop_out_ms = deck'.loop_in_ms + loop_length_ms(clamp_loop_bars(asked'), deck'.bpm)
    BY <2>4, <2>5 DEF out, len
  <2>7. bars # None
    BY <1>1
  <2> QED
    BY <1>1, <1>3, <2>1, <2>3, <2>4, <2>5, <2>6, <2>7 DEF BarLoopInv
<1> QED
  BY <1>5, <1>6

LEMMA BarLoopStepKeeps == BarLoopInv /\ [Next]_vars => BarLoopInv'
<1> SUFFICES ASSUME BarLoopInv, [Next]_vars PROVE BarLoopInv'
  OBVIOUS
<1>1. CASE UNCHANGED vars
  BY <1>1 DEF vars, BarLoopInv
<1>2. CASE Next
  BY <1>2, LoadKeeps, CueKeeps, AskKeeps, LeaveKeeps DEF Next
<1> QED
  BY <1>1, <1>2

LEMMA BarLoopHolds == BarLoopInv => BarLoopFits
<1> SUFFICES ASSUME BarLoopInv, deck.loop_active
             PROVE  LoopStartsAtNextDownbeat /\ LoopHasNearestPreset
  BY DEF BarLoopFits, LoopStartsAtNextDownbeat, LoopHasNearestPreset
<1>1. deck \in Deck /\ asked \in Nat /\ deck.bpm \in Nat \ {0} /\ deck.loop_in_ms \in Nat
  BY DEF BarLoopInv
<1>2. LoopStartsAtNextDownbeat
  <2>1. OnGrid(deck.loop_in_ms, deck.position_ms, deck.beat_grid_anchor_ms, deck.bpm) =>
          \E n \in 0..MaxBar :
            /\ NextBar(n)
            /\ 2 * deck.loop_in_ms * deck.bpm - deck.bpm <= 2 * ScaledBar(n)
            /\ 2 * ScaledBar(n) < 2 * deck.loop_in_ms * deck.bpm + deck.bpm
    BY Zenon DEF OnGrid, NextBar, ScaledBar, ScaledNow, MaxBar, Bar
  <2> QED
    BY <2>1 DEF BarLoopInv, LoopStartsAtNextDownbeat, Ahead
<1>3. LoopHasNearestPreset
  <2> DEFINE p == clamp_loop_bars(asked)
             a == p * BeatsPerBar * MinuteMs
             length == RoundDiv(a, deck.bpm)
  <2>1. Nearest(p, asked)
    BY <1>1, PresetIsNearest
  <2>2. p \in {1, 2, 4, 8, 16}
    BY <2>1 DEF Nearest
  <2> HIDE DEF p
  <2>3. a \in Nat
    BY <2>2 DEF BeatsPerBar, MinuteMs
  <2>4. 2 * p * BeatsPerBar * MinuteMs = 2 * a
    BY <2>2 DEF BeatsPerBar, MinuteMs
  <2>5. deck.loop_out_ms = deck.loop_in_ms + length
    BY DEF BarLoopInv, loop_length_ms, p
  <2> HIDE DEF a
  <2>6. /\ length \in Nat
        /\ 2 * length * deck.bpm - deck.bpm <= 2 * a /\ 2 * a < 2 * length * deck.bpm + deck.bpm
    BY <1>1, <2>3, RoundBounds
  <2> HIDE DEF length
  <2>7. deck.loop_out_ms - deck.loop_in_ms = length
    BY <1>1, <2>5, <2>6
  <2> QED
    BY <2>1, <2>2, <2>4, <2>6, <2>7 DEF Nearest, Apart, LoopHasNearestPreset
<1> QED
  BY <1>2, <1>3

(* However the playhead stands to the grid and whatever number of bars is  *)
(* asked for, the loop starts at the next downbeat (the analysed one, else *)
(* the bar line of the tempo's grid to the nearest millisecond, never      *)
(* behind the playhead) and is as long as the nearest preset (state.rs,    *)
(* SetLoopBars, clamp_loop_bars and next_downbeat_at_or_after_ms).         *)
THEOREM BarLoopCorrect == Spec => []BarLoopFits
<1> QED
  BY BarLoopInitHolds, BarLoopStepKeeps, BarLoopHolds, PTL DEF Spec

-----------------------------------------------------------------------------
(* A track over HTTP. *)

LEMMA HttpFacts ==
  /\ PAGE_SIZE \in Nat \ {0} /\ FetchPages \in Nat \ {0}
  /\ MAX_CACHED_PAGES \in Nat /\ MAX_CACHED_PAGES >= FetchPages
  /\ Servers \subseteq [ranges : BOOLEAN, length : BOOLEAN, size : Nat]
  /\ Reads \subseteq Nat \ {0} /\ Seeks \subseteq Int /\ None \notin Int
BY PartsAssumption DEF Http!HttpSourceConstants

Pages == [start : Nat, from : Nat, size : Nat \ {0}]
Responses == [status : Nat, from : Nat, size : Nat]

(* What a search of the cache finds. *)
LEMMA HitFound ==
  ASSUME NEW s \in Seq(Pages), NEW k \in Nat
  PROVE  LET i == Http!HitIndex(s, k)
         IN /\ i \in 0..Len(s)
            /\ i # 0 => Http!Holds(s[i], k)
            /\ i = 0 => \A j \in 1..Len(s) : ~Http!Holds(s[j], k)
<1> DEFINE hits == {j \in 1..Len(s) : Http!Holds(s[j], k)}
<1>1. Http!HitIndex(s, k) = IF hits # {} THEN Http!Min(hits) ELSE 0
  BY DEF Http!HitIndex, Http!SelectInSeq
<1>2. ASSUME hits # {} PROVE Http!Min(hits) \in hits
  <2>1. hits \subseteq Nat
    OBVIOUS
  <2> HIDE DEF hits
  <2>2. \E i \in hits : \A j \in hits : i <= j
    BY <1>2, <2>1, LeastNat
  <2> QED
    BY <2>2 DEF Http!Min
<1>3. Len(s) \in Nat
  OBVIOUS
<1>4. CASE hits # {}
  <2>1. Http!HitIndex(s, k) = Http!Min(hits)
    BY <1>1, <1>4
  <2>2. Http!HitIndex(s, k) \in hits
    BY <1>2, <1>4, <2>1
  <2> QED
    BY <1>3, <2>2
<1>5. CASE hits = {}
  <2>1. Http!HitIndex(s, k) = 0
    BY <1>1, <1>5
  <2> QED
    BY <1>3, <1>5, <2>1
<1> QED
  BY <1>4, <1>5

LEMMA Removed ==
  ASSUME NEW S, NEW s \in Seq(S), NEW d \in 1..Len(s)
  PROVE  /\ Http!RemoveAt(s, d) \in Seq(S) /\ Len(Http!RemoveAt(s, d)) = Len(s) - 1
         /\ \A i \in 1..(Len(s) - 1) : Http!RemoveAt(s, d)[i] = IF i < d THEN s[i] ELSE s[i + 1]
<1>1. PICK n \in Nat : n = Len(s)
  OBVIOUS
<1>2. d \in 1..n /\ \A i \in 1..n : s[i] \in S
  BY <1>1
<1> DEFINE a == SubSeq(s, 1, d - 1)
           b == SubSeq(s, d + 1, n)
<1>3. a \in Seq(S) /\ Len(a) = d - 1 /\ \A i \in 1..(d - 1) : a[i] = s[i]
  <2>1. d - 1 \in Int /\ \A i \in 1..(d - 1) : s[i] \in S
    BY <1>2
  <2>2. /\ SubSeq(s, 1, d - 1) \in Seq(S)
        /\ Len(SubSeq(s, 1, d - 1)) = IF 1 <= d - 1 THEN (d - 1) - 1 + 1 ELSE 0
        /\ \A i \in 1..((d - 1) - 1 + 1) : SubSeq(s, 1, d - 1)[i] = s[1 + i - 1]
    BY <2>1, SubSeqProperties
  <2> QED
    BY <1>2, <2>2
<1>4. b \in Seq(S) /\ Len(b) = n - d /\ \A i \in 1..(n - d) : b[i] = s[d + i]
  <2>1. d + 1 \in Int /\ n \in Int /\ \A i \in (d + 1)..n : s[i] \in S
    BY <1>2
  <2>2. /\ SubSeq(s, d + 1, n) \in Seq(S)
        /\ Len(SubSeq(s, d + 1, n)) = IF d + 1 <= n THEN n - (d + 1) + 1 ELSE 0
        /\ \A i \in 1..(n - (d + 1) + 1) : SubSeq(s, d + 1, n)[i] = s[(d + 1) + i - 1]
    BY <2>1, SubSeqProperties
  <2> QED
    BY <1>2, <2>2
<1>5. Http!RemoveAt(s, d) = a \o b
  BY <1>1 DEF Http!RemoveAt
<1> HIDE DEF a, b
<1>6. a \o b \in Seq(S) /\ Len(a \o b) = n - 1
  <2>1. Len(a \o b) = Len(a) + Len(b) /\ a \o b \in Seq(S)
    BY <1>3, <1>4, ConcatProperties
  <2> QED
    BY <1>2, <1>3, <1>4, <2>1
<1>7. ASSUME NEW i \in 1..(n - 1) PROVE (a \o b)[i] = IF i < d THEN s[i] ELSE s[i + 1]
  <2>1. CASE i < d
    BY <1>2, <1>3, <1>4, <2>1
  <2>2. CASE i >= d
    <3>1. i - (d - 1) \in 1..(n - d) /\ d + (i - (d - 1)) = i + 1
      BY <1>2, <2>2
    <3>2. (a \o b)[i] = b[i - (d - 1)]
      BY <1>2, <1>3, <1>4, <2>2
    <3> QED
      BY <1>2, <1>4, <2>2, <3>1, <3>2
  <2>3. i < d \/ i >= d
    BY <1>2
  <2> QED
    BY <2>1, <2>2, <2>3
<1> QED
  BY <1>1, <1>5, <1>6, <1>7

(* A page is put last, and at most a copy with the same start goes.        *)
LEMMA PagePushed ==
  ASSUME NEW s \in Seq(Pages), NEW p \in Pages
  PROVE  LET t == Http!PushPage(s, p)
         IN /\ t \in Seq(Pages) /\ Len(t) \in {Len(s), Len(s) + 1} /\ Len(t) # 0
            /\ t[Len(t)] = p
            /\ \A i \in 1..Len(t) : t[i] = p \/ \E j \in 1..Len(s) : t[i] = s[j]
            /\ \A j \in 1..Len(s) : s[j].start # p.start =>
                 \E i \in 1..Len(t) : t[i] = s[j] /\ Len(t) - i <= Len(s) - j + 1
<1> DEFINE copies == {j \in 1..Len(s) : s[j].start = p.start}
           copy == IF copies # {} THEN Http!Min(copies) ELSE 0
           left == IF copy = 0 THEN s ELSE Http!RemoveAt(s, copy)
<1>1. Http!PushPage(s, p) = Append(left, p)
  BY DEF Http!PushPage, Http!SelectInSeq
<1>2. Len(s) \in Nat
  OBVIOUS
<1>3. copy \in 0..Len(s) /\ (copy # 0 => copy \in copies)
  <2>1. CASE copies # {}
    <3>1. copies \subseteq Nat
      OBVIOUS
    <3> HIDE DEF copies
    <3>2. \E i \in copies : \A j \in copies : i <= j
      BY <2>1, <3>1, LeastNat
    <3>3. Http!Min(copies) \in copies
      BY <3>2 DEF Http!Min
    <3>4. copy = Http!Min(copies)
      BY <2>1
    <3> USE DEF copies
    <3> QED
      BY <1>2, <3>3, <3>4
  <2>2. CASE copies = {}
    BY <1>2, <2>2
  <2> QED
    BY <2>1, <2>2
<1> HIDE DEF copy
<1>4. /\ left \in Seq(Pages) /\ Len(left) \in {Len(s), Len(s) - 1} /\ Len(left) \in Nat
      /\ \A i \in 1..Len(left) : \E j \in 1..Len(s) : left[i] = s[j]
      /\ \A j \in 1..Len(s) : s[j].start # p.start =>
           \E i \in 1..Len(left) : left[i] = s[j] /\ Len(left) - i <= Len(s) - j
  <2>1. CASE copy = 0
    BY <1>2, <2>1
  <2>2. CASE copy # 0
    <3>1. copy \in 1..Len(s) /\ s[copy].start = p.start /\ left = Http!RemoveAt(s, copy)
      BY <1>2, <1>3, <2>2
    <3>2. /\ left \in Seq(Pages) /\ Len(left) = Len(s) - 1
          /\ \A i \in 1..(Len(s) - 1) : left[i] = IF i < copy THEN s[i] ELSE s[i + 1]
      BY <3>1, Removed, Zenon
    <3> HIDE DEF left
    <3>3. PICK n \in Nat : n = Len(s)
      OBVIOUS
    <3>4. copy \in 1..n /\ Len(left) = n - 1 /\ n - 1 \in Nat
      BY <3>1, <3>2, <3>3
    <3>5. ASSUME NEW i \in 1..(n - 1) PROVE \E j \in 1..n : left[i] = s[j]
      BY <3>2, <3>3, <3>4
    <3>6. ASSUME NEW j \in 1..n, s[j].start # p.start
          PROVE  \E i \in 1..(n - 1) : left[i] = s[j] /\ (n - 1) - i <= n - j
      <4>1. j # copy
        BY <3>1, <3>6
      <4>2. CASE j < copy
        <5>1. j \in 1..(n - 1) /\ left[j] = s[j] /\ (n - 1) - j <= n - j
          BY <3>2, <3>3, <3>4, <4>2
        <5> QED
          BY <5>1
      <4>3. CASE j > copy
        <5>1. j - 1 \in 1..(n - 1) /\ ~(j - 1 < copy) /\ (j - 1) + 1 = j /\ (n - 1) - (j - 1) <= n - j
          BY <3>4, <4>3
        <5>2. left[j - 1] = s[j]
          BY <3>2, <3>3, <5>1
        <5> QED
          BY <5>1, <5>2
      <4> QED
        BY <3>4, <4>1, <4>2, <4>3
    <3> QED
      BY <3>2, <3>3, <3>4, <3>5, <3>6
  <2> QED
    BY <2>1, <2>2
<1> HIDE DEF left
<1> DEFINE t == Append(left, p)
<1>5. PICK m \in Nat : m = Len(left)
  BY <1>4
<1>6. /\ t \in Seq(Pages) /\ Len(t) = m + 1 /\ t[m + 1] = p
      /\ \A i \in 1..m : t[i] = left[i]
  BY <1>4, <1>5
<1> HIDE DEF t
<1>7. ASSUME NEW i \in 1..(m + 1) PROVE t[i] = p \/ \E j \in 1..Len(s) : t[i] = s[j]
  <2>1. i = m + 1 \/ i \in 1..m
    OBVIOUS
  <2> QED
    BY <1>4, <1>5, <1>6, <2>1
<1>8. ASSUME NEW j \in 1..Len(s), s[j].start # p.start
      PROVE  \E i \in 1..(m + 1) : t[i] = s[j] /\ (m + 1) - i <= Len(s) - j + 1
  <2>1. PICK i \in 1..m : left[i] = s[j] /\ m - i <= Len(s) - j
    BY <1>4, <1>5, <1>8
  <2>2. i \in 1..(m + 1) /\ t[i] = s[j] /\ (m + 1) - i <= Len(s) - j + 1
    BY <1>2, <1>6, <2>1
  <2> QED
    BY <2>2
<1>9. m + 1 \in {Len(s), Len(s) + 1} /\ m + 1 # 0
  BY <1>2, <1>4, <1>5
<1> QED
  BY <1>1, <1>6, <1>7, <1>8, <1>9 DEF t

(* k pages of a body have been pushed onto a cache: they are among the     *)
(* last k, and all other pages were there before.                          *)
Pushed(cache, body, t, k) ==
  /\ t \in Seq(Pages)
  /\ \A i \in 1..Len(t) : \/ \E j \in 1..Len(cache) : t[i] = cache[j]
                          \/ \E j \in 1..k : t[i] = body[j]
  /\ \A j \in 1..k : \E i \in 1..Len(t) : t[i] = body[j] /\ Len(t) - i < k

Distinct(body) == \A i, j \in 1..Len(body) : i # j => body[i].start # body[j].start

LEMMA OnePushed ==
  ASSUME NEW cache \in Seq(Pages), NEW body \in Seq(Pages), Distinct(body),
         NEW k \in 0..(Len(body) - 1), NEW t, Pushed(cache, body, t, k)
  PROVE  Pushed(cache, body, Http!PushPage(t, body[k + 1]), k + 1)
<1> DEFINE p == body[k + 1]
           u == Http!PushPage(t, p)
<1>1. t \in Seq(Pages) /\ p \in Pages /\ k \in Nat /\ k + 1 \in 1..Len(body)
  BY DEF Pushed
<1>2. PICK n \in Nat : n = Len(t)
  BY <1>1
<1>3. /\ u \in Seq(Pages) /\ Len(u) \in {n, n + 1} /\ Len(u) # 0 /\ u[Len(u)] = p
      /\ \A i \in 1..Len(u) : u[i] = p \/ \E j \in 1..n : u[i] = t[j]
      /\ \A j \in 1..n : t[j].start # p.start =>
           \E i \in 1..Len(u) : u[i] = t[j] /\ Len(u) - i <= n - j + 1
  BY <1>1, <1>2, PagePushed
<1> HIDE DEF u
<1>4. PICK m \in Nat : m = Len(u)
  BY <1>3
<1>5. ASSUME NEW j \in 1..k PROVE \E i \in 1..m : u[i] = body[j] /\ m - i < k + 1
  <2>1. PICK l \in 1..n : t[l] = body[j] /\ n - l < k
    BY <1>2 DEF Pushed
  <2>2. body[j].start # p.start
    BY <1>1 DEF Distinct
  <2>3. t[l].start # p.start
    BY <2>1, <2>2
  <2>4. PICK i \in 1..Len(u) : u[i] = t[l] /\ Len(u) - i <= n - l + 1
    <3> HIDE DEF p
    <3> QED
      BY <1>3, <2>3
  <2>5. i \in 1..m /\ m - i <= n - l + 1
    BY <1>4, <2>4
  <2>6. m - i < k + 1
    BY <1>1, <2>1, <2>5
  <2> QED
    BY <2>1, <2>4, <2>5, <2>6
<1>6. \E i \in 1..m : u[i] = p /\ m - i < k + 1
  <2>1. m \in 1..m /\ u[m] = p /\ m - m < k + 1
    BY <1>1, <1>3, <1>4
  <2> QED
    BY <2>1
<1>7. ASSUME NEW j \in 1..(k + 1) PROVE \E i \in 1..m : u[i] = body[j] /\ m - i < k + 1
  <2>1. j \in 1..k \/ j = k + 1
    BY <1>1
  <2> QED
    BY <1>5, <1>6, <2>1
<1>8. ASSUME NEW i \in 1..m
      PROVE  (\E j \in 1..Len(cache) : u[i] = cache[j]) \/ (\E j \in 1..(k + 1) : u[i] = body[j])
  <2>1. CASE u[i] = p
    BY <1>1, <2>1
  <2>2. CASE u[i] # p
    <3>1. PICK l \in 1..n : u[i] = t[l]
      BY <1>3, <1>4, <2>2
    <3>2. (\E j \in 1..Len(cache) : t[l] = cache[j]) \/ (\E j \in 1..k : t[l] = body[j])
      BY <1>2 DEF Pushed
    <3> QED
      BY <1>1, <3>1, <3>2
  <2> QED
    BY <2>1, <2>2
<1>9. Pushed(cache, body, u, k + 1)
  BY <1>3, <1>4, <1>7, <1>8 DEF Pushed
<1> QED
  BY <1>9 DEF u

(* Pages are pushed by a fold; the fold, by its defining equation.         *)
IsPushing(f, cache, body, n) ==
  f = [t \in SUBSET (1..n) |->
         IF t = {} THEN cache
         ELSE Http!PushPage(f[t \ {Http!Max(t)}], body[Http!Max(t)])]

(* The equation has a solution for every length: the least length without  *)
(* one would extend the solution before it.                                *)
LEMMA PushingExists ==
  ASSUME NEW cache, NEW body, NEW n \in Nat
  PROVE  \E f : IsPushing(f, cache, body, n)
<1> DEFINE Has(k) == \E f : IsPushing(f, cache, body, k)
           Bad == {k \in Nat : ~Has(k)}
           Step(f, t) == IF t = {} THEN cache
                         ELSE Http!PushPage(f[t \ {Http!Max(t)}], body[Http!Max(t)])
<1>1. Has(0)
  <2> DEFINE g == [t \in SUBSET (1..0) |-> cache]
  <2>1. g = [t \in SUBSET (1..0) |-> Step(g, t)]
    OBVIOUS
  <2>2. IsPushing(g, cache, body, 0)
    BY <2>1 DEF IsPushing
  <2> HIDE DEF g
  <2> QED BY <2>2
<1>2. ASSUME NEW k \in Nat, Has(k) PROVE Has(k+1)
  <2>1. PICK f : IsPushing(f, cache, body, k)
    BY <1>2
  <2> DEFINE g == [t \in SUBSET (1..(k+1)) |->
                     IF t \in SUBSET (1..k) THEN f[t]
                     ELSE Http!PushPage(f[t \ {k+1}], body[k+1])]
  <2>2. ASSUME NEW t \in SUBSET (1..(k+1))
        PROVE  g[t] = Step(g, t)
    <3>1. CASE t \in SUBSET (1..k)
      <4>1. g[t] = f[t] BY <3>1
      <4>2. \A x : t \ {x} \in SUBSET (1..k) /\ t \ {x} \in SUBSET (1..(k+1)) BY <3>1
      <4>3. \A x : g[t \ {x}] = f[t \ {x}] BY <4>2
      <4>4. f[t] = Step(f, t)
        BY <2>1, <3>1 DEF IsPushing
      <4> HIDE DEF g
      <4> QED BY <4>1, <4>3, <4>4
    <3>2. CASE t \notin SUBSET (1..k)
      <4>1. k+1 \in t BY <3>2
      <4>2. Http!Max(t) = k+1
        <5>1. k+1 \in Nat /\ \A y \in t : y \in Nat /\ k+1 >= y OBVIOUS
        <5>2. \A x \in t : (\A y \in t : x >= y) => x = k+1
          <6> TAKE x \in t
          <6> HAVE \A y \in t : x >= y
          <6> QED BY <4>1, <5>1
        <5> QED BY <4>1, <5>1, <5>2 DEF Http!Max
      <4>3. t \ {k+1} \in SUBSET (1..k) /\ t \ {k+1} \in SUBSET (1..(k+1)) OBVIOUS
      <4>4. g[t \ {k+1}] = f[t \ {k+1}] BY <4>3
      <4>5. g[t] = Http!PushPage(f[t \ {k+1}], body[k+1]) BY <3>2
      <4> HIDE DEF g
      <4> QED BY <4>1, <4>2, <4>4, <4>5
    <3> QED BY <3>1, <3>2
  <2>3. g = [t \in SUBSET (1..(k+1)) |-> g[t]] OBVIOUS
  <2> HIDE DEF g
  <2>4. g = [t \in SUBSET (1..(k+1)) |-> Step(g, t)]
    BY <2>2, <2>3
  <2>5. IsPushing(g, cache, body, k+1) BY <2>4 DEF IsPushing
  <2> QED BY <2>5
<1> HIDE DEF Has
<1>3. Bad = {}
  <2> SUFFICES ASSUME Bad # {} PROVE FALSE OBVIOUS
  <2>1. PICK j \in Bad : \A i \in Bad : j <= i BY LeastNat
  <2>2. j # 0 BY <1>1
  <2>3. j - 1 \in Nat /\ j - 1 \notin Bad BY <2>1, <2>2
  <2>4. Has(j - 1) BY <2>3
  <2>5. Has((j - 1) + 1) BY <2>3, <2>4, <1>2
  <2>6. (j - 1) + 1 = j OBVIOUS
  <2> QED BY <2>5, <2>6
<1> QED BY <1>3 DEF Has

LEMMA AllPushed ==
  ASSUME NEW cache \in Seq(Pages), NEW body \in Seq(Pages), Distinct(body)
  PROVE  Pushed(cache, body, Http!FoldLeft(Http!PushPage, cache, body), Len(body))
<1> DEFINE n == Len(body)
           f == CHOOSE g : IsPushing(g, cache, body, n)
<1>1. n \in Nat /\ DOMAIN body = 1..n
  OBVIOUS
<1>2. IsPushing(f, cache, body, n)
  BY <1>1, PushingExists
<1>3. Http!FoldLeft(Http!PushPage, cache, body) = f[1..n]
  BY <1>1, <1>2 DEF Http!FoldLeft, Http!MapThenFoldSet, IsPushing
<1> HIDE DEF f, n
<1>4. Pushed(cache, body, f[1..0], 0)
  <2>1. 1..0 = {} /\ 1..0 \in SUBSET (1..n)
    BY <1>1
  <2>2. f[1..0] = cache
    BY <1>2, <2>1 DEF IsPushing
  <2> QED
    BY <2>1, <2>2 DEF Pushed
<1>5. ASSUME NEW k \in 0..(n - 1), Pushed(cache, body, f[1..k], k)
      PROVE  Pushed(cache, body, f[1..(k + 1)], k + 1)
  <2> DEFINE t == 1..(k + 1)
  <2>1. t \in SUBSET (1..n) /\ t # {} /\ t \ {k + 1} = 1..k
    <3>1. k \in Nat /\ k + 1 <= n
      BY <1>1
    <3>2. \A x \in t : x \in 1..n
      BY <1>1, <3>1
    <3>3. k + 1 \in t
      BY <3>1
    <3>4. \A x : x \in t \ {k + 1} <=> x \in 1..k
      BY <3>1
    <3> HIDE DEF t
    <3> QED
      BY <3>2, <3>3, <3>4
  <2>2. Http!Max(t) = k + 1
    <3>1. \A x \in t : (\A y \in t : x >= y) => x = k+1
      BY <1>1
    <3>2. k+1 \in t /\ \A y \in t : k+1 >= y
      BY <1>1
    <3> HIDE DEF t
    <3> QED
      BY <3>1, <3>2 DEF Http!Max
  <2> HIDE DEF t
  <2>3. f[t] = Http!PushPage(f[1..k], body[k + 1])
    BY <1>2, <2>1, <2>2 DEF IsPushing
  <2>4. Pushed(cache, body, Http!PushPage(f[1..k], body[k + 1]), k + 1)
    BY <1>5, OnePushed DEF n
  <2> QED
    BY <2>3, <2>4 DEF t
<1> DEFINE Bad == {k \in 0..n : ~Pushed(cache, body, f[1..k], k)}
<1>6. Bad = {}
  <2> SUFFICES ASSUME Bad # {} PROVE FALSE
    OBVIOUS
  <2>0. Bad \subseteq Nat
    BY <1>1
  <2>1. PICK j \in Bad : \A i \in Bad : j <= i
    <3> HIDE DEF Bad
    <3> QED
      BY <2>0, LeastNat
  <2>2. j # 0
    BY <1>4
  <2>3. j - 1 \in 0..(n - 1) /\ j - 1 \notin Bad /\ (j - 1) + 1 = j
    BY <1>1, <2>1, <2>2
  <2>4. Pushed(cache, body, f[1..(j - 1)], j - 1)
    BY <1>1, <2>3
  <2> QED
    BY <1>5, <2>3, <2>4
<1>7. Pushed(cache, body, f[1..n], n)
  BY <1>1, <1>6
<1> QED
  BY <1>3, <1>7 DEF n

-----------------------------------------------------------------------------
LEMMA LessByFactor ==
  ASSUME NEW p \in Nat \ {0}, NEW a \in Nat, NEW b \in Nat, p * a < p * b PROVE a < b
<1> SUFFICES ASSUME b <= a PROVE FALSE
  OBVIOUS
<1>1. PICK d \in Nat : a = b + d
  <2>1. a - b \in Nat /\ a = b + (a - b)
    OBVIOUS
  <2> QED BY <2>1
<1>2. p * (b + d) = p * b + p * d /\ p * d \in Nat /\ p * b \in Nat
  OBVIOUS
<1> QED
  BY <1>1, <1>2

(* The pages of a body lie one after the other and cover it.               *)
LEMMA BodyCovers ==
  ASSUME NEW start \in Nat, NEW resp \in Responses
  PROVE  LET body == Http!BodyPages(start, resp)
         IN /\ body \in Seq(Pages) /\ Distinct(body)
            /\ PAGE_SIZE * Len(body) < resp.size + PAGE_SIZE
            /\ \A i \in 1..Len(body) :
                 /\ body[i].from - body[i].start = resp.from - start
                 /\ body[i].start + body[i].size <= start + resp.size
            /\ \A k \in start..(start + resp.size - 1) :
                 \E i \in 1..Len(body) : Http!Holds(body[i], k)
<1> DEFINE P == PAGE_SIZE
           size == resp.size
           c == (size + P - 1) \div P
           body == Http!BodyPages(start, resp)
<1>1. P \in Nat \ {0} /\ size \in Nat /\ resp.from \in Nat
  BY HttpFacts DEF Responses
<1>2. c \in Nat /\ P * c <= size + P - 1 /\ size + P - 1 < P * c + P
  <2>1. size + P - 1 \in Nat
    BY <1>1
  <2> QED
    BY <1>1, <2>1, DivBounds
<1>3. body = [i \in 1..c |-> [start |-> start + (i - 1) * P, from |-> resp.from + (i - 1) * P,
                               size |-> Http!Min2(P, size - (i - 1) * P)]]
  BY DEF Http!BodyPages
<1> HIDE DEF P, size, c, body
<1>4. ASSUME NEW i \in 1..c
      PROVE  (i - 1) * P \in Nat /\ (i - 1) * P < size
  <2> DEFINE d == c - i
             a == (i - 1) * P
             b == d * P
  <2>1. i - 1 \in Nat /\ d \in Nat
    BY <1>2
  <2>2. a \in Nat /\ b \in Nat
    BY <1>1, <2>1
  <2>3. P * c = a + b + P
    <3>1. c = (i - 1) + d + 1
      BY <1>2
    <3> HIDE DEF d
    <3>2. P * ((i - 1) + d + 1) = (i - 1) * P + d * P + P
      BY <1>1, <2>1
    <3> QED
      BY <3>1, <3>2
  <2>4. a < size
    <3> HIDE DEF a, b
    <3>1. P * c \in Nat
      BY <1>1, <1>2
    <3> QED
      BY <1>1, <1>2, <2>2, <2>3, <3>1
  <2> QED
    BY <2>2, <2>4
<1>5. DOMAIN body = 1..c /\ Len(body) = c
  BY <1>2, <1>3
<1>6. ASSUME NEW i \in 1..c
      PROVE  /\ body[i] \in Pages
             /\ body[i].start = start + (i - 1) * P /\ body[i].from = resp.from + (i - 1) * P
             /\ body[i].size <= size - (i - 1) * P
             /\ body[i].size = P \/ body[i].size = size - (i - 1) * P
  <2> DEFINE a == (i - 1) * P
  <2>1. a \in Nat /\ a < size
    BY <1>4
  <2>2. body[i] = [start |-> start + a, from |-> resp.from + a, size |-> Http!Min2(P, size - a)]
    BY <1>3
  <2> HIDE DEF a
  <2>3. /\ Http!Min2(P, size - a) \in Nat \ {0} /\ Http!Min2(P, size - a) <= size - a
        /\ Http!Min2(P, size - a) \in {P, size - a}
    BY <1>1, <2>1 DEF Http!Min2
  <2>4. /\ body[i] \in Pages /\ body[i].start = start + a /\ body[i].from = resp.from + a
        /\ body[i].size <= size - a /\ body[i].size \in {P, size - a}
    BY <1>1, <2>1, <2>2, <2>3 DEF Pages
  <2> QED
    BY <2>4 DEF a
<1>7. body \in Seq(Pages)
  BY <1>2, <1>3, <1>5, <1>6
<1>8. Distinct(body)
  <2> SUFFICES ASSUME NEW i \in 1..c, NEW j \in 1..c, i # j PROVE body[i].start # body[j].start
    BY <1>5 DEF Distinct
  <2>1. (i - 1) * P # (j - 1) * P
    <3>1. i - 1 \in Nat /\ j - 1 \in Nat
      BY <1>2
    <3> DEFINE u == i - 1
               v == j - 1
    <3>2. u \in Nat /\ v \in Nat /\ u # v
      BY <1>2, <3>1
    <3> HIDE DEF u, v
    <3>3. u * P # v * P
      BY <1>1, <3>2
    <3> QED
      BY <3>3 DEF u, v
  <2>2. (i - 1) * P \in Nat /\ (j - 1) * P \in Nat
    BY <1>4
  <2> QED
    BY <1>6, <2>1, <2>2
<1>9. PAGE_SIZE * Len(body) < size + PAGE_SIZE
  <2>1. P * c \in Nat
    BY <1>1, <1>2
  <2> QED
    BY <1>1, <1>2, <1>5, <2>1 DEF P
<1>10. ASSUME NEW i \in 1..c
       PROVE  /\ body[i].from - body[i].start = resp.from - start
              /\ body[i].start + body[i].size <= start + size
  <2>1. (i - 1) * P \in Nat
    BY <1>4
  <2>2. body[i].size \in Nat
    BY <1>6 DEF Pages
  <2> QED
    BY <1>1, <1>6, <2>1, <2>2
<1>11. ASSUME NEW k \in start..(start + size - 1)
       PROVE  \E i \in 1..c : Http!Holds(body[i], k)
  <2> DEFINE o == k - start
             q == o \div P
  <2>1. o \in Nat /\ o < size
    BY <1>1
  <2>2. q \in Nat /\ P * q <= o /\ o < P * q + P
    BY <1>1, <2>1, DivBounds
  <2>3. q + 1 \in 1..c
    <3>1. P * q \in Nat /\ P * c \in Nat
      BY <1>1, <1>2, <2>2
    <3>2. P * q < P * c
      <4> HIDE DEF q, o
      <4> QED
        BY <1>1, <1>2, <2>1, <2>2, <3>1
    <3>3. q < c
      BY <1>1, <1>2, <2>2, <3>2, LessByFactor
    <3> HIDE DEF q
    <3> QED
      BY <1>2, <2>2, <3>3
  <2> HIDE DEF q
  <2>4. ((q + 1) - 1) * P = P * q
    BY <1>1, <2>2
  <2>5. /\ body[q + 1].start = start + P * q
        /\ body[q + 1].size = P \/ body[q + 1].size = size - P * q
    BY <1>6, <2>3, <2>4
  <2>6. Http!Holds(body[q + 1], k)
    <3>1. P * q \in Nat
      BY <1>1, <2>2
    <3> QED
      BY <1>1, <2>1, <2>2, <2>5, <3>1 DEF Http!Holds
  <2> QED
    BY <2>3, <2>6
<1> QED
  BY <1>5, <1>7, <1>8, <1>9, <1>10, <1>11 DEF size, body

(* A fetched body in the cache: its pages say where they are from, hold    *)
(* every byte of it, and are among the last ones.                          *)
LEMMA Fetched ==
  ASSUME NEW cache \in Seq(Pages), NEW start \in Nat, NEW resp \in Responses
  PROVE  LET t == Http!slice_into_pages(start, resp, cache)
         IN /\ t \in Seq(Pages)
            /\ \A i \in 1..Len(t) :
                 \/ \E j \in 1..Len(cache) : t[i] = cache[j]
                 \/ /\ t[i].from - t[i].start = resp.from - start
                    /\ t[i].start + t[i].size <= start + resp.size
            /\ \E b \in Nat :
                 /\ PAGE_SIZE * b < resp.size + PAGE_SIZE
                 /\ \A k \in start..(start + resp.size - 1) :
                      \E i \in 1..Len(t) : Http!Holds(t[i], k) /\ Len(t) - i < b
<1> DEFINE body == Http!BodyPages(start, resp)
           t == Http!slice_into_pages(start, resp, cache)
<1>1. /\ body \in Seq(Pages) /\ Distinct(body)
      /\ PAGE_SIZE * Len(body) < resp.size + PAGE_SIZE
      /\ \A i \in 1..Len(body) :
           /\ body[i].from - body[i].start = resp.from - start
           /\ body[i].start + body[i].size <= start + resp.size
      /\ \A k \in start..(start + resp.size - 1) :
           \E i \in 1..Len(body) : Http!Holds(body[i], k)
  BY BodyCovers
<1>2. t = Http!FoldLeft(Http!PushPage, cache, body)
  BY DEF Http!slice_into_pages
<1> HIDE DEF body, t
<1>3. Pushed(cache, body, t, Len(body))
  BY <1>1, <1>2, AllPushed
<1>4. ASSUME NEW i \in 1..Len(t)
      PROVE  \/ \E j \in 1..Len(cache) : t[i] = cache[j]
             \/ /\ t[i].from - t[i].start = resp.from - start
                /\ t[i].start + t[i].size <= start + resp.size
  <2>1. CASE \E j \in 1..Len(cache) : t[i] = cache[j]
    BY <2>1
  <2>2. CASE \E j \in 1..Len(body) : t[i] = body[j]
    <3>1. PICK j \in 1..Len(body) : t[i] = body[j]
      BY <2>2
    <3>2. /\ body[j].from - body[j].start = resp.from - start
          /\ body[j].start + body[j].size <= start + resp.size
      BY <1>1
    <3> QED
      BY <3>1, <3>2
  <2> QED
    BY <1>3, <2>1, <2>2 DEF Pushed
<1>5. ASSUME NEW k \in start..(start + resp.size - 1)
      PROVE  \E i \in 1..Len(t) : Http!Holds(t[i], k) /\ Len(t) - i < Len(body)
  BY <1>1, <1>3 DEF Pushed
<1>6. Len(body) \in Nat /\ t \in Seq(Pages)
  BY <1>1, <1>3 DEF Pushed
<1> QED
  BY <1>1, <1>4, <1>5, <1>6 DEF t

LEMMA Touched ==
  ASSUME NEW s \in Seq(Pages), NEW d \in 1..Len(s)
  PROVE  LET t == Append(Http!RemoveAt(s, d), s[d])
         IN /\ t \in Seq(Pages)
            /\ \A i \in 1..Len(t) : \E j \in 1..Len(s) : t[i] = s[j]
            /\ \A j \in 1..Len(s) : \E i \in 1..Len(t) : t[i] = s[j]
<1> DEFINE r == Http!RemoveAt(s, d)
           t == Append(r, s[d])
<1>1. PICK n \in Nat : n = Len(s)
  OBVIOUS
<1>2. d \in 1..n /\ \A i \in 1..n : s[i] \in Pages
  BY <1>1
<1>3. /\ r \in Seq(Pages) /\ Len(r) = n - 1
      /\ \A i \in 1..(n - 1) : r[i] = IF i < d THEN s[i] ELSE s[i + 1]
  BY <1>1, Removed
<1> HIDE DEF r
<1>4. /\ t \in Seq(Pages) /\ Len(t) = n /\ t[n] = s[d]
      /\ \A i \in 1..(n - 1) : t[i] = r[i]
  BY <1>2, <1>3
<1> HIDE DEF t
<1>5. ASSUME NEW i \in 1..n PROVE \E j \in 1..n : t[i] = s[j]
  <2>1. CASE i = n
    BY <1>2, <1>4, <2>1
  <2>2. CASE i # n
    <3>1. i \in 1..(n - 1) /\ i \in 1..n /\ i + 1 \in 1..n
      BY <2>2
    <3>2. t[i] = s[i] \/ t[i] = s[i + 1]
      BY <1>3, <1>4, <3>1
    <3> QED
      BY <3>1, <3>2
  <2> QED
    BY <2>1, <2>2
<1>6. ASSUME NEW j \in 1..n PROVE \E i \in 1..n : t[i] = s[j]
  <2>1. CASE j < d
    <3>1. j \in 1..(n - 1) /\ j \in 1..n
      BY <1>2, <2>1
    <3>2. t[j] = s[j]
      BY <1>3, <1>4, <2>1, <3>1
    <3> QED
      BY <3>1, <3>2
  <2>2. CASE j = d
    BY <1>2, <1>4, <2>2
  <2>3. CASE j > d
    <3>1. j - 1 \in 1..(n - 1) /\ j - 1 \in 1..n /\ ~(j - 1 < d) /\ (j - 1) + 1 = j
      BY <1>2, <2>3
    <3>2. t[j - 1] = s[j]
      BY <1>3, <1>4, <3>1
    <3> QED
      BY <3>1, <3>2
  <2> QED
    BY <1>2, <2>1, <2>2, <2>3
<1> QED
  BY <1>1, <1>4, <1>5, <1>6 DEF r, t

(* Eviction spares the pages used last.                                    *)
LEMMA TrimKeeps ==
  ASSUME NEW s \in Seq(Pages)
  PROVE  LET t == Http!Trim(s)
         IN /\ t \in Seq(Pages)
            /\ \A i \in 1..Len(t) : \E j \in 1..Len(s) : t[i] = s[j]
            /\ \A j \in 1..Len(s) : Len(s) - j < MAX_CACHED_PAGES =>
                 \E i \in 1..Len(t) : t[i] = s[j]
<1> DEFINE t == Http!Trim(s)
<1>1. PICK n \in Nat : n = Len(s)
  OBVIOUS
<1>2. PICK m \in Nat : m = MAX_CACHED_PAGES
  BY HttpFacts
<1>3. CASE n <= m
  BY <1>1, <1>2, <1>3 DEF Http!Trim
<1>4. CASE n > m
  <2>1. t = SubSeq(s, n - m + 1, n)
    BY <1>1, <1>2, <1>4 DEF Http!Trim
  <2>2. n - m + 1 \in Int /\ n \in Int /\ \A i \in (n - m + 1)..n : s[i] \in Pages
    BY <1>1, <1>4
  <2>3. /\ SubSeq(s, n - m + 1, n) \in Seq(Pages)
        /\ Len(SubSeq(s, n - m + 1, n)) = IF n - m + 1 <= n THEN n - (n - m + 1) + 1 ELSE 0
        /\ \A i \in 1..(n - (n - m + 1) + 1) : SubSeq(s, n - m + 1, n)[i] = s[(n - m + 1) + i - 1]
    BY <2>2, SubSeqProperties
  <2> HIDE DEF t
  <2>4. t \in Seq(Pages) /\ Len(t) = m /\ \A i \in 1..m : t[i] = s[(n - m) + i]
    <3>0. m \in Nat
      BY <1>2, HttpFacts
    <3>1. (IF n - m + 1 <= n THEN n - (n - m + 1) + 1 ELSE 0) = m
      BY <1>4, <3>0
    <3>2. \A i \in 1..m : i \in 1..(n - (n - m + 1) + 1) /\ (n - m + 1) + i - 1 = (n - m) + i
      BY <1>4, <3>0
    <3> QED
      BY <2>1, <2>3, <3>1, <3>2
  <2>5. ASSUME NEW i \in 1..m PROVE \E j \in 1..n : t[i] = s[j]
    <3>1. (n - m) + i \in 1..n
      BY <1>4
    <3> QED
      BY <2>4, <3>1
  <2>6. ASSUME NEW j \in 1..n, n - j < m PROVE \E i \in 1..m : t[i] = s[j]
    <3>1. j - (n - m) \in 1..m /\ (n - m) + (j - (n - m)) = j
      BY <1>4, <2>6
    <3> QED
      BY <2>4, <3>1
  <2> QED
    BY <1>1, <1>2, <2>4, <2>5, <2>6 DEF t
<1> QED
  BY <1>3, <1>4

-----------------------------------------------------------------------------
HttpTypes ==
  /\ server \in Servers
  /\ pos \in Nat /\ total_len \in {None, server.size}
  /\ pages \in Seq(Pages)

\* A server that knows ranges or lengths.
Honest == server.ranges \/ server.length

Right(page) == page.from = page.start /\ page.start + page.size <= server.size

(* Why reads are the track: every cached page says truly where it is from, *)
(* and the track of a server without ranges, once its length is known, is  *)
(* in the cache as a whole, so that no part of it is fetched again.        *)
HttpInv ==
  /\ HttpTypes
  /\ source = "open" /\ server.length => total_len = server.size
  /\ Honest => \A i \in 1..Len(pages) : Right(pages[i])
  /\ source = "open" /\ ~server.ranges /\ server.length =>
       \A k \in 0..(server.size - 1) : \E i \in 1..Len(pages) : Http!Holds(pages[i], k)
  /\ ReadsLikeAFile

LEMMA ServerFacts ==
  ASSUME HttpTypes
  PROVE  /\ server.ranges \in BOOLEAN /\ server.length \in BOOLEAN /\ server.size \in Nat
         /\ server.size # None
BY HttpFacts DEF HttpTypes

LEMMA CopiedRight ==
  ASSUME HttpTypes, NEW page \in Pages, Http!Holds(page, pos), Honest => Right(page),
         NEW n \in Reads, Http!Copied(page, n), UNCHANGED server
  PROVE  pos' \in Nat /\ ReadsLikeAFile'
<1> DEFINE within == pos - page.start
           len == Http!Min2(page.size - within, n)
<1>1. /\ page.start \in Nat /\ page.from \in Nat /\ page.size \in Nat
      /\ page.start <= pos /\ pos < page.start + page.size /\ pos \in Nat
      /\ n \in Nat \ {0}
  BY HttpFacts DEF HttpTypes, Pages, Http!Holds
<1>2. len \in Nat \ {0} /\ len <= page.size - within /\ within \in Nat
  BY <1>1 DEF Http!Min2
<1>3. /\ last_read' = [call |-> "read", at |-> pos, from |-> page.from + within, len |-> len]
      /\ pos' = pos + len
  BY DEF Http!Copied
<1> HIDE DEF len
<1>4. /\ last_read'.call = "read" /\ last_read'.at = pos
      /\ last_read'.from = page.from + within /\ last_read'.len = len
  BY <1>3
<1>5. pos' \in Nat
  BY <1>1, <1>2, <1>3
<1>6. Http!ReadsAreTheTrack'
  <2> SUFFICES ASSUME Honest PROVE last_read'.from = pos /\ pos + len <= server.size
    BY <1>4 DEF Http!ReadsAreTheTrack, Honest
  <2>1. page.from = page.start /\ page.start + page.size <= server.size
    BY DEF Right
  <2>2. server.size \in Nat
    BY ServerFacts
  <2> QED
    BY <1>1, <1>2, <1>4, <2>1, <2>2
<1>7. Http!EndsOnlyAtTheEnd'
  <2>1. last_read' # Http!Failed
    BY <1>4 DEF Http!Failed
  <2> QED
    BY <1>2, <1>4, <2>1 DEF Http!EndsOnlyAtTheEnd
<1> QED
  BY <1>5, <1>6, <1>7 DEF ReadsLikeAFile

LEMMA HttpInit ==
  Http!Init => HttpInv
<1> SUFFICES ASSUME Http!Init PROVE HttpInv
  OBVIOUS
<1>1. HttpTypes
  BY DEF Http!Init, HttpTypes
<1>2. ReadsLikeAFile
  BY DEF Http!Init, Http!Idle, Http!Failed, ReadsLikeAFile, Http!ReadsAreTheTrack,
         Http!EndsOnlyAtTheEnd
<1> QED
  BY <1>1, <1>2 DEF HttpInv, Http!Init

\* A call that fails on the network, or finds no such place.
LEMMA FailedRight ==
  ASSUME last_read' = Http!Failed,
         source' = "open" /\ server'.length => broken'
  PROVE  ReadsLikeAFile'
BY DEF Http!Failed, ReadsLikeAFile, Http!ReadsAreTheTrack, Http!EndsOnlyAtTheEnd

LEMMA HttpOpen ==
  HttpInv /\ Http!Open => HttpInv'
<1> SUFFICES ASSUME HttpInv, Http!Open PROVE HttpInv'
  OBVIOUS
<1> DEFINE F == FetchPages * PAGE_SIZE
           resp == Http!ranged_get(0, F - 1)
<1>1. /\ HttpTypes /\ server' = server /\ pos' = pos
      /\ server.ranges \in BOOLEAN /\ server.length \in BOOLEAN /\ server.size \in Nat
      /\ server.size # None
  BY ServerFacts DEF HttpInv, Http!Open
<1>2. F \in Nat \ {0}
  BY HttpFacts
<1> HIDE DEF F
<1>3. CASE source' = "failed" /\ last_read' = Http!Failed /\ UNCHANGED <<total_len, pages>>
  <2>1. ReadsLikeAFile'
    BY <1>3, FailedRight
  <2> QED
    BY <1>1, <1>3, <2>1 DEF HttpInv, HttpTypes, Honest, Right
<1>4. CASE /\ resp.status # 416
           /\ source' = "open" /\ last_read' = Http!Idle
           /\ total_len' = Http!parse_total_length(resp)
           /\ pages' = Http!slice_into_pages(0, resp, <<>>)
  <2>1. /\ resp.from = 0 /\ resp.size \in Nat /\ resp.size <= server.size
        /\ resp \in Responses
        /\ ~server.ranges => resp.size = server.size
    <3>1. CASE ~server.ranges
      <4>1. resp = [status |-> 200, from |-> 0, size |-> server.size]
        BY <3>1 DEF Http!ranged_get
      <4> QED
        BY <1>1, <4>1 DEF Responses
    <3>2. CASE server.ranges
      <4>1. ~(0 >= server.size)
        <5> SUFFICES ASSUME 0 >= server.size PROVE FALSE
          OBVIOUS
        <5>1. resp = [status |-> 416, from |-> 0, size |-> 0]
          BY <3>2 DEF Http!ranged_get
        <5> QED
          BY <1>4, <5>1
      <4>2. resp = [status |-> 206, from |-> 0, size |-> Http!Min2(F - 1 + 1, server.size) - 0]
        BY <3>2, <4>1 DEF Http!ranged_get
      <4>3. /\ Http!Min2(F - 1 + 1, server.size) - 0 \in Nat
            /\ Http!Min2(F - 1 + 1, server.size) - 0 <= server.size
        BY <1>1, <1>2 DEF Http!Min2
      <4> QED
        BY <3>2, <4>2, <4>3 DEF Responses
    <3> QED
      BY <1>1, <3>1, <3>2
  <2> HIDE DEF resp
  <2> DEFINE none == << >>
  <2>2. none \in Seq(Pages) /\ Len(none) = 0
    OBVIOUS
  <2>0. pages' = Http!slice_into_pages(0, resp, none)
    BY <1>4
  <2> HIDE DEF none
  <2>3. /\ pages' \in Seq(Pages)
        /\ \A i \in 1..Len(pages') :
             \/ \E j \in 1..Len(none) : pages'[i] = none[j]
             \/ /\ pages'[i].from - pages'[i].start = resp.from - 0
                /\ pages'[i].start + pages'[i].size <= 0 + resp.size
        /\ \E b \in Nat :
             /\ PAGE_SIZE * b < resp.size + PAGE_SIZE
             /\ \A k \in 0..(0 + resp.size - 1) :
                  \E i \in 1..Len(pages') : Http!Holds(pages'[i], k) /\ Len(pages') - i < b
    BY <2>0, <2>1, <2>2, Fetched
  <2>4. \A i \in 1..Len(pages') : Right(pages'[i])
    <3> SUFFICES ASSUME NEW i \in 1..Len(pages') PROVE Right(pages'[i])
      OBVIOUS
    <3>1. ~\E j \in 1..Len(none) : TRUE
      BY <2>2
    <3>2. /\ pages'[i].from - pages'[i].start = resp.from - 0
          /\ pages'[i].start + pages'[i].size <= 0 + resp.size
      BY <2>3, <3>1
    <3>3. pages'[i] \in Pages
      BY <2>3
    <3>4. pages'[i].from \in Nat /\ pages'[i].start \in Nat /\ pages'[i].size \in Nat
      BY <3>3 DEF Pages
    <3>5. resp.from = 0 /\ resp.size \in Nat /\ resp.size <= server.size /\ server.size \in Nat
      BY <1>1, <2>1
    <3>6. /\ pages'[i].from = pages'[i].start
          /\ pages'[i].start + pages'[i].size <= server.size
      <4>1. ASSUME NEW f \in Nat, NEW a \in Nat, NEW z \in Nat, NEW b \in Nat, NEW all \in Nat,
                   f - a = 0 - 0, a + z <= 0 + b, b <= all
            PROVE  f = a /\ a + z <= all
        BY <4>1
      <4>2. PICK page : page = pages'[i]
        OBVIOUS
      <4>3. page.from \in Nat /\ page.start \in Nat /\ page.size \in Nat
        BY <3>4, <4>2
      <4>4. page.from - page.start = 0 - 0 /\ page.start + page.size <= 0 + resp.size
        BY <3>2, <3>5, <4>2
      <4>5. page.from = page.start /\ page.start + page.size <= server.size
        BY <3>5, <4>1, <4>3, <4>4
      <4> QED
        BY <4>2, <4>5
    <3> QED
      BY <3>6 DEF Right
  <2>5. ~server.ranges =>
          \A k \in 0..(server.size - 1) : \E i \in 1..Len(pages') : Http!Holds(pages'[i], k)
    <3> SUFFICES ASSUME ~server.ranges, NEW k \in 0..(server.size - 1)
                 PROVE  \E i \in 1..Len(pages') : Http!Holds(pages'[i], k)
      OBVIOUS
    <3>1. k \in 0..(0 + resp.size - 1)
      BY <1>1, <2>1
    <3> QED
      BY <2>3, <3>1
  <2>6. total_len' \in {None, server.size} /\ (server.length => total_len' = server.size)
    BY <1>4 DEF Http!parse_total_length
  <2>7. ReadsLikeAFile'
    BY <1>4 DEF Http!Idle, Http!Failed, ReadsLikeAFile, Http!ReadsAreTheTrack,
                Http!EndsOnlyAtTheEnd
  <2>8. HttpTypes'
    BY <1>1, <2>3, <2>6 DEF HttpTypes
  <2>9. (\A i \in 1..Len(pages) : Right(pages[i]))'
    BY <1>1, <2>4 DEF Right
  <2> QED
    BY <1>1, <2>5, <2>6, <2>7, <2>8, <2>9 DEF HttpInv
<1> QED
  BY <1>3, <1>4 DEF Http!Open, F

LEMMA HttpEof ==
  ASSUME HttpInv, NEW n \in Reads, Http!ReadEof(n)
  PROVE  HttpInv'
<1>1. /\ HttpTypes /\ UNCHANGED <<server, source, pos, total_len, pages>>
      /\ last_read' = [call |-> "read", at |-> pos, from |-> pos, len |-> 0]
      /\ total_len # None /\ pos >= total_len
  BY DEF HttpInv, Http!ReadEof, Http!AtEnd
<1>2. pos >= server.size
  BY <1>1 DEF HttpTypes
<1>3. /\ last_read'.call = "read" /\ last_read'.at = pos /\ last_read'.len = 0
      /\ last_read' # Http!Failed
  BY <1>1 DEF Http!Failed
<1>4. ReadsLikeAFile'
  BY <1>1, <1>2, <1>3 DEF ReadsLikeAFile, Http!ReadsAreTheTrack, Http!EndsOnlyAtTheEnd
<1> QED
  BY <1>1, <1>4 DEF HttpInv, HttpTypes, Honest, Right

LEMMA HttpHit ==
  ASSUME HttpInv, NEW n \in Reads, source = "open", Http!ReadHit(n)
  PROVE  HttpInv'
<1> DEFINE hit == Http!HitIndex(pages, pos)
<1>1. /\ HttpTypes /\ UNCHANGED <<server, source, total_len>>
      /\ pages' = Append(Http!RemoveAt(pages, hit), pages[hit])
      /\ Http!Copied(pages[hit], n) /\ hit # 0
  BY DEF HttpInv, Http!ReadHit
<1>2. pages \in Seq(Pages) /\ pos \in Nat
  BY <1>1 DEF HttpTypes
<1>3. hit \in 1..Len(pages) /\ Http!Holds(pages[hit], pos)
  <2>1. hit \in 0..Len(pages) /\ Len(pages) \in Nat
    BY <1>2, HitFound
  <2> QED
    BY <1>1, <1>2, <2>1, HitFound
<1> HIDE DEF hit
<1>4. /\ pages' \in Seq(Pages)
      /\ \A i \in 1..Len(pages') : \E j \in 1..Len(pages) : pages'[i] = pages[j]
      /\ \A j \in 1..Len(pages) : \E i \in 1..Len(pages') : pages'[i] = pages[j]
  BY <1>1, <1>2, <1>3, Touched
<1>5. pos' \in Nat /\ ReadsLikeAFile'
  <2>1. pages[hit] \in Pages /\ (Honest => Right(pages[hit]))
    BY <1>2, <1>3 DEF HttpInv
  <2> QED
    BY <1>1, <1>3, <2>1, CopiedRight
<1>6. HttpTypes'
  BY <1>1, <1>4, <1>5 DEF HttpTypes
<1>7. (Honest => \A i \in 1..Len(pages) : Right(pages[i]))'
  <2> SUFFICES ASSUME Honest, NEW i \in 1..Len(pages') PROVE Right(pages'[i])
    BY <1>1 DEF Honest, Right
  <2> QED
    BY <1>4 DEF HttpInv
<1>8. source = "open" /\ ~server.ranges /\ server.length =>
        \A k \in 0..(server.size - 1) : \E i \in 1..Len(pages') : Http!Holds(pages'[i], k)
  <2> SUFFICES ASSUME ~server.ranges, server.length, NEW k \in 0..(server.size - 1)
               PROVE  \E i \in 1..Len(pages') : Http!Holds(pages'[i], k)
    OBVIOUS
  <2>1. PICK j \in 1..Len(pages) : Http!Holds(pages[j], k)
    BY DEF HttpInv
  <2> QED
    BY <1>4, <2>1
<1> QED
  BY <1>1, <1>5, <1>6, <1>7, <1>8 DEF HttpInv

(* The chunk fetched around the cursor: it starts at or before the cursor, *)
(* is no longer than the prefetch, and reaches past the cursor when the    *)
(* length is known.                                                        *)
LEMMA ChunkAround ==
  ASSUME HttpTypes
  PROVE  /\ Http!PageStart \in Nat /\ Http!PageStart <= pos
         /\ Http!ChunkEnd \in Int
         /\ Http!ChunkEnd < Http!PageStart + FetchPages * PAGE_SIZE
         /\ total_len # None /\ pos < server.size =>
              Http!ChunkEnd >= pos /\ Http!ChunkEnd < server.size
<1> DEFINE q == pos \div PAGE_SIZE
           F == FetchPages * PAGE_SIZE
<1>1. PAGE_SIZE \in Nat \ {0} /\ FetchPages \in Nat \ {0} /\ pos \in Nat /\ server.size \in Nat
      /\ total_len \in {None, server.size}
  BY HttpFacts, ServerFacts DEF HttpTypes
<1>2. q \in Nat /\ PAGE_SIZE * q <= pos /\ pos < PAGE_SIZE * q + PAGE_SIZE
  BY <1>1, DivBounds
<1>3. F \in Nat /\ F >= PAGE_SIZE
  <2>1. PICK d \in Nat : FetchPages = d + 1
    <3>1. FetchPages - 1 \in Nat /\ FetchPages = (FetchPages - 1) + 1
      BY <1>1
    <3> QED
      BY <3>1
  <2>2. (d + 1) * PAGE_SIZE = d * PAGE_SIZE + PAGE_SIZE /\ d * PAGE_SIZE \in Nat
    BY <1>1
  <2> QED
    BY <1>1, <2>1, <2>2
<1>4. Http!PageStart = PAGE_SIZE * q /\ PAGE_SIZE * q \in Nat
  BY <1>1, <1>2 DEF Http!PageStart
<1> HIDE DEF q, F
<1>5. Http!ChunkEnd = LET end == Http!PageStart + F - 1
                      IN IF total_len # None /\ total_len > 0
                         THEN Http!Min2(end, total_len - 1) ELSE end
  BY DEF Http!ChunkEnd, F
<1> DEFINE c == Http!ChunkEnd
           a == Http!PageStart
<1>6. a \in Nat /\ a <= pos /\ pos < a + PAGE_SIZE
  BY <1>1, <1>2, <1>4
<1> HIDE DEF c, a
<1>7. c \in Int /\ c < a + F
  <2>1. CASE total_len # None /\ total_len > 0
    BY <1>1, <1>3, <1>5, <1>6, <2>1 DEF Http!Min2, c, a
  <2>2. CASE ~(total_len # None /\ total_len > 0)
    BY <1>1, <1>3, <1>5, <1>6, <2>2 DEF c, a
  <2> QED
    BY <2>1, <2>2
<1>8. ASSUME total_len # None, pos < server.size PROVE c >= pos /\ c < server.size
  BY <1>1, <1>3, <1>5, <1>6, <1>8 DEF Http!Min2, c, a
<1> QED
  BY <1>6, <1>7, <1>8 DEF a, c, F

LEMMA HttpFetch ==
  ASSUME HttpInv, NEW n \in Reads, source = "open", Http!ReadFetch(n)
  PROVE  HttpInv'
<1> DEFINE lo == Http!PageStart
           hi == Http!ChunkEnd
           resp == Http!ranged_get(lo, hi)
           sliced == Http!slice_into_pages(lo, resp, pages)
           fetched == Http!Trim(sliced)
           found == Http!HitIndex(fetched, pos)
<1>1. /\ HttpTypes /\ UNCHANGED <<server, source>>
      /\ server.ranges \in BOOLEAN /\ server.length \in BOOLEAN /\ server.size \in Nat
      /\ server.size # None /\ pos \in Nat /\ pages \in Seq(Pages)
      /\ total_len \in {None, server.size}
  BY ServerFacts DEF HttpInv, HttpTypes, Http!ReadFetch
<1>2. server.length => total_len = server.size /\ total_len # None /\ pos < server.size
  BY <1>1 DEF HttpInv, Http!ReadFetch, Http!AtEnd
<1>3. Honest => server.ranges
  <2> SUFFICES ASSUME ~server.ranges, server.length PROVE FALSE
    BY DEF Honest
  <2>1. pos \in 0..(server.size - 1)
    BY <1>1, <1>2
  <2>2. \E i \in 1..Len(pages) : Http!Holds(pages[i], pos)
    BY <2>1 DEF HttpInv
  <2>3. Http!HitIndex(pages, pos) = 0
    BY DEF Http!ReadFetch
  <2> QED
    BY <1>1, <2>2, <2>3, HitFound
<1>4. /\ lo \in Nat /\ lo <= pos /\ hi \in Int /\ hi < lo + FetchPages * PAGE_SIZE
      /\ total_len # None /\ pos < server.size => hi >= pos /\ hi < server.size
  BY <1>1, ChunkAround
<1> HIDE DEF lo, hi
<1>5. server.length => server.ranges /\ hi >= lo /\ resp.status = 206 /\ hi >= pos
  <2> SUFFICES ASSUME server.length
               PROVE  server.ranges /\ hi >= lo /\ resp.status = 206 /\ hi >= pos
    OBVIOUS
  <2>1. server.ranges /\ hi >= pos /\ hi >= lo /\ ~(lo >= server.size)
    BY <1>1, <1>2, <1>3, <1>4 DEF Honest
  <2>2. resp = [status |-> 206, from |-> lo, size |-> Http!Min2(hi + 1, server.size) - lo]
    BY <2>1 DEF Http!ranged_get
  <2> QED
    BY <2>1, <2>2
<1> HIDE DEF resp
<1>6. CASE /\ last_read' = Http!Failed /\ UNCHANGED <<pos, total_len, pages>>
           /\ broken' \/ hi < lo \/ resp.status = 416
  <2>1. source' = "open" /\ server'.length => broken'
    <3> SUFFICES ASSUME server.length PROVE broken'
      BY <1>1
    <3>1. ~(hi < lo) /\ resp.status # 416
      BY <1>4, <1>5
    <3> QED
      BY <1>6, <3>1
  <2>2. ReadsLikeAFile'
    BY <1>6, <2>1, FailedRight
  <2> QED
    BY <1>1, <1>6, <2>2 DEF HttpInv, HttpTypes, Honest, Right
<1>7. CASE /\ hi >= lo /\ resp.status # 416
           /\ total_len' = IF total_len = None THEN Http!parse_total_length(resp) ELSE total_len
           /\ pages' = fetched
           /\ IF found = 0 THEN last_read' = Http!Failed /\ UNCHANGED pos
              ELSE Http!Copied(fetched[found], n)
  <2>1. /\ resp \in Responses
        /\ server.ranges => /\ resp.from = lo /\ lo + resp.size <= server.size
                            /\ lo + resp.size <= hi + 1
                            /\ hi < server.size => lo + resp.size = hi + 1
    <3>1. CASE ~server.ranges
      <4>1. resp = [status |-> 200, from |-> 0, size |-> server.size]
        BY <3>1 DEF Http!ranged_get, resp
      <4> QED
        BY <1>1, <3>1, <4>1 DEF Responses
    <3>2. CASE server.ranges
      <4>1. ~(lo >= server.size)
        <5> SUFFICES ASSUME lo >= server.size PROVE FALSE
          OBVIOUS
        <5>1. resp = [status |-> 416, from |-> lo, size |-> 0]
          BY <3>2 DEF Http!ranged_get, resp
        <5> QED
          BY <1>7, <5>1
      <4>2. resp = [status |-> 206, from |-> lo, size |-> Http!Min2(hi + 1, server.size) - lo]
        BY <3>2, <4>1 DEF Http!ranged_get, resp
      <4> DEFINE size == Http!Min2(hi + 1, server.size) - lo
      <4>3. /\ size \in Nat /\ lo + size <= server.size /\ lo + size <= hi + 1
            /\ hi < server.size => lo + size = hi + 1
        BY <1>1, <1>4, <1>7, <4>1 DEF Http!Min2
      <4>4. resp.from = lo /\ resp.size = size /\ resp \in Responses
        BY <1>4, <4>2, <4>3 DEF Responses
      <4> HIDE DEF size
      <4> QED
        BY <4>3, <4>4
    <3> QED
      BY <1>1, <3>1, <3>2
  <2>2. resp.size \in Nat /\ resp.from \in Nat
    BY <2>1 DEF Responses
  <2>3. /\ sliced \in Seq(Pages)
        /\ \A i \in 1..Len(sliced) :
             \/ \E j \in 1..Len(pages) : sliced[i] = pages[j]
             \/ /\ sliced[i].from - sliced[i].start = resp.from - lo
                /\ sliced[i].start + sliced[i].size <= lo + resp.size
        /\ \E b \in Nat :
             /\ PAGE_SIZE * b < resp.size + PAGE_SIZE
             /\ \A k \in lo..(lo + resp.size - 1) :
                  \E i \in 1..Len(sliced) : Http!Holds(sliced[i], k) /\ Len(sliced) - i < b
    BY <1>1, <1>4, <2>1, Fetched
  <2> HIDE DEF sliced
  <2>4. /\ fetched \in Seq(Pages)
        /\ \A i \in 1..Len(fetched) : \E j \in 1..Len(sliced) : fetched[i] = sliced[j]
        /\ \A j \in 1..Len(sliced) : Len(sliced) - j < MAX_CACHED_PAGES =>
             \E i \in 1..Len(fetched) : fetched[i] = sliced[j]
    BY <2>3, TrimKeeps
  <2> HIDE DEF fetched
  <2>5. Honest => \A i \in 1..Len(fetched) : Right(fetched[i])
    <3> SUFFICES ASSUME Honest, NEW i \in 1..Len(fetched) PROVE Right(fetched[i])
      OBVIOUS
    <3>1. PICK j \in 1..Len(sliced) : fetched[i] = sliced[j]
      BY <2>4
    <3>2. CASE \E l \in 1..Len(pages) : sliced[j] = pages[l]
      BY <3>1, <3>2 DEF HttpInv
    <3>3. CASE /\ sliced[j].from - sliced[j].start = resp.from - lo
               /\ sliced[j].start + sliced[j].size <= lo + resp.size
      <4>1. sliced[j] \in Pages
        BY <2>3
      <4>2. sliced[j].from \in Nat /\ sliced[j].start \in Nat /\ sliced[j].size \in Nat
        BY <4>1 DEF Pages
      <4>3. resp.from = lo /\ lo + resp.size <= server.size
        BY <1>3, <2>1
      <4>4. lo \in Nat /\ resp.size \in Nat /\ server.size \in Nat
        BY <1>1, <1>4, <2>2
      <4>5. /\ sliced[j].from = sliced[j].start
            /\ sliced[j].start + sliced[j].size <= server.size
        BY <3>3, <4>2, <4>3, <4>4
      <4>6. Right(sliced[j])
        BY <4>5 DEF Right
      <4> QED
        BY <3>1, <4>6
    <3> QED
      BY <2>3, <3>2, <3>3
  <2>6. server.length => found # 0
    <3> SUFFICES ASSUME server.length PROVE found # 0
      OBVIOUS
    <3>1. server.ranges /\ hi >= pos /\ hi < server.size
      BY <1>2, <1>4, <1>5
    <3>2. lo + resp.size = hi + 1 /\ resp.size <= FetchPages * PAGE_SIZE
      <4>1. FetchPages * PAGE_SIZE \in Nat
        BY HttpFacts
      <4> QED
        BY <1>4, <2>1, <2>2, <3>1, <4>1
    <3>3. PICK b \in Nat :
             /\ PAGE_SIZE * b < resp.size + PAGE_SIZE
             /\ \A k \in lo..(lo + resp.size - 1) :
                  \E i \in 1..Len(sliced) : Http!Holds(sliced[i], k) /\ Len(sliced) - i < b
      BY <2>3
    <3>4. b <= MAX_CACHED_PAGES
      <4>1. PAGE_SIZE \in Nat \ {0} /\ FetchPages \in Nat /\ FetchPages + 1 \in Nat
        BY HttpFacts
      <4>2. PAGE_SIZE * (FetchPages + 1) = FetchPages * PAGE_SIZE + PAGE_SIZE
            /\ FetchPages * PAGE_SIZE \in Nat /\ PAGE_SIZE * b \in Nat
        BY <4>1
      <4>3. PAGE_SIZE * b < PAGE_SIZE * (FetchPages + 1)
        <5>1. PICK x \in Nat : x = PAGE_SIZE * b
          BY <4>2
        <5>2. PICK y \in Nat : y = FetchPages * PAGE_SIZE
          BY <4>2
        <5>3. PICK u : u = PAGE_SIZE * (FetchPages + 1)
          OBVIOUS
        <5>4. x < resp.size + PAGE_SIZE /\ resp.size <= y /\ u = y + PAGE_SIZE
          BY <3>2, <3>3, <4>2, <5>1, <5>2, <5>3, Zenon
        <5>5. x < u
          BY <2>2, <4>1, <5>4
        <5> QED
          BY <5>1, <5>3, <5>5, Zenon
      <4>4. b < FetchPages + 1
        BY <4>1, <4>3, LessByFactor
      <4> QED
        BY <4>1, <4>4, HttpFacts
    <3>5. pos \in lo..(lo + resp.size - 1)
      BY <1>1, <1>4, <2>2, <3>1, <3>2
    <3>6. PICK j \in 1..Len(sliced) : Http!Holds(sliced[j], pos) /\ Len(sliced) - j < b
      BY <3>3, <3>5
    <3>7. Len(sliced) - j < MAX_CACHED_PAGES
      <4>1. Len(sliced) \in Nat /\ MAX_CACHED_PAGES \in Nat
        BY <2>3, HttpFacts
      <4> QED
        BY <3>4, <3>6, <4>1
    <3>8. PICK i \in 1..Len(fetched) : fetched[i] = sliced[j]
      BY <2>4, <3>7
    <3>9. Http!Holds(fetched[i], pos)
      BY <3>6, <3>8
    <3> QED
      BY <1>1, <2>4, <3>9, HitFound
  <2>7. pos' \in Nat /\ ReadsLikeAFile'
    <3>1. CASE found = 0
      <4>1. last_read' = Http!Failed /\ UNCHANGED pos
        BY <1>7, <3>1
      <4>2. source' = "open" /\ server'.length => broken'
        BY <1>1, <2>6, <3>1
      <4> QED
        BY <1>1, <4>1, <4>2, FailedRight
    <3>2. CASE found # 0
      <4>1. found \in 1..Len(fetched) /\ Http!Holds(fetched[found], pos)
        <5>1. found \in 0..Len(fetched) /\ Len(fetched) \in Nat
          BY <1>1, <2>4, HitFound
        <5> QED
          BY <1>1, <2>4, <3>2, <5>1, HitFound
      <4> HIDE DEF found
      <4>2. fetched[found] \in Pages /\ (Honest => Right(fetched[found]))
        BY <2>4, <2>5, <4>1
      <4>3. Http!Copied(fetched[found], n) /\ server' = server
        BY <1>1, <1>7, <3>2
      <4> QED
        BY <1>1, <4>1, <4>2, <4>3, CopiedRight
    <3> QED
      BY <3>1, <3>2
  <2>8. total_len' \in {None, server.size} /\ (server.length => total_len' = server.size)
    BY <1>1, <1>2, <1>7 DEF Http!parse_total_length
  <2>9. HttpTypes'
    BY <1>1, <1>7, <2>4, <2>7, <2>8 DEF HttpTypes
  <2>10. (Honest => \A i \in 1..Len(pages) : Right(pages[i]))'
    <3> SUFFICES ASSUME Honest, NEW i \in 1..Len(fetched) PROVE Right(fetched[i])
      BY <1>1, <1>7 DEF Honest, Right
    <3> QED
      BY <2>5
  <2>11. ~(~server.ranges /\ server.length)
    BY <1>5
  <2> QED
    BY <1>1, <2>7, <2>8, <2>9, <2>10, <2>11 DEF HttpInv
<1> QED
  BY <1>6, <1>7 DEF Http!ReadFetch, lo, hi, resp

LEMMA HttpSeek ==
  ASSUME HttpInv, NEW to \in Int, Http!Seek(to)
  PROVE  HttpInv'
<1>1. /\ HttpTypes /\ UNCHANGED <<server, source, total_len, pages>>
      /\ last_read' = [call |-> "seek"] /\ pos' = Http!NonNegative(to)
  BY DEF HttpInv, Http!Seek
<1>2. pos' \in Nat
  BY <1>1 DEF Http!NonNegative
<1>3. last_read'.call = "seek" /\ last_read' # Http!Failed
  BY <1>1 DEF Http!Failed
<1>4. ReadsLikeAFile'
  BY <1>3 DEF ReadsLikeAFile, Http!ReadsAreTheTrack, Http!EndsOnlyAtTheEnd
<1> QED
  BY <1>1, <1>2, <1>4 DEF HttpInv, HttpTypes, Honest, Right

LEMMA HttpStep ==
  HttpInv /\ [Http!Next]_(Http!vars) => HttpInv'
<1> SUFFICES ASSUME HttpInv, [Http!Next]_(Http!vars) PROVE HttpInv'
  OBVIOUS
<1>1. CASE Http!Open
  BY <1>1, HttpOpen
<1>2. ASSUME NEW n \in Reads, Http!Read(n) PROVE HttpInv'
  BY <1>2, HttpEof, HttpHit, HttpFetch DEF Http!Read
<1>3. ASSUME NEW d \in Seeks,
             \/ d >= 0 /\ Http!Seek(d)
             \/ pos <= MaxPos /\ Http!Seek(pos + d)
             \/ total_len # None /\ Http!Seek(total_len + d)
      PROVE  HttpInv'
  <2>1. d \in Int /\ pos \in Nat /\ (total_len # None => total_len \in Nat)
    BY HttpFacts, ServerFacts DEF HttpInv, HttpTypes
  <2>2. CASE Http!Seek(d)
    BY <2>1, <2>2, HttpSeek
  <2>3. CASE Http!Seek(pos + d)
    <3>1. pos + d \in Int
      BY <2>1
    <3> QED
      BY <2>3, <3>1, HttpSeek
  <2>4. CASE total_len # None /\ Http!Seek(total_len + d)
    <3>1. total_len + d \in Int
      BY <2>1, <2>4
    <3> QED
      BY <2>4, <3>1, HttpSeek
  <2> QED
    BY <1>3, <2>2, <2>3, <2>4
<1>4. CASE UNCHANGED Http!vars
  <2>1. UNCHANGED <<server, source, pos, total_len, pages, last_read, broken>>
    BY <1>4 DEF Http!vars
  <2> QED
    BY <2>1 DEF HttpInv, HttpTypes, Honest, Right, ReadsLikeAFile, Http!ReadsAreTheTrack,
                Http!EndsOnlyAtTheEnd
<1> QED
  BY <1>1, <1>2, <1>3, <1>4 DEF Http!Next

(* Whatever the pages, the cache, the buffers and the seeks: what a read   *)
(* over HTTP returns is the track at the cursor, the end is reported only  *)
(* at the end, and from a server that gives a length a read fails only     *)
(* with the network (http_source.rs, read and fetch_around).               *)
THEOREM ReadsCorrect == Http!Spec => []ReadsLikeAFile
<1>1. HttpInv => ReadsLikeAFile
  BY DEF HttpInv
<1> QED
  BY HttpInit, HttpStep, <1>1, PTL DEF Http!Spec

-----------------------------------------------------------------------------
(* The MIDI clock. *)

LEMMA MidiFacts ==
  /\ Minute \in Nat \ {0} /\ TICKS_PER_BEAT \in Nat \ {0} /\ SMOOTHING_WINDOW \in Nat \ {0}
  /\ BPM_DEADBAND \in Nat \ {0} /\ MIN_PLAUSIBLE_BPM \in Nat \ {0} /\ MIN_TICK_PERIOD \in Nat \ {0}
  /\ MAX_PLAUSIBLE_BPM \in Nat /\ MAX_TICK_PERIOD \in Nat /\ SPIN_FLOOR \in Nat
  /\ MIN_TICK_PERIOD <= MAX_TICK_PERIOD
  /\ MasterTempos \subseteq Int \cup {NonFinite} /\ NonFinite \notin Int /\ None \notin Int
BY PartsAssumption DEF Midi!MidiClockConstants

Bpms == MIN_PLAUSIBLE_BPM..MAX_PLAUSIBLE_BPM

LEMMA TempoType ==
  \A d : Midi!bpm_from_beat_duration(d) \in Bpms \cup {None}
BY DEF Midi!bpm_from_beat_duration, Bpms

(* A window that shows the last of n tempi shows, slid by the next one if  *)
(* that is plausible, the last of n + 1.                                   *)
LEMMA WindowSlides ==
  ASSUME NEW n \in Nat, NEW old, NEW new, \A i \in 1..n : new[i] = old[i],
         NEW w \in Seq(Bpms), Midi!Shows(w, old, n),
         new[n + 1] \in Bpms \cup {None}
  PROVE  LET u == IF new[n + 1] = None THEN w ELSE Midi!Slide(w, new[n + 1])
         IN /\ u \in Seq(Bpms) /\ Midi!Shows(u, new, n + 1) /\ Len(u) <= SMOOTHING_WINDOW
            /\ new[n + 1] # None => u # << >>
<1> DEFINE P == {i \in 1..n : old[i] # None}
           Q == {i \in 1..(n + 1) : new[i] # None}
           p(i) == {j \in P : j >= i}
           q(i) == {j \in Q : j >= i}
           c == Cardinality(P)
           W == SMOOTHING_WINDOW
           b == new[n + 1]
           u == IF b = None THEN w ELSE Midi!Slide(w, b)
<1>1. /\ Len(w) = IF c < W THEN c ELSE W
      /\ \A i \in P : Cardinality(p(i)) <= Len(w) =>
           w[Len(w) + 1 - Cardinality(p(i))] = old[i]
  BY DEF Midi!Shows, Midi!Cardinality, Cardinality
<1>2. ASSUME Len(u) = IF Cardinality(Q) < W THEN Cardinality(Q) ELSE W,
             \A i \in Q : Cardinality(q(i)) <= Len(u) =>
               u[Len(u) + 1 - Cardinality(q(i))] = new[i]
      PROVE  Midi!Shows(u, new, n + 1)
  BY <1>2 DEF Midi!Shows, Midi!Cardinality, Cardinality
<1>3. W \in Nat \ {0}
  BY MidiFacts
<1>4. IsFiniteSet(P) /\ c \in Nat
  <2>0. n \in Int /\ 1 \in Int
    OBVIOUS
  <2>1. P \subseteq 1..n /\ IsFiniteSet(1..n)
    <3>1. IsFiniteSet(1..n)
      BY <2>0, FS_Interval, Zenon
    <3> QED
      BY <3>1
  <2>2. IsFiniteSet(P)
    BY <2>1, FS_Subset
  <2> HIDE DEF P
  <2> QED
    BY <2>2, FS_CardinalityType
<1>5. PICK L \in Nat : L = Len(w)
  OBVIOUS
<1>6. CASE b = None
  <2>1. Q = P
    BY <1>6
  <2>2. u = w /\ \A i \in P : new[i] = old[i]
    BY <1>6
  <2>3. \A i \in P : q(i) = p(i)
    BY <2>1
  <2>4. Len(w) <= W
    <3> HIDE DEF c
    <3> QED
      BY <1>1, <1>3, <1>4
  <2> HIDE DEF P, Q, p, q, u, b
  <2>5. Midi!Shows(u, new, n + 1)
    <3> USE DEF c
    <3>1. Len(u) = IF Cardinality(Q) < W THEN Cardinality(Q) ELSE W
      BY <1>1, <2>1, <2>2
    <3>2. \A i \in Q : Cardinality(q(i)) <= Len(u) =>
               u[Len(u) + 1 - Cardinality(q(i))] = new[i]
      BY <1>1, <2>1, <2>2, <2>3
    <3> QED
      BY <1>2, <3>1, <3>2
  <2>6. u \in Seq(Bpms) /\ Len(u) <= W
    BY <2>2, <2>4
  <2> QED
    BY <1>6, <2>5, <2>6 DEF u, b
<1>7. CASE b # None
  <2>1. Q = P \cup {n + 1} /\ n + 1 \notin P /\ b \in Bpms
    BY <1>7
  <2>2. Cardinality(Q) = c + 1
    <3> HIDE DEF P, Q
    <3> QED
      BY <1>4, <2>1, FS_AddElement
  <2>3. ASSUME NEW i \in P
        PROVE  /\ i \in 1..n /\ new[i] = old[i]
               /\ Cardinality(p(i)) \in Nat \ {0}
               /\ Cardinality(q(i)) = Cardinality(p(i)) + 1
    <3>1. q(i) = p(i) \cup {n + 1} /\ n + 1 \notin p(i) /\ p(i) \subseteq P /\ i \in p(i)
      BY <2>1
    <3>2. i \in 1..n /\ new[i] = old[i]
      OBVIOUS
    <3> HIDE DEF p, q, P
    <3>3. IsFiniteSet(p(i))
      BY <1>4, <3>1, FS_Subset
    <3>4. Cardinality(p(i)) \in Nat /\ Cardinality(p(i)) # 0
      BY <3>1, <3>3, FS_CardinalityType, FS_EmptySet
    <3>5. Cardinality(q(i)) = Cardinality(p(i)) + 1
      <4>1. Cardinality(p(i) \cup {n + 1}) = Cardinality(p(i)) + 1
        BY <3>1, <3>3, FS_AddElement, Zenon
      <4> QED
        BY <3>1, <4>1, Zenon
    <3> QED
      BY <3>2, <3>4, <3>5
  <2>4. Cardinality(q(n + 1)) = 1
    <3>1. q(n + 1) = {n + 1}
      BY <2>1
    <3> HIDE DEF q
    <3> QED
      BY <3>1, FS_Singleton
  <2>5. \A i \in Q : i \in P \/ i = n + 1
    BY <2>1
  <2>6. u = Midi!Slide(w, b)
    BY <1>7
  <2> HIDE DEF P, Q, p, q, b, u
  <2>7. CASE L = W
    <3>1. u = Append(Tail(w), b)
      BY <1>5, <2>6, <2>7 DEF Midi!Slide
    <3>2. /\ u \in Seq(Bpms) /\ Len(u) = L /\ u[L] = b
          /\ \A k \in 1..(L - 1) : u[k] = w[k + 1]
      <4>1. /\ Tail(w) \in Seq(Bpms) /\ Len(Tail(w)) = L - 1
            /\ \A k \in 1..(L - 1) : Tail(w)[k] = w[k + 1]
        <5>1. w # << >> /\ L \in Nat \ {0}
          BY <1>3, <1>5, <2>7
        <5>2. Tail(w) \in Seq(Bpms) /\ Len(Tail(w)) = L - 1
          BY <1>5, <5>1
        <5>3. \A k \in 1..(L - 1) : Tail(w)[k] = w[k + 1]
          BY <1>5, <5>1
        <5> QED
          BY <5>2, <5>3
      <4> DEFINE s == Tail(w)
      <4> HIDE DEF s
      <4>2. /\ Append(s, b) \in Seq(Bpms) /\ Len(Append(s, b)) = L /\ Append(s, b)[L] = b
            /\ \A k \in 1..(L - 1) : Append(s, b)[k] = s[k]
        BY <1>5, <2>1, <4>1 DEF s
      <4> QED
        BY <3>1, <4>1, <4>2 DEF s
    <3>3. L = IF c + 1 < W THEN c + 1 ELSE W
      BY <1>1, <1>3, <1>4, <1>5, <2>7
    <3>4. ASSUME NEW i \in P, Cardinality(q(i)) <= L
          PROVE  u[L + 1 - Cardinality(q(i))] = new[i]
      <4>1. PICK k \in Nat \ {0} : k = Cardinality(p(i))
        BY <2>3
      <4>2. Cardinality(q(i)) = k + 1 /\ k + 1 <= L
        BY <2>3, <3>4, <4>1
      <4>3. w[L + 1 - k] = old[i]
        <5>1. k <= L
          BY <4>2
        <5> QED
          BY <1>1, <1>5, <4>1, <5>1
      <4>4. L + 1 - (k + 1) \in 1..(L - 1) /\ (L + 1 - (k + 1)) + 1 = L + 1 - k
        BY <4>2
      <4>5. u[L + 1 - (k + 1)] = w[L + 1 - k]
        BY <3>2, <4>4
      <4> QED
        BY <2>3, <4>2, <4>3, <4>5
    <3>5. u[L + 1 - Cardinality(q(n + 1))] = new[n + 1]
      <4>1. L + 1 - 1 = L
        OBVIOUS
      <4> QED
        BY <2>4, <3>2, <4>1 DEF b
    <3>6. \A i \in Q : Cardinality(q(i)) <= Len(u) =>
               u[Len(u) + 1 - Cardinality(q(i))] = new[i]
      BY <2>5, <3>2, <3>4, <3>5
    <3>7. Midi!Shows(u, new, n + 1)
      BY <1>2, <2>2, <3>2, <3>3, <3>6
    <3>8. u # << >> /\ Len(u) <= W
      BY <1>3, <2>7, <3>2
    <3> QED
      BY <3>2, <3>7, <3>8 DEF u, b
  <2>8. CASE L # W
    <3>1. u = Append(w, b)
      BY <1>5, <2>6, <2>8 DEF Midi!Slide
    <3>2. /\ u \in Seq(Bpms) /\ Len(u) = L + 1 /\ u[L + 1] = b
          /\ \A k \in 1..L : u[k] = w[k]
      BY <1>5, <2>1, <3>1
    <3>3. L + 1 = (IF c + 1 < W THEN c + 1 ELSE W) /\ L + 1 <= W
      BY <1>1, <1>3, <1>4, <1>5, <2>8
    <3>4. ASSUME NEW i \in P, Cardinality(q(i)) <= L + 1
          PROVE  u[(L + 1) + 1 - Cardinality(q(i))] = new[i]
      <4>1. PICK k \in Nat \ {0} : k = Cardinality(p(i))
        BY <2>3
      <4>2. Cardinality(q(i)) = k + 1 /\ k <= L
        BY <2>3, <3>4, <4>1
      <4>3. w[L + 1 - k] = old[i]
        BY <1>1, <1>5, <4>1, <4>2
      <4>4. (L + 1) + 1 - (k + 1) = L + 1 - k /\ L + 1 - k \in 1..L
        BY <4>2
      <4>5. u[(L + 1) + 1 - (k + 1)] = w[L + 1 - k]
        BY <3>2, <4>4
      <4> QED
        BY <2>3, <4>2, <4>3, <4>5
    <3>5. u[(L + 1) + 1 - Cardinality(q(n + 1))] = new[n + 1]
      <4>1. (L + 1) + 1 - 1 = L + 1
        OBVIOUS
      <4> QED
        BY <2>4, <3>2, <4>1 DEF b
    <3>6. \A i \in Q : Cardinality(q(i)) <= Len(u) =>
               u[Len(u) + 1 - Cardinality(q(i))] = new[i]
      BY <2>5, <3>2, <3>4, <3>5
    <3>7. Midi!Shows(u, new, n + 1)
      BY <1>2, <2>2, <3>2, <3>3, <3>6
    <3>8. u # << >> /\ Len(u) <= W
      BY <3>2, <3>3
    <3> QED
      BY <3>2, <3>7, <3>8 DEF u, b
  <2> QED
    BY <2>7, <2>8
<1> QED
  BY <1>6, <1>7

-----------------------------------------------------------------------------
(* The sum of a window, by the equation of its fold.                       *)
IsSumming(f, w, n) ==
  f = [t \in SUBSET (1..n) |->
         IF t = {} THEN 0 ELSE f[t \ {Midi!Max(t)}] + w[Midi!Max(t)]]

LEMMA MaxOfInterval ==
  ASSUME NEW k \in Nat, NEW t, t \in SUBSET (1..(k + 1)), k + 1 \in t
  PROVE  Midi!Max(t) = k + 1
<1>1. k+1 \in Nat /\ \A y \in t : y \in Nat /\ k+1 >= y
  OBVIOUS
<1>2. \A x \in t : (\A y \in t : x >= y) => x = k+1
  BY <1>1
<1> QED
  BY <1>1, <1>2 DEF Midi!Max

LEMMA SummingExists ==
  ASSUME NEW w, NEW n \in Nat
  PROVE  \E f : IsSumming(f, w, n)
<1> DEFINE Has(k) == \E f : IsSumming(f, w, k)
           Bad == {k \in Nat : ~Has(k)}
           Step(f, t) == IF t = {} THEN 0 ELSE f[t \ {Midi!Max(t)}] + w[Midi!Max(t)]
<1>1. Has(0)
  <2> DEFINE g == [t \in SUBSET (1..0) |-> 0]
  <2>1. g = [t \in SUBSET (1..0) |-> Step(g, t)]
    OBVIOUS
  <2>2. IsSumming(g, w, 0)
    BY <2>1 DEF IsSumming
  <2> HIDE DEF g
  <2> QED BY <2>2
<1>2. ASSUME NEW k \in Nat, Has(k) PROVE Has(k+1)
  <2>1. PICK f : IsSumming(f, w, k)
    BY <1>2
  <2> DEFINE g == [t \in SUBSET (1..(k+1)) |->
                     IF t \in SUBSET (1..k) THEN f[t] ELSE f[t \ {k+1}] + w[k+1]]
  <2>2. ASSUME NEW t \in SUBSET (1..(k+1))
        PROVE  g[t] = Step(g, t)
    <3>1. CASE t \in SUBSET (1..k)
      <4>1. g[t] = f[t]
        BY <3>1
      <4>2. \A x : t \ {x} \in SUBSET (1..k) /\ t \ {x} \in SUBSET (1..(k+1))
        BY <3>1
      <4>3. \A x : g[t \ {x}] = f[t \ {x}]
        BY <4>2
      <4>4. f[t] = Step(f, t)
        BY <2>1, <3>1 DEF IsSumming
      <4> HIDE DEF g
      <4> QED
        BY <4>1, <4>3, <4>4
    <3>2. CASE t \notin SUBSET (1..k)
      <4>1. k+1 \in t
        BY <3>2
      <4>2. Midi!Max(t) = k+1
        BY <4>1, MaxOfInterval
      <4>3. t \ {k+1} \in SUBSET (1..k) /\ t \ {k+1} \in SUBSET (1..(k+1))
        OBVIOUS
      <4>4. g[t \ {k+1}] = f[t \ {k+1}]
        BY <4>3
      <4>5. g[t] = f[t \ {k+1}] + w[k+1]
        BY <3>2
      <4> HIDE DEF g
      <4> QED
        BY <4>1, <4>2, <4>4, <4>5
    <3> QED
      BY <3>1, <3>2
  <2>3. g = [t \in SUBSET (1..(k+1)) |-> g[t]]
    OBVIOUS
  <2> HIDE DEF g
  <2>4. g = [t \in SUBSET (1..(k+1)) |-> Step(g, t)]
    BY <2>2, <2>3
  <2>5. IsSumming(g, w, k+1)
    BY <2>4 DEF IsSumming
  <2> QED
    BY <2>5
<1> HIDE DEF Has
<1>3. Bad = {}
  <2> SUFFICES ASSUME Bad # {} PROVE FALSE
    OBVIOUS
  <2>1. PICK j \in Bad : \A i \in Bad : j <= i
    BY LeastNat
  <2>2. j # 0
    BY <1>1
  <2>3. j - 1 \in Nat /\ j - 1 \notin Bad
    BY <2>1, <2>2
  <2>4. Has((j - 1) + 1)
    BY <1>2, <2>3
  <2>5. (j - 1) + 1 = j
    OBVIOUS
  <2> QED
    BY <2>4, <2>5
<1> QED
  BY <1>3 DEF Has

(* A window of plausible tempi has a plausible mean, at least so large.    *)
LEMMA SmoothType ==
  ASSUME NEW w \in Seq(Bpms), w # << >>
  PROVE  Midi!smooth_bpm(w) \in Nat \ {0}
<1> DEFINE n == Len(w)
           f == CHOOSE g : IsSumming(g, w, n)
<1>1. n \in Nat \ {0} /\ DOMAIN w = 1..n /\ \A i \in 1..n : w[i] \in Nat /\ w[i] >= 1
  BY MidiFacts DEF Bpms
<1>2. IsSumming(f, w, n)
  BY <1>1, SummingExists
<1>3. Midi!FoldLeft(+, 0, w) = f[1..n]
  BY <1>1, <1>2 DEF Midi!FoldLeft, Midi!MapThenFoldSet, IsSumming
<1> HIDE DEF f, n
<1> DEFINE Large(k) == f[1..k] \in Nat /\ f[1..k] >= k
           Bad == {k \in 0..n : ~Large(k)}
<1>4. Large(0)
  <2>1. 1..0 = {} /\ 1..0 \in SUBSET (1..n)
    BY <1>1
  <2>2. f[1..0] = 0
    BY <1>2, <2>1 DEF IsSumming
  <2> QED
    BY <2>2
<1>5. ASSUME NEW k \in 0..(n - 1), Large(k) PROVE Large(k + 1)
  <2> DEFINE t == 1..(k + 1)
  <2>1. t \in SUBSET (1..n) /\ t # {} /\ t \ {k + 1} = 1..k
    <3>1. k \in Nat /\ k + 1 <= n
      BY <1>1
    <3>2. \A x \in t : x \in 1..n
      BY <1>1, <3>1
    <3>3. k + 1 \in t
      BY <3>1
    <3>4. \A x : x \in t \ {k + 1} <=> x \in 1..k
      BY <3>1
    <3> HIDE DEF t
    <3> QED
      BY <3>2, <3>3, <3>4
  <2>2. Midi!Max(t) = k + 1
    BY <1>1, MaxOfInterval
  <2> HIDE DEF t
  <2>3. f[t] = f[1..k] + w[k + 1]
    BY <1>2, <2>1, <2>2 DEF IsSumming
  <2>4. w[k + 1] \in Nat /\ w[k + 1] >= 1
    BY <1>1
  <2>5. f[t] \in Nat /\ f[t] >= k + 1
    BY <1>5, <2>3, <2>4
  <2> QED
    BY <2>5 DEF t
<1> HIDE DEF Large
<1>6. Bad = {}
  <2> SUFFICES ASSUME Bad # {} PROVE FALSE
    OBVIOUS
  <2>0. Bad \subseteq Nat
    BY <1>1
  <2>1. PICK j \in Bad : \A i \in Bad : j <= i
    <3> HIDE DEF Bad
    <3> QED
      BY <2>0, LeastNat
  <2>2. j # 0
    BY <1>4
  <2>3. j - 1 \in 0..(n - 1) /\ j - 1 \notin Bad /\ (j - 1) + 1 = j
    BY <1>1, <2>1, <2>2
  <2>4. Large(j - 1)
    BY <1>1, <2>3
  <2> QED
    BY <1>5, <2>3, <2>4
<1>7. Large(n)
  BY <1>1, <1>6
<1> DEFINE s == f[1..n]
<1>8. s \in Nat /\ s >= n
  BY <1>7 DEF Large
<1>9. Midi!smooth_bpm(w) = s \div n
  BY <1>3 DEF Midi!smooth_bpm, n
<1> HIDE DEF s
<1>10. s \div n \in Nat /\ s < n * (s \div n) + n
  BY <1>1, <1>8, DivBounds
<1>11. s \div n # 0
  <2> SUFFICES ASSUME s \div n = 0 PROVE FALSE
    OBVIOUS
  <2>1. s < n * 0 + n
    BY <1>10
  <2> QED
    BY <1>1, <1>8, <2>1
<1> QED
  BY <1>9, <1>10, <1>11


-----------------------------------------------------------------------------
LEMMA TimesKeepsOrder ==
  ASSUME NEW p \in Nat \ {0}, NEW a \in Nat, NEW b \in Nat, a <= b
  PROVE  a * p \in Nat /\ b * p \in Nat /\ a * p <= b * p
<1>1. PICK d \in Nat : b = a + d
  <2>1. b - a \in Nat /\ b = a + (b - a)
    OBVIOUS
  <2> QED BY <2>1
<1>2. (a + d) * p = a * p + d * p /\ d * p \in Nat /\ a * p \in Nat
  OBVIOUS
<1> QED
  BY <1>1, <1>2

LEMMA DivOf ==
  ASSUME NEW p \in Nat \ {0}, NEW q \in Nat, NEW r \in 0..(p - 1)
  PROVE  q * p + r \in Nat /\ (q * p + r) \div p = q
<1> DEFINE a == q * p + r
           z == a \div p
<1>1. q * p \in Nat /\ r \in Nat /\ r < p /\ p * q = q * p
  OBVIOUS
<1>2. a \in Nat
  BY <1>1
<1>3. a = q * p + r
  OBVIOUS
<1> HIDE DEF a
<1>4. z \in Nat /\ p * z <= a /\ a < p * z + p
  BY <1>2, DivBounds
<1> HIDE DEF z
<1>5. p * (z + 1) = p * z + p /\ p * (q + 1) = p * q + p /\ p * z \in Nat /\ p * q \in Nat
  BY <1>4
<1>6. p * q < p * (z + 1) /\ p * z < p * (q + 1)
  BY <1>1, <1>2, <1>3, <1>4, <1>5
<1>7. q < z + 1 /\ z < q + 1
  BY <1>4, <1>6, LessByFactor
<1>8. z = q
  BY <1>4, <1>7
<1> QED
  BY <1>2, <1>8 DEF a, z

(* The whole beats of so many ticks. *)
LEMMA BeatsOf ==
  ASSUME NEW at \in Seq(Nat), NEW q \in Nat, NEW r \in 0..(TICKS_PER_BEAT - 1),
         Len(at) = q * TICKS_PER_BEAT + r + 1
  PROVE  /\ Len(Midi!Tempi(at)) = q
         /\ \A i \in 1..q : Midi!Tempi(at)[i] =
              Midi!bpm_from_beat_duration(at[i * TICKS_PER_BEAT + 1] - at[(i - 1) * TICKS_PER_BEAT + 1])
<1> DEFINE T == TICKS_PER_BEAT
           m == (Len(at) - 1) \div T
           beats == Midi!Beats(at)
<1>1. T \in Nat \ {0}
  BY MidiFacts
<1>2. m = q
  <2>1. q * T + r \in Nat /\ (q * T + r) \div T = q
    BY <1>1, DivOf
  <2>2. Len(at) - 1 = q * T + r
    <3> DEFINE a == q * T + r
    <3>1. a \in Nat /\ Len(at) = a + 1
      BY <2>1
    <3> HIDE DEF a
    <3>2. Len(at) - 1 = a
      BY <3>1
    <3> QED
      BY <3>2 DEF a
  <2> QED
    BY <2>1, <2>2
<1>3. beats = [i \in 1..q |-> at[i * T + 1] - at[(i - 1) * T + 1]]
  BY <1>2 DEF Midi!Beats
<1>4. Midi!Tempi(at) = [i \in 1..q |-> Midi!bpm_from_beat_duration(beats[i])]
  BY <1>3 DEF Midi!Tempi
<1>5. Len(Midi!Tempi(at)) = q
  BY <1>4
<1> QED
  BY <1>3, <1>4, <1>5 DEF T

LEMMA NoBeats == Len(Midi!Tempi(<< >>)) = 0
<1>1. (Len(<< >>) - 1) \div TICKS_PER_BEAT < 1 /\ (Len(<< >>) - 1) \div TICKS_PER_BEAT \in Int
  BY MidiFacts
<1>2. 1..((Len(<< >>) - 1) \div TICKS_PER_BEAT) = {}
  BY <1>1
<1>3. DOMAIN Midi!Beats(<< >>) = {}
  BY <1>2 DEF Midi!Beats
<1> QED
  BY <1>3 DEF Midi!Tempi

LEMMA NothingShown ==
  Midi!Shows(<< >>, Midi!Tempi(<< >>), Len(Midi!Tempi(<< >>)))
<1>1. {i \in 1..0 : Midi!Tempi(<< >>)[i] # None} = {}
  OBVIOUS
<1>2. Cardinality({}) = 0
  BY FS_EmptySet
<1> DEFINE w == << >>
           x == Midi!Tempi(<< >>)
<1>3. Len(w) = 0 /\ Len(x) = 0 /\ SMOOTHING_WINDOW \in Nat \ {0}
  BY NoBeats, MidiFacts
<1>4. {i \in 1..0 : x[i] # None} = {}
  BY <1>1
<1> HIDE DEF w, x
<1>5. Midi!Shows(w, x, 0)
  <2>1. Len(w) = IF Cardinality({i \in 1..0 : x[i] # None}) < SMOOTHING_WINDOW
                 THEN Cardinality({i \in 1..0 : x[i] # None}) ELSE SMOOTHING_WINDOW
    BY <1>2, <1>3, <1>4
  <2> QED
    BY <1>4, <2>1 DEF Midi!Shows, Midi!Cardinality, Cardinality
<1> QED
  BY <1>3, <1>5 DEF w, x

(* After these ticks the follower stands r ticks behind the q-th whole      *)
(* beat, its anchor, and its window shows the last of the q tempi.         *)
Stands(at, q, r, anchor, w) ==
  /\ at \in Seq(Nat) /\ q \in Nat /\ r \in 0..(TICKS_PER_BEAT - 1)
  /\ Len(at) = q * TICKS_PER_BEAT + r + 1
  /\ anchor = at[q * TICKS_PER_BEAT + 1]
  /\ w \in Seq(Bpms) /\ Len(w) <= SMOOTHING_WINDOW
  /\ Midi!Shows(w, Midi!Tempi(at), Len(Midi!Tempi(at)))

(* One more tick: of a beat under way, or the one that completes it.       *)
LEMMA TickHeard ==
  ASSUME NEW at, NEW q, NEW r, NEW anchor, NEW w, Stands(at, q, r, anchor, w), NEW now \in Nat
  PROVE  LET u == Append(at, now)
             b == Midi!bpm_from_beat_duration(now - anchor)
             v == IF b = None THEN w ELSE Midi!Slide(w, b)
         IN /\ r + 1 < TICKS_PER_BEAT => Stands(u, q, r + 1, anchor, w)
            /\ r + 1 = TICKS_PER_BEAT =>
                 Stands(u, q + 1, 0, now, v) /\ (b # None => v # << >>)
<1>0. /\ at \in Seq(Nat) /\ q \in Nat /\ r \in 0..(TICKS_PER_BEAT - 1)
      /\ Len(at) = q * TICKS_PER_BEAT + r + 1
      /\ anchor = at[q * TICKS_PER_BEAT + 1]
      /\ w \in Seq(Bpms) /\ Len(w) <= SMOOTHING_WINDOW
      /\ Midi!Shows(w, Midi!Tempi(at), Len(Midi!Tempi(at)))
  BY DEF Stands
<1> DEFINE T == TICKS_PER_BEAT
           u == Append(at, now)
           a == q * T
           tempo(s, i) == Midi!bpm_from_beat_duration(s[i * T + 1] - s[(i - 1) * T + 1])
<1>1. T \in Nat \ {0} /\ r \in Nat
  BY <1>0, MidiFacts
<1>2. a \in Nat /\ (q + 1) * T = a + T /\ Len(at) = a + r + 1
  BY <1>0, <1>1
<1>3. PICK n \in Nat : n = Len(at) /\ at \in Seq(Nat)
  BY <1>0
<1>4. /\ u \in Seq(Nat) /\ u # << >> /\ Len(u) = n + 1 /\ u[n + 1] = now
      /\ \A i \in 1..n : u[i] = at[i]
  BY <1>3
<1> HIDE DEF u
<1>5. ASSUME NEW i \in 1..q
      PROVE  i * T + 1 \in 1..n /\ (i - 1) * T + 1 \in 1..n
  <2>1. i \in Nat /\ i - 1 \in Nat /\ i <= q /\ i - 1 <= q /\ q \in Nat
    BY <1>0
  <2>2. i * T \in Nat /\ i * T <= a
    BY <1>1, <2>1, TimesKeepsOrder
  <2>3. (i - 1) * T \in Nat /\ (i - 1) * T <= a
    <3> DEFINE k == i - 1
    <3>1. k \in Nat /\ k <= q /\ q \in Nat
      BY <2>1
    <3> HIDE DEF k
    <3>2. k * T \in Nat /\ k * T <= q * T
      BY <1>1, <3>1, TimesKeepsOrder
    <3> QED
      BY <3>2 DEF k
  <2> HIDE DEF a
  <2>4. a + 1 <= n
    BY <1>1, <1>2, <1>3
  <2> QED
    BY <1>2, <2>2, <2>3, <2>4
<1>6. /\ Len(Midi!Tempi(at)) = q
      /\ \A i \in 1..q : Midi!Tempi(at)[i] = tempo(at, i)
  BY <1>0, BeatsOf
<1>7. \A i \in 1..q : tempo(u, i) = tempo(at, i)
  BY <1>4, <1>5
<1>8. CASE r + 1 < T
  <2>1. r + 1 \in 0..(T - 1)
    BY <1>1, <1>8
  <2>2. Len(u) = q * T + (r + 1) + 1
    <3> HIDE DEF a
    <3>1. Len(u) = a + (r + 1) + 1
      BY <1>1, <1>2, <1>3, <1>4
    <3> QED
      BY <3>1 DEF a
  <2>3. Len(Midi!Tempi(u)) = q /\ \A i \in 1..q : Midi!Tempi(u)[i] = tempo(u, i)
    BY <1>0, <1>4, <2>1, <2>2, BeatsOf
  <2>4. u[a + 1] = at[a + 1]
    <3> HIDE DEF a
    <3>1. a + 1 \in 1..n
      BY <1>1, <1>2, <1>3
    <3> QED
      BY <1>4, <3>1
  <2>5. ASSUME Midi!Shows(w, Midi!Tempi(at), q) PROVE Midi!Shows(w, Midi!Tempi(u), q)
    <3> DEFINE x == Midi!Tempi(at)
               y == Midi!Tempi(u)
    <3>1. \A i \in 1..q : y[i] = x[i]
      BY <1>6, <1>7, <2>3
    <3> HIDE DEF x, y
    <3>2. {i \in 1..q : y[i] # None} = {i \in 1..q : x[i] # None}
      BY <3>1
    <3>3. Midi!Shows(w, x, q)
      BY <2>5 DEF x
    <3>4. Midi!Shows(w, y, q)
      BY <3>1, <3>2, <3>3 DEF Midi!Shows
    <3> QED
      BY <3>4 DEF y
  <2>6. Stands(u, q, r + 1, anchor, w)
    BY <1>0, <1>4, <1>6, <2>1, <2>2, <2>3, <2>4, <2>5 DEF Stands, a
  <2>7. r + 1 # T
    BY <1>1, <1>8
  <2> QED
    BY <1>8, <2>6, <2>7 DEF u
<1>9. CASE r + 1 = T
  <2>1. 0 \in 0..(T - 1) /\ q + 1 \in Nat /\ q + 1 \in 1..(q + 1)
    BY <1>0, <1>1
  <2>2. Len(u) = (q + 1) * T + 0 + 1 /\ Len(u) = (q + 1) * T + 1
    <3> HIDE DEF a
    <3>1. Len(u) = (a + T) + 0 + 1 /\ Len(u) = (a + T) + 1
      BY <1>1, <1>2, <1>3, <1>4, <1>9
    <3> QED
      BY <1>2, <3>1
  <2>3. Len(Midi!Tempi(u)) = q + 1 /\ \A i \in 1..(q + 1) : Midi!Tempi(u)[i] = tempo(u, i)
    BY <1>0, <1>4, <2>1, <2>2, BeatsOf
  <2>4. u[(q + 1) * T + 1] = now
    BY <1>3, <1>4, <2>2
  <2>5. Midi!Tempi(u)[q + 1] = Midi!bpm_from_beat_duration(now - at[a + 1])
    <3>1. Midi!Tempi(u)[q + 1] = tempo(u, q + 1)
      BY <2>1, <2>3
    <3>2. ((q + 1) - 1) * T = a
      BY <1>0, <1>1
    <3>3. u[a + 1] = at[a + 1]
      <4> HIDE DEF a
      <4>1. a + 1 \in 1..n
        BY <1>1, <1>2, <1>3
      <4> QED
        BY <1>4, <4>1
    <3> HIDE DEF a
    <3> QED
      BY <2>4, <3>1, <3>2, <3>3
  <2>6. LET b == Midi!bpm_from_beat_duration(now - at[a + 1])
            v == IF b = None THEN w ELSE Midi!Slide(w, b)
        IN /\ Midi!Shows(v, Midi!Tempi(u), q + 1)
           /\ v \in Seq(Bpms) /\ Len(v) <= SMOOTHING_WINDOW
           /\ b # None => v # << >>
    <3> DEFINE x == Midi!Tempi(at)
               y == Midi!Tempi(u)
               b == Midi!bpm_from_beat_duration(now - at[a + 1])
    <3>1. \A i \in 1..q : y[i] = x[i]
      BY <1>6, <1>7, <2>3
    <3>2. y[q + 1] = b /\ b \in Bpms \cup {None}
      BY <2>5, TempoType
    <3>3. Midi!Shows(w, x, q) /\ q \in Nat /\ w \in Seq(Bpms)
      BY <1>0, <1>6
    <3> HIDE DEF x, y, b
    <3>4. y[q + 1] \in Bpms \cup {None}
      BY <3>2
    <3>5. LET v == IF y[q + 1] = None THEN w ELSE Midi!Slide(w, y[q + 1])
          IN /\ v \in Seq(Bpms) /\ Midi!Shows(v, y, q + 1) /\ Len(v) <= SMOOTHING_WINDOW
             /\ y[q + 1] # None => v # << >>
      BY <3>1, <3>3, <3>4, WindowSlides
    <3> QED
      BY <3>2, <3>5 DEF y, b
  <2>7. LET b == Midi!bpm_from_beat_duration(now - anchor)
            v == IF b = None THEN w ELSE Midi!Slide(w, b)
        IN Stands(u, q + 1, 0, now, v) /\ (b # None => v # << >>)
    BY <1>0, <1>4, <2>1, <2>2, <2>3, <2>4, <2>6 DEF Stands, a
  <2>8. ~(r + 1 < T)
    BY <1>1, <1>9
  <2> QED
    BY <1>9, <2>7, <2>8 DEF u
<1>10. r + 1 < T \/ r + 1 = T
  BY <1>0, <1>1
<1> QED
  BY <1>8, <1>9, <1>10


-----------------------------------------------------------------------------
(* The follower: between two ticks it stands so many whole beats and so    *)
(* many ticks after the first one, and its anchor is the last whole beat.  *)
FollowerTypes ==
  /\ time \in Nat /\ clock_bpm \in Nat \ {0} /\ clock_source \in {"internal", "midi_in"}
  /\ input \in {"none", "open", "closed"} /\ byte \in {None, "start", "stop", "clock"}
  /\ follower \in [running : BOOLEAN, beat_anchor : {None} \cup 0..time,
                   ticks_in_beat : 0..(TICKS_PER_BEAT - 1), window : Seq(Bpms),
                   last_emitted_bpm : {None} \cup Nat]
  /\ Len(follower.window) <= SMOOTHING_WINDOW
  /\ ticks \in Seq(Nat)

BeatInv ==
  /\ ~follower.running => follower.beat_anchor = None
  /\ follower.beat_anchor = None =>
       ticks = << >> /\ follower.window = << >> /\ follower.ticks_in_beat = 0
  /\ follower.beat_anchor # None =>
       \E q : Stands(ticks, q, follower.ticks_in_beat, follower.beat_anchor, follower.window)

BpmInv ==
  /\ ~set_since /\ follower.last_emitted_bpm # None => clock_bpm = follower.last_emitted_bpm
  /\ Midi!ClockWithinDeadband

FollowerInv == FollowerTypes /\ BeatInv /\ BpmInv

LEMMA StoppedType ==
  ASSUME FollowerTypes, NEW r \in BOOLEAN
  PROVE  [Midi!Stopped(follower.last_emitted_bpm) EXCEPT !.running = r]
           = [running |-> r, beat_anchor |-> None, ticks_in_beat |-> 0, window |-> << >>,
              last_emitted_bpm |-> follower.last_emitted_bpm]
BY DEF Midi!Stopped

LEMMA FollowerInitHolds == Midi!Init => FollowerInv
<1> SUFFICES ASSUME Midi!Init PROVE FollowerInv
  OBVIOUS
<1>1. follower = [running |-> FALSE, beat_anchor |-> None, ticks_in_beat |-> 0,
                  window |-> << >>, last_emitted_bpm |-> None]
  BY DEF Midi!Init, Midi!Stopped
<1>2. FollowerTypes
  <2>1. 0 \in 0..(TICKS_PER_BEAT - 1) /\ << >> \in Seq(Bpms) /\ << >> \in Seq(Nat)
        /\ Len(<< >>) <= SMOOTHING_WINDOW
    BY MidiFacts
  <2> QED
    BY <1>1, <2>1 DEF Midi!Init, FollowerTypes
<1>3. BeatInv
  BY <1>1 DEF Midi!Init, BeatInv
<1>4. BpmInv
  BY <1>1 DEF BpmInv, Midi!ClockWithinDeadband
<1> QED
  BY <1>2, <1>3, <1>4 DEF FollowerInv

(* What a byte makes of the follower, case by case. *)
LEMMA Followed ==
  ASSUME FollowerInv, Midi!Follow
  PROVE  LET f == Midi!process_byte(follower, byte)
             b == Midi!bpm_from_beat_duration(time - follower.beat_anchor)
         IN \/ /\ byte \in {"start", "stop"} /\ ticks' = << >>
               /\ f = [running |-> byte = "start", beat_anchor |-> None, ticks_in_beat |-> 0,
                       window |-> << >>, last_emitted_bpm |-> follower.last_emitted_bpm]
            \/ /\ byte = "clock" /\ follower.running /\ follower.beat_anchor = None
               /\ ticks' = Append(ticks, time)
               /\ f = [follower EXCEPT !.beat_anchor = time, !.ticks_in_beat = 0]
            \/ /\ byte = "clock" /\ Midi!Measures(follower)
               /\ ticks' = Append(ticks, time)
               /\ f = [follower EXCEPT !.beat_anchor = time, !.ticks_in_beat = 0,
                         !.window = IF b = None THEN @ ELSE Midi!Slide(@, b)]
            \/ /\ byte = "clock" /\ follower.running /\ follower.beat_anchor # None
               /\ ~Midi!Measures(follower)
               /\ ticks' = Append(ticks, time)
               /\ f = [follower EXCEPT !.ticks_in_beat = @ + 1]
            \/ /\ byte = "clock" /\ ~follower.running
               /\ ticks' = ticks /\ f = follower
<1>1. byte \in {"start", "stop", "clock"}
  BY DEF FollowerInv, FollowerTypes, Midi!Follow
<1>2. FollowerTypes
  BY DEF FollowerInv
<1>3. follower.running \in BOOLEAN
  BY <1>2 DEF FollowerTypes
<1>4. ticks' = CASE byte \in {"start", "stop"} -> << >>
                 [] byte = "clock" /\ follower.running -> Append(ticks, time)
                 [] OTHER -> ticks
  BY DEF Midi!Follow
<1>5. CASE byte = "start"
  <2>1. Midi!process_byte(follower, byte)
          = [Midi!Stopped(follower.last_emitted_bpm) EXCEPT !.running = TRUE]
    BY <1>5 DEF Midi!process_byte
  <2> QED
    BY <1>2, <1>4, <1>5, <2>1, StoppedType
<1>6. CASE byte = "stop"
  <2>1. Midi!process_byte(follower, byte) = Midi!Stopped(follower.last_emitted_bpm)
    BY <1>6 DEF Midi!process_byte
  <2> QED
    BY <1>4, <1>6, <2>1 DEF Midi!Stopped
<1>7. CASE byte = "clock"
  <2>1. CASE ~follower.running
    <3>1. Midi!process_byte(follower, byte) = follower
      BY <1>7, <2>1 DEF Midi!process_byte, Midi!Measures
    <3> QED
      BY <1>4, <1>7, <2>1, <3>1
  <2>2. CASE follower.running /\ follower.beat_anchor = None
    <3>1. Midi!process_byte(follower, byte)
            = [follower EXCEPT !.beat_anchor = time, !.ticks_in_beat = 0]
      BY <1>7, <2>2 DEF Midi!process_byte, Midi!Measures
    <3> QED
      BY <1>4, <1>7, <2>2, <3>1
  <2>3. CASE Midi!Measures(follower)
    <3>1. follower.running /\ follower.beat_anchor # None
      BY <2>3 DEF Midi!Measures
    <3>2. Midi!process_byte(follower, byte) = Midi!BeatDone(follower)
      BY <1>7, <2>3, <3>1 DEF Midi!process_byte
    <3> QED
      BY <1>4, <1>7, <2>3, <3>1, <3>2 DEF Midi!BeatDone
  <2>4. CASE follower.running /\ follower.beat_anchor # None /\ ~Midi!Measures(follower)
    <3>1. Midi!process_byte(follower, byte) = [follower EXCEPT !.ticks_in_beat = @ + 1]
      BY <1>7, <2>4 DEF Midi!process_byte
    <3> QED
      BY <1>4, <1>7, <2>4, <3>1
  <2> QED
    BY <2>1, <2>2, <2>3, <2>4
<1> QED
  BY <1>1, <1>5, <1>6, <1>7

(* ... and that it keeps what is said of the beats, whoever is told.       *)
LEMMA BeatsKeep ==
  ASSUME FollowerInv, Midi!Follow
  PROVE  LET f == Midi!process_byte(follower, byte)
             s == Midi!Smoothed(follower, byte)
         IN /\ ticks' \in Seq(Nat)
            /\ f \in [running : BOOLEAN, beat_anchor : {None} \cup 0..time,
                      ticks_in_beat : 0..(TICKS_PER_BEAT - 1), window : Seq(Bpms),
                      last_emitted_bpm : {None} \cup Nat]
            /\ f.last_emitted_bpm = follower.last_emitted_bpm
            /\ Len(f.window) <= SMOOTHING_WINDOW
            /\ ~f.running => f.beat_anchor = None
            /\ f.beat_anchor = None => ticks' = << >> /\ f.window = << >> /\ f.ticks_in_beat = 0
            /\ f.beat_anchor # None =>
                 \E q : Stands(ticks', q, f.ticks_in_beat, f.beat_anchor, f.window)
            /\ \/ s = None /\ f.window \in {<< >>, follower.window}
               \/ s = Midi!smooth_bpm(f.window) /\ f.window # << >>
<1> DEFINE f == Midi!process_byte(follower, byte)
           s == Midi!Smoothed(follower, byte)
           T == TICKS_PER_BEAT
           b == Midi!bpm_from_beat_duration(time - follower.beat_anchor)
           States == [running : BOOLEAN, beat_anchor : {None} \cup 0..time,
                      ticks_in_beat : 0..(T - 1), window : Seq(Bpms),
                      last_emitted_bpm : {None} \cup Nat]
<1>0. T \in Nat \ {0} /\ None \notin Int /\ SMOOTHING_WINDOW \in Nat
  BY MidiFacts
<1>1. /\ time \in Nat /\ ticks \in Seq(Nat) /\ follower \in States
      /\ Len(follower.window) <= SMOOTHING_WINDOW
  BY DEF FollowerInv, FollowerTypes
<1>2. /\ ~follower.running => follower.beat_anchor = None
      /\ follower.beat_anchor = None =>
           ticks = << >> /\ follower.window = << >> /\ follower.ticks_in_beat = 0
      /\ follower.beat_anchor # None =>
           \E q : Stands(ticks, q, follower.ticks_in_beat, follower.beat_anchor, follower.window)
  BY DEF FollowerInv, BeatInv
<1>3. s = IF byte = "clock" /\ Midi!Measures(follower) /\ b # None
          THEN Midi!smooth_bpm(f.window) ELSE None
  BY DEF Midi!Smoothed
<1>4. 0 \in 0..(T - 1) /\ << >> \in Seq(Bpms) /\ << >> \in Seq(Nat) /\ Len(<< >>) = 0
  BY <1>0
<1>5. CASE /\ byte \in {"start", "stop"} /\ ticks' = << >>
           /\ f = [running |-> byte = "start", beat_anchor |-> None, ticks_in_beat |-> 0,
                   window |-> << >>, last_emitted_bpm |-> follower.last_emitted_bpm]
  <2> HIDE DEF f, s, b
  <2>1. s = None /\ f.window = << >> /\ f.beat_anchor = None /\ f.ticks_in_beat = 0
        /\ f.last_emitted_bpm = follower.last_emitted_bpm
    BY <1>3, <1>5
  <2>2. f \in States
    BY <1>1, <1>4, <1>5
  <2>3. Len(f.window) <= SMOOTHING_WINDOW
    BY <1>0, <1>4, <2>1
  <2> QED
    BY <1>4, <1>5, <2>1, <2>2, <2>3 DEF f, s
<1>6. CASE /\ byte = "clock" /\ follower.running /\ follower.beat_anchor = None
           /\ ticks' = Append(ticks, time)
           /\ f = [follower EXCEPT !.beat_anchor = time, !.ticks_in_beat = 0]
  <2> HIDE DEF f, s, b
  <2>1. ticks = << >> /\ follower.window = << >>
    BY <1>2, <1>6
  <2>2. /\ f.window = << >> /\ f.beat_anchor = time /\ f.ticks_in_beat = 0 /\ f.running
        /\ f.last_emitted_bpm = follower.last_emitted_bpm
    BY <1>1, <1>6, <2>1
  <2>3. f \in States
    <3>1. time \in 0..time
      BY <1>1
    <3> QED
      BY <1>1, <1>4, <1>6, <2>2, <3>1
  <2>4. s = None
    BY <1>3, <1>6 DEF Midi!Measures
  <2>5. ticks' \in Seq(Nat) /\ Len(ticks') = 1 /\ ticks'[1] = time
    BY <1>1, <1>6, <2>1
  <2>6. Len(ticks') = 0 * T + 0 + 1 /\ 0 * T + 1 = 1
    BY <1>0, <2>5
  <2>7. Len(Midi!Tempi(ticks')) = 0
    BY <1>4, <2>5, <2>6, BeatsOf
  <2>8. Midi!Shows(<< >>, Midi!Tempi(ticks'), 0)
    <3> DEFINE x == Midi!Tempi(<< >>)
               y == Midi!Tempi(ticks')
    <3>1. Midi!Shows(<< >>, x, 0)
      BY NothingShown, NoBeats
    <3> HIDE DEF x, y
    <3>2. {i \in 1..0 : y[i] # None} = {i \in 1..0 : x[i] # None}
      OBVIOUS
    <3>3. \A i \in {j \in 1..0 : y[j] # None} : FALSE
      OBVIOUS
    <3>4. Midi!Shows(<< >>, y, 0)
      BY <3>1, <3>2, <3>3 DEF Midi!Shows
    <3> QED
      BY <3>4 DEF y
  <2>9. Stands(ticks', 0, 0, time, << >>)
    BY <1>0, <1>4, <2>5, <2>6, <2>7, <2>8 DEF Stands
  <2>10. f.beat_anchor # None /\ Len(f.window) <= SMOOTHING_WINDOW
    BY <1>0, <1>1, <1>4, <2>2
  <2> QED
    BY <2>2, <2>3, <2>4, <2>5, <2>9, <2>10 DEF f, s
<1>7. CASE /\ byte = "clock" /\ Midi!Measures(follower)
           /\ ticks' = Append(ticks, time)
           /\ f = [follower EXCEPT !.beat_anchor = time, !.ticks_in_beat = 0,
                     !.window = IF b = None THEN @ ELSE Midi!Slide(@, b)]
  <2> DEFINE v == IF b = None THEN follower.window ELSE Midi!Slide(follower.window, b)
  <2>1. follower.running /\ follower.beat_anchor # None /\ follower.ticks_in_beat + 1 = T
    <3>1. follower.ticks_in_beat + 1 >= T /\ follower.ticks_in_beat \in 0..(T - 1)
      BY <1>1, <1>7 DEF Midi!Measures
    <3> QED
      BY <1>0, <1>7, <3>1 DEF Midi!Measures
  <2>2. PICK q : Stands(ticks, q, follower.ticks_in_beat, follower.beat_anchor, follower.window)
    BY <1>2, <2>1
  <2>3. Stands(ticks', q + 1, 0, time, v) /\ (b # None => v # << >>)
    BY <1>1, <1>7, <2>1, <2>2, TickHeard
  <2> HIDE DEF f, s, b
  <2>4. /\ f.window = v
        /\ f.beat_anchor = time /\ f.ticks_in_beat = 0 /\ f.running = follower.running
        /\ f.last_emitted_bpm = follower.last_emitted_bpm
    BY <1>1, <1>7
  <2>5. ticks' \in Seq(Nat) /\ v \in Seq(Bpms) /\ Len(v) <= SMOOTHING_WINDOW
    BY <2>3 DEF Stands
  <2>6. s = (IF b # None THEN Midi!smooth_bpm(v) ELSE None) /\ (b = None => v = follower.window)
    BY <1>3, <1>7, <2>4
  <2> HIDE DEF v
  <2>7. f \in States
    <3>1. time \in 0..time
      BY <1>1
    <3>2. f = [follower EXCEPT !.beat_anchor = time, !.ticks_in_beat = 0, !.window = v]
      BY <1>7 DEF v
    <3> QED
      BY <1>1, <1>4, <2>5, <3>1, <3>2
  <2>8. f.beat_anchor # None
    BY <1>0, <1>1, <2>4
  <2>9. \/ s = None /\ f.window \in {<< >>, follower.window}
        \/ s = Midi!smooth_bpm(f.window) /\ f.window # << >>
    BY <2>3, <2>4, <2>6
  <2> QED
    BY <2>1, <2>3, <2>4, <2>5, <2>7, <2>8, <2>9 DEF f, s
<1>8. CASE /\ byte = "clock" /\ follower.running /\ follower.beat_anchor # None
           /\ ~Midi!Measures(follower)
           /\ ticks' = Append(ticks, time)
           /\ f = [follower EXCEPT !.ticks_in_beat = @ + 1]
  <2>1. follower.ticks_in_beat + 1 < T /\ follower.ticks_in_beat + 1 \in 0..(T - 1)
    <3>1. ~(follower.ticks_in_beat + 1 >= T) /\ follower.ticks_in_beat \in 0..(T - 1)
      BY <1>1, <1>8 DEF Midi!Measures
    <3> QED
      BY <1>0, <3>1
  <2>2. PICK q : Stands(ticks, q, follower.ticks_in_beat, follower.beat_anchor, follower.window)
    BY <1>2, <1>8
  <2>3. Stands(ticks', q, follower.ticks_in_beat + 1, follower.beat_anchor, follower.window)
    BY <1>1, <1>8, <2>1, <2>2, TickHeard
  <2> HIDE DEF f, s, b
  <2>4. /\ f.window = follower.window /\ f.beat_anchor = follower.beat_anchor
        /\ f.ticks_in_beat = follower.ticks_in_beat + 1 /\ f.running = follower.running
        /\ f.last_emitted_bpm = follower.last_emitted_bpm
        /\ f \in States
    BY <1>1, <1>8, <2>1
  <2>5. s = None
    BY <1>3, <1>8
  <2>6. ticks' \in Seq(Nat)
    BY <2>3 DEF Stands
  <2> QED
    BY <1>1, <1>8, <2>3, <2>4, <2>5, <2>6 DEF f, s
<1>9. CASE byte = "clock" /\ ~follower.running /\ ticks' = ticks /\ f = follower
  <2>1. s = None
    BY <1>3, <1>9 DEF Midi!Measures
  <2> HIDE DEF f, s, b
  <2>2. f.beat_anchor = None
    BY <1>2, <1>9
  <2> QED
    BY <1>1, <1>2, <1>9, <2>1, <2>2 DEF f, s
<1> QED
  BY <1>5, <1>6, <1>7, <1>8, <1>9, Followed


LEMMA FollowKeeps == ASSUME FollowerInv, Midi!Follow PROVE FollowerInv'
<1> DEFINE f == Midi!process_byte(follower, byte)
           s == Midi!Smoothed(follower, byte)
           emits == s # None /\ Midi!should_emit(s, follower.last_emitted_bpm)
           States == [running : BOOLEAN, beat_anchor : {None} \cup 0..time,
                      ticks_in_beat : 0..(TICKS_PER_BEAT - 1), window : Seq(Bpms),
                      last_emitted_bpm : {None} \cup Nat]
<1>1. /\ ticks' \in Seq(Nat) /\ f \in States
      /\ f.last_emitted_bpm = follower.last_emitted_bpm
      /\ Len(f.window) <= SMOOTHING_WINDOW
      /\ ~f.running => f.beat_anchor = None
      /\ f.beat_anchor = None => ticks' = << >> /\ f.window = << >> /\ f.ticks_in_beat = 0
      /\ f.beat_anchor # None =>
           \E q : Stands(ticks', q, f.ticks_in_beat, f.beat_anchor, f.window)
      /\ \/ s = None /\ f.window \in {<< >>, follower.window}
         \/ s = Midi!smooth_bpm(f.window) /\ f.window # << >>
  BY BeatsKeep
<1>2. /\ IF emits THEN /\ clock_bpm' = s /\ set_since' = FALSE
                       /\ follower' = [f EXCEPT !.last_emitted_bpm = s]
         ELSE follower' = f /\ UNCHANGED <<clock_bpm, set_since>>
      /\ UNCHANGED <<time, clock_source, input>> /\ byte' = None
  BY DEF Midi!Follow
<1>3. /\ time \in Nat /\ clock_bpm \in Nat \ {0} /\ clock_source \in {"internal", "midi_in"}
      /\ input \in {"none", "open", "closed"}
      /\ ~set_since /\ follower.last_emitted_bpm # None => clock_bpm = follower.last_emitted_bpm
      /\ follower.window # << >> /\ ~set_since =>
           Midi!Distance(clock_bpm, Midi!smooth_bpm(follower.window)) < BPM_DEADBAND
  BY DEF FollowerInv, FollowerTypes, BpmInv, Midi!ClockWithinDeadband
<1>4. s # None => s \in Nat \ {0} /\ s = Midi!smooth_bpm(f.window) /\ f.window # << >>
  BY <1>1, SmoothType
<1>5. BPM_DEADBAND \in Nat \ {0} /\ None \notin Int
  BY MidiFacts
<1>6. Midi!should_emit(s, follower.last_emitted_bpm) <=>
        Midi!Distance(s, IF follower.last_emitted_bpm = None THEN clock_bpm
                         ELSE follower.last_emitted_bpm) >= BPM_DEADBAND
  BY DEF Midi!should_emit
<1> HIDE DEF f, s
<1>7. CASE emits
  <2>1. clock_bpm' = s /\ s \in Nat \ {0} /\ set_since' = FALSE
    BY <1>2, <1>4, <1>7
  <2>2. /\ follower'.window = f.window /\ follower'.beat_anchor = f.beat_anchor
        /\ follower'.ticks_in_beat = f.ticks_in_beat /\ follower'.running = f.running
        /\ follower'.last_emitted_bpm = s
        /\ follower' \in States
    BY <1>1, <1>2, <1>4, <1>7
  <2>3. Midi!Distance(s, s) < BPM_DEADBAND
    BY <1>5, <2>1 DEF Midi!Distance
  <2>4. BpmInv'
    BY <1>4, <1>7, <2>1, <2>2, <2>3 DEF BpmInv, Midi!ClockWithinDeadband
  <2>5. BeatInv'
    BY <1>1, <2>2 DEF BeatInv
  <2>6. FollowerTypes'
    BY <1>1, <1>2, <1>3, <2>1, <2>2 DEF FollowerTypes
  <2> QED
    BY <2>4, <2>5, <2>6 DEF FollowerInv
<1>8. CASE ~emits
  <2>1. follower' = f /\ clock_bpm' = clock_bpm /\ set_since' = set_since
    BY <1>2, <1>8
  <2>2. ASSUME f.window # << >>, ~set_since
        PROVE  Midi!Distance(clock_bpm, Midi!smooth_bpm(f.window)) < BPM_DEADBAND
    <3>1. CASE s = None
      <4>1. f.window \in Seq(Bpms)
        BY <1>1
      <4>2. Midi!smooth_bpm(f.window) \in Nat \ {0}
        BY <2>2, <4>1, SmoothType
      <4>3. f.window = follower.window
        BY <1>1, <1>5, <2>2, <3>1, <4>2
      <4> QED
        BY <1>3, <2>2, <4>3
    <3>2. CASE s # None
      <4>1. ~(Midi!Distance(s, clock_bpm) >= BPM_DEADBAND)
        BY <1>3, <1>6, <1>8, <2>2, <3>2
      <4>2. Midi!Distance(clock_bpm, s) < BPM_DEADBAND
        BY <1>3, <1>4, <1>5, <3>2, <4>1 DEF Midi!Distance
      <4> QED
        BY <1>4, <3>2, <4>2
    <3> QED
      BY <3>1, <3>2
  <2>3. BpmInv'
    BY <1>1, <1>3, <2>1, <2>2 DEF BpmInv, Midi!ClockWithinDeadband
  <2>4. BeatInv'
    BY <1>1, <2>1 DEF BeatInv
  <2>5. FollowerTypes'
    BY <1>1, <1>2, <1>3, <2>1 DEF FollowerTypes
  <2> QED
    BY <2>3, <2>4, <2>5 DEF FollowerInv
<1> QED
  BY <1>7, <1>8

\* What neither the follower's state nor the tempo depends on.
LEMMA FollowerRests ==
  ASSUME FollowerInv, UNCHANGED <<clock_bpm, follower, ticks, set_since>>,
         time' \in Nat, time' >= time, clock_source' \in {"internal", "midi_in"},
         input' \in {"none", "open", "closed"}, byte' \in {None, "start", "stop", "clock"}
  PROVE  FollowerInv'
<1>1. FollowerTypes /\ BeatInv /\ BpmInv
  BY DEF FollowerInv
<1>2. time \in Nat
  BY <1>1 DEF FollowerTypes
<1>3. 0..time \subseteq 0..time'
  BY <1>2
<1>4. FollowerTypes'
  BY <1>1, <1>3 DEF FollowerTypes
<1>5. BeatInv'
  BY <1>1 DEF BeatInv
<1>6. BpmInv'
  BY <1>1 DEF BpmInv, Midi!ClockWithinDeadband
<1> QED
  BY <1>4, <1>5, <1>6 DEF FollowerInv

LEMMA SetKeeps ==
  ASSUME FollowerInv, NEW b \in MasterTempos, Midi!SetMasterBpm(b)
  PROVE  FollowerInv'
<1>1. /\ FollowerTypes /\ BeatInv /\ BpmInv
      /\ UNCHANGED <<time, clock_source, input, follower, byte, ticks>>
      /\ clock_bpm' = IF b # NonFinite /\ b > 0 THEN b ELSE clock_bpm
      /\ set_since' = (set_since \/ clock_bpm' # clock_bpm)
  BY DEF FollowerInv, Midi!SetMasterBpm, Midi!in_vars
<1>2. clock_bpm' \in Nat \ {0}
  BY <1>1, MidiFacts DEF FollowerTypes
<1>3. ~set_since' => ~set_since /\ clock_bpm' = clock_bpm
  BY <1>1
<1>4. FollowerTypes'
  BY <1>1, <1>2 DEF FollowerTypes
<1>5. BeatInv'
  BY <1>1 DEF BeatInv
<1>6. BpmInv'
  BY <1>1, <1>3 DEF BpmInv, Midi!ClockWithinDeadband
<1> QED
  BY <1>4, <1>5, <1>6 DEF FollowerInv

-----------------------------------------------------------------------------
(* The worker: what its port has seen when it stands where it stands, and  *)
(* how its deadline lies behind the ticks already sent.                    *)
PortTypes ==
  /\ time \in Nat /\ clock_bpm \in Nat \ {0}
  /\ output \in {"none", "open", "joining", "closed"}
  /\ worker \in {"start", "loop", "wait", "send", "stop", "done"}
  /\ deadline \in Nat /\ period \in Nat
  /\ port \in Seq([msg : {"start", "clock", "stop"}, at : Nat])
  /\ \A i \in 1..Len(port) : port[i].at <= time

PortInv ==
  /\ output = "none" => worker = "done" /\ port = << >>
  /\ worker = "start" => port = << >>
  /\ worker # "start" /\ output # "none" => port # << >>
  /\ \A i \in 1..Len(port) : (port[i].msg = "start") = (i = 1)
  /\ worker # "done" => \A i \in 1..Len(port) : port[i].msg # "stop"
  /\ \A i, j \in 1..Len(port) : i <= j /\ port[i].msg = "stop" => port[j].msg = "stop"
  /\ worker = "done" /\ port # << >> => port[Len(port)].msg = "stop"
  /\ output = "closed" => worker = "done"

TickInv ==
  /\ worker = "loop" /\ Len(port) >= 2 => deadline >= port[Len(port) - 1].at
  /\ worker \in {"wait", "send"} =>
       /\ deadline >= port[Len(port)].at
       /\ Len(port) >= 2 => deadline - period >= port[Len(port) - 1].at
  /\ worker = "send" => time >= deadline

WorkerInv == PortTypes /\ PortInv /\ TickInv

LEMMA PortTimes ==
  PortTypes => \A i \in 1..Len(port) : port[i].at \in Nat /\ port[i].at <= time
<1> SUFFICES ASSUME PortTypes, NEW i \in 1..Len(port) PROVE port[i].at \in Nat /\ port[i].at <= time
  OBVIOUS
<1> DEFINE M == [msg : {"start", "clock", "stop"}, at : Nat]
<1>1. \A m \in M : m.at \in Nat
  OBVIOUS
<1>2. port \in Seq(M) /\ port[i].at <= time
  BY DEF PortTypes
<1> HIDE DEF M
<1>3. port[i] \in M
  BY <1>2
<1> QED
  BY <1>1, <1>2, <1>3

LEMMA WorkerInitHolds == Midi!Init => WorkerInv
<1> SUFFICES ASSUME Midi!Init PROVE WorkerInv
  OBVIOUS
<1>1. PortTypes
  BY DEF Midi!Init, PortTypes
<1>2. PortInv /\ TickInv
  BY DEF Midi!Init, PortInv, TickInv
<1> QED
  BY <1>1, <1>2 DEF WorkerInv

LEMMA WorkerRests ==
  ASSUME WorkerInv, UNCHANGED <<output, worker, deadline, period, port>>,
         time' \in Nat, time' >= time, clock_bpm' \in Nat \ {0}
  PROVE  WorkerInv'
<1>1. PortTypes /\ PortInv /\ TickInv
  BY DEF WorkerInv
<1>2. \A i \in 1..Len(port) : port[i].at \in Nat /\ port[i].at <= time /\ time \in Nat
  BY <1>1, PortTimes DEF PortTypes
<1>3. \A i \in 1..Len(port) : port[i].at <= time'
  BY <1>2
<1>4. PortTypes'
  BY <1>1, <1>3 DEF PortTypes
<1>5. PortInv'
  BY <1>1 DEF PortInv
<1>6. TickInv'
  <2>1. time \in Nat /\ deadline \in Nat
    BY <1>1 DEF PortTypes
  <2> QED
    BY <1>1, <2>1 DEF TickInv
<1> QED
  BY <1>4, <1>5, <1>6 DEF WorkerInv

\* A message more on the port.
LEMMA Sent ==
  ASSUME PortTypes, NEW m \in {"start", "clock", "stop"}, Midi!Send(m)
  PROVE  LET n == Len(port)
         IN /\ n \in Nat /\ Len(port') = n + 1 /\ port' # << >>
            /\ port' \in Seq([msg : {"start", "clock", "stop"}, at : Nat])
            /\ port'[n + 1].msg = m /\ port'[n + 1].at = time
            /\ \A i \in 1..n : port'[i] = port[i]
<1> DEFINE M == [msg : {"start", "clock", "stop"}, at : Nat]
           x == [msg |-> m, at |-> time]
<1>1. PICK n \in Nat : n = Len(port) /\ port \in Seq(M)
  BY DEF PortTypes
<1>2. x \in M /\ x.msg = m /\ x.at = time
  BY DEF PortTypes
<1>3. port' = Append(port, x)
  BY DEF Midi!Send
<1> HIDE DEF M, x
<1>4. /\ port' \in Seq(M) /\ Len(port') = n + 1 /\ port'[n + 1] = x /\ port' # << >>
      /\ \A i \in 1..n : port'[i] = port[i]
  BY <1>1, <1>2, <1>3
<1> QED
  BY <1>1, <1>2, <1>4 DEF M

LEMMA PortGrows ==
  ASSUME PortTypes, NEW m \in {"start", "clock", "stop"}, Midi!Send(m), time' = time
  PROVE  \A i \in 1..Len(port') : port'[i].at <= time'
<1>1. PICK n : n = Len(port)
  OBVIOUS
<1>2. /\ n \in Nat /\ Len(port') = n + 1 /\ port'[n + 1].at = time
      /\ \A i \in 1..n : port'[i] = port[i]
  BY <1>1, Sent
<1>3. time \in Nat /\ \A i \in 1..n : port[i].at <= time
  BY <1>1 DEF PortTypes
<1> SUFFICES ASSUME NEW i \in 1..(n + 1) PROVE port'[i].at <= time
  BY <1>2
<1>4. i = n + 1 \/ i \in 1..n
  BY <1>2
<1> QED
  BY <1>2, <1>3, <1>4

LEMMA SendStartKeeps == ASSUME WorkerInv, Midi!SendStart PROVE WorkerInv'
<1>1. /\ PortTypes /\ PortInv /\ worker = "start" /\ Midi!Send("start") /\ worker' = "loop"
      /\ deadline' = time /\ UNCHANGED <<time, clock_bpm, output, period>>
  BY DEF WorkerInv, Midi!SendStart, Midi!WorkerOnly, Midi!clock_vars
<1>2. port = << >> /\ output # "none" /\ output # "closed"
  BY <1>1 DEF PortInv
<1>3. /\ Len(port') = 1 /\ port' # << >> /\ port'[1].msg = "start"
      /\ port' \in Seq([msg : {"start", "clock", "stop"}, at : Nat])
  BY <1>1, <1>2, Sent
<1>4. \A i \in 1..Len(port') : port'[i].at <= time'
  BY <1>1, PortGrows
<1>5. PortTypes'
  BY <1>1, <1>3, <1>4 DEF PortTypes
<1>6. PortInv'
  BY <1>1, <1>2, <1>3 DEF PortInv
<1>7. TickInv'
  BY <1>1, <1>3 DEF TickInv
<1> QED
  BY <1>5, <1>6, <1>7 DEF WorkerInv

LEMMA PeriodType ==
  ASSUME clock_bpm \in Nat \ {0}
  PROVE  Midi!tick_period_for_bpm(clock_bpm) \in Nat \ {0}
<1>1. clock_bpm * TICKS_PER_BEAT \in Nat \ {0}
  BY MidiFacts
<1>2. Minute \div (clock_bpm * TICKS_PER_BEAT) \in Int
  BY <1>1, MidiFacts, DivBounds
<1> DEFINE x == Minute \div (clock_bpm * TICKS_PER_BEAT)
<1> HIDE DEF x
<1>3. Midi!Clamp(x, MIN_TICK_PERIOD, MAX_TICK_PERIOD) \in Nat \ {0}
  BY <1>2, MidiFacts DEF Midi!Clamp, x
<1> QED
  BY <1>3 DEF Midi!tick_period_for_bpm, x

LEMMA NextTickKeeps == ASSUME WorkerInv, Midi!NextTick PROVE WorkerInv'
<1>1. /\ PortTypes /\ PortInv /\ TickInv /\ worker = "loop"
      /\ UNCHANGED <<time, clock_bpm, output, port>>
  BY DEF WorkerInv, Midi!NextTick, Midi!WorkerOnly, Midi!clock_vars
<1>2. PICK n \in Nat : n = Len(port)
  BY <1>1 DEF PortTypes
<1>3. /\ time \in Nat /\ deadline \in Nat /\ period \in Nat
      /\ \A i \in 1..n : port[i].at \in Nat /\ port[i].at <= time
  BY <1>1, <1>2, PortTimes DEF PortTypes
<1>4. CASE Midi!Cancelled
  <2>1. worker' = "stop" /\ UNCHANGED <<deadline, period>>
    BY <1>4 DEF Midi!NextTick
  <2>2. PortTypes' /\ TickInv'
    BY <1>1, <2>1 DEF PortTypes, TickInv
  <2>3. PortInv'
    BY <1>1, <2>1 DEF PortInv
  <2> QED
    BY <2>2, <2>3 DEF WorkerInv
<1>5. CASE ~Midi!Cancelled
  <2>1. /\ period' = Midi!tick_period_for_bpm(clock_bpm) /\ worker' = "wait"
        /\ deadline' = IF deadline + period' <= time THEN time ELSE deadline + period'
    BY <1>5 DEF Midi!NextTick
  <2>2. period' \in Nat \ {0}
    BY <1>1, <2>1, PeriodType DEF PortTypes
  <2>3. deadline' \in Nat /\ deadline' >= time /\ deadline' - period' >= deadline
    BY <1>3, <2>1, <2>2
  <2>4. PortTypes'
    BY <1>1, <2>1, <2>2, <2>3 DEF PortTypes
  <2>5. PortInv'
    BY <1>1, <2>1 DEF PortInv
  <2>6. n \in 1..n
    <3>1. output # "none" /\ port # << >>
      BY <1>1 DEF PortInv
    <3> QED
      BY <1>1, <1>2, <3>1 DEF PortTypes
  <2>7. deadline' >= port[n].at
    BY <1>3, <2>3, <2>6
  <2>8. n >= 2 => deadline' - period' >= port[n - 1].at
    <3> SUFFICES ASSUME n >= 2 PROVE deadline' - period' >= port[n - 1].at
      OBVIOUS
    <3>1. n - 1 \in 1..n /\ deadline >= port[n - 1].at
      BY <1>1, <1>2 DEF TickInv
    <3>2. port[n - 1].at \in Nat
      BY <1>3, <3>1
    <3>3. PICK z \in Nat : z = port[n - 1].at
      BY <3>2
    <3>4. deadline >= z
      BY <3>1, <3>3
    <3>5. \A a, p, d \in Nat : a - p >= d /\ d >= z => a - p >= z
      BY <3>3
    <3>6. deadline' - period' >= z
      BY <1>3, <2>2, <2>3, <3>4, <3>5
    <3> QED
      BY <3>3, <3>6
  <2>9. TickInv'
    BY <1>1, <1>2, <2>1, <2>7, <2>8 DEF TickInv
  <2> QED
    BY <2>4, <2>5, <2>9 DEF WorkerInv
<1> QED
  BY <1>4, <1>5

LEMMA WakeKeeps == ASSUME WorkerInv, Midi!Wake PROVE WorkerInv'
<1>1. /\ PortTypes /\ PortInv /\ TickInv /\ worker = "wait"
      /\ UNCHANGED <<time, clock_bpm, output, deadline, period, port>>
      /\ worker' = IF Midi!Cancelled THEN "stop" ELSE "send"
      /\ ~Midi!Cancelled => time >= deadline
  BY DEF WorkerInv, Midi!Wake, Midi!WorkerOnly, Midi!clock_vars
<1>2. worker' \in {"stop", "send"} /\ (worker' = "send" => time >= deadline)
  BY <1>1
<1>3. PortTypes'
  BY <1>1, <1>2 DEF PortTypes
<1>4. PortInv'
  BY <1>1, <1>2 DEF PortInv
<1>5. TickInv'
  BY <1>1, <1>2 DEF TickInv
<1> QED
  BY <1>3, <1>4, <1>5 DEF WorkerInv

LEMMA SendTickKeeps == ASSUME WorkerInv, Midi!SendTick PROVE WorkerInv'
<1>1. /\ PortTypes /\ PortInv /\ TickInv /\ worker = "send" /\ Midi!Send("clock") /\ worker' = "loop"
      /\ UNCHANGED <<time, clock_bpm, output, deadline, period>>
  BY DEF WorkerInv, Midi!SendTick, Midi!WorkerOnly, Midi!clock_vars
<1>2. PICK n \in Nat : n = Len(port)
  BY <1>1 DEF PortTypes
<1>3. /\ Len(port') = n + 1 /\ port' # << >> /\ port'[n + 1].msg = "clock"
      /\ port' \in Seq([msg : {"start", "clock", "stop"}, at : Nat])
      /\ \A i \in 1..n : port'[i] = port[i]
  BY <1>1, <1>2, Sent
<1>4. \A i \in 1..Len(port') : port'[i].at <= time'
  BY <1>1, PortGrows
<1>5. PortTypes'
  BY <1>1, <1>3, <1>4 DEF PortTypes
<1>6. n \in 1..n /\ n >= 1
  <2>1. output # "none" /\ port # << >>
    BY <1>1 DEF PortInv
  <2> QED
    BY <1>1, <1>2, <2>1 DEF PortTypes
<1>7. PortInv'
  <2>1. \A i \in 1..(n + 1) : i = n + 1 \/ i \in 1..n
    OBVIOUS
  <2>2. \A i \in 1..(n + 1) : (port'[i].msg = "start") = (i = 1)
    BY <1>1, <1>2, <1>3, <1>6, <2>1 DEF PortInv
  <2>3. \A i \in 1..(n + 1) : port'[i].msg # "stop"
    BY <1>1, <1>2, <1>3, <2>1 DEF PortInv
  <2>4. output # "none" /\ output # "closed"
    BY <1>1 DEF PortInv
  <2> QED
    BY <1>1, <1>3, <2>2, <2>3, <2>4 DEF PortInv
<1>8. TickInv'
  <2>1. deadline >= port[n].at
    BY <1>1, <1>2 DEF TickInv
  <2>2. port'[(n + 1) - 1] = port[n]
    BY <1>3, <1>6
  <2> QED
    BY <1>1, <1>3, <2>1, <2>2 DEF TickInv
<1> QED
  BY <1>5, <1>7, <1>8 DEF WorkerInv

\* A Stop is put last: after no Stop, or after one.
LEMMA StopKeeps ==
  ASSUME WorkerInv, Midi!Send("stop"), UNCHANGED <<time, clock_bpm, deadline, period>>,
         worker \in {"stop", "done"}, worker' = "done",
         output # "none", output' \in {"open", "joining", "closed"}
  PROVE  WorkerInv'
<1>1. PortTypes /\ PortInv
  BY DEF WorkerInv
<1>2. PICK n \in Nat : n = Len(port)
  BY <1>1 DEF PortTypes
<1>3. /\ Len(port') = n + 1 /\ port' # << >> /\ port'[n + 1].msg = "stop"
      /\ port' \in Seq([msg : {"start", "clock", "stop"}, at : Nat])
      /\ \A i \in 1..n : port'[i] = port[i]
  BY <1>1, <1>2, Sent
<1>4. \A i \in 1..Len(port') : port'[i].at <= time'
  BY <1>1, PortGrows
<1>5. PortTypes'
  BY <1>1, <1>3, <1>4 DEF PortTypes
<1>6. n >= 1
  <2>1. port # << >>
    BY <1>1 DEF PortInv
  <2> QED
    BY <1>1, <1>2, <2>1 DEF PortTypes
<1>7. PortInv'
  <2>1. \A i \in 1..(n + 1) : i = n + 1 \/ i \in 1..n
    OBVIOUS
  <2>2. \A i \in 1..(n + 1) : (port'[i].msg = "start") = (i = 1)
    BY <1>1, <1>2, <1>3, <1>6, <2>1 DEF PortInv
  <2>3. ASSUME NEW i \in 1..(n + 1), NEW j \in 1..(n + 1), i <= j, port'[i].msg = "stop"
        PROVE  port'[j].msg = "stop"
    <3>1. CASE j = n + 1
      BY <1>3, <3>1
    <3>2. CASE j \in 1..n
      <4>1. i \in 1..n
        BY <2>3, <3>2
      <4> QED
        BY <1>1, <1>2, <1>3, <2>3, <3>2, <4>1 DEF PortInv
    <3> QED
      BY <2>1, <3>1, <3>2
  <2> QED
    BY <1>3, <2>2, <2>3 DEF PortInv
<1>8. TickInv'
  BY DEF TickInv
<1> QED
  BY <1>5, <1>7, <1>8 DEF WorkerInv

ClockInv == FollowerInv /\ WorkerInv

LEMMA ClockStepKeeps == ClockInv /\ [Midi!Next]_(Midi!vars) => ClockInv'
<1> SUFFICES ASSUME FollowerInv, WorkerInv, [Midi!Next]_(Midi!vars) PROVE FollowerInv' /\ WorkerInv'
  BY DEF ClockInv
<1>0. /\ time \in Nat /\ clock_source \in {"internal", "midi_in"} /\ clock_bpm \in Nat \ {0}
      /\ input \in {"none", "open", "closed"} /\ byte \in {None, "start", "stop", "clock"}
      /\ output \in {"none", "open", "joining", "closed"} /\ PortInv
  BY DEF FollowerInv, FollowerTypes, WorkerInv, PortTypes
<1>1. ASSUME FollowerInv' PROVE clock_bpm' \in Nat \ {0} /\ time' \in Nat
  BY <1>1 DEF FollowerInv, FollowerTypes
<1>2. ASSUME NEW b \in MasterTempos, Midi!SetMasterBpm(b) PROVE FollowerInv' /\ WorkerInv'
  <2>1. UNCHANGED <<time, output, worker, deadline, period, port>>
    BY <1>2 DEF Midi!SetMasterBpm, Midi!out_vars
  <2> QED
    BY <1>0, <1>1, <1>2, <2>1, SetKeeps, WorkerRests
<1>3. CASE Midi!Pass
  <2>1. /\ time' = time + 1
        /\ UNCHANGED <<clock_bpm, clock_source, input, follower, byte, ticks, set_since,
                       output, worker, deadline, period, port>>
    BY <1>3 DEF Midi!Pass, Midi!clock_vars, Midi!in_vars, Midi!out_vars
  <2> QED
    BY <1>0, <2>1, FollowerRests, WorkerRests
<1>4. ASSUME NEW b \in {"start", "stop", "clock"}, Midi!FlipSource(b) PROVE FollowerInv' /\ WorkerInv'
  <2>1. /\ byte' = b
        /\ clock_source' = CASE b = "start" -> "midi_in" [] b = "stop" -> "internal"
                             [] OTHER -> clock_source
        /\ UNCHANGED <<time, clock_bpm, input, follower, ticks, set_since,
                       output, worker, deadline, period, port>>
    BY <1>4 DEF Midi!FlipSource, Midi!out_vars
  <2>2. clock_source' \in {"internal", "midi_in"}
    BY <1>0, <2>1
  <2> QED
    BY <1>0, <2>1, <2>2, FollowerRests, WorkerRests
<1>5. CASE Midi!Follow
  <2>1. UNCHANGED <<time, output, worker, deadline, period, port>>
    BY <1>5 DEF Midi!Follow, Midi!out_vars
  <2> QED
    BY <1>0, <1>1, <1>5, <2>1, FollowKeeps, WorkerRests
<1>6. CASE Midi!DropInput
  <2>1. /\ input' = "closed"
        /\ UNCHANGED <<time, clock_bpm, clock_source, follower, byte, ticks, set_since,
                       output, worker, deadline, period, port>>
    BY <1>6 DEF Midi!DropInput, Midi!clock_vars, Midi!out_vars
  <2> QED
    BY <1>0, <2>1, FollowerRests, WorkerRests
<1>7. CASE Midi!WorkerStep
  <2>1. UNCHANGED <<time, clock_bpm, clock_source, input, follower, byte, ticks, set_since, output>>
    BY <1>7 DEF Midi!WorkerStep, Midi!SendStart, Midi!NextTick, Midi!Wake, Midi!SendTick,
                Midi!SendStop, Midi!WorkerOnly, Midi!clock_vars, Midi!in_vars
  <2>2. FollowerInv'
    BY <1>0, <2>1, FollowerRests
  <2>3. CASE Midi!SendStop
    <3>1. /\ worker = "stop" /\ worker' = "done" /\ Midi!Send("stop")
          /\ UNCHANGED <<deadline, period>>
      BY <2>3 DEF Midi!SendStop
    <3>2. output # "none" /\ output' \in {"open", "joining", "closed"}
      BY <1>0, <2>1, <3>1 DEF PortInv
    <3> QED
      BY <2>1, <2>2, <3>1, <3>2, StopKeeps
  <2> QED
    BY <1>7, <2>2, <2>3, SendStartKeeps, NextTickKeeps, WakeKeeps, SendTickKeeps DEF Midi!WorkerStep
<1>8. CASE Midi!DropOutput
  <2>1. /\ output = "open" /\ output' = "joining"
        /\ UNCHANGED <<time, clock_bpm, clock_source, input, follower, byte, ticks, set_since,
                       worker, deadline, period, port>>
    BY <1>8 DEF Midi!DropOutput, Midi!clock_vars, Midi!in_vars
  <2>2. FollowerInv'
    BY <1>0, <2>1, FollowerRests
  <2>3. PortTypes' /\ TickInv'
    BY <2>1 DEF WorkerInv, PortTypes, TickInv
  <2>4. PortInv'
    BY <1>0, <2>1 DEF PortInv
  <2> QED
    BY <2>2, <2>3, <2>4 DEF WorkerInv
<1>9. CASE Midi!JoinWorker
  <2>1. /\ output = "joining" /\ worker = "done" /\ Midi!Send("stop") /\ output' = "closed"
        /\ UNCHANGED <<time, clock_bpm, clock_source, input, follower, byte, ticks, set_since,
                       worker, deadline, period>>
    BY <1>9 DEF Midi!JoinWorker, Midi!clock_vars, Midi!in_vars
  <2>2. FollowerInv'
    BY <1>0, <2>1, FollowerRests
  <2>3. WorkerInv'
    BY <2>1, StopKeeps
  <2> QED
    BY <2>2, <2>3
<1>10. CASE UNCHANGED Midi!vars
  <2>1. UNCHANGED <<time, clock_bpm, clock_source, input, follower, byte, ticks, set_since,
                    output, worker, deadline, period, port>>
    BY <1>10 DEF Midi!vars, Midi!clock_vars, Midi!in_vars, Midi!out_vars
  <2> QED
    BY <1>0, <2>1, FollowerRests, WorkerRests
<1> QED
  BY <1>2, <1>3, <1>4, <1>5, <1>6, <1>7, <1>8, <1>9, <1>10 DEF Midi!Next

LEMMA ClockIsRight == ClockInv => ClockHolds
<1> SUFFICES ASSUME FollowerTypes, BeatInv, BpmInv, PortTypes, PortInv PROVE ClockHolds
  BY DEF ClockInv, FollowerInv, WorkerInv
<1>1. Midi!TypeOK
  BY DEF FollowerTypes, PortTypes, Midi!TypeOK
<1>2. Midi!WindowIsLastBeats
  <2>1. CASE follower.beat_anchor = None
    BY <2>1, NothingShown DEF BeatInv, Midi!WindowIsLastBeats
  <2>2. CASE follower.beat_anchor # None
    BY <2>2 DEF BeatInv, Stands, Midi!WindowIsLastBeats
  <2> QED
    BY <2>1, <2>2
<1>3. Midi!ClockWithinDeadband
  BY DEF BpmInv
<1>4. Midi!PortProtocol
  <2>1. PICK n \in Nat : n = Len(port) /\ DOMAIN port = 1..n
    BY DEF PortTypes
  <2>2. ASSUME NEW i \in 1..n
        PROVE  /\ (port[i].msg = "start") = (i = 1)
               /\ port[i].msg = "stop" => \A j \in i..n : port[j].msg = "stop"
    <3>1. \A j \in i..n : j \in 1..n /\ i <= j
      OBVIOUS
    <3> QED
      BY <2>1, <3>1 DEF PortInv
  <2>3. output = "closed" => port # << >> /\ port[Len(port)].msg = "stop" /\ worker = "done"
    BY DEF PortInv
  <2> QED
    BY <2>1, <2>2, <2>3 DEF Midi!PortProtocol
<1> QED
  BY <1>1, <1>2, <1>3, <1>4 DEF ClockHolds

(* For any tempo source and any timing of bytes, settings and drops: what  *)
(* is smoothed are the last plausible beats since Start, the clock stays   *)
(* within the deadband of them unless the control loop set it, the tempo   *)
(* stays above zero, and the output port sees one Start, then ticks, then  *)
(* only Stops (clock_in.rs, clock_out.rs and clock.rs).                    *)
THEOREM ClockCorrect == Midi!Spec => []ClockHolds
<1>1. Midi!Init => ClockInv
  BY FollowerInitHolds, WorkerInitHolds DEF ClockInv
<1> QED
  BY <1>1, ClockStepKeeps, ClockIsRight, PTL DEF Midi!Spec

LEMMA LateTick ==
  ClockInv =>
    (Midi!SendTick /\ Len(port) >= 3 => time - port[Len(port) - 1].at >= period)
<1> SUFFICES ASSUME PortTypes, TickInv, Midi!SendTick, Len(port) >= 3
             PROVE  time - port[Len(port) - 1].at >= period
  BY DEF ClockInv, WorkerInv
<1>1. worker = "send"
  BY DEF Midi!SendTick
<1>2. PICK n \in Nat : n = Len(port) /\ n >= 3
  BY DEF PortTypes
<1>3. n - 1 \in 1..n
  BY <1>2
<1>4. port[n - 1].at \in Nat /\ time \in Nat /\ deadline \in Nat /\ period \in Nat
  BY <1>2, <1>3, PortTimes DEF PortTypes
<1>5. time >= deadline /\ deadline - period >= port[n - 1].at
  BY <1>1, <1>2 DEF TickInv
<1>6. time - port[n - 1].at >= period
  BY <1>4, <1>5
<1> QED
  BY <1>2, <1>6

(* However late the worker wakes and however the tempo jumps: of any three *)
(* ticks in a row the last is a period after the first, so lost ticks are  *)
(* never made up in a burst (clock_out.rs, the worker's deadline).         *)
THEOREM TicksCorrect == Midi!Spec => NoCatchUp
<1>1. Midi!Init => ClockInv
  BY FollowerInitHolds, WorkerInitHolds DEF ClockInv
<1>2. ClockInv /\ [Midi!Next]_(Midi!vars) =>
        [Midi!SendTick /\ Len(port) >= 3 =>
           time - port[Len(port) - 1].at >= period]_(Midi!vars)
  BY LateTick
<1> QED
  BY <1>1, <1>2, ClockStepKeeps, PTL DEF Midi!Spec, NoCatchUp, Midi!NoCatchUp

-----------------------------------------------------------------------------
(* A slot of the effects chain. *)

LEMMA FxFacts ==
  /\ SampleRate \in Nat \ {0} /\ STEREO_PULL_FRAMES \in Nat \ {0}
  /\ MAX_DELAY_FRAMES \in Nat /\ MAX_DELAY_FRAMES >= 2
  /\ CombSizes \in Seq(Nat \ {0})
  /\ Callbacks \subseteq Nat \ {0} /\ FxTempos \subseteq Nat \ {0}
  /\ FxCommands \subseteq Fx!FxCommand
<1>1. MAX_DELAY_FRAMES \in Nat \ {0, 1}
  BY PartsAssumption DEF Fx!EffectsConstants
<1>2. MAX_DELAY_FRAMES \in Nat /\ MAX_DELAY_FRAMES >= 2
  BY <1>1
<1> QED
  BY <1>2, PartsAssumption DEF Fx!EffectsConstants

ParamTable == [1..6 -> Int]

LEMMA SpecFacts ==
  ASSUME NEW id, NEW i \in DOMAIN Fx!descriptors(id)
  PROVE  /\ i \in 1..6
         /\ ParamSpec[Fx!descriptors(id)[i]].min \in Int
         /\ ParamSpec[Fx!descriptors(id)[i]].max \in Int
         /\ ParamSpec[Fx!descriptors(id)[i]].default \in
              ParamSpec[Fx!descriptors(id)[i]].min..ParamSpec[Fx!descriptors(id)[i]].max
<1>1. CASE id \in DOMAIN Descriptors
  <2>1. Fx!descriptors(id) = Descriptors[id] /\ Descriptors[id] \in Seq(ParamNames)
    BY <1>1, ConstantsAssumption DEF Fx!descriptors
  <2> DEFINE spec == ParamSpec[Descriptors[id][i]]
  <2>2. /\ Len(Descriptors[id]) <= 6
        /\ spec \in [min : Int, max : Int, default : Int] /\ spec.default \in spec.min..spec.max
    BY <1>1, <2>1, PartsAssumption DEF Fx!EffectsConstants, Fx!MAX_PARAMS
  <2>3. i \in 1..6
    BY <2>1, <2>2
  <2> HIDE DEF spec
  <2>4. spec.min \in Int /\ spec.max \in Int
    BY <2>2
  <2> QED
    BY <2>1, <2>2, <2>3, <2>4 DEF spec
<1>2. CASE id \notin DOMAIN Descriptors
  BY <1>2 DEF Fx!descriptors
<1> QED
  BY <1>1, <1>2

LEMMA DescriptorsLen ==
  ASSUME NEW id
  PROVE  /\ Len(Fx!descriptors(id)) \in Nat
         /\ DOMAIN Fx!descriptors(id) = 1..Len(Fx!descriptors(id))
<1>1. Fx!descriptors(id) \in Seq(ParamNames)
  BY ConstantsAssumption DEF Fx!descriptors
<1> QED
  BY <1>1

InRange(id, p) ==
  \A i \in DOMAIN Fx!descriptors(id) :
    p[i] \in ParamSpec[Fx!descriptors(id)[i]].min..ParamSpec[Fx!descriptors(id)[i]].max

(* A bank's parameters are numbers, and those of its effect are in range.  *)
BankHolds(b) ==
  /\ b \in [effect_id : Nat, params : ParamTable, wet_dry : Int, enabled : BOOLEAN,
            lfo : Fx!LfoConfig \cup {None}]
  /\ InRange(b.effect_id, b.params)

LEMMA FxClamp ==
  ASSUME NEW x \in Int, NEW lo \in Int, NEW hi \in Int, lo <= hi
  PROVE  Fx!Clamp(x, lo, hi) \in lo..hi
BY DEF Fx!Clamp

LEMMA NoDescriptors == Fx!descriptors(0) = << >>
BY ConstantsAssumption DEF Fx!descriptors

LEMMA DefaultsInRange ==
  ASSUME NEW id
  PROVE  Fx!default_params(id) \in ParamTable /\ InRange(id, Fx!default_params(id))
<1> DEFINE descs == Fx!descriptors(id)
           p == Fx!default_params(id)
<1>1. Len(descs) \in Nat /\ DOMAIN descs = 1..Len(descs)
  BY DescriptorsLen
<1>2. p = [i \in 1..6 |-> IF i <= Len(descs) THEN ParamSpec[descs[i]].default ELSE 0]
  BY DEF Fx!default_params, Fx!MAX_PARAMS
<1>3. \A i \in DOMAIN descs :
        /\ i \in 1..6 /\ i <= Len(descs)
        /\ ParamSpec[descs[i]].default \in ParamSpec[descs[i]].min..ParamSpec[descs[i]].max
        /\ ParamSpec[descs[i]].default \in Int
  <2> SUFFICES ASSUME NEW i \in DOMAIN Fx!descriptors(id)
               PROVE  /\ i \in 1..6 /\ i <= Len(descs)
                      /\ ParamSpec[descs[i]].default \in
                           ParamSpec[descs[i]].min..ParamSpec[descs[i]].max
                      /\ ParamSpec[descs[i]].default \in Int
    OBVIOUS
  <2>1. /\ i \in 1..6 /\ ParamSpec[descs[i]].min \in Int /\ ParamSpec[descs[i]].max \in Int
        /\ ParamSpec[descs[i]].default \in ParamSpec[descs[i]].min..ParamSpec[descs[i]].max
    BY SpecFacts
  <2> QED
    BY <1>1, <2>1
<1> HIDE DEF descs, p
<1>4. ASSUME NEW i \in 1..6 PROVE p[i] \in Int
  <2>1. i <= Len(descs) => i \in DOMAIN descs
    BY <1>1
  <2> QED
    BY <1>2, <1>3, <2>1
<1>5. p \in ParamTable
  BY <1>2, <1>4 DEF ParamTable
<1>6. \A i \in DOMAIN descs : p[i] = ParamSpec[descs[i]].default
  BY <1>2, <1>3
<1>7. InRange(id, p)
  BY <1>3, <1>6 DEF InRange, descs
<1> QED
  BY <1>5, <1>7 DEF p

LEMMA NewBankHolds == BankHolds(Fx!NewBank)
<1>1. [i \in 1..6 |-> 0] \in ParamTable
  BY DEF ParamTable
<1>2. InRange(0, [i \in 1..6 |-> 0])
  BY NoDescriptors DEF InRange
<1> QED
  BY <1>1, <1>2 DEF BankHolds, Fx!NewBank, Fx!MAX_PARAMS

LEMMA BankKeeps ==
  ASSUME NEW b, BankHolds(b), NEW c \in Fx!FxCommand
  PROVE  BankHolds(Fx!BankAfter(b, c))
<1> DEFINE B == [effect_id : Nat, params : ParamTable, wet_dry : Int, enabled : BOOLEAN,
                 lfo : Fx!LfoConfig \cup {None}]
<1>1. b \in B /\ InRange(b.effect_id, b.params)
  BY DEF BankHolds
<1>2. BankHolds(Fx!clear(b))
  <2>1. /\ Fx!clear(b) \in B
        /\ Fx!clear(b).effect_id = 0 /\ Fx!clear(b).params = b.params
    BY <1>1 DEF Fx!clear
  <2>2. InRange(0, b.params)
    BY NoDescriptors DEF InRange
  <2> QED
    BY <2>1, <2>2 DEF BankHolds
<1>3. CASE c.kind = "EffectAssign"
  <2>1. c.effect_id \in Nat
    BY <1>3 DEF Fx!FxCommand
  <2>2. Fx!BankAfter(b, c) = IF c.effect_id = 0 THEN Fx!clear(b) ELSE Fx!assign(c.effect_id)
    BY <1>3 DEF Fx!BankAfter
  <2>3. Fx!assign(c.effect_id) =
          [effect_id |-> c.effect_id, params |-> Fx!default_params(c.effect_id), wet_dry |-> 50,
           enabled |-> TRUE, lfo |-> None]
    <3> DEFINE z == [i \in 1..6 |-> 0]
               d == Fx!default_params(c.effect_id)
    <3>1. Fx!assign(c.effect_id) =
            [[effect_id |-> 0, params |-> z, wet_dry |-> 50, enabled |-> FALSE, lfo |-> None]
               EXCEPT !.effect_id = c.effect_id, !.params = d, !.enabled = TRUE]
      BY DEF Fx!assign, Fx!NewBank, Fx!MAX_PARAMS
    <3> HIDE DEF z, d
    <3>2. Fx!assign(c.effect_id) =
            [effect_id |-> c.effect_id, params |-> d, wet_dry |-> 50, enabled |-> TRUE,
             lfo |-> None]
      BY <3>1
    <3> QED
      BY <3>2 DEF d
  <2>4. BankHolds(Fx!assign(c.effect_id))
    BY <2>1, <2>3, DefaultsInRange DEF BankHolds
  <2> QED
    BY <1>2, <2>2, <2>4
<1>4. CASE c.kind = "EffectClear"
  <2>1. Fx!BankAfter(b, c) = Fx!clear(b)
    BY <1>4 DEF Fx!BankAfter
  <2> QED
    BY <1>2, <2>1
<1>5. CASE c.kind = "EffectParam"
  <2> DEFINE i == c.param_id
             v == c.value
             descs == Fx!descriptors(b.effect_id)
             w == IF i <= Len(descs)
                  THEN Fx!Clamp(v, ParamSpec[descs[i]].min, ParamSpec[descs[i]].max) ELSE v
  <2>1. i \in Nat \ {0} /\ v \in Int
    BY <1>5 DEF Fx!FxCommand
  <2>2. Fx!BankAfter(b, c) = IF i > 6 THEN b ELSE [b EXCEPT !.params = [b.params EXCEPT ![i] = w]]
    BY <1>5 DEF Fx!BankAfter, Fx!set_param, Fx!MAX_PARAMS
  <2>3. Len(descs) \in Nat /\ DOMAIN descs = 1..Len(descs)
    BY DescriptorsLen
  <2>4. i <= Len(descs) => w \in ParamSpec[descs[i]].min..ParamSpec[descs[i]].max /\ w \in Int
    <3> SUFFICES ASSUME i <= Len(descs)
                 PROVE  w \in ParamSpec[descs[i]].min..ParamSpec[descs[i]].max /\ w \in Int
      OBVIOUS
    <3>1. i \in DOMAIN descs
      BY <2>1, <2>3
    <3> DEFINE lo == ParamSpec[descs[i]].min
               hi == ParamSpec[descs[i]].max
    <3>2. lo \in Int /\ hi \in Int /\ ParamSpec[descs[i]].default \in lo..hi
      BY <3>1, SpecFacts
    <3>3. lo <= hi
      BY <3>2
    <3>4. Fx!Clamp(v, lo, hi) \in lo..hi
      BY <2>1, <3>2, <3>3, FxClamp
    <3> QED
      BY <3>2, <3>4
  <2>5. w \in Int
    BY <2>1, <2>4
  <2> HIDE DEF w, descs
  <2> DEFINE q == [b.params EXCEPT ![i] = w]
  <2>6. q \in ParamTable /\ \A j \in 1..6 : q[j] = IF j = i THEN w ELSE b.params[j]
    BY <1>1, <2>5 DEF ParamTable
  <2>7. InRange(b.effect_id, q)
    <3> SUFFICES ASSUME NEW j \in DOMAIN descs
                 PROVE  q[j] \in ParamSpec[descs[j]].min..ParamSpec[descs[j]].max
      BY DEF InRange, descs
    <3>0. j \in DOMAIN Fx!descriptors(b.effect_id)
      BY DEF descs
    <3>1. j \in 1..6 /\ j <= Len(descs)
      BY <2>3, <3>0, SpecFacts
    <3>2. CASE j = i
      BY <2>4, <2>6, <3>1, <3>2
    <3>3. CASE j # i
      BY <1>1, <2>6, <3>1, <3>3 DEF InRange, descs
    <3> QED
      BY <3>2, <3>3
  <2> HIDE DEF q
  <2>8. BankHolds([b EXCEPT !.params = q])
    BY <1>1, <2>6, <2>7 DEF BankHolds
  <2> QED
    BY <2>2, <2>8 DEF q
<1>6. CASE c.kind = "EffectWetDry"
  <2>1. Fx!BankAfter(b, c) = [b EXCEPT !.wet_dry = Fx!clamp_unit(c.value)]
    BY <1>6 DEF Fx!BankAfter
  <2>2. Fx!clamp_unit(c.value) \in Int
    BY <1>6 DEF Fx!FxCommand, Fx!clamp_unit, Fx!Clamp
  <2> QED
    BY <1>1, <2>1, <2>2 DEF BankHolds
<1>7. CASE c.kind = "EffectEnable"
  <2>1. Fx!BankAfter(b, c) = [b EXCEPT !.enabled = c.enabled] /\ c.enabled \in BOOLEAN
    BY <1>7 DEF Fx!BankAfter, Fx!FxCommand
  <2> QED
    BY <1>1, <2>1 DEF BankHolds
<1>8. CASE c.kind = "EffectLfoSet"
  <2>1. Fx!BankAfter(b, c) = [b EXCEPT !.lfo = c.config] /\ c.config \in Fx!LfoConfig
    BY <1>8 DEF Fx!BankAfter, Fx!FxCommand
  <2> QED
    BY <1>1, <2>1 DEF BankHolds
<1>9. CASE c.kind = "EffectLfoClear"
  <2>1. Fx!BankAfter(b, c) = [b EXCEPT !.lfo = None]
    BY <1>9 DEF Fx!BankAfter
  <2> QED
    BY <1>1, <2>1 DEF BankHolds
<1> QED
  BY <1>3, <1>4, <1>5, <1>6, <1>7, <1>8, <1>9 DEF Fx!FxCommand

(* A quotient lies between the factors its dividend lies between.          *)
LEMMA QuotientBetween ==
  ASSUME NEW p \in Nat, NEW q \in Nat \ {0}, NEW a \in Nat, NEW b \in Nat,
         q * a <= p, p < q * b
  PROVE  p \div q \in Nat /\ a <= p \div q /\ p \div q < b
<1>1. PICK x \in Nat : x = p \div q /\ q * x <= p /\ p < q * x + q
  BY DivBounds
<1>2. q * x < q * b /\ q * (x + 1) = q * x + q /\ q * a < q * (x + 1)
  <2>1. q * x \in Nat /\ q * a \in Nat /\ q * b \in Nat /\ q * (x + 1) = q * x + q
    BY <1>1
  <2> QED
    BY <1>1, <2>1
<1>3. x < b
  BY <1>1, <1>2, LessByFactor
<1>4. a < x + 1
  <2>1. x + 1 \in Nat
    BY <1>1
  <2> QED
    BY <1>2, <2>1, LessByFactor
<1> QED
  BY <1>1, <1>3, <1>4

LEMMA PeriodNat ==
  ASSUME NEW rate_div \in Fx!RateDivs, fx_bpm \in Nat \ {0}
  PROVE  Fx!period_frames(rate_div) \in Nat
<1>1. Fx!Sixteenths(rate_div) \in Nat
  BY DEF Fx!RateDivs, Fx!Sixteenths
<1> DEFINE p == 60 * SampleRate * Fx!Sixteenths(rate_div)
           q == 16 * fx_bpm
<1>2. p \in Nat /\ q \in Nat \ {0}
  BY <1>1, FxFacts
<1> HIDE DEF p, q
<1>3. p \div q \in Nat
  BY <1>2, DivBounds
<1> QED
  BY <1>3 DEF Fx!period_frames, p, q

(* An LFO swings by a whole at most, counted in halves.                    *)
LEMMA ValueBound ==
  ASSUME NEW lfo \in Fx!LfoConfig, fx_bpm \in Nat \ {0}, fx_frame \in Nat
  PROVE  Fx!value(lfo) \in -2..2
<1>1. PICK len \in Nat : len = Fx!period_frames(lfo.rate_div)
  BY PeriodNat DEF Fx!LfoConfig
<1> DEFINE phase == fx_frame % len
           wave == CASE lfo.shape = "saw"    -> (4 * phase) \div len - 2
                     [] lfo.shape = "square" -> IF 2 * phase < len THEN 2 ELSE -2
                     [] OTHER -> IF 4 * phase < len THEN (8 * phase) \div len
                                 ELSE IF 4 * phase < 3 * len THEN 4 - (8 * phase) \div len
                                 ELSE (8 * phase) \div len - 8
<1>2. Fx!value(lfo) = IF len = 0 THEN 0 ELSE wave
  BY <1>1, Zenon DEF Fx!value
<1>3. CASE len = 0
  BY <1>2, <1>3
<1>4. CASE len # 0
  <2>1. phase \in Nat /\ phase < len /\ len \in Nat \ {0}
    BY <1>1, <1>4
  <2> HIDE DEF phase
  <2>2. CASE lfo.shape = "saw"
    <3>1. 4 * phase \in Nat /\ len * 0 <= 4 * phase /\ 4 * phase < len * 4
      BY <2>1
    <3>2. (4 * phase) \div len \in Nat /\ (4 * phase) \div len < 4
      BY <2>1, <3>1, QuotientBetween
    <3> QED
      BY <1>2, <1>4, <2>2, <3>2
  <2>3. CASE lfo.shape = "square"
    BY <1>2, <1>4, <2>3
  <2>4. CASE lfo.shape \notin {"saw", "square"}
    <3>1. 8 * phase \in Nat /\ len * 0 = 0 /\ len * 2 = 2 * len /\ len * 6 = 6 * len
          /\ len * 8 = 8 * len
      BY <2>1
    <3>2. wave = IF 4 * phase < len THEN (8 * phase) \div len
                 ELSE IF 4 * phase < 3 * len THEN 4 - (8 * phase) \div len
                 ELSE (8 * phase) \div len - 8
      BY <2>4
    <3> HIDE DEF wave
    <3>3. CASE 4 * phase < len
      <4>1. len * 0 <= 8 * phase /\ 8 * phase < len * 2
        BY <2>1, <3>1, <3>3
      <4>2. (8 * phase) \div len \in Nat /\ (8 * phase) \div len < 2
        BY <2>1, <3>1, <4>1, QuotientBetween
      <4>3. wave = (8 * phase) \div len
        BY <3>2, <3>3
      <4> QED
        BY <1>2, <1>4, <4>2, <4>3
    <3>4. CASE 4 * phase >= len /\ 4 * phase < 3 * len
      <4>1. len * 2 <= 8 * phase /\ 8 * phase < len * 6
        BY <2>1, <3>1, <3>4
      <4>2. /\ (8 * phase) \div len \in Nat /\ 2 <= (8 * phase) \div len
            /\ (8 * phase) \div len < 6
        BY <2>1, <3>1, <4>1, QuotientBetween
      <4>3. wave = 4 - (8 * phase) \div len
        BY <2>1, <3>2, <3>4
      <4> QED
        BY <1>2, <1>4, <4>2, <4>3
    <3>5. CASE 4 * phase >= 3 * len
      <4>1. len * 6 <= 8 * phase /\ 8 * phase < len * 8
        BY <2>1, <3>1, <3>5
      <4>2. /\ (8 * phase) \div len \in Nat /\ 6 <= (8 * phase) \div len
            /\ (8 * phase) \div len < 8
        BY <2>1, <3>1, <4>1, QuotientBetween
      <4>3. wave = (8 * phase) \div len - 8
        BY <2>1, <3>2, <3>5
      <4> QED
        BY <1>2, <1>4, <4>2, <4>3
    <3> QED
      BY <2>1, <3>3, <3>4, <3>5
  <2> QED
    BY <2>2, <2>3, <2>4
<1> QED
  BY <1>3, <1>4

LEMMA OctavesNat == \A h \in -4..4 : Fx!Octaves[h] \in Nat
<1> SUFFICES ASSUME NEW h \in -4..4 PROVE Fx!Octaves[h] \in Nat
  OBVIOUS
<1> DEFINE steps == <<250, 354, 500, 707, 1000, 1414, 2000, 2828, 4000>>
<1>1. \A i \in 1..9 : steps[i] \in Nat
  OBVIOUS
<1>2. Fx!Octaves[h] = steps[h + 5]
  BY DEF Fx!Octaves
<1> HIDE DEF steps
<1>3. h + 5 \in 1..9
  OBVIOUS
<1> QED
  BY <1>1, <1>2, <1>3

(* Whatever the LFO does, the parameters of a block are in range.          *)
LEMMA EffectiveInRange ==
  ASSUME BankHolds(bank), fx_bpm \in Nat \ {0}, fx_frame \in Nat
  PROVE  Fx!Effective \in ParamTable /\ InRange(bank.effect_id, Fx!Effective)
<1>1. /\ bank.params \in ParamTable /\ InRange(bank.effect_id, bank.params)
      /\ bank.lfo \in Fx!LfoConfig \cup {None}
  BY DEF BankHolds
<1>2. CASE bank.lfo = None
  BY <1>1, <1>2 DEF Fx!Effective
<1>3. CASE bank.lfo # None
  <2> DEFINE p == bank.params
             lfo == bank.lfo
             descs == Fx!descriptors(bank.effect_id)
             i == lfo.target_param + 1
             spec == ParamSpec[descs[i]]
             swing == (Fx!value(lfo) * lfo.depth) \div 100
             moved == CASE descs[i] = "cutoff_hz" -> (p[i] * Fx!Octaves[2 * swing]) \div 1000
                        [] descs[i] = "time_ms"   -> (p[i] * Fx!Octaves[swing]) \div 1000
                        [] OTHER -> p[i] + (Fx!value(lfo) * lfo.depth * (spec.max - spec.min)) \div 400
  <2>1. Fx!Effective = IF i > Len(descs) THEN p
                       ELSE [p EXCEPT ![i] = Fx!Clamp(moved, spec.min, spec.max)]
    BY <1>3, Zenon DEF Fx!Effective, Fx!apply_lfo_to_params
  <2>2. lfo \in Fx!LfoConfig /\ i \in Nat \ {0} /\ lfo.depth \in 0..100
    BY <1>1, <1>3 DEF Fx!LfoConfig, Fx!Percent
  <2>3. Len(descs) \in Nat /\ DOMAIN descs = 1..Len(descs)
    BY DescriptorsLen
  <2>4. CASE i > Len(descs)
    BY <1>1, <2>1, <2>4
  <2>5. CASE ~(i > Len(descs))
    <3>1. i \in DOMAIN descs
      BY <2>2, <2>3, <2>5
    <3>2. /\ i \in 1..6 /\ spec.min \in Int /\ spec.max \in Int
          /\ spec.default \in spec.min..spec.max
      BY <3>1, SpecFacts
    <3>3. PICK v \in -2..2 : v = Fx!value(lfo)
      BY <2>2, ValueBound
    <3>4. PICK d \in 0..100 : d = lfo.depth
      BY <2>2
    <3>5. v * d \in -200..200
      <4>1. v = -2 \/ v = -1 \/ v = 0 \/ v = 1 \/ v = 2
        BY <3>3
      <4>2. v * d = -2 * d \/ v * d = -1 * d \/ v * d = 0 * d \/ v * d = 1 * d \/ v * d = 2 * d
        BY <4>1
      <4> QED
        BY <3>4, <4>2
    <3>6. PICK x \in -200..200 : x = v * d
      BY <3>5
    <3>7. x \div 100 \in -2..2
      BY <3>6
    <3>8. swing \in -2..2
      BY <3>3, <3>4, <3>6, <3>7
    <3>9. p[i] \in Int
      BY <1>1, <3>2 DEF ParamTable
    <3>10. (p[i] * Fx!Octaves[2 * swing]) \div 1000 \in Int
      <4>1. Fx!Octaves[2 * swing] \in Int
        BY <3>8, OctavesNat
      <4>2. p[i] * Fx!Octaves[2 * swing] \in Int
        BY <3>9, <4>1
      <4> QED
        BY <4>2
    <3>11. (p[i] * Fx!Octaves[swing]) \div 1000 \in Int
      <4>1. Fx!Octaves[swing] \in Int
        BY <3>8, OctavesNat
      <4>2. p[i] * Fx!Octaves[swing] \in Int
        BY <3>9, <4>1
      <4> QED
        BY <4>2
    <3>12. p[i] + (Fx!value(lfo) * lfo.depth * (spec.max - spec.min)) \div 400 \in Int
      <4> DEFINE r == spec.max - spec.min
      <4>1. r \in Int
        BY <3>2
      <4> HIDE DEF r
      <4>2. x * r \in Int
        BY <3>6, <4>1
      <4>3. PICK y \in Int : y = x * r
        BY <4>2
      <4>4. y \div 400 \in Int
        BY <4>3
      <4>5. Fx!value(lfo) * lfo.depth * (spec.max - spec.min) = y
        BY <3>3, <3>4, <3>6, <4>3, Zenon DEF r
      <4> HIDE DEF p, lfo, spec
      <4> QED
        BY <3>9, <4>4, <4>5
    <3> HIDE DEF swing
    <3>13. moved \in Int
      BY <3>10, <3>11, <3>12, Zenon
    <3> HIDE DEF moved, p, lfo, i, spec
    <3>14. Fx!Clamp(moved, spec.min, spec.max) \in spec.min..spec.max
      <4>1. spec.min <= spec.max
        BY <3>2
      <4> QED
        BY <3>2, <3>13, <4>1, FxClamp
    <3> DEFINE w == Fx!Clamp(moved, spec.min, spec.max)
               q == [p EXCEPT ![i] = w]
    <3>15. w \in Int
      BY <3>2, <3>14
    <3>16. Fx!Effective = q
      BY <2>1, <2>5, Zenon
    <3>17. w \in spec.min..spec.max
      BY <3>14
    <3> HIDE DEF w
    <3>18. q \in ParamTable /\ \A j \in 1..6 : q[j] = IF j = i THEN w ELSE p[j]
      BY <1>1, <3>15 DEF ParamTable, p
    <3> HIDE DEF q
    <3>19. InRange(bank.effect_id, q)
      <4> SUFFICES ASSUME NEW j \in DOMAIN descs
                   PROVE  q[j] \in ParamSpec[descs[j]].min..ParamSpec[descs[j]].max
        BY DEF InRange
      <4>1. j \in 1..6
        BY SpecFacts
      <4>2. CASE j = i
        <5>1. ParamSpec[descs[j]] = spec
          BY <4>2 DEF spec
        <5> QED
          BY <3>17, <3>18, <4>1, <4>2, <5>1
      <4>3. CASE j # i
        BY <1>1, <3>18, <4>1, <4>3 DEF InRange, p
      <4> QED
        BY <4>2, <4>3
    <3> QED
      BY <3>16, <3>18, <3>19
  <2> QED
    BY <2>4, <2>5
<1> QED
  BY <1>2, <1>3

(* The first k frames of w. *)
Upto(w, k) == {w[i] : i \in 1..k}

Rising(w) == \A i, j \in 1..Len(w) : i < j => w[i] < w[j]

NewestIs(S, x) == x \in S /\ \A o \in S : o <= x

(* The cell d behind the write head. *)
Tap(head, d) == IF head >= d THEN head - d ELSE head + MAX_DELAY_FRAMES - d

FilterMemory == [z : SUBSET Nat, coefs : Seq(Int), last : Seq(Int)]

EchoMemory ==
  [line : [0..(MAX_DELAY_FRAMES - 1) -> SUBSET Nat], write_head : 0..(MAX_DELAY_FRAMES - 1),
   z : SUBSET Nat]

LineMemory(size) == [buf : [0..(size - 1) -> SUBSET Nat], idx : 0..(size - 1), z : SUBSET Nat]

(* What the memories hold once they were fed the first k frames of w.      *)
FilterHolds(m, w, k) ==
  m \in FilterMemory /\ m.z \subseteq Upto(w, k) /\ (m.last # << >> => m.coefs = m.last)

\* A cell of the echo's line holds the frame fed as long ago as it is behind, and older ones.
CellHolds(cell, w, k, d) ==
  IF d <= k THEN cell \subseteq Upto(w, k) /\ NewestIs(cell, w[k - d + 1]) ELSE cell = {}

EchoHolds(m, w, k) ==
  /\ m \in EchoMemory /\ m.z \subseteq Upto(w, k)
  /\ \A d \in 1..(MAX_DELAY_FRAMES - 1) : CellHolds(m.line[Tap(m.write_head, d)], w, k, d)

LineHolds(l, size, w, k) ==
  /\ l \in LineMemory(size) /\ l.z \subseteq Upto(w, k)
  /\ \A i \in 0..(size - 1) : l.buf[i] \subseteq Upto(w, k)

ReverbHolds(m, w, k) ==
  /\ m = [c \in DOMAIN CombSizes |-> m[c]]
  /\ \A c \in DOMAIN CombSizes : LineHolds(m[c], CombSizes[c], w, k)

LEMMA UptoStep ==
  ASSUME NEW w \in Seq(Nat), NEW k \in Nat, k < Len(w), Rising(w)
  PROVE  /\ Upto(w, k) \subseteq Upto(w, k + 1) /\ w[k + 1] \in Upto(w, k + 1)
         /\ Upto(w, k + 1) \subseteq Nat /\ w[k + 1] \in Nat
         /\ \A x \in Upto(w, k) : x < w[k + 1]
<1>1. /\ k + 1 \in 1..(k + 1) /\ k + 1 \in 1..Len(w)
      /\ \A i \in 1..k : i \in 1..(k + 1) /\ i < k + 1
      /\ \A i \in 1..(k + 1) : i \in 1..Len(w) /\ w[i] \in Nat
  OBVIOUS
<1> QED
  BY <1>1 DEF Upto, Rising

LEMMA RingMod ==
  ASSUME NEW x \in Nat, NEW n \in Nat \ {0}, x < 2 * n
  PROVE  x % n = IF x < n THEN x ELSE x - n
<1>1. x = n * (x \div n) + (x % n) /\ x % n \in 0..(n - 1)
  OBVIOUS
<1>2. PICK q \in Nat : q = x \div n /\ n * q <= x /\ x < n * q + n
  BY DivBounds
<1>3. PICK y \in 0..(n - 1) : y = x % n /\ x = n * q + y
  BY <1>1, <1>2
<1>4. n * 0 = 0 /\ n * 1 = n /\ n * 2 = 2 * n
  OBVIOUS
<1>5. CASE x < n
  <2>1. n * 0 <= x /\ x < n * 1
    BY <1>4, <1>5
  <2>2. q < 1
    BY <1>2, <2>1, QuotientBetween
  <2>3. q = 0
    BY <1>2, <2>2
  <2> QED
    BY <1>3, <1>4, <1>5, <2>3
<1>6. CASE ~(x < n)
  <2>1. n * 1 <= x /\ x < n * 2
    BY <1>4, <1>6
  <2>2. 1 <= q /\ q < 2
    BY <1>2, <2>1, QuotientBetween
  <2>3. q = 1
    BY <1>2, <2>2
  <2>4. x = n + y
    BY <1>3, <1>4, <2>3
  <2> QED
    BY <1>3, <1>6, <2>4
<1> QED
  BY <1>5, <1>6

LEMMA DelayRange ==
  ASSUME NEW p \in ParamTable
  PROVE  Fx!delay_frames(p) \in 1..(MAX_DELAY_FRAMES - 1)
<1>1. p[1] * SampleRate \in Int
  <2>1. p[1] \in Int /\ SampleRate \in Int
    BY FxFacts DEF ParamTable
  <2> QED
    BY <2>1
<1>2. PICK x \in Int : x = p[1] * SampleRate
  BY <1>1
<1>3. x \div 1000 \in Int
  BY <1>2
<1>4. Fx!delay_frames(p) = Fx!Clamp(x \div 1000, 1, MAX_DELAY_FRAMES - 1)
  BY <1>2 DEF Fx!delay_frames
<1> QED
  BY <1>3, <1>4, FxFacts DEF Fx!Clamp

LEMMA TapOfRing ==
  ASSUME NEW head \in 0..(MAX_DELAY_FRAMES - 1), NEW d \in 1..(MAX_DELAY_FRAMES - 1)
  PROVE  /\ (head + MAX_DELAY_FRAMES - d) % MAX_DELAY_FRAMES = Tap(head, d)
         /\ Tap(head, d) \in 0..(MAX_DELAY_FRAMES - 1) /\ Tap(head, d) # head
<1>1. PICK n \in Nat : n = MAX_DELAY_FRAMES /\ n >= 2
  BY FxFacts
<1> DEFINE x == head + n - d
<1>2. x \in Nat /\ x < 2 * n /\ n # 0
  BY <1>1
<1>3. x % n = IF x < n THEN x ELSE x - n
  BY <1>2, RingMod
<1> QED
  BY <1>1, <1>2, <1>3 DEF Tap

LEMMA FilterKeeps ==
  ASSUME NEW w \in Seq(Nat), Rising(w), NEW k \in Nat, k < Len(w),
         NEW r, FilterHolds(r.m, w, k)
  PROVE  /\ FilterHolds(Fx!FilterFrame(r, w[k + 1]).m, w, k + 1)
         /\ Fx!FilterFrame(r, w[k + 1]).m.coefs = r.m.coefs
         /\ Fx!FilterFrame(r, w[k + 1]).old = Append(r.old, r.m.z)
         /\ r.m.z \in SUBSET Nat /\ r.m.z \subseteq Upto(w, k + 1)
<1> DEFINE n == w[k + 1]
           m == r.m
           q == [m EXCEPT !.z = @ \cup {n}]
<1>1. /\ Upto(w, k) \subseteq Upto(w, k + 1) /\ n \in Upto(w, k + 1) /\ n \in Nat
  BY UptoStep
<1>2. Fx!FilterFrame(r, n) = [m |-> q, old |-> Append(r.old, m.z)]
  BY DEF Fx!FilterFrame
<1>3. m \in FilterMemory /\ m.z \subseteq Upto(w, k) /\ (m.last # << >> => m.coefs = m.last)
  BY DEF FilterHolds
<1> HIDE DEF m, n
<1>4. q \in FilterMemory /\ q.z = m.z \cup {n} /\ q.coefs = m.coefs /\ q.last = m.last
  BY <1>1, <1>3 DEF FilterMemory
<1>5. m.z \in SUBSET Nat
  BY <1>3 DEF FilterMemory
<1> HIDE DEF q
<1>6. FilterHolds(q, w, k + 1)
  BY <1>1, <1>3, <1>4 DEF FilterHolds
<1> QED
  BY <1>1, <1>2, <1>3, <1>4, <1>5, <1>6 DEF m, n

LEMMA EchoKeeps ==
  ASSUME NEW w \in Seq(Nat), Rising(w), NEW k \in Nat, k < Len(w),
         NEW p \in ParamTable, NEW r, EchoHolds(r.m, w, k)
  PROVE  LET e == Fx!EchoFrame(r, w[k + 1], p)
             tap == r.m.line[Tap(r.m.write_head, Fx!delay_frames(p))]
         IN /\ EchoHolds(e.m, w, k + 1)
            /\ e.old = Append(r.old, tap)
            /\ tap \in SUBSET Nat /\ CellHolds(tap, w, k, Fx!delay_frames(p))
<1> DEFINE n == w[k + 1]
           m == r.m
           d == Fx!delay_frames(p)
           tap == m.line[Tap(m.write_head, d)]
           z == tap \cup (IF p[3] = 100 THEN {} ELSE m.z)
           cell == {n} \cup (IF p[2] > 0 THEN z ELSE {})
           head == (m.write_head + 1) % MAX_DELAY_FRAMES
           q == [line |-> [m.line EXCEPT ![m.write_head] = cell], write_head |-> head, z |-> z]
           top == MAX_DELAY_FRAMES - 1
<1>1. /\ Upto(w, k) \subseteq Upto(w, k + 1) /\ n \in Upto(w, k + 1) /\ n \in Nat
      /\ Upto(w, k + 1) \subseteq Nat /\ \A x \in Upto(w, k) : x < n
  BY UptoStep
<1>2. m \in EchoMemory /\ m.z \subseteq Upto(w, k)
      /\ \A b \in 1..top : CellHolds(m.line[Tap(m.write_head, b)], w, k, b)
  BY DEF EchoHolds
<1>3. /\ m.line \in [0..top -> SUBSET Nat] /\ m.write_head \in 0..top /\ m.z \in SUBSET Nat
  BY <1>2 DEF EchoMemory
<1>4. d \in 1..top
  BY DelayRange
<1>5. /\ Fx!read_idx(m.write_head, p) = Tap(m.write_head, d)
      /\ \A b \in 1..top : Tap(m.write_head, b) \in 0..top /\ Tap(m.write_head, b) # m.write_head
  <2>1. \A b \in 1..top :
          /\ (m.write_head + MAX_DELAY_FRAMES - b) % MAX_DELAY_FRAMES = Tap(m.write_head, b)
          /\ Tap(m.write_head, b) \in 0..top /\ Tap(m.write_head, b) # m.write_head
    BY <1>3, TapOfRing
  <2> QED
    BY <1>4, <2>1 DEF Fx!read_idx
<1>6. Fx!EchoFrame(r, n, p) = [m |-> q, old |-> Append(r.old, tap)]
  BY <1>5, Zenon DEF Fx!EchoFrame, Fx!Silent
<1>7. tap \in SUBSET Nat /\ CellHolds(tap, w, k, d)
  BY <1>2, <1>3, <1>4, <1>5
<1> HIDE DEF n, m, d, top
<1>8. tap \subseteq Upto(w, k)
  BY <1>7 DEF CellHolds
<1> HIDE DEF tap
<1>9. z \subseteq Upto(w, k) /\ z \in SUBSET Nat
  BY <1>1, <1>2, <1>3, <1>8
<1> HIDE DEF z
<1>10. cell \subseteq Upto(w, k + 1) /\ cell \in SUBSET Nat /\ NewestIs(cell, n)
  <2>1. n \in cell /\ \A x \in cell : x = n \/ x \in Upto(w, k)
    BY <1>9
  <2> HIDE DEF cell
  <2>2. \A x \in cell : x \in Upto(w, k + 1) /\ x \in Nat
    BY <1>1, <2>1
  <2>3. \A x \in cell : x <= n
    <3> SUFFICES ASSUME NEW x \in cell PROVE x <= n
      OBVIOUS
    <3>1. CASE x = n
      BY <1>1, <3>1
    <3>2. CASE x \in Upto(w, k)
      <4>1. x < n /\ x \in Nat
        BY <1>1, <3>2
      <4> QED
        BY <1>1, <4>1
    <3> QED
      BY <2>1, <3>1, <3>2
  <2> QED
    BY <2>1, <2>2, <2>3 DEF NewestIs
<1> HIDE DEF cell
<1>11. PICK N \in Nat : N = MAX_DELAY_FRAMES /\ N >= 2 /\ top = N - 1
  BY FxFacts DEF top
<1>12. PICK h \in 0..(N - 1) : h = m.write_head
  BY <1>3, <1>11
<1>13. head = IF h + 1 = N THEN 0 ELSE h + 1
  <2>1. h + 1 \in Nat /\ h + 1 < 2 * N /\ N \in Nat \ {0}
    BY <1>11
  <2>2. (h + 1) % N = IF h + 1 < N THEN h + 1 ELSE h + 1 - N
    <3>1. PICK x \in Nat : x = h + 1
      BY <2>1
    <3>2. x % N = IF x < N THEN x ELSE x - N
      BY <2>1, <3>1, RingMod
    <3> QED
      BY <3>1, <3>2
  <2> QED
    BY <1>11, <1>12, <2>1, <2>2
<1> HIDE DEF head
<1>14. head \in 0..top
  BY <1>11, <1>12, <1>13
<1> DEFINE line == [m.line EXCEPT ![m.write_head] = cell]
<1>15. /\ line \in [0..top -> SUBSET Nat] /\ line[h] = cell
       /\ \A i \in 0..top : i # h => line[i] = m.line[i]
  BY <1>3, <1>10, <1>12
<1> HIDE DEF line
<1>16. q = [line |-> line, write_head |-> head, z |-> z]
  BY DEF line
<1> HIDE DEF q
<1>17. q \in EchoMemory
  BY <1>9, <1>14, <1>15, <1>16 DEF EchoMemory, top
<1>18. ASSUME NEW b \in 1..top PROVE CellHolds(line[Tap(head, b)], w, k + 1, b)
  <2>1. CASE b = 1
    <3>1. Tap(head, b) = h
      BY <1>11, <1>13, <2>1 DEF Tap
    <3>2. (k + 1) - b + 1 = k + 1 /\ b <= k + 1
      BY <2>1
    <3> QED
      BY <1>10, <1>15, <3>1, <3>2 DEF CellHolds, n
  <2>2. CASE b # 1
    <3> DEFINE a == b - 1
    <3>1. a \in 1..top /\ b = a + 1 /\ a \in Nat
      BY <1>11, <2>2
    <3>2. Tap(head, b) = Tap(h, a)
      BY <1>11, <1>13, <2>2 DEF Tap
    <3> HIDE DEF a
    <3>3. Tap(h, a) \in 0..top /\ Tap(h, a) # h
      BY <1>5, <1>12, <3>1
    <3>4. line[Tap(head, b)] = m.line[Tap(h, a)]
      BY <1>15, <3>2, <3>3
    <3>5. CellHolds(m.line[Tap(h, a)], w, k, a)
      BY <1>2, <1>12, <3>1
    <3>6. (k + 1) - b + 1 = k - a + 1 /\ (b <= k + 1 <=> a <= k)
      BY <3>1
    <3> QED
      BY <1>1, <3>4, <3>5, <3>6 DEF CellHolds
  <2> QED
    BY <2>1, <2>2
<1>19. q.line = line /\ q.write_head = head /\ q.z = z
  BY <1>16
<1>20. EchoHolds(q, w, k + 1)
  <2>1. q.z \subseteq Upto(w, k + 1)
    BY <1>1, <1>9, <1>19
  <2>2. \A b \in 1..(MAX_DELAY_FRAMES - 1) : CellHolds(q.line[Tap(q.write_head, b)], w, k + 1, b)
    BY <1>18, <1>19 DEF top
  <2> QED
    BY <1>17, <2>1, <2>2 DEF EchoHolds
<1> QED
  BY <1>6, <1>7, <1>20 DEF n, m, d, tap

LEMMA FxCardinality ==
  ASSUME NEW S
  PROVE  Fx!Cardinality(S) = Cardinality(S)
BY Zenon DEF Fx!Cardinality, Cardinality

LEMMA LineKeeps ==
  ASSUME NEW w \in Seq(Nat), Rising(w), NEW k \in Nat, k < Len(w),
         NEW size \in Nat \ {0}, NEW l, LineHolds(l, size, w, k)
  PROVE  /\ LineHolds(Fx!LineFrame(l, w[k + 1]), size, w, k + 1)
         /\ l.buf[l.idx] \subseteq Upto(w, k) /\ l.buf[l.idx] \subseteq Nat
<1> DEFINE n == w[k + 1]
           out == l.buf[l.idx]
           z == out \cup l.z
           buf == [l.buf EXCEPT ![l.idx] = {n} \cup z]
           idx == (l.idx + 1) % size
<1>1. /\ Upto(w, k) \subseteq Upto(w, k + 1) /\ n \in Upto(w, k + 1) /\ n \in Nat
      /\ Upto(w, k + 1) \subseteq Nat
  BY UptoStep
<1>2. /\ l.buf \in [0..(size - 1) -> SUBSET Nat] /\ l.idx \in 0..(size - 1) /\ l.z \in SUBSET Nat
      /\ l.z \subseteq Upto(w, k) /\ \A i \in 0..(size - 1) : l.buf[i] \subseteq Upto(w, k)
  BY DEF LineHolds, LineMemory
<1>3. Fx!Cardinality(DOMAIN l.buf) = size
  <2>1. DOMAIN l.buf = 0..(size - 1)
    BY <1>2
  <2>2. Cardinality(0..(size - 1)) = size
    BY FS_Interval
  <2>3. Fx!Cardinality(DOMAIN l.buf) = Cardinality(DOMAIN l.buf)
    BY FxCardinality
  <2> QED
    BY <2>1, <2>2, <2>3
<1>4. Fx!LineFrame(l, n) = [buf |-> buf, idx |-> idx, z |-> z]
  <2>1. Fx!LineFrame(l, n) =
          [buf |-> buf, idx |-> (l.idx + 1) % Fx!Cardinality(DOMAIN l.buf), z |-> z]
    BY Zenon DEF Fx!LineFrame
  <2> QED
    BY <1>3, <2>1, Zenon
<1>5. out \subseteq Upto(w, k) /\ out \subseteq Nat
  BY <1>2
<1>6. z \subseteq Upto(w, k) /\ z \in SUBSET Nat
  BY <1>2, <1>5
<1> HIDE DEF z, n
<1>7. {n} \cup z \subseteq Upto(w, k + 1) /\ {n} \cup z \in SUBSET Nat
  BY <1>1, <1>6
<1>8. /\ buf \in [0..(size - 1) -> SUBSET Nat]
      /\ \A i \in 0..(size - 1) : buf[i] \subseteq Upto(w, k + 1)
  BY <1>1, <1>2, <1>7
<1>9. idx \in 0..(size - 1)
  <2>1. PICK x \in Nat : x = l.idx + 1
    BY <1>2
  <2>2. x % size \in 0..(size - 1)
    BY <2>1
  <2> QED
    BY <2>1, <2>2
<1> HIDE DEF buf, idx
<1> DEFINE q == [buf |-> buf, idx |-> idx, z |-> z]
<1>10. q \in LineMemory(size) /\ q.buf = buf /\ q.z = z
  BY <1>6, <1>8, <1>9 DEF LineMemory
<1> HIDE DEF q
<1>11. LineHolds(q, size, w, k + 1)
  BY <1>1, <1>6, <1>8, <1>10 DEF LineHolds
<1> QED
  BY <1>4, <1>5, <1>11 DEF n, q

(* What the cells under the read heads hold. *)
ReverbOut(m) == UNION {m[c].buf[m[c].idx] : c \in DOMAIN m}

LEMMA ReverbKeeps ==
  ASSUME NEW w \in Seq(Nat), Rising(w), NEW k \in Nat, k < Len(w),
         NEW r, ReverbHolds(r.m, w, k)
  PROVE  /\ ReverbHolds(Fx!ReverbFrame(r, w[k + 1]).m, w, k + 1)
         /\ Fx!ReverbFrame(r, w[k + 1]).old = Append(r.old, ReverbOut(r.m))
         /\ ReverbOut(r.m) \subseteq Upto(w, k) /\ ReverbOut(r.m) \in SUBSET Nat
<1> DEFINE n == w[k + 1]
           m == r.m
           q == [c \in DOMAIN m |-> Fx!LineFrame(m[c], n)]
           out == UNION {m[c].buf[m[c].idx] : c \in DOMAIN m}
<1>1. Fx!ReverbFrame(r, n) = [m |-> q, old |-> Append(r.old, out)]
  BY Zenon DEF Fx!ReverbFrame
<1>2. DOMAIN m = DOMAIN CombSizes
  BY DEF ReverbHolds
<1>3. ASSUME NEW c \in DOMAIN CombSizes
      PROVE  /\ LineHolds(Fx!LineFrame(m[c], n), CombSizes[c], w, k + 1)
             /\ m[c].buf[m[c].idx] \subseteq Upto(w, k) /\ m[c].buf[m[c].idx] \subseteq Nat
  <2>1. CombSizes[c] \in Nat \ {0} /\ LineHolds(m[c], CombSizes[c], w, k)
    BY FxFacts DEF ReverbHolds
  <2> QED
    BY <2>1, LineKeeps
<1>4. out \subseteq Upto(w, k) /\ out \in SUBSET Nat
  BY <1>2, <1>3
<1> HIDE DEF n, m
<1>5. q = [c \in DOMAIN CombSizes |-> q[c]]
  BY <1>2
<1>6. \A c \in DOMAIN CombSizes : LineHolds(q[c], CombSizes[c], w, k + 1)
  BY <1>2, <1>3
<1> HIDE DEF q, out
<1>7. ReverbHolds(q, w, k + 1)
  BY <1>5, <1>6 DEF ReverbHolds
<1> QED
  BY <1>1, <1>4, <1>7 DEF n, m, out, ReverbOut

(* A block in the effect, k frames in: s frames of w were fed before it.   *)
FxRun(r, w, s, k) ==
  /\ r.old \in Seq(SUBSET Nat)
  /\ \A i \in 1..Len(r.old) : r.old[i] \subseteq Upto(w, s + k)
  /\ bank.effect_id = 1 =>
       FilterHolds(r.m, w, s + k) /\ r.m.coefs = SubSeq(Fx!Effective, 1, 3)
  /\ bank.effect_id = 2 =>
       /\ EchoHolds(r.m, w, s + k) /\ Len(r.old) = k
       /\ \A i \in 1..k : CellHolds(r.old[i], w, s + i - 1, Fx!delay_frames(Fx!Effective))
  /\ bank.effect_id = 3 => ReverbHolds(r.m, w, s + k)

Within(old, U) == old \in Seq(SUBSET Nat) /\ \A i \in 1..Len(old) : old[i] \subseteq U

(* What a frame finds mixed in joins what the frames before it did.        *)
Grows(old, U, x, V) ==
  /\ Within(old, U)
  /\ x \in SUBSET Nat /\ x \subseteq V /\ U \subseteq V

LEMMA OneMore ==
  ASSUME NEW old, NEW U, NEW x, NEW V, Grows(old, U, x, V)
  PROVE  /\ Within(Append(old, x), V)
         /\ Len(Append(old, x)) = Len(old) + 1
         /\ \A i \in 1..Len(old) : Append(old, x)[i] = old[i]
         /\ Append(old, x)[Len(old) + 1] = x
<1> DEFINE b == Append(old, x)
<1>0. /\ old \in Seq(SUBSET Nat) /\ \A i \in 1..Len(old) : old[i] \subseteq U
      /\ x \in SUBSET Nat /\ x \subseteq V /\ U \subseteq V
  BY DEF Grows, Within
<1>1. /\ b \in Seq(SUBSET Nat) /\ Len(b) = Len(old) + 1 /\ Len(old) \in Nat
      /\ b[Len(old) + 1] = x
  BY <1>0
<1>2. \A i \in 1..Len(old) : b[i] = old[i]
  BY <1>0
<1> HIDE DEF b
<1>3. ASSUME NEW i \in 1..Len(b) PROVE b[i] \subseteq V
  <2>1. i \in 1..Len(old) \/ i = Len(old) + 1
    BY <1>1
  <2> QED
    BY <1>0, <1>1, <1>2, <2>1
<1> QED
  BY <1>1, <1>2, <1>3 DEF b, Within

(* Every frame keeps the run's promises.                                   *)
LEMMA FrameKeeps ==
  ASSUME NEW w \in Seq(Nat), Rising(w), NEW s \in Nat, NEW k \in Nat, s + k < Len(w),
         Fx!Effective \in ParamTable, NEW r, FxRun(r, w, s, k)
  PROVE  FxRun(Fx!FxFrame(r, w[s + k + 1]), w, s, k + 1)
<1> DEFINE n == w[s + k + 1]
           e == Fx!FxFrame(r, n)
<1>0. PICK t \in Nat : t = s + k /\ t + 1 = s + (k + 1) /\ t < Len(w)
  OBVIOUS
<1>1. Upto(w, t) \subseteq Upto(w, t + 1)
  BY <1>0, UptoStep
<1>2. /\ r.old \in Seq(SUBSET Nat) /\ \A i \in 1..Len(r.old) : r.old[i] \subseteq Upto(w, t)
  BY <1>0 DEF FxRun
<1>3. n = w[t + 1]
  BY <1>0
<1>4. CASE bank.effect_id = 1
  <2>1. e = Fx!FilterFrame(r, n)
    BY <1>4 DEF Fx!FxFrame
  <2>2. FilterHolds(r.m, w, t) /\ r.m.coefs = SubSeq(Fx!Effective, 1, 3)
    BY <1>0, <1>4 DEF FxRun
  <2>3. /\ FilterHolds(Fx!FilterFrame(r, w[t + 1]).m, w, t + 1)
        /\ Fx!FilterFrame(r, w[t + 1]).m.coefs = r.m.coefs
        /\ Fx!FilterFrame(r, w[t + 1]).old = Append(r.old, r.m.z)
        /\ r.m.z \in SUBSET Nat /\ r.m.z \subseteq Upto(w, t + 1)
    BY <1>0, <2>2, FilterKeeps
  <2> HIDE DEF e, n
  <2>4. /\ FilterHolds(e.m, w, t + 1) /\ e.m.coefs = r.m.coefs /\ e.old = Append(r.old, r.m.z)
    BY <1>3, <2>1, <2>3
  <2>5. /\ e.old \in Seq(SUBSET Nat)
        /\ \A i \in 1..Len(e.old) : e.old[i] \subseteq Upto(w, t + 1)
    <3>0. Grows(r.old, Upto(w, t), r.m.z, Upto(w, t + 1))
      BY <1>1, <1>2, <2>3, <2>4 DEF Grows, Within
    <3>1. Within(Append(r.old, r.m.z), Upto(w, t + 1))
      BY <3>0, OneMore
    <3>2. e.old = Append(r.old, r.m.z)
      BY <2>4
    <3> QED
      BY <3>1, <3>2 DEF Within
  <2>6. FxRun(e, w, s, k + 1)
    BY <1>0, <1>4, <2>2, <2>4, <2>5 DEF FxRun
  <2> QED
    BY <2>6 DEF e, n
<1>5. CASE bank.effect_id = 2
  <2> DEFINE p == Fx!Effective
             d == Fx!delay_frames(p)
             tap == r.m.line[Tap(r.m.write_head, d)]
  <2>1. e = Fx!EchoFrame(r, n, p)
    BY <1>5 DEF Fx!FxFrame
  <2>2. /\ EchoHolds(r.m, w, t) /\ Len(r.old) = k
        /\ \A i \in 1..k : CellHolds(r.old[i], w, s + i - 1, d)
    BY <1>0, <1>5 DEF FxRun
  <2>3. /\ EchoHolds(Fx!EchoFrame(r, w[t + 1], p).m, w, t + 1)
        /\ Fx!EchoFrame(r, w[t + 1], p).old = Append(r.old, tap)
        /\ tap \in SUBSET Nat /\ CellHolds(tap, w, t, d)
    BY <1>0, <2>2, EchoKeeps
  <2>4. tap \subseteq Upto(w, t + 1)
    BY <1>1, <2>3 DEF CellHolds
  <2> HIDE DEF e, n, p, d, tap
  <2>5. EchoHolds(e.m, w, t + 1) /\ e.old = Append(r.old, tap)
    BY <1>3, <2>1, <2>3
  <2>6. /\ e.old \in Seq(SUBSET Nat) /\ Len(e.old) = k + 1
        /\ \A i \in 1..Len(e.old) : e.old[i] \subseteq Upto(w, t + 1)
        /\ \A i \in 1..k : e.old[i] = r.old[i]
        /\ e.old[k + 1] = tap
    <3> DEFINE b == Append(r.old, tap)
    <3>1. Grows(r.old, Upto(w, t), tap, Upto(w, t + 1))
      BY <1>1, <1>2, <2>3, <2>4 DEF Grows, Within
    <3>2. /\ Within(b, Upto(w, t + 1)) /\ Len(b) = Len(r.old) + 1
          /\ \A i \in 1..Len(r.old) : b[i] = r.old[i]
          /\ b[Len(r.old) + 1] = tap
      BY <3>1, OneMore
    <3>3. e.old = b /\ Len(r.old) = k
      BY <2>2, <2>5
    <3> HIDE DEF b
    <3> QED
      BY <3>2, <3>3 DEF Within
  <2>7. ASSUME NEW i \in 1..(k + 1) PROVE CellHolds(e.old[i], w, s + i - 1, d)
    <3>1. CASE i = k + 1
      <4>1. s + i - 1 = t
        BY <1>0, <3>1
      <4> QED
        BY <2>3, <2>6, <3>1, <4>1
    <3>2. CASE i # k + 1
      <4>1. i \in 1..k
        BY <3>2
      <4> QED
        BY <2>2, <2>6, <4>1
    <3> QED
      BY <3>1, <3>2
  <2>8. FxRun(e, w, s, k + 1)
    <3>1. EchoHolds(e.m, w, s + (k + 1))
      BY <1>0, <2>5
    <3>2. \A i \in 1..Len(e.old) : e.old[i] \subseteq Upto(w, s + (k + 1))
      BY <1>0, <2>6
    <3>3. \A i \in 1..(k + 1) : CellHolds(e.old[i], w, s + i - 1, Fx!delay_frames(Fx!Effective))
      BY <2>7, Zenon DEF d, p
    <3>4. bank.effect_id # 1 /\ bank.effect_id # 3
      BY <1>5
    <3> QED
      BY <2>6, <3>1, <3>2, <3>3, <3>4, Zenon DEF FxRun
  <2> QED
    BY <2>8 DEF e, n
<1>6. CASE bank.effect_id = 3
  <2> DEFINE out == ReverbOut(r.m)
  <2>1. e = Fx!ReverbFrame(r, n)
    BY <1>6 DEF Fx!FxFrame
  <2>2. ReverbHolds(r.m, w, t)
    BY <1>0, <1>6 DEF FxRun
  <2>3. /\ ReverbHolds(Fx!ReverbFrame(r, w[t + 1]).m, w, t + 1)
        /\ Fx!ReverbFrame(r, w[t + 1]).old = Append(r.old, out)
        /\ out \subseteq Upto(w, t) /\ out \in SUBSET Nat
    BY <1>0, <2>2, ReverbKeeps
  <2> HIDE DEF e, n, out
  <2>4. ReverbHolds(e.m, w, t + 1) /\ e.old = Append(r.old, out) /\ out \subseteq Upto(w, t + 1)
    BY <1>1, <1>3, <2>1, <2>3
  <2>5. /\ e.old \in Seq(SUBSET Nat)
        /\ \A i \in 1..Len(e.old) : e.old[i] \subseteq Upto(w, t + 1)
    <3>0. Grows(r.old, Upto(w, t), out, Upto(w, t + 1))
      BY <1>1, <1>2, <2>3, <2>4 DEF Grows, Within
    <3>1. Within(Append(r.old, out), Upto(w, t + 1))
      BY <3>0, OneMore
    <3>2. e.old = Append(r.old, out)
      BY <2>4
    <3> QED
      BY <3>1, <3>2 DEF Within
  <2>6. FxRun(e, w, s, k + 1)
    BY <1>0, <1>6, <2>4, <2>5 DEF FxRun
  <2> QED
    BY <2>6 DEF e, n
<1>7. CASE bank.effect_id \notin {1, 2, 3}
  <2>1. e = r
    BY <1>7 DEF Fx!FxFrame
  <2> HIDE DEF e, n
  <2>2. \A i \in 1..Len(e.old) : e.old[i] \subseteq Upto(w, t + 1)
    BY <1>1, <1>2, <2>1
  <2>3. FxRun(e, w, s, k + 1)
    BY <1>0, <1>2, <1>7, <2>1, <2>2 DEF FxRun
  <2> QED
    BY <2>3 DEF e, n
<1> QED
  BY <1>4, <1>5, <1>6, <1>7

(* A block is fed by a fold; the fold, by its defining equation.           *)
IsFeeding(f, start, body, n) ==
  f = [t \in SUBSET (1..n) |->
         IF t = {} THEN start ELSE Fx!FxFrame(f[t \ {Fx!Max(t)}], body[Fx!Max(t)])]

LEMMA FeedingExists ==
  ASSUME NEW start, NEW body, NEW n \in Nat
  PROVE  \E f : IsFeeding(f, start, body, n)
<1> DEFINE Has(k) == \E f : IsFeeding(f, start, body, k)
           Bad == {k \in Nat : ~Has(k)}
           Step(f, t) == IF t = {} THEN start
                         ELSE Fx!FxFrame(f[t \ {Fx!Max(t)}], body[Fx!Max(t)])
<1>1. Has(0)
  <2> DEFINE g == [t \in SUBSET (1..0) |-> start]
  <2>1. g = [t \in SUBSET (1..0) |-> Step(g, t)]
    OBVIOUS
  <2>2. IsFeeding(g, start, body, 0)
    BY <2>1 DEF IsFeeding
  <2> HIDE DEF g
  <2> QED BY <2>2
<1>2. ASSUME NEW k \in Nat, Has(k) PROVE Has(k+1)
  <2>1. PICK f : IsFeeding(f, start, body, k)
    BY <1>2
  <2> DEFINE g == [t \in SUBSET (1..(k+1)) |->
                     IF t \in SUBSET (1..k) THEN f[t]
                     ELSE Fx!FxFrame(f[t \ {k+1}], body[k+1])]
  <2>2. ASSUME NEW t \in SUBSET (1..(k+1))
        PROVE  g[t] = Step(g, t)
    <3>1. CASE t \in SUBSET (1..k)
      <4>1. g[t] = f[t] BY <3>1
      <4>2. \A x : t \ {x} \in SUBSET (1..k) /\ t \ {x} \in SUBSET (1..(k+1)) BY <3>1
      <4>3. \A x : g[t \ {x}] = f[t \ {x}] BY <4>2
      <4>4. f[t] = Step(f, t)
        BY <2>1, <3>1 DEF IsFeeding
      <4> HIDE DEF g
      <4> QED BY <4>1, <4>3, <4>4
    <3>2. CASE t \notin SUBSET (1..k)
      <4>1. k+1 \in t BY <3>2
      <4>2. Fx!Max(t) = k+1
        <5>1. k+1 \in Nat /\ \A y \in t : y \in Nat /\ k+1 >= y OBVIOUS
        <5>2. \A x \in t : (\A y \in t : x >= y) => x = k+1
          <6> TAKE x \in t
          <6> HAVE \A y \in t : x >= y
          <6> QED BY <4>1, <5>1
        <5> QED BY <4>1, <5>1, <5>2 DEF Fx!Max
      <4>3. t \ {k+1} \in SUBSET (1..k) /\ t \ {k+1} \in SUBSET (1..(k+1)) OBVIOUS
      <4>4. g[t \ {k+1}] = f[t \ {k+1}] BY <4>3
      <4>5. g[t] = Fx!FxFrame(f[t \ {k+1}], body[k+1]) BY <3>2
      <4> HIDE DEF g
      <4> QED BY <4>1, <4>2, <4>4, <4>5
    <3> QED BY <3>1, <3>2
  <2>3. g = [t \in SUBSET (1..(k+1)) |-> g[t]] OBVIOUS
  <2> HIDE DEF g
  <2>4. g = [t \in SUBSET (1..(k+1)) |-> Step(g, t)]
    BY <2>2, <2>3
  <2>5. IsFeeding(g, start, body, k+1) BY <2>4 DEF IsFeeding
  <2> QED BY <2>5
<1> HIDE DEF Has
<1>3. Bad = {}
  <2> SUFFICES ASSUME Bad # {} PROVE FALSE OBVIOUS
  <2>1. PICK j \in Bad : \A i \in Bad : j <= i BY LeastNat
  <2>2. j # 0 BY <1>1
  <2>3. j - 1 \in Nat /\ j - 1 \notin Bad BY <2>1, <2>2
  <2>4. Has(j - 1) BY <2>3
  <2>5. Has((j - 1) + 1) BY <2>3, <2>4, <1>2
  <2>6. (j - 1) + 1 = j OBVIOUS
  <2> QED BY <2>5, <2>6
<1> QED BY <1>3 DEF Has

(* The frames of w after the first s are those of a block.                 *)
Follows(w, s, body) ==
  Len(w) = s + Len(body) /\ \A j \in 1..Len(body) : w[s + j] = body[j]

(* A whole block keeps them too.                                           *)
LEMMA AllFed ==
  ASSUME NEW w \in Seq(Nat), Rising(w), NEW s \in Nat, NEW body \in Seq(Nat),
         Follows(w, s, body),
         Fx!Effective \in ParamTable, NEW start, FxRun(start, w, s, 0)
  PROVE  FxRun(Fx!FoldLeft(Fx!FxFrame, start, body), w, s, Len(body))
<1> DEFINE n == Len(body)
           f == CHOOSE g : IsFeeding(g, start, body, n)
<1>1. n \in Nat /\ DOMAIN body = 1..n
  OBVIOUS
<1>2. IsFeeding(f, start, body, n)
  BY <1>1, FeedingExists
<1>3. Fx!FoldLeft(Fx!FxFrame, start, body) = f[1..n]
  BY <1>1, <1>2 DEF Fx!FoldLeft, Fx!MapThenFoldSet, IsFeeding
<1> HIDE DEF f, n
<1>4. FxRun(f[1..0], w, s, 0)
  <2>1. 1..0 = {} /\ 1..0 \in SUBSET (1..n)
    BY <1>1
  <2>2. f[1..0] = start
    BY <1>2, <2>1 DEF IsFeeding
  <2> QED
    BY <2>2
<1>5. ASSUME NEW k \in 0..(n - 1), FxRun(f[1..k], w, s, k)
      PROVE  FxRun(f[1..(k + 1)], w, s, k + 1)
  <2> DEFINE t == 1..(k + 1)
  <2>1. t \in SUBSET (1..n) /\ t # {} /\ t \ {k + 1} = 1..k
    <3>1. k \in Nat /\ k + 1 <= n
      BY <1>1
    <3>2. \A x \in t : x \in 1..n
      BY <1>1, <3>1
    <3>3. k + 1 \in t
      BY <3>1
    <3>4. \A x : x \in t \ {k + 1} <=> x \in 1..k
      BY <3>1
    <3> HIDE DEF t
    <3> QED
      BY <3>2, <3>3, <3>4
  <2>2. Fx!Max(t) = k + 1
    <3>1. \A x \in t : (\A y \in t : x >= y) => x = k+1
      BY <1>1
    <3>2. k+1 \in t /\ \A y \in t : k+1 >= y
      BY <1>1
    <3> HIDE DEF t
    <3> QED
      BY <3>1, <3>2 DEF Fx!Max
  <2> HIDE DEF t
  <2>3. f[t] = Fx!FxFrame(f[1..k], body[k + 1])
    BY <1>2, <2>1, <2>2 DEF IsFeeding
  <2>4. /\ k \in Nat /\ s + k < Len(w) /\ k + 1 \in 1..Len(body) /\ s + (k + 1) = s + k + 1
    <3>1. Len(w) = s + Len(body)
      BY Zenon DEF Follows
    <3>2. n = Len(body) /\ k \in Nat /\ k + 1 <= n
      BY <1>1 DEF n
    <3> QED
      BY <1>1, <3>1, <3>2
  <2>5. body[k + 1] = w[s + k + 1]
    <3>1. \A j \in 1..Len(body) : w[s + j] = body[j]
      BY Zenon DEF Follows
    <3>2. w[s + (k + 1)] = body[k + 1]
      BY <2>4, <3>1, Zenon
    <3> QED
      BY <2>4, <3>2, Zenon
  <2>6. FxRun(Fx!FxFrame(f[1..k], w[s + k + 1]), w, s, k + 1)
    BY <1>5, <2>4, FrameKeeps
  <2> QED
    BY <2>3, <2>5, <2>6 DEF t
<1> DEFINE Bad == {k \in 0..n : ~FxRun(f[1..k], w, s, k)}
<1>6. Bad = {}
  <2> SUFFICES ASSUME Bad # {} PROVE FALSE
    OBVIOUS
  <2>0. Bad \subseteq Nat
    BY <1>1
  <2>1. PICK j \in Bad : \A i \in Bad : j <= i
    <3> HIDE DEF Bad
    <3> QED
      BY <2>0, LeastNat
  <2>2. j # 0
    BY <1>4
  <2>3. j - 1 \in 0..(n - 1) /\ j - 1 \notin Bad /\ (j - 1) + 1 = j
    BY <1>1, <2>1, <2>2
  <2>4. FxRun(f[1..(j - 1)], w, s, j - 1)
    BY <1>1, <2>3
  <2> QED
    BY <1>5, <2>3, <2>4
<1>7. FxRun(f[1..n], w, s, n)
  BY <1>1, <1>6
<1> QED
  BY <1>3, <1>7 DEF n

-----------------------------------------------------------------------------
(* From a block to the next. *)

\* What the effect in use remembers of the frames it was fed.
MemoryHolds(id, f, e, r, w) ==
  /\ id = 1 => FilterHolds(f, w, Len(w))
  /\ id = 2 => EchoHolds(e, w, Len(w))
  /\ id = 3 => ReverbHolds(r, w, Len(w))

\* The newest frame of a cell is the one fed so long ago, if there is one.
Repeats(cell, w, before, delay) ==
  {n \in cell : \A o \in cell : o <= n} = IF before >= delay THEN {w[before - delay + 1]} ELSE {}

\* What the last block did is true of what was fed.
HeardIsTrue(h, w, f) ==
  /\ \A i \in DOMAIN h.old : h.old[i] \subseteq Upto(w, Len(w))
  /\ h.id = 2 =>
       \A i \in DOMAIN h.old :
         Repeats(h.old[i], w, Len(w) - Len(h.old) + i - 1, Fx!delay_frames(h.params))
  /\ \A i \in DOMAIN h.now : h.now[i] = w[Len(w) - Len(h.now) + i]
  /\ h.id = 1 => f.coefs = SubSeq(h.params, 1, 3)
  /\ InRange(h.id, h.params)

FxTypes ==
  /\ BankHolds(bank) /\ fx_frame \in Nat /\ fx_bpm \in FxTempos
  /\ fx_callback \in [left : Nat, done : Nat] /\ local_frame \in Nat
  /\ fed \in Seq(Nat) /\ filter \in FilterMemory

\* Frames are fed in the order they are played in, and the gate is never ahead.
FedInOrder ==
  /\ Rising(fed) /\ \A i \in 1..Len(fed) : fed[i] < fx_frame + fx_callback.done
  /\ local_frame <= fx_frame + fx_callback.done
  /\ fx_callback.done > 0 /\ ~Fx!Bypassed /\ bank.effect_id = 4 =>
       local_frame = fx_frame + fx_callback.done

FxInv ==
  /\ FxTypes /\ FedInOrder
  /\ MemoryHolds(bank.effect_id, filter, echo, reverb, fed)
  /\ HeardIsTrue(heard, fed, filter)

LEMMA NothingIsTrue ==
  ASSUME NEW w, NEW f
  PROVE  HeardIsTrue(Fx!NothingHeard, w, f)
BY NoDescriptors DEF HeardIsTrue, Fx!NothingHeard, InRange

LEMMA HeardProperties ==
  ASSUME FxInv
  PROVE  /\ Fx!NothingBleeds /\ Fx!EchoIsADelay /\ Fx!GateKeepsTime
         /\ Fx!FilterIsTuned /\ Fx!ParamsInRange
<1>1. HeardIsTrue(heard, fed, filter) /\ fed \in Seq(Nat)
  BY DEF FxInv, FxTypes
<1>2. Fx!ToSet(fed) = Upto(fed, Len(fed))
  BY <1>1 DEF Fx!ToSet, Upto
<1>3. Fx!NothingBleeds
  BY <1>1, <1>2 DEF HeardIsTrue, Fx!NothingBleeds
<1>4. Fx!EchoIsADelay
  <2> SUFFICES ASSUME heard.id = 2, NEW i \in DOMAIN heard.old
               PROVE  LET before == Len(fed) - Len(heard.old) + i - 1
                          delay  == Fx!delay_frames(heard.params)
                          newest == {n \in heard.old[i] : \A o \in heard.old[i] : o <= n}
                      IN newest = IF before >= delay THEN {fed[before - delay + 1]} ELSE {}
    BY DEF Fx!EchoIsADelay, Fx!Silent
  <2>1. Repeats(heard.old[i], fed, Len(fed) - Len(heard.old) + i - 1,
                Fx!delay_frames(heard.params))
    BY <1>1 DEF HeardIsTrue
  <2> QED
    BY <2>1, Zenon DEF Repeats
<1>5. Fx!GateKeepsTime
  BY <1>1 DEF HeardIsTrue, Fx!GateKeepsTime
<1>6. Fx!FilterIsTuned
  BY <1>1 DEF HeardIsTrue, Fx!FilterIsTuned
<1>7. Fx!ParamsInRange
  BY <1>1 DEF HeardIsTrue, Fx!ParamsInRange, InRange
<1> QED
  BY <1>3, <1>4, <1>5, <1>6, <1>7

(* What holds of the first k frames holds however w goes on.               *)
LEMMA Goes ==
  ASSUME NEW v, NEW w, NEW k \in Nat, \A i \in 1..k : w[i] = v[i]
  PROVE  /\ \A m : FilterHolds(m, v, k) => FilterHolds(m, w, k)
         /\ \A m : EchoHolds(m, v, k) => EchoHolds(m, w, k)
         /\ \A m : ReverbHolds(m, v, k) => ReverbHolds(m, w, k)
<1>1. Upto(w, k) = Upto(v, k)
  BY DEF Upto
<1>2. ASSUME NEW cell, NEW d \in 1..(MAX_DELAY_FRAMES - 1), CellHolds(cell, v, k, d)
      PROVE  CellHolds(cell, w, k, d)
  <2>1. CASE d <= k
    <3>1. k - d + 1 \in 1..k
      BY <2>1, FxFacts
    <3> QED
      BY <1>1, <1>2, <2>1, <3>1 DEF CellHolds
  <2>2. CASE ~(d <= k)
    BY <1>2, <2>2 DEF CellHolds
  <2> QED
    BY <2>1, <2>2
<1>3. ASSUME NEW m, FilterHolds(m, v, k) PROVE FilterHolds(m, w, k)
  BY <1>1, <1>3 DEF FilterHolds
<1>4. ASSUME NEW m, EchoHolds(m, v, k) PROVE EchoHolds(m, w, k)
  BY <1>1, <1>2, <1>4 DEF EchoHolds
<1>5. ASSUME NEW m, ReverbHolds(m, v, k) PROVE ReverbHolds(m, w, k)
  BY <1>1, <1>5 DEF ReverbHolds, LineHolds
<1> QED
  BY <1>3, <1>4, <1>5

LEMMA Tuned ==
  ASSUME NEW p \in ParamTable, NEW w, NEW k, FilterHolds(filter, w, k)
  PROVE  FilterHolds(Fx!refresh_coefs(p), w, k) /\ Fx!refresh_coefs(p).coefs = SubSeq(p, 1, 3)
<1> DEFINE key == SubSeq(p, 1, 3)
           m == [filter EXCEPT !.coefs = key, !.last = key]
<1>1. p \in Seq(Int) /\ Len(p) = 6
  <2>1. p = [i \in 1..6 |-> p[i]] /\ \A i \in 1..6 : p[i] \in Int
    BY DEF ParamTable
  <2>2. [i \in 1..6 |-> p[i]] \in Seq(Int)
    BY <2>1, IsASeq
  <2>3. p \in Seq(Int) /\ DOMAIN p = 1..6
    BY <2>1, <2>2
  <2> QED
    BY <2>3
<1>2. key \in Seq(Int) /\ Len(key) = 3
  <2>1. \A i \in 1..3 : p[i] \in Int
    BY DEF ParamTable
  <2>2. key \in Seq(Int)
    BY <2>1, SubSeqProperties
  <2>3. Len(key) = IF 1 <= 3 THEN 3 - 1 + 1 ELSE 0
    BY <2>1, SubSeqProperties
  <2> QED
    BY <2>2, <2>3
<1>3. Fx!refresh_coefs(p) = IF filter.last = key THEN filter ELSE m
  BY DEF Fx!refresh_coefs
<1>4. /\ filter \in FilterMemory /\ filter.z \subseteq Upto(w, k)
      /\ (filter.last # << >> => filter.coefs = filter.last)
  BY DEF FilterHolds
<1>5. key # << >>
  <2> HIDE DEF key
  <2> QED BY <1>2
<1> HIDE DEF key
<1>6. m \in FilterMemory /\ m.z = filter.z /\ m.coefs = key /\ m.last = key
  BY <1>2, <1>4 DEF FilterMemory
<1> HIDE DEF m
<1>7. FilterHolds(m, w, k)
  BY <1>4, <1>6 DEF FilterHolds
<1> QED
  BY <1>3, <1>4, <1>5, <1>6, <1>7 DEF key

LEMMA CellRepeats ==
  ASSUME NEW w \in Seq(Nat), NEW k \in Nat, k <= Len(w), NEW d \in Nat \ {0},
         NEW cell, CellHolds(cell, w, k, d)
  PROVE  Repeats(cell, w, k, d)
<1>1. CASE d <= k
  <2>1. cell \subseteq Upto(w, k) /\ NewestIs(cell, w[k - d + 1])
    BY <1>1 DEF CellHolds
  <2>2. \A i \in 1..k : w[i] \in Nat
    OBVIOUS
  <2>3. cell \subseteq Nat
    BY <2>1, <2>2 DEF Upto
  <2>4. PICK x \in Nat : x = w[k - d + 1] /\ x \in cell /\ \A o \in cell : o <= x
    BY <2>1, <2>3 DEF NewestIs
  <2>5. ASSUME NEW n \in cell, \A o \in cell : o <= n PROVE n = x
    BY <2>3, <2>4, <2>5
  <2>6. {n \in cell : \A o \in cell : o <= n} = {x}
    BY <2>4, <2>5
  <2> QED
    BY <1>1, <2>4, <2>6 DEF Repeats
<1>2. CASE ~(d <= k)
  <2>1. cell = {}
    BY <1>2 DEF CellHolds
  <2> QED
    BY <1>2, <2>1 DEF Repeats
<1> QED
  BY <1>1, <1>2

(* The frames of a block go on where the frames before them ended.         *)
LEMMA FedGoesOn ==
  ASSUME FxTypes, FedInOrder, NEW n \in Nat \ {0}
  PROVE  LET start == fx_frame + fx_callback.done
             body == [i \in 1..n |-> start + i - 1]
             w == fed \o body
         IN /\ body \in Seq(Nat) /\ Len(body) = n /\ \A i \in 1..n : body[i] = start + i - 1
            /\ w \in Seq(Nat) /\ Len(w) = Len(fed) + n /\ Follows(w, Len(fed), body)
            /\ \A i \in 1..Len(fed) : w[i] = fed[i]
            /\ Rising(w) /\ \A i \in 1..Len(w) : w[i] < start + n
<1>1. PICK start \in Nat : start = fx_frame + fx_callback.done
  <2>1. fx_frame \in Nat /\ fx_callback.done \in Nat
    BY DEF FxTypes
  <2> QED
    BY <2>1
<1>2. fed \in Seq(Nat) /\ Rising(fed) /\ \A i \in 1..Len(fed) : fed[i] < start
  BY <1>1 DEF FxTypes, FedInOrder
<1> DEFINE body == [i \in 1..n |-> start + i - 1]
           w == fed \o body
<1>3. body \in Seq(Nat) /\ Len(body) = n /\ \A i \in 1..n : body[i] = start + i - 1
  OBVIOUS
<1> HIDE DEF body
<1>4. PICK s \in Nat : s = Len(fed)
  BY <1>2
<1>5. /\ w \in Seq(Nat) /\ Len(w) = s + n
      /\ \A i \in 1..s : w[i] = fed[i]
      /\ \A i \in 1..n : w[s + i] = body[i]
  <2>0. w \in Seq(Nat) /\ Len(w) = Len(fed) + Len(body)
    BY <1>2, <1>3, ConcatProperties
  <2>1. w \in Seq(Nat) /\ Len(w) = s + n
    BY <1>3, <1>4, <2>0, Zenon
  <2>2. \A i \in 1..(s + n) : w[i] = IF i <= s THEN fed[i] ELSE body[i - s]
    BY <1>2, <1>3, <1>4, ConcatProperties
  <2>3. \A i \in 1..s : i \in 1..(s + n) /\ i <= s
    OBVIOUS
  <2>4. \A i \in 1..n : s + i \in 1..(s + n) /\ ~(s + i <= s) /\ (s + i) - s = i
    OBVIOUS
  <2> HIDE DEF w
  <2> QED
    BY <2>1, <2>2, <2>3, <2>4
<1> HIDE DEF w
<1>6. \A i \in 1..s : w[i] \in Nat /\ w[i] < start
  BY <1>2, <1>4, <1>5
<1>7. \A i \in (s + 1)..(s + n) : w[i] = start + (i - s) - 1
  <2> TAKE i \in (s + 1)..(s + n)
  <2>1. PICK j \in 1..n : i = s + j /\ j = i - s
    <3>1. i - s \in 1..n /\ i = s + (i - s)
      OBVIOUS
    <3> QED BY <3>1
  <2> QED
    BY <1>3, <1>5, <2>1
<1>8. \A i \in 1..(s + n) : i \in 1..s \/ i \in (s + 1)..(s + n)
  OBVIOUS
<1>9. Rising(w)
  <2> SUFFICES ASSUME NEW i \in 1..(s + n), NEW j \in 1..(s + n), i < j PROVE w[i] < w[j]
    BY <1>5 DEF Rising
  <2>1. CASE j \in 1..s
    <3>1. i \in 1..s
      BY <2>1
    <3> QED
      BY <1>2, <1>4, <1>5, <2>1, <3>1 DEF Rising
  <2>2. CASE i \in 1..s /\ j \in (s + 1)..(s + n)
    <3>1. w[i] \in Nat /\ w[i] < start /\ w[j] = start + (j - s) - 1
      BY <1>6, <1>7, <2>2
    <3> QED
      BY <2>2, <3>1
  <2>3. CASE i \in (s + 1)..(s + n) /\ j \in (s + 1)..(s + n)
    <3>1. w[i] = start + (i - s) - 1 /\ w[j] = start + (j - s) - 1
      BY <1>7, <2>3
    <3> QED
      BY <3>1
  <2> QED
    BY <1>8, <2>1, <2>2, <2>3
<1>10. ASSUME NEW i \in 1..(s + n) PROVE w[i] < start + n
  <2>1. CASE i \in 1..s
    BY <1>6, <2>1
  <2>2. CASE i \in (s + 1)..(s + n)
    <3>1. w[i] = start + (i - s) - 1
      BY <1>7, <2>2
    <3> QED
      BY <2>2, <3>1
  <2> QED
    BY <1>8, <2>1, <2>2
<1>11. Follows(w, s, body)
  BY <1>3, <1>5 DEF Follows
<1> QED
  BY <1>1, <1>3, <1>4, <1>5, <1>9, <1>10, <1>11 DEF w, body

(* Before its first frame a block is as long as nothing.                   *)
LEMMA RunStarts ==
  ASSUME FxInv, Fx!Effective \in ParamTable,
         NEW w, \A i \in 1..Len(fed) : w[i] = fed[i],
         NEW start,
         start = [m |-> CASE bank.effect_id = 1 -> Fx!refresh_coefs(Fx!Effective)
                          [] bank.effect_id = 2 -> echo [] bank.effect_id = 3 -> reverb
                          [] OTHER -> None,
                  old |-> << >>]
  PROVE  FxRun(start, w, Len(fed), 0)
<1>1. fed \in Seq(Nat) /\ MemoryHolds(bank.effect_id, filter, echo, reverb, fed)
  BY DEF FxInv, FxTypes
<1>2. PICK s \in Nat : s = Len(fed) /\ s + 0 = s
  BY <1>1
<1>3. /\ \A m : FilterHolds(m, fed, s) => FilterHolds(m, w, s)
      /\ \A m : EchoHolds(m, fed, s) => EchoHolds(m, w, s)
      /\ \A m : ReverbHolds(m, fed, s) => ReverbHolds(m, w, s)
  <2>1. \A i \in 1..s : w[i] = fed[i]
    BY <1>2
  <2> QED
    BY <2>1, Goes
<1>4. start.old = << >>
  OBVIOUS
<1>5. start.old \in Seq(SUBSET Nat) /\ Len(start.old) = 0
  BY <1>4
<1>6. CASE bank.effect_id = 1
  <2>1. start.m = Fx!refresh_coefs(Fx!Effective)
    BY <1>6
  <2>2. FilterHolds(filter, w, s)
    BY <1>1, <1>2, <1>3, <1>6 DEF MemoryHolds
  <2>3. FilterHolds(start.m, w, s) /\ start.m.coefs = SubSeq(Fx!Effective, 1, 3)
    BY <2>1, <2>2, Tuned
  <2>4. FxRun(start, w, s, 0)
    BY <1>2, <1>5, <1>6, <2>3 DEF FxRun
  <2> QED
    BY <1>2, <2>4
<1>7. CASE bank.effect_id = 2
  <2>1. start.m = echo
    BY <1>7
  <2>2. EchoHolds(start.m, w, s)
    BY <1>1, <1>2, <1>3, <1>7, <2>1 DEF MemoryHolds
  <2>3. FxRun(start, w, s, 0)
    BY <1>2, <1>5, <1>7, <2>2 DEF FxRun
  <2> QED
    BY <1>2, <2>3
<1>8. CASE bank.effect_id = 3
  <2>1. start.m = reverb
    BY <1>8
  <2>2. ReverbHolds(start.m, w, s)
    BY <1>1, <1>2, <1>3, <1>8, <2>1 DEF MemoryHolds
  <2>3. FxRun(start, w, s, 0)
    BY <1>2, <1>5, <1>8, <2>2 DEF FxRun
  <2> QED
    BY <1>2, <2>3
<1>9. CASE bank.effect_id \notin {1, 2, 3}
  BY <1>2, <1>5, <1>9 DEF FxRun
<1> QED
  BY <1>6, <1>7, <1>8, <1>9

(* What a block leaves behind, from its run.                               *)
LEMMA BlockIsTrue ==
  ASSUME NEW w \in Seq(Nat), Rising(w), NEW s \in Nat, NEW n \in Nat \ {0}, Len(w) = s + n,
         Fx!Effective \in ParamTable, InRange(bank.effect_id, Fx!Effective),
         NEW out, FxRun(out, w, s, n), NEW now, NEW open,
         now = << >> \/ (now \in [1..n -> Nat] /\ \A i \in 1..n : now[i] = w[s + i]),
         NEW f, bank.effect_id = 1 => f = out.m
  PROVE  HeardIsTrue([id |-> bank.effect_id, params |-> Fx!Effective, old |-> out.old,
                      now |-> now, open |-> open], w, f)
<1> DEFINE h == [id |-> bank.effect_id, params |-> Fx!Effective, old |-> out.old,
                 now |-> now, open |-> open]
<1>1. /\ h.id = bank.effect_id /\ h.params = Fx!Effective /\ h.old = out.old /\ h.now = now
  OBVIOUS
<1> HIDE DEF h
<1>2. out.old \in Seq(SUBSET Nat) /\ DOMAIN out.old = 1..Len(out.old)
  BY DEF FxRun
<1>3. \A i \in DOMAIN h.old : h.old[i] \subseteq Upto(w, Len(w))
  BY <1>1, <1>2 DEF FxRun
<1>4. ASSUME h.id = 2, NEW i \in DOMAIN h.old
      PROVE  Repeats(h.old[i], w, Len(w) - Len(h.old) + i - 1, Fx!delay_frames(h.params))
  <2>1. PICK d \in 1..(MAX_DELAY_FRAMES - 1) : d = Fx!delay_frames(Fx!Effective)
    BY DelayRange
  <2>2. /\ Len(out.old) = n
        /\ \A k \in 1..n : CellHolds(out.old[k], w, s + k - 1, d)
    BY <1>1, <1>4, <2>1 DEF FxRun
  <2>3. i \in 1..n
    BY <1>1, <1>2, <2>2
  <2>4. PICK k \in Nat : k = s + i - 1 /\ k <= Len(w)
    <3>1. s + i - 1 \in Nat /\ s + i - 1 <= Len(w)
      BY <2>3
    <3> QED BY <3>1
  <2>5. CellHolds(out.old[i], w, k, d)
    BY <2>2, <2>3, <2>4
  <2>6. d \in Nat \ {0}
    BY <2>1, FxFacts
  <2>7. Repeats(out.old[i], w, k, d)
    BY <2>4, <2>5, <2>6, CellRepeats
  <2>8. Len(w) - Len(h.old) + i - 1 = k
    BY <1>1, <2>2, <2>3, <2>4
  <2>9. h.old[i] = out.old[i] /\ Fx!delay_frames(h.params) = d
    BY <1>1, <2>1
  <2> QED
    BY <2>7, <2>8, <2>9, Zenon
<1>5. \A i \in DOMAIN h.now : h.now[i] = w[Len(w) - Len(h.now) + i]
  <2>1. CASE now = << >>
    BY <1>1, <2>1
  <2>2. CASE now \in [1..n -> Nat] /\ \A i \in 1..n : now[i] = w[s + i]
    <3>1. DOMAIN now = 1..n /\ Len(now) = n
      BY <2>2
    <3> SUFFICES ASSUME NEW i \in 1..n PROVE now[i] = w[Len(w) - Len(now) + i]
      BY <1>1, <3>1
    <3>2. Len(w) - Len(now) + i = s + i
      BY <3>1
    <3> QED
      BY <2>2, <3>2
  <2> QED
    BY <2>1, <2>2
<1>6. h.id = 1 => f.coefs = SubSeq(h.params, 1, 3)
  BY <1>1 DEF FxRun
<1>7. InRange(h.id, h.params)
  BY <1>1
<1>8. HeardIsTrue(h, w, f)
  BY <1>3, <1>4, <1>5, <1>6, <1>7 DEF HeardIsTrue
<1> QED
  BY <1>8 DEF h

LEMMA GateTime ==
  ASSUME FxTypes, FedInOrder, ~Fx!Bypassed, bank.effect_id = 4
  PROVE  Fx!base_frame = fx_frame + fx_callback.done
<1>1. PICK a \in Nat, b \in Nat, l \in Nat :
        a = fx_frame /\ b = fx_callback.done /\ l = local_frame
  BY DEF FxTypes
<1>2. l <= a + b /\ (b > 0 => l = a + b)
  BY <1>1 DEF FedInOrder
<1> QED
  BY <1>1, <1>2 DEF Fx!base_frame

LEMMA ProcessKeeps ==
  ASSUME FxInv, ~Fx!Bypassed, NEW n \in Nat \ {0},
         Fx!Process([i \in 1..n |-> fx_frame + fx_callback.done + i - 1]),
         fx_callback' \in [left : Nat, done : Nat], fx_callback'.done = fx_callback.done + n,
         UNCHANGED <<bank, fx_frame, fx_bpm>>
  PROVE  FxInv'
<1> DEFINE body == [i \in 1..n |-> fx_frame + fx_callback.done + i - 1]
           w == fed \o body
           p == Fx!Effective
           id == bank.effect_id
           start == [m |-> CASE id = 1 -> Fx!refresh_coefs(p) [] id = 2 -> echo
                             [] id = 3 -> reverb [] OTHER -> None,
                     old |-> << >>]
           out == Fx!FoldLeft(Fx!FxFrame, start, body)
           now == [i \in DOMAIN body |-> Fx!base_frame + i - 1]
           heardNow == IF id = 4 THEN now ELSE << >>
           open == IF id = 4 THEN [i \in DOMAIN now |-> Fx!open_at(now[i], p)] ELSE << >>
           s == Len(fed)
<1>1. /\ filter' = IF id = 1 THEN out.m ELSE filter
      /\ echo' = IF id = 2 THEN out.m ELSE echo
      /\ reverb' = IF id = 3 THEN out.m ELSE reverb
      /\ local_frame' = IF id = 4 THEN Fx!base_frame + Len(body) ELSE local_frame
      /\ fed' = w
      /\ heard' = [id |-> id, params |-> p, old |-> out.old, now |-> heardNow, open |-> open]
  BY Zenon DEF Fx!Process
<1>2. FxTypes /\ FedInOrder /\ fed \in Seq(Nat) /\ s \in Nat
  BY DEF FxInv, FxTypes
<1>3. p \in ParamTable /\ InRange(id, p)
  BY <1>2, EffectiveInRange, FxFacts DEF FxTypes
<1>4. PICK from \in Nat : from = fx_frame + fx_callback.done
  <2>1. fx_frame \in Nat /\ fx_callback.done \in Nat
    BY <1>2 DEF FxTypes
  <2> QED BY <2>1
<1>5. /\ body \in Seq(Nat) /\ Len(body) = n
      /\ \A i \in 1..n : body[i] = fx_frame + fx_callback.done + i - 1
      /\ w \in Seq(Nat) /\ Len(w) = s + n /\ Follows(w, s, body)
      /\ \A i \in 1..s : w[i] = fed[i]
      /\ Rising(w) /\ \A i \in 1..Len(w) : w[i] < fx_frame + fx_callback.done + n
  BY <1>2, FedGoesOn
<1>6. FxRun(start, w, s, 0)
  <2> HIDE DEF w, p
  <2>1. Fx!Effective \in ParamTable /\ p = Fx!Effective
    BY <1>3 DEF p
  <2>2. \A i \in 1..Len(fed) : w[i] = fed[i]
    BY <1>5
  <2> QED
    BY <2>1, <2>2, RunStarts DEF p
<1> HIDE DEF start, w, body
<1>7. FxRun(out, w, s, n)
  <2>1. FxRun(out, w, s, Len(body))
    BY <1>2, <1>3, <1>5, <1>6, AllFed
  <2> QED
    BY <1>5, <2>1
<1> HIDE DEF out, p
<1>8. id = 4 => Fx!base_frame = from
  BY <1>2, <1>4, GateTime
<1>9. heardNow = << >> \/ (heardNow \in [1..n -> Nat] /\ \A i \in 1..n : heardNow[i] = w[s + i])
  <2>1. CASE id # 4
    BY <2>1
  <2>2. CASE id = 4
    <3>1. DOMAIN body = 1..n
      BY <1>5
    <3>2. heardNow = [i \in 1..n |-> from + i - 1]
      BY <1>8, <2>2, <3>1
    <3>3. \A i \in 1..n : w[s + i] = from + i - 1
      BY <1>4, <1>5 DEF Follows
    <3> HIDE DEF now, heardNow
    <3>4. \A i \in 1..n : from + i - 1 \in Nat
      BY <1>4
    <3> QED
      BY <3>2, <3>3, <3>4
  <2> QED
    BY <2>1, <2>2
<1> HIDE DEF heardNow, open, s
<1>10. HeardIsTrue(heard', fed', filter')
  <2>1. id = 1 => filter' = out.m
    BY <1>1
  <2>2. HeardIsTrue([id |-> bank.effect_id, params |-> Fx!Effective, old |-> out.old,
                     now |-> heardNow, open |-> open], w, filter')
    BY <1>2, <1>3, <1>5, <1>7, <1>9, <2>1, BlockIsTrue DEF p
  <2> QED
    BY <1>1, <2>2, Zenon DEF p
<1>11. MemoryHolds(bank'.effect_id, filter', echo', reverb', fed')
  <2>1. bank' = bank
    OBVIOUS
  <2>2. CASE id = 1
    <3>1. FilterHolds(filter', w, Len(w))
      BY <1>1, <1>5, <1>7, <2>2 DEF FxRun
    <3> QED
      BY <1>1, <2>1, <2>2, <3>1 DEF MemoryHolds
  <2>3. CASE id = 2
    <3>1. EchoHolds(echo', w, Len(w))
      BY <1>1, <1>5, <1>7, <2>3 DEF FxRun
    <3> QED
      BY <1>1, <2>1, <2>3, <3>1 DEF MemoryHolds
  <2>4. CASE id = 3
    <3>1. ReverbHolds(reverb', w, Len(w))
      BY <1>1, <1>5, <1>7, <2>4 DEF FxRun
    <3> QED
      BY <1>1, <2>1, <2>4, <3>1 DEF MemoryHolds
  <2>5. CASE id \notin {1, 2, 3}
    BY <2>1, <2>5 DEF MemoryHolds
  <2> QED
    BY <2>2, <2>3, <2>4, <2>5
<1>12. filter' \in FilterMemory
  <2>1. CASE id = 1
    BY <1>1, <1>7, <2>1 DEF FxRun, FilterHolds
  <2>2. CASE id # 1
    BY <1>1, <1>2, <2>2 DEF FxTypes
  <2> QED
    BY <2>1, <2>2
<1>13. PICK l \in Nat, x \in Nat : l = local_frame /\ l <= from /\ x = from + n
         /\ x = fx_frame' + fx_callback'.done
  <2>1. local_frame \in Nat /\ local_frame <= from
    BY <1>2, <1>4 DEF FxTypes, FedInOrder
  <2>2. PICK a \in Nat, b \in Nat : a = fx_frame /\ b = fx_callback.done /\ from = a + b
    BY <1>2, <1>4 DEF FxTypes
  <2>3. fx_frame' = a /\ fx_callback'.done = b + n
    BY <2>2
  <2>4. fx_frame' + fx_callback'.done = from + n
    BY <2>2, <2>3
  <2> QED
    BY <2>1, <2>4
<1>14. local_frame' \in Nat /\ local_frame' <= x /\ (id = 4 => local_frame' = x)
  <2>1. CASE id = 4
    BY <1>1, <1>5, <1>8, <1>13, <2>1
  <2>2. CASE id # 4
    BY <1>1, <1>13, <2>2
  <2> QED
    BY <2>1, <2>2
<1>15. FxTypes'
  BY <1>1, <1>2, <1>5, <1>12, <1>14 DEF FxTypes
<1>16. FedInOrder'
  <2>1. Rising(fed') /\ \A i \in 1..Len(fed') : fed'[i] < x
    <3>1. \A i \in 1..Len(w) : w[i] < from + n
      BY <1>4, <1>5
    <3> QED
      BY <1>1, <1>5, <1>13, <3>1
  <2>2. fx_frame' + fx_callback'.done = x /\ bank' = bank
    BY <1>13
  <2> QED
    BY <1>14, <2>1, <2>2 DEF FedInOrder
<1> QED
  BY <1>10, <1>11, <1>15, <1>16 DEF FxInv

LEMMA BlockKeeps ==
  ASSUME FxInv, Fx!Block
  PROVE  FxInv'
<1> DEFINE n == Fx!Min({fx_callback.left, STEREO_PULL_FRAMES})
<1>1. FxTypes /\ FedInOrder
  BY DEF FxInv
<1>2. /\ fx_callback.left > 0
      /\ fx_callback' = [left |-> fx_callback.left - n, done |-> fx_callback.done + n]
      /\ IF Fx!Bypassed THEN heard' = Fx!NothingHeard /\ UNCHANGED <<Fx!memory, fed>>
         ELSE Fx!Process([i \in 1..n |-> fx_frame + fx_callback.done + i - 1])
      /\ UNCHANGED <<bank, fx_frame, fx_bpm, applied>>
  BY Zenon DEF Fx!Block
<1>3. PICK left \in Nat, done \in Nat, pull \in Nat :
        left = fx_callback.left /\ done = fx_callback.done /\ pull = STEREO_PULL_FRAMES
        /\ pull > 0 /\ left > 0
  BY <1>1, <1>2, FxFacts DEF FxTypes
<1>4. n \in Nat \ {0} /\ n <= left
  <2> DEFINE S == {left, pull}
  <2>1. \E x \in S : \A y \in S : x <= y
    BY <1>3
  <2>2. Fx!Min(S) \in S /\ \A y \in S : Fx!Min(S) <= y
    BY <2>1 DEF Fx!Min
  <2>3. n = Fx!Min(S)
    BY <1>3
  <2>4. n \in {left, pull} /\ n <= left
    BY <2>2, <2>3
  <2> HIDE DEF n
  <2> QED
    BY <1>3, <2>4
<1> HIDE DEF n
<1>5. fx_callback' \in [left : Nat, done : Nat] /\ fx_callback'.done = fx_callback.done + n
  <2>1. left - n \in Nat /\ done + n \in Nat
    BY <1>3, <1>4
  <2> QED
    BY <1>2, <1>3, <2>1
<1>6. CASE ~Fx!Bypassed
  BY <1>2, <1>4, <1>5, <1>6, ProcessKeeps
<1>7. CASE Fx!Bypassed
  <2>1. /\ heard' = Fx!NothingHeard /\ fed' = fed /\ filter' = filter /\ echo' = echo
        /\ reverb' = reverb /\ local_frame' = local_frame /\ bank' = bank
        /\ fx_frame' = fx_frame /\ fx_bpm' = fx_bpm
    BY <1>2, <1>7 DEF Fx!memory
  <2>2. FxTypes'
    BY <1>1, <1>5, <2>1 DEF FxTypes
  <2>3. PICK a \in Nat, l \in Nat : a = fx_frame /\ l = local_frame
    BY <1>1 DEF FxTypes
  <2>4. fx_frame' + fx_callback'.done = a + done + n /\ a + done \in Nat
    BY <1>3, <1>4, <1>5, <2>1, <2>3
  <2>5. fed \in Seq(Nat) /\ \A i \in 1..Len(fed) : fed[i] < a + done
    BY <1>1, <1>3, <2>3 DEF FxTypes, FedInOrder
  <2>6. \A i \in 1..Len(fed) : fed[i] \in Nat /\ fed[i] < a + done + n
    <3> SUFFICES ASSUME NEW i \in 1..Len(fed) PROVE fed[i] \in Nat /\ fed[i] < a + done + n
      OBVIOUS
    <3>1. PICK y \in Nat : y = fed[i] /\ y < a + done
      BY <2>5
    <3> QED
      BY <1>4, <2>4, <3>1
  <2>7. l <= a + done + n
    <3>1. l <= a + done
      BY <1>1, <1>3, <2>3 DEF FedInOrder
    <3> QED
      BY <1>4, <2>4, <3>1
  <2>8. Fx!Bypassed'
    BY <1>7, <2>1 DEF Fx!Bypassed
  <2>9. FedInOrder'
    BY <1>1, <2>1, <2>3, <2>4, <2>6, <2>7, <2>8 DEF FedInOrder
  <2>10. HeardIsTrue(heard', fed', filter')
    BY <2>1, NothingIsTrue
  <2> QED
    BY <2>1, <2>2, <2>9, <2>10 DEF FxInv
<1> QED
  BY <1>6, <1>7

LEMMA BankTurns ==
  ASSUME NEW b, BankHolds(b), NEW c \in Fx!FxCommand
  PROVE  /\ c.kind = "EffectAssign" =>
              c.effect_id \in Nat /\ Fx!BankAfter(b, c).effect_id = c.effect_id
         /\ c.kind # "EffectAssign" =>
              Fx!BankAfter(b, c).effect_id \in {b.effect_id, 0}
<1>1. Fx!clear(b).effect_id = 0
  BY DEF BankHolds, Fx!clear
<1>2. CASE c.kind = "EffectAssign"
  <2>1. Fx!BankAfter(b, c) = IF c.effect_id = 0 THEN Fx!clear(b) ELSE Fx!assign(c.effect_id)
    BY <1>2 DEF Fx!BankAfter
  <2>2. Fx!assign(c.effect_id).effect_id = c.effect_id
    BY DEF Fx!assign, Fx!NewBank
  <2>3. c.effect_id \in Nat
    BY <1>2 DEF Fx!FxCommand
  <2> QED
    BY <1>1, <1>2, <2>1, <2>2, <2>3
<1>3. CASE c.kind = "EffectClear"
  BY <1>1, <1>3 DEF Fx!BankAfter
<1>4. CASE c.kind = "EffectParam"
  BY <1>4 DEF Fx!BankAfter, Fx!set_param, BankHolds
<1>5. CASE c.kind = "EffectWetDry"
  BY <1>5 DEF Fx!BankAfter, BankHolds
<1>6. CASE c.kind = "EffectEnable"
  BY <1>6 DEF Fx!BankAfter, BankHolds
<1>7. CASE c.kind = "EffectLfoSet"
  BY <1>7 DEF Fx!BankAfter, BankHolds
<1>8. CASE c.kind = "EffectLfoClear"
  BY <1>8 DEF Fx!BankAfter, BankHolds
<1> QED
  BY <1>2, <1>3, <1>4, <1>5, <1>6, <1>7, <1>8 DEF Fx!FxCommand

(* A reset memory holds what no frame left.                                *)
LEMMA ResetsHold ==
  /\ filter \in FilterMemory => FilterHolds(Fx!FilterReset, << >>, 0)
  /\ EchoHolds(Fx!EchoReset, << >>, 0)
  /\ ReverbHolds(Fx!ReverbReset, << >>, 0)
<1>1. ASSUME filter \in FilterMemory PROVE FilterHolds(Fx!FilterReset, << >>, 0)
  <2>1. << >> \in Seq(Int)
    OBVIOUS
  <2>2. /\ Fx!FilterReset \in FilterMemory /\ Fx!FilterReset.z = {} /\ Fx!FilterReset.last = << >>
    BY <1>1, <2>1 DEF Fx!FilterReset, Fx!Silent, FilterMemory
  <2> QED
    BY <2>2 DEF FilterHolds
<1>2. EchoHolds(Fx!EchoReset, << >>, 0)
  <2> DEFINE m == Fx!EchoReset
  <2>1. /\ m \in EchoMemory /\ m.z = {} /\ m.write_head = 0
        /\ \A i \in 0..(MAX_DELAY_FRAMES - 1) : m.line[i] = {}
    BY FxFacts DEF Fx!EchoReset, Fx!Silent, EchoMemory
  <2> HIDE DEF m
  <2>2. ASSUME NEW d \in 1..(MAX_DELAY_FRAMES - 1)
        PROVE  CellHolds(m.line[Tap(m.write_head, d)], << >>, 0, d)
    <3>1. 0 \in 0..(MAX_DELAY_FRAMES - 1)
      BY FxFacts
    <3>2. Tap(0, d) \in 0..(MAX_DELAY_FRAMES - 1)
      BY <3>1, TapOfRing
    <3>3. m.line[Tap(m.write_head, d)] = {}
      BY <2>1, <3>2
    <3>4. ~(d <= 0)
      BY FxFacts
    <3> QED
      BY <3>3, <3>4 DEF CellHolds
  <2> QED
    BY <2>1, <2>2 DEF EchoHolds, m
<1>3. ReverbHolds(Fx!ReverbReset, << >>, 0)
  <2> DEFINE m == Fx!ReverbReset
  <2>1. m = [c \in DOMAIN CombSizes |-> m[c]]
        /\ \A c \in DOMAIN CombSizes : m[c] = Fx!LineReset(CombSizes[c])
    BY DEF Fx!ReverbReset
  <2>2. ASSUME NEW size \in Nat \ {0} PROVE LineHolds(Fx!LineReset(size), size, << >>, 0)
    <3> DEFINE l == Fx!LineReset(size)
    <3>1. /\ l \in LineMemory(size) /\ l.z = {} /\ \A i \in 0..(size - 1) : l.buf[i] = {}
      BY DEF Fx!LineReset, Fx!Silent, LineMemory
    <3> HIDE DEF l
    <3> QED
      BY <3>1 DEF LineHolds, l
  <2>3. \A c \in DOMAIN CombSizes : CombSizes[c] \in Nat \ {0}
    BY FxFacts
  <2> HIDE DEF m
  <2> QED
    BY <2>1, <2>2, <2>3 DEF ReverbHolds, m
<1> QED
  BY <1>1, <1>2, <1>3

LEMMA ApplyKeeps ==
  ASSUME FxInv, NEW c \in FxCommands, Fx!ApplyFx(c)
  PROVE  FxInv'
<1> DEFINE id == bank'.effect_id
<1>1. /\ fx_callback.done = 0 /\ bank' = Fx!BankAfter(bank, c)
      /\ IF c.kind = "EffectAssign" THEN Fx!Forget(c) /\ fed' = << >>
         ELSE UNCHANGED <<Fx!memory, fed>>
      /\ heard' = Fx!NothingHeard
      /\ fx_frame' = fx_frame /\ fx_bpm' = fx_bpm /\ fx_callback' = fx_callback
  BY DEF Fx!ApplyFx, Fx!Idle
<1>2. FxTypes /\ FedInOrder /\ MemoryHolds(bank.effect_id, filter, echo, reverb, fed)
  BY DEF FxInv
<1>3. c \in Fx!FxCommand /\ BankHolds(bank)
  BY <1>2, FxFacts DEF FxTypes
<1>4. BankHolds(bank')
  BY <1>1, <1>3, BankKeeps
<1>5. HeardIsTrue(heard', fed', filter')
  BY <1>1, NothingIsTrue
<1>6. PICK a \in Nat : a = fx_frame /\ a + 0 = a
  BY <1>2 DEF FxTypes
<1>7. CASE c.kind = "EffectAssign"
  <2>1. id = c.effect_id
    BY <1>1, <1>3, <1>7, BankTurns
  <2>2. /\ filter' = IF id = 1 THEN Fx!FilterReset ELSE filter
        /\ echo' = IF id = 2 THEN Fx!EchoReset ELSE echo
        /\ reverb' = IF id = 3 THEN Fx!ReverbReset ELSE reverb
        /\ local_frame' = IF id = 4 THEN 0 ELSE local_frame
        /\ fed' = << >>
    BY <1>1, <1>7, <2>1 DEF Fx!Forget
  <2> HIDE DEF id
  <2>3. filter \in FilterMemory
    BY <1>2 DEF FxTypes
  <2>4. Len(<< >>) = 0 /\ << >> \in Seq(Nat) /\ Rising(<< >>)
    BY DEF Rising
  <2>5. MemoryHolds(id, filter', echo', reverb', fed')
    <3>1. id = 1 => FilterHolds(filter', << >>, 0)
      BY <2>2, <2>3, ResetsHold
    <3>2. id = 2 => EchoHolds(echo', << >>, 0)
      BY <2>2, ResetsHold
    <3>3. id = 3 => ReverbHolds(reverb', << >>, 0)
      BY <2>2, ResetsHold
    <3> QED
      BY <2>2, <2>4, <3>1, <3>2, <3>3 DEF MemoryHolds
  <2>6. filter' \in FilterMemory
    BY <2>2, <2>3, ResetsHold DEF FilterHolds
  <2>7. local_frame' \in Nat /\ local_frame' <= a
    <3>1. local_frame \in Nat /\ local_frame <= a
      BY <1>1, <1>2, <1>6 DEF FxTypes, FedInOrder
    <3> QED
      BY <2>2, <3>1
  <2>8. FxTypes'
    BY <1>1, <1>2, <1>4, <2>2, <2>4, <2>6, <2>7 DEF FxTypes
  <2>9. FedInOrder'
    <3>1. /\ fx_frame' + fx_callback'.done = a /\ ~(fx_callback'.done > 0)
          /\ 1..Len(fed') = {}
      BY <1>1, <1>6, <2>2, <2>4
    <3> QED
      BY <2>2, <2>4, <2>7, <3>1 DEF FedInOrder
  <2> QED
    BY <1>5, <2>5, <2>8, <2>9 DEF FxInv, id
<1>8. CASE c.kind # "EffectAssign"
  <2>1. /\ filter' = filter /\ echo' = echo /\ reverb' = reverb /\ local_frame' = local_frame
        /\ fed' = fed
    BY <1>1, <1>8 DEF Fx!memory
  <2>2. id \in {bank.effect_id, 0}
    BY <1>1, <1>3, <1>8, BankTurns
  <2> HIDE DEF id
  <2>3. MemoryHolds(id, filter', echo', reverb', fed')
    BY <1>2, <2>1, <2>2 DEF MemoryHolds
  <2>4. FxTypes'
    BY <1>1, <1>2, <1>4, <2>1 DEF FxTypes
  <2>5. FedInOrder'
    <3>1. ~(fx_callback'.done > 0) /\ fx_callback' = fx_callback /\ fx_frame' = fx_frame
      BY <1>1
    <3> QED
      BY <1>2, <2>1, <3>1 DEF FedInOrder
  <2> QED
    BY <1>5, <2>3, <2>4, <2>5 DEF FxInv, id
<1> QED
  BY <1>7, <1>8

LEMMA AdvanceKeeps ==
  ASSUME FxInv, Fx!Advance
  PROVE  FxInv'
<1>1. /\ fx_frame' = fx_frame + fx_callback.done /\ fx_callback' = [left |-> 0, done |-> 0]
      /\ bank' = bank /\ filter' = filter /\ echo' = echo /\ reverb' = reverb
      /\ local_frame' = local_frame /\ fx_bpm' = fx_bpm /\ fed' = fed /\ heard' = heard
  BY DEF Fx!Advance, Fx!memory
<1>2. FxTypes /\ FedInOrder
  BY DEF FxInv
<1>3. PICK a \in Nat : a = fx_frame + fx_callback.done /\ a + 0 = a
  <2>1. fx_frame \in Nat /\ fx_callback.done \in Nat
    BY <1>2 DEF FxTypes
  <2> QED BY <2>1
<1>4. /\ fx_callback' \in [left : Nat, done : Nat] /\ ~(fx_callback'.done > 0)
      /\ fx_frame' = a /\ fx_frame' + fx_callback'.done = a
  BY <1>1, <1>3
<1>5. FxTypes'
  BY <1>1, <1>2, <1>4 DEF FxTypes
<1>6. FedInOrder'
  BY <1>1, <1>2, <1>3, <1>4 DEF FedInOrder
<1> QED
  BY <1>1, <1>5, <1>6 DEF FxInv, MemoryHolds, HeardIsTrue

LEMMA EnterKeeps ==
  ASSUME FxInv, NEW n \in Callbacks, Fx!Enter(n)
  PROVE  FxInv'
<1>1. /\ fx_callback.done = 0 /\ fx_callback' = [left |-> n, done |-> 0] /\ fx_frame' = fx_frame
      /\ bank' = bank /\ filter' = filter /\ echo' = echo /\ reverb' = reverb
      /\ local_frame' = local_frame /\ fx_bpm' = fx_bpm /\ fed' = fed /\ heard' = heard
  BY DEF Fx!Enter, Fx!Idle, Fx!memory
<1>2. FxTypes /\ FedInOrder
  BY DEF FxInv
<1>3. /\ fx_callback' \in [left : Nat, done : Nat] /\ ~(fx_callback'.done > 0)
      /\ fx_callback'.done = fx_callback.done
  <2>1. n \in Nat
    BY FxFacts
  <2> QED
    BY <1>1, <2>1
<1>4. FxTypes'
  BY <1>1, <1>2, <1>3 DEF FxTypes
<1>5. FedInOrder'
  BY <1>1, <1>2, <1>3 DEF FedInOrder
<1> QED
  BY <1>1, <1>4, <1>5 DEF FxInv, MemoryHolds, HeardIsTrue

LEMMA FxStepKeeps == FxInv /\ [Fx!Next]_(Fx!vars) => FxInv'
<1> SUFFICES ASSUME FxInv, [Fx!Next]_(Fx!vars) PROVE FxInv'
  OBVIOUS
<1>1. CASE \E c \in FxCommands : Fx!ApplyFx(c)
  BY <1>1, ApplyKeeps
<1>2. CASE \E b \in FxTempos : Fx!SetMasterBpm(b)
  <2>1. PICK b \in FxTempos : Fx!SetMasterBpm(b)
    BY <1>2
  <2>2. /\ fx_bpm' \in FxTempos /\ fx_callback' = fx_callback /\ fx_frame' = fx_frame
        /\ bank' = bank /\ filter' = filter /\ echo' = echo /\ reverb' = reverb
        /\ local_frame' = local_frame /\ fed' = fed /\ heard' = heard
    BY <2>1 DEF Fx!SetMasterBpm, Fx!memory
  <2> QED
    BY <2>2 DEF FxInv, FxTypes, FedInOrder, MemoryHolds, HeardIsTrue, Fx!Bypassed
<1>3. CASE \E n \in Callbacks : Fx!Enter(n)
  BY <1>3, EnterKeeps
<1>4. CASE Fx!Block
  BY <1>4, BlockKeeps
<1>5. CASE Fx!Advance
  BY <1>5, AdvanceKeeps
<1>6. CASE UNCHANGED Fx!vars
  <2>1. /\ fx_bpm' = fx_bpm /\ fx_callback' = fx_callback /\ fx_frame' = fx_frame
        /\ bank' = bank /\ filter' = filter /\ echo' = echo /\ reverb' = reverb
        /\ local_frame' = local_frame /\ fed' = fed /\ heard' = heard
    BY <1>6 DEF Fx!vars, Fx!memory
  <2> QED
    BY <2>1 DEF FxInv, FxTypes, FedInOrder, MemoryHolds, HeardIsTrue, Fx!Bypassed
<1> QED
  BY <1>1, <1>2, <1>3, <1>4, <1>5, <1>6 DEF Fx!Next

LEMMA FxInitHolds == Fx!Init => FxInv
<1> SUFFICES ASSUME Fx!Init PROVE FxInv
  OBVIOUS
<1>1. /\ bank = Fx!NewBank /\ filter = Fx!FilterNew /\ local_frame = 0 /\ fx_frame = 0
      /\ fx_bpm \in FxTempos /\ fx_callback = [left |-> 0, done |-> 0] /\ fed = << >>
      /\ heard = Fx!NothingHeard
  BY DEF Fx!Init
<1>2. filter \in FilterMemory
  <2>1. << >> \in Seq(Int)
    OBVIOUS
  <2> QED
    BY <1>1, <2>1 DEF FilterMemory, Fx!FilterNew, Fx!Silent
<1>3. BankHolds(bank) /\ bank.effect_id = 0
  BY <1>1, NewBankHolds DEF Fx!NewBank
<1>4. FxTypes
  BY <1>1, <1>2, <1>3 DEF FxTypes
<1>5. FedInOrder
  BY <1>1 DEF FedInOrder, Rising
<1>6. MemoryHolds(bank.effect_id, filter, echo, reverb, fed)
  BY <1>3 DEF MemoryHolds
<1>7. HeardIsTrue(heard, fed, filter)
  BY <1>1, NothingIsTrue
<1> QED
  BY <1>4, <1>5, <1>6, <1>7 DEF FxInv

(* The gauge: whatever a step does to the peak it does to what is owed.    *)
LEMMA PeakKeeps == Audio!NoPeakLost /\ [Audio!Next]_(Audio!vars) => Audio!NoPeakLost'
<1> SUFFICES ASSUME peak = owed, [Audio!Next]_(Audio!vars) PROVE peak' = owed'
  BY DEF Audio!NoPeakLost
<1>1. CASE \E what \in {"limiter", "sidechain"}, on \in BOOLEAN : Audio!Push(what, on)
  BY <1>1 DEF Audio!Push, Audio!audio_vars
<1>2. CASE \E n \in CallbackFrames : Audio!Enter(n)
  BY <1>2 DEF Audio!Enter
<1>3. CASE Audio!Drain
  BY <1>3 DEF Audio!Drain
<1>4. CASE Audio!Render
  BY <1>4 DEF Audio!Render
<1>5. CASE Audio!record_render_ns
  BY <1>5 DEF Audio!record_render_ns
<1>6. CASE Audio!ReadMeters
  BY <1>6 DEF Audio!ReadMeters, Audio!audio_vars
<1>7. CASE Audio!snapshot
  BY <1>7 DEF Audio!snapshot, Audio!TakePeak
<1>8. CASE UNCHANGED Audio!vars
  BY <1>8 DEF Audio!vars
<1> QED
  BY <1>1, <1>2, <1>3, <1>4, <1>5, <1>6, <1>7, <1>8 DEF Audio!Next, Audio!Callback

(* Whatever commands, tempos, callbacks and blocks come in whatever order, *)
(* an effect sounds of nothing older than its assignment, the echo repeats *)
(* what it was fed delay_frames ago, the gate keeps the time that is       *)
(* played, the filter's coefficients are the block's, no parameter is      *)
(* swung out of its range, and no slow callback escapes the gauge          *)
(* (effects/mod.rs, echo.rs, gate.rs, filter.rs, lfo.rs, perf.rs).         *)
THEOREM CallbackCorrect == Fx!Spec /\ Audio!Spec => []CallbackIsTrue
<1>1. FxInv => /\ Fx!NothingBleeds /\ Fx!EchoIsADelay /\ Fx!GateKeepsTime
               /\ Fx!FilterIsTuned /\ Fx!ParamsInRange
  BY HeardProperties
<1>2. Audio!Init => Audio!NoPeakLost
  BY DEF Audio!Init, Audio!NoPeakLost
<1>3. FxInv /\ Audio!NoPeakLost => CallbackIsTrue
  BY <1>1 DEF CallbackIsTrue
<1> QED
  BY <1>2, <1>3, FxInitHolds, FxStepKeeps, PeakKeeps, PTL DEF Fx!Spec, Audio!Spec

-----------------------------------------------------------------------------
(* The MIDI listener. *)

\* What the listener sends: a button, or a turn of a control.
ListenerButton ==
  [kind : {"DeckPlay", "LoopIn", "LoopOut", "LoopExit", "CopilotEngage"}, deck : DeckId]
  \cup [kind : {"DeckCue"}, deck : DeckId, position_ms : {0}]
  \cup [kind : {"HotCueTrigger"}, deck : DeckId, slot : CueSlots]
  \cup [kind : {"TakeOver"}, deck : DeckId, handoff_until_frame : {0}]
Turn ==
  [kind : {"EqAdjust"}, deck : DeckId, band : Bands, value_db : Int]
  \cup [kind : {"PitchBend"}, deck : DeckId, semitones : PitchRange]
  \cup [kind : {"Crossfader"}, value : Percent]
ListenerEvent == ListenerButton \cup Turn

(* A value on its way between two ends does not leave them. *)
LEMMA ScaledWithin ==
  ASSUME NEW n \in 0..127, NEW by \in Nat
  PROVE  Scaled(n, 127, by) \in 0..by
<1>1. n * by \in Nat /\ n * by <= 127 * by
  <2>1. n \in Nat /\ 127 - n \in Nat
    OBVIOUS
  <2>2. n * by \in Nat /\ (127 - n) * by \in Nat
    BY <2>1, ProductNat
  <2>3. 127 * by = n * by + (127 - n) * by
    BY <2>1
  <2>4. QED
    BY <2>2, <2>3
<1> DEFINE p == n * by
<1> HIDE DEF p
<1>2. p \in Nat /\ p <= 127 * by => p \div 127 \in 0..by
  OBVIOUS
<1>3. QED
  BY <1>1, <1>2 DEF Scaled, p

(* Scaling an integer gives one. *)
LEMMA ScaledInt ==
  ASSUME NEW n \in Int, NEW of \in Nat \ {0}, NEW by \in Int
  PROVE  Scaled(n, of, by) \in Int
<1>1. \A p \in Int : p \div of \in Int
  OBVIOUS
<1>2. n * by \in Int /\ (-n) * by \in Int
  OBVIOUS
<1>3. QED
  BY <1>1, <1>2 DEF Scaled

LEMMA MidiByte ==
  ASSUME NEW b \in Nat PROVE clamp_midi_byte(b) \in 0..127
BY DEF clamp_midi_byte

LEMMA HalfScaledPitch ==
  ASSUME NEW n \in Int, NEW below \in Nat \ {0}, NEW above \in Nat \ {0}, NEW range \in Int
  PROVE  HalfScaled(n, below, above, range) \in PitchRange
<1> DEFINE x == IF n >= 0 THEN Scaled(n, above, range) ELSE Scaled(n, below, range)
<1>1. x \in Int
  BY ScaledInt
<1> HIDE DEF x
<1>2. Clamp(x, -120, 120) \in -120..120
  BY <1>1 DEF Clamp
<1>3. QED
  BY <1>2 DEF HalfScaled, PitchRange, x

(* A range that is used is one with its ends in order. *)
LEMMA SafeRangeOrdered ==
  ASSUME NEW range \in [lo : Real32, hi : Real32] \cup {None}
  PROVE  /\ SafeRange(range).lo \in Int /\ SafeRange(range).hi \in Int
         /\ SafeRange(range).lo < SafeRange(range).hi
<1>1. CASE range # None /\ NonFinite \notin {range.lo, range.hi} /\ range.lo < range.hi
  <2>1. range.lo \in Int /\ range.hi \in Int
    BY <1>1 DEF Real32
  <2>2. SafeRange(range) = range
    BY <1>1 DEF SafeRange
  <2>3. QED
    BY <1>1, <2>1, <2>2
<1>2. CASE ~(range # None /\ NonFinite \notin {range.lo, range.hi} /\ range.lo < range.hi)
  <2>1. SafeRange(range) = [lo |-> DEFAULT_EQ_DB_LO, hi |-> DEFAULT_EQ_DB_HI]
    BY <1>2 DEF SafeRange
  <2>2. QED
    BY <2>1 DEF DEFAULT_EQ_DB_LO, DEFAULT_EQ_DB_HI
<1>3. QED
  BY <1>1, <1>2

LEMMA EqWithin ==
  ASSUME NEW v \in Nat, NEW range \in [lo : Real32, hi : Real32] \cup {None}
  PROVE  cc_to_range(v, range) \in SafeRange(range).lo..SafeRange(range).hi
<1> DEFINE lo == SafeRange(range).lo
           hi == SafeRange(range).hi
           x == Scaled(clamp_midi_byte(v), 127, hi - lo)
<1>1. lo \in Int /\ hi \in Int /\ lo < hi
  BY SafeRangeOrdered
<1>2. cc_to_range(v, range) = lo + x
  BY DEF cc_to_range
<1> HIDE DEF lo, hi
<1>3. hi - lo \in Nat
  BY <1>1
<1>4. x \in 0..(hi - lo)
  BY <1>3, MidiByte, ScaledWithin
<1> HIDE DEF x
<1>5. lo + x \in lo..hi
  BY <1>1, <1>4
<1>6. QED
  BY <1>2, <1>5 DEF lo, hi

\* A mapping the loader accepted.
LoadedMapping == mapping \in Mappings /\ \A k \in DOMAIN mapping : Valid(mapping[k])

LEMMA LoadedBinding ==
  ASSUME LoadedMapping, NEW msg \in Messages, LookupKey(msg) \in DOMAIN mapping
  PROVE  /\ Binding(msg) = mapping[LookupKey(msg)] /\ Valid(Binding(msg))
         /\ msg.status = "note_on" => Binding(msg) \in NoteBinding
         /\ msg.status = "cc" => Binding(msg) \in CcBinding
         /\ msg.status = "pitch_bend" => Binding(msg) \in PitchBendBinding
<1>1. mapping \in Mappings /\ Valid(mapping[LookupKey(msg)])
  BY DEF LoadedMapping
<1>2. Binding(msg) = mapping[LookupKey(msg)]
  BY DEF Binding
<1>3. MidiInputConstants
  BY PartsAssumption
<1>4. /\ msg.status = "note_on" => mapping[LookupKey(msg)] \in NoteBinding
      /\ msg.status = "cc" => mapping[LookupKey(msg)] \in CcBinding
      /\ msg.status = "pitch_bend" => mapping[LookupKey(msg)] \in PitchBendBinding
  BY <1>1, <1>3 DEF MidiInputConstants
<1>5. QED
  BY <1>1, <1>2, <1>4

(* A button's note is a button's event. *)
LEMMA NoteIsButton ==
  ASSUME NEW b \in NoteBinding, Valid(b)
  PROVE  translate_note(b) \in ListenerButton
<1>1. /\ b.action \in NoteActions /\ b.slot \in Nat \cup {None}
      /\ b.deck \in DeckId \cup {None}
  BY DEF NoteBinding, MapDeck
<1>2. b.deck \in DeckId
  BY <1>1 DEF Valid, NoteActions
<1>3. CASE b.action = "DeckCue"
  BY <1>2, <1>3 DEF translate_note, ListenerButton
<1>4. CASE b.action = "HotCueTrigger"
  <2>1. b.slot \in Nat
    BY <1>1, <1>4 DEF Valid
  <2>2. clamp_hot_cue_slot(b.slot) \in CueSlots
    BY <2>1 DEF clamp_hot_cue_slot, Clamp, CueSlots
  <2>3. translate_note(b)
          = [kind |-> "HotCueTrigger", deck |-> b.deck, slot |-> clamp_hot_cue_slot(b.slot)]
    BY <1>4 DEF translate_note
  <2>4. QED
    BY <1>2, <2>2, <2>3 DEF ListenerButton
<1>5. CASE b.action = "TakeOver"
  BY <1>2, <1>5 DEF translate_note, ListenerButton
<1>6. CASE b.action \in {"DeckPlay", "LoopIn", "LoopOut", "LoopExit", "CopilotEngage"}
  <2>1. translate_note(b) = [kind |-> b.action, deck |-> b.deck]
    BY <1>6 DEF translate_note
  <2>2. QED
    BY <1>2, <1>6, <2>1 DEF ListenerButton
<1>7. QED
  BY <1>1, <1>3, <1>4, <1>5, <1>6 DEF NoteActions

\* What a turn sets is within its control's range, the reducer's or a wider
\* one of the mapping.
Fits(c, v) ==
  /\ c[2] \in Bands => v \in Int /\ (v \in -260..60 \/ WiderThanReducer(c))

LEMMA KnobIsTurn ==
  ASSUME LoadedMapping, NEW k \in DOMAIN mapping, mapping[k] \in CcBinding, NEW v \in Nat
  PROVE  /\ translate_cc(mapping[k], v) \in Turn
         /\ Fits(Control(translate_cc(mapping[k], v)), Setting(translate_cc(mapping[k], v)))
<1> DEFINE b == mapping[k]
           ev == translate_cc(b, v)
<1>1. /\ b.action \in EqActions \cup {"Crossfader", "PitchBend"}
      /\ b.deck \in DeckId \cup {None}
      /\ b.range \in [lo : Real32, hi : Real32] \cup {None}
  BY DEF CcBinding, MapDeck
<1>2. b.action # "Crossfader" => b.deck \in DeckId
  BY <1>1 DEF LoadedMapping, Valid
<1>3. CASE b.action = "Crossfader"
  <2>1. ev = [kind |-> "Crossfader", value |-> cc_to_unit(v)]
    BY <1>3 DEF translate_cc
  <2>2. cc_to_unit(v) \in Percent
    <3>1. Scaled(clamp_midi_byte(v), 127, 100) \in 0..100
      BY MidiByte, ScaledWithin
    <3>2. QED
      BY <3>1 DEF cc_to_unit, Percent
  <2>3. ev \in Turn
    BY <2>1, <2>2 DEF Turn
  <2>4. Control(ev) = <<"master", "crossfader">>
    BY <2>1 DEF Control
  <2>5. QED
    BY <2>3, <2>4 DEF Fits, Bands
<1>4. CASE b.action = "PitchBend"
  <2>1. ev = [kind |-> "PitchBend", deck |-> b.deck, semitones |-> cc_to_semitones(v)]
    BY <1>4 DEF translate_cc
  <2>2. cc_to_semitones(v) \in PitchRange
    <3>1. clamp_midi_byte(v) - 64 \in Int
      BY MidiByte
    <3>2. QED
      BY <3>1, HalfScaledPitch DEF cc_to_semitones
  <2>3. ev \in Turn
    BY <1>2, <1>4, <2>1, <2>2 DEF Turn
  <2>4. Control(ev) = <<b.deck, "pitch">>
    BY <2>1 DEF Control
  <2>5. QED
    BY <2>3, <2>4 DEF Fits, Bands
<1>5. CASE b.action \in EqActions
  <2> DEFINE x == cc_to_range(v, b.range)
  <2>1. ev = [kind |-> "EqAdjust", deck |-> b.deck, band |-> b.action, value_db |-> x]
    BY <1>5 DEF translate_cc, EqActions
  <2>2. x \in SafeRange(b.range).lo..SafeRange(b.range).hi
    BY <1>1, EqWithin
  <2>3. SafeRange(b.range).lo \in Int /\ SafeRange(b.range).hi \in Int
    BY <1>1, SafeRangeOrdered
  <2> HIDE DEF x
  <2>4. ev \in Turn
    BY <1>2, <1>5, <2>1, <2>2, <2>3 DEF Turn, EqActions, Bands
  <2>5. Control(ev) = <<b.deck, b.action>> /\ Setting(ev) = x
    BY <2>1 DEF Control, Setting
  <2>6. ~WiderThanReducer(<<b.deck, b.action>>) =>
          SafeRange(b.range).lo >= -260 /\ SafeRange(b.range).hi <= 60
    BY <1>5, <2>3 DEF WiderThanReducer, DEFAULT_EQ_DB_LO, DEFAULT_EQ_DB_HI
  <2>7. QED
    BY <2>2, <2>3, <2>4, <2>5, <2>6 DEF Fits
<1>6. QED
  BY <1>1, <1>3, <1>4, <1>5

LEMMA WheelIsTurn ==
  ASSUME NEW b \in PitchBendBinding, NEW msg \in Messages
  PROVE  /\ translate_pitch_bend(b, msg) \in Turn
         /\ Fits(Control(translate_pitch_bend(b, msg)), Setting(translate_pitch_bend(b, msg)))
<1> DEFINE ev == translate_pitch_bend(b, msg)
           x == pitch_bend_14_to_semitones(msg.data1, msg.data2, b.range)
<1>1. b.deck \in DeckId /\ b.range \in Int \cup {NonFinite}
  BY DEF PitchBendBinding, Real32
<1>2. msg.data1 \in Nat /\ msg.data2 \in Nat
  BY PartsAssumption DEF MidiInputConstants
<1> DEFINE n == clamp_midi_byte(msg.data2) * 128 + clamp_midi_byte(msg.data1) - 8192
           range == IF b.range # NonFinite /\ b.range > 0 THEN b.range ELSE 20
<1>3. n \in Int
  <2>1. clamp_midi_byte(msg.data1) \in Int /\ clamp_midi_byte(msg.data2) \in Int
    BY <1>2, MidiByte
  <2>2. QED
    BY <2>1
<1>4. range \in Int
  BY <1>1
<1>a. x = HalfScaled(n, 8192, 8191, range)
  BY DEF pitch_bend_14_to_semitones
<1> HIDE DEF n, range
<1>5. x \in PitchRange
  BY <1>3, <1>4, <1>a, HalfScaledPitch
<1> HIDE DEF x
<1>6. ev = [kind |-> "PitchBend", deck |-> b.deck, semitones |-> x]
  BY DEF translate_pitch_bend, x
<1>7. ev \in Turn
  BY <1>1, <1>5, <1>6 DEF Turn
<1>8. Control(ev) = <<b.deck, "pitch">>
  BY <1>6 DEF Control
<1>9. QED
  BY <1>7, <1>8 DEF Fits, Bands

(* Whatever a controller sends becomes nothing, a button, or a turn that   *)
(* fits its control.                                                       *)
LEMMA EventOfType ==
  ASSUME LoadedMapping, NEW msg \in Messages, EventOf(msg) # None
  PROVE  /\ EventOf(msg) \in ListenerEvent
         /\ EventOf(msg) \in Turn => Fits(Control(EventOf(msg)), Setting(EventOf(msg)))
<1> DEFINE b == Binding(msg)
<1>1. ~msg.short /\ b # None
  <2>1. msg.short \in BOOLEAN
    BY PartsAssumption DEF MidiInputConstants
  <2>2. CASE msg.short \/ b = None
    BY <2>2 DEF EventOf
  <2>3. QED
    BY <2>1, <2>2
<1>2. LookupKey(msg) \in DOMAIN mapping
  BY <1>1 DEF Binding
<1>3. /\ b = mapping[LookupKey(msg)] /\ Valid(b)
      /\ msg.status = "note_on" => b \in NoteBinding
      /\ msg.status = "cc" => b \in CcBinding
      /\ msg.status = "pitch_bend" => b \in PitchBendBinding
  BY <1>2, LoadedBinding
<1> HIDE DEF b
<1>4. CASE msg.status = "note_on"
  <2>1. EventOf(msg) = translate_note(b)
    BY <1>1, <1>4 DEF EventOf, b
  <2>2. EventOf(msg) \in ListenerButton
    BY <1>3, <1>4, <2>1, NoteIsButton
  <2>3. ListenerButton \cap Turn = {}
    BY DEF ListenerButton, Turn
  <2>4. QED
    BY <2>2, <2>3 DEF ListenerEvent
<1>5. CASE msg.status = "cc"
  <2>1. EventOf(msg) = translate_cc(b, msg.data2)
    BY <1>1, <1>5 DEF EventOf, b
  <2>2. msg.data2 \in Nat
    BY PartsAssumption DEF MidiInputConstants
  <2>3. QED
    BY <1>2, <1>3, <1>5, <2>1, <2>2, KnobIsTurn DEF ListenerEvent
<1>6. CASE msg.status = "pitch_bend"
  <2>1. EventOf(msg) = translate_pitch_bend(b, msg)
    BY <1>1, <1>6 DEF EventOf, b
  <2>2. QED
    BY <1>3, <1>6, <2>1, WheelIsTurn DEF ListenerEvent
<1>7. CASE msg.status \notin {"note_on", "cc", "pitch_bend"}
  BY <1>1, <1>7 DEF EventOf, b
<1>8. QED
  BY <1>4, <1>5, <1>6, <1>7

\* The controls of a surface, and where an engine has them.
Controls == (DeckId \X (Bands \cup {"pitch"})) \cup {<<"master", "crossfader">>}
Stood(e, c) ==
  CASE c[2] = "crossfader" -> e.crossfader
    [] c[2] = "pitch" -> e.deck[c[1]].pitch_semitones
    [] OTHER -> e.deck[c[1]].eq[c[2]]

LEMMA ListenerEventKind == ListenerEvent \subseteq EventKind
<1>1. ListenerButton \subseteq DeckEvent
  BY DEF ListenerButton, DeckEvent, PlainDeckEvent, CueSlots
<1>2. Turn \subseteq DeckEvent \cup MasterEvent
  BY DEF Turn, DeckEvent, MasterEvent, PitchRange, Percent, Real32
<1>3. QED
  BY <1>1, <1>2 DEF ListenerEvent, EventKind

(* A button moves neither a band nor the pitch of a deck. *)
LEMMA ButtonSparesDeck ==
  ASSUME NEW d \in Deck, NEW ev \in ListenerButton
  PROVE  DeckAfter(d, ev).eq = d.eq /\ DeckAfter(d, ev).pitch_semitones = d.pitch_semitones
<1>1. CASE ev.kind = "DeckPlay"
  <2>1. DeckAfter(d, ev) = [d EXCEPT !.playing = TRUE]
    BY <1>1 DEF DeckAfter, SlotKinds
  <2>2. QED BY <2>1 DEF Deck
<1>2. CASE ev.kind = "LoopIn"
  <2>1. DeckAfter(d, ev) = [d EXCEPT !.loop_in_ms = d.position_ms]
    BY <1>2 DEF DeckAfter, SlotKinds
  <2>2. QED BY <2>1 DEF Deck
<1>3. CASE ev.kind = "LoopOut"
  <2>1. DeckAfter(d, ev) = LoopOut(d)
    BY <1>3 DEF DeckAfter, SlotKinds
  <2>2. QED BY <2>1 DEF Deck, LoopOut
<1>4. CASE ev.kind = "LoopExit"
  <2>1. DeckAfter(d, ev) = LoopExit(d)
    BY <1>4 DEF DeckAfter, SlotKinds
  <2>2. QED BY <2>1 DEF Deck, LoopExit
<1>5. CASE ev.kind = "CopilotEngage"
  <2>1. DeckAfter(d, ev) = [d EXCEPT !.copilot_engaged = TRUE]
    BY <1>5 DEF DeckAfter, SlotKinds
  <2>2. QED BY <2>1 DEF Deck
<1>6. CASE ev.kind = "DeckCue"
  <2>1. DeckAfter(d, ev) = [d EXCEPT !.position_ms = ev.position_ms]
    BY <1>6 DEF DeckAfter, SlotKinds
  <2>2. QED BY <2>1 DEF Deck
<1>7. CASE ev.kind = "HotCueTrigger"
  <2>1. DeckAfter(d, ev) = HotCueTrigger(d, ev)
    BY <1>7 DEF DeckAfter, SlotKinds
  <2>2. QED BY <2>1 DEF Deck, HotCueTrigger
<1>8. CASE ev.kind = "TakeOver"
  <2>1. DeckAfter(d, ev) = TakeOver(d, ev)
    BY <1>8 DEF DeckAfter, SlotKinds
  <2>2. QED BY <2>1 DEF Deck, TakeOver
<1>9. QED
  BY <1>1, <1>2, <1>3, <1>4, <1>5, <1>6, <1>7, <1>8 DEF ListenerButton

(* An event of a deck replaces the deck and nothing else. *)
LEMMA DeckReplaced ==
  ASSUME NEW e \in EngineStateType, NEW ev \in ListenerButton \cup Turn, ev.kind # "Crossfader"
  PROVE  /\ Apply(e, ev).crossfader = e.crossfader
         /\ ev.deck \in DeckId /\ e.deck[ev.deck] \in Deck
         /\ \A d \in DeckId :
              Apply(e, ev).deck[d] = IF d = ev.deck THEN DeckAfter(e.deck[d], ev) ELSE e.deck[d]
<1>1. ev.deck \in DeckId /\ ev.kind \notin MasterKinds
  BY DEF ListenerButton, Turn, MasterKinds
<1>2. e.deck \in DeckPair
  BY DEF EngineStateType
<1> DEFINE after == DeckAfter(e.deck[ev.deck], ev)
<1>3. Apply(e, ev) = [e EXCEPT !.deck = [e.deck EXCEPT ![ev.deck] = after]]
  BY <1>1 DEF Apply
<1> HIDE DEF after
<1>4. /\ Apply(e, ev).crossfader = e.crossfader
      /\ Apply(e, ev).deck = [e.deck EXCEPT ![ev.deck] = after]
  BY <1>3 DEF EngineStateType
<1>5. \A d \in DeckId : Apply(e, ev).deck[d] = IF d = ev.deck THEN after ELSE e.deck[d]
  BY <1>1, <1>2, <1>4 DEF DeckPair
<1>6. QED
  BY <1>1, <1>2, <1>4, <1>5 DEF DeckPair, after

LEMMA ButtonSpares ==
  ASSUME NEW e \in EngineStateType, NEW ev \in ListenerButton, NEW c \in Controls
  PROVE  Stood(Apply(e, ev), c) = Stood(e, c)
<1>1. ev.kind # "Crossfader"
  BY DEF ListenerButton
<1>2. CASE c = <<"master", "crossfader">>
  BY <1>1, <1>2, DeckReplaced DEF Stood
<1>3. CASE c \in DeckId \X (Bands \cup {"pitch"})
  <2>1. c[1] \in DeckId /\ c[2] # "crossfader"
    BY <1>3 DEF Bands
  <2> DEFINE before == e.deck[c[1]]
             after == Apply(e, ev).deck[c[1]]
  <2>2. after.eq = before.eq /\ after.pitch_semitones = before.pitch_semitones
    <3>1. CASE c[1] = ev.deck
      BY <1>1, <2>1, <3>1, DeckReplaced, ButtonSparesDeck
    <3>2. CASE c[1] # ev.deck
      BY <1>1, <2>1, <3>2, DeckReplaced
    <3>3. QED
      BY <3>1, <3>2
  <2>3. QED
    BY <2>1, <2>2 DEF Stood
<1>4. QED
  BY <1>2, <1>3 DEF Controls

(* A turn sets its own control and no other. *)
LEMMA TurnSets ==
  ASSUME NEW e \in EngineStateType, NEW ev \in Turn, NEW c \in Controls
  PROVE  /\ Control(ev) \in Controls
         /\ Stood(Apply(e, ev), c)
              = IF c = Control(ev) THEN Landed(c, Setting(ev)) ELSE Stood(e, c)
<1>1. CASE ev.kind = "Crossfader"
  <2>1. Control(ev) = <<"master", "crossfader">> /\ Setting(ev) = ev.value /\ ev.value \in 0..100
    BY <1>1 DEF Control, Setting, Turn, Percent
  <2>2. Apply(e, ev) = [e EXCEPT !.crossfader = clamp_unit(ev.value)]
    BY <1>1 DEF Apply, MasterKinds, MasterAfter
  <2>3. clamp_unit(ev.value) = ev.value
    BY <2>1 DEF clamp_unit, Clamp
  <2>4. Apply(e, ev).crossfader = ev.value /\ Apply(e, ev).deck = e.deck
    BY <2>2, <2>3 DEF EngineStateType
  <2>5. CASE c = <<"master", "crossfader">>
    BY <2>1, <2>4, <2>5 DEF Stood, Landed, Bands, Controls
  <2>6. CASE c \in DeckId \X (Bands \cup {"pitch"})
    <3>1. c[2] # "crossfader" /\ c # Control(ev)
      BY <2>1, <2>6 DEF Bands
    <3>2. QED
      BY <2>1, <2>4, <3>1 DEF Stood, Controls
  <2>7. QED
    BY <2>5, <2>6 DEF Controls
<1>2. CASE ev.kind # "Crossfader"
  <2> DEFINE d == e.deck[ev.deck]
             after == DeckAfter(d, ev)
  <2>1. ev.deck \in DeckId /\ d \in Deck /\ Apply(e, ev).crossfader = e.crossfader
    BY <1>2, DeckReplaced
  <2>2. ASSUME NEW x \in DeckId
        PROVE  Apply(e, ev).deck[x] = IF x = ev.deck THEN after ELSE e.deck[x]
    <3>1. Apply(e, ev).deck[x] = IF x = ev.deck THEN DeckAfter(e.deck[x], ev) ELSE e.deck[x]
      BY <1>2, DeckReplaced
    <3>2. QED
      BY <3>1
  <2> HIDE DEF d
  <2>3. CASE ev.kind = "EqAdjust"
    <3>1. Control(ev) = <<ev.deck, ev.band>> /\ Setting(ev) = ev.value_db /\ ev.band \in Bands
      BY <2>3 DEF Control, Setting, Turn
    <3>2. after = [d EXCEPT !.eq[ev.band] = Clamp(ev.value_db, -260, 60)]
      BY <2>3 DEF DeckAfter, SlotKinds, EqAdjust
    <3>3. /\ after.pitch_semitones = d.pitch_semitones
          /\ \A b \in Bands : after.eq[b] = IF b = ev.band THEN Clamp(ev.value_db, -260, 60)
                                           ELSE d.eq[b]
      BY <2>1, <3>1, <3>2 DEF Deck, EqGains
    <3> HIDE DEF after
    <3>4. CASE c = <<"master", "crossfader">>
      <4>1. c # Control(ev)
        BY <2>1, <3>1, <3>4 DEF DeckId
      <4>2. QED
        BY <2>1, <3>1, <3>4, <4>1 DEF Stood, Controls
    <3>5. CASE c \in DeckId \X {"pitch"}
      <4>1. c[1] \in DeckId /\ c[2] = "pitch" /\ c # Control(ev)
        BY <3>1, <3>5 DEF Bands
      <4>2. Apply(e, ev).deck[c[1]].pitch_semitones = e.deck[c[1]].pitch_semitones
        BY <2>2, <3>3, <4>1 DEF d
      <4>3. QED
        BY <2>1, <3>1, <4>1, <4>2 DEF Stood, Controls
    <3>6. CASE c \in DeckId \X Bands
      <4>1. c[1] \in DeckId /\ c[2] \in Bands /\ c[2] \notin {"pitch", "crossfader"}
        BY <3>6 DEF Bands
      <4>2. c = Control(ev) <=> c[1] = ev.deck /\ c[2] = ev.band
        BY <3>1, <3>6
      <4>3. Stood(Apply(e, ev), c) = Apply(e, ev).deck[c[1]].eq[c[2]]
            /\ Stood(e, c) = e.deck[c[1]].eq[c[2]]
        BY <4>1 DEF Stood
      <4>4. Landed(c, Setting(ev)) = Clamp(ev.value_db, -260, 60)
        BY <3>1, <4>1 DEF Landed, DEFAULT_EQ_DB_LO, DEFAULT_EQ_DB_HI
      <4>5. Control(ev) \in Controls
        BY <2>1, <3>1 DEF Controls
      <4>6. CASE c[1] = ev.deck
        <5>1. Apply(e, ev).deck[c[1]] = after /\ e.deck[c[1]] = d
          BY <2>2, <4>1, <4>6 DEF d
        <5>2. QED
          BY <3>3, <4>1, <4>2, <4>3, <4>4, <4>5, <4>6, <5>1
      <4>7. CASE c[1] # ev.deck
        BY <2>2, <4>1, <4>2, <4>3, <4>5, <4>7
      <4>8. QED
        BY <4>6, <4>7
    <3>7. QED
      BY <3>4, <3>5, <3>6 DEF Controls
  <2>4. CASE ev.kind = "PitchBend"
    <3>1. Control(ev) = <<ev.deck, "pitch">> /\ Setting(ev) = ev.semitones
          /\ ev.semitones \in -120..120
      BY <2>4 DEF Control, Setting, Turn, PitchRange
    <3>2. after = [d EXCEPT !.pitch_semitones = clamp_pitch_semitones(ev.semitones)]
      BY <2>4 DEF DeckAfter, SlotKinds
    <3>3. clamp_pitch_semitones(ev.semitones) = ev.semitones
      <4>1. NonFinite \notin Int
        BY ConstantsAssumption
      <4> DEFINE v == ev.semitones
      <4>2. v \in Int /\ v # NonFinite /\ v >= -120 /\ v <= 120
        BY <3>1, <4>1
      <4> HIDE DEF v
      <4>3. Clamp(v, -120, 120) = v
        BY <4>2 DEF Clamp
      <4>4. QED
        BY <4>2, <4>3 DEF clamp_pitch_semitones, v
    <3>4. after.pitch_semitones = ev.semitones /\ after.eq = d.eq
      BY <2>1, <3>2, <3>3 DEF Deck
    <3> HIDE DEF after
    <3>5. Control(ev) \in Controls
      BY <2>1, <3>1 DEF Controls
    <3>6. CASE c = <<"master", "crossfader">>
      <4>1. c # Control(ev)
        BY <3>1, <3>6
      <4>2. QED
        BY <2>1, <3>5, <3>6, <4>1 DEF Stood
    <3>7. CASE c \in DeckId \X {"pitch"}
      <4>1. c[1] \in DeckId /\ c[2] = "pitch"
        BY <3>7
      <4>2. c = Control(ev) <=> c[1] = ev.deck
        BY <3>1, <3>7
      <4>3. Stood(Apply(e, ev), c) = Apply(e, ev).deck[c[1]].pitch_semitones
            /\ Stood(e, c) = e.deck[c[1]].pitch_semitones
        BY <4>1 DEF Stood
      <4>4. Landed(c, Setting(ev)) = ev.semitones
        BY <3>1, <4>1 DEF Landed, Bands
      <4>5. QED
        BY <2>2, <3>4, <3>5, <4>1, <4>2, <4>3, <4>4
    <3>8. CASE c \in DeckId \X Bands
      <4>1. c[1] \in DeckId /\ c[2] \in Bands /\ c[2] \notin {"pitch", "crossfader"}
            /\ c # Control(ev)
        BY <3>1, <3>8 DEF Bands
      <4>2. Apply(e, ev).deck[c[1]].eq = e.deck[c[1]].eq
        BY <2>2, <3>4, <4>1 DEF d
      <4>3. QED
        BY <3>5, <4>1, <4>2 DEF Stood
    <3>9. QED
      BY <3>6, <3>7, <3>8 DEF Controls
  <2>5. QED
    BY <1>2, <2>3, <2>4 DEF Turn
<1>3. QED
  BY <1>1, <1>2

\* The last turn of a control still on its way.
LastTurn(c, i) ==
  /\ Control(channel[i].kind) = c
  /\ \A j \in DOMAIN channel : j > i => Control(channel[j].kind) # c

\* The last turn of a control is on its way, or the control stands by it.
TurnKept(c) ==
  \/ \E i \in DOMAIN channel : LastTurn(c, i) /\ Setting(channel[i].kind) = last[c].to
  \/ /\ \A i \in DOMAIN channel : Control(channel[i].kind) # c
     /\ StandsAt(c) = Landed(c, last[c].to)

ListenerTypes ==
  /\ LoadedMapping /\ next_id \in Nat /\ engine \in EngineStateType
  /\ channel \in Seq([id : Nat, kind : ListenerEvent]) /\ Len(channel) <= ChannelCapacity
  /\ \A c \in DOMAIN last : c \in Controls \ {None} /\ Fits(c, last[c].to)

ListenerInv == ListenerTypes /\ \A c \in DOMAIN last : last[c].lost \/ TurnKept(c)

LEMMA ListenerInitInv == ListenerInit => ListenerInv
<1> SUFFICES ASSUME ListenerInit PROVE ListenerInv
  OBVIOUS
<1>1. LoadedMapping
  <2>1. PICK f \in Mappings : mapping = from_json_str(f) /\ mapping # None
    BY DEF ListenerInit
  <2>2. QED
    BY <2>1 DEF from_json_str, LoadedMapping
<1>2. channel = <<>> /\ next_id = 1 /\ engine = DefaultState /\ last = <<>>
  BY DEF ListenerInit
<1>3. DOMAIN last = {}
  BY <1>2
<1>4. ChannelCapacity \in Nat
  BY PartsAssumption DEF MidiInputConstants
<1>5. QED
  BY <1>1, <1>2, <1>3, <1>4, DefaultStateType DEF ListenerInv, ListenerTypes

(* The events on their way, one by one. *)
LEMMA OnItsWay ==
  ASSUME ListenerTypes, NEW i \in DOMAIN channel
  PROVE  channel[i].kind \in ListenerEvent
<1>1. channel \in Seq([id : Nat, kind : ListenerEvent])
  BY DEF ListenerTypes
<1> DEFINE S == [id : Nat, kind : ListenerEvent]
<1> HIDE DEF S
<1>2. channel \in Seq(S)
  BY <1>1 DEF S
<1>3. channel[i] \in S
  BY <1>2
<1>4. QED
  BY <1>3 DEF S

(* What a button sets is nothing a turn could set. *)
LEMMA ControlOfEvent ==
  ASSUME NEW ev \in ListenerEvent
  PROVE  /\ ev \in ListenerButton => Control(ev) = None
         /\ ev \in Turn => Control(ev) \in Controls
<1>1. ev \in ListenerButton => Control(ev) = None
  BY DEF ListenerButton, Control
<1>2. ASSUME ev \in Turn PROVE Control(ev) \in Controls
  BY <1>2 DEF Turn, Control, Controls
<1>3. QED
  BY <1>1, <1>2

LEMMA HandleTypes ==
  ASSUME ListenerTypes, NEW msg \in Messages, handle_midi_message(msg)
  PROVE  ListenerTypes'
<1> DEFINE kind == EventOf(msg)
           ev == [id |-> next_id, kind |-> kind]
<1>1. mapping' = mapping /\ engine' = engine /\ LoadedMapping
  BY DEF handle_midi_message, ListenerTypes
<1>2. LoadedMapping'
  BY <1>1 DEF LoadedMapping
<1>3. CASE kind = None
  <2>1. UNCHANGED <<channel, next_id, last>>
    BY <1>3 DEF handle_midi_message
  <2>2. (\A c \in DOMAIN last : c \in Controls \ {None} /\ Fits(c, last[c].to))'
    BY <1>1, <2>1 DEF ListenerTypes, Fits, WiderThanReducer
  <2>3. QED
    BY <1>1, <1>2, <2>1, <2>2 DEF ListenerTypes
<1>4. CASE kind # None
  <2>1. /\ kind \in ListenerEvent
        /\ kind \in Turn => Fits(Control(kind), Setting(kind))
    BY <1>1, <1>4, EventOfType
  <2>2. /\ next_id' = next_id + 1 /\ TrySend(ev)
        /\ last' = IF Control(kind) = None THEN last
                   ELSE [c \in DOMAIN last \cup {Control(kind)} |->
                           IF c # Control(kind) THEN last[c]
                           ELSE [to |-> Setting(kind), lost |-> Len(channel) = ChannelCapacity]]
    BY <1>4 DEF handle_midi_message
  <2>3. /\ channel \in Seq([id : Nat, kind : ListenerEvent]) /\ next_id \in Nat
        /\ Len(channel) <= ChannelCapacity
    BY DEF ListenerTypes
  <2>4. ev \in [id : Nat, kind : ListenerEvent]
    BY <2>1, <2>3
  <2>5. ChannelCapacity \in Nat
    BY PartsAssumption DEF MidiInputConstants
  <2>6. /\ channel' \in Seq([id : Nat, kind : ListenerEvent])
        /\ Len(channel') <= ChannelCapacity
    <3> HIDE DEF ev
    <3>1. CASE Len(channel) < ChannelCapacity
      <4>1. channel' = Append(channel, ev)
        BY <2>2, <3>1 DEF TrySend
      <4>2. QED
        BY <2>3, <2>4, <2>5, <3>1, <4>1
    <3>2. CASE ~(Len(channel) < ChannelCapacity)
      BY <2>2, <2>3, <3>2 DEF TrySend
    <3>3. QED
      BY <3>1, <3>2
  <2>7. ASSUME NEW c \in DOMAIN last'
        PROVE  c \in Controls \ {None} /\ Fits(c, last'[c].to)
    <3> DEFINE r == [to |-> Setting(kind), lost |-> Len(channel) = ChannelCapacity]
    <3>1. CASE Control(kind) = None
      BY <2>2, <2>7, <3>1 DEF ListenerTypes
    <3>2. CASE Control(kind) # None
      <4>1. last' = [x \in DOMAIN last \cup {Control(kind)} |->
                       IF x # Control(kind) THEN last[x] ELSE r]
        BY <2>2, <3>2
      <4>2. kind \in Turn
        BY <2>1, <3>2, ControlOfEvent DEF ListenerEvent
      <4>3. Control(kind) \in Controls /\ Fits(Control(kind), r.to)
        BY <2>1, <4>2, ControlOfEvent
      <4> HIDE DEF r
      <4>4. /\ c \in DOMAIN last \cup {Control(kind)}
            /\ last'[c] = IF c # Control(kind) THEN last[c] ELSE r
        BY <2>7, <4>1
      <4>5. QED
        BY <3>2, <4>3, <4>4 DEF ListenerTypes
    <3>3. QED
      BY <3>1, <3>2
  <2>8. (\A c \in DOMAIN last : c \in Controls \ {None} /\ Fits(c, last[c].to))'
    BY <1>1, <2>7 DEF Fits, WiderThanReducer
  <2>9. next_id' \in Nat /\ engine' \in EngineStateType
    BY <1>1, <2>2, <2>3 DEF ListenerTypes
  <2> HIDE DEF kind, ev
  <2>10. QED
    BY <1>2, <2>6, <2>8, <2>9 DEF ListenerTypes
<1>5. QED
  BY <1>3, <1>4

LEMMA FirstOfChannel ==
  ASSUME ListenerTypes, channel # <<>>
  PROVE  Head(channel) = channel[1]
BY DEF ListenerTypes

(* The control thread takes the first event and applies it. *)
LEMMA FoldTypes ==
  ASSUME ListenerTypes, Fold
  PROVE  ListenerTypes'
<1>1. /\ channel # <<>> /\ channel' = Tail(channel)
      /\ engine' = Apply(engine, channel[1].kind)
      /\ UNCHANGED <<mapping, next_id, messages, last>>
  BY FirstOfChannel DEF Fold
<1> DEFINE S == [id : Nat, kind : ListenerEvent]
<1>2. /\ channel \in Seq(S) /\ Len(channel) <= ChannelCapacity /\ engine \in EngineStateType
      /\ LoadedMapping /\ next_id \in Nat
  BY DEF ListenerTypes
<1>3. ChannelCapacity \in Nat
  BY PartsAssumption DEF MidiInputConstants
<1> HIDE DEF S
<1>4. 1 \in DOMAIN channel
  BY <1>1, <1>2
<1>5. engine' \in EngineStateType
  BY <1>1, <1>2, <1>4, OnItsWay, ListenerEventKind, ApplyType
<1>6. channel' \in Seq(S) /\ Len(channel') <= ChannelCapacity
  BY <1>1, <1>2, <1>3
<1>7. LoadedMapping' /\ next_id' \in Nat
  BY <1>1, <1>2 DEF LoadedMapping
<1>8. (\A c \in DOMAIN last : c \in Controls \ {None} /\ Fits(c, last[c].to))'
  BY <1>1 DEF ListenerTypes, Fits, WiderThanReducer
<1>9. QED
  BY <1>5, <1>6, <1>7, <1>8 DEF ListenerTypes, S

(* A new event comes behind all others. *)
LEMMA HandleKeeps ==
  ASSUME ListenerInv, NEW msg \in Messages, handle_midi_message(msg), NEW c \in DOMAIN last'
  PROVE  last'[c].lost \/ TurnKept(c)'
<1> DEFINE kind == EventOf(msg)
           ev == [id |-> next_id, kind |-> kind]
<1>1. mapping' = mapping /\ engine' = engine /\ LoadedMapping /\ ListenerTypes
  BY DEF handle_midi_message, ListenerInv, ListenerTypes
<1>2. StandsAt(c)' = StandsAt(c)
  BY <1>1 DEF StandsAt
<1>3. CASE kind = None
  <2>1. UNCHANGED <<channel, next_id, last>>
    BY <1>3 DEF handle_midi_message
  <2>2. last[c].lost \/ TurnKept(c)
    BY <2>1 DEF ListenerInv
  <2>3. TurnKept(c) => TurnKept(c)'
    BY <1>2, <2>1 DEF TurnKept, LastTurn
  <2>4. QED
    BY <2>1, <2>2, <2>3
<1>4. CASE kind # None
  <2>1. kind \in ListenerEvent
    BY <1>1, <1>4, EventOfType
  <2>2. /\ TrySend(ev)
        /\ last' = IF Control(kind) = None THEN last
                   ELSE [x \in DOMAIN last \cup {Control(kind)} |->
                           IF x # Control(kind) THEN last[x]
                           ELSE [to |-> Setting(kind), lost |-> Len(channel) = ChannelCapacity]]
    BY <1>4 DEF handle_midi_message
  <2>3. /\ channel \in Seq([id : Nat, kind : ListenerEvent]) /\ Len(channel) \in Nat
        /\ Len(channel) <= ChannelCapacity /\ ChannelCapacity \in Nat
    BY <1>1, PartsAssumption DEF ListenerTypes, MidiInputConstants
  <2>4. CASE c = Control(kind) /\ c # None
    <3>1. /\ last'[c].to = Setting(kind)
          /\ last'[c].lost = (Len(channel) = ChannelCapacity)
      BY <2>2, <2>4
    <3>2. CASE Len(channel) = ChannelCapacity
      BY <3>1, <3>2
    <3>3. CASE Len(channel) # ChannelCapacity
      <4>1. channel' = Append(channel, ev)
        BY <2>2, <2>3, <3>3 DEF TrySend
      <4>2. PICK n \in DOMAIN channel' :
              channel'[n] = ev /\ \A j \in DOMAIN channel' : ~(j > n)
        <5>1. /\ Len(channel) + 1 \in DOMAIN channel' /\ channel'[Len(channel) + 1] = ev
              /\ \A j \in DOMAIN channel' : ~(j > Len(channel) + 1)
          BY <2>3, <4>1
        <5>2. QED
          BY <5>1
      <4>3. channel'[n].kind = kind
        BY <4>2
      <4> HIDE DEF ev, kind
      <4>4. LastTurn(c, n)'
        BY <2>4, <4>2, <4>3 DEF LastTurn
      <4>5. QED
        BY <3>1, <4>2, <4>3, <4>4 DEF TurnKept
    <3>4. QED
      BY <3>2, <3>3
  <2>5. CASE ~(c = Control(kind) /\ c # None)
    <3>1. c \in DOMAIN last /\ last'[c] = last[c]
      BY <2>2, <2>5
    <3>2. c # None
      BY <1>1, <3>1 DEF ListenerTypes
    <3>3. Control(kind) # c
      BY <2>5, <3>2
    <3>4. last[c].lost \/ TurnKept(c)
      BY <3>1 DEF ListenerInv
    <3>5. CASE Len(channel) < ChannelCapacity
      <4>1. channel' = Append(channel, ev)
        BY <2>2, <3>5 DEF TrySend
      <4> DEFINE n == Len(channel) + 1
      <4>2. /\ DOMAIN channel' = DOMAIN channel \cup {n}
            /\ \A i \in DOMAIN channel : channel'[i] = channel[i]
            /\ channel'[n] = ev
        BY <2>3, <4>1
      <4>3. channel'[n].kind = kind
        BY <4>2
      <4> HIDE DEF n, ev, kind
      <4>4. ASSUME NEW i \in DOMAIN channel, LastTurn(c, i), Setting(channel[i].kind) = last[c].to
            PROVE  TurnKept(c)'
        <5>1. LastTurn(c, i)'
          BY <3>3, <4>2, <4>3, <4>4 DEF LastTurn
        <5>2. Setting(channel'[i].kind) = last'[c].to
          BY <3>1, <4>2, <4>4
        <5>3. QED
          BY <4>2, <5>1, <5>2 DEF TurnKept
      <4>5. ASSUME \A i \in DOMAIN channel : Control(channel[i].kind) # c,
                   StandsAt(c) = Landed(c, last[c].to)
            PROVE  TurnKept(c)'
        <5>1. \A i \in DOMAIN channel' : Control(channel'[i].kind) # c
          BY <3>3, <4>2, <4>3, <4>5
        <5>2. StandsAt(c)' = Landed(c, last'[c].to)
          BY <1>2, <3>1, <4>5
        <5>3. QED
          BY <5>1, <5>2 DEF TurnKept
      <4>6. QED
        BY <3>1, <3>4, <4>4, <4>5 DEF TurnKept
    <3>6. CASE ~(Len(channel) < ChannelCapacity)
      <4>1. channel' = channel
        BY <2>2, <3>6 DEF TrySend
      <4>2. TurnKept(c) => TurnKept(c)'
        BY <1>2, <3>1, <4>1 DEF TurnKept, LastTurn
      <4>3. QED
        BY <3>1, <3>4, <4>2
    <3>7. QED
      BY <3>5, <3>6
  <2>6. QED
    BY <2>4, <2>5
<1>5. QED
  BY <1>3, <1>4

(* An event that is applied leaves the others in order, and the control it *)
(* turned where it was turned to.                                          *)
LEMMA FoldKeeps ==
  ASSUME ListenerInv, Fold, NEW c \in DOMAIN last
  PROVE  last[c].lost \/ TurnKept(c)'
<1> DEFINE ev == channel[1].kind
<1>1. /\ channel # <<>> /\ channel' = Tail(channel) /\ last' = last
      /\ engine' = Apply(engine, ev)
  BY FirstOfChannel DEF Fold, ListenerInv
<1>2. ListenerTypes /\ engine \in EngineStateType /\ c \in Controls /\ c # None
  BY DEF ListenerInv, ListenerTypes
<1>3. channel \in Seq([id : Nat, kind : ListenerEvent])
  BY <1>2 DEF ListenerTypes
<1>4. 1 \in DOMAIN channel
  BY <1>1, <1>3
<1>5. ev \in ListenerEvent
  BY <1>2, <1>4, OnItsWay
<1>6. /\ DOMAIN channel' = 1..(Len(channel) - 1) /\ Len(channel) \in Nat
      /\ DOMAIN channel = 1..Len(channel)
      /\ \A i \in 1..(Len(channel) - 1) : channel'[i] = channel[i + 1]
  BY <1>1, <1>3
<1>7. StandsAt(c) = Stood(engine, c) /\ StandsAt(c)' = Stood(engine', c)
  BY DEF StandsAt, Stood
<1>8. Control(ev) # c => StandsAt(c)' = StandsAt(c)
  <2>1. CASE ev \in ListenerButton
    BY <1>1, <1>2, <1>7, <2>1, ButtonSpares
  <2>2. CASE ev \in Turn
    BY <1>1, <1>2, <1>7, <2>2, TurnSets
  <2>3. QED
    BY <1>5, <2>1, <2>2 DEF ListenerEvent
<1>9. Control(ev) = c => StandsAt(c)' = Landed(c, Setting(ev))
  <2>1. Control(ev) = c => ev \in Turn
    BY <1>2, <1>5, ControlOfEvent DEF ListenerEvent
  <2>2. QED
    BY <1>1, <1>2, <1>7, <2>1, TurnSets
<1> HIDE DEF ev
<1>10. last[c].lost \/ TurnKept(c)
  BY DEF ListenerInv
<1>11. ASSUME NEW i \in DOMAIN channel, LastTurn(c, i), Setting(channel[i].kind) = last[c].to
       PROVE  TurnKept(c)'
  <2>1. CASE i = 1
    <3>1. Control(ev) = c /\ Setting(ev) = last[c].to
      BY <1>11, <2>1 DEF LastTurn, ev
    <3>2. \A j \in DOMAIN channel' : Control(channel'[j].kind) # c
      <4>1. ASSUME NEW j \in DOMAIN channel' PROVE Control(channel'[j].kind) # c
        <5>1. j + 1 \in DOMAIN channel /\ j + 1 > i /\ channel'[j] = channel[j + 1]
          BY <1>6, <2>1
        <5>2. QED
          BY <1>11, <5>1 DEF LastTurn
      <4>2. QED
        BY <4>1
    <3>3. StandsAt(c)' = Landed(c, last'[c].to)
      BY <1>1, <1>9, <3>1
    <3>4. QED
      BY <3>2, <3>3 DEF TurnKept
  <2>2. CASE i # 1
    <3> DEFINE k == i - 1
    <3>1. k \in DOMAIN channel' /\ channel'[k] = channel[i]
      BY <1>6, <2>2
    <3>2. \A j \in DOMAIN channel' : j > k => Control(channel'[j].kind) # c
      <4>1. ASSUME NEW j \in DOMAIN channel', j > k PROVE Control(channel'[j].kind) # c
        <5>1. j + 1 \in DOMAIN channel /\ j + 1 > i /\ channel'[j] = channel[j + 1]
          BY <1>6, <4>1
        <5>2. QED
          BY <1>11, <5>1 DEF LastTurn
      <4>2. QED
        BY <4>1
    <3> HIDE DEF k
    <3>3. LastTurn(c, k)'
      BY <1>11, <3>1, <3>2 DEF LastTurn
    <3>4. QED
      BY <1>1, <1>11, <3>1, <3>3 DEF TurnKept
  <2>3. QED
    BY <2>1, <2>2
<1>12. ASSUME \A i \in DOMAIN channel : Control(channel[i].kind) # c,
              StandsAt(c) = Landed(c, last[c].to)
       PROVE  TurnKept(c)'
  <2>1. Control(ev) # c
    BY <1>4, <1>12 DEF ev
  <2>2. \A j \in DOMAIN channel' : Control(channel'[j].kind) # c
    <3>1. ASSUME NEW j \in DOMAIN channel' PROVE Control(channel'[j].kind) # c
      <4>1. j + 1 \in DOMAIN channel /\ channel'[j] = channel[j + 1]
        BY <1>6
      <4>2. QED
        BY <1>12, <4>1
    <3>2. QED
      BY <3>1
  <2>3. StandsAt(c)' = Landed(c, last'[c].to)
    BY <1>1, <1>8, <1>12, <2>1
  <2>4. QED
    BY <2>2, <2>3 DEF TurnKept
<1>13. QED
  BY <1>10, <1>11, <1>12 DEF TurnKept

LEMMA ListenerStep == ListenerInv /\ [ListenerNext]_listener_vars => ListenerInv'
<1> SUFFICES ASSUME ListenerInv, [ListenerNext]_listener_vars PROVE ListenerInv'
  OBVIOUS
<1>1. ASSUME NEW msg \in Messages, handle_midi_message(msg) PROVE ListenerInv'
  BY <1>1, HandleTypes, HandleKeeps DEF ListenerInv
<1>2. CASE Fold
  <2>1. last' = last
    BY <1>2 DEF Fold
  <2>2. QED
    BY <1>2, <2>1, FoldTypes, FoldKeeps DEF ListenerInv
<1>3. CASE UNCHANGED listener_vars
  BY <1>3 DEF listener_vars, ListenerInv, ListenerTypes, LoadedMapping, Fits, WiderThanReducer,
              TurnKept, LastTurn, StandsAt
<1>4. QED
  BY <1>1, <1>2, <1>3 DEF ListenerNext

LEMMA ControlsHold == ListenerInv => ControlsStandWhereTurned
<1> SUFFICES ASSUME ListenerInv, channel = <<>>, NEW c \in DOMAIN last, ~last[c].lost
             PROVE  \/ StandsAt(c) = last[c].to
                    \/ WiderThanReducer(c) /\ StandsAt(c) = Landed(c, last[c].to)
  BY DEF ControlsStandWhereTurned
<1>1. DOMAIN channel = {}
  OBVIOUS
<1>2. StandsAt(c) = Landed(c, last[c].to) /\ Fits(c, last[c].to)
  BY <1>1 DEF ListenerInv, TurnKept, ListenerTypes
<1>3. CASE c[2] \in Bands
  <2>1. last[c].to \in Int /\ (last[c].to \in -260..60 \/ WiderThanReducer(c))
    BY <1>2, <1>3 DEF Fits
  <2> DEFINE v == last[c].to
  <2>2. v \in -260..60 => Clamp(v, -260, 60) = v
    <3> HIDE DEF v
    <3>1. v \in -260..60 => v \in Int /\ v >= -260 /\ v <= 60
      OBVIOUS
    <3>2. QED
      BY <3>1 DEF Clamp
  <2>3. QED
    BY <1>2, <1>3, <2>1, <2>2 DEF Landed, DEFAULT_EQ_DB_LO, DEFAULT_EQ_DB_HI
<1>4. CASE c[2] \notin Bands
  BY <1>2, <1>4 DEF Landed
<1>5. QED
  BY <1>3, <1>4

(* Once nothing is on its way, a control whose last turn was not lost      *)
(* stands where its controller left it, or at the reducer's end of an EQ   *)
(* range the mapping made wider (midi/listener.rs, midi/clamp.rs,          *)
(* state.rs).                                                              *)
THEOREM ControlsCorrect == ListenerInit /\ [][ListenerNext]_listener_vars => []ControlsStandWhereTurned
<1>1. ListenerInit => ListenerInv
  BY ListenerInitInv
<1>2. ListenerInv /\ [ListenerNext]_listener_vars => ListenerInv'
  BY ListenerStep
<1>3. ListenerInv => ControlsStandWhereTurned
  BY ControlsHold
<1>4. QED
  BY <1>1, <1>2, <1>3, PTL
=============================================================================
