---------------------------- MODULE DecodeProofs ----------------------------
(***************************************************************************)
(* For any number of slots, loads, stems and decoders, however rollbacks,  *)
(* decoder threads and reads interleave: a ring belongs to one decoder,    *)
(* and opening the stems of a track is all or nothing.  What both rest on  *)
(* is who a slot belongs to: the slots that are taken are those taken      *)
(* before the call under way and those it got, and a decoder that is not   *)
(* over is the one its slot would join.  A failure is not lost while the   *)
(* side channel has a place for every decoder, and of the samples a stream *)
(* decodes the deck hears every one once and in order.                     *)
(***************************************************************************)
EXTENDS DecodePath, SequenceTheorems, FiniteSetTheorems, WellFoundedInduction, TLAPS

Phase == {"probe", "decode", "packet", "look", "push", "ended", "failed"}

\* A decoder that waits for room has samples left to push.
Waits(phase) == phase \in {"look", "push"}
Decoder ==
  {d \in [slot : Slots, file : Files, phase : Phase, left : 0..PacketSamples, deck : Decks] :
     Waits(d.phase) => d.left # 0}

Failure ==
  [decoder : Nat, category : {"decoder_thread_panic", "mid_stream_decode_failure"}, deck : {None}]

Types ==
  /\ occupied \in [Slots -> BOOLEAN] /\ shutdown \in [Slots -> BOOLEAN]
  /\ queue \in [Slots -> Seq(Nat)] /\ join \in [Slots -> Nat \cup {None}]
  /\ decoder \in Seq(Decoder) /\ call \in Opening \cup {None}
  /\ deck \in [Decks -> Seq(Slots)] /\ loads \in 0..MaxLoads
  /\ channel \in Seq(Failure) /\ Len(channel) <= FailureCapacity

Taken == {s \in Slots : occupied[s]}
Before(c) == {s \in Slots : c.before[s]}
Distinct(q) == \A i, j \in DOMAIN q : q[i] = q[j] => i = j

\* A live decoder is the one its slot's join handle names, and a ring holds
\* samples of no other.
Owners ==
  /\ \A g \in DOMAIN decoder : ~Over(g) => join[decoder[g].slot] = g
  /\ \A s \in Slots : join[s] \in DOMAIN decoder \cup {None}
  /\ \A s \in Slots : \A i \in DOMAIN queue[s] : queue[s][i] = join[s]
  /\ \A s \in Slots : Len(queue[s]) <= RingSamples
  /\ \A s \in Slots \ Taken : join[s] = None

Held == \A d \in Decks : ToSet(deck[d]) \subseteq Taken

\* The slots of the call under way are its own, and taken.
OpenInv(c) ==
  /\ Taken = Before(c) \cup ToSet(c.got)
  /\ ToSet(c.got) \cap Before(c) = {}
  /\ Distinct(c.got)
  /\ c.step = "claim" => Len(c.got) < Len(c.files)
  /\ c.step # "claim" => c.got # <<>>
  /\ c.step = "source" => Len(c.got) <= Len(c.files) /\ join[Last(c.got)] = None
  /\ \A d \in Decks : ToSet(deck[d]) \subseteq Before(c)

Inv == Types /\ Owners /\ Held /\ (call # None => OpenInv(call))
-----------------------------------------------------------------------------
(* Sequences of slots *)

LEMMA EmptyFacts ==
  /\ \A S : <<>> \in Seq(S)
  /\ Len(<<>>) = 0 /\ DOMAIN <<>> = {} /\ ToSet(<<>>) = {} /\ Distinct(<<>>)
BY EmptySeq DEF ToSet, Distinct

LEMMA SeqFacts ==
  ASSUME NEW S, NEW q \in Seq(S)
  PROVE  /\ Len(q) \in Nat /\ DOMAIN q = 1..Len(q)
         /\ \A i \in DOMAIN q : q[i] \in S
         /\ q # <<>> => Len(q) > 0 /\ 1 \in DOMAIN q /\ Len(q) \in DOMAIN q
         /\ Len(q) = 0 => q = <<>>
<1>1. Len(q) \in Nat /\ DOMAIN q = 1..Len(q) /\ \A i \in 1..Len(q) : q[i] \in S
  BY LenProperties, ElementOfSeq
<1>2. q # <<>> => Len(q) # 0
  BY EmptySeq
<1>3. Len(q) = 0 => q = <<>>
  BY EmptySeq
<1> QED BY <1>1, <1>2, <1>3

LEMMA Appended ==
  ASSUME NEW S, NEW q \in Seq(S), NEW e \in S, NEW t, t = Append(q, e)
  PROVE  /\ t \in Seq(S) /\ Len(t) = Len(q) + 1 /\ Len(q) \in Nat
         /\ DOMAIN q = 1..Len(q) /\ DOMAIN t = 1..Len(q) + 1
         /\ \A i \in 1..Len(q) : t[i] = q[i]
         /\ t[Len(q) + 1] = e /\ t # <<>>
<1>1. /\ t \in Seq(S) /\ Len(t) = Len(q) + 1 /\ Len(q) \in Nat
      /\ DOMAIN q = 1..Len(q) /\ DOMAIN t = 1..Len(q) + 1
      /\ \A i \in 1..Len(q) : t[i] = q[i]
      /\ t[Len(q) + 1] = e
  BY AppendProperties, LenProperties
<1>2. Len(t) # 0
  BY <1>1
<1> QED BY <1>1, <1>2, EmptySeq

LEMMA AppendedSlot ==
  ASSUME NEW S, NEW q \in Seq(S), NEW e \in S, e \notin ToSet(q), Distinct(q)
  PROVE  /\ Last(Append(q, e)) = e /\ ToSet(Append(q, e)) = ToSet(q) \cup {e}
         /\ Distinct(Append(q, e))
<1>. DEFINE t == Append(q, e)
<1>1. /\ Len(t) = Len(q) + 1 /\ Len(q) \in Nat
      /\ DOMAIN q = 1..Len(q) /\ DOMAIN t = 1..Len(q) + 1
      /\ \A i \in 1..Len(q) : t[i] = q[i]
      /\ t[Len(q) + 1] = e
  BY Appended
<1>. HIDE DEF t
<1>2. Last(t) = e
  BY <1>1 DEF Last
<1>3. ToSet(t) = ToSet(q) \cup {e}
  BY <1>1 DEF ToSet
<1>4. Distinct(t)
  <2>1. \A i \in 1..Len(q) : q[i] # e
    BY <1>1 DEF ToSet
  <2> QED BY <1>1, <2>1 DEF Distinct
<1> QED BY <1>2, <1>3, <1>4 DEF t

LEMMA WithoutLast ==
  ASSUME NEW S, NEW q \in Seq(S), q # <<>>, Distinct(q)
  PROVE  /\ Front(q) \in Seq(S) /\ Last(q) \in S /\ Last(q) \in ToSet(q)
         /\ ToSet(Front(q)) = ToSet(q) \ {Last(q)} /\ Distinct(Front(q))
<1>1. Len(q) \in Nat /\ DOMAIN q = 1..Len(q) /\ Len(q) > 0 /\ \A i \in DOMAIN q : q[i] \in S
  BY SeqFacts
<1>2. PICK f, n : f = Front(q) /\ n = Len(q) - 1
  OBVIOUS
<1>3. n \in Nat /\ n + 1 = Len(q)
  BY <1>1, <1>2
<1>4. /\ f \in Seq(S) /\ Len(f) = n /\ \A i \in 1..n : f[i] = q[i]
  <2>1. f = SubSeq(q, 1, n)
    BY <1>2 DEF Front
  <2>2. \A i \in 1..n : q[i] \in S /\ 1 + i - 1 = i
    BY <1>1, <1>3
  <2> QED BY <1>1, <1>3, <2>1, <2>2, SubSeqProperties
<1>5. DOMAIN f = 1..n
  BY <1>4, LenProperties
<1>6. Last(q) = q[n + 1]
  BY <1>3 DEF Last
<1>7. ToSet(f) = ToSet(q) \ {Last(q)}
  <2>1. \A i \in 1..n : q[i] # q[n + 1]
    BY <1>1, <1>3 DEF Distinct
  <2>2. DOMAIN q = 1..n \cup {n + 1}
    BY <1>1, <1>3
  <2> QED BY <1>4, <1>5, <1>6, <2>1, <2>2 DEF ToSet
<1>8. Distinct(f)
  BY <1>1, <1>3, <1>4, <1>5 DEF Distinct
<1>9. Last(q) \in S /\ Last(q) \in ToSet(q)
  BY <1>1, <1>3, <1>6 DEF ToSet
<1> QED BY <1>2, <1>4, <1>7, <1>8, <1>9

LEMMA WithoutHead ==
  ASSUME NEW S, NEW q \in Seq(S), q # <<>>, Distinct(q)
  PROVE  /\ Tail(q) \in Seq(S) /\ Head(q) \in S /\ Head(q) \in ToSet(q)
         /\ ToSet(Tail(q)) = ToSet(q) \ {Head(q)} /\ Distinct(Tail(q))
         /\ (Len(q) = 1) <=> (Tail(q) = <<>>)
<1>1. Len(q) \in Nat /\ DOMAIN q = 1..Len(q) /\ Len(q) > 0 /\ \A i \in DOMAIN q : q[i] \in S
  BY SeqFacts
<1>2. PICK t, n : t = Tail(q) /\ n = Len(q) - 1
  OBVIOUS
<1>3. n \in Nat /\ n + 1 = Len(q)
  BY <1>1, <1>2
<1>4. /\ t \in Seq(S) /\ Len(t) = n /\ \A i \in 1..n : t[i] = q[i + 1]
      /\ Head(q) = q[1]
  BY <1>2, <1>3, HeadTailProperties
<1>5. DOMAIN t = 1..n
  BY <1>4, LenProperties
<1>6. ToSet(t) = ToSet(q) \ {Head(q)}
  <2>1. \A i \in 1..n : q[i + 1] # q[1]
    BY <1>1, <1>3 DEF Distinct
  <2>2. ASSUME NEW x \in ToSet(q), x # Head(q) PROVE x \in ToSet(t)
    <3>1. PICK i \in DOMAIN q : x = q[i]
      BY <2>2 DEF ToSet
    <3>2. i # 1
      BY <1>4, <2>2, <3>1
    <3>3. i - 1 \in 1..n /\ (i - 1) + 1 = i
      BY <1>1, <1>3, <3>2
    <3>4. t[i - 1] = x
      BY <1>4, <3>1, <3>3
    <3> QED BY <1>5, <3>3, <3>4 DEF ToSet
  <2>3. ASSUME NEW x \in ToSet(t) PROVE x \in ToSet(q) /\ x # Head(q)
    <3>1. PICK i \in 1..n : x = q[i + 1]
      BY <1>4, <1>5, <2>3 DEF ToSet
    <3>2. i + 1 \in DOMAIN q
      BY <1>1, <1>3
    <3> QED BY <1>4, <2>1, <3>1, <3>2 DEF ToSet
  <2> QED BY <2>2, <2>3
<1>7. Distinct(t)
  <2> SUFFICES ASSUME NEW i \in 1..n, NEW j \in 1..n, q[i + 1] = q[j + 1] PROVE i = j
    BY <1>4, <1>5 DEF Distinct
  <2>1. i + 1 \in DOMAIN q /\ j + 1 \in DOMAIN q
    BY <1>1, <1>3
  <2>2. i + 1 = j + 1
    BY <2>1 DEF Distinct
  <2> QED BY <1>3, <2>2
<1>8. Head(q) \in S /\ Head(q) \in ToSet(q)
  BY <1>1, <1>4 DEF ToSet
<1>9. (n + 1 = 1) <=> (t = <<>>)
  <2>1. n = 0 => t = <<>>
    BY <1>4, SeqFacts
  <2>2. t = <<>> => n = 0
    BY <1>4, EmptyFacts
  <2> QED BY <1>3, <2>1, <2>2
<1> QED BY <1>2, <1>3, <1>4, <1>6, <1>7, <1>8, <1>9
-----------------------------------------------------------------------------
(* The table of slots as a set *)

LEMMA SameTable ==
  ASSUME NEW f \in [Slots -> BOOLEAN], NEW h \in [Slots -> BOOLEAN],
         {s \in Slots : f[s]} = {s \in Slots : h[s]}
  PROVE  f = h
<1>1. \A s \in Slots : f[s] = h[s]
  <2> SUFFICES ASSUME NEW s \in Slots PROVE f[s] = h[s]
    OBVIOUS
  <2>1. f[s] \in BOOLEAN /\ h[s] \in BOOLEAN
    OBVIOUS
  <2>2. f[s] <=> h[s]
    BY Zenon
  <2>3. CASE f[s]
    <3>1. f[s] = TRUE
      BY <2>1, <2>3, Zenon
    <3>2. h[s] = TRUE
      BY <2>1, <2>2, <2>3, Zenon
    <3> QED BY <3>1, <3>2, Zenon
  <2>4. CASE ~f[s]
    <3>1. f[s] = FALSE
      BY <2>1, <2>4, Zenon
    <3>2. h[s] = FALSE
      BY <2>1, <2>2, <2>4, Zenon
    <3> QED BY <3>1, <3>2, Zenon
  <2> QED BY <2>3, <2>4, Zenon
<1> QED BY <1>1

LEMMA Takes ==
  ASSUME Types, NEW s \in Slots, occupied' = [occupied EXCEPT ![s] = TRUE]
  PROVE  occupied' \in [Slots -> BOOLEAN] /\ Taken' = Taken \cup {s}
BY DEF Types, Taken

LEMMA GivesBack ==
  ASSUME Types, NEW s \in Slots, occupied' = [occupied EXCEPT ![s] = FALSE]
  PROVE  occupied' \in [Slots -> BOOLEAN] /\ Taken' = Taken \ {s}
BY DEF Types, Taken

LEMMA NoOwnerNoSound ==
  ASSUME Types, Owners, NEW s \in Slots, join[s] = None
  PROVE  queue[s] = <<>>
<1>1. queue[s] \in Seq(Nat)
  BY DEF Types
<1>2. ASSUME queue[s] # <<>> PROVE FALSE
  <2>1. 1 \in DOMAIN queue[s] /\ queue[s][1] \in Nat
    BY <1>1, <1>2, SeqFacts
  <2>2. queue[s][1] = None
    BY <2>1 DEF Owners
  <2> QED BY <2>1, <2>2, DecodeAssumption
<1> QED BY <1>2
-----------------------------------------------------------------------------
(* The decoder threads.  A decoder that moves on keeps its slot, and only  *)
(* one that is not over moves.                                             *)

LEMMA Moved ==
  ASSUME Inv, NEW g \in DOMAIN decoder, ~Over(g),
         NEW d \in Decoder, d.slot = decoder[g].slot,
         decoder' = [decoder EXCEPT ![g] = d]
  PROVE  /\ decoder' \in Seq(Decoder) /\ DOMAIN decoder' = DOMAIN decoder
         /\ \A h \in DOMAIN decoder : decoder'[h].slot = decoder[h].slot
         /\ \A h \in DOMAIN decoder : Over(h) => Over(h)'
<1>1. decoder \in Seq(Decoder)
  BY DEF Inv, Types
<1>2. decoder' \in Seq(Decoder) /\ DOMAIN decoder' = DOMAIN decoder
  BY <1>1, ExceptSeq
<1>3. \A h \in DOMAIN decoder : decoder'[h] = IF h = g THEN d ELSE decoder[h]
  BY <1>1
<1>4. \A h \in DOMAIN decoder : Over(h) => Over(h)'
  BY <1>3 DEF Over
<1> QED BY <1>2, <1>3, <1>4

LEMMA SameDecoders ==
  ASSUME Inv, UNCHANGED control_vars,
         decoder' \in Seq(Decoder), DOMAIN decoder' = DOMAIN decoder,
         \A h \in DOMAIN decoder : decoder'[h].slot = decoder[h].slot,
         \A h \in DOMAIN decoder : Over(h) => Over(h)',
         queue' \in [Slots -> Seq(Nat)],
         \A s \in Slots : /\ Len(queue'[s]) <= RingSamples
                          /\ \A i \in DOMAIN queue'[s] : queue'[s][i] = join[s],
         channel' \in Seq(Failure), Len(channel') <= FailureCapacity
  PROVE  Inv' /\ call' = call
<1>1. /\ occupied' = occupied /\ shutdown' = shutdown /\ join' = join
      /\ call' = call /\ deck' = deck /\ loads' = loads
  BY DEF control_vars
<1>2. Types'
  BY <1>1 DEF Inv, Types
<1>3. Taken' = Taken
  BY <1>1 DEF Taken
<1>4. Owners'
  <2>1. \A h \in DOMAIN decoder' : ~Over(h)' => join'[decoder'[h].slot] = h
    BY <1>1 DEF Inv, Owners
  <2> QED BY <1>1, <1>3, <2>1 DEF Inv, Owners
<1>5. Held'
  BY <1>1, <1>3 DEF Inv, Held
<1>6. call' # None => OpenInv(call)'
  BY <1>1, <1>3 DEF Inv, OpenInv, Before
<1> QED BY <1>1, <1>2, <1>4, <1>5, <1>6 DEF Inv

LEMMA SameRings ==
  ASSUME Inv, UNCHANGED queue
  PROVE  /\ queue' \in [Slots -> Seq(Nat)]
         /\ \A s \in Slots : /\ Len(queue'[s]) <= RingSamples
                             /\ \A i \in DOMAIN queue'[s] : queue'[s][i] = join[s]
BY DEF Inv, Types, Owners

LEMMA Reported ==
  ASSUME Inv, NEW g \in DOMAIN decoder, NEW kind \in MidStreamFailureKind, Report(g, kind)
  PROVE  channel' \in Seq(Failure) /\ Len(channel') <= FailureCapacity
<1>1. channel \in Seq(Failure) /\ Len(channel) \in Nat /\ Len(channel) <= FailureCapacity
  BY LenProperties DEF Inv, Types
<1>2. PICK e : e = [decoder |-> g, category |-> category(kind), deck |-> None]
  OBVIOUS
<1>3. e \in Failure
  <2>1. g \in Nat
    BY LenProperties DEF Inv, Types
  <2> QED BY <1>2, <2>1 DEF Failure, category
<1>4. Append(channel, e) \in Seq(Failure) /\ Len(Append(channel, e)) = Len(channel) + 1
  BY <1>1, <1>3, AppendProperties
<1> QED BY <1>1, <1>2, <1>4, DecodeAssumption DEF Report

LEMMA ThreadKeeps ==
  ASSUME Inv, NEW g \in DOMAIN decoder,
         Probe(g) \/ DecodeLook(g) \/ Packet(g) \/ PushLook(g) \/ Push(g)
  PROVE  Inv' /\ call' = call
<1>1. decoder \in Seq(Decoder) /\ decoder[g] \in Decoder /\ g \in Nat /\ queue \in [Slots -> Seq(Nat)]
  BY SeqFacts DEF Inv, Types
<1>2. /\ channel \in Seq(Failure) /\ Len(channel) <= FailureCapacity
  BY DEF Inv, Types
<1>3. ASSUME NEW d \in Decoder, d.slot = decoder[g].slot, ~Over(g),
             decoder' = [decoder EXCEPT ![g] = d], UNCHANGED <<control_vars, queue>>,
             channel' \in Seq(Failure), Len(channel') <= FailureCapacity
      PROVE  Inv' /\ call' = call
  BY <1>3, Moved, SameRings, SameDecoders
<1>4. ASSUME NEW p \in Phase, NEW l \in 0..PacketSamples, Waits(p) => l # 0,
             NEW d, d = [decoder[g] EXCEPT !.phase = p, !.left = l]
      PROVE  d \in Decoder /\ d.slot = decoder[g].slot
  <2>1. PICK e \in [slot : Slots, file : Files, phase : Phase, left : 0..PacketSamples, deck : Decks] :
          e = decoder[g]
    BY <1>1 DEF Decoder
  <2>2. d = [e EXCEPT !.phase = p, !.left = l]
    BY <1>4, <2>1
  <2>3. /\ d \in [slot : Slots, file : Files, phase : Phase, left : 0..PacketSamples, deck : Decks]
        /\ d.phase = p /\ d.left = l /\ d.slot = e.slot
    BY <2>2
  <2> QED BY <1>4, <2>1, <2>3 DEF Decoder
<1>5. ASSUME NEW p \in Phase, Waits(p) => decoder[g].left # 0,
             NEW d, d = [decoder[g] EXCEPT !.phase = p]
      PROVE  d \in Decoder /\ d.slot = decoder[g].slot
  <2>1. PICK l \in 0..PacketSamples : l = decoder[g].left
    BY <1>1 DEF Decoder
  <2>2. d = [decoder[g] EXCEPT !.phase = p, !.left = l]
    <3>1. PICK e \in [slot : Slots, file : Files, phase : Phase, left : 0..PacketSamples, deck : Decks] :
            e = decoder[g]
      BY <1>1 DEF Decoder
    <3>2. [e EXCEPT !.phase = p] = [e EXCEPT !.phase = p, !.left = e.left]
      OBVIOUS
    <3> QED BY <1>5, <2>1, <3>1, <3>2
  <2>3. Waits(p) => l # 0
    BY <1>5, <2>1
  <2> QED BY <1>4, <2>2, <2>3
<1>6. ASSUME NEW p \in Phase, Waits(p) => decoder[g].left # 0, MoveTo(g, p), ~Over(g), UNCHANGED <<control_vars, queue>>,
             channel' \in Seq(Failure), Len(channel') <= FailureCapacity
      PROVE  Inv' /\ call' = call
  <2>1. PICK d : d = [decoder[g] EXCEPT !.phase = p]
    OBVIOUS
  <2>2. d \in Decoder /\ d.slot = decoder[g].slot
    BY <1>5, <1>6, <2>1
  <2>3. decoder' = [decoder EXCEPT ![g] = d]
    BY <1>6, <2>1 DEF MoveTo
  <2> QED BY <1>3, <1>6, <2>2, <2>3
<1>7. CASE Probe(g)
  <2>1. PICK p \in Phase : ~Waits(p) /\ MoveTo(g, p)
    BY <1>7 DEF Probe, Phase, Waits
  <2> QED BY <1>2, <1>6, <1>7, <2>1 DEF Probe, Over
<1>8. CASE DecodeLook(g)
  <2>1. PICK p \in Phase : ~Waits(p) /\ MoveTo(g, p)
    BY <1>8 DEF DecodeLook, Phase, Waits
  <2> QED BY <1>2, <1>6, <1>8, <2>1 DEF DecodeLook, Over
<1>9. CASE Packet(g)
  <2>1. ~Over(g) /\ UNCHANGED <<control_vars, queue>>
    BY <1>9 DEF Packet, Over
  <2>2. CASE /\ decoder' = [decoder EXCEPT ![g].phase = "look", ![g].left = PacketSamples]
             /\ UNCHANGED channel
    <3>1. PICK d : d = [decoder[g] EXCEPT !.phase = "look", !.left = PacketSamples]
      OBVIOUS
    <3>2. "look" \in Phase /\ PacketSamples \in 0..PacketSamples /\ PacketSamples # 0
      BY DecodeAssumption DEF Phase
    <3>3. d \in Decoder /\ d.slot = decoder[g].slot
      BY <1>4, <3>1, <3>2
    <3>4. decoder' = [decoder EXCEPT ![g] = d]
      BY <2>2, <3>1
    <3> QED BY <1>2, <1>3, <2>1, <2>2, <3>3, <3>4
  <2>3. CASE MoveTo(g, "ended") /\ UNCHANGED channel
    <3>1. "ended" \in Phase /\ ~Waits("ended")
      BY DEF Phase, Waits
    <3> QED BY <1>2, <1>6, <2>1, <2>3, <3>1
  <2>4. CASE MoveTo(g, "failed") /\ \E kind \in MidStreamFailureKind : Report(g, kind)
    <3>1. "failed" \in Phase /\ ~Waits("failed")
      BY DEF Phase, Waits
    <3>2. channel' \in Seq(Failure) /\ Len(channel') <= FailureCapacity
      BY <2>4, Reported
    <3> QED BY <1>6, <2>1, <2>4, <3>1, <3>2
  <2> QED BY <1>9, <2>2, <2>3, <2>4 DEF Packet
<1>10. CASE PushLook(g)
  <2>1. ~Over(g) /\ UNCHANGED <<control_vars, queue, channel>>
    BY <1>10 DEF PushLook, Over
  <2>2. CASE decoder' = [decoder EXCEPT ![g].phase = "decode", ![g].left = 0]
    <3>1. PICK d : d = [decoder[g] EXCEPT !.phase = "decode", !.left = 0]
      OBVIOUS
    <3>2. "decode" \in Phase /\ ~Waits("decode") /\ 0 \in 0..PacketSamples
      BY DecodeAssumption DEF Phase, Waits
    <3>3. d \in Decoder /\ d.slot = decoder[g].slot
      BY <1>4, <3>1, <3>2
    <3>4. decoder' = [decoder EXCEPT ![g] = d]
      BY <2>2, <3>1
    <3> QED BY <1>2, <1>3, <2>1, <2>2, <3>3, <3>4
  <2>3. CASE MoveTo(g, "push")
    <3>1. "push" \in Phase /\ decoder[g].left # 0
      BY <1>1, <1>10 DEF Phase, Decoder, PushLook, Waits
    <3> QED BY <1>2, <1>6, <2>1, <2>3, <3>1
  <2> QED BY <1>10, <2>2, <2>3 DEF PushLook
<1>11. CASE Push(g)
  <2>1. PICK s : s = decoder[g].slot
    OBVIOUS
  <2>2. s \in Slots /\ ~Over(g) /\ join[s] = g /\ UNCHANGED <<control_vars, channel>>
    BY <1>1, <1>11, <2>1 DEF Push, Over, Inv, Owners, Decoder
  <2>3. CASE Len(queue[s]) < RingSamples
    <3>1. queue' = [queue EXCEPT ![s] = Append(@, g)] /\ Pushed(g)
      BY <1>11, <2>1, <2>3 DEF Push
    <3>2. PICK q, t : q = queue[s] /\ t = Append(q, g)
      OBVIOUS
    <3>3. /\ q \in Seq(Nat) /\ Len(q) < RingSamples
          /\ \A i \in DOMAIN q : q[i] = g
      BY <1>1, <2>2, <2>3, <3>2 DEF Inv, Owners
    <3>4. /\ t \in Seq(Nat) /\ Len(t) <= RingSamples /\ \A i \in DOMAIN t : t[i] = g
      <4>1. /\ t \in Seq(Nat) /\ Len(t) = Len(q) + 1 /\ Len(q) \in Nat
            /\ DOMAIN q = 1..Len(q) /\ DOMAIN t = 1..Len(q) + 1
            /\ \A i \in 1..Len(q) : t[i] = q[i]
            /\ t[Len(q) + 1] = g
        BY <1>1, <3>2, <3>3, Appended
      <4>2. \A i \in DOMAIN t : i \in DOMAIN q \/ i = Len(q) + 1
        BY <4>1
      <4>3. \A i \in DOMAIN t : t[i] = g
        BY <3>3, <4>1, <4>2
      <4>4. Len(t) <= RingSamples
        BY <3>3, <4>1, DecodeAssumption
      <4> QED BY <4>1, <4>3, <4>4
    <3>5. queue' = [queue EXCEPT ![s] = t]
      BY <3>1, <3>2
    <3>6. /\ queue' \in [Slots -> Seq(Nat)]
          /\ \A r \in Slots : /\ Len(queue'[r]) <= RingSamples
                              /\ \A i \in DOMAIN queue'[r] : queue'[r][i] = join[r]
      BY <1>1, <2>2, <3>4, <3>5 DEF Inv, Owners
    <3>7. PICK l, p : l = decoder[g].left - 1 /\ p = IF decoder[g].left = 1 THEN "decode" ELSE "look"
      OBVIOUS
    <3>8. p \in Phase /\ l \in 0..PacketSamples /\ (Waits(p) => l # 0)
      <4>1. decoder[g].left \in 0..PacketSamples /\ decoder[g].left # 0
        BY <1>1, <1>11 DEF Push, Decoder, Waits
      <4>2. decoder[g].left = 1 => p = "decode"
        BY <3>7
      <4>3. decoder[g].left # 1 => p = "look"
        BY <3>7
      <4>4. ~Waits("decode") /\ "decode" \in Phase /\ "look" \in Phase
        BY DEF Waits, Phase
      <4>5. l \in 0..PacketSamples /\ (decoder[g].left # 1 => l # 0)
        BY <3>7, <4>1, DecodeAssumption
      <4> QED BY <4>2, <4>3, <4>4, <4>5
    <3>9. PICK d : d = [decoder[g] EXCEPT !.phase = p, !.left = l]
      OBVIOUS
    <3>10. d \in Decoder /\ d.slot = decoder[g].slot
      BY <1>4, <3>8, <3>9
    <3>11. decoder' = [decoder EXCEPT ![g] = d]
      BY <3>1, <3>7, <3>9 DEF Pushed
    <3> QED BY <1>2, <2>2, <3>6, <3>10, <3>11, Moved, SameDecoders
  <2>4. CASE ~(Len(queue[s]) < RingSamples)
    <3>1. "look" \in Phase /\ MoveTo(g, "look") /\ UNCHANGED queue /\ decoder[g].left # 0
      BY <1>1, <1>11, <2>1, <2>4 DEF Push, Phase, Decoder, Waits
    <3> QED BY <1>2, <1>6, <2>2, <3>1
  <2> QED BY <2>3, <2>4
<1> QED BY <1>7, <1>8, <1>9, <1>10, <1>11
-----------------------------------------------------------------------------
(* The audio thread and the bridge *)

LEMMA ReadKeeps == ASSUME Inv, NEW d \in Decks, Read(d) PROVE Inv' /\ call' = call
<1>1. queue \in [Slots -> Seq(Nat)] /\ channel \in Seq(Failure) /\ Len(channel) <= FailureCapacity
      /\ decoder \in Seq(Decoder)
  BY DEF Inv, Types
<1>2. PICK heard :
        queue' = [s \in Slots |-> IF s \in heard /\ occupied[s] /\ queue[s] # <<>>
                                  THEN Tail(queue[s]) ELSE queue[s]]
  BY DEF Read
<1>3. ASSUME NEW s \in Slots
      PROVE  /\ queue'[s] \in Seq(Nat) /\ Len(queue'[s]) <= RingSamples
             /\ \A i \in DOMAIN queue'[s] : queue'[s][i] = join[s]
  <2>1. PICK q : q = queue[s]
    OBVIOUS
  <2>2. /\ q \in Seq(Nat) /\ Len(q) <= RingSamples /\ \A i \in DOMAIN q : q[i] = join[s]
    BY <1>1, <2>1 DEF Inv, Owners
  <2>3. CASE queue'[s] = q
    BY <2>2, <2>3
  <2>4. CASE q # <<>> /\ queue'[s] = Tail(q)
    <3>1. PICK t, n : t = Tail(q) /\ n = Len(q) - 1
      OBVIOUS
    <3>2. Len(q) \in Nat /\ DOMAIN q = 1..Len(q) /\ Len(q) > 0
      BY <2>2, <2>4, SeqFacts
    <3>3. n \in Nat /\ n + 1 = Len(q)
      BY <3>1, <3>2
    <3>4. t \in Seq(Nat) /\ Len(t) = n /\ \A i \in 1..n : t[i] = q[i + 1]
      BY <2>2, <2>4, <3>1, <3>3, HeadTailProperties
    <3>5. DOMAIN t = 1..n
      BY <3>4, LenProperties
    <3>6. \A i \in 1..n : i + 1 \in DOMAIN q
      BY <3>2, <3>3
    <3>7. Len(t) <= RingSamples
      BY <2>2, <3>3, <3>4, DecodeAssumption
    <3> QED BY <2>2, <2>4, <3>1, <3>4, <3>5, <3>6, <3>7
  <2> QED BY <1>2, <2>1, <2>3, <2>4
<1>4. queue' \in [Slots -> Seq(Nat)]
  <2>1. queue' = [s \in Slots |-> queue'[s]]
    BY <1>2
  <2> QED BY <1>3, <2>1
<1>5. UNCHANGED <<control_vars, decoder, channel>>
  BY DEF Read
<1> QED BY <1>1, <1>3, <1>4, <1>5, SameDecoders DEF Over

LEMMA DrainKeeps == ASSUME Inv, Drain PROVE Inv' /\ call' = call
<1>1. decoder \in Seq(Decoder)
  BY DEF Inv, Types
<1>2. channel' \in Seq(Failure) /\ Len(channel') <= FailureCapacity
  BY EmptyFacts, DecodeAssumption DEF Drain
<1>3. UNCHANGED <<control_vars, queue, decoder>>
  BY DEF Drain
<1> QED BY <1>1, <1>2, <1>3, SameRings, SameDecoders DEF Over

LEMMA StutterKeeps == ASSUME Inv, UNCHANGED vars PROVE Inv' /\ call' = call
BY DEF vars, Inv, Types, Owners, Held, OpenInv, Over, Taken, Before

(* The control thread *)

LEMMA UnloadKeeps == ASSUME Inv, NEW d \in Decks, Unload(d) PROVE Inv' /\ call' = call
<1>1. /\ UNCHANGED <<occupied, shutdown, queue, join, decoder, call, loads, channel>>
      /\ deck' = [deck EXCEPT ![d] = <<>>]
  BY DEF Unload
<1>2. /\ deck' \in [Decks -> Seq(Slots)]
      /\ \A e \in Decks : deck'[e] = deck[e] \/ deck'[e] = <<>>
  BY <1>1, EmptyFacts DEF Inv, Types
<1>3. \A e \in Decks : ToSet(deck'[e]) \subseteq ToSet(deck[e])
  BY <1>2, EmptyFacts
<1>4. Types' /\ Owners'
  BY <1>1, <1>2 DEF Inv, Types, Owners, Over, Taken
<1>5. Held' /\ (call' # None => OpenInv(call)')
  BY <1>1, <1>3 DEF Inv, Held, OpenInv, Taken, Before
<1> QED BY <1>1, <1>4, <1>5 DEF Inv

LEMMA LoadKeeps ==
  ASSUME Inv, NEW d \in Decks, NEW files \in Loads, Load(d, files)
  PROVE  Inv'
<1>1. PICK c : c = [step |-> "claim", deck |-> d, files |-> files, got |-> <<>>, why |-> None,
                    before |-> occupied]
  OBVIOUS
<1>2. /\ call' = c /\ loads' = loads + 1 /\ loads < MaxLoads
      /\ UNCHANGED <<occupied, shutdown, queue, join, decoder, deck, channel>>
  BY <1>1 DEF Load
<1>3. files \in Seq(Files) /\ Len(files) \in Nat /\ Len(files) > 0
  BY DecodeAssumption, SeqFacts
<1>4. c \in Opening
  <2>1. occupied \in [Slots -> BOOLEAN] /\ <<>> \in Seq(Slots)
    BY EmptyFacts DEF Inv, Types
  <2> QED BY <1>1, <1>3, <2>1 DEF Opening
<1>5. /\ c.step = "claim" /\ c.got = <<>> /\ c.files = files /\ c.before = occupied
  BY <1>1
<1>6. Types'
  BY <1>2, <1>4, DecodeAssumption DEF Inv, Types
<1>7. Owners' /\ Held'
  BY <1>2 DEF Inv, Owners, Held, Over, Taken
<1>8. OpenInv(c)'
  <2>1. Taken' = Taken /\ Before(c)' = Taken
    BY <1>2, <1>5 DEF Taken, Before
  <2> QED BY <1>2, <1>3, <1>5, <2>1, EmptyFacts DEF OpenInv, Inv, Held
<1> QED BY <1>2, <1>6, <1>7, <1>8 DEF Inv
-----------------------------------------------------------------------------
(* An open under way *)

\* What AtomicOpen asks of a step.
AtomicStep ==
  call # None /\ call' = None =>
    IF deck' = deck THEN occupied' = call.before
    ELSE /\ Len(deck'[call.deck]) = Len(call.files)
         /\ \A s \in Slots : occupied'[s] <=>
              call.before[s] \/ s \in ToSet(deck'[call.deck])

LEMMA OpeningType ==
  ASSUME NEW c \in Opening
  PROVE  /\ c.step \in {"claim", "source", "signal", "join"} /\ c.deck \in Decks
         /\ c.files \in Seq(Files) /\ c.got \in Seq(Slots)
         /\ c.why \in DecodeError \cup {None} /\ c.before \in [Slots -> BOOLEAN] /\ c # None
BY DecodeAssumption DEF Opening

\* A call goes back to the table it found once it holds no slot.
LEMMA Restored ==
  ASSUME NEW c \in Opening, call = c, call' = None, UNCHANGED deck,
         occupied' \in [Slots -> BOOLEAN], Taken' = Before(c)
  PROVE  AtomicStep
<1>1. c.before \in [Slots -> BOOLEAN]
  BY OpeningType
<1>2. {s \in Slots : occupied'[s]} = {s \in Slots : c.before[s]}
  BY DEF Taken, Before
<1>3. occupied' = c.before
  BY <1>1, <1>2, SameTable
<1> QED BY <1>3 DEF AtomicStep

\* The rest of the slots of a call that fails are closed one by one.
LEMMA RollsBack ==
  ASSUME Inv, NEW c \in Opening, call = c, NEW opened \in Seq(Slots), opened # <<>>,
         NEW step \in {"signal", "join"}, NEW why \in DecodeError \cup {None},
         call' = [c EXCEPT !.step = step, !.got = opened, !.why = why],
         Distinct(opened), ToSet(opened) \cap Before(c) = {},
         Taken' = Before(c) \cup ToSet(opened), UNCHANGED deck
  PROVE  call' \in Opening /\ OpenInv(call)' /\ AtomicStep
<1>1. PICK e : e = [c EXCEPT !.step = step, !.got = opened, !.why = why]
  OBVIOUS
<1>2. e \in Opening
  BY <1>1 DEF Opening
<1>3. /\ e.step = step /\ e.got = opened /\ e.before = c.before /\ e # None
  BY <1>1, <1>2, OpeningType DEF Opening
<1>4. Before(e) = Before(c)
  BY <1>3 DEF Before
<1>5. \A d \in Decks : ToSet(deck'[d]) \subseteq Before(e)
  BY <1>4, OpeningType DEF Inv, OpenInv
<1>6. OpenInv(e)'
  BY <1>3, <1>4, <1>5 DEF OpenInv, Before
<1> QED BY <1>1, <1>2, <1>3, <1>6 DEF AtomicStep

LEMMA Fails ==
  ASSUME Inv, NEW c \in Opening, call = c, NEW opened \in Seq(Slots),
         NEW error \in DecodeError, Fail(error, opened),
         Distinct(opened), ToSet(opened) \cap Before(c) = {},
         occupied' \in [Slots -> BOOLEAN],
         Taken' = Before(c) \cup ToSet(opened), UNCHANGED deck
  PROVE  /\ call' \in Opening \cup {None} /\ (call' # None => OpenInv(call)')
         /\ AtomicStep
<1>1. CASE opened = <<>>
  <2>1. call' = None /\ ToSet(opened) = {}
    BY <1>1, EmptyFacts DEF Fail
  <2> QED BY <2>1, Restored
<1>2. CASE opened # <<>>
  <2>1. call' = [c EXCEPT !.step = "signal", !.got = opened, !.why = error]
    BY <1>2 DEF Fail
  <2> QED BY <1>2, <2>1, RollsBack
<1> QED BY <1>1, <1>2

LEMMA ClaimKeeps == ASSUME Inv, Claim PROVE Inv' /\ AtomicStep
<1>1. PICK c \in Opening : c = call
  BY DEF Claim, Inv, Types
<1>2. c.step = "claim" /\ OpenInv(c) /\ c.got \in Seq(Slots) /\ Len(c.got) < Len(c.files)
  BY <1>1, OpeningType DEF Claim, Inv, OpenInv
<1>3. UNCHANGED <<join, decoder, deck, loads, channel>>
  BY DEF Claim
<1>4. CASE {s \in Slots : ~occupied[s]} = {}
  <2>1. Fail("NoFreeSlot", c.got) /\ UNCHANGED <<occupied, shutdown, queue>>
    BY <1>1, <1>4 DEF Claim
  <2>2. Taken' = Taken /\ occupied' \in [Slots -> BOOLEAN] /\ "NoFreeSlot" \in DecodeError
    BY <2>1 DEF Taken, Inv, Types, DecodeError
  <2>3. /\ call' \in Opening \cup {None} /\ (call' # None => OpenInv(call)')
        /\ AtomicStep
    BY <1>1, <1>2, <1>3, <2>1, <2>2, Fails DEF OpenInv
  <2>4. Types'
    BY <1>3, <2>1, <2>3 DEF Inv, Types
  <2>5. Owners' /\ Held'
    BY <1>3, <2>1, <2>2 DEF Inv, Owners, Held, Over
  <2> QED BY <2>3, <2>4, <2>5 DEF Inv
<1>5. CASE {s \in Slots : ~occupied[s]} # {}
  <2>1. PICK s \in Slots :
          /\ ~occupied[s]
          /\ occupied' = [occupied EXCEPT ![s] = TRUE]
          /\ shutdown' = [shutdown EXCEPT ![s] = FALSE]
          /\ queue' = [queue EXCEPT ![s] = <<>>]
          /\ call' = [c EXCEPT !.step = "source", !.got = Append(@, s)]
    BY <1>1, <1>5 DEF Claim
  <2>2. occupied' \in [Slots -> BOOLEAN] /\ Taken' = Taken \cup {s} /\ s \notin Taken
    BY <2>1, Takes DEF Inv, Taken
  <2>3. PICK got : got = Append(c.got, s)
    OBVIOUS
  <2>4. /\ got \in Seq(Slots) /\ Len(got) = Len(c.got) + 1 /\ got # <<>> /\ Last(got) = s
        /\ ToSet(got) = ToSet(c.got) \cup {s}
        /\ Len(c.got) \in Nat
        /\ Distinct(got)
    <3>1. s \notin ToSet(c.got) /\ Distinct(c.got)
      BY <1>2, <2>2 DEF OpenInv
    <3>2. PICK q \in Seq(Slots) : q = c.got
      BY <1>2
    <3>3. got = Append(q, s)
      BY <2>3, <3>2
    <3>4. /\ got \in Seq(Slots) /\ Len(got) = Len(q) + 1 /\ Len(q) \in Nat
          /\ got # <<>>
      BY <3>3, Appended
    <3>5. Last(got) = s /\ ToSet(got) = ToSet(q) \cup {s} /\ Distinct(got)
      BY <3>1, <3>2, <3>3, AppendedSlot
    <3> QED BY <3>2, <3>4, <3>5
  <2>5. PICK e : e = [c EXCEPT !.step = "source", !.got = got]
    OBVIOUS
  <2>6. e \in Opening /\ call' = e
    BY <2>1, <2>3, <2>4, <2>5 DEF Opening
  <2>7. e.step = "source" /\ e.got = got /\ e.files = c.files /\ e.before = c.before /\ e # None
    BY <2>5, <2>6, OpeningType DEF Opening
  <2>8. Types'
    <3>1. shutdown' \in [Slots -> BOOLEAN] /\ queue' \in [Slots -> Seq(Nat)]
      BY <2>1, EmptyFacts DEF Inv, Types
    <3> QED BY <1>3, <2>2, <2>6, <3>1 DEF Inv, Types
  <2>9. Owners'
    <3>1. \A r \in Slots : /\ Len(queue'[r]) <= RingSamples
                           /\ \A i \in DOMAIN queue'[r] : queue'[r][i] = join[r]
      BY <2>1, EmptyFacts, DecodeAssumption DEF Inv, Types, Owners
    <3> QED BY <1>3, <2>2, <3>1 DEF Inv, Owners, Over
  <2>10. Held'
    BY <1>3, <2>2 DEF Inv, Held
  <2>11. join[s] = None
    BY <2>2 DEF Inv, Owners
  <2>12. OpenInv(e)'
    <3>1. Before(e)' = Before(c)
      BY <2>7 DEF Before
    <3>2. Len(got) <= Len(c.files)
      <4>1. Len(c.files) \in Nat
        BY OpeningType, LenProperties
      <4> QED BY <1>2, <2>4, <4>1
    <3>3. \A d \in Decks : ToSet(deck'[d]) \subseteq Before(c)
      BY <1>2, <1>3 DEF OpenInv
    <3>4. /\ Taken' = Before(c) \cup ToSet(got) /\ ToSet(got) \cap Before(c) = {}
      BY <1>2, <2>2, <2>4 DEF OpenInv
    <3> QED BY <1>3, <2>4, <2>7, <2>11, <3>1, <3>2, <3>3, <3>4 DEF OpenInv
  <2> QED BY <2>6, <2>7, <2>8, <2>9, <2>10, <2>12 DEF Inv, AtomicStep
<1> QED BY <1>4, <1>5

LEMMA OpenFailsKeeps ==
  ASSUME Inv, NEW error \in DecodeError, OpenFails(error)
  PROVE  Inv' /\ AtomicStep
<1>1. PICK c \in Opening : c = call
  BY DEF OpenFails, Inv, Types
<1>2. c.step = "source" /\ OpenInv(c) /\ c.got \in Seq(Slots) /\ c.got # <<>> /\ Distinct(c.got)
  BY <1>1, OpeningType DEF OpenFails, Inv, OpenInv
<1>3. PICK s, opened : s = Last(c.got) /\ opened = Front(c.got)
  OBVIOUS
<1>4. /\ occupied' = [occupied EXCEPT ![s] = FALSE] /\ Fail(error, opened)
      /\ UNCHANGED <<shutdown, queue, join, decoder, deck, loads, channel>>
  BY <1>1, <1>3 DEF OpenFails
<1>5. /\ opened \in Seq(Slots) /\ s \in Slots /\ s \in ToSet(c.got)
      /\ ToSet(opened) = ToSet(c.got) \ {s} /\ Distinct(opened)
  BY <1>2, <1>3, WithoutLast
<1>6. occupied' \in [Slots -> BOOLEAN] /\ Taken' = Taken \ {s}
  BY <1>4, <1>5, GivesBack DEF Inv
<1>7. /\ Taken' = Before(c) \cup ToSet(opened) /\ ToSet(opened) \cap Before(c) = {}
      /\ s \notin Before(c)
  BY <1>2, <1>5, <1>6 DEF OpenInv
<1>8. /\ call' \in Opening \cup {None} /\ (call' # None => OpenInv(call)')
      /\ AtomicStep
  BY <1>1, <1>4, <1>5, <1>6, <1>7, Fails
<1>9. Types'
  BY <1>4, <1>6, <1>8 DEF Inv, Types
<1>10. Owners'
  <2>1. join[s] = None
    BY <1>2, <1>3 DEF OpenInv
  <2> QED BY <1>4, <1>6, <2>1 DEF Inv, Owners, Over
<1>11. Held'
  <2>1. \A d \in Decks : ToSet(deck[d]) \subseteq Before(c)
    BY <1>2 DEF OpenInv
  <2> QED BY <1>4, <1>7, <2>1 DEF Held
<1> QED BY <1>8, <1>9, <1>10, <1>11 DEF Inv

\* A new decoder is its slot's, which had none and an empty ring.
LEMMA SpawnOwners ==
  ASSUME Inv, NEW s \in Taken, join[s] = None, NEW d \in Decoder, d.slot = s,
         decoder' = Append(decoder, d), join' = [join EXCEPT ![s] = Len(decoder')],
         UNCHANGED <<occupied, queue>>
  PROVE  Owners' /\ decoder' \in Seq(Decoder) /\ join' \in [Slots -> Nat \cup {None}]
<1>1. decoder \in Seq(Decoder) /\ join \in [Slots -> Nat \cup {None}] /\ s \in Slots
  BY DEF Inv, Types, Taken
<1>2. PICK n : n = Len(decoder)
  OBVIOUS
<1>3. /\ decoder' \in Seq(Decoder) /\ Len(decoder') = n + 1 /\ n \in Nat
      /\ DOMAIN decoder = 1..n /\ DOMAIN decoder' = 1..n + 1
      /\ \A i \in 1..n : decoder'[i] = decoder[i]
      /\ decoder'[n + 1] = d
  BY <1>1, <1>2, Appended
<1>4. join' = [join EXCEPT ![s] = n + 1]
  BY <1>3
<1>5. join' \in [Slots -> Nat \cup {None}] /\ join'[s] = n + 1
      /\ \A r \in Slots : r # s => join'[r] = join[r]
  BY <1>1, <1>3, <1>4
<1>6. ASSUME NEW g \in DOMAIN decoder', ~Over(g)' PROVE join'[decoder'[g].slot] = g
  <2>1. CASE g = n + 1
    BY <1>3, <1>5, <2>1
  <2>2. CASE g \in DOMAIN decoder
    <3>1. decoder'[g] = decoder[g] /\ g \in Nat
      BY <1>3, <2>2
    <3>2. ~Over(g)
      BY <1>6, <3>1 DEF Over
    <3>3. join[decoder[g].slot] = g
      BY <2>2, <3>2 DEF Inv, Owners
    <3>4. decoder[g].slot # s
      BY <3>1, <3>3, DecodeAssumption
    <3>5. decoder[g].slot \in Slots
      BY <1>1, <2>2, SeqFacts DEF Decoder
    <3> QED BY <1>5, <3>1, <3>3, <3>4, <3>5
  <2> QED BY <1>3, <2>1, <2>2
<1>7. \A r \in Slots : join'[r] \in DOMAIN decoder' \cup {None}
  <2>1. \A r \in Slots : join[r] \in DOMAIN decoder \cup {None}
    BY DEF Inv, Owners
  <2> QED BY <1>3, <1>5, <2>1
<1>8. queue[s] = <<>>
  BY <1>1, NoOwnerNoSound DEF Inv
<1>9. \A r \in Slots : /\ Len(queue'[r]) <= RingSamples
                       /\ \A i \in DOMAIN queue'[r] : queue'[r][i] = join'[r]
  BY <1>5, <1>8, EmptyFacts DEF Inv, Owners
<1>10. \A r \in Slots \ Taken' : join'[r] = None
  BY <1>5 DEF Inv, Owners, Taken
<1> QED BY <1>3, <1>5, <1>6, <1>7, <1>9, <1>10 DEF Owners

LEMMA SpawnKeeps == ASSUME Inv, Spawn PROVE Inv' /\ AtomicStep
<1>1. PICK c \in Opening : c = call
  BY DEF Spawn, Inv, Types
<1>2. /\ c.step = "source" /\ OpenInv(c) /\ c.got \in Seq(Slots) /\ c.got # <<>>
      /\ Distinct(c.got) /\ c.deck \in Decks /\ c # None /\ c.before \in [Slots -> BOOLEAN]
      /\ c.files \in Seq(Files) /\ Len(c.got) \in Nat /\ Len(c.files) \in Nat
  BY <1>1, OpeningType, LenProperties DEF Spawn, Inv, OpenInv
<1>3. PICK s, f : s = Last(c.got) /\ f = Asked
  OBVIOUS
<1>4. PICK d : d = [slot |-> s, file |-> f, phase |-> "probe", left |-> 0, deck |-> c.deck]
  OBVIOUS
<1>5. /\ decoder' = Append(decoder, d) /\ join' = [join EXCEPT ![s] = Len(decoder')]
      /\ UNCHANGED <<occupied, shutdown, queue, loads, channel>>
  BY <1>1, <1>3, <1>4 DEF Spawn
<1>6. s \in Slots /\ s \in ToSet(c.got) /\ s \in Taken /\ s \notin Before(c) /\ join[s] = None
  <2>1. s \in Slots /\ s \in ToSet(c.got)
    BY <1>2, <1>3, WithoutLast
  <2> QED BY <1>2, <1>3, <2>1 DEF OpenInv
<1>7. d \in Decoder /\ d.slot = s
  <2>1. f \in Files
    <3>1. Len(c.got) \in DOMAIN c.files
      <4>1. Len(c.got) # 0 /\ Len(c.got) <= Len(c.files)
        BY <1>2, EmptySeq DEF OpenInv
      <4>2. DOMAIN c.files = 1..Len(c.files)
        BY <1>2, SeqFacts
      <4> QED BY <1>2, <4>1, <4>2
    <3>2. c.files[Len(c.got)] \in Files
      BY <1>2, <3>1, SeqFacts
    <3> QED BY <1>1, <1>3, <3>2 DEF Asked
  <2> QED BY <1>2, <1>4, <1>6, <2>1, DecodeAssumption DEF Decoder, Phase, Waits
<1>8. Owners' /\ decoder' \in Seq(Decoder) /\ join' \in [Slots -> Nat \cup {None}]
  BY <1>5, <1>6, <1>7, SpawnOwners
<1>9. Taken' = Taken
  BY <1>5 DEF Taken
<1>10. CASE Len(c.got) < Len(c.files)
  <2>1. call' = [c EXCEPT !.step = "claim"] /\ UNCHANGED deck
    BY <1>1, <1>10 DEF Spawn
  <2>2. PICK e : e = [c EXCEPT !.step = "claim"]
    OBVIOUS
  <2>3. e \in Opening
    BY <2>2 DEF Opening
  <2>4. e.step = "claim" /\ e.got = c.got /\ e.files = c.files /\ e.before = c.before /\ e # None
    BY <2>2, <2>3, OpeningType DEF Opening
  <2>5. OpenInv(e)'
    <3>1. Before(e)' = Before(c)
      BY <2>4 DEF Before
    <3> QED BY <1>2, <1>9, <1>10, <2>1, <2>4, <3>1 DEF OpenInv
  <2>6. Types'
    BY <1>5, <1>8, <2>1, <2>2, <2>3 DEF Inv, Types
  <2>7. Held'
    BY <1>9, <2>1 DEF Inv, Held
  <2> QED BY <1>8, <2>1, <2>2, <2>4, <2>5, <2>6, <2>7 DEF Inv, AtomicStep
<1>11. CASE ~(Len(c.got) < Len(c.files))
  <2>1. call' = None /\ deck' = [deck EXCEPT ![c.deck] = c.got]
    BY <1>1, <1>11 DEF Spawn
  <2>2. /\ deck' \in [Decks -> Seq(Slots)] /\ deck'[c.deck] = c.got
        /\ \A e \in Decks : e # c.deck => deck'[e] = deck[e]
    BY <1>2, <2>1 DEF Inv, Types
  <2>3. Types'
    BY <1>5, <1>8, <2>1, <2>2 DEF Inv, Types
  <2>4. Held'
    <3>1. ToSet(c.got) \subseteq Taken
      BY <1>2 DEF OpenInv
    <3>2. \A e \in Decks : ToSet(deck'[e]) \subseteq Taken
      BY <2>2, <3>1 DEF Inv, Held
    <3> QED BY <1>9, <3>2 DEF Held
  <2>5. deck' # deck
    <3>1. ToSet(deck[c.deck]) \subseteq Before(c)
      BY <1>2 DEF OpenInv
    <3>2. c.got # deck[c.deck]
      BY <1>6, <3>1
    <3> QED BY <2>2, <3>2
  <2>6. Len(c.got) = Len(c.files)
    BY <1>2, <1>11 DEF OpenInv
  <2>7. \A r \in Slots : occupied'[r] <=> c.before[r] \/ r \in ToSet(c.got)
    <3>1. Taken = Before(c) \cup ToSet(c.got)
      BY <1>2 DEF OpenInv
    <3> QED BY <1>5, <3>1 DEF Taken, Before
  <2>8. AtomicStep
    BY <1>1, <2>2, <2>5, <2>6, <2>7 DEF AtomicStep
  <2> QED BY <1>8, <2>1, <2>3, <2>4, <2>8 DEF Inv
<1> QED BY <1>10, <1>11

LEMMA CloseSignalKeeps == ASSUME Inv, CloseSignal PROVE Inv' /\ AtomicStep
<1>1. PICK c \in Opening : c = call
  BY DEF CloseSignal, Inv, Types
<1>2. c.step = "signal" /\ OpenInv(c) /\ c.got \in Seq(Slots) /\ c.got # <<>> /\ Distinct(c.got)
  BY <1>1, OpeningType DEF CloseSignal, Inv, OpenInv
<1>3. PICK s : s = Head(c.got)
  OBVIOUS
<1>4. s \in Slots
  BY <1>2, <1>3, WithoutHead
<1>5. PICK q : q = queue[s]
  OBVIOUS
<1>6. PICK t : t = SubSeq(q, DrainOnClose + 1, Len(q))
  OBVIOUS
<1>7. /\ shutdown' = [shutdown EXCEPT ![s] = TRUE] /\ queue' = [queue EXCEPT ![s] = t]
      /\ call' = [c EXCEPT !.step = "join"]
      /\ UNCHANGED <<occupied, join, decoder, deck, loads, channel>>
  BY <1>1, <1>3, <1>5, <1>6 DEF CloseSignal
<1>8. q \in Seq(Nat) /\ Len(q) \in Nat /\ Len(q) <= RingSamples /\ DOMAIN q = 1..Len(q)
      /\ \A i \in DOMAIN q : q[i] = join[s]
  BY <1>4, <1>5, LenProperties DEF Inv, Types, Owners
<1>9. t \in Seq(Nat) /\ Len(t) <= RingSamples /\ \A i \in DOMAIN t : t[i] = join[s]
  <2>1. PICK m \in Nat \ {0}, n \in Nat : m = DrainOnClose + 1 /\ n = Len(q)
    <3>1. DrainOnClose + 1 \in Nat \ {0}
      BY DecodeAssumption
    <3>2. Len(q) \in Nat
      BY <1>8
    <3> QED BY <3>1, <3>2
  <2>2. \A i \in m..n : i \in DOMAIN q /\ q[i] \in Nat
    BY <1>8, <2>1, SeqFacts
  <2>3. t = SubSeq(q, m, n) /\ m \in Int /\ n \in Int
    BY <1>6, <2>1
  <2>4. /\ t \in Seq(Nat) /\ Len(t) = IF m <= n THEN n - m + 1 ELSE 0
        /\ \A i \in 1..n - m + 1 : t[i] = q[m + i - 1]
    BY <2>2, <2>3, SubSeqProperties
  <2>5. DOMAIN t = 1..Len(t) /\ Len(t) \in Nat
    BY <2>4, LenProperties
  <2>6. Len(t) <= n
    BY <2>1, <2>4
  <2>7. Len(t) <= RingSamples
    BY <1>8, <2>1, <2>5, <2>6, DecodeAssumption
  <2>8. ASSUME NEW i \in DOMAIN t PROVE t[i] = join[s]
    <3>1. i \in 1..n - m + 1 /\ m + i - 1 \in 1..n
      BY <2>1, <2>4, <2>5
    <3> QED BY <1>8, <2>1, <2>4, <3>1
  <2> QED BY <2>4, <2>7, <2>8
<1>10. PICK e : e = [c EXCEPT !.step = "join"]
  OBVIOUS
<1>11. e \in Opening
  BY <1>10 DEF Opening
<1>12. e.step = "join" /\ e.got = c.got /\ e.before = c.before /\ e # None
  BY <1>10, <1>11, OpeningType DEF Opening
<1>13. Types'
  <2>1. shutdown' \in [Slots -> BOOLEAN] /\ queue' \in [Slots -> Seq(Nat)]
    BY <1>7, <1>9 DEF Inv, Types
  <2> QED BY <1>7, <1>10, <1>11, <2>1 DEF Inv, Types
<1>14. Taken' = Taken
  BY <1>7 DEF Taken
<1>15. Owners'
  <2>1. \A r \in Slots : /\ Len(queue'[r]) <= RingSamples
                         /\ \A i \in DOMAIN queue'[r] : queue'[r][i] = join[r]
    BY <1>7, <1>9 DEF Inv, Types, Owners
  <2> QED BY <1>7, <1>14, <2>1 DEF Inv, Owners, Over
<1>16. Held'
  BY <1>7, <1>14 DEF Inv, Held
<1>17. OpenInv(e)'
  <2>1. Before(e)' = Before(c)
    BY <1>12 DEF Before
  <2> QED BY <1>2, <1>7, <1>12, <1>14, <2>1 DEF OpenInv
<1> QED BY <1>7, <1>10, <1>12, <1>13, <1>15, <1>16, <1>17 DEF Inv, AtomicStep

LEMMA CloseJoinKeeps == ASSUME Inv, CloseJoin PROVE Inv' /\ AtomicStep
<1>1. PICK c \in Opening : c = call
  BY DEF CloseJoin, Inv, Types
<1>2. /\ c.step = "join" /\ OpenInv(c) /\ c.got \in Seq(Slots) /\ c.got # <<>>
      /\ Distinct(c.got) /\ c.why \in DecodeError \cup {None}
  BY <1>1, OpeningType DEF CloseJoin, Inv, OpenInv
<1>3. PICK s, rest : s = Head(c.got) /\ rest = Tail(c.got)
  OBVIOUS
<1>4. /\ rest \in Seq(Slots) /\ s \in Slots /\ s \in ToSet(c.got)
      /\ ToSet(rest) = ToSet(c.got) \ {s} /\ Distinct(rest)
      /\ (Len(c.got) = 1 <=> rest = <<>>)
  BY <1>2, <1>3, WithoutHead
<1>5. /\ join[s] # None => Over(join[s])
      /\ join' = [join EXCEPT ![s] = None] /\ queue' = [queue EXCEPT ![s] = <<>>]
      /\ occupied' = [occupied EXCEPT ![s] = FALSE]
      /\ UNCHANGED <<shutdown, decoder, deck, loads, channel>>
  BY <1>1, <1>3 DEF CloseJoin
<1>6. occupied' \in [Slots -> BOOLEAN] /\ Taken' = Taken \ {s}
  BY <1>4, <1>5, GivesBack DEF Inv
<1>7. /\ Taken' = Before(c) \cup ToSet(rest) /\ ToSet(rest) \cap Before(c) = {}
      /\ s \notin Before(c)
  BY <1>2, <1>4, <1>6 DEF OpenInv
<1>8. /\ call' \in Opening \cup {None} /\ (call' # None => OpenInv(call)')
      /\ AtomicStep
  <2>1. CASE rest = <<>>
    <3>1. call' = None
      BY <1>1, <1>4, <2>1 DEF CloseJoin
    <3>2. Taken' = Before(c)
      BY <1>7, <2>1, EmptyFacts
    <3> QED BY <1>1, <1>5, <1>6, <3>1, <3>2, Restored
  <2>2. CASE rest # <<>>
    <3>1. call' = [c EXCEPT !.step = "signal", !.got = rest]
      BY <1>1, <1>3, <1>4, <2>2 DEF CloseJoin
    <3>2. [c EXCEPT !.step = "signal", !.got = rest]
            = [c EXCEPT !.step = "signal", !.got = rest, !.why = c.why]
      BY DEF Opening
    <3> QED BY <1>1, <1>2, <1>4, <1>5, <1>7, <2>2, <3>1, <3>2, RollsBack
  <2> QED BY <2>1, <2>2
<1>9. join' \in [Slots -> Nat \cup {None}] /\ queue' \in [Slots -> Seq(Nat)]
      /\ join'[s] = None /\ queue'[s] = <<>>
      /\ \A r \in Slots : r # s => join'[r] = join[r] /\ queue'[r] = queue[r]
  BY <1>4, <1>5, EmptyFacts DEF Inv, Types
<1>10. Types'
  BY <1>5, <1>6, <1>8, <1>9 DEF Inv, Types
<1>11. Owners'
  <2>1. ASSUME NEW g \in DOMAIN decoder, ~Over(g) PROVE join'[decoder[g].slot] = g
    <3>1. join[decoder[g].slot] = g /\ decoder[g].slot \in Slots /\ g \in Nat
      BY <2>1, SeqFacts DEF Inv, Types, Owners, Decoder
    <3>2. decoder[g].slot # s
      BY <1>5, <2>1, <3>1, DecodeAssumption
    <3> QED BY <1>9, <3>1, <3>2
  <2>2. \A r \in Slots : join'[r] \in DOMAIN decoder \cup {None}
    BY <1>9 DEF Inv, Owners
  <2>3. \A r \in Slots : /\ Len(queue'[r]) <= RingSamples
                         /\ \A i \in DOMAIN queue'[r] : queue'[r][i] = join'[r]
    BY <1>9, EmptyFacts, DecodeAssumption DEF Inv, Owners
  <2>4. \A r \in Slots \ Taken' : join'[r] = None
    BY <1>6, <1>9 DEF Inv, Owners
  <2> QED BY <1>5, <2>1, <2>2, <2>3, <2>4 DEF Owners, Over
<1>12. Held'
  <2>1. \A d \in Decks : ToSet(deck[d]) \subseteq Before(c)
    BY <1>2 DEF OpenInv
  <2> QED BY <1>5, <1>7, <2>1 DEF Held
<1> QED BY <1>8, <1>10, <1>11, <1>12 DEF Inv
-----------------------------------------------------------------------------
(* The invariant, and what it says of every behaviour *)

LEMMA InitInv == Init => Inv
<1> SUFFICES ASSUME Init PROVE Inv
  OBVIOUS
<1>1. Types
  BY EmptyFacts, DecodeAssumption DEF Init, Types
<1>2. Owners
  BY EmptyFacts, DecodeAssumption DEF Init, Owners
<1>3. Held
  BY EmptyFacts DEF Init, Held
<1> QED BY <1>1, <1>2, <1>3 DEF Init, Inv

LEMMA StepInv == Inv /\ [Next]_vars => Inv' /\ (AtomicStep \/ UNCHANGED call)
<1> SUFFICES ASSUME Inv, [Next]_vars PROVE Inv' /\ (AtomicStep \/ UNCHANGED call)
  OBVIOUS
<1>1. ASSUME NEW d \in Decks, NEW files \in Loads, Load(d, files)
      PROVE  Inv' /\ AtomicStep
  BY <1>1, LoadKeeps DEF Load, AtomicStep
<1>2. CASE ControlThread
  <2>1. \A error \in DecodeError : OpenFails(error) => Inv' /\ AtomicStep
    BY OpenFailsKeeps
  <2> QED BY <1>2, <2>1, ClaimKeeps, SpawnKeeps, CloseSignalKeeps, CloseJoinKeeps
          DEF ControlThread
<1>3. ASSUME NEW d \in Decks, Unload(d) \/ Read(d) PROVE Inv' /\ UNCHANGED call
  BY <1>3, UnloadKeeps, ReadKeeps
<1>4. ASSUME NEW g \in 1..MaxDecoders, Decode(g) PROVE Inv' /\ UNCHANGED call
  BY <1>4, ThreadKeeps DEF Decode
<1>5. CASE Drain
  BY <1>5, DrainKeeps
<1>6. CASE UNCHANGED vars
  BY <1>6, StutterKeeps
<1> QED BY <1>1, <1>2, <1>3, <1>4, <1>5, <1>6 DEF Next

LEMMA Invariance == Spec => []Inv
<1>1. Inv /\ [Next]_vars => Inv'
  BY StepInv
<1> QED BY <1>1, InitInv, PTL DEF Spec

LEMMA OneOwner == Inv => RingHasOneOwner
<1> SUFFICES ASSUME Inv PROVE RingHasOneOwner
  OBVIOUS
<1>1. TypeOK
  <2>1. \A s \in Slots : Len(queue[s]) <= RingSamples /\ join[s] \in DOMAIN decoder \cup {None}
    BY DEF Inv, Owners
  <2>2. ASSUME NEW g \in DOMAIN decoder
        PROVE  /\ decoder[g].slot \in Slots /\ decoder[g].file \in Files
               /\ decoder[g].left \in 0..PacketSamples
               /\ decoder[g].phase \in {"probe", "decode", "packet", "look", "push", "ended", "failed"}
    BY SeqFacts DEF Inv, Types, Decoder, Phase
  <2> QED BY <2>1, <2>2 DEF TypeOK, Inv, Types, Held, Taken
<1>2. ASSUME NEW g \in DOMAIN decoder, NEW h \in DOMAIN decoder,
             ~Over(g), ~Over(h), decoder[g].slot = decoder[h].slot
      PROVE  g = h
  BY <1>2 DEF Inv, Owners
<1>3. \A s \in Slots : \A i \in DOMAIN queue[s] : queue[s][i] = join[s]
  BY DEF Inv, Owners
<1> QED BY <1>1, <1>2, <1>3 DEF RingHasOneOwner

(* However a rollback, the decoder it stops and the reads of the audio     *)
(* thread interleave, a slot that changes hands brings neither a second    *)
(* producer nor a sample of its previous track along (decode.rs, open and  *)
(* close): the join handle of a slot names its only live decoder and the   *)
(* maker of every sample in its ring.                                      *)
THEOREM RingCorrect == Spec => []RingHasOneOwner
BY Invariance, OneOwner, PTL

(* Opening the stems of a track takes one slot for each of them or leaves  *)
(* the table as it was (decode.rs, open_stems): the slots taken are those  *)
(* taken before the call and those it got, which are apart.                *)
THEOREM OpenCorrect == Spec => AtomicOpen
<1>1. Inv /\ [Next]_vars =>
        [call # None /\ call' = None =>
           IF deck' = deck THEN occupied' = call.before
           ELSE /\ Len(deck'[call.deck]) = Len(call.files)
                /\ \A s \in Slots : occupied'[s] <=>
                     call.before[s] \/ s \in ToSet(deck'[call.deck])]_vars
  BY StepInv DEF AtomicStep
<1> QED BY <1>1, Invariance, PTL DEF Spec, AtomicOpen
-----------------------------------------------------------------------------
(* Reports of failures *)

Failed == {g \in DOMAIN decoder : decoder[g].phase = "failed"}
Reporters == {channel[i].decoder : i \in DOMAIN channel}

\* Only a decoder that failed is reported, and nobody twice.
ReportsAreTrue ==
  /\ \A i, j \in DOMAIN channel : channel[i].decoder = channel[j].decoder => i = j
  /\ \A g \in Reporters : g \in Failed /\ ~Told(g)
  /\ \A n \in notices : n.decoder \in Failed

\* While there were no more decoders than reports fit in the channel, no
\* report was lost.
NoReportLost ==
  Len(decoder) <= FailureCapacity => \A g \in Failed : Told(g) \/ g \in Reporters

ReportsKept == ReportsAreTrue /\ NoReportLost

(* As many reports as wait, so many decoders have failed. *)
LEMMA RoomForReport ==
  ASSUME Inv, ReportsAreTrue, NEW g \in DOMAIN decoder, g \notin Failed
  PROVE  Len(channel) < Len(decoder)
<1>1. /\ Len(channel) \in Nat /\ DOMAIN channel = 1..Len(channel)
      /\ Len(decoder) \in Nat /\ DOMAIN decoder = 1..Len(decoder)
  BY SeqFacts DEF Inv, Types
<1> DEFINE S == 1..Len(channel)
           T == (1..Len(decoder)) \ {g}
           f == [i \in S |-> channel[i].decoder]
<1>2. f \in [S -> T]
  BY <1>1 DEF ReportsAreTrue, Reporters, Failed
<1>3. f \in Injection(S, T)
  BY <1>1, <1>2 DEF ReportsAreTrue, Injection, IsInjective
<1>4. /\ IsFiniteSet(S) /\ Cardinality(S) = Len(channel)
      /\ IsFiniteSet(1..Len(decoder)) /\ Cardinality(1..Len(decoder)) = Len(decoder)
  <2> SUFFICES ASSUME NEW n \in Nat
               PROVE  IsFiniteSet(1..n) /\ Cardinality(1..n) = n
    BY <1>1
  <2>1. 1 \in Int /\ n \in Int
    OBVIOUS
  <2>2. IsFiniteSet(1..n) /\ Cardinality(1..n) = IF 1 > n THEN 0 ELSE n - 1 + 1
    BY <2>1, FS_Interval
  <2> QED BY <2>2
<1>5. IsFiniteSet(T) /\ Cardinality(T) = Len(decoder) - 1
  <2>1. g \in 1..Len(decoder)
    BY <1>1
  <2> QED BY <1>4, <2>1, FS_RemoveElement, Zenon
<1> HIDE DEF S, T, f
<1>6. Cardinality(S) <= Cardinality(T)
  BY <1>3, <1>4, <1>5, FS_Injection
<1> QED BY <1>1, <1>4, <1>5, <1>6

LEMMA QuietKeeps ==
  ASSUME Inv, ReportsKept, Failed' = Failed, UNCHANGED <<channel, notices>>,
         Len(decoder') \in Nat, Len(decoder) <= Len(decoder')
  PROVE  ReportsKept'
<1>1. Len(decoder) \in Nat /\ FailureCapacity \in Nat
  BY SeqFacts, DecodeAssumption DEF Inv, Types
<1>2. Reporters' = Reporters /\ \A g : Told(g)' <=> Told(g)
  BY DEF Reporters, Told
<1>3. ReportsAreTrue'
  BY <1>2 DEF ReportsKept, ReportsAreTrue
<1>4. NoReportLost'
  BY <1>1, <1>2 DEF ReportsKept, NoReportLost
<1> QED BY <1>3, <1>4 DEF ReportsKept

(* A thread that fails reports, and there is room for the report while     *)
(* there are no more threads than the channel has places.                  *)
LEMMA FailsAloud ==
  ASSUME Inv, ReportsKept, NEW g \in DOMAIN decoder, g \notin Failed, MoveTo(g, "failed"),
         NEW kind \in MidStreamFailureKind, Report(g, kind), UNCHANGED notices
  PROVE  ReportsKept'
<1>1. decoder \in Seq(Decoder) /\ Len(decoder) \in Nat /\ DOMAIN decoder = 1..Len(decoder)
  BY SeqFacts DEF Inv, Types
<1>2. channel \in Seq(Failure) /\ Len(channel) \in Nat /\ DOMAIN channel = 1..Len(channel)
  BY SeqFacts DEF Inv, Types
<1>3. FailureCapacity \in Nat
  BY DecodeAssumption
<1> DEFINE d == [decoder[g] EXCEPT !.phase = "failed"]
<1>4. d.phase = "failed"
  <2>1. decoder[g] \in Decoder
    BY <1>1, SeqFacts
  <2> QED BY <2>1 DEF Decoder
<1>5. decoder' = [decoder EXCEPT ![g] = d]
  BY DEF MoveTo
<1> HIDE DEF d
<1>6. /\ DOMAIN decoder' = DOMAIN decoder /\ Len(decoder') = Len(decoder)
      /\ \A h \in DOMAIN decoder : decoder'[h] = IF h = g THEN d ELSE decoder[h]
  BY <1>1, <1>5
<1>7. Failed' = Failed \cup {g}
  BY <1>4, <1>6 DEF Failed
<1>8. \A h : Told(h)' <=> Told(h)
  BY DEF Told
<1>9. ~Told(g) /\ g \notin Reporters
  BY DEF Told, ReportsKept, ReportsAreTrue
<1> DEFINE e == [decoder |-> g, category |-> category(kind), deck |-> None]
<1>10. CASE Len(channel) < FailureCapacity
  <2>1. channel' = Append(channel, e)
    BY <1>10 DEF Report
  <2>2. e.decoder = g
    OBVIOUS
  <2> HIDE DEF e
  <2>3. e \in Failure \cup {e} /\ channel \in Seq(Failure \cup {e})
    BY <1>2
  <2>4. /\ DOMAIN channel' = 1..(Len(channel) + 1)
        /\ \A i \in 1..Len(channel) : channel'[i] = channel[i]
        /\ channel'[Len(channel) + 1] = e
    BY <2>1, <2>3, Appended
  <2>5. Reporters' = Reporters \cup {g}
    BY <1>2, <2>2, <2>4 DEF Reporters
  <2>6. \A i, j \in DOMAIN channel' : channel'[i].decoder = channel'[j].decoder => i = j
    <3> SUFFICES ASSUME NEW i \in DOMAIN channel', NEW j \in DOMAIN channel',
                        channel'[i].decoder = channel'[j].decoder
                 PROVE  i = j
      OBVIOUS
    <3>1. \A k \in 1..Len(channel) : channel'[k].decoder # g
      BY <1>2, <1>9, <2>4 DEF Reporters
    <3>2. CASE i \in 1..Len(channel) /\ j \in 1..Len(channel)
      BY <1>2, <2>4, <3>2 DEF ReportsKept, ReportsAreTrue
    <3>3. CASE i = Len(channel) + 1 \/ j = Len(channel) + 1
      BY <1>2, <2>2, <2>4, <3>1, <3>3
    <3> QED BY <1>2, <2>4, <3>2, <3>3
  <2>7. ReportsAreTrue'
    BY <1>7, <1>8, <1>9, <2>5, <2>6 DEF ReportsKept, ReportsAreTrue
  <2>8. NoReportLost'
    BY <1>6, <1>7, <1>8, <2>5 DEF ReportsKept, NoReportLost
  <2> QED BY <2>7, <2>8 DEF ReportsKept
<1>11. CASE ~(Len(channel) < FailureCapacity)
  <2>1. channel' = channel
    BY <1>11 DEF Report
  <2>2. Reporters' = Reporters
    BY <2>1 DEF Reporters
  <2>3. ReportsAreTrue'
    BY <1>7, <1>8, <2>1, <2>2 DEF ReportsKept, ReportsAreTrue
  <2>4. Len(channel) < Len(decoder)
    BY RoomForReport DEF ReportsKept
  <2>5. ~(Len(decoder') <= FailureCapacity)
    BY <1>1, <1>2, <1>3, <1>6, <1>11, <2>4
  <2> QED BY <2>3, <2>5 DEF ReportsKept, NoReportLost
<1> QED BY <1>10, <1>11

LEMMA ThreadReports ==
  ASSUME Inv, ReportsKept, NEW g \in DOMAIN decoder,
         Probe(g) \/ DecodeLook(g) \/ Packet(g) \/ PushLook(g) \/ Push(g)
  PROVE  ReportsKept'
<1>1. decoder \in Seq(Decoder) /\ decoder[g] \in Decoder
  BY SeqFacts DEF Inv, Types
<1>2. notices' = notices /\ g \notin Failed
  BY DEF Probe, DecodeLook, Packet, PushLook, Push, Failed
<1>3. ASSUME NEW d, d.phase # "failed", decoder' = [decoder EXCEPT ![g] = d], UNCHANGED channel
      PROVE  ReportsKept'
  <2>1. Len(decoder) \in Nat /\ DOMAIN decoder = 1..Len(decoder)
    BY <1>1, SeqFacts
  <2>2. /\ DOMAIN decoder' = DOMAIN decoder /\ Len(decoder') = Len(decoder)
        /\ \A h \in DOMAIN decoder : decoder'[h] = IF h = g THEN d ELSE decoder[h]
    BY <1>1, <1>3, <2>1
  <2>3. Failed' = Failed
    BY <1>2, <1>3, <2>2 DEF Failed
  <2> QED BY <1>2, <1>3, <2>1, <2>2, <2>3, QuietKeeps
<1>4. ASSUME NEW p \in Phase \ {"failed"}, MoveTo(g, p), UNCHANGED channel
      PROVE  ReportsKept'
  <2>1. PICK d : d = [decoder[g] EXCEPT !.phase = p]
    OBVIOUS
  <2>2. d.phase = p
    BY <1>1, <2>1 DEF Decoder
  <2>3. decoder' = [decoder EXCEPT ![g] = d]
    BY <1>4, <2>1 DEF MoveTo
  <2> QED BY <1>3, <1>4, <2>2, <2>3
<1>5. CASE Probe(g)
  BY <1>4, <1>5 DEF Probe, Phase
<1>6. CASE DecodeLook(g)
  BY <1>4, <1>6 DEF DecodeLook, Phase
<1>7. CASE PushLook(g)
  <2>1. CASE MoveTo(g, "push")
    BY <1>4, <1>7, <2>1 DEF PushLook, Phase
  <2>2. CASE decoder' = [decoder EXCEPT ![g].phase = "decode", ![g].left = 0]
    <3>1. PICK d : d = [decoder[g] EXCEPT !.phase = "decode", !.left = 0]
      OBVIOUS
    <3>2. d.phase = "decode" /\ decoder' = [decoder EXCEPT ![g] = d]
      BY <1>1, <2>2, <3>1 DEF Decoder
    <3>3. UNCHANGED channel
      BY <1>7 DEF PushLook
    <3> QED BY <1>3, <3>2, <3>3
  <2> QED BY <1>7, <2>1, <2>2 DEF PushLook
<1>8. CASE Push(g)
  <2>1. UNCHANGED channel
    BY <1>8 DEF Push
  <2>2. CASE MoveTo(g, "look")
    BY <1>4, <2>1, <2>2 DEF Phase
  <2>3. CASE Pushed(g)
    <3>1. PICK p, l : p = (IF decoder[g].left = 1 THEN "decode" ELSE "look")
                      /\ l = decoder[g].left - 1
      OBVIOUS
    <3>2. PICK d : d = [decoder[g] EXCEPT !.phase = p, !.left = l]
      OBVIOUS
    <3>3. d.phase = p /\ p # "failed"
      BY <1>1, <3>1, <3>2 DEF Decoder
    <3>4. decoder' = [decoder EXCEPT ![g] = d]
      BY <1>1, <2>3, <3>1, <3>2 DEF Pushed
    <3> QED BY <1>3, <2>1, <3>3, <3>4
  <2> QED BY <1>8, <2>2, <2>3 DEF Push
<1>9. CASE Packet(g)
  <2>1. CASE MoveTo(g, "ended") /\ UNCHANGED channel
    BY <1>4, <2>1 DEF Phase
  <2>2. CASE /\ decoder' = [decoder EXCEPT ![g].phase = "look", ![g].left = PacketSamples]
             /\ UNCHANGED channel
    <3>1. PICK d : d = [decoder[g] EXCEPT !.phase = "look", !.left = PacketSamples]
      OBVIOUS
    <3>2. d.phase = "look" /\ decoder' = [decoder EXCEPT ![g] = d]
      BY <1>1, <2>2, <3>1 DEF Decoder
    <3> QED BY <1>3, <2>2, <3>2
  <2>3. CASE MoveTo(g, "failed") /\ \E kind \in MidStreamFailureKind : Report(g, kind)
    BY <1>2, <2>3, FailsAloud
  <2> QED BY <1>9, <2>1, <2>2, <2>3 DEF Packet
<1> QED BY <1>5, <1>6, <1>7, <1>8, <1>9

(* The tick of the drain announces whatever waits. *)
LEMMA DrainReports == ASSUME Inv, ReportsKept, Drain PROVE ReportsKept'
<1>1. decoder' = decoder /\ channel' = <<>>
      /\ notices' = notices \cup {publish(f) : f \in ToSet(channel)}
  BY DEF Drain, MaxDecoders
<1>2. Reporters' = {} /\ Failed' = Failed
  BY <1>1 DEF Reporters, Failed
<1>3. channel \in Seq(Failure)
  BY DEF Inv, Types
<1>4. ASSUME NEW f \in ToSet(channel)
      PROVE  f.decoder \in Reporters /\ publish(f).decoder = f.decoder
  <2>1. PICK i \in DOMAIN channel : f = channel[i]
    BY DEF ToSet
  <2>2. f \in Failure
    BY <1>3, <2>1, SeqFacts
  <2> QED BY <2>1, <2>2 DEF Reporters, publish, Failure
<1>5. ASSUME NEW g, Told(g) \/ g \in Reporters PROVE Told(g)'
  <2>1. CASE Told(g)
    BY <1>1, <2>1 DEF Told
  <2>2. CASE g \in Reporters
    <3>1. PICK i \in DOMAIN channel : g = channel[i].decoder
      BY <2>2 DEF Reporters
    <3>2. channel[i] \in ToSet(channel)
      BY DEF ToSet
    <3>3. publish(channel[i]) \in notices' /\ publish(channel[i]).decoder = g
      BY <1>1, <1>4, <3>1, <3>2
    <3> QED BY <3>3 DEF Told
  <2> QED BY <1>5, <2>1, <2>2
<1>6. \A n \in notices' : n.decoder \in Failed
  BY <1>1, <1>4 DEF ReportsKept, ReportsAreTrue
<1>7. ReportsAreTrue'
  BY <1>1, <1>2, <1>6 DEF ReportsAreTrue
<1>8. NoReportLost'
  BY <1>1, <1>2, <1>5 DEF ReportsKept, NoReportLost
<1> QED BY <1>7, <1>8 DEF ReportsKept

LEMMA SpawnReports == ASSUME Inv, ReportsKept, Spawn PROVE ReportsKept'
<1>1. decoder \in Seq(Decoder) /\ Len(decoder) \in Nat /\ DOMAIN decoder = 1..Len(decoder)
  BY SeqFacts DEF Inv, Types
<1>2. PICK e : e.phase = "probe" /\ decoder' = Append(decoder, e)
  BY DEF Spawn
<1>3. e \in Decoder \cup {e} /\ decoder \in Seq(Decoder \cup {e})
  BY <1>1
<1>4. /\ DOMAIN decoder' = 1..(Len(decoder) + 1) /\ Len(decoder') = Len(decoder) + 1
      /\ \A i \in 1..Len(decoder) : decoder'[i] = decoder[i]
      /\ decoder'[Len(decoder) + 1] = e
  BY <1>2, <1>3, Appended
<1>5. Failed' = Failed
  BY <1>1, <1>2, <1>4 DEF Failed
<1> QED BY <1>1, <1>4, <1>5, QuietKeeps DEF Spawn

LEMMA ReportsStep == Inv /\ ReportsKept /\ [Next]_vars => ReportsKept'
<1> SUFFICES ASSUME Inv, ReportsKept, [Next]_vars PROVE ReportsKept'
  OBVIOUS
<1>1. CASE UNCHANGED <<decoder, channel, notices>>
  <2>1. Failed' = Failed /\ Len(decoder') = Len(decoder) /\ Len(decoder) \in Nat
    BY <1>1, SeqFacts DEF Failed, Inv, Types
  <2> QED BY <1>1, <2>1, QuietKeeps
<1>2. CASE Spawn
  BY <1>2, SpawnReports
<1>3. ASSUME NEW g \in 1..MaxDecoders, Decode(g) PROVE ReportsKept'
  BY <1>3, ThreadReports DEF Decode
<1>4. CASE Drain
  BY <1>4, DrainReports
<1>5. ASSUME NEW d \in Decks, Unload(d) \/ Read(d) \/ \E files \in Loads : Load(d, files)
      PROVE  UNCHANGED <<decoder, channel, notices>>
  BY <1>5 DEF Unload, Read, Load
<1>6. CASE ControlThread
  <2>1. Claim => UNCHANGED <<decoder, channel, notices>>
    BY Zenon DEF Claim
  <2>2. CloseSignal \/ CloseJoin => UNCHANGED <<decoder, channel, notices>>
    BY DEF CloseSignal, CloseJoin
  <2>3. ASSUME NEW error, OpenFails(error) PROVE UNCHANGED <<decoder, channel, notices>>
    BY <2>3, Zenon DEF OpenFails
  <2> QED BY <1>1, <1>2, <1>6, <2>1, <2>2, <2>3 DEF ControlThread
<1>7. CASE UNCHANGED vars
  BY <1>1, <1>7 DEF vars
<1> QED BY <1>1, <1>2, <1>3, <1>4, <1>5, <1>6, <1>7 DEF Next

(* Only decoders that gave up are announced, none of them twice; and as    *)
(* long as no more have been opened than the side channel holds, each one  *)
(* that gave up is announced or its report waits for the drain, however    *)
(* many give up between two of its ticks (decode.rs,                       *)
(* try_send_mid_stream_failure; decode_drain.rs, drain_once).  That the    *)
(* tick comes is FailuresAreTold.                                          *)
THEOREM ReportsCorrect == Spec => [](ReportsAreTrue /\ NoReportLost)
<1>1. Init => ReportsKept
  BY EmptyFacts DEF Init, ReportsKept, ReportsAreTrue, NoReportLost, Failed, Reporters
<1>2. Inv /\ Inv' /\ ReportsKept /\ [Next]_vars => ReportsKept'
  BY ReportsStep
<1>3. Spec => []ReportsKept
  BY Invariance, <1>1, <1>2, PTL DEF Spec
<1> QED BY <1>3, PTL DEF ReportsKept
-----------------------------------------------------------------------------
(* The samples of a stream.                                               *)

(* A set of naturals has a least one. *)
LEMMA LeastNat ==
  ASSUME NEW S, S \subseteq Nat, S # {}
  PROVE  \E i \in S : \A j \in S : i <= j
<1> DEFINE R == {p \in Nat \X Nat : p[1] < p[2]}
<1>1. R = OpToRel(<, Nat)
  BY Zenon DEF OpToRel
<1>2. \E i \in S : \A j \in S : ~(<<j, i>> \in R)
  <2>1. IsWellFoundedOn(R, Nat)
    BY <1>1, NatLessThanWellFounded
  <2> HIDE DEF R
  <2> QED BY <2>1, WFMin
<1>3. PICK i \in S : \A j \in S : ~(<<j, i>> \in R)
  BY <1>2
<1>4. ASSUME NEW j \in S PROVE i <= j
  <2>1. i \in Nat /\ j \in Nat
    OBVIOUS
  <2>2. j < i => <<j, i>> \in R
    BY <2>1
  <2> QED BY <1>3, <2>1, <2>2
<1> QED BY <1>4

(* The flattening of one sequence more.  Its recursive function exists:    *)
(* the least length without one would extend the one before.               *)
IsFlat(f, t, n) == f = [i \in 1..n |-> IF i = 1 THEN t[i] ELSE f[i-1] \o t[i]]

LEMMA FlatExists ==
  ASSUME NEW t, NEW n \in Nat
  PROVE  \E f : IsFlat(f, t, n)
<1> DEFINE Bad == {k \in Nat : ~\E f : IsFlat(f, t, k)}
<1>1. Bad = {}
  <2> SUFFICES ASSUME Bad # {} PROVE FALSE
    OBVIOUS
  <2>1. PICK k \in Bad : \A j \in Bad : k <= j
    <3>1. Bad \subseteq Nat
      OBVIOUS
    <3> QED BY <3>1, LeastNat
  <2>2. CASE k = 0
    <3> DEFINE g == [i \in 1..0 |-> t[i]]
    <3>1. IsFlat(g, t, 0)
      BY DEF IsFlat
    <3> QED BY <2>2, <3>1
  <2>3. CASE k # 0
    <3>1. k - 1 \in Nat /\ k - 1 \notin Bad
      BY <2>1, <2>3
    <3>2. PICK f : IsFlat(f, t, k - 1)
      BY <3>1
    <3> DEFINE g == [i \in 1..k |-> IF i < k THEN f[i] ELSE IF k = 1 THEN t[k] ELSE f[k-1] \o t[k]]
    <3>3. ASSUME NEW i \in 1..k PROVE g[i] = IF i = 1 THEN t[i] ELSE g[i-1] \o t[i]
      <4>1. CASE i < k
        <5>1. i \in 1..(k - 1) /\ g[i] = f[i]
          BY <4>1
        <5>2. f[i] = IF i = 1 THEN t[i] ELSE f[i-1] \o t[i]
          BY <3>2, <5>1 DEF IsFlat
        <5>3. i # 1 => g[i-1] = f[i-1]
          BY <4>1
        <5> HIDE DEF g
        <5> QED BY <5>1, <5>2, <5>3
      <4>2. CASE i = k
        <5>1. g[i] = IF k = 1 THEN t[k] ELSE f[k-1] \o t[k]
          BY <4>2
        <5>2. k # 1 => g[k-1] = f[k-1]
          BY <3>1
        <5> HIDE DEF g
        <5> QED BY <4>2, <5>1, <5>2
      <4> QED BY <4>1, <4>2
    <3>4. g = [i \in 1..k |-> g[i]]
      OBVIOUS
    <3> HIDE DEF g
    <3>5. IsFlat(g, t, k)
      BY <3>3, <3>4 DEF IsFlat
    <3> QED BY <3>5
  <2> QED BY <2>2, <2>3
<1> QED BY <1>1

LEMMA FlattenIs ==
  ASSUME NEW X, NEW n \in Nat \ {0}, NEW t \in [1..n -> Seq(X)]
  PROVE  \E f : IsFlat(f, t, n) /\ Feed!FlattenSeq(t) = f[n]
<1> DEFINE f == CHOOSE f : IsFlat(f, t, n)
<1>1. IsFlat(f, t, n)
  BY FlatExists
<1>2. Len(t) = n /\ n # 0
  OBVIOUS
<1>3. Feed!FlattenSeq(t) = f[n]
  BY <1>2 DEF Feed!FlattenSeq, IsFlat
<1> HIDE DEF f
<1> QED BY <1>1, <1>3

LEMMA FlatUnique ==
  ASSUME NEW n \in Nat, NEW t, NEW u, NEW f, NEW g, NEW m \in n..(n + 1), IsFlat(f, t, m), IsFlat(g, u, n),
         \A i \in 1..n : t[i] = u[i], NEW k \in 1..n
  PROVE  f[k] = g[k]
<1> DEFINE Bad == {i \in 1..n : f[i] # g[i]}
<1>1. Bad = {}
  <2> SUFFICES ASSUME Bad # {} PROVE FALSE
    OBVIOUS
  <2>1. PICK i \in Bad : \A j \in Bad : i <= j
    <3>1. Bad \subseteq Nat
      OBVIOUS
    <3> QED BY <3>1, LeastNat
  <2>2. i \in 1..n /\ i \in 1..m
    OBVIOUS
  <2>3. f[i] = IF i = 1 THEN t[i] ELSE f[i-1] \o t[i]
    BY <2>2 DEF IsFlat
  <2>4. g[i] = IF i = 1 THEN u[i] ELSE g[i-1] \o u[i]
    BY <2>2 DEF IsFlat
  <2>5. i # 1 => f[i-1] = g[i-1]
    <3>1. i # 1 => i - 1 \in 1..n /\ i - 1 \notin Bad
      BY <2>1, <2>2
    <3> QED BY <3>1
  <2> QED BY <2>2, <2>3, <2>4, <2>5
<1> QED BY <1>1

LEMMA FlattenOne ==
  ASSUME NEW X, NEW n \in Nat, NEW t \in [1..(n + 1) -> Seq(X)], NEW u, u = [k \in 1..n |-> t[k]],
         Feed!FlattenSeq(u) \in Seq(X)
  PROVE  Feed!FlattenSeq(t) = Feed!FlattenSeq(u) \o t[n + 1] /\ Feed!FlattenSeq(t) \in Seq(X)
<1>1. PICK f : IsFlat(f, t, n + 1) /\ Feed!FlattenSeq(t) = f[n + 1]
  <2>1. n + 1 \in Nat \ {0}
    OBVIOUS
  <2> QED BY <2>1, FlattenIs
<1>2. f[n + 1] = IF n = 0 THEN t[n + 1] ELSE f[n] \o t[n + 1]
  <2>1. n + 1 \in 1..(n + 1) /\ (n + 1) - 1 = n /\ (n + 1 = 1 <=> n = 0)
    OBVIOUS
  <2>2. PICK m : m = n + 1
    OBVIOUS
  <2>3. f[m] = IF m = 1 THEN t[m] ELSE f[m-1] \o t[m]
    BY <1>1, <2>1, <2>2, Zenon DEF IsFlat
  <2> QED BY <2>1, <2>2, <2>3
<1>3. t[n + 1] \in Seq(X)
  OBVIOUS
<1>4. CASE n = 0
  <2>1. u = <<>>
    BY <1>4
  <2>2. Feed!FlattenSeq(u) = <<>>
    BY <2>1 DEF Feed!FlattenSeq
  <2>3. <<>> \o t[n + 1] = t[n + 1]
    BY <1>3, ConcatEmptySeq
  <2> QED BY <1>1, <1>2, <1>3, <1>4, <2>2, <2>3
<1>5. CASE n # 0
  <2>1. u \in [1..n -> Seq(X)]
    OBVIOUS
  <2>2. PICK g : IsFlat(g, u, n) /\ Feed!FlattenSeq(u) = g[n]
    BY <1>5, <2>1, FlattenIs
  <2>3. f[n] = g[n]
    <3>1. n \in 1..n /\ n + 1 \in n..(n + 1) /\ \A i \in 1..n : t[i] = u[i]
      BY <1>5
    <3>2. PICK m \in n..(n + 1) : m = n + 1
      BY <3>1
    <3>3. IsFlat(f, t, m)
      BY <1>1, <3>2
    <3> QED BY <2>2, <3>1, <3>3, FlatUnique
  <2>4. f[n + 1] = f[n] \o t[n + 1]
    BY <1>2, <1>5
  <2>5. Feed!FlattenSeq(t) = Feed!FlattenSeq(u) \o t[n + 1]
    BY <1>1, <2>2, <2>3, <2>4, Zenon
  <2>6. PICK a \in Seq(X), b \in Seq(X) : a = Feed!FlattenSeq(u) /\ b = t[n + 1]
    BY <1>3
  <2>7. a \o b \in Seq(X)
    BY ConcatProperties
  <2> QED BY <2>5, <2>6, <2>7, Zenon
<1> QED BY <1>4, <1>5
-----------------------------------------------------------------------------
(* What a packet is made into: frames' samples, left and right in turn.    *)
Alternates(q) == \A i \in 1..Len(q) : q[i][2] = IF i % 2 = 1 THEN "left" ELSE "right"

Sounds == UNION {{Feed!StereoPacket(k)[i] : i \in DOMAIN Feed!StereoPacket(k)} : k \in 1..Len(Packets)}

LEMMA FeedConstant ==
  /\ Streams \subseteq Nat \ {0}
  /\ Packets \in Seq(Nat) /\ Len(Packets) \in Nat /\ Wants \subseteq Nat
  /\ FeedRing \in Nat \ {0} /\ BlockSamples \in Nat \ {0} /\ BlockSamples % 2 = 0
<1>1. /\ Streams \subseteq Nat \ {0}
      /\ Packets \in Seq(Nat) /\ Wants \subseteq Nat
      /\ {FeedRing, BlockSamples} \subseteq Nat \ {0} /\ BlockSamples % 2 = 0
  BY FeedAssumption, Zenon DEF Feed!FeedConstants
<1>2. FeedRing \in Nat \ {0} /\ BlockSamples \in Nat \ {0}
  BY <1>1, Zenon
<1>3. Len(Packets) \in Nat
  BY <1>1, LenProperties
<1> QED BY <1>1, <1>2, <1>3, Zenon

LEMMA PacketSamplesAre ==
  ASSUME want \in Nat, NEW k \in 1..Len(Packets), NEW q, q = Feed!StereoPacket(k)
  PROVE  /\ q \in Seq(Sounds) /\ Alternates(q)
         /\ \E n \in Nat : Len(q) = 2 * n
<1> DEFINE p == Feed!Packet(k)
           r == Feed!Resampled(p)
<1>1. Packets[k] \in Nat
  BY FeedConstant, ElementOfSeq
<1>2. Len(p) \in Nat /\ p \in Seq({p[i] : i \in 1..Packets[k]})
  <2>1. PICK b : p = [i \in 1..Packets[k] |-> b + i]
    BY Zenon DEF Feed!Packet
  <2> HIDE DEF p
  <2> QED BY <1>1, <2>1
<1>10. q = Feed!Stereo(r)
  BY Zenon DEF Feed!StereoPacket
<1> HIDE DEF p
<1>3. Len(r) \in Nat
  <2> DEFINE pad == [i \in 1..((want - (Len(p) % want)) % want) |-> 0]
  <2>1. r = IF want = 0 THEN p ELSE p \o pad
    BY Zenon DEF Feed!Resampled, Feed!Pad
  <2>2. CASE want = 0
    BY <1>2, <2>1, <2>2
  <2>3. CASE want # 0
    <3>1. PICK n \in Nat : n = (want - (Len(p) % want)) % want
      BY <1>2, <2>3
    <3>2. pad = [i \in 1..n |-> 0]
      BY <3>1, Zenon
    <3> HIDE DEF pad
    <3>3. pad \in Seq({0})
      BY <3>2
    <3> DEFINE X == {p[i] : i \in 1..Packets[k]} \cup {0}
    <3>4. p \in Seq(X) /\ pad \in Seq(X)
      BY <1>2, <3>3
    <3> HIDE DEF pad, X
    <3>5. p \o pad \in Seq(X)
      BY <3>4, ConcatProperties
    <3> QED BY <2>1, <2>3, <3>5, LenProperties
  <2> QED BY <2>2, <2>3
<1> HIDE DEF r
<1>5. PICK n \in Nat : n = Len(r)
  BY <1>3
<1>6. q = [i \in 1..(2 * n) |-> <<r[(i + 1) \div 2], IF i % 2 = 1 THEN "left" ELSE "right">>]
  BY <1>10, <1>5, Zenon DEF Feed!Stereo
<1>7. DOMAIN q = 1..(2 * n) /\ Len(q) = 2 * n /\ 2 * n \in Nat
  BY <1>6
<1>8. Alternates(q)
  <2> SUFFICES ASSUME NEW i \in 1..(2 * n) PROVE q[i][2] = IF i % 2 = 1 THEN "left" ELSE "right"
    BY <1>7 DEF Alternates
  <2> QED BY <1>6
<1>9. q \in Seq(Sounds)
  <2>1. ASSUME NEW i \in 1..(2 * n) PROVE q[i] \in Sounds
    <3> DEFINE all(j) == {Feed!StereoPacket(j)[h] : h \in DOMAIN Feed!StereoPacket(j)}
    <3>1. q[i] \in all(k)
      BY <1>7, Zenon
    <3> HIDE DEF all
    <3>2. q[i] \in UNION {all(j) : j \in 1..Len(Packets)}
      BY <3>1, Zenon
    <3> QED BY <3>2, Zenon DEF all, Sounds
  <2>2. q = [i \in 1..(2 * n) |-> q[i]]
    BY <1>6
  <2> QED BY <1>7, <2>1, <2>2
<1> QED BY <1>5, <1>7, <1>8, <1>9

(* Joined, such sequences go on in turn. *)
LEMMA AlternatesJoin ==
  ASSUME NEW X, NEW a \in Seq(X), NEW b \in Seq(X), Alternates(a), Alternates(b),
         NEW n \in Nat, Len(a) = 2 * n
  PROVE  Alternates(a \o b)
<1> SUFFICES ASSUME NEW i \in 1..Len(a \o b)
             PROVE  (a \o b)[i][2] = IF i % 2 = 1 THEN "left" ELSE "right"
  BY DEF Alternates
<1>1. Len(a \o b) = 2 * n + Len(b) /\ Len(b) \in Nat
  OBVIOUS
<1>2. CASE i <= 2 * n
  <2>1. (a \o b)[i] = a[i] /\ i \in 1..Len(a)
    BY <1>1, <1>2
  <2> QED BY <2>1 DEF Alternates
<1>3. CASE i > 2 * n
  <2>1. (a \o b)[i] = b[i - 2 * n] /\ i - 2 * n \in 1..Len(b)
    BY <1>1, <1>3
  <2>2. (i - 2 * n) % 2 = i % 2
    BY <1>1
  <2> QED BY <2>1, <2>2 DEF Alternates
<1> QED BY <1>1, <1>2, <1>3

(* All that is made of the first packets, one packet after the other. *)
MadeWell(n) ==
  /\ Feed!Made(n) \in Seq(Sounds) /\ Alternates(Feed!Made(n))
  /\ \E m \in Nat : Len(Feed!Made(n)) = 2 * m

LEMMA MadeNone == Feed!Made(0) = <<>>
<1>1. [k \in 1..0 |-> Feed!StereoPacket(k)] = <<>>
  OBVIOUS
<1>2. Len(<<>>) = 0
  OBVIOUS
<1>3. Feed!FlattenSeq(<<>>) = <<>>
  BY <1>2, Zenon DEF Feed!FlattenSeq
<1> QED BY <1>1, <1>3, Zenon DEF Feed!Made

LEMMA MadeNext ==
  ASSUME want \in Nat, NEW n \in Nat, n < Len(Packets), MadeWell(n)
  PROVE  Feed!Made(n + 1) = Feed!Made(n) \o Feed!StereoPacket(n + 1) /\ MadeWell(n + 1)
<1> DEFINE t == [k \in 1..(n + 1) |-> Feed!StereoPacket(k)]
           u == [k \in 1..n |-> t[k]]
           p == Feed!StereoPacket(n + 1)
<1>1. n + 1 \in 1..Len(Packets) /\ \A k \in 1..(n + 1) : k \in 1..Len(Packets)
  BY FeedConstant
<1>2. t \in [1..(n + 1) -> Seq(Sounds)]
  BY <1>1, PacketSamplesAre
<1>3. p \in Seq(Sounds) /\ Alternates(p) /\ \E m \in Nat : Len(p) = 2 * m
  BY <1>1, PacketSamplesAre
<1>4. t[n + 1] = p
  <2>1. n + 1 \in 1..(n + 1)
    OBVIOUS
  <2> QED BY <2>1, Zenon
<1>5. Feed!FlattenSeq(u) = Feed!Made(n) /\ Feed!FlattenSeq(t) = Feed!Made(n + 1)
  <2>1. u = [k \in 1..n |-> Feed!StereoPacket(k)]
    <3>1. \A k \in 1..n : k \in 1..(n + 1)
      OBVIOUS
    <3> QED BY <3>1, Zenon
  <2>2. Feed!FlattenSeq(u) = Feed!Made(n)
    BY <2>1, Zenon DEF Feed!Made
  <2>3. Feed!FlattenSeq(t) = Feed!Made(n + 1)
    BY Zenon DEF Feed!Made
  <2> QED BY <2>2, <2>3
<1> HIDE DEF t
<1>6. Feed!FlattenSeq(t) = Feed!FlattenSeq(u) \o t[n + 1] /\ Feed!FlattenSeq(t) \in Seq(Sounds)
  <2>1. Feed!FlattenSeq(u) \in Seq(Sounds)
    BY <1>5, Zenon DEF MadeWell
  <2>2. u = [k \in 1..n |-> t[k]]
    OBVIOUS
  <2>3. \A f, g :
          /\ f \in [1..(n + 1) -> Seq(Sounds)]
          /\ Feed!FlattenSeq(g) \in Seq(Sounds) /\ g = [k \in 1..n |-> f[k]]
          => /\ Feed!FlattenSeq(f) = Feed!FlattenSeq(g) \o f[n + 1]
             /\ Feed!FlattenSeq(f) \in Seq(Sounds)
    BY FlattenOne
  <2> HIDE DEF u
  <2> QED BY <1>2, <2>1, <2>2, <2>3, Zenon
<1> HIDE DEF u, p
<1>7. PICK a \in Seq(Sounds) : a = Feed!Made(n) /\ Alternates(a) /\ \E m \in Nat : Len(a) = 2 * m
  BY DEF MadeWell
<1>8. Feed!Made(n + 1) = a \o p
  BY <1>4, <1>5, <1>6, <1>7
<1>9. /\ a \o p \in Seq(Sounds) /\ Alternates(a \o p)
      /\ \E m \in Nat : Len(a \o p) = 2 * m
  <2>1. PICK i \in Nat, j \in Nat : Len(a) = 2 * i /\ Len(p) = 2 * j
    BY <1>3, <1>7
  <2>2. a \o p \in Seq(Sounds) /\ Len(a \o p) = 2 * (i + j)
    BY <1>3, <2>1
  <2>3. Alternates(a \o p)
    BY <1>3, <1>7, <2>1, AlternatesJoin
  <2>4. i + j \in Nat
    OBVIOUS
  <2> QED BY <2>2, <2>3, <2>4
<1> QED BY <1>7, <1>8, <1>9, Zenon DEF MadeWell, p

LEMMA MadeAll ==
  ASSUME want \in Nat, NEW n \in 0..Len(Packets)
  PROVE  MadeWell(n)
<1> DEFINE Bad == {k \in 0..Len(Packets) : ~MadeWell(k)}
<1>1. Bad = {}
  <2> SUFFICES ASSUME Bad # {} PROVE FALSE
    OBVIOUS
  <2>1. PICK k \in Bad : \A j \in Bad : k <= j
    <3>1. Bad \subseteq Nat
      BY FeedConstant
    <3> HIDE DEF Bad
    <3> QED BY <3>1, LeastNat
  <2>2. CASE k = 0
    <3>1. <<>> \in Seq(Sounds) /\ Alternates(<<>>) /\ Len(<<>>) = 2 * 0
      BY DEF Alternates
    <3>2. MadeWell(0)
      BY <3>1, MadeNone DEF MadeWell
    <3> QED BY <2>2, <3>2
  <2>3. CASE k # 0
    <3>1. PICK j \in Nat : k = j + 1 /\ j < Len(Packets) /\ j \in 0..Len(Packets) /\ j \notin Bad
      <4>1. k - 1 \in Nat /\ k = (k - 1) + 1 /\ k - 1 < Len(Packets) /\ k - 1 \in 0..Len(Packets)
            /\ k - 1 \notin Bad
        BY <2>1, <2>3, FeedConstant
      <4> QED BY <4>1
    <3>2. MadeWell(j + 1)
      BY <3>1, MadeNext
    <3> QED BY <3>1, <3>2
  <2> QED BY <2>2, <2>3
<1> QED BY <1>1
-----------------------------------------------------------------------------
(* The way of the samples. *)
FeedType ==
  /\ want \in Nat
  /\ feed \in [Streams -> [packet : 1..(Len(Packets) + 1), out : Seq(Sounds)]]
  /\ ring \in [Streams -> Seq(Sounds)] /\ played \in [Streams -> Seq(Sounds)]
  /\ short \in [Streams -> 0..1]
  /\ pull \in [rest : SUBSET Streams, got : Nat]

\* What the read under way has of a stream.
Pulled(s) == IF pull.rest # {} /\ s = Feed!Current THEN pull.got ELSE 0

\* Played samples end in mid-frame as often as reads ran out there, but for
\* the read under way.
Sides == \A s \in Streams : (Len(played[s]) + short[s] + Pulled(s)) % 2 = 0

FeedInv == FeedType /\ Feed!EverySampleOnceInOrder /\ Sides

LEMMA CurrentStream ==
  ASSUME NEW S, S # {}, S \subseteq Streams
  PROVE  Feed!Min(S) \in S
<1>1. S \subseteq Nat
  BY FeedConstant
<1>2. \E i \in S : \A j \in S : i <= j
  BY <1>1, LeastNat
<1> QED BY <1>2, Zenon DEF Feed!Min

LEMMA SameSounds == want' = want => /\ Sounds' = Sounds
                                    /\ \A n : Feed!Made(n)' = Feed!Made(n)
                                    /\ \A k : Feed!StereoPacket(k)' = Feed!StereoPacket(k)
<1> SUFFICES ASSUME want' = want
             PROVE  /\ Sounds' = Sounds
                    /\ \A n : Feed!Made(n)' = Feed!Made(n)
                    /\ \A k : Feed!StereoPacket(k)' = Feed!StereoPacket(k)
  OBVIOUS
<1>1. \A f : Feed!Resampled(f)' = Feed!Resampled(f)
  BY DEF Feed!Resampled
<1>2. \A k : Feed!StereoPacket(k)' = Feed!StereoPacket(k)
  BY <1>1, Zenon DEF Feed!StereoPacket
<1>3. \A n : Feed!Made(n)' = Feed!Made(n)
  BY <1>2, Zenon DEF Feed!Made
<1>4. Sounds' = Sounds
  <2>1. \A k : {Feed!StereoPacket(k)[i] : i \in DOMAIN Feed!StereoPacket(k)}'
               = {Feed!StereoPacket(k)[i] : i \in DOMAIN Feed!StereoPacket(k)}
    BY <1>2, Zenon
  <2> DEFINE made(k) == {Feed!StereoPacket(k)[i] : i \in DOMAIN Feed!StereoPacket(k)}
  <2>2. \A k : made(k)' = made(k)
    BY <2>1
  <2>3. Sounds = UNION {made(k) : k \in 1..Len(Packets)}
    BY Zenon DEF Sounds
  <2>4. Sounds' = UNION {made(k)' : k \in 1..Len(Packets)}
    BY Zenon DEF Sounds
  <2> HIDE DEF made
  <2>5. {made(k)' : k \in 1..Len(Packets)} = {made(k) : k \in 1..Len(Packets)}
    BY <2>2
  <2> QED BY <2>3, <2>4, <2>5, Zenon
<1> QED BY <1>2, <1>3, <1>4

(* A sample that goes from the front of one queue to the end of another. *)
LEMMA Passes ==
  ASSUME NEW X, NEW a \in Seq(X), NEW b \in Seq(X), b # <<>>
  PROVE  /\ Append(a, Head(b)) \in Seq(X) /\ Tail(b) \in Seq(X)
         /\ Append(a, Head(b)) \o Tail(b) = a \o b
         /\ Len(Append(a, Head(b))) = Len(a) + 1
<1>1. Head(b) \in X /\ Tail(b) \in Seq(X) /\ b = <<Head(b)>> \o Tail(b)
  OBVIOUS
<1>2. Append(a, Head(b)) = a \o <<Head(b)>>
  BY <1>1, AppendIsConcat
<1>3. <<Head(b)>> \in Seq(X)
  BY <1>1
<1>4. (a \o <<Head(b)>>) \o Tail(b) = a \o (<<Head(b)>> \o Tail(b))
  BY <1>1, <1>3, ConcatAssociative
<1> QED BY <1>1, <1>2, <1>4

LEMMA FeedInit == Feed!Init => FeedInv
<1> SUFFICES ASSUME Feed!Init PROVE FeedInv
  OBVIOUS
<1>1. FeedType
  BY FeedConstant DEF Feed!Init, FeedType
<1>2. Feed!EverySampleOnceInOrder
  <2>1. <<>> \o <<>> \o <<>> = <<>>
    OBVIOUS
  <2>2. \A s \in Streams : /\ played[s] = <<>> /\ ring[s] = <<>> /\ feed[s].out = <<>>
                           /\ feed[s].packet = 1
    BY DEF Feed!Init
  <2>3. 1 - 1 = 0
    OBVIOUS
  <2> QED BY <2>1, <2>2, <2>3, MadeNone DEF Feed!EverySampleOnceInOrder
<1>3. Sides
  BY DEF Feed!Init, Sides, Pulled
<1> QED BY <1>1, <1>2, <1>3 DEF FeedInv

LEMMA DecodeFeeds == ASSUME FeedInv, NEW s \in Streams, Feed!Decode(s) PROVE FeedInv'
<1>1. /\ feed[s].out = <<>> /\ feed[s].packet <= Len(Packets)
      /\ UNCHANGED <<want, ring, gain, pull, played, short, gains>>
  BY DEF Feed!Decode
<1>2. PICK n \in Nat : /\ feed[s].packet = n + 1 /\ n < Len(Packets) /\ n \in 0..Len(Packets)
                       /\ n + 1 \in 1..Len(Packets)
  <2>1. feed[s].packet \in 1..(Len(Packets) + 1)
    BY DEF FeedInv, FeedType
  <2>2. PICK n \in Nat : feed[s].packet = n + 1
    <3>1. feed[s].packet - 1 \in Nat /\ feed[s].packet = (feed[s].packet - 1) + 1
      BY <2>1, FeedConstant
    <3> QED BY <3>1
  <2>3. PICK m \in Nat : m = Len(Packets)
    BY FeedConstant
  <2>4. n + 1 \in 1..(m + 1) /\ n + 1 <= m
    BY <1>1, <2>1, <2>2, <2>3
  <2>5. n < m /\ n \in 0..m /\ n + 1 \in 1..m
    BY <2>4
  <2> QED BY <2>2, <2>3, <2>5
<1>3. PICK q : q = Feed!StereoPacket(n + 1)
  OBVIOUS
<1>4. feed' = [feed EXCEPT ![s] = [packet |-> n + 2, out |-> q]]
  <2>1. feed' = [feed EXCEPT ![s] = [packet |-> feed[s].packet + 1,
                                     out |-> Feed!StereoPacket(feed[s].packet)]]
    BY DEF Feed!Decode, FeedInv, FeedType
  <2>2. feed[s].packet + 1 = n + 2
    BY <1>2
  <2> QED BY <1>2, <1>3, <2>1, <2>2
<1>5. q \in Seq(Sounds) /\ want \in Nat
  BY <1>2, <1>3, PacketSamplesAre DEF FeedInv, FeedType
<1>6. /\ Sounds' = Sounds /\ \A m : Feed!Made(m)' = Feed!Made(m)
  BY <1>1, SameSounds
<1>7. FeedType'
  <2>1. feed' \in [Streams -> [packet : 1..(Len(Packets) + 1), out : Seq(Sounds)]]
    <3>1. n + 2 \in 1..(Len(Packets) + 1)
      BY <1>2, FeedConstant
    <3> QED BY <1>4, <1>5, <3>1 DEF FeedInv, FeedType
  <2> QED BY <1>1, <1>6, <2>1 DEF FeedInv, FeedType
<1>8. Feed!EverySampleOnceInOrder'
  <2> SUFFICES ASSUME NEW t \in Streams
               PROVE  played[t] \o ring[t] \o feed'[t].out = Feed!Made(feed'[t].packet - 1)
    BY <1>1, <1>6, Zenon DEF Feed!EverySampleOnceInOrder
  <2>1. CASE t = s
    <3>1. feed'[t].out = q /\ feed'[t].packet = n + 2 /\ (n + 2) - 1 = n + 1 /\ (n + 1) - 1 = n
      BY <1>2, <1>4, <2>1 DEF FeedInv, FeedType
    <3>2. played[t] \o ring[t] \o <<>> = Feed!Made(n)
      BY <1>1, <1>2, <2>1, <3>1 DEF FeedInv, Feed!EverySampleOnceInOrder
    <3>3. Feed!Made(n + 1) = Feed!Made(n) \o q
      BY <1>2, <1>3, <1>5, MadeNext, MadeAll
    <3>4. played[t] \o ring[t] \in Seq(Sounds)
      BY DEF FeedInv, FeedType
    <3>5. (played[t] \o ring[t]) \o <<>> = played[t] \o ring[t]
      BY <3>4, ConcatEmptySeq
    <3> QED BY <3>1, <3>2, <3>3, <3>5
  <2>2. CASE t # s
    <3>1. feed'[t] = feed[t]
      BY <1>4, <2>2 DEF FeedInv, FeedType
    <3> QED BY <3>1, Zenon DEF FeedInv, Feed!EverySampleOnceInOrder
  <2> QED BY <2>1, <2>2
<1>9. Sides'
  BY <1>1, Zenon DEF FeedInv, Sides, Pulled, Feed!Current, Feed!Min
<1> QED BY <1>7, <1>8, <1>9 DEF FeedInv

LEMMA PushFeeds == ASSUME FeedInv, NEW s \in Streams, Feed!Push(s) PROVE FeedInv'
<1>1. UNCHANGED <<want, gain, pull, played, short, gains>> /\ feed[s].out # <<>>
  BY DEF Feed!Push, Feed!push_blocking
<1>2. PICK p, r, o : p = played[s] /\ r = ring[s] /\ o = feed[s].out
  OBVIOUS
<1>3. p \in Seq(Sounds) /\ r \in Seq(Sounds) /\ o \in Seq(Sounds) /\ o # <<>>
  BY <1>1, <1>2 DEF FeedInv, FeedType
<1>4. PICK r1, o1 : r1 = Append(r, Head(o)) /\ o1 = Tail(o)
  OBVIOUS
<1>5. r1 \in Seq(Sounds) /\ o1 \in Seq(Sounds) /\ r1 \o o1 = r \o o
  BY <1>3, <1>4, Passes
<1>6. ring' = [ring EXCEPT ![s] = r1] /\ feed' = [feed EXCEPT ![s].out = o1]
  BY <1>2, <1>4 DEF Feed!Push, Feed!push_blocking
<1>7. /\ Sounds' = Sounds /\ \A m : Feed!Made(m)' = Feed!Made(m)
  BY <1>1, SameSounds
<1>8. FeedType'
  <2>1. ring' \in [Streams -> Seq(Sounds)]
    BY <1>5, <1>6 DEF FeedInv, FeedType
  <2>2. feed' \in [Streams -> [packet : 1..(Len(Packets) + 1), out : Seq(Sounds)]]
    BY <1>5, <1>6 DEF FeedInv, FeedType
  <2> QED BY <1>1, <1>7, <2>1, <2>2 DEF FeedInv, FeedType
<1>9. Feed!EverySampleOnceInOrder'
  <2> SUFFICES ASSUME NEW t \in Streams
               PROVE  played[t] \o ring'[t] \o feed'[t].out = Feed!Made(feed'[t].packet - 1)
    BY <1>1, <1>7, Zenon DEF Feed!EverySampleOnceInOrder
  <2>1. CASE t = s
    <3>1. feed'[t].out = o1 /\ feed'[t].packet = feed[t].packet /\ ring'[t] = r1
      BY <1>6, <2>1 DEF FeedInv, FeedType
    <3>2. (p \o r) \o o = Feed!Made(feed[t].packet - 1)
      BY <1>2, <2>1, Zenon DEF FeedInv, Feed!EverySampleOnceInOrder
    <3>3. (p \o r) \o o = p \o (r \o o)
      BY <1>3, ConcatAssociative
    <3>4. (p \o r1) \o o1 = p \o (r1 \o o1)
      <4>1. p \in Seq(Sounds) /\ r1 \in Seq(Sounds) /\ o1 \in Seq(Sounds)
        BY <1>3, <1>5
      <4> QED BY <4>1, ConcatAssociative
    <3> QED BY <1>2, <1>5, <2>1, <3>1, <3>2, <3>3, <3>4, Zenon
  <2>2. CASE t # s
    <3>1. feed'[t] = feed[t] /\ ring'[t] = ring[t]
      BY <1>6, <2>2 DEF FeedInv, FeedType
    <3> QED BY <3>1, Zenon DEF FeedInv, Feed!EverySampleOnceInOrder
  <2> QED BY <2>1, <2>2
<1>10. Sides'
  BY <1>1, Zenon DEF FeedInv, Sides, Pulled, Feed!Current, Feed!Min
<1> QED BY <1>8, <1>9, <1>10 DEF FeedInv

(* The end of a read, full or run out: the next stream has nothing yet. *)
LEMMA NextHasNothing ==
  ASSUME FeedInv, pull.rest # {}, pull' = Feed!NextStream
  PROVE  /\ pull' \in [rest : SUBSET Streams, got : Nat]
         /\ \A s \in Streams : Pulled(s)' = 0
<1>1. pull.rest \in SUBSET Streams
  BY DEF FeedInv, FeedType
<1>2. pull'.got = 0 /\ pull' \in [rest : SUBSET Streams, got : Nat]
  BY <1>1 DEF Feed!NextStream
<1> QED BY <1>2 DEF Pulled

LEMMA PopFeeds == ASSUME FeedInv, Feed!Pop PROVE FeedInv'
<1>1. PICK s \in Streams : s = Feed!Current /\ pull.rest # {}
  BY CurrentStream DEF Feed!Pop, Feed!Current, FeedInv, FeedType
<1>2. UNCHANGED <<want, feed, gain, short, gains>> /\ ring[s] # <<>>
  BY <1>1 DEF Feed!Pop
<1>3. PICK p, r, o : p = played[s] /\ r = ring[s] /\ o = feed[s].out
  OBVIOUS
<1>4. p \in Seq(Sounds) /\ r \in Seq(Sounds) /\ o \in Seq(Sounds) /\ r # <<>>
  BY <1>2, <1>3 DEF FeedInv, FeedType
<1>5. PICK p1, r1 : p1 = Append(p, Head(r)) /\ r1 = Tail(r)
  OBVIOUS
<1>6. p1 \in Seq(Sounds) /\ r1 \in Seq(Sounds) /\ p1 \o r1 = p \o r /\ Len(p1) = Len(p) + 1
  BY <1>4, <1>5, Passes
<1>7. played' = [played EXCEPT ![s] = p1] /\ ring' = [ring EXCEPT ![s] = r1]
  BY <1>1, <1>3, <1>5 DEF Feed!Pop
<1>8. /\ Sounds' = Sounds /\ \A m : Feed!Made(m)' = Feed!Made(m)
  BY <1>2, SameSounds
<1>9. pull.got \in Nat
  BY DEF FeedInv, FeedType
<1>10. /\ pull' \in [rest : SUBSET Streams, got : Nat]
       /\ \A t \in Streams : t # s => Pulled(t) = 0 /\ Pulled(t)' = 0
       /\ Pulled(s) = pull.got /\ Pulled(s)' \in Nat /\ Pulled(s)' % 2 = (pull.got + 1) % 2
  <2>1. Pulled(s) = pull.got /\ \A t \in Streams : t # s => Pulled(t) = 0
    BY <1>1 DEF Pulled
  <2>2. CASE pull.got + 1 = BlockSamples
    <3>1. pull' = Feed!NextStream
      BY <2>2 DEF Feed!Pop
    <3>2. \A t \in Streams : Pulled(t)' = 0
      BY <1>1, <3>1, NextHasNothing
    <3>3. (pull.got + 1) % 2 = 0
      BY <2>2, FeedConstant
    <3> QED BY <1>1, <2>1, <3>1, <3>2, <3>3, NextHasNothing
  <2>3. CASE pull.got + 1 # BlockSamples
    <3>1. pull' = [pull EXCEPT !.got = @ + 1]
      BY <2>3 DEF Feed!Pop
    <3>2. pull'.rest = pull.rest /\ pull'.got = pull.got + 1 /\ pull' \in [rest : SUBSET Streams, got : Nat]
      <4>1. pull \in [rest : SUBSET Streams, got : Nat]
        BY DEF FeedInv, FeedType
      <4>2. pull' = [rest |-> pull.rest, got |-> pull.got + 1]
        BY <3>1, <4>1
      <4>3. pull.rest \in SUBSET Streams /\ pull.got + 1 \in Nat
        BY <1>9, <4>1
      <4> QED BY <4>2, <4>3
    <3>3. Feed!Current' = Feed!Current
      BY <3>2, Zenon DEF Feed!Current
    <3>4. Pulled(s)' = pull.got + 1 /\ \A t \in Streams : t # s => Pulled(t)' = 0
      BY <1>1, <3>2, <3>3 DEF Pulled
    <3> QED BY <1>9, <2>1, <3>2, <3>4
  <2> QED BY <2>2, <2>3
<1>11. FeedType'
  <2>1. ring' \in [Streams -> Seq(Sounds)] /\ played' \in [Streams -> Seq(Sounds)]
    BY <1>6, <1>7 DEF FeedInv, FeedType
  <2> QED BY <1>2, <1>8, <1>10, <2>1 DEF FeedInv, FeedType
<1>12. Feed!EverySampleOnceInOrder'
  <2> SUFFICES ASSUME NEW t \in Streams
               PROVE  played'[t] \o ring'[t] \o feed[t].out = Feed!Made(feed[t].packet - 1)
    BY <1>2, <1>8, Zenon DEF Feed!EverySampleOnceInOrder
  <2>1. CASE t = s
    <3>1. played'[t] = p1 /\ ring'[t] = r1
      BY <1>7, <2>1 DEF FeedInv, FeedType
    <3>2. (p \o r) \o o = Feed!Made(feed[t].packet - 1)
      BY <1>3, <2>1, Zenon DEF FeedInv, Feed!EverySampleOnceInOrder
    <3> QED BY <1>3, <1>6, <2>1, <3>1, <3>2, Zenon
  <2>2. CASE t # s
    <3>1. played'[t] = played[t] /\ ring'[t] = ring[t]
      BY <1>7, <2>2 DEF FeedInv, FeedType
    <3> QED BY <3>1, Zenon DEF FeedInv, Feed!EverySampleOnceInOrder
  <2> QED BY <2>1, <2>2
<1>13. Sides'
  <2> SUFFICES ASSUME NEW t \in Streams
               PROVE  (Len(played'[t]) + short[t] + Pulled(t)') % 2 = 0
    BY <1>2, Zenon DEF Sides
  <2>1. (Len(played[t]) + short[t] + Pulled(t)) % 2 = 0 /\ short[t] \in 0..1 /\ Len(played[t]) \in Nat
    BY LenProperties DEF FeedInv, FeedType, Sides
  <2>2. CASE t = s
    <3>1. Len(played'[t]) = Len(played[t]) + 1
      BY <1>3, <1>6, <1>7, <2>2 DEF FeedInv, FeedType
    <3>2. PICK a \in Nat, b \in Nat, c \in Nat :
            a = Len(played[t]) + short[t] /\ b = pull.got /\ c = Pulled(t)'
      BY <1>9, <1>10, <2>1, <2>2
    <3>3. (a + b) % 2 = 0 /\ c % 2 = (b + 1) % 2
      BY <1>10, <2>1, <2>2, <3>2
    <3>4. (a + 1 + c) % 2 = 0
      BY <3>3
    <3> QED BY <2>1, <3>1, <3>2, <3>4
  <2>3. CASE t # s
    <3>1. played'[t] = played[t]
      BY <1>7, <2>3 DEF FeedInv, FeedType
    <3> QED BY <1>10, <2>1, <2>3, <3>1
  <2> QED BY <2>2, <2>3
<1> QED BY <1>11, <1>12, <1>13 DEF FeedInv

LEMMA UnderrunFeeds == ASSUME FeedInv, Feed!Underrun PROVE FeedInv'
<1>1. PICK s \in Streams : s = Feed!Current /\ pull.rest # {}
  BY CurrentStream DEF Feed!Underrun, Feed!Current, FeedInv, FeedType
<1>2. /\ UNCHANGED <<want, feed, ring, gain, played, gains>> /\ pull' = Feed!NextStream
      /\ short' = [short EXCEPT ![s] = (@ + pull.got) % 2]
  BY <1>1 DEF Feed!Underrun
<1>3. /\ Sounds' = Sounds /\ \A m : Feed!Made(m)' = Feed!Made(m)
  BY <1>2, SameSounds
<1>4. /\ pull' \in [rest : SUBSET Streams, got : Nat]
      /\ \A t \in Streams : Pulled(t)' = 0
  BY <1>1, <1>2, NextHasNothing
<1>5. /\ pull.got \in Nat /\ short[s] \in 0..1 /\ Pulled(s) = pull.got
      /\ \A t \in Streams : t # s => Pulled(t) = 0
  BY <1>1 DEF FeedInv, FeedType, Pulled
<1>6. (short[s] + pull.got) % 2 \in 0..1
  BY <1>5
<1>7. FeedType'
  BY <1>2, <1>3, <1>4, <1>6 DEF FeedInv, FeedType
<1>8. Feed!EverySampleOnceInOrder'
  BY <1>2, <1>3, Zenon DEF FeedInv, Feed!EverySampleOnceInOrder
<1>9. Sides'
  <2> SUFFICES ASSUME NEW t \in Streams
               PROVE  (Len(played[t]) + short'[t] + Pulled(t)') % 2 = 0
    BY <1>2, Zenon DEF Sides
  <2>1. (Len(played[t]) + short[t] + Pulled(t)) % 2 = 0 /\ short[t] \in 0..1 /\ Len(played[t]) \in Nat
    BY LenProperties DEF FeedInv, FeedType, Sides
  <2>2. CASE t = s
    <3>1. short'[t] = (short[t] + pull.got) % 2
      BY <1>2, <2>2 DEF FeedInv, FeedType
    <3>2. PICK a \in Nat, b \in Nat, c \in Nat : a = Len(played[t]) /\ b = pull.got /\ c = short[t]
      BY <1>5, <2>1
    <3>3. (a + c + b) % 2 = 0
      BY <1>5, <2>1, <2>2, <3>2
    <3>4. (a + ((c + b) % 2) + 0) % 2 = 0
      BY <3>3
    <3> QED BY <1>4, <3>1, <3>2, <3>4
  <2>3. CASE t # s
    <3>1. short'[t] = short[t]
      BY <1>2, <2>3 DEF FeedInv, FeedType
    <3> QED BY <1>4, <1>5, <2>1, <2>3, <3>1
  <2> QED BY <2>2, <2>3
<1> QED BY <1>7, <1>8, <1>9 DEF FeedInv

LEMMA RestFeeds ==
  ASSUME FeedInv, NEW s \in Streams,
         Feed!SetStemGain(s) \/ Feed!pull_deck_or_stems \/ UNCHANGED feed_vars
  PROVE  FeedInv'
<1>1. UNCHANGED <<want, feed, ring, played, short>>
  BY DEF Feed!SetStemGain, Feed!pull_deck_or_stems, feed_vars
<1>2. /\ Sounds' = Sounds /\ \A m : Feed!Made(m)' = Feed!Made(m)
  BY <1>1, SameSounds
<1>3. pull' = pull \/ (pull.rest = {} /\ pull' = [rest |-> {t \in Streams : gain[t]}, got |-> 0])
  BY DEF Feed!SetStemGain, Feed!pull_deck_or_stems, feed_vars
<1>4. FeedType'
  BY <1>1, <1>2, <1>3 DEF FeedInv, FeedType
<1>5. Feed!EverySampleOnceInOrder'
  BY <1>1, <1>2, Zenon DEF FeedInv, Feed!EverySampleOnceInOrder
<1>6. \A t \in Streams : Pulled(t)' = Pulled(t)
  <2>1. CASE pull' = pull
    BY <2>1, Zenon DEF Pulled, Feed!Current, Feed!Min
  <2>2. CASE pull.rest = {} /\ pull' = [rest |-> {t \in Streams : gain[t]}, got |-> 0]
    BY <2>2 DEF Pulled
  <2> QED BY <1>3, <2>1, <2>2
<1>7. Sides'
  BY <1>1, <1>6, Zenon DEF FeedInv, Sides
<1> QED BY <1>4, <1>5, <1>7 DEF FeedInv

(* Between blocks the next sample of a ring is the one after those played. *)
LEMMA FeedHolds == FeedInv => FeedIsLossless
<1> SUFFICES ASSUME FeedInv, pull.rest = {}, NEW s \in Streams, ring[s] # <<>>
             PROVE  Head(ring[s])[2] = "left" <=> short[s] = 0
  BY DEF FeedInv, FeedIsLossless, Feed!SidesFollowUnderruns
<1>1. PICK p, r, o : p = played[s] /\ r = ring[s] /\ o = feed[s].out
  OBVIOUS
<1>2. p \in Seq(Sounds) /\ r \in Seq(Sounds) /\ o \in Seq(Sounds) /\ r # <<>> /\ short[s] \in 0..1
  BY <1>1 DEF FeedInv, FeedType
<1>3. PICK n \in 0..Len(Packets) : n = feed[s].packet - 1
  <2>1. feed[s].packet \in 1..(Len(Packets) + 1)
    BY DEF FeedInv, FeedType
  <2> QED BY <2>1, FeedConstant
<1>4. PICK q : q = (p \o r) \o o
  OBVIOUS
<1>5. Alternates(q)
  <2>1. q = Feed!Made(n)
    BY <1>1, <1>3, <1>4, Zenon DEF FeedInv, Feed!EverySampleOnceInOrder
  <2> QED BY <2>1, MadeAll DEF MadeWell, FeedInv, FeedType
<1>6. /\ Len(p) \in Nat /\ Len(p) + 1 \in 1..Len(q) /\ q[Len(p) + 1] = Head(r)
  <2>1. p \o r \in Seq(Sounds) /\ Len(p \o r) = Len(p) + Len(r) /\ Len(r) > 0 /\ Len(p) \in Nat /\ Len(r) \in Nat
    BY <1>2
  <2>2. (p \o r)[Len(p) + 1] = r[1]
    BY <1>2, <2>1
  <2>3. Len(q) = Len(p \o r) + Len(o) /\ Len(o) \in Nat
    BY <1>2, <1>4, <2>1
  <2>4. q[Len(p) + 1] = (p \o r)[Len(p) + 1]
    BY <1>2, <1>4, <2>1
  <2> QED BY <1>2, <2>1, <2>2, <2>3, <2>4
<1>7. Head(r)[2] = IF (Len(p) + 1) % 2 = 1 THEN "left" ELSE "right"
  BY <1>5, <1>6 DEF Alternates
<1>8. (Len(p) + short[s] + 0) % 2 = 0
  BY <1>1 DEF FeedInv, Sides, Pulled
<1>9. (Len(p) + 1) % 2 = 1 <=> short[s] = 0
  <2>1. PICK a \in Nat, c \in 0..1 : a = Len(p) /\ c = short[s]
    BY <1>2, <1>6
  <2>2. (a + c + 0) % 2 = 0
    BY <1>8, <2>1
  <2>3. (a + 1) % 2 = 1 <=> c = 0
    BY <2>2
  <2> QED BY <2>1, <2>3
<1> QED BY <1>1, <1>7, <1>9

(* What has been heard of a file, what waits in its ring and what its      *)
(* thread still holds are together what it decoded, and each sample is     *)
(* heard on its own side but for reads that ran out in mid-frame           *)
(* (decode.rs push_into_ring and read, mixer.rs pull_deck_or_stems).       *)
THEOREM FeedCorrect == Feed!Spec => []FeedIsLossless
<1>1. FeedInv /\ [Feed!Next]_feed_vars => FeedInv'
  <2> SUFFICES ASSUME FeedInv, [Feed!Next]_feed_vars PROVE FeedInv'
    OBVIOUS
  <2>1. ASSUME NEW s \in Streams, Feed!Decode(s) \/ Feed!Push(s) \/ Feed!SetStemGain(s) PROVE FeedInv'
    BY <2>1, DecodeFeeds, PushFeeds, RestFeeds
  <2>2. CASE Feed!pull_deck_or_stems \/ UNCHANGED feed_vars
    BY <2>2, RestFeeds, FeedConstant, FeedAssumption DEF Feed!FeedConstants
  <2>3. CASE Feed!Pop
    BY <2>3, PopFeeds
  <2>4. CASE Feed!Underrun
    BY <2>4, UnderrunFeeds
  <2> QED BY <2>1, <2>2, <2>3, <2>4 DEF Feed!Next
<1>2. Feed!Spec => Feed!Init /\ [][Feed!Next]_feed_vars
  BY PTL DEF Feed!Spec, Feed!vars, feed_vars
<1> QED BY <1>1, <1>2, FeedInit, FeedHolds, PTL
=============================================================================
