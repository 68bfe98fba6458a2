---------------------------- MODULE BridgeProofs ----------------------------
(***************************************************************************)
(* For any number of clients and events, however their stamps and sends    *)
(* and the sweeper's interleave: what the bridge promises of the order of  *)
(* events, and of the notices where its own handle folds them.  An event   *)
(* under way is in one place at a time: stamped, in the channel, or        *)
(* folded; the last two together are the path.                             *)
(***************************************************************************)
EXTENDS EngineBridge, EngineStateProofs, FiniteSetTheorems

Event == [id : Nat, by : Actors, kind : EventKind]
Path == applied \o channel

Types ==
  /\ next_id \in Nat \ {0} /\ now \in Nat /\ submitted \in 0..MaxEvents
  /\ stamped \in [Actors -> Event \cup {None}]
  /\ todo \in Seq(EventKind) /\ channel \in Seq(Event) /\ applied \in Seq(Event)
  /\ loop_state \in EngineStateType /\ handle_state \in EngineStateType
  /\ handle_log \in Seq(Nat) /\ notices \in Seq(Nat)
  /\ current \in Event \cup {None}

Ordered(p) ==
  \A i, j \in DOMAIN p :
    i < j => /\ p[i].id # p[j].id
             /\ p[i].by = p[j].by => p[i].id < p[j].id

\* Event ev may come next behind p.
MayFollow(p, ev) ==
  \A i \in DOMAIN p : p[i].id # ev.id /\ (p[i].by = ev.by => p[i].id < ev.id)

\* Ids are handed out once.
Ids ==
  /\ \A i \in DOMAIN channel : channel[i].id < next_id
  /\ \A i \in DOMAIN handle_log : handle_log[i] < next_id
  /\ \A a \in Actors : stamped[a] # None => stamped[a].id < next_id /\ stamped[a].by = a
  /\ \A a, b \in Actors :
       a # b /\ stamped[a] # None /\ stamped[b] # None => stamped[a].id # stamped[b].id
  /\ current # None => current.id < next_id /\ current.id = Last(applied).id

Paths ==
  wiring = "control_loop" =>
    /\ Ordered(Path)
    /\ \A i \in DOMAIN Path : Path[i].id < next_id
    /\ \A a \in Actors : stamped[a] # None => MayFollow(Path, stamped[a])

Told ==
  /\ wiring = "control_loop" => current = None
  /\ current = None => notices = handle_log
  /\ current # None => \/ notices = handle_log /\ current.id \notin ToSet(handle_log)
                       \/ handle_log = Append(notices, current.id)

Inv == Types /\ Ids /\ Paths /\ Told
-----------------------------------------------------------------------------
(* Sequences *)

LEMMA Appended ==
  ASSUME NEW S, NEW s \in Seq(S), NEW e \in S, NEW t, t = Append(s, e)
  PROVE  /\ t \in Seq(S) /\ Len(t) = Len(s) + 1 /\ Len(s) \in Nat
         /\ DOMAIN s = 1..Len(s) /\ DOMAIN t = 1..Len(s) + 1
         /\ \A i \in 1..Len(s) : t[i] = s[i] /\ s[i] \in S
         /\ t[Len(s) + 1] = e
BY AppendProperties, LenProperties, ElementOfSeq

LEMMA Members ==
  ASSUME NEW S, NEW s \in Seq(S)
  PROVE  \A i \in DOMAIN s : s[i] \in S
BY ElementOfSeq, LenProperties

LEMMA SendAlong ==
  ASSUME NEW S, NEW s \in Seq(S), NEW q \in Seq(S), NEW e \in S
  PROVE  s \o Append(q, e) = Append(s \o q, e) /\ s \o q \in Seq(S)
<1>1. s \o q \in Seq(S)
  BY ConcatProperties
<1>2. <<e>> \in Seq(S) /\ Append(q, e) = q \o <<e>> /\ Append(s \o q, e) = (s \o q) \o <<e>>
  BY <1>1, AppendIsConcat
<1> QED BY <1>1, <1>2, ConcatAssociative

LEMMA TakeAlong ==
  ASSUME NEW S, NEW s \in Seq(S), NEW q \in Seq(S), q # <<>>
  PROVE  /\ Head(q) \in S /\ Tail(q) \in Seq(S) /\ Append(s, Head(q)) \in Seq(S)
         /\ Append(s, Head(q)) \o Tail(q) = s \o q
         /\ Head(q) = q[1] /\ 1 \in DOMAIN q
         /\ \A i \in DOMAIN Tail(q) : i + 1 \in DOMAIN q /\ Tail(q)[i] = q[i + 1]
<1>1. Len(q) \in Nat /\ Len(q) # 0 /\ DOMAIN q = 1..Len(q)
  BY EmptySeq, LenProperties
<1>2. Head(q) \in S /\ Tail(q) \in Seq(S) /\ Head(q) = q[1] /\ Len(Tail(q)) = Len(q) - 1
  BY HeadTailProperties, <1>1
<1>3. Append(s, Head(q)) \in Seq(S)
  BY <1>2, AppendProperties
<1>4. DOMAIN Tail(q) = 1..Len(q) - 1 /\ \A i \in 1..Len(q) - 1 : Tail(q)[i] = q[i + 1]
  BY <1>1, <1>2, HeadTailProperties, LenProperties
<1>5. Append(s, Head(q)) \o Tail(q) = s \o q
  <2>1. <<Head(q)>> \in Seq(S) /\ Append(s, Head(q)) = s \o <<Head(q)>>
    BY <1>2, AppendIsConcat
  <2>2. (s \o <<Head(q)>>) \o Tail(q) = s \o (<<Head(q)>> \o Tail(q))
    BY <1>2, <2>1, ConcatAssociative
  <2>3. <<Head(q)>> \o Tail(q) = q
    BY HeadTailProperties, <1>1
  <2> QED BY <2>1, <2>2, <2>3
<1> QED BY <1>1, <1>2, <1>3, <1>4, <1>5

LEMMA OrderGrows ==
  ASSUME NEW p \in Seq(Event), NEW ev \in Event, Ordered(p), MayFollow(p, ev)
  PROVE  /\ Ordered(Append(p, ev))
         /\ \A later : MayFollow(p, later) /\ later.id # ev.id /\ later.by # ev.by
                         => MayFollow(Append(p, ev), later)
<1>1. PICK q : q = Append(p, ev)
  OBVIOUS
<1>2. /\ Len(p) \in Nat /\ DOMAIN p = 1..Len(p) /\ DOMAIN q = 1..Len(p) + 1
      /\ \A i \in 1..Len(p) : q[i] = p[i]
      /\ q[Len(p) + 1] = ev
  BY <1>1, Appended
<1>3. Ordered(q)
  <2> SUFFICES ASSUME NEW i \in DOMAIN q, NEW j \in DOMAIN q, i < j
               PROVE  q[i].id # q[j].id /\ (q[i].by = q[j].by => q[i].id < q[j].id)
    BY DEF Ordered
  <2>1. i \in DOMAIN p /\ q[i] = p[i]
    BY <1>2
  <2>2. CASE j = Len(p) + 1
    BY <1>2, <2>1, <2>2 DEF MayFollow
  <2>3. CASE j \in DOMAIN p
    BY <1>2, <2>1, <2>3 DEF Ordered
  <2> QED BY <1>2, <2>2, <2>3
<1>4. ASSUME NEW later, MayFollow(p, later), later.id # ev.id, later.by # ev.by
      PROVE  MayFollow(q, later)
  BY <1>2, <1>4 DEF MayFollow
<1> QED BY <1>1, <1>3, <1>4

LEMMA AtType == ASSUME NEW k \in EventKind, NEW t \in Nat PROVE At(k, t) \in EventKind
<1>1. CASE k.kind = "EffectOneShot"
  <2>1. k \in [kind : {"EffectOneShot"}, deck : DeckId, slot : Nat, beats : Nat, ts : Int]
    BY <1>1 DEF EventKind, DeckEvent, FxEvent, MasterEvent, LoadEvent, LoadStemsEvent, PlainDeckEvent
  <2>2. [k EXCEPT !.ts = t] \in [kind : {"EffectOneShot"}, deck : DeckId, slot : Nat, beats : Nat, ts : Int]
    BY <2>1
  <2> QED BY <1>1, <2>2 DEF At, EventKind, FxEvent
<1>2. CASE k.kind # "EffectOneShot"
  BY <1>2 DEF At
<1> QED BY <1>1, <1>2

(* What the sweeper found has the shape of an event. *)
LEMMA SlotOf ==
  ASSUME NEW i \in DOMAIN EverySlot
  PROVE  EverySlot[i][1] \in DeckId /\ EverySlot[i][2] \in Slots
BY DEF EverySlot, DeckId, Slots

LEMMA DisengageType ==
  ASSUME NEW s \in EngineStateType, NEW i \in DOMAIN EverySlot, Pending(s, EverySlot[i])
  PROVE  Disengage(s, EverySlot[i]) \in EventKind
<1>1. PICK d, n : d = EverySlot[i][1] /\ n = EverySlot[i][2]
  OBVIOUS
<1>2. d \in DeckId /\ n \in Slots /\ n \in Nat
  BY <1>1, SlotOf DEF Slots
<1>3. PICK x : x = s.deck[d].effects[n].one_shot
  OBVIOUS
<1>4. x \in OneShotOption /\ x # None
  <2>1. s.deck[d] \in Deck
    BY <1>2 DEF EngineStateType, DeckPair
  <2>2. s.deck[d].effects[n] \in EffectSlot
    BY <1>2, <2>1 DEF Deck, EffectSlots
  <2> QED BY <1>1, <1>3, <2>2 DEF EffectSlot, Pending, SlotAt
<1>5. x.was_enabled \in BOOLEAN
  BY <1>4 DEF OneShotOption, OneShotState
<1>6. Disengage(s, EverySlot[i])
        = [kind |-> "EffectEnable", deck |-> d, slot |-> n, enabled |-> x.was_enabled]
  BY <1>1, <1>3 DEF Disengage, SlotAt
<1>7. [kind |-> "EffectEnable", deck |-> d, slot |-> n, enabled |-> x.was_enabled]
        \in [kind : {"EffectEnable"}, deck : DeckId, slot : Nat, enabled : BOOLEAN]
  BY <1>2, <1>5
<1> QED BY <1>6, <1>7 DEF EventKind, FxEvent

LEMMA ScanType ==
  ASSUME NEW s \in EngineStateType, NEW S \in SUBSET DOMAIN EverySlot,
         \A i \in S : Pending(s, EverySlot[i]), NEW scan \in InOrder(S)
  PROVE  [n \in DOMAIN scan |-> Disengage(s, EverySlot[scan[n]])] \in Seq(EventKind)
<1>1. Cardinality(S) \in Nat
  <2>1. DOMAIN EverySlot = 1..6
    BY DEF EverySlot
  <2>2. IsFiniteSet(1..6)
    <3>1. PICK a \in Int, b \in Int : a = 1 /\ b = 6
      OBVIOUS
    <3>2. IsFiniteSet(a..b)
      BY FS_Interval
    <3> QED BY <3>1, <3>2
  <2>3. IsFiniteSet(S)
    BY <2>1, <2>2, FS_Subset
  <2> QED BY <2>3, FS_CardinalityType
<1>2. scan \in [1..Cardinality(S) -> S] /\ DOMAIN scan = 1..Cardinality(S)
  BY DEF InOrder
<1>3. \A n \in DOMAIN scan : Disengage(s, EverySlot[scan[n]]) \in EventKind
  BY <1>2, DisengageType
<1>4. [n \in DOMAIN scan |-> Disengage(s, EverySlot[scan[n]])] \in [1..Cardinality(S) -> EventKind]
  BY <1>2, <1>3
<1> QED BY <1>1, <1>4, SeqDef
-----------------------------------------------------------------------------
(* Steps that leave the events under way alone. *)
LEMMA QuietStep ==
  ASSUME Inv, UNCHANGED <<wiring, next_id, stamped, channel, applied, handle_log, current, notices>>
  PROVE  Ids' /\ Paths' /\ Told'
BY DEF Inv, Ids, Paths, Told, Path

(* A new stamp may follow all there is. *)
LEMMA StampStep ==
  ASSUME Inv, NEW a \in Actors, NEW k \in EventKind, Stamp(a, k),
         UNCHANGED <<wiring, channel, applied, handle_log, current, notices>>
  PROVE  /\ stamped' \in [Actors -> Event \cup {None}] /\ next_id' \in Nat \ {0}
         /\ Ids' /\ Paths' /\ Told'
<1>1. PICK ev : ev = [id |-> next_id, by |-> a, kind |-> At(k, now)]
  OBVIOUS
<1>2. ev \in Event /\ ev.id = next_id /\ ev.by = a
  BY <1>1, AtType DEF Event, Inv, Types
<1>3. /\ stamped' = [stamped EXCEPT ![a] = ev] /\ next_id' = next_id + 1
      /\ stamped \in [Actors -> Event \cup {None}] /\ next_id \in Nat \ {0}
  BY <1>1 DEF Stamp, Inv, Types
<1>4. /\ stamped' \in [Actors -> Event \cup {None}] /\ stamped'[a] = ev
      /\ \A b \in Actors : b # a => stamped'[b] = stamped[b]
  BY <1>2, <1>3
<1>5. channel \in Seq(Event) /\ applied \in Seq(Event) /\ handle_log \in Seq(Nat)
      /\ current \in Event \cup {None}
  BY DEF Inv, Types
<1>6. Ids'
  <2>1. \A i \in DOMAIN channel' : channel'[i].id < next_id'
    <3>1. \A i \in DOMAIN channel : channel[i] \in Event
      BY <1>5, Members
    <3>2. \A i \in DOMAIN channel : channel[i].id < next_id /\ channel[i].id \in Nat
      BY <3>1 DEF Inv, Ids, Event
    <3> QED BY <1>3, <3>2
  <2>2. \A i \in DOMAIN handle_log' : handle_log'[i] < next_id'
    <3>1. \A i \in DOMAIN handle_log : handle_log[i] < next_id /\ handle_log[i] \in Nat
      BY <1>5, ElementOfSeq, LenProperties DEF Inv, Ids
    <3> QED BY <1>3, <3>1
  <2>3. \A b \in Actors : stamped[b] # None => stamped[b].id < next_id /\ stamped[b].by = b
                                               /\ stamped[b].id \in Nat
    BY <1>3 DEF Inv, Ids, Event
  <2>4. \A b \in Actors : stamped'[b] # None => stamped'[b].id < next_id' /\ stamped'[b].by = b
    BY <1>2, <1>3, <1>4, <2>3
  <2>5. \A b, c \in Actors :
          b # c /\ stamped'[b] # None /\ stamped'[c] # None => stamped'[b].id # stamped'[c].id
    <3>1. \A b, c \in Actors :
            b # c /\ stamped[b] # None /\ stamped[c] # None => stamped[b].id # stamped[c].id
      BY DEF Inv, Ids
    <3>2. \A b \in Actors : stamped[b] # None => stamped[b].id # next_id
      BY <1>3, <2>3
    <3> QED BY <1>2, <1>4, <3>1, <3>2
  <2>6. current' # None => current'.id < next_id' /\ current'.id = Last(applied)'.id
    <3>1. current # None => current.id < next_id /\ current.id = Last(applied).id /\ current.id \in Nat
      BY <1>5 DEF Inv, Ids, Event
    <3> QED BY <1>3, <3>1 DEF Last
  <2> QED BY <2>1, <2>2, <2>4, <2>5, <2>6 DEF Ids
<1>7. Paths'
  <2> SUFFICES ASSUME wiring = "control_loop"
               PROVE  /\ Ordered(Path) /\ \A i \in DOMAIN Path : Path[i].id < next_id'
                      /\ \A b \in Actors : stamped'[b] # None => MayFollow(Path, stamped'[b])
    BY DEF Paths, Path
  <2>1. /\ Ordered(Path) /\ \A i \in DOMAIN Path : Path[i].id < next_id
        /\ \A b \in Actors : stamped[b] # None => MayFollow(Path, stamped[b])
    BY DEF Inv, Paths
  <2>2. \A i \in DOMAIN Path : Path[i].id \in Nat
    <3>1. Path \in Seq(Event)
      BY <1>5, ConcatProperties DEF Path
    <3>2. \A i \in DOMAIN Path : Path[i] \in Event
      BY <3>1, Members
    <3> QED BY <3>2 DEF Event
  <2>3. MayFollow(Path, ev)
    BY <1>2, <1>3, <2>1, <2>2 DEF MayFollow
  <2>4. \A i \in DOMAIN Path : Path[i].id < next_id'
    BY <1>3, <2>1, <2>2
  <2> QED BY <1>4, <2>1, <2>3, <2>4
<1>8. Told'
  BY DEF Inv, Told
<1> QED BY <1>3, <1>4, <1>6, <1>7, <1>8

LEMMA SubmitKeeps ==
  ASSUME Inv, NEW c \in Clients, NEW k \in Kinds, Submit(c, k) PROVE Inv'
<1>1. k \in EventKind /\ c \in Actors
  BY EngineBridgeAssumption DEF Actors
<1>2. /\ stamped' \in [Actors -> Event \cup {None}] /\ next_id' \in Nat \ {0}
      /\ Ids' /\ Paths' /\ Told'
  BY <1>1, StampStep DEF Submit, loop_vars, handle_vars
<1>3. Types'
  <2>1. submitted' \in 0..MaxEvents
    BY EngineBridgeAssumption DEF Submit, Inv, Types
  <2> QED BY <1>2, <2>1 DEF Submit, sweep_vars, loop_vars, handle_vars, Inv, Types
<1> QED BY <1>2, <1>3 DEF Inv

LEMMA SweepEmitKeeps == ASSUME Inv, SweepEmit PROVE Inv'
<1>1. todo \in Seq(EventKind) /\ todo # <<>>
  BY DEF SweepEmit, Inv, Types
<1>2. Head(todo) \in EventKind /\ Tail(todo) \in Seq(EventKind) /\ Sweeper \in Actors
  BY <1>1, HeadTailProperties DEF Actors
<1>3. /\ stamped' \in [Actors -> Event \cup {None}] /\ next_id' \in Nat \ {0}
      /\ Ids' /\ Paths' /\ Told'
  BY <1>2, StampStep DEF SweepEmit, loop_vars, handle_vars
<1>4. Types'
  BY <1>2, <1>3 DEF SweepEmit, loop_vars, handle_vars, Inv, Types
<1> QED BY <1>3, <1>4 DEF Inv

LEMMA SweepSnapshotKeeps == ASSUME Inv, SweepSnapshot PROVE Inv'
<1>1. PICK S \in SUBSET DOMAIN EverySlot :
        /\ \A i \in S : Pending(handle_state, EverySlot[i])
        /\ \E scan \in InOrder(S) :
             todo' = [n \in DOMAIN scan |-> Disengage(handle_state, EverySlot[scan[n]])]
  <2>1. PICK S : S = {i \in DOMAIN EverySlot : Expired(handle_state, EverySlot[i], sweep_now)}
    OBVIOUS
  <2>2. S \in SUBSET DOMAIN EverySlot /\ \A i \in S : Pending(handle_state, EverySlot[i])
    BY <2>1 DEF Expired
  <2> QED BY <2>1, <2>2 DEF SweepSnapshot
<1>2. todo' \in Seq(EventKind)
  BY <1>1, ScanType DEF Inv, Types
<1>3. Types'
  BY <1>2 DEF SweepSnapshot, loop_vars, handle_vars, Inv, Types
<1>4. Ids' /\ Paths' /\ Told'
  BY QuietStep DEF SweepSnapshot, loop_vars, handle_vars
<1> QED BY <1>3, <1>4 DEF Inv

LEMMA IdleKeeps == ASSUME Inv, SweepClock \/ Tick \/ UNCHANGED vars PROVE Inv'
<1>1. Types'
  BY DEF SweepClock, Tick, vars, sweep_vars, loop_vars, handle_vars, Inv, Types
<1>2. Ids' /\ Paths' /\ Told'
  BY QuietStep DEF SweepClock, Tick, vars, sweep_vars, loop_vars, handle_vars
<1> QED BY <1>1, <1>2 DEF Inv

(* A stamped event gets to the end of the path. *)
LEMMA ForwardKeeps == ASSUME Inv, NEW a \in Actors, Forward(a) PROVE Inv'
<1>1. PICK ev : ev = stamped[a]
  OBVIOUS
<1>2. ev \in Event /\ ev # None /\ ev.by = a /\ ev.id < next_id
  BY <1>1 DEF Forward, Inv, Types, Ids
<1>3. /\ channel' = Append(channel, ev)
      /\ stamped' = [stamped EXCEPT ![a] = None]
      /\ UNCHANGED <<wiring, next_id, now, submitted, todo, applied, handle_log, current, notices,
                     loop_state, handle_state>>
  BY <1>1 DEF Forward, sweep_vars, loop_vars, handle_vars
<1>4. channel \in Seq(Event) /\ applied \in Seq(Event) /\ stamped \in [Actors -> Event \cup {None}]
  BY DEF Inv, Types
<1>5. /\ stamped' \in [Actors -> Event \cup {None}] /\ stamped'[a] = None
      /\ \A b \in Actors : b # a => stamped'[b] = stamped[b]
  BY <1>3, <1>4
<1>6. /\ channel' \in Seq(Event) /\ DOMAIN channel' = 1..Len(channel) + 1
      /\ DOMAIN channel = 1..Len(channel) /\ Len(channel) \in Nat
      /\ \A i \in 1..Len(channel) : channel'[i] = channel[i]
      /\ channel'[Len(channel) + 1] = ev
  BY <1>2, <1>3, <1>4, Appended
<1>7. Types'
  BY <1>3, <1>5, <1>6 DEF Inv, Types
<1>8. Ids'
  <2>1. \A i \in DOMAIN channel' : channel'[i].id < next_id'
    BY <1>2, <1>3, <1>6 DEF Inv, Ids
  <2>2. \A b \in Actors : stamped'[b] # None => stamped'[b].id < next_id' /\ stamped'[b].by = b
    BY <1>3, <1>5 DEF Inv, Ids
  <2>3. \A b, c \in Actors :
          b # c /\ stamped'[b] # None /\ stamped'[c] # None => stamped'[b].id # stamped'[c].id
    BY <1>5 DEF Inv, Ids
  <2> QED BY <1>3, <2>1, <2>2, <2>3 DEF Inv, Ids
<1>9. Paths'
  <2> SUFFICES ASSUME wiring = "control_loop"
               PROVE  /\ Ordered(Path)' /\ \A i \in DOMAIN Path' : Path'[i].id < next_id
                      /\ \A b \in Actors : stamped'[b] # None => MayFollow(Path', stamped'[b])
    BY <1>3 DEF Paths, MayFollow
  <2>1. Path' = Append(Path, ev) /\ Path \in Seq(Event)
    BY <1>2, <1>3, <1>4, SendAlong DEF Path
  <2>2. Ordered(Path) /\ MayFollow(Path, ev)
    BY <1>1, <1>2 DEF Inv, Paths
  <2>3. Ordered(Path')
    BY <1>2, <2>1, <2>2, OrderGrows
  <2>4. \A i \in DOMAIN Path' : Path'[i].id < next_id
    <3>1. /\ DOMAIN Path' = 1..Len(Path) + 1 /\ DOMAIN Path = 1..Len(Path)
          /\ \A i \in 1..Len(Path) : Path'[i] = Path[i]
          /\ Path'[Len(Path) + 1] = ev /\ Len(Path) \in Nat
      BY <1>2, <2>1, Appended
    <3> QED BY <1>2, <3>1 DEF Inv, Paths
  <2>5. ASSUME NEW b \in Actors, stamped'[b] # None PROVE MayFollow(Path', stamped'[b])
    <3>1. b # a /\ stamped'[b] = stamped[b] /\ stamped[b] # None
      BY <1>5, <2>5
    <3>2. MayFollow(Path, stamped[b]) /\ stamped[b].id # ev.id /\ stamped[b].by = b
      BY <1>1, <1>2, <3>1 DEF Inv, Paths, Ids
    <3>3. MayFollow(Append(Path, ev), stamped[b])
      BY <1>2, <2>1, <2>2, <3>1, <3>2, OrderGrows
    <3> QED BY <2>1, <3>1, <3>3
  <2> QED BY <2>3, <2>4, <2>5 DEF Ordered
<1>10. Told'
  BY <1>3 DEF Inv, Told
<1> QED BY <1>7, <1>8, <1>9, <1>10 DEF Inv

(* Folding moves the head of the channel within the path. *)
LEMMA ControlLoopKeeps == ASSUME Inv, ControlLoop PROVE Inv'
<1>1. /\ channel \in Seq(Event) /\ applied \in Seq(Event) /\ channel # <<>>
      /\ wiring = "control_loop" /\ loop_state \in EngineStateType
  BY DEF ControlLoop, Inv, Types
<1>2. /\ Head(channel) \in Event /\ Tail(channel) \in Seq(Event)
      /\ Append(applied, Head(channel)) \in Seq(Event)
      /\ Append(applied, Head(channel)) \o Tail(channel) = applied \o channel
      /\ \A i \in DOMAIN Tail(channel) : i + 1 \in DOMAIN channel /\ Tail(channel)[i] = channel[i + 1]
  BY <1>1, TakeAlong
<1>3. /\ loop_state' = Apply(loop_state, Head(channel).kind)
      /\ applied' = Append(applied, Head(channel)) /\ channel' = Tail(channel)
      /\ UNCHANGED <<wiring, next_id, now, submitted, stamped, todo, handle_state, handle_log,
                     current, notices>>
  BY DEF ControlLoop, sweep_vars, handle_vars
<1>4. loop_state' \in EngineStateType
  <2>1. Head(channel).kind \in EventKind
    BY <1>2 DEF Event
  <2> QED BY <1>1, <1>3, <2>1, ApplyType
<1>5. Types'
  BY <1>2, <1>3, <1>4 DEF Inv, Types
<1>6. Ids'
  <2>1. current' = None
    BY <1>1, <1>3 DEF Inv, Told
  <2>2. \A i \in DOMAIN channel' : channel'[i].id < next_id'
    BY <1>2, <1>3 DEF Inv, Ids
  <2> QED BY <1>3, <2>1, <2>2 DEF Inv, Ids
<1>7. Path' = Path
  BY <1>2, <1>3 DEF Path
<1>8. Paths'
  BY <1>3, <1>7 DEF Inv, Paths
<1>9. Told'
  BY <1>3 DEF Inv, Told
<1> QED BY <1>5, <1>6, <1>8, <1>9 DEF Inv

LEMMA SubmitApplyKeeps == ASSUME Inv, SubmitApply PROVE Inv'
<1>1. /\ channel \in Seq(Event) /\ applied \in Seq(Event) /\ channel # <<>>
      /\ wiring = "submit_event_kind" /\ current = None /\ handle_state \in EngineStateType
      /\ next_id \in Nat \ {0} /\ now \in Nat
  BY DEF SubmitApply, Inv, Types
<1>2. /\ Head(channel) \in Event /\ Tail(channel) \in Seq(Event)
      /\ \A i \in DOMAIN Tail(channel) : i + 1 \in DOMAIN channel /\ Tail(channel)[i] = channel[i + 1]
  BY <1>1, TakeAlong
<1>3. PICK ev : ev = [Head(channel) EXCEPT !.id = next_id, !.kind = At(@, now)]
  OBVIOUS
<1>4. ev \in Event /\ ev.id = next_id
  <2>1. PICK h \in Event : h = Head(channel)
    BY <1>2
  <2>2. h.kind \in EventKind /\ h.by \in Actors
    BY DEF Event
  <2>3. At(h.kind, now) \in EventKind
    BY <1>1, <2>2, AtType
  <2>4. ev = [id |-> next_id, by |-> h.by, kind |-> At(h.kind, now)]
    BY <1>3, <2>1 DEF Event
  <2> QED BY <1>1, <2>2, <2>3, <2>4 DEF Event
<1>5. /\ handle_state' = Apply(handle_state, ev.kind) /\ current' = ev
      /\ applied' = Append(applied, ev) /\ next_id' = next_id + 1 /\ channel' = Tail(channel)
      /\ UNCHANGED <<wiring, now, submitted, stamped, todo, loop_state, handle_log, notices>>
  BY <1>3 DEF SubmitApply, sweep_vars
<1>6. handle_state' \in EngineStateType
  <2>1. ev.kind \in EventKind
    BY <1>4 DEF Event
  <2> QED BY <1>1, <1>5, <2>1, ApplyType
<1>7. /\ applied' \in Seq(Event) /\ Len(applied') = Len(applied) + 1
      /\ applied'[Len(applied) + 1] = ev
  BY <1>1, <1>4, <1>5, Appended
<1>8. Types'
  BY <1>1, <1>2, <1>4, <1>5, <1>6, <1>7 DEF Inv, Types
<1>9. \A i \in DOMAIN handle_log : handle_log[i] < next_id /\ handle_log[i] \in Nat
  <2>1. handle_log \in Seq(Nat)
    BY DEF Inv, Types
  <2> QED BY <2>1, Members DEF Inv, Ids
<1>10. Ids'
  <2>1. \A i \in DOMAIN channel' : channel'[i].id < next_id'
    <3>1. \A i \in DOMAIN channel : channel[i] \in Event
      BY <1>1, Members
    <3>2. \A i \in DOMAIN channel : channel[i].id < next_id /\ channel[i].id \in Nat
      BY <3>1 DEF Inv, Ids, Event
    <3> QED BY <1>1, <1>2, <1>5, <3>2
  <2>2. \A i \in DOMAIN handle_log' : handle_log'[i] < next_id'
    BY <1>1, <1>5, <1>9
  <2>3. \A b \in Actors : stamped'[b] # None => stamped'[b].id < next_id' /\ stamped'[b].by = b
    <3>1. stamped \in [Actors -> Event \cup {None}]
      BY DEF Inv, Types
    <3>2. \A b \in Actors : stamped[b] # None => stamped[b].id < next_id /\ stamped[b].by = b
                                                 /\ stamped[b].id \in Nat
      BY <3>1 DEF Inv, Ids, Event
    <3> QED BY <1>1, <1>5, <3>2
  <2>4. \A b, c \in Actors :
          b # c /\ stamped'[b] # None /\ stamped'[c] # None => stamped'[b].id # stamped'[c].id
    BY <1>5 DEF Inv, Ids
  <2>5. current'.id < next_id' /\ current'.id = Last(applied').id
    BY <1>1, <1>4, <1>5, <1>7 DEF Last
  <2> QED BY <2>1, <2>2, <2>3, <2>4, <2>5 DEF Ids
<1>11. Paths'
  BY <1>1, <1>5 DEF Paths
<1>12. Told'
  <2>1. notices' = handle_log'
    BY <1>1, <1>5 DEF Inv, Told
  <2>2. next_id \notin ToSet(handle_log)
    BY <1>1, <1>9 DEF ToSet
  <2> QED BY <1>1, <1>4, <1>5, <2>1, <2>2 DEF Told
<1> QED BY <1>8, <1>10, <1>11, <1>12 DEF Inv

LEMMA SubmitLogKeeps == ASSUME Inv, SubmitLog PROVE Inv'
<1>1. /\ current # None /\ current.id \notin ToSet(handle_log)
      /\ handle_log' = Append(handle_log, current.id)
      /\ UNCHANGED <<wiring, next_id, now, submitted, stamped, todo, channel, applied, loop_state,
                     handle_state, current, notices>>
  BY DEF SubmitLog, sweep_vars, loop_vars
<1>2. current.id \in Nat /\ current.id < next_id /\ handle_log \in Seq(Nat)
  BY <1>1 DEF Inv, Types, Ids, Event
<1>3. /\ handle_log' \in Seq(Nat) /\ DOMAIN handle_log' = 1..Len(handle_log) + 1
      /\ DOMAIN handle_log = 1..Len(handle_log) /\ Len(handle_log) \in Nat
      /\ \A i \in 1..Len(handle_log) : handle_log'[i] = handle_log[i]
      /\ handle_log'[Len(handle_log) + 1] = current.id
  BY <1>1, <1>2, Appended
<1>4. Types'
  BY <1>1, <1>3 DEF Inv, Types
<1>5. Ids'
  <2>1. \A i \in DOMAIN handle_log' : handle_log'[i] < next_id'
    BY <1>1, <1>2, <1>3 DEF Inv, Ids
  <2> QED BY <1>1, <2>1 DEF Inv, Ids
<1>6. Paths'
  BY <1>1 DEF Inv, Paths, Path
<1>7. Told'
  <2>1. notices = handle_log
    <3>1. CASE handle_log = Append(notices, current.id)
      <4>1. notices \in Seq(Nat)
        BY DEF Inv, Types
      <4>2. /\ Len(notices) + 1 \in DOMAIN handle_log
            /\ handle_log[Len(notices) + 1] = current.id
        BY <1>2, <3>1, <4>1, Appended
      <4> QED BY <1>1, <4>2 DEF ToSet
    <3> QED BY <1>1, <3>1 DEF Inv, Told
  <2> QED BY <1>1, <2>1 DEF Inv, Told
<1> QED BY <1>4, <1>5, <1>6, <1>7 DEF Inv

LEMMA SubmitNotifyKeeps == ASSUME Inv, SubmitNotify PROVE Inv'
<1>1. /\ current # None /\ current.id \in ToSet(handle_log)
      /\ notices' = Append(notices, current.id) /\ current' = None
      /\ UNCHANGED <<wiring, next_id, now, submitted, stamped, todo, channel, applied, loop_state,
                     handle_state, handle_log>>
  BY DEF SubmitNotify, sweep_vars, loop_vars
<1>2. current.id \in Nat /\ notices \in Seq(Nat)
  BY <1>1 DEF Inv, Types, Event
<1>3. notices' \in Seq(Nat)
  BY <1>1, <1>2, Appended
<1>4. Types'
  BY <1>1, <1>3 DEF Inv, Types
<1>5. Ids'
  BY <1>1 DEF Inv, Ids
<1>6. Paths'
  BY <1>1 DEF Inv, Paths, Path
<1>7. Told'
  BY <1>1 DEF Inv, Told
<1> QED BY <1>4, <1>5, <1>6, <1>7 DEF Inv
-----------------------------------------------------------------------------
LEMMA Start == Init => Inv
<1> SUFFICES ASSUME Init PROVE Inv
  OBVIOUS
<1>1. \A S : <<>> \in Seq(S)
  BY EmptySeq
<1>2. DOMAIN <<>> = {} /\ <<>> \o <<>> = <<>>
  BY EmptySeq, ConcatEmptySeq
<1>3. Types
  BY <1>1, DefaultStateType, EngineBridgeAssumption DEF Init, Types
<1>4. Ids
  BY <1>2 DEF Init, Ids
<1>5. Paths
  <2>1. Path = <<>>
    BY <1>2 DEF Init, Path
  <2> QED BY <1>2, <2>1 DEF Init, Paths, Ordered
<1>6. Told
  BY DEF Init, Told
<1> QED BY <1>3, <1>4, <1>5, <1>6 DEF Inv

LEMMA EveryStep == Inv /\ [Next]_vars => Inv'
<1> SUFFICES ASSUME Inv, [Next]_vars PROVE Inv'
  OBVIOUS
<1>1. ASSUME NEW c \in Clients, NEW k \in Kinds, Submit(c, k) PROVE Inv'
  BY <1>1, SubmitKeeps
<1>2. ASSUME NEW a \in Actors, Forward(a) PROVE Inv'
  BY <1>2, ForwardKeeps
<1>3. CASE SweepSnapshot \/ SweepEmit
  BY <1>3, SweepSnapshotKeeps, SweepEmitKeeps
<1>4. CASE ControlLoop
  BY <1>4, ControlLoopKeeps
<1>5. CASE SubmitApply \/ SubmitLog \/ SubmitNotify
  BY <1>5, SubmitApplyKeeps, SubmitLogKeeps, SubmitNotifyKeeps
<1>6. CASE SweepClock \/ Tick \/ UNCHANGED vars
  BY <1>6, IdleKeeps
<1> QED BY <1>1, <1>2, <1>3, <1>4, <1>5, <1>6 DEF Next

LEMMA PrefixOfAppend ==
  ASSUME NEW S, NEW s \in Seq(S), NEW e \in S
  PROVE  IsPrefix(s, s) /\ IsPrefix(s, Append(s, e))
<1>1. PICK t : t = Append(s, e)
  OBVIOUS
<1>2. /\ t \in Seq(S) /\ Len(t) = Len(s) + 1 /\ Len(s) \in Nat
      /\ \A i \in 1..Len(s) : t[i] = s[i]
  BY <1>1, Appended
<1>3. SubSeq(t, 1, Len(s)) = SubSeq(s, 1, Len(s))
  <2>1. SubSeq(s, 1, Len(s)) \in Seq(S) /\ Len(SubSeq(s, 1, Len(s))) = Len(s)
        /\ \A i \in 1..Len(s) : SubSeq(s, 1, Len(s))[i] = s[i]
    BY <1>2, SubSeqProperties, SubSeqFull
  <2>2. SubSeq(t, 1, Len(s)) \in Seq(S) /\ Len(SubSeq(t, 1, Len(s))) = Len(s)
        /\ \A i \in 1..Len(s) : SubSeq(t, 1, Len(s))[i] = t[1 + i - 1]
    BY <1>2, SubSeqProperties, ElementOfSeq
  <2> QED BY <1>2, <2>1, <2>2, SeqEqual
<1> QED BY <1>1, <1>2, <1>3 DEF IsPrefix

LEMMA Enough == Inv => SourceOrderKept
<1> SUFFICES ASSUME Inv PROVE SourceOrderKept
  OBVIOUS
<1>1. TypeOK
  <2>1. \A i \in DOMAIN channel : channel[i].kind \in EventKind
    <3>1. \A i \in DOMAIN channel : channel[i] \in Event
      BY Members DEF Inv, Types
    <3> QED BY <3>1 DEF Event
  <2> QED BY <2>1 DEF Inv, Types, Ids, TypeOK
<1>2. wiring = "control_loop" => Ordered(Path)
  BY DEF Inv, Paths
<1>3. IsPrefix(notices, handle_log)
  <2>1. notices \in Seq(Nat) /\ (current # None => current.id \in Nat)
    BY DEF Inv, Types, Event
  <2>2. CASE notices = handle_log
    <3>1. 0 \in Nat
      OBVIOUS
    <3> QED BY <2>1, <2>2, <3>1, PrefixOfAppend
  <2>3. CASE current # None /\ handle_log = Append(notices, current.id)
    BY <2>1, <2>3, PrefixOfAppend
  <2> QED BY <2>2, <2>3 DEF Inv, Told
<1> QED BY <1>1, <1>2, <1>3 DEF SourceOrderKept, Ordered, Path

(* Stamp and send are two steps, and clients and sweeper race in both: yet *)
(* no id reaches the control loop twice, each source's events keep their   *)
(* order, and no notice is sent of an event the log does not have yet      *)
(* (rpc.rs, stamp_event, forward_event and submit_event_kind).             *)
THEOREM SourceOrderCorrect == Spec => []SourceOrderKept
<1>1. Init => Inv
  BY Start
<1>2. Inv /\ [Next]_vars => Inv'
  BY EveryStep
<1>3. Inv => SourceOrderKept
  BY Enough
<1> QED BY <1>1, <1>2, <1>3, PTL DEF Spec
=============================================================================
