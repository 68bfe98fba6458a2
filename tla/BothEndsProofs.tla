---------------------------- MODULE BothEndsProofs ----------------------------
(***************************************************************************)
(* For any number of clients, requests, sockets, plans and notices, any    *)
(* capacities and any finite set of decks: the order in which a client of  *)
(* the server receives its answers and its notices, the one socket of the  *)
(* user interface, and the plans of the co-pilot.                          *)
(*                                                                         *)
(* Of the server, what a client has received says too little to be         *)
(* inductive; the invariant speaks of Pipe, the received messages followed *)
(* by the queued ones, and of what the reader and the notice task hold.    *)
(* Of the user interface, it says which sockets may be open while no       *)
(* second one was made by a slip, and which timers may still fire.  Of the *)
(* co-pilot, it puts the events the engine has taken behind the next event *)
(* of their plan, lets one event of a plan be on its way and one call      *)
(* wait, and gives a deck one mix and one task.                            *)
(***************************************************************************)
EXTENDS BothEnds, SequenceTheorems, FiniteSetTheorems, TLAPS

(* The order of answers and notices (WsServer).                            *)

Message == [type : {"answer", "notice", "close"}, n : Nat]

\* The numbers of the answers among s.
Answered(s) == {s[j].n : j \in {j \in DOMAIN s : s[j].type = "answer"}}

\* Follows and NoticesFollow, once p notices were published.
FollowsAt(p, m, n) == m = n + 1 \/ (m > n /\ m + NoticeCapacity <= p + 1)

NoticesFollowAt(p, s) ==
  \A i, j \in DOMAIN s :
    /\ i < j /\ s[i].type = "notice" /\ s[j].type = "notice"
    /\ \A k \in i + 1..j - 1 : s[k].type # "notice"
    => FollowsAt(p, s[j].n, s[i].n)

\* Notice m may come next after s.
MayFollow(p, s, m) ==
  \A i \in DOMAIN s :
    s[i].type = "notice" /\ (\A k \in i + 1..Len(s) : s[k].type # "notice")
    => FollowsAt(p, m, s[i].n)
Pipe(c) == wire[c] \o queue[c]

Types ==
  /\ server \in {"accepting", "draining", "stopped"} /\ published \in 0..MaxNotices
  /\ peer \in [Clients -> {"away", "open", "closed"}] /\ sent \in [Clients -> Nat]
  /\ inbox \in [Clients -> Seq(Nat)]
  /\ reader \in [Clients -> {"none", "read", "answer", "timeout", "ended", "joined"}]
  /\ answer \in [Clients -> Nat] /\ auth \in [Clients -> {"pending", "authed"}]
  /\ forwarder \in [Clients -> {"off", "recv", "send"}] /\ cursor \in [Clients -> Nat]
  /\ writer \in [Clients -> {"off", "run"}]
  /\ queue \in [Clients -> Seq(Message)] /\ wire \in [Clients -> Seq(Message)]

Alive == {c \in Clients : reader[c] \notin {"none", "joined"}}
Counted == connected = Cardinality(Alive)

Bounded(c) ==
  sent[c] <= MaxRequests /\ cursor[c] <= published + 1 /\ Len(queue[c]) <= QueueCapacity

Untouched(c) ==
  peer[c] = "away" =>
    /\ sent[c] = 0 /\ inbox[c] = <<>> /\ reader[c] = "none"
    /\ forwarder[c] = "off" /\ writer[c] = "off" /\ Pipe(c) = <<>>

\* What the reader has yet to read are the last requests sent.
Requests(c) ==
  /\ Len(inbox[c]) <= sent[c]
  /\ \A i \in 1..Len(inbox[c]) : inbox[c][i] = (sent[c] - Len(inbox[c])) + i
  /\ reader[c] = "answer" => answer[c] > 0 /\ answer[c] = sent[c] - Len(inbox[c])

Answers(c) ==
  /\ AnswersCountUp(Pipe(c))
  /\ writer[c] = "run" /\ reader[c] = "read" =>
       Answered(Pipe(c)) = 1..(sent[c] - Len(inbox[c]))
  /\ writer[c] = "run" /\ reader[c] = "answer" => Answered(Pipe(c)) = 1..answer[c] - 1

Notices(c) ==
  /\ NoticesFollowAt(published, Pipe(c))
  /\ writer[c] = "run" /\ forwarder[c] = "recv" => MayFollow(published, Pipe(c), cursor[c])
  /\ forwarder[c] = "send" =>
       cursor[c] > 0 /\ (writer[c] = "run" => MayFollow(published, Pipe(c), cursor[c] - 1))

ClientInv(c) == Bounded(c) /\ Untouched(c) /\ Requests(c) /\ Answers(c) /\ Notices(c)

Inv == Types /\ Counted /\ \A c \in Clients : ClientInv(c)

\* A step leaves d's end of things alone.
SameAt(d) ==
  /\ peer'[d] = peer[d] /\ sent'[d] = sent[d] /\ inbox'[d] = inbox[d]
  /\ reader'[d] = reader[d] /\ answer'[d] = answer[d]
  /\ forwarder'[d] = forwarder[d] /\ cursor'[d] = cursor[d] /\ writer'[d] = writer[d]
  /\ queue'[d] = queue[d] /\ wire'[d] = wire[d]
-----------------------------------------------------------------------------
(* Messages put at the end of a sequence, and its prefixes. *)

LEMMA AppendAnswers ==
  ASSUME NEW s \in Seq(Message), NEW m \in Message, AnswersCountUp(s),
         m.type = "answer" => Answered(s) = 1..m.n - 1
  PROVE  /\ AnswersCountUp(Append(s, m))
         /\ Answered(Append(s, m)) = IF m.type = "answer" THEN Answered(s) \cup {m.n}
                                     ELSE Answered(s)
<1> DEFINE t == Append(s, m)
<1>1. /\ t \in Seq(Message) /\ Len(t) = Len(s) + 1 /\ Len(s) \in Nat
      /\ DOMAIN s = 1..Len(s) /\ DOMAIN t = 1..Len(s) + 1
      /\ \A i \in 1..Len(s) : t[i] = s[i]
      /\ t[Len(s) + 1] = m
  BY AppendProperties, LenProperties
<1> HIDE DEF t
<1>2. ASSUME NEW i \in DOMAIN t, t[i].type = "answer"
      PROVE  {t[j].n : j \in {j \in 1..i - 1 : t[j].type = "answer"}} = 1..t[i].n - 1
  <2>1. {t[j].n : j \in {j \in 1..i - 1 : t[j].type = "answer"}}
          = {s[j].n : j \in {j \in 1..i - 1 : s[j].type = "answer"}}
    <3>1. \A j \in 1..i - 1 : t[j] = s[j]
      BY <1>1
    <3> QED BY <3>1
  <2>2. CASE i \in DOMAIN s
    BY <1>1, <1>2, <2>1, <2>2 DEF AnswersCountUp
  <2>3. CASE i = Len(s) + 1
    <3>1. {s[j].n : j \in {j \in 1..i - 1 : s[j].type = "answer"}} = Answered(s)
      <4>1. 1..i - 1 = DOMAIN s
        BY <1>1, <2>3
      <4> QED BY <4>1 DEF Answered
    <3> QED BY <1>1, <1>2, <2>1, <2>3, <3>1
  <2> QED BY <1>1, <2>2, <2>3
<1>3. Answered(t) = IF m.type = "answer" THEN Answered(s) \cup {m.n} ELSE Answered(s)
  <2>1. ASSUME NEW x PROVE x \in Answered(t) <=>
          \E j \in 1..Len(s) + 1 : t[j].type = "answer" /\ x = t[j].n
    BY <1>1 DEF Answered
  <2>2. ASSUME NEW x PROVE x \in Answered(s) <=>
          \E j \in 1..Len(s) : s[j].type = "answer" /\ x = s[j].n
    BY <1>1 DEF Answered
  <2>3. ASSUME NEW x
        PROVE  x \in Answered(t) <=> x \in Answered(s) \/ (m.type = "answer" /\ x = m.n)
    BY <1>1, <2>1, <2>2
  <2> QED BY <2>3
<1> QED BY <1>2, <1>3 DEF AnswersCountUp, t

LEMMA AppendNotices ==
  ASSUME NEW p \in Nat, NEW s \in Seq(Message), NEW m \in Message, NoticesFollowAt(p, s),
         m.type = "notice" => MayFollow(p, s, m.n)
  PROVE  /\ NoticesFollowAt(p, Append(s, m))
         /\ m.type = "notice" => MayFollow(p, Append(s, m), m.n + 1)
         /\ m.type # "notice" => \A n \in Nat : MayFollow(p, s, n) => MayFollow(p, Append(s, m), n)
<1> DEFINE t == Append(s, m)
<1>1. /\ t \in Seq(Message) /\ Len(t) = Len(s) + 1 /\ Len(s) \in Nat
      /\ DOMAIN s = 1..Len(s) /\ DOMAIN t = 1..Len(s) + 1
      /\ \A i \in 1..Len(s) : t[i] = s[i]
      /\ t[Len(s) + 1] = m
  BY AppendProperties, LenProperties
<1> HIDE DEF t
<1>2. NoticesFollowAt(p, t)
  <2> SUFFICES ASSUME NEW i \in DOMAIN t, NEW j \in DOMAIN t,
                      i < j, t[i].type = "notice", t[j].type = "notice",
                      \A k \in i + 1..j - 1 : t[k].type # "notice"
               PROVE  FollowsAt(p, t[j].n, t[i].n)
    BY DEF NoticesFollowAt
  <2>1. /\ i \in DOMAIN s /\ t[i] = s[i]
        /\ \A k \in i + 1..j - 1 : s[k].type # "notice"
    BY <1>1
  <2>2. CASE j \in DOMAIN s
    BY <1>1, <2>1, <2>2 DEF NoticesFollowAt
  <2>3. CASE j = Len(s) + 1
    BY <1>1, <2>1, <2>3 DEF MayFollow
  <2> QED BY <1>1, <2>2, <2>3
<1>3. ASSUME m.type = "notice" PROVE MayFollow(p, t, m.n + 1)
  <2> SUFFICES ASSUME NEW i \in DOMAIN t, t[i].type = "notice",
                      \A k \in i + 1..Len(t) : t[k].type # "notice"
               PROVE  FollowsAt(p, m.n + 1, t[i].n)
    BY DEF MayFollow
  <2>1. i = Len(s) + 1
    BY <1>1, <1>3
  <2> QED BY <1>1, <2>1 DEF FollowsAt
<1>4. ASSUME m.type # "notice", NEW n \in Nat, MayFollow(p, s, n) PROVE MayFollow(p, t, n)
  <2> SUFFICES ASSUME NEW i \in DOMAIN t, t[i].type = "notice",
                      \A k \in i + 1..Len(t) : t[k].type # "notice"
               PROVE  FollowsAt(p, n, t[i].n)
    BY DEF MayFollow
  <2>1. i \in DOMAIN s /\ s[i] = t[i] /\ \A k \in i + 1..Len(s) : s[k].type # "notice"
    BY <1>1, <1>4
  <2> QED BY <1>4, <2>1 DEF MayFollow
<1> QED BY <1>2, <1>3, <1>4 DEF t

LEMMA Prefix ==
  ASSUME NEW p \in Nat, NEW s \in Seq(Message), NEW t \in Seq(Message)
  PROVE  /\ AnswersCountUp(s \o t) => AnswersCountUp(s)
         /\ NoticesFollowAt(p, s \o t) => NoticesFollowAt(p, s)
<1> DEFINE u == s \o t
<1>1. /\ u \in Seq(Message) /\ Len(u) = Len(s) + Len(t) /\ Len(s) \in Nat /\ Len(t) \in Nat
      /\ DOMAIN s = 1..Len(s) /\ DOMAIN u = 1..Len(s) + Len(t)
      /\ \A i \in 1..Len(s) : u[i] = s[i]
  BY ConcatProperties, LenProperties
<1> HIDE DEF u
<1>2. ASSUME AnswersCountUp(u) PROVE AnswersCountUp(s)
  <2> SUFFICES ASSUME NEW i \in DOMAIN s, s[i].type = "answer"
               PROVE  {s[j].n : j \in {j \in 1..i - 1 : s[j].type = "answer"}} = 1..s[i].n - 1
    BY DEF AnswersCountUp
  <2>1. \A j \in 1..i - 1 : u[j] = s[j]
    BY <1>1
  <2>2. {s[j].n : j \in {j \in 1..i - 1 : s[j].type = "answer"}}
          = {u[j].n : j \in {j \in 1..i - 1 : u[j].type = "answer"}}
    BY <2>1
  <2>3. i \in DOMAIN u /\ u[i] = s[i]
    BY <1>1
  <2>4. {u[j].n : j \in {j \in 1..i - 1 : u[j].type = "answer"}} = 1..u[i].n - 1
    BY <1>2, <2>3 DEF AnswersCountUp
  <2> QED BY <2>2, <2>3, <2>4
<1>3. ASSUME NoticesFollowAt(p, u) PROVE NoticesFollowAt(p, s)
  <2> SUFFICES ASSUME NEW i \in DOMAIN s, NEW j \in DOMAIN s,
                      i < j, s[i].type = "notice", s[j].type = "notice",
                      \A k \in i + 1..j - 1 : s[k].type # "notice"
               PROVE  FollowsAt(p, s[j].n, s[i].n)
    BY DEF NoticesFollowAt
  <2>1. i \in DOMAIN u /\ j \in DOMAIN u /\ \A k \in i..j : u[k] = s[k]
    BY <1>1
  <2>2. u[i] = s[i] /\ u[j] = s[j] /\ \A k \in i + 1..j - 1 : u[k] = s[k]
    BY <1>1, <2>1
  <2>3. \A k \in i + 1..j - 1 : u[k].type # "notice"
    BY <2>2
  <2>4. FollowsAt(p, u[j].n, u[i].n)
    BY <1>3, <2>1, <2>2, <2>3, Zenon DEF NoticesFollowAt
  <2> QED BY <2>2, <2>4
<1> QED BY <1>2, <1>3 DEF u

LEMMA MorePublished ==
  ASSUME NEW p \in Nat, NEW q \in Nat, p <= q, NEW s \in Seq(Message)
  PROVE  /\ NoticesFollowAt(p, s) => NoticesFollowAt(q, s)
         /\ \A m \in Nat : MayFollow(p, s, m) => MayFollow(q, s, m)
<1> USE WsServerAssumption
<1>1. \A m, n \in Nat : FollowsAt(p, m, n) => FollowsAt(q, m, n)
  BY DEF FollowsAt
<1>2. \A i \in DOMAIN s : s[i].n \in Nat
  <2>1. \A i \in DOMAIN s : s[i] \in Message
    BY LenProperties
  <2> QED BY <2>1 DEF Message
<1> QED BY <1>1, <1>2 DEF NoticesFollowAt, MayFollow

LEMMA MoveAlong ==
  ASSUME NEW S, NEW w \in Seq(S), NEW q \in Seq(S)
  PROVE  /\ q # <<>> => Append(w, Head(q)) \o Tail(q) = w \o q
         /\ \A m \in S : w \o Append(q, m) = Append(w \o q, m)
         /\ w \o <<>> = w
<1>1. ASSUME q # <<>> PROVE Append(w, Head(q)) \o Tail(q) = w \o q
  <2> DEFINE h == <<Head(q)>>
  <2>1. /\ Head(q) \in S /\ Tail(q) \in Seq(S) /\ Len(Tail(q)) = Len(q) - 1
        /\ \A i \in 1..Len(q) - 1 : Tail(q)[i] = q[i + 1]
        /\ Head(q) = q[1] /\ Len(q) \in Nat \ {0}
    BY <1>1, HeadTailProperties, EmptySeq
  <2>2. h \in Seq(S) /\ Len(h) = 1 /\ h[1] = q[1] /\ Append(w, Head(q)) = w \o h
    BY <2>1, AppendIsConcat
  <2> HIDE DEF h
  <2>3. /\ h \o Tail(q) \in Seq(S) /\ Len(h \o Tail(q)) = Len(q)
        /\ \A i \in 1..Len(q) : (h \o Tail(q))[i] = IF i <= 1 THEN h[i] ELSE Tail(q)[i - 1]
    BY <2>1, <2>2, ConcatProperties
  <2>4. \A i \in 1..Len(q) : (h \o Tail(q))[i] = q[i]
    BY <2>1, <2>2, <2>3
  <2>5. h \o Tail(q) = q
    BY <2>3, <2>4, SeqEqual
  <2> QED BY <2>1, <2>2, <2>5, ConcatAssociative
<1>2. ASSUME NEW m \in S PROVE w \o Append(q, m) = Append(w \o q, m)
  <2>1. /\ <<m>> \in Seq(S) /\ w \o q \in Seq(S)
        /\ Append(q, m) = q \o <<m>> /\ Append(w \o q, m) = (w \o q) \o <<m>>
    BY AppendIsConcat, ConcatProperties
  <2> QED BY <2>1, ConcatAssociative
<1> QED BY <1>1, <1>2, ConcatEmptySeq

LEMMA PipeType == ASSUME Types, NEW c \in Clients PROVE Pipe(c) \in Seq(Message)
<1>1. wire[c] \in Seq(Message) /\ queue[c] \in Seq(Message)
  BY DEF Types
<1> QED BY <1>1, ConcatProperties DEF Pipe
-----------------------------------------------------------------------------
(* One client's step is of no concern to another. *)

LEMMA OthersKeep ==
  ASSUME Types, NEW d \in Clients, ClientInv(d), SameAt(d),
         published' \in Nat, published <= published'
  PROVE  ClientInv(d)'
<1>1. Pipe(d)' = Pipe(d) /\ Pipe(d) \in Seq(Message)
  BY PipeType DEF Pipe, SameAt
<1>2. published \in Nat /\ cursor[d] \in Nat
  BY WsServerAssumption DEF Types
<1>3. NoticesFollowAt(published', Pipe(d))
  BY <1>1, <1>2, MorePublished DEF ClientInv, Notices
<1>4. \A m \in Nat : MayFollow(published, Pipe(d), m) => MayFollow(published', Pipe(d), m)
  BY <1>1, <1>2, MorePublished
<1>5. Bounded(d)' /\ Untouched(d)' /\ Requests(d)' /\ Answers(d)'
  <2>1. Bounded(d)'
    BY <1>2 DEF ClientInv, Bounded, SameAt
  <2>2. Untouched(d)'
    BY <1>1 DEF ClientInv, Untouched, SameAt
  <2>3. Requests(d)'
    BY DEF ClientInv, Requests, SameAt
  <2>4. Answers(d)'
    <3>1. /\ writer[d]' = writer[d] /\ reader[d]' = reader[d] /\ sent[d]' = sent[d]
          /\ inbox[d]' = inbox[d] /\ answer[d]' = answer[d]
      BY DEF SameAt
    <3> QED BY <1>1, <3>1 DEF ClientInv, Answers
  <2> QED BY <2>1, <2>2, <2>3, <2>4
<1>6. Notices(d)'
  <2>1. cursor[d] > 0 => cursor[d] - 1 \in Nat
    BY <1>2
  <2> QED BY <1>1, <1>2, <1>3, <1>4, <2>1 DEF ClientInv, Notices, SameAt
<1> QED BY <1>5, <1>6 DEF ClientInv

LEMMA StepKeeps ==
  ASSUME Inv, NEW c \in Clients, Types', Counted', published <= published',
         \A d \in Clients : d # c => SameAt(d), ClientInv(c)'
  PROVE  Inv'
<1>1. \A d \in Clients : d # c => ClientInv(d)'
  <2>1. published' \in Nat
    BY WsServerAssumption DEF Types
  <2> QED BY <2>1, OthersKeep DEF Inv
<1> QED BY <1>1 DEF Inv

LEMMA Counting ==
  ASSUME Counted, connected' = connected, Alive' = Alive
  PROVE  Counted'
BY DEF Counted
-----------------------------------------------------------------------------
(* The steps, one by one. *)

LEMMA EngineKeeps ==
  ASSUME Inv, Publish \/ Cancel \/ Drained \/ UNCHANGED vars
  PROVE  Inv'
<1> USE WsServerAssumption DEF client_vars, reader_vars, forwarder_vars, server_vars, vars
<1>1. Types'
  BY DEF Inv, Types, Publish, Cancel, Drained
<1>2. Counted'
  BY DEF Inv, Counted, Alive, Publish, Cancel, Drained
<1>3. \A d \in Clients : SameAt(d)
  BY DEF SameAt, Publish, Cancel, Drained
<1>4. published' \in Nat /\ published <= published'
  BY DEF Inv, Types, Publish, Cancel, Drained
<1> QED BY <1>1, <1>2, <1>3, <1>4, OthersKeep DEF Inv

LEMMA LeaveKeeps ==
  ASSUME Inv, NEW c \in Clients, Leave(c) PROVE Inv'
<1> USE DEF server_vars, reader_vars, forwarder_vars
<1>1. Types' /\ published <= published'
  BY WsServerAssumption DEF Inv, Types, Leave
<1>2. \A d \in Clients : d # c => SameAt(d)
  BY DEF Inv, Types, SameAt, Leave
<1>3. Counted'
  BY DEF Inv, Counted, Alive, Leave
<1>4. ClientInv(c)'
  BY DEF Inv, Types, ClientInv, Bounded, Untouched, Requests, Answers, Notices, Pipe, Leave
<1> QED BY <1>1, <1>2, <1>3, <1>4, StepKeeps

LEMMA RequestKeeps ==
  ASSUME Inv, NEW c \in Clients, Request(c) PROVE Inv'
<1> USE DEF server_vars, reader_vars, forwarder_vars
<1>1. /\ sent[c] \in Nat /\ sent'[c] = sent[c] + 1 /\ inbox[c] \in Seq(Nat)
      /\ inbox' = [inbox EXCEPT ![c] = Append(inbox[c], sent[c] + 1)]
      /\ Append(inbox[c], sent[c] + 1) \in Seq(Nat)
      /\ Len(inbox[c]) \in Nat /\ Len(Append(inbox[c], sent[c] + 1)) = Len(inbox[c]) + 1
      /\ \A i \in 1..Len(inbox[c]) : Append(inbox[c], sent[c] + 1)[i] = inbox[c][i]
      /\ Append(inbox[c], sent[c] + 1)[Len(inbox[c]) + 1] = sent[c] + 1
  BY AppendProperties, LenProperties DEF Inv, Types, Request
<1>2. Types' /\ published <= published'
  BY <1>1, WsServerAssumption DEF Inv, Types, Request
<1>3. \A d \in Clients : d # c => SameAt(d)
  BY DEF Inv, Types, SameAt, Request
<1>4. Counted'
  BY DEF Inv, Counted, Alive, Request
<1>5. /\ inbox'[c] = Append(inbox[c], sent[c] + 1) /\ Len(inbox'[c]) = Len(inbox[c]) + 1
      /\ sent'[c] - Len(inbox'[c]) = sent[c] - Len(inbox[c])
  BY <1>1 DEF Inv, Types
<1>6. Bounded(c)' /\ Untouched(c)'
  BY <1>1, WsServerAssumption DEF Inv, ClientInv, Bounded, Untouched, Request
<1>7. Requests(c)'
  BY <1>1, <1>5 DEF Inv, ClientInv, Requests, Request
<1>8. Answers(c)' /\ Notices(c)'
  BY <1>5 DEF Inv, ClientInv, Answers, Notices, Pipe, Request
<1> QED BY <1>2, <1>3, <1>4, <1>6, <1>7, <1>8, StepKeeps DEF ClientInv

LEMMA AcceptKeeps ==
  ASSUME Inv, NEW c \in Clients, Accept(c) PROVE Inv'
<1> USE DEF server_vars, reader_vars, forwarder_vars
<1>1. Types' /\ published <= published'
  BY WsServerAssumption DEF Inv, Types, Accept
<1>2. \A d \in Clients : d # c => SameAt(d)
  BY DEF Inv, Types, SameAt, Accept
<1>3. /\ sent[c] = 0 /\ inbox[c] = <<>> /\ reader[c] = "none" /\ Pipe(c) = <<>>
      /\ forwarder[c] = "off" /\ writer[c] = "off"
  BY DEF Inv, ClientInv, Untouched, Accept
<1>4. Counted'
  <2>1. Alive' = Alive \cup {c} /\ c \notin Alive
    BY <1>3 DEF Inv, Types, Alive, Accept
  <2>2. IsFiniteSet(Alive)
    BY WsServerAssumption, FS_Subset DEF Alive
  <2> QED BY <2>1, <2>2, FS_AddElement DEF Inv, Counted, Accept
<1>5. Pipe(c)' = <<>> /\ Len(inbox[c]) = 0
  BY <1>3 DEF Pipe, Accept
<1>6. /\ AnswersCountUp(<<>>) /\ Answered(<<>>) = 1..0
      /\ NoticesFollowAt(published, <<>>) /\ \A m \in Nat : MayFollow(published, <<>>, m)
  BY DEF AnswersCountUp, Answered, NoticesFollowAt, MayFollow
<1>7. Bounded(c)' /\ Untouched(c)' /\ Requests(c)'
  BY <1>3, <1>5, WsServerAssumption
  DEF Inv, Types, ClientInv, Bounded, Untouched, Requests, Accept
<1>8. Answers(c)' /\ Notices(c)'
  BY <1>3, <1>5, <1>6, WsServerAssumption DEF Inv, Types, Answers, Notices, Accept
<1> QED BY <1>1, <1>2, <1>4, <1>7, <1>8, StepKeeps DEF ClientInv

LEMMA ReadRequestKeeps ==
  ASSUME Inv, NEW c \in Clients, ReadRequest(c) PROVE Inv'
<1> USE DEF server_vars, client_vars, forwarder_vars, ReaderMoves
<1>1. /\ inbox[c] \in Seq(Nat) /\ inbox[c] # <<>> /\ sent[c] \in Nat
      /\ Len(inbox[c]) \in Nat \ {0} /\ Head(inbox[c]) = inbox[c][1] /\ Head(inbox[c]) \in Nat
      /\ Tail(inbox[c]) \in Seq(Nat) /\ Len(Tail(inbox[c])) = Len(inbox[c]) - 1
      /\ \A i \in 1..Len(inbox[c]) - 1 : Tail(inbox[c])[i] = inbox[c][i + 1]
  BY HeadTailProperties, EmptySeq DEF Inv, Types, ReadRequest
<1>2. Types' /\ published <= published'
  BY <1>1, WsServerAssumption DEF Inv, Types, ReadRequest
<1>3. \A d \in Clients : d # c => SameAt(d)
  BY DEF Inv, Types, SameAt, ReadRequest
<1>4. Counted'
  <2>1. Alive' = Alive
    BY DEF Inv, Types, Alive, ReadRequest
  <2> QED BY <2>1 DEF Inv, Counted, ReadRequest
<1>5. /\ inbox'[c] = Tail(inbox[c]) /\ answer'[c] = inbox[c][1] /\ reader'[c] = "answer"
      /\ sent'[c] = sent[c] /\ peer'[c] = peer[c] /\ writer'[c] = writer[c]
      /\ Pipe(c)' = Pipe(c) /\ reader[c] = "read"
  BY <1>1 DEF Inv, Types, Pipe, ReadRequest
<1>6. Len(inbox[c]) <= sent[c] /\ inbox[c][1] = sent[c] - Len(inbox[c]) + 1
  BY <1>1 DEF Inv, ClientInv, Requests
<1>7. Bounded(c)' /\ Untouched(c)' /\ Notices(c)'
  BY <1>5 DEF Inv, ClientInv, Bounded, Untouched, Notices, ReadRequest
<1>8. Requests(c)'
  <2>1. \A i \in 1..Len(inbox[c]) : inbox[c][i] = (sent[c] - Len(inbox[c])) + i
    BY DEF Inv, ClientInv, Requests
  <2>2. Len(inbox'[c]) = Len(inbox[c]) - 1 /\ Len(inbox[c]) \in Nat \ {0} /\ sent[c] \in Nat
    BY <1>1, <1>5
  <2>3. \A i \in 1..Len(inbox'[c]) : inbox'[c][i] = (sent'[c] - Len(inbox'[c])) + i
    <3> TAKE i \in 1..Len(inbox'[c])
    <3>1. i \in 1..Len(inbox[c]) - 1 /\ i + 1 \in 1..Len(inbox[c])
      BY <2>2
    <3>2. inbox'[c][i] = inbox[c][i + 1]
      BY <1>1, <1>5, <3>1
    <3>3. inbox[c][i + 1] = (sent[c] - Len(inbox[c])) + (i + 1)
      BY <2>1, <3>1
    <3>4. sent'[c] = sent[c]
      BY <1>5
    <3> QED
      BY <2>2, <3>1, <3>2, <3>3, <3>4
  <2>4. Len(inbox'[c]) <= sent'[c]
    BY <1>5, <1>6, <2>2
  <2>5. answer'[c] > 0 /\ answer'[c] = sent'[c] - Len(inbox'[c])
    BY <1>5, <1>6, <2>2
  <2> QED
    BY <2>3, <2>4, <2>5 DEF Requests
<1>9. Answers(c)'
  <2>1. answer'[c] - 1 = sent[c] - Len(inbox[c])
    BY <1>1, <1>5, <1>6
  <2> QED BY <1>5, <2>1 DEF Inv, ClientInv, Answers
<1> QED BY <1>2, <1>3, <1>4, <1>7, <1>8, <1>9, StepKeeps DEF ClientInv

\* What a message put in the queue means for the pipe.
LEMMA Queued ==
  ASSUME Types, NEW c \in Clients, NEW m \in Message, Put(c, m), Room(c), wire' = wire
  PROVE  /\ queue' \in [Clients -> Seq(Message)] /\ Len(queue'[c]) <= QueueCapacity
         /\ \A d \in Clients : d # c => queue'[d] = queue[d]
         /\ Pipe(c) \in Seq(Message) /\ Pipe(c)' = Append(Pipe(c), m)
<1>1. /\ queue[c] \in Seq(Message) /\ wire[c] \in Seq(Message)
      /\ Append(queue[c], m) \in Seq(Message) /\ Len(Append(queue[c], m)) = Len(queue[c]) + 1
      /\ Len(queue[c]) \in Nat
  BY AppendProperties, LenProperties DEF Types
<1>2. queue'[c] = Append(queue[c], m)
  BY DEF Types, Put
<1>3. queue' \in [Clients -> Seq(Message)] /\ \A d \in Clients : d # c => queue'[d] = queue[d]
  BY <1>1 DEF Types, Put
<1>4. Len(queue'[c]) <= QueueCapacity
  BY <1>1, <1>2, WsServerAssumption DEF Room
<1>5. Pipe(c)' = Append(Pipe(c), m)
  <2>1. PICK w \in Seq(Message), q \in Seq(Message) : w = wire[c] /\ q = queue[c]
    BY <1>1
  <2>2. w \o Append(q, m) = Append(w \o q, m)
    BY MoveAlong
  <2>3. Pipe(c)' = w \o Append(q, m) /\ Pipe(c) = w \o q
    BY <1>2, <2>1 DEF Pipe
  <2> QED BY <2>2, <2>3
<1> QED BY <1>3, <1>4, <1>5, PipeType

LEMMA QueueAnswerKeeps ==
  ASSUME Inv, NEW c \in Clients, QueueAnswer(c) PROVE Inv'
<1> USE DEF server_vars, client_vars, forwarder_vars, ReaderMoves
<1>1. /\ answer[c] \in Nat \ {0} /\ answer[c] = sent[c] - Len(inbox[c])
      /\ reader[c] = "answer" /\ published \in Nat
  BY WsServerAssumption DEF Inv, Types, ClientInv, Requests, QueueAnswer
<1>2. CASE Room(c) /\ Put(c, Answer(answer[c])) /\ ReaderMoves(c, "read")
  <2> DEFINE m == Answer(answer[c])
  <2>1. m \in Message /\ m.type = "answer" /\ m.n = answer[c]
    BY <1>1 DEF Message, Answer
  <2> HIDE DEF m
  <2>2. /\ queue' \in [Clients -> Seq(Message)] /\ Len(queue'[c]) <= QueueCapacity
        /\ \A d \in Clients : d # c => queue'[d] = queue[d]
        /\ Pipe(c) \in Seq(Message) /\ Pipe(c)' = Append(Pipe(c), m)
    BY <1>2, <2>1, Queued DEF Inv, QueueAnswer, m
  <2>3. Types' /\ published <= published'
    <3>1. /\ reader' \in [Clients -> {"none", "read", "answer", "timeout", "ended", "joined"}]
          /\ published <= published'
      BY <1>1, <1>2 DEF Inv, Types, QueueAnswer
    <3> QED BY <2>2, <3>1 DEF Inv, Types, QueueAnswer
  <2>4. \A d \in Clients : d # c => SameAt(d)
    BY <1>2, <2>2 DEF Inv, Types, SameAt, QueueAnswer
  <2>5. Counted'
    <3>1. Alive' = Alive
      BY <1>1, <1>2 DEF Inv, Types, Alive
    <3> QED BY <3>1 DEF Inv, Counted, QueueAnswer
  <2>6. /\ reader'[c] = "read" /\ writer[c] = "run" /\ sent'[c] = sent[c] /\ inbox'[c] = inbox[c]
        /\ forwarder'[c] = forwarder[c] /\ cursor'[c] = cursor[c] /\ published' = published
        /\ peer'[c] = peer[c] /\ writer'[c] = writer[c]
    BY <1>2 DEF Inv, Types, Room, QueueAnswer
  <2>7. AnswersCountUp(Pipe(c)) /\ Answered(Pipe(c)) = 1..m.n - 1
    BY <1>1, <2>1, <2>6 DEF Inv, ClientInv, Answers
  <2>8. AnswersCountUp(Pipe(c)') /\ Answered(Pipe(c)') = 1..answer[c]
    <3>1. 1..answer[c] - 1 \cup {answer[c]} = 1..answer[c]
      BY <1>1
    <3>2. AnswersCountUp(Pipe(c)') /\ Answered(Pipe(c)') = Answered(Pipe(c)) \cup {m.n}
      BY <2>1, <2>2, <2>7, AppendAnswers
    <3> QED BY <2>1, <2>7, <3>1, <3>2
  <2>9. /\ NoticesFollowAt(published, Pipe(c)')
        /\ \A n \in Nat : MayFollow(published, Pipe(c), n) => MayFollow(published, Pipe(c)', n)
    BY <1>1, <2>1, <2>2, AppendNotices DEF Inv, ClientInv, Notices
  <2>10. Bounded(c)' /\ Untouched(c)' /\ Requests(c)'
    BY <2>2, <2>6 DEF Inv, ClientInv, Bounded, Untouched, Requests
  <2>11. Answers(c)'
    BY <1>1, <2>6, <2>8 DEF Answers
  <2>12. Notices(c)'
    <3>1. cursor[c] \in Nat /\ (cursor[c] > 0 => cursor[c] - 1 \in Nat)
      BY DEF Inv, Types
    <3> QED BY <2>6, <2>9, <3>1 DEF Inv, ClientInv, Notices
  <2> QED BY <2>3, <2>4, <2>5, <2>10, <2>11, <2>12, StepKeeps DEF ClientInv
<1>3. CASE writer[c] = "off" /\ ReaderMoves(c, "ended") /\ UNCHANGED queue
  <2>1. Types' /\ published <= published'
    BY <1>3, WsServerAssumption DEF Inv, Types, QueueAnswer
  <2>2. \A d \in Clients : d # c => SameAt(d)
    BY <1>3 DEF Inv, Types, SameAt, QueueAnswer
  <2>3. Counted'
    <3>1. Alive' = Alive
      BY <1>1, <1>3 DEF Inv, Types, Alive
    <3> QED BY <3>1 DEF Inv, Counted, QueueAnswer
  <2>4. ClientInv(c)'
    BY <1>1, <1>3
    DEF Inv, Types, ClientInv, Bounded, Untouched, Requests, Answers, Notices, Pipe, QueueAnswer
  <2> QED BY <2>1, <2>2, <2>3, <2>4, StepKeeps
<1> QED BY <1>2, <1>3 DEF QueueAnswer

LEMMA QueueTimeoutKeeps ==
  ASSUME Inv, NEW c \in Clients, QueueTimeout(c) PROVE Inv'
<1> USE DEF server_vars, client_vars, forwarder_vars, ReaderMoves
<1>1. /\ reader[c] = "timeout" /\ reader'[c] = "ended" /\ published \in Nat
      /\ sent'[c] = sent[c] /\ inbox'[c] = inbox[c] /\ peer'[c] = peer[c]
      /\ forwarder'[c] = forwarder[c] /\ cursor'[c] = cursor[c] /\ writer'[c] = writer[c]
      /\ published' = published
  BY WsServerAssumption DEF Inv, Types, QueueTimeout
<1>2. Counted'
  <2>1. Alive' = Alive
    BY <1>1 DEF Inv, Types, Alive, QueueTimeout
  <2> QED BY <2>1 DEF Inv, Counted, QueueTimeout
<1>3. CASE Room(c) /\ Put(c, TimedOut)
  <2>1. TimedOut \in Message /\ TimedOut.type = "close"
    BY DEF Message, TimedOut
  <2>2. /\ queue' \in [Clients -> Seq(Message)] /\ Len(queue'[c]) <= QueueCapacity
        /\ \A d \in Clients : d # c => queue'[d] = queue[d]
        /\ Pipe(c) \in Seq(Message) /\ Pipe(c)' = Append(Pipe(c), TimedOut)
    BY <1>3, <2>1, Queued DEF Inv, QueueTimeout
  <2>3. Types' /\ published <= published'
    <3>1. /\ reader' \in [Clients -> {"none", "read", "answer", "timeout", "ended", "joined"}]
          /\ published <= published'
      BY <1>1 DEF Inv, Types, QueueTimeout
    <3> QED BY <2>2, <3>1 DEF Inv, Types, QueueTimeout
  <2>4. \A d \in Clients : d # c => SameAt(d)
    BY <2>2 DEF Inv, Types, SameAt, QueueTimeout
  <2>5. AnswersCountUp(Pipe(c)')
    BY <2>1, <2>2, AppendAnswers DEF Inv, ClientInv, Answers
  <2>6. /\ NoticesFollowAt(published, Pipe(c)')
        /\ \A n \in Nat : MayFollow(published, Pipe(c), n) => MayFollow(published, Pipe(c)', n)
    BY <1>1, <2>1, <2>2, AppendNotices DEF Inv, ClientInv, Notices
  <2>7. Bounded(c)' /\ Untouched(c)' /\ Requests(c)' /\ Answers(c)'
    BY <1>1, <2>2, <2>5 DEF Inv, ClientInv, Bounded, Untouched, Requests, Answers
  <2>8. Notices(c)'
    <3>1. cursor[c] \in Nat /\ (cursor[c] > 0 => cursor[c] - 1 \in Nat)
      BY DEF Inv, Types
    <3> QED BY <1>1, <2>6, <3>1 DEF Inv, ClientInv, Notices
  <2> QED BY <1>2, <2>3, <2>4, <2>7, <2>8, StepKeeps DEF ClientInv
<1>4. CASE writer[c] = "off" /\ UNCHANGED queue
  <2>1. Types' /\ published <= published'
    BY <1>4, WsServerAssumption DEF Inv, Types, QueueTimeout
  <2>2. \A d \in Clients : d # c => SameAt(d)
    BY <1>4 DEF Inv, Types, SameAt, QueueTimeout
  <2>3. ClientInv(c)'
    BY <1>1, <1>4
    DEF Inv, Types, ClientInv, Bounded, Untouched, Requests, Answers, Notices, Pipe, QueueTimeout
  <2> QED BY <1>2, <2>1, <2>2, <2>3, StepKeeps
<1> QED BY <1>3, <1>4 DEF QueueTimeout

LEMMA ReaderStopsKeeps ==
  ASSUME Inv, NEW c \in Clients, AuthTimeout(c) \/ ReadEnd(c) PROVE Inv'
<1> USE DEF server_vars, client_vars, forwarder_vars, ReaderMoves
<1>1. /\ reader[c] = "read" /\ reader'[c] \in {"timeout", "ended"}
      /\ \A d \in Clients : d # c => SameAt(d)
  BY DEF Inv, Types, SameAt, AuthTimeout, ReadEnd
<1>2. Types' /\ published <= published'
  <2>1. CASE AuthTimeout(c)
    BY <2>1, WsServerAssumption DEF Inv, Types, AuthTimeout
  <2>2. CASE ReadEnd(c)
    BY <2>2, WsServerAssumption DEF Inv, Types, ReadEnd
  <2> QED BY <2>1, <2>2
<1>3. Counted'
  <2>1. Alive' = Alive
    BY <1>1 DEF Inv, Types, Alive, AuthTimeout, ReadEnd
  <2> QED BY <2>1 DEF Inv, Counted, AuthTimeout, ReadEnd
<1>4. ClientInv(c)'
  BY <1>1 DEF Inv, Types, ClientInv, Bounded, Untouched, Requests, Answers, Notices, Pipe,
              AuthTimeout, ReadEnd
<1> QED BY <1>1, <1>2, <1>3, <1>4, StepKeeps

LEMMA TaskEndsKeeps ==
  ASSUME Inv, NEW c \in Clients, TaskEnds(c) PROVE Inv'
<1> USE DEF server_vars, client_vars, forwarder_vars, ReaderMoves
<1>1. /\ reader[c] = "ended" /\ reader'[c] = "joined"
      /\ \A d \in Clients : d # c => SameAt(d)
  BY DEF Inv, Types, SameAt, TaskEnds
<1>2. Types' /\ published <= published'
  BY WsServerAssumption DEF Inv, Types, TaskEnds
<1>3. Counted'
  <2>1. Alive' = Alive \ {c} /\ c \in Alive
    BY <1>1 DEF Inv, Types, Alive, TaskEnds
  <2>2. IsFiniteSet(Alive)
    BY WsServerAssumption, FS_Subset DEF Alive
  <2> QED BY <2>1, <2>2, FS_RemoveElement DEF Inv, Counted, TaskEnds
<1>4. ClientInv(c)'
  BY <1>1 DEF Inv, Types, ClientInv, Bounded, Untouched, Requests, Answers, Notices, Pipe, TaskEnds
<1> QED BY <1>1, <1>2, <1>3, <1>4, StepKeeps

LEMMA ReceiveKeeps ==
  ASSUME Inv, NEW c \in Clients, Receive(c) PROVE Inv'
<1> USE DEF server_vars, client_vars, reader_vars
<1>1. /\ published \in Nat /\ cursor[c] \in Nat /\ published' = published
      /\ forwarder[c] = "recv" /\ cursor[c] <= published /\ Pipe(c)' = Pipe(c)
      /\ Pipe(c) \in Seq(Message) /\ NoticeCapacity \in Nat \ {0}
  BY WsServerAssumption, PipeType DEF Inv, Types, Pipe, Receive
<1>2. /\ cursor'[c] \in Nat /\ cursor'[c] <= published + 1
      /\ \A d \in Clients : d # c => cursor'[d] = cursor[d] /\ forwarder'[d] = forwarder[d]
      /\ \/ /\ forwarder'[c] = "recv" /\ cursor[c] + NoticeCapacity <= published
            /\ cursor'[c] = published - NoticeCapacity + 1
         \/ forwarder'[c] = "send" /\ cursor'[c] = cursor[c] + 1
  BY <1>1 DEF Inv, Types, Receive
<1>3. Types' /\ published <= published'
  <2>1. /\ cursor' \in [Clients -> Nat] /\ forwarder' \in [Clients -> {"off", "recv", "send"}]
    <3>1. CASE cursor[c] + NoticeCapacity <= published
      <4>1. published - NoticeCapacity + 1 \in Nat
        BY <1>1, <3>1
      <4> QED BY <3>1, <4>1 DEF Inv, Types, Receive
    <3>2. CASE ~(cursor[c] + NoticeCapacity <= published)
      <4>1. /\ cursor' = [cursor EXCEPT ![c] = cursor[c] + 1] /\ cursor[c] + 1 \in Nat
            /\ forwarder' = [forwarder EXCEPT ![c] = "send"]
        BY <1>1, <3>2 DEF Receive
      <4> QED BY <4>1 DEF Inv, Types
    <3> QED BY <3>1, <3>2
  <2> QED BY <1>1, <2>1 DEF Inv, Types, Receive
<1>4. \A d \in Clients : d # c => SameAt(d)
  BY <1>2 DEF SameAt, Receive
<1>5. Counted'
  BY DEF Inv, Counted, Alive, Receive
<1>6. Bounded(c)' /\ Untouched(c)' /\ Requests(c)' /\ Answers(c)'
  BY <1>1, <1>2 DEF Inv, ClientInv, Bounded, Untouched, Requests, Answers, Receive
<1>7. Notices(c)'
  <2>1. CASE writer[c] = "off"
    BY <1>1, <1>2, <2>1 DEF Inv, ClientInv, Notices, Receive
  <2>2. CASE writer[c] = "run"
    <3>1. MayFollow(published, Pipe(c), cursor[c]) /\ NoticesFollowAt(published, Pipe(c))
      BY <1>1, <2>2 DEF Inv, ClientInv, Notices
    <3>2. CASE forwarder'[c] = "send" /\ cursor'[c] = cursor[c] + 1
      <4>1. cursor'[c] - 1 = cursor[c] /\ cursor'[c] > 0
        BY <1>1, <3>2
      <4> QED BY <1>1, <3>1, <3>2, <4>1 DEF Notices, Receive
    <3>3. CASE /\ forwarder'[c] = "recv" /\ cursor[c] + NoticeCapacity <= published
               /\ cursor'[c] = published - NoticeCapacity + 1
      <4>1. \A i \in DOMAIN Pipe(c) : Pipe(c)[i].n \in Nat
        <5>1. \A i \in DOMAIN Pipe(c) : Pipe(c)[i] \in Message
          BY <1>1, LenProperties
        <5> QED BY <5>1 DEF Message
      <4>2. \A n \in Nat :
              FollowsAt(published, cursor[c], n) => FollowsAt(published, cursor'[c], n)
        BY <1>1, <3>3 DEF FollowsAt
      <4>3. MayFollow(published, Pipe(c), cursor'[c])
        BY <3>1, <4>1, <4>2 DEF MayFollow
      <4> QED BY <1>1, <3>1, <3>3, <4>3 DEF Notices
    <3> QED BY <1>2, <3>2, <3>3
  <2> QED BY <2>1, <2>2 DEF Inv, Types
<1> QED BY <1>3, <1>4, <1>5, <1>6, <1>7, StepKeeps DEF ClientInv

LEMMA QueueNoticeKeeps ==
  ASSUME Inv, NEW c \in Clients, QueueNotice(c) PROVE Inv'
<1> USE DEF server_vars, client_vars, reader_vars
<1>1. /\ published \in Nat /\ cursor[c] \in Nat \ {0} /\ forwarder[c] = "send"
      /\ published' = published /\ cursor'[c] = cursor[c] /\ reader'[c] = reader[c]
      /\ sent'[c] = sent[c] /\ inbox'[c] = inbox[c] /\ answer'[c] = answer[c]
      /\ peer'[c] = peer[c] /\ writer'[c] = writer[c] /\ forwarder'[c] \in {"off", "recv"}
      /\ \A d \in Clients : d # c => forwarder'[d] = forwarder[d]
  BY WsServerAssumption DEF Inv, Types, ClientInv, Notices, QueueNotice
<1>2. Counted'
  BY DEF Inv, Counted, Alive, QueueNotice
<1>3. CASE /\ Room(c) /\ Put(c, Notice(cursor[c] - 1))
           /\ forwarder' = [forwarder EXCEPT ![c] = "recv"]
  <2> DEFINE m == Notice(cursor[c] - 1)
  <2>1. m \in Message /\ m.type = "notice" /\ m.n + 1 = cursor[c] /\ m.n = cursor[c] - 1
    BY <1>1 DEF Message, Notice
  <2> HIDE DEF m
  <2>2. /\ queue' \in [Clients -> Seq(Message)] /\ Len(queue'[c]) <= QueueCapacity
        /\ \A d \in Clients : d # c => queue'[d] = queue[d]
        /\ Pipe(c) \in Seq(Message) /\ Pipe(c)' = Append(Pipe(c), m)
    BY <1>3, <2>1, Queued DEF Inv, QueueNotice, m
  <2>3. Types' /\ published <= published'
    <3>1. forwarder' \in [Clients -> {"off", "recv", "send"}]
      BY <1>3 DEF Inv, Types
    <3> QED BY <1>1, <2>2, <3>1 DEF Inv, Types, QueueNotice
  <2>4. \A d \in Clients : d # c => SameAt(d)
    BY <1>1, <2>2 DEF SameAt, QueueNotice
  <2>5. /\ AnswersCountUp(Pipe(c)') /\ Answered(Pipe(c)') = Answered(Pipe(c))
    BY <2>1, <2>2, AppendAnswers DEF Inv, ClientInv, Answers
  <2>6. NoticesFollowAt(published, Pipe(c)') /\ MayFollow(published, Pipe(c)', cursor[c])
    <3>1. MayFollow(published, Pipe(c), m.n) /\ NoticesFollowAt(published, Pipe(c))
      BY <1>1, <1>3, <2>1 DEF Inv, ClientInv, Notices, Room
    <3> QED BY <1>1, <2>1, <2>2, <3>1, AppendNotices
  <2>7. Bounded(c)' /\ Untouched(c)' /\ Requests(c)' /\ Answers(c)'
    BY <1>1, <2>2, <2>5 DEF Inv, ClientInv, Bounded, Untouched, Requests, Answers
  <2>8. Notices(c)'
    <3>1. forwarder'[c] = "recv"
      BY <1>3 DEF Inv, Types
    <3> QED BY <1>1, <2>6, <3>1 DEF Notices
  <2> QED BY <1>2, <2>3, <2>4, <2>7, <2>8, StepKeeps DEF ClientInv
<1>4. CASE /\ writer[c] = "off" /\ UNCHANGED queue
           /\ forwarder' = [forwarder EXCEPT ![c] = "off"]
  <2>1. Types' /\ published <= published'
    <3>1. forwarder' \in [Clients -> {"off", "recv", "send"}]
      BY <1>4 DEF Inv, Types
    <3> QED BY <1>1, <1>4, <3>1 DEF Inv, Types, QueueNotice
  <2>2. \A d \in Clients : d # c => SameAt(d)
    BY <1>1, <1>4 DEF SameAt, QueueNotice
  <2>3. Pipe(c)' = Pipe(c)
    BY <1>4 DEF Pipe, QueueNotice
  <2>4. ClientInv(c)'
    BY <1>1, <1>4, <2>3
    DEF Inv, Types, ClientInv, Bounded, Untouched, Requests, Answers, Notices
  <2> QED BY <1>2, <2>1, <2>2, <2>4, StepKeeps
<1> QED BY <1>3, <1>4 DEF QueueNotice

LEMMA AbortForwarderKeeps ==
  ASSUME Inv, NEW c \in Clients, AbortForwarder(c) PROVE Inv'
<1> USE DEF server_vars, client_vars, reader_vars
<1>1. Types' /\ published <= published'
  BY WsServerAssumption DEF Inv, Types, AbortForwarder
<1>2. \A d \in Clients : d # c => SameAt(d)
  BY DEF Inv, Types, SameAt, AbortForwarder
<1>3. Counted'
  BY DEF Inv, Counted, Alive, AbortForwarder
<1>4. ClientInv(c)'
  BY DEF Inv, Types, ClientInv, Bounded, Untouched, Requests, Answers, Notices, Pipe,
         AbortForwarder
<1> QED BY <1>1, <1>2, <1>3, <1>4, StepKeeps

LEMMA WriteKeeps ==
  ASSUME Inv, NEW c \in Clients, Write(c) PROVE Inv'
<1> USE DEF server_vars, client_vars, reader_vars, forwarder_vars
<1>1. /\ queue[c] \in Seq(Message) /\ queue[c] # <<>> /\ wire[c] \in Seq(Message)
      /\ Head(queue[c]) \in Message /\ Tail(queue[c]) \in Seq(Message)
      /\ Len(Tail(queue[c])) = Len(queue[c]) - 1 /\ Len(queue[c]) \in Nat
      /\ Append(wire[c], Head(queue[c])) \in Seq(Message)
  BY HeadTailProperties, AppendProperties, LenProperties DEF Inv, Types, Write
<1>2. /\ wire'[c] = Append(wire[c], Head(queue[c])) /\ queue'[c] = Tail(queue[c])
      /\ \A d \in Clients : d # c => wire'[d] = wire[d] /\ queue'[d] = queue[d]
  BY DEF Inv, Types, Write
<1>3. Pipe(c)' = Pipe(c)
  <2>1. Append(wire[c], Head(queue[c])) \o Tail(queue[c]) = wire[c] \o queue[c]
    BY <1>1, MoveAlong
  <2> QED BY <1>2, <2>1 DEF Pipe
<1>4. Types' /\ published <= published'
  <2>1. wire' \in [Clients -> Seq(Message)] /\ queue' \in [Clients -> Seq(Message)]
    BY <1>1 DEF Inv, Types, Write
  <2> QED BY <2>1, WsServerAssumption DEF Inv, Types, Write
<1>5. \A d \in Clients : d # c => SameAt(d)
  BY <1>2 DEF SameAt, Write
<1>6. Counted'
  BY DEF Inv, Counted, Alive, Write
<1>7. Bounded(c)'
  BY <1>1, <1>2, WsServerAssumption DEF Inv, ClientInv, Bounded, Write
<1>8. Untouched(c)' /\ Requests(c)' /\ Answers(c)' /\ Notices(c)'
  BY <1>3 DEF Inv, ClientInv, Untouched, Requests, Answers, Notices, Write
<1> QED BY <1>4, <1>5, <1>6, <1>7, <1>8, StepKeeps DEF ClientInv

LEMMA WriterOverKeeps ==
  ASSUME Inv, NEW c \in Clients, WriterOver(c) PROVE Inv'
<1> USE DEF server_vars, reader_vars, forwarder_vars, WriterOver
<1>1. /\ peer'[c] = "closed" /\ writer'[c] = "off" /\ queue'[c] = <<>> /\ wire'[c] = wire[c]
      /\ \A d \in Clients : d # c => SameAt(d)
  BY DEF Inv, Types, SameAt, WriteFails, WriterEnds
<1>2. Types' /\ published <= published'
  <2>1. /\ peer' \in [Clients -> {"away", "open", "closed"}]
        /\ writer' \in [Clients -> {"off", "run"}]
        /\ queue' \in [Clients -> Seq(Message)] /\ published \in Nat /\ published' = published
    <3>1. <<>> \in Seq(Message)
      BY EmptySeq
    <3>2. CASE WriteFails(c)
      BY <3>1, <3>2, WsServerAssumption DEF Inv, Types, WriteFails
    <3>3. CASE WriterEnds(c)
      BY <3>3, WsServerAssumption DEF Inv, Types, WriterEnds
    <3> QED BY <3>2, <3>3
  <2> QED BY <2>1 DEF Inv, Types, WriteFails, WriterEnds
<1>3. Counted'
  BY DEF Inv, Counted, Alive, WriteFails, WriterEnds
<1>4. /\ Pipe(c)' = wire[c] /\ AnswersCountUp(wire[c])
      /\ NoticesFollowAt(published, wire[c])
  <2>1. wire[c] \in Seq(Message) /\ queue[c] \in Seq(Message) /\ published \in Nat
    BY WsServerAssumption DEF Inv, Types
  <2> QED BY <1>1, <2>1, Prefix, ConcatEmptySeq DEF Inv, ClientInv, Answers, Notices, Pipe
<1>5. Bounded(c)' /\ Untouched(c)' /\ Requests(c)'
  BY <1>1, EmptySeq, WsServerAssumption
  DEF Inv, ClientInv, Bounded, Untouched, Requests, WriteFails, WriterEnds
<1>6. Answers(c)' /\ Notices(c)'
  BY <1>1, <1>4 DEF Inv, ClientInv, Answers, Notices, WriteFails, WriterEnds
<1> QED BY <1>1, <1>2, <1>3, <1>5, <1>6, StepKeeps DEF ClientInv
-----------------------------------------------------------------------------
LEMMA Start == Init => Inv
<1> SUFFICES ASSUME Init PROVE Inv
  OBVIOUS
<1>1. Types
  BY WsServerAssumption, EmptySeq DEF Init, Types
<1>2. Counted
  <2>1. Alive = {}
    BY DEF Init, Alive
  <2> QED BY <2>1, FS_EmptySet DEF Init, Counted
<1>3. ASSUME NEW c \in Clients PROVE ClientInv(c)
  <2>1. Pipe(c) = <<>>
    <3>1. wire[c] = <<>> /\ queue[c] = <<>>
      BY DEF Init
    <3> QED BY <3>1 DEF Pipe
  <2>2. AnswersCountUp(<<>>) /\ NoticesFollowAt(published, <<>>)
    BY DEF AnswersCountUp, NoticesFollowAt
  <2> QED BY <2>1, <2>2, WsServerAssumption
          DEF Init, ClientInv, Bounded, Untouched, Requests, Answers, Notices
<1> QED BY <1>1, <1>2, <1>3 DEF Inv

LEMMA EveryStep == Inv /\ [Next]_vars => Inv'
<1> SUFFICES ASSUME Inv, [Next]_vars PROVE Inv'
  OBVIOUS
<1>1. CASE Publish \/ Cancel \/ Drained \/ UNCHANGED vars
  BY <1>1, EngineKeeps
<1>2. ASSUME NEW c \in Clients,
             \/ Request(c) \/ Leave(c) \/ Accept(c)
             \/ Reader(c) \/ Forwarder(c) \/ Write(c) \/ WriterOver(c)
      PROVE  Inv'
  <2>1. CASE Request(c) \/ Leave(c) \/ Accept(c)
    BY <2>1, RequestKeeps, LeaveKeeps, AcceptKeeps
  <2>2. CASE Reader(c)
    BY <2>2, ReadRequestKeeps, QueueAnswerKeeps, QueueTimeoutKeeps, ReaderStopsKeeps,
       TaskEndsKeeps DEF Reader
  <2>3. CASE Forwarder(c)
    BY <2>3, ReceiveKeeps, QueueNoticeKeeps, AbortForwarderKeeps DEF Forwarder
  <2>4. CASE Write(c) \/ WriterOver(c)
    BY <2>4, WriteKeeps, WriterOverKeeps
  <2> QED BY <1>2, <2>1, <2>2, <2>3, <2>4
<1> QED BY <1>1, <1>2 DEF Next

LEMMA Enough == Inv => QueueKeepsOrder
<1> SUFFICES ASSUME Inv PROVE QueueKeepsOrder
  OBVIOUS
<1>1. TypeOK
  BY WsServerAssumption DEF Inv, Types, Counted, Alive, ClientInv, Bounded, TypeOK
<1>2. ASSUME NEW c \in Clients PROVE AnswersCountUp(wire[c]) /\ NoticesFollow(wire[c])
  <2>1. wire[c] \in Seq(Message) /\ queue[c] \in Seq(Message) /\ published \in Nat
    BY WsServerAssumption DEF Inv, Types
  <2>2. AnswersCountUp(wire[c]) /\ NoticesFollowAt(published, wire[c])
    BY <2>1, Prefix DEF Inv, ClientInv, Answers, Notices, Pipe
  <2> QED BY <2>2 DEF NoticesFollowAt, NoticesFollow, FollowsAt, Follows
<1> QED BY <1>1, <1>2
        DEF QueueKeepsOrder, AnswersInOrder, NoticesSkippedOnlyWhenLagging

(* For any number of clients, requests and notices and any capacities of   *)
(* queue and broadcast channel: every client's answers come one each and   *)
(* in the order of its requests, its notices in the order they were        *)
(* published with gaps only of a whole buffer, and the counter of the      *)
(* metrics is the number of clients served (ws_server.rs, handle_client).  *)
THEOREM OrderCorrect == Spec => []QueueKeepsOrder
<1>1. Init => Inv
  BY Start
<1>2. Inv /\ [Next]_vars => Inv'
  BY EveryStep
<1>3. Inv => QueueKeepsOrder
  BY Enough
<1> QED BY <1>1, <1>2, <1>3, PTL DEF Spec

-----------------------------------------------------------------------------
(* The socket of the user interface (UiSocket).                            *)

SocketState == [readyState : {"connecting", "open", "closing", "closed"}, sent : Seq(Nat)]
CallState == [on : Nat \cup {None}, is : {"waiting", "resolved", "rejected"}]

UiTypes ==
  /\ owns \in BOOLEAN /\ mounted \in BOOLEAN /\ closedByUser \in BOOLEAN /\ slip \in BOOLEAN
  /\ sockets \in Seq(SocketState) /\ socket \in DOMAIN sockets \cup {None}
  /\ timers \subseteq DOMAIN sockets
  /\ calls \in Seq(CallState)

Up(ss, g) == ss[g].readyState # "closed"

\* The client's sockets, timers and component while no socket was made too early.
OneUp == \A g, h \in DOMAIN sockets : Up(sockets, g) /\ Up(sockets, h) => g = h
UsableIsHeld == \A g \in DOMAIN sockets : Ui!Usable(g) => socket = g
NoUsable == \A g \in DOMAIN sockets : ~Ui!Usable(g)
NoneUp == \A g \in DOMAIN sockets : ~Up(sockets, g)

Tidy ==
  ~slip =>
    /\ OneUp /\ UsableIsHeld
    /\ closedByUser => timers = {} /\ NoUsable
    /\ owns => timers \subseteq {reconnectTimer}
    /\ owns /\ timers # {} => NoneUp
    /\ owns /\ ~mounted => closedByUser \/ sockets = <<>>

\* The socket of the moment is not closed, and was greeted if it is open.
HeldIsUp ==
  socket # None =>
    /\ Up(sockets, socket)
    /\ sockets[socket].readyState = "open" => sockets[socket].sent # <<>>

UiInv ==
  /\ UiTypes /\ (closedByUser => owns) /\ Tidy /\ HeldIsUp /\ Ui!HelloComesFirst

LEMMA UiInitHolds == Ui!Init => UiInv
<1> SUFFICES ASSUME Ui!Init PROVE UiInv
  OBVIOUS
<1> USE DEF Ui!Init
<1>1. DOMAIN sockets = {}
  OBVIOUS
<1>2. UiTypes
  <2>1. sockets \in Seq(SocketState) /\ calls \in Seq(CallState)
    OBVIOUS
  <2>2. owns \in BOOLEAN /\ mounted \in BOOLEAN /\ closedByUser \in BOOLEAN /\ slip \in BOOLEAN
    BY Zenon
  <2> QED
    BY <2>1, <2>2, Zenon DEF UiTypes
<1>3. Tidy
  BY <1>1 DEF Tidy, OneUp, UsableIsHeld, NoUsable, NoneUp
<1>4. HeldIsUp /\ Ui!HelloComesFirst
  BY <1>1 DEF HeldIsUp, Up, Ui!HelloComesFirst, Ui!Made
<1> QED
  BY <1>2, <1>3, <1>4 DEF UiInv

\* What connect makes of the sockets.
LEMMA ConnectMakes ==
  ASSUME UiTypes, Ui!connect
  PROVE  /\ closedByUser' = FALSE
         /\ \/ /\ Ui!AlreadyThere /\ socket' = socket /\ sockets' = sockets /\ slip' = slip
            \/ /\ ~Ui!AlreadyThere /\ socket' = Len(sockets) + 1
               /\ sockets' \in Seq(SocketState) /\ DOMAIN sockets' = 1..Len(sockets) + 1
               /\ sockets'[Len(sockets) + 1] = [readyState |-> "connecting", sent |-> <<>>]
               /\ \A g \in DOMAIN sockets : sockets'[g] = sockets[g]
               /\ slip' \in BOOLEAN
               /\ ~slip' => ~slip /\ \A g \in DOMAIN sockets : sockets[g].readyState # "closing"
<1> USE DEF Ui!connect
<1>1. CASE Ui!AlreadyThere
  BY <1>1
<1>2. CASE ~Ui!AlreadyThere
  <2> DEFINE new == [readyState |-> "connecting", sent |-> <<>>]
  <2>1. new \in SocketState
    BY DEF SocketState
  <2>2. sockets \in Seq(SocketState) /\ slip \in BOOLEAN
    BY DEF UiTypes
  <2> HIDE DEF new
  <2>3. socket' = Len(sockets) + 1 /\ sockets' = Append(sockets, new)
    BY <1>2 DEF new
  <2>4. slip' = (slip \/ \E g \in DOMAIN sockets : sockets[g].readyState = "closing")
    BY <1>2 DEF Ui!Made
  <2>5. /\ sockets' \in Seq(SocketState) /\ DOMAIN sockets' = 1..Len(sockets) + 1
        /\ sockets'[Len(sockets) + 1] = new
        /\ \A g \in DOMAIN sockets : sockets'[g] = sockets[g]
    BY <2>1, <2>2, <2>3
  <2> QED
    BY <1>2, <2>2, <2>3, <2>4, <2>5 DEF new
<1> QED
  BY <1>1, <1>2

\* connect keeps the invariant where no timer is left that could go on.
LEMMA ConnectKeeps ==
  ASSUME UiInv, Ui!connect, mounted' \in BOOLEAN, owns' = owns, calls' = calls,
         timers' \subseteq timers, mounted' = TRUE \/ (mounted' = mounted /\ timers # {}),
         ~slip /\ owns => timers' = {}
  PROVE  UiInv'
<1> DEFINE new == Len(sockets) + 1
<1>1. UiTypes /\ (closedByUser => owns) /\ Tidy /\ HeldIsUp /\ Ui!HelloComesFirst
  BY DEF UiInv
<1>2. closedByUser' = FALSE
  BY <1>1, ConnectMakes
<1>3. CASE Ui!AlreadyThere /\ socket' = socket /\ sockets' = sockets /\ slip' = slip
  <2>1. UiTypes'
    BY <1>1, <1>2, <1>3 DEF UiTypes
  <2>2. Tidy'
    <3> SUFFICES ASSUME ~slip PROVE /\ OneUp' /\ UsableIsHeld'
                                    /\ owns => timers' \subseteq {reconnectTimer'}
                                    /\ owns /\ timers' # {} => NoneUp'
                                    /\ owns /\ ~mounted' => sockets = <<>>
      BY <1>2, <1>3 DEF Tidy
    <3>1. OneUp' /\ UsableIsHeld'
      BY <1>1, <1>3 DEF Tidy, OneUp, UsableIsHeld, Ui!Usable, Up
    <3>2. owns => timers' = {}
      OBVIOUS
    <3>3. owns /\ ~mounted' => sockets = <<>>
      <4> SUFFICES ASSUME owns, ~mounted' PROVE FALSE
        OBVIOUS
      <4>1. timers # {} /\ ~mounted
        OBVIOUS
      <4>2. NoneUp
        BY <1>1, <4>1 DEF Tidy
      <4>3. socket \in DOMAIN sockets /\ sockets[socket].readyState \in {"connecting", "open"}
        BY <1>1, <1>3 DEF Ui!AlreadyThere, Ui!Usable, UiTypes
      <4> QED
        BY <4>2, <4>3 DEF NoneUp, Up
    <3> QED
      BY <3>1, <3>2, <3>3
  <2>3. HeldIsUp' /\ Ui!HelloComesFirst'
    BY <1>1, <1>3 DEF HeldIsUp, Up, Ui!HelloComesFirst, Ui!Made
  <2> QED
    BY <1>2, <2>1, <2>2, <2>3 DEF UiInv
<1>4. CASE /\ ~Ui!AlreadyThere /\ socket' = new
           /\ sockets' \in Seq(SocketState) /\ DOMAIN sockets' = 1..new
           /\ sockets'[new] = [readyState |-> "connecting", sent |-> <<>>]
           /\ \A g \in DOMAIN sockets : sockets'[g] = sockets[g]
           /\ slip' \in BOOLEAN
           /\ ~slip' => ~slip /\ \A g \in DOMAIN sockets : sockets[g].readyState # "closing"
  <2>1. /\ sockets \in Seq(SocketState) /\ DOMAIN sockets = 1..Len(sockets) /\ Len(sockets) \in Nat
        /\ socket \in DOMAIN sockets \cup {None} /\ timers \subseteq DOMAIN sockets
        /\ calls \in Seq(CallState) /\ owns \in BOOLEAN
    BY <1>1 DEF UiTypes
  <2>2. new \in DOMAIN sockets' /\ DOMAIN sockets \subseteq DOMAIN sockets'
    BY <1>4, <2>1
  <2>3. \A g \in DOMAIN sockets' : g # new => g \in DOMAIN sockets /\ sockets'[g] = sockets[g]
    BY <1>4, <2>1
  <2>4. sockets'[new].readyState = "connecting" /\ sockets'[new].sent = <<>>
    BY <1>4
  <2>5. UiTypes'
    <3>1. socket' \in DOMAIN sockets'
      BY <1>4, <2>2
    <3>2. timers' \subseteq DOMAIN sockets'
      BY <2>1, <2>2
    <3> QED
      BY <1>2, <1>4, <2>1, <3>1, <3>2 DEF UiTypes
  <2> HIDE DEF new
  <2>6. ~slip' => \A g \in DOMAIN sockets : sockets[g].readyState = "closed"
    <3> SUFFICES ASSUME ~slip', NEW g \in DOMAIN sockets, sockets[g].readyState # "closed"
                 PROVE  FALSE
      OBVIOUS
    <3>1. ~slip /\ sockets[g].readyState # "closing"
      BY <1>4
    <3>2. sockets[g] \in SocketState
      BY <2>1
    <3>3. Ui!Usable(g)
      BY <3>1, <3>2 DEF SocketState, Ui!Usable
    <3>4. socket = g
      BY <1>1, <3>1, <3>3 DEF Tidy, UsableIsHeld
    <3>5. g # None
      BY <2>1, BothEndsAssumption DEF Ui!UiSocketConstants
    <3> QED
      BY <1>4, <3>3, <3>4, <3>5 DEF Ui!AlreadyThere
  <2>7. Tidy'
    <3> SUFFICES ASSUME ~slip'
                 PROVE  /\ OneUp' /\ UsableIsHeld' /\ (owns => timers' = {})
                        /\ (owns /\ ~mounted' => sockets' = <<>>)
      BY <1>2 DEF Tidy
    <3>1. \A g \in DOMAIN sockets' : g # new => sockets'[g].readyState = "closed"
      BY <2>3, <2>6
    <3>2. OneUp'
      BY <3>1 DEF OneUp, Up
    <3>3. UsableIsHeld'
      BY <3>1, <1>4 DEF UsableIsHeld, Ui!Usable
    <3>4. ~slip
      BY <1>4
    <3>5. owns => timers' = {}
      BY <3>4
    <3>6. owns /\ ~mounted' => sockets' = <<>>
      <4> SUFFICES ASSUME owns, ~mounted' PROVE FALSE
        OBVIOUS
      <4>1. timers # {} /\ ~mounted
        OBVIOUS
      <4>2. closedByUser \/ sockets = <<>>
        BY <1>1, <3>4, <4>1 DEF Tidy
      <4>3. sockets = <<>> => timers = {}
        BY <2>1
      <4> QED
        BY <1>1, <3>4, <4>1, <4>2, <4>3 DEF Tidy
    <3> QED
      BY <3>2, <3>3, <3>5, <3>6
  <2>8. HeldIsUp'
    BY <1>4, <2>4 DEF HeldIsUp, Up
  <2>9. Ui!HelloComesFirst'
    BY <1>1, <2>3, <2>4 DEF Ui!HelloComesFirst, Ui!Made
  <2> QED
    BY <1>2, <2>5, <2>7, <2>8, <2>9 DEF UiInv
<1> QED
  BY <1>1, <1>3, <1>4, ConnectMakes

LEMMA RejectPendingType ==
  ASSUME calls \in Seq(CallState) PROVE Ui!RejectPending \in Seq(CallState)
<1>1. \A id \in DOMAIN calls : calls[id] \in CallState
  OBVIOUS
<1>2. \A id \in DOMAIN calls : [calls[id] EXCEPT !.is = "rejected"] \in CallState
  BY <1>1 DEF CallState
<1>3. DOMAIN calls = 1..Len(calls) /\ Len(calls) \in Nat
  OBVIOUS
<1>4. Ui!RejectPending \in [1..Len(calls) -> CallState]
  BY <1>1, <1>2, <1>3 DEF Ui!RejectPending
<1> QED
  BY <1>3, <1>4

LEMMA CloseKeeps ==
  ASSUME UiInv, Ui!close, owns, owns' = owns, mounted' = FALSE, slip' = slip
  PROVE  UiInv'
<1>1. UiTypes /\ (closedByUser => owns) /\ Tidy /\ HeldIsUp /\ Ui!HelloComesFirst
  BY DEF UiInv
<1> USE DEF Ui!close
<1>2. /\ sockets \in Seq(SocketState) /\ socket \in DOMAIN sockets \cup {None}
      /\ timers \subseteq DOMAIN sockets /\ calls \in Seq(CallState)
      /\ owns \in BOOLEAN /\ slip \in BOOLEAN
  BY <1>1 DEF UiTypes
<1>3. closedByUser' = TRUE /\ socket' = None /\ timers' = timers \ {reconnectTimer}
  OBVIOUS
<1>4. /\ sockets' \in Seq(SocketState) /\ DOMAIN sockets' = DOMAIN sockets
      /\ \A g \in DOMAIN sockets :
           /\ sockets'[g].sent = sockets[g].sent
           /\ sockets'[g].readyState = IF g = socket THEN "closing" ELSE sockets[g].readyState
  <2>1. None \notin DOMAIN sockets
    BY <1>2, BothEndsAssumption DEF Ui!UiSocketConstants
  <2>2. CASE socket = None
    BY <1>2, <2>1, <2>2
  <2>3. CASE socket # None
    <3>1. socket \in DOMAIN sockets /\ sockets[socket] \in SocketState
      BY <1>2, <2>3
    <3>2. [sockets[socket] EXCEPT !.readyState = "closing"] \in SocketState
      BY <3>1 DEF SocketState
    <3>3. sockets' = [sockets EXCEPT ![socket] = [@ EXCEPT !.readyState = "closing"]]
      BY <2>3
    <3>4. sockets' \in Seq(SocketState) /\ DOMAIN sockets' = DOMAIN sockets
      BY <1>2, <3>1, <3>2, <3>3
    <3>5. \A g \in DOMAIN sockets : sockets[g] \in SocketState
      BY <1>2
    <3> QED
      BY <1>2, <3>1, <3>3, <3>4, <3>5 DEF SocketState
  <2> QED
    BY <2>2, <2>3
<1>5. calls' \in Seq(CallState)
  BY <1>2, RejectPendingType
<1>6. UiTypes'
  BY <1>2, <1>3, <1>4, <1>5 DEF UiTypes
<1>7. Tidy'
  <2> SUFFICES ASSUME ~slip
               PROVE  OneUp' /\ UsableIsHeld' /\ NoUsable' /\ timers' = {}
    BY <1>2, <1>3 DEF Tidy
  <2>1. OneUp /\ UsableIsHeld /\ timers \subseteq {reconnectTimer}
    BY <1>1 DEF Tidy
  <2>2. NoUsable'
    BY <1>4, <2>1 DEF UsableIsHeld, NoUsable, Ui!Usable
  <2>3. UsableIsHeld'
    BY <2>2 DEF UsableIsHeld, NoUsable
  <2>4. OneUp'
    <3>1. \A g \in DOMAIN sockets : g = socket => Up(sockets, g)
      BY <1>1, <1>2, BothEndsAssumption DEF HeldIsUp, Ui!UiSocketConstants
    <3> QED
      BY <1>4, <2>1, <3>1 DEF OneUp, Up
  <2> QED
    BY <1>3, <2>1, <2>2, <2>3, <2>4
<1>8. HeldIsUp' /\ Ui!HelloComesFirst'
  BY <1>1, <1>3, <1>4 DEF HeldIsUp, Up, Ui!HelloComesFirst, Ui!Made
<1> QED
  BY <1>3, <1>6, <1>7, <1>8 DEF UiInv

\* Steps that leave the client's own fields alone and bring no socket up.
LEMMA TidyStays ==
  ASSUME Tidy, UNCHANGED <<owns, mounted, socket, timers, reconnectTimer, closedByUser, slip>>,
         DOMAIN sockets' = DOMAIN sockets, sockets = <<>> => sockets' = <<>>,
         \A g \in DOMAIN sockets :
           /\ Up(sockets', g) => Up(sockets, g)
           /\ Ui!Usable(g)' => Ui!Usable(g)
  PROVE  Tidy'
<1> SUFFICES ASSUME ~slip PROVE Tidy'
  BY DEF Tidy
<1>1. OneUp' /\ UsableIsHeld'
  BY DEF Tidy, OneUp, UsableIsHeld
<1>2. NoUsable => NoUsable'
  BY DEF NoUsable
<1>3. NoneUp => NoneUp'
  BY DEF NoneUp
<1> QED
  BY <1>1, <1>2, <1>3 DEF Tidy

\* What a call does to the calls cs and the sockets ss.
LEMMA SendingSends ==
  ASSUME NEW ss \in Seq(SocketState), NEW cs \in Seq(CallState),
         socket \in DOMAIN ss \cup {None}, Ui!Sending(cs, ss)
  PROVE  /\ sockets' \in Seq(SocketState) /\ DOMAIN sockets' = DOMAIN ss
         /\ calls' \in Seq(CallState)
         /\ \A g \in DOMAIN ss :
              /\ sockets'[g].readyState = ss[g].readyState
              /\ sockets'[g].sent = IF g = socket /\ ss[g].readyState = "open"
                                    THEN Append(ss[g].sent, Len(cs) + 1) ELSE ss[g].sent
<1> USE DEF Ui!Sending
<1>0. None \notin DOMAIN ss /\ None \notin Nat /\ DOMAIN ss \subseteq Nat
  BY BothEndsAssumption DEF Ui!UiSocketConstants
<1>1. CASE socket # None /\ ss[socket].readyState = "open"
  <2>1. socket \in DOMAIN ss /\ ss[socket] \in SocketState
    BY <1>1
  <2>2. Ui!Asked(socket) \in CallState
    BY <1>0, <2>1 DEF CallState, Ui!Asked
  <2>3. calls' \in Seq(CallState)
    <3>1. calls' = Append(cs, Ui!Asked(socket))
      BY <1>1
    <3> QED
      BY <2>2, <3>1
  <2> DEFINE more == Append(ss[socket].sent, Len(cs) + 1)
  <2>4. more \in Seq(Nat)
    BY <2>1 DEF SocketState
  <2>5. sockets' = [ss EXCEPT ![socket] = [@ EXCEPT !.sent = more]]
    BY <1>1
  <2> HIDE DEF more
  <2>6. [ss[socket] EXCEPT !.sent = more] \in SocketState
    BY <2>1, <2>4 DEF SocketState
  <2>7. sockets' \in Seq(SocketState) /\ DOMAIN sockets' = DOMAIN ss
    BY <2>1, <2>5, <2>6
  <2>8. \A g \in DOMAIN ss : ss[g] \in SocketState
    OBVIOUS
  <2>9. \A g \in DOMAIN ss : /\ sockets'[g].readyState = ss[g].readyState
                             /\ sockets'[g].sent = IF g = socket THEN more ELSE ss[g].sent
    BY <2>1, <2>5, <2>8 DEF SocketState
  <2> QED
    BY <1>1, <2>3, <2>7, <2>9 DEF more
<1>2. CASE ~(socket # None /\ ss[socket].readyState = "open")
  <2>1. Ui!Refused \in CallState
    BY DEF CallState, Ui!Refused
  <2>2. calls' = Append(cs, Ui!Refused) /\ sockets' = ss
    BY <1>2
  <2>3. calls' \in Seq(CallState)
    BY <2>1, <2>2
  <2>4. \A g \in DOMAIN ss : ~(g = socket /\ ss[g].readyState = "open")
    BY <1>0, <1>2
  <2> QED
    BY <2>2, <2>3, <2>4
<1> QED
  BY <1>1, <1>2

LEMMA ElementsOf ==
  ASSUME NEW ss \in Seq(SocketState) PROVE \A h \in DOMAIN ss : ss[h] \in SocketState
OBVIOUS

LEMMA SentType ==
  ASSUME NEW ss \in Seq(SocketState), NEW g \in DOMAIN ss
  PROVE  ss[g].sent \in Seq(Nat)
<1>1. ss[g] \in SocketState
  OBVIOUS
<1> QED
  BY <1>1 DEF SocketState

\* What is first in a sequence stays first.
LEMMA AppendsBehind ==
  ASSUME NEW s \in Seq(Nat), s # <<>>, NEW e \in Nat
  PROVE  Append(s, e) # <<>> /\ Append(s, e)[1] = s[1]
<1>1. 1 \in 1..Len(s)
  OBVIOUS
<1> QED
  BY <1>1

LEMMA CallKeeps == UiInv /\ Ui!Call => UiInv'
<1> SUFFICES ASSUME UiInv, Ui!Call PROVE UiInv'
  OBVIOUS
<1>1. UiTypes /\ (closedByUser => owns) /\ Tidy /\ HeldIsUp /\ Ui!HelloComesFirst
  BY DEF UiInv
<1>2. /\ Ui!Sending(calls, sockets)
      /\ UNCHANGED <<owns, mounted, socket, timers, reconnectTimer, closedByUser, slip>>
  BY DEF Ui!Call
<1>3. /\ sockets \in Seq(SocketState) /\ calls \in Seq(CallState)
      /\ socket \in DOMAIN sockets \cup {None}
  BY <1>1 DEF UiTypes
<1>4. /\ sockets' \in Seq(SocketState) /\ DOMAIN sockets' = DOMAIN sockets
      /\ calls' \in Seq(CallState)
      /\ \A g \in DOMAIN sockets :
           /\ sockets'[g].readyState = sockets[g].readyState
           /\ sockets'[g].sent = IF g = socket /\ sockets[g].readyState = "open"
                                 THEN Append(sockets[g].sent, Len(calls) + 1)
                                 ELSE sockets[g].sent
  BY <1>2, <1>3, SendingSends
<1>5. UiTypes'
  BY <1>1, <1>2, <1>4 DEF UiTypes
<1>6. Tidy'
  <2>1. \A g \in DOMAIN sockets : /\ Up(sockets', g) => Up(sockets, g)
                                  /\ Ui!Usable(g)' => Ui!Usable(g)
    BY <1>4 DEF Up, Ui!Usable
  <2>2. sockets = <<>> => sockets' = <<>>
    BY <1>3, <1>4
  <2> QED
    BY <1>1, <1>2, <1>4, <2>1, <2>2, TidyStays
<1>7. None \notin DOMAIN sockets
  BY <1>3, BothEndsAssumption DEF Ui!UiSocketConstants
<1>8. \A g \in DOMAIN sockets : sockets[g].sent \in Seq(Nat)
  BY <1>3, SentType
<1>9. \A g \in DOMAIN sockets :
        g = socket /\ sockets[g].readyState = "open" =>
          sockets'[g].sent # <<>> /\ sockets'[g].sent[1] = sockets[g].sent[1]
  <2> SUFFICES ASSUME NEW g \in DOMAIN sockets, g = socket, sockets[g].readyState = "open"
               PROVE  sockets'[g].sent # <<>> /\ sockets'[g].sent[1] = sockets[g].sent[1]
    OBVIOUS
  <2>1. sockets[g].sent # <<>>
    BY <1>1, <1>7 DEF HeldIsUp
  <2>2. sockets'[g].sent = Append(sockets[g].sent, Len(calls) + 1)
    BY <1>4
  <2>3. Len(calls) + 1 \in Nat
    BY <1>3
  <2> QED
    BY <1>8, <2>1, <2>2, <2>3, AppendsBehind
<1>10. HeldIsUp'
  BY <1>1, <1>2, <1>3, <1>4, <1>9 DEF HeldIsUp, Up
<1>11. Ui!HelloComesFirst'
  <2> SUFFICES ASSUME NEW g \in DOMAIN sockets, sockets'[g].sent # <<>>
               PROVE  sockets'[g].sent[1] = Ui!Hello
    BY <1>4 DEF Ui!HelloComesFirst, Ui!Made
  <2>1. CASE g = socket /\ sockets[g].readyState = "open"
    BY <1>1, <1>7, <1>9, <2>1 DEF Ui!HelloComesFirst, Ui!Made, HeldIsUp
  <2>2. CASE ~(g = socket /\ sockets[g].readyState = "open")
    BY <1>1, <1>4, <2>2 DEF Ui!HelloComesFirst, Ui!Made
  <2> QED
    BY <2>1, <2>2
<1> QED
  BY <1>1, <1>2, <1>5, <1>6, <1>10, <1>11 DEF UiInv

\* Steps that send nothing and bring no socket up, on the client's side.
LEMMA SocketsKeep ==
  ASSUME UiInv, UNCHANGED <<owns, mounted, socket, timers, reconnectTimer, closedByUser, slip>>,
         sockets' \in Seq(SocketState), calls' \in Seq(CallState),
         DOMAIN sockets' = DOMAIN sockets,
         \A g \in DOMAIN sockets :
           /\ sockets'[g].sent = sockets[g].sent
           /\ sockets'[g].readyState # "open" \/ sockets'[g].readyState = sockets[g].readyState
           /\ sockets'[g].readyState # "connecting" \/ sockets'[g].readyState = sockets[g].readyState
           /\ sockets'[g].readyState # "closed" <=> sockets[g].readyState # "closed"
  PROVE  UiInv'
<1>1. UiTypes /\ (closedByUser => owns) /\ Tidy /\ HeldIsUp /\ Ui!HelloComesFirst
  BY DEF UiInv
<1>2. UiTypes'
  BY <1>1 DEF UiTypes
<1>3. Tidy'
  <2>1. \A g \in DOMAIN sockets : /\ Up(sockets', g) => Up(sockets, g)
                                  /\ Ui!Usable(g)' => Ui!Usable(g)
    BY DEF Up, Ui!Usable
  <2>2. sockets = <<>> => sockets' = <<>>
    BY <1>1 DEF UiTypes
  <2> QED
    BY <1>1, <2>1, <2>2, TidyStays
<1>4. HeldIsUp' /\ Ui!HelloComesFirst'
  BY <1>1 DEF UiTypes, HeldIsUp, Up, Ui!HelloComesFirst, Ui!Made
<1> QED
  BY <1>1, <1>2, <1>3, <1>4 DEF UiInv

LEMMA EngineClosesKeeps ==
  ASSUME UiInv, NEW g \in DOMAIN sockets, Ui!EngineCloses(g) PROVE UiInv'
<1>1. sockets \in Seq(SocketState) /\ calls \in Seq(CallState)
  BY DEF UiInv, UiTypes
<1>2. \A h \in DOMAIN sockets : sockets[h] \in SocketState
  BY <1>1
<1>3. [sockets[g] EXCEPT !.readyState = "closing"] \in SocketState
  BY <1>2 DEF SocketState
<1>4. /\ sockets[g].readyState = "open"
      /\ sockets' = [sockets EXCEPT ![g] = [@ EXCEPT !.readyState = "closing"]]
      /\ UNCHANGED <<owns, mounted, socket, timers, reconnectTimer, closedByUser, calls, slip>>
  BY DEF Ui!EngineCloses
<1>5. sockets' \in Seq(SocketState) /\ DOMAIN sockets' = DOMAIN sockets
  BY <1>1, <1>3, <1>4
<1>6. \A h \in DOMAIN sockets :
        /\ sockets'[h].sent = sockets[h].sent
        /\ sockets'[h].readyState = IF h = g THEN "closing" ELSE sockets[h].readyState
  BY <1>2, <1>4 DEF SocketState
<1> QED
  BY <1>1, <1>4, <1>5, <1>6, SocketsKeep

LEMMA AnswersKeeps ==
  ASSUME UiInv, NEW g, NEW id \in DOMAIN calls, Ui!Answers(g, id) PROVE UiInv'
<1>1. sockets \in Seq(SocketState) /\ calls \in Seq(CallState)
  BY DEF UiInv, UiTypes
<1>2. PICK how \in {"resolved", "rejected"} : calls' = [calls EXCEPT ![id].is = how]
  BY DEF Ui!Answers, Ui!Settled
<1>3. calls' = [calls EXCEPT ![id] = [@ EXCEPT !.is = how]]
  BY <1>2
<1>4. [calls[id] EXCEPT !.is = how] \in CallState
  <2>1. calls[id] \in CallState
    BY <1>1
  <2> QED
    BY <2>1 DEF CallState
<1>5. calls' \in Seq(CallState)
  BY <1>1, <1>3, <1>4
<1> QED
  BY <1>1, <1>5, SocketsKeep DEF Ui!Answers

\* What a socket's opening does to the sockets ss: hello is ahead of the call.
LEMMA OpenSends ==
  ASSUME NEW ss \in Seq(SocketState), calls \in Seq(CallState),
         socket \in DOMAIN ss \cup {None}, Ui!handleOpen(ss)
  PROVE  /\ sockets' \in Seq(SocketState) /\ DOMAIN sockets' = DOMAIN ss
         /\ calls' \in Seq(CallState)
         /\ \A h \in DOMAIN ss :
              /\ sockets'[h].readyState = ss[h].readyState
              /\ h = socket /\ ss[h].readyState = "open" =>
                   /\ sockets'[h].sent # <<>>
                   /\ sockets'[h].sent[1] = IF ss[h].sent = <<>> THEN Ui!Hello ELSE ss[h].sent[1]
              /\ ~(h = socket /\ ss[h].readyState = "open") => sockets'[h].sent = ss[h].sent
<1>0. None \notin DOMAIN ss /\ None \notin Nat /\ DOMAIN ss \subseteq Nat
  BY BothEndsAssumption DEF Ui!UiSocketConstants
<1>1. Ui!Asked(None) \in CallState /\ Ui!Refused \in CallState
  BY DEF Ui!Asked, Ui!Refused, CallState
<1>2. \A cs \in Seq(CallState) : Append(cs, Ui!Asked(None)) \in Seq(CallState)
  BY <1>1
<1>3. CASE socket = None
  <2>1. calls' = calls \o <<Ui!Asked(None), Ui!Refused>> /\ sockets' = ss
    BY <1>3 DEF Ui!handleOpen
  <2>2. <<Ui!Asked(None), Ui!Refused>> \in Seq(CallState)
    BY <1>1
  <2>3. calls' \in Seq(CallState)
    BY <2>1, <2>2
  <2> QED
    BY <1>0, <1>3, <2>1, <2>3
<1>4. CASE socket # None /\ ss[socket].readyState = "connecting"
  <2>1. calls' = Append(calls, Ui!Asked(None)) /\ sockets' = ss
    BY <1>4 DEF Ui!handleOpen
  <2> QED
    BY <1>2, <1>4, <2>1
<1>5. CASE socket # None /\ ss[socket].readyState # "connecting"
  <2>1. socket \in DOMAIN ss /\ ss[socket] \in SocketState
    BY <1>5
  <2>2. Append(calls, Ui!Asked(socket)) \in Seq(CallState)
    <3>1. Ui!Asked(socket) \in CallState
      BY <1>0, <2>1 DEF Ui!Asked, CallState
    <3> QED
      BY <3>1
  <2>3. CASE ss[socket].readyState = "open"
    <3> DEFINE more == Append(ss[socket].sent, Ui!Hello)
               hello == [ss EXCEPT ![socket] = [@ EXCEPT !.sent = more]]
    <3>1. ss[socket].sent \in Seq(Nat)
      BY <2>1, SentType
    <3>2. more \in Seq(Nat) /\ more # <<>>
          /\ more[1] = IF ss[socket].sent = <<>> THEN Ui!Hello ELSE ss[socket].sent[1]
      <4>1. Ui!Hello \in Nat
        BY DEF Ui!Hello
      <4>2. CASE ss[socket].sent = <<>>
        BY <4>1, <4>2
      <4>3. CASE ss[socket].sent # <<>>
        <5>1. more # <<>> /\ more[1] = ss[socket].sent[1]
          BY <3>1, <4>1, <4>3, AppendsBehind
        <5> QED
          BY <3>1, <4>1, <4>3, <5>1
      <4> QED
        BY <4>2, <4>3
    <3>3. Ui!Sending(Append(calls, Ui!Asked(socket)), hello)
      BY <1>5, <2>3 DEF Ui!handleOpen
    <3> HIDE DEF more
    <3>4. [ss[socket] EXCEPT !.sent = more] \in SocketState
      BY <2>1, <3>2 DEF SocketState
    <3>5. hello \in Seq(SocketState) /\ DOMAIN hello = DOMAIN ss
      BY <2>1, <3>4
    <3>6. \A h \in DOMAIN ss : /\ hello[h].readyState = ss[h].readyState
                              /\ hello[h].sent = IF h = socket THEN more ELSE ss[h].sent
      BY <2>1, ElementsOf DEF SocketState
    <3> HIDE DEF hello
    <3> DEFINE cs == Append(calls, Ui!Asked(socket))
    <3>7. cs \in Seq(CallState)
      BY <2>2
    <3> HIDE DEF cs
    <3>8. Ui!Sending(cs, hello)
      BY <3>3 DEF cs
    <3>9. /\ sockets' \in Seq(SocketState) /\ DOMAIN sockets' = DOMAIN hello
          /\ calls' \in Seq(CallState)
          /\ \A g \in DOMAIN hello :
               /\ sockets'[g].readyState = hello[g].readyState
               /\ sockets'[g].sent = IF g = socket /\ hello[g].readyState = "open"
                                     THEN Append(hello[g].sent, Len(cs) + 1) ELSE hello[g].sent
      BY <2>1, <3>5, <3>7, <3>8, SendingSends
    <3>10. sockets'[socket].sent = Append(more, Len(cs) + 1)
      BY <2>1, <2>3, <3>5, <3>6, <3>9
    <3>11. sockets'[socket].sent # <<>> /\ sockets'[socket].sent[1] = more[1]
      BY <3>2, <3>7, <3>10, AppendsBehind
    <3> QED
      BY <2>1, <2>3, <3>2, <3>5, <3>6, <3>9, <3>11
  <2>4. CASE ss[socket].readyState # "open"
    <3>1. Ui!Sending(Append(calls, Ui!Asked(socket)), ss)
      BY <1>5, <2>4 DEF Ui!handleOpen
    <3> DEFINE cs == Append(calls, Ui!Asked(socket))
    <3>2. cs \in Seq(CallState)
      BY <2>2
    <3> HIDE DEF cs
    <3>3. Ui!Sending(cs, ss)
      BY <3>1 DEF cs
    <3> QED
      BY <2>1, <2>4, <3>2, <3>3, SendingSends
  <2> QED
    BY <2>3, <2>4
<1> QED
  BY <1>3, <1>4, <1>5

LEMMA OpensKeeps ==
  ASSUME UiInv, NEW g \in DOMAIN sockets, Ui!Opens(g) PROVE UiInv'
<1>1. UiTypes /\ (closedByUser => owns) /\ Tidy /\ HeldIsUp /\ Ui!HelloComesFirst
  BY DEF UiInv
<1>2. /\ sockets \in Seq(SocketState) /\ calls \in Seq(CallState)
      /\ socket \in DOMAIN sockets \cup {None}
  BY <1>1 DEF UiTypes
<1> DEFINE ss == [sockets EXCEPT ![g] = [@ EXCEPT !.readyState = "open"]]
<1>3. /\ sockets[g].readyState = "connecting" /\ Ui!handleOpen(ss)
      /\ UNCHANGED <<owns, mounted, socket, timers, reconnectTimer, closedByUser, slip>>
  BY DEF Ui!Opens
<1>4. [sockets[g] EXCEPT !.readyState = "open"] \in SocketState
  BY <1>2, ElementsOf DEF SocketState
<1>5. ss \in Seq(SocketState) /\ DOMAIN ss = DOMAIN sockets
  BY <1>2, <1>4
<1>6. \A h \in DOMAIN sockets :
        /\ ss[h].sent = sockets[h].sent
        /\ ss[h].readyState = IF h = g THEN "open" ELSE sockets[h].readyState
  BY <1>2, ElementsOf DEF SocketState
<1> HIDE DEF ss
<1>7. /\ sockets' \in Seq(SocketState) /\ DOMAIN sockets' = DOMAIN ss
      /\ calls' \in Seq(CallState)
      /\ \A h \in DOMAIN ss :
           /\ sockets'[h].readyState = ss[h].readyState
           /\ h = socket /\ ss[h].readyState = "open" =>
                /\ sockets'[h].sent # <<>>
                /\ sockets'[h].sent[1] = IF ss[h].sent = <<>> THEN Ui!Hello ELSE ss[h].sent[1]
           /\ ~(h = socket /\ ss[h].readyState = "open") => sockets'[h].sent = ss[h].sent
  BY <1>2, <1>3, <1>5, OpenSends
<1>8. UiTypes'
  BY <1>1, <1>3, <1>5, <1>7 DEF UiTypes
<1>9. Tidy'
  <2>1. \A h \in DOMAIN sockets : /\ Up(sockets', h) => Up(sockets, h)
                                  /\ Ui!Usable(h)' => Ui!Usable(h)
    BY <1>3, <1>5, <1>6, <1>7 DEF Up, Ui!Usable
  <2>2. sockets = <<>> => sockets' = <<>>
    BY <1>2, <1>5, <1>7
  <2> QED
    BY <1>1, <1>3, <1>5, <1>7, <2>1, <2>2, TidyStays
<1>10. HeldIsUp'
  BY <1>1, <1>2, <1>3, <1>5, <1>6, <1>7 DEF HeldIsUp, Up
<1>11. Ui!HelloComesFirst'
  BY <1>1, <1>5, <1>6, <1>7 DEF Ui!HelloComesFirst, Ui!Made
<1> QED
  BY <1>1, <1>3, <1>8, <1>9, <1>10, <1>11 DEF UiInv

LEMMA ClosedKeeps ==
  ASSUME UiInv, NEW g \in DOMAIN sockets, Ui!Closed(g) PROVE UiInv'
<1>1. UiTypes /\ (closedByUser => owns) /\ Tidy /\ HeldIsUp /\ Ui!HelloComesFirst
  BY DEF UiInv
<1>2. /\ sockets \in Seq(SocketState) /\ calls \in Seq(CallState)
      /\ timers \subseteq DOMAIN sockets /\ slip \in BOOLEAN /\ closedByUser \in BOOLEAN
  BY <1>1 DEF UiTypes
<1>3. /\ sockets[g].readyState # "closed" /\ socket' = None /\ calls' = Ui!RejectPending
      /\ sockets' = [sockets EXCEPT ![g] = [@ EXCEPT !.readyState = "closed"]]
      /\ UNCHANGED <<owns, mounted, closedByUser, slip>>
  BY DEF Ui!Closed
<1>4. IF closedByUser THEN UNCHANGED <<timers, reconnectTimer>>
      ELSE timers' = timers \cup {g} /\ reconnectTimer' = g
  BY DEF Ui!Closed
<1>5. [sockets[g] EXCEPT !.readyState = "closed"] \in SocketState
  BY <1>2, ElementsOf DEF SocketState
<1>6. sockets' \in Seq(SocketState) /\ DOMAIN sockets' = DOMAIN sockets
  BY <1>2, <1>3, <1>5
<1>7. \A h \in DOMAIN sockets :
        /\ sockets'[h].sent = sockets[h].sent
        /\ sockets'[h].readyState = IF h = g THEN "closed" ELSE sockets[h].readyState
  BY <1>2, <1>3, ElementsOf DEF SocketState
<1>8. calls' \in Seq(CallState)
  BY <1>2, <1>3, RejectPendingType
<1>9. UiTypes'
  BY <1>1, <1>3, <1>4, <1>6, <1>8 DEF UiTypes
<1>10. Tidy'
  <2> SUFFICES ASSUME ~slip PROVE Tidy'
    BY <1>3 DEF Tidy
  <2>1. \A h \in DOMAIN sockets : h # g => ~Up(sockets, h)
    BY <1>1, <1>3 DEF Tidy, OneUp, Up
  <2>2. NoneUp'
    BY <1>6, <1>7, <2>1 DEF NoneUp, Up
  <2>3. NoUsable' /\ UsableIsHeld' /\ OneUp'
    BY <2>2 DEF NoUsable, UsableIsHeld, OneUp, NoneUp, Up, Ui!Usable
  <2>4. owns => timers' \subseteq {reconnectTimer'}
    <3>1. CASE closedByUser
      BY <1>1, <1>4, <3>1 DEF Tidy
    <3>2. CASE ~closedByUser
      <4>1. owns => timers = {}
        BY <1>1, <1>3 DEF Tidy, NoneUp, Up
      <4> QED
        BY <1>4, <3>2, <4>1
    <3> QED
      BY <3>1, <3>2
  <2>5. closedByUser => timers' = {}
    BY <1>1, <1>4 DEF Tidy
  <2>6. owns /\ ~mounted => closedByUser
    <3>1. sockets # <<>>
      OBVIOUS
    <3> QED
      BY <1>1, <3>1 DEF Tidy
  <2> QED
    BY <1>3, <2>2, <2>3, <2>4, <2>5, <2>6 DEF Tidy
<1>11. HeldIsUp' /\ Ui!HelloComesFirst'
  BY <1>1, <1>3, <1>6, <1>7 DEF HeldIsUp, Ui!HelloComesFirst, Ui!Made
<1> QED
  BY <1>1, <1>3, <1>9, <1>10, <1>11 DEF UiInv

LEMMA ComponentKeeps ==
  ASSUME UiInv,
         \/ Ui!Mount \/ Ui!Unmount \/ Ui!reconnectNow
         \/ \E t \in timers : Ui!ReconnectTimer(t)
  PROVE  UiInv'
<1>1. UiTypes /\ (closedByUser => owns) /\ Tidy /\ HeldIsUp /\ Ui!HelloComesFirst
  BY DEF UiInv
<1>2. /\ owns \in BOOLEAN /\ mounted \in BOOLEAN /\ slip \in BOOLEAN
      /\ timers \subseteq DOMAIN sockets
  BY <1>1 DEF UiTypes
<1>3. CASE Ui!Mount
  <2>1. /\ ~mounted /\ mounted' = TRUE /\ Ui!connect
        /\ owns' = owns /\ timers' = timers /\ calls' = calls
    BY <1>3 DEF Ui!Mount
  <2>2. ~slip /\ owns => timers = {}
    BY <1>1, <1>2, <2>1 DEF Tidy
  <2> QED
    BY <2>1, <2>2, ConnectKeeps
<1>4. CASE Ui!reconnectNow
  <2>1. /\ mounted /\ mounted' = mounted /\ Ui!connect
        /\ timers' = timers \ {reconnectTimer} /\ owns' = owns /\ calls' = calls
    BY <1>4 DEF Ui!reconnectNow
  <2>2. ~slip /\ owns => timers' = {}
    BY <1>1, <2>1 DEF Tidy
  <2>3. mounted' = TRUE
    BY <1>2, <2>1
  <2> QED
    BY <2>1, <2>2, <2>3, ConnectKeeps
<1>5. ASSUME NEW t \in timers, Ui!ReconnectTimer(t) PROVE UiInv'
  <2>1. /\ mounted' = mounted /\ Ui!connect /\ timers' = timers \ {t}
        /\ owns' = owns /\ calls' = calls
    BY <1>5 DEF Ui!ReconnectTimer
  <2>2. ~slip /\ owns => timers' = {}
    BY <1>1, <2>1 DEF Tidy
  <2> QED
    BY <1>2, <2>1, <2>2, ConnectKeeps
<1>6. CASE Ui!Unmount
  <2>1. mounted /\ mounted' = FALSE /\ owns' = owns /\ slip' = slip
    BY <1>6 DEF Ui!Unmount
  <2>2. CASE owns
    BY <1>6, <2>1, <2>2, CloseKeeps DEF Ui!Unmount
  <2>3. CASE ~owns
    <3>1. UNCHANGED <<socket, sockets, timers, reconnectTimer, closedByUser, calls>>
      BY <1>6, <2>3 DEF Ui!Unmount
    <3>2. UiTypes' /\ HeldIsUp' /\ Ui!HelloComesFirst'
      BY <1>1, <2>1, <3>1 DEF UiTypes, HeldIsUp, Up, Ui!HelloComesFirst, Ui!Made
    <3>3. Tidy'
      <4>1. OneUp' = OneUp /\ UsableIsHeld' = UsableIsHeld
        BY <3>1 DEF OneUp, UsableIsHeld, Up, Ui!Usable
      <4>2. ~closedByUser
        BY <1>1, <2>3
      <4> QED
        BY <1>1, <2>1, <2>3, <3>1, <4>1, <4>2 DEF Tidy
    <3> QED
      BY <1>1, <2>1, <2>3, <3>1, <3>2, <3>3 DEF UiInv
  <2> QED
    BY <2>2, <2>3
<1> QED
  BY <1>3, <1>4, <1>5, <1>6

LEMMA UiStepKeeps == UiInv /\ [Ui!Next]_(Ui!ui_vars) => UiInv'
<1> SUFFICES ASSUME UiInv, [Ui!Next]_(Ui!ui_vars) PROVE UiInv'
  OBVIOUS
<1>1. CASE UNCHANGED Ui!ui_vars
  BY <1>1 DEF Ui!ui_vars, UiInv, UiTypes, Tidy, OneUp, UsableIsHeld, NoUsable, NoneUp, Up,
              Ui!Usable, HeldIsUp, Ui!HelloComesFirst, Ui!Made
<1>2. CASE Ui!Mount \/ Ui!Unmount \/ Ui!reconnectNow \/ \E t \in timers : Ui!ReconnectTimer(t)
  BY <1>2, ComponentKeeps
<1>3. CASE Ui!Call
  BY <1>3, CallKeeps
<1>4. ASSUME NEW g \in Ui!Made, Ui!Opens(g) \/ Ui!EngineCloses(g) \/ Ui!Closed(g) PROVE UiInv'
  BY <1>4, OpensKeeps, EngineClosesKeeps, ClosedKeeps DEF Ui!Made
<1>5. ASSUME NEW g \in Ui!Made, NEW id \in DOMAIN calls, Ui!Answers(g, id) PROVE UiInv'
  BY <1>5, AnswersKeeps
<1> QED
  BY <1>1, <1>2, <1>3, <1>4, <1>5 DEF Ui!Next

LEMMA UiHolds == UiInv => SocketHolds
<1> SUFFICES ASSUME UiInv PROVE SocketHolds
  OBVIOUS
<1>1. Tidy /\ Ui!HelloComesFirst /\ sockets \in Seq(SocketState)
  BY DEF UiInv, UiTypes
<1>2. Ui!ClosedStaysClosed
  BY <1>1 DEF Tidy, NoUsable, Ui!ClosedStaysClosed, Ui!Made
<1>3. Ui!SecondSocketOnlyBySlip
  <2> SUFFICES ASSUME ~slip PROVE Ui!SecondSocketOnlyBySlip
    BY DEF Ui!SecondSocketOnlyBySlip
  <2> DEFINE S == {g \in Ui!Made : Ui!Usable(g)}
  <2>1. \A g \in Ui!Made : Ui!Usable(g) => socket = g
    BY <1>1 DEF Tidy, UsableIsHeld, Ui!Made
  <2>2. S = {} \/ S = {socket}
    BY <2>1
  <2> HIDE DEF S
  <2>3. Cardinality(S) <= 1
    <3>1. CASE S = {}
      BY <3>1, FS_EmptySet
    <3>2. CASE S = {socket}
      <4>1. Cardinality({socket}) = 1
        BY FS_Singleton
      <4> QED
        BY <3>2, <4>1
    <3> QED
      BY <2>2, <3>1, <3>2
  <2>4. Ui!Cardinality(S) = Cardinality(S)
    BY DEF Ui!Cardinality, Cardinality
  <2> QED
    BY <2>1, <2>3, <2>4 DEF S, Ui!SecondSocketOnlyBySlip
<1> QED
  BY <1>1, <1>2, <1>3 DEF SocketHolds

(* Whatever its timers, its component and the engine do, the client of the *)
(* user interface keeps to one socket and to being closed unless it slips, *)
(* and says hello first (ui/src/ws/client.ts).                             *)
THEOREM SocketCorrect == Ui!Spec => []SocketHolds
<1> QED
  BY UiInitHolds, UiStepKeeps, UiHolds, PTL DEF Ui!Spec

-----------------------------------------------------------------------------
(* The plans of the co-pilot (CoPilot).                                    *)

CallOf == [plan : Nat, n : Nat]
PlanState ==
  [by : Decks \cup {"proposer"}, next : Nat \ {0},
   step : {"start", "send", "wait", "cancelled", "done", "failed"}, from : Tracks \cup {None}]
DeckState ==
  [enabled : BOOLEAN, status : {"idle", "armed", "transitioning", "done"},
   track : Tracks \cup {None}, task : Nat \cup {None}]
Frame == [type : {"answer"}, plan : Nat, n : Nat] \cup [type : {"state"}, state : Co!States]

CoTypes ==
  /\ plan \in Seq(PlanState) /\ auto \in [Decks -> DeckState]
  /\ taken \in Seq(CallOf) /\ to_engine \in Seq(CallOf) /\ pending \in Seq(CallOf)
  /\ from_engine \in Seq(Frame)
  /\ crossed \in [Decks -> BOOLEAN] /\ stacked \in [Decks -> BOOLEAN]

Unsent(p) == plan[p].step \in {"start", "send"}

\* The engine has the events before a plan's next one, which may be sent once.
TakenIsBehind ==
  \A i \in DOMAIN taken :
    LET p == taken[i].plan IN
      /\ p \in DOMAIN plan /\ taken[i].n <= plan[p].next
      /\ Unsent(p) => taken[i].n < plan[p].next

LastIsTaken ==
  \A p \in DOMAIN plan : plan[p].next # 1 => [plan |-> p, n |-> plan[p].next - 1] \in Co!ToSet(taken)

OnTheWay ==
  \A k \in DOMAIN to_engine :
    LET p == to_engine[k].plan IN
      /\ p \in DOMAIN plan /\ ~Unsent(p) /\ to_engine[k].n = plan[p].next
      /\ \A i \in DOMAIN taken : taken[i].plan = p => taken[i].n < to_engine[k].n
      /\ \A l \in DOMAIN to_engine : to_engine[l].plan = p => l = k

AnswersAreTaken ==
  \A k \in DOMAIN from_engine :
    from_engine[k].type = "answer" =>
      [plan |-> from_engine[k].plan, n |-> from_engine[k].n] \in Co!ToSet(taken)

OneCallWaits ==
  \A k \in DOMAIN pending :
    LET p == pending[k].plan IN
      /\ p \in DOMAIN plan /\ plan[p].step \in {"wait", "cancelled"}
      /\ pending[k].n = plan[p].next
      /\ \A l \in DOMAIN pending : pending[l].plan = p => l = k

OneMix(d) ==
  ~crossed[d] =>
    \A p \in Co!Mixes(d) :
      /\ auto[d].status \in {"armed", "transitioning"} /\ auto[d].track = plan[p].from
      /\ auto[d].task \in {None, p}
      /\ \A q \in Co!Mixes(d) : q = p

OneTask(d) ==
  /\ auto[d].task \in DOMAIN plan \cup {None}
  /\ ~stacked[d] =>
       /\ \A p, q \in Co!Tasks(d) : p = q
       /\ \A p \in Co!Mixes(d) : auto[d].task = p /\ auto[d].enabled

InOrder ==
  /\ TakenIsBehind /\ LastIsTaken /\ OnTheWay /\ AnswersAreTaken /\ OneCallWaits
  /\ Co!PlansArriveWithoutGaps

CoInv == CoTypes /\ InOrder /\ \A d \in Decks : OneMix(d) /\ OneTask(d)

LEMMA CoConstants ==
  /\ None \notin Decks /\ None \notin Tracks /\ None \notin Nat /\ "proposer" \notin Decks
  /\ PlanLength \in Nat \ {0} /\ IsFiniteSet(Decks)
BY BothEndsAssumption DEF Co!CoPilotConstants, Co!IsFiniteSet, IsFiniteSet

LEMMA CoInitHolds == Co!Init => CoInv
<1> SUFFICES ASSUME Co!Init PROVE CoInv
  OBVIOUS
<1> USE DEF Co!Init
<1>1. /\ plan = <<>> /\ taken = <<>> /\ to_engine = <<>> /\ pending = <<>> /\ from_engine = <<>>
  OBVIOUS
<1>2. CoTypes
  <2>1. Co!Fresh \in DeckState
    BY DEF Co!Fresh, DeckState
  <2>2. auto \in [Decks -> DeckState]
    BY <2>1
  <2>3. crossed \in [Decks -> BOOLEAN] /\ stacked \in [Decks -> BOOLEAN]
    OBVIOUS
  <2> QED
    BY <1>1, <2>2, <2>3 DEF CoTypes
<1>3. InOrder
  BY <1>1 DEF InOrder, TakenIsBehind, LastIsTaken, OnTheWay, AnswersAreTaken, OneCallWaits,
              Co!PlansArriveWithoutGaps
<1>4. \A d \in Decks : OneMix(d) /\ OneTask(d)
  <2>1. \A d \in Decks : Co!Tasks(d) = {} /\ Co!Mixes(d) = {}
    BY <1>1 DEF Co!Tasks, Co!Mixes, Co!Plans
  <2>2. \A d \in Decks : auto[d].task = None
    BY DEF Co!Fresh
  <2> QED
    BY <2>1, <2>2 DEF OneMix, OneTask
<1> QED
  BY <1>2, <1>3, <1>4 DEF CoInv

-----------------------------------------------------------------------------
(* Helpers of the model. *)

\* A plan's only call leaves the pending ones, the others stay.
LEMMA WithoutDrops ==
  ASSUME CoTypes, OneCallWaits, NEW p \in DOMAIN plan
  PROVE  /\ Co!Without(p) \in Seq(CallOf)
         /\ \A k \in DOMAIN Co!Without(p) :
              /\ Co!Without(p)[k].plan # p
              /\ \E i \in DOMAIN pending : Co!Without(p)[k] = pending[i]
         /\ \A k, l \in DOMAIN Co!Without(p) :
              Co!Without(p)[k].plan = Co!Without(p)[l].plan => k = l
<1> DEFINE at == {i \in DOMAIN pending : pending[i].plan = p}
<1>1. pending \in Seq(CallOf)
  BY DEF CoTypes
<1>2. \A k, l \in DOMAIN pending : pending[k].plan = pending[l].plan => k = l
  BY DEF OneCallWaits
<1>3. CASE at = {}
  <2>1. Co!Without(p) = pending
    BY <1>3 DEF Co!Without
  <2> QED
    BY <1>1, <1>2, <1>3, <2>1
<1>4. CASE at # {}
  <2>1. PICK i \in at : Co!Without(p) = Co!RemoveAt(pending, i)
    BY <1>4 DEF Co!Without
  <2>2. i \in 1..Len(pending) /\ pending[i].plan = p /\ Len(pending) \in Nat
    BY <1>1
  <2> HIDE DEF at
  <2> DEFINE W == SubSeq(pending, 1, i - 1) \o SubSeq(pending, i + 1, Len(pending))
  <2>3. /\ SubSeq(pending, 1, i - 1) \in Seq(CallOf) /\ Len(SubSeq(pending, 1, i - 1)) = i - 1
        /\ \A k \in 1..i - 1 : SubSeq(pending, 1, i - 1)[k] = pending[k]
    BY <1>1, <2>2
  <2>4. /\ SubSeq(pending, i + 1, Len(pending)) \in Seq(CallOf)
        /\ Len(SubSeq(pending, i + 1, Len(pending))) = Len(pending) - i
        /\ \A k \in 1..Len(pending) - i : SubSeq(pending, i + 1, Len(pending))[k] = pending[i + k]
    BY <1>1, <2>2
  <2>5. /\ W \in Seq(CallOf) /\ Len(W) = Len(pending) - 1
        /\ \A k \in 1..Len(pending) - 1 : W[k] = pending[IF k < i THEN k ELSE k + 1]
    <3> DEFINE a == SubSeq(pending, 1, i - 1)
               b == SubSeq(pending, i + 1, Len(pending))
    <3>1. a \in Seq(CallOf) /\ b \in Seq(CallOf) /\ Len(a) = i - 1 /\ Len(b) = Len(pending) - i
      BY <2>3, <2>4
    <3>2. /\ \A k \in 1..i - 1 : a[k] = pending[k]
          /\ \A k \in 1..Len(pending) - i : b[k] = pending[i + k]
      BY <2>3, <2>4
    <3> HIDE DEF a, b
    <3>3. /\ a \o b \in Seq(CallOf) /\ Len(a \o b) = Len(pending) - 1
          /\ \A k \in 1..Len(pending) - 1 :
               (a \o b)[k] = IF k < i THEN a[k] ELSE b[k - i + 1]
      BY <2>2, <3>1
    <3>4. \A k \in 1..Len(pending) - 1 : (a \o b)[k] = pending[IF k < i THEN k ELSE k + 1]
      <4> TAKE k \in 1..Len(pending) - 1
      <4>1. CASE k < i
        BY <2>2, <3>2, <3>3, <4>1
      <4>2. CASE ~(k < i)
        <5>1. k - i + 1 \in 1..Len(pending) - i /\ i + (k - i + 1) = k + 1
          BY <2>2, <4>2
        <5> QED
          BY <3>2, <3>3, <4>2, <5>1
      <4> QED
        BY <4>1, <4>2
    <3>5. W = a \o b
      BY DEF a, b
    <3> QED
      BY <3>3, <3>4, <3>5
  <2>6. Co!Without(p) = W
    BY <2>1 DEF Co!RemoveAt
  <2> HIDE DEF W
  <2>7. DOMAIN W = 1..Len(pending) - 1 /\ DOMAIN pending = 1..Len(pending)
    BY <1>1, <2>5
  <2>8. \A k \in DOMAIN W : (IF k < i THEN k ELSE k + 1) \in DOMAIN pending \ {i}
    BY <2>2, <2>7
  <2>9. \A k \in DOMAIN W : W[k].plan # p /\ \E j \in DOMAIN pending : W[k] = pending[j]
    BY <1>2, <2>2, <2>5, <2>7, <2>8
  <2>10. \A k, l \in DOMAIN W : W[k].plan = W[l].plan => k = l
    <3> SUFFICES ASSUME NEW k \in DOMAIN W, NEW l \in DOMAIN W, W[k].plan = W[l].plan
                 PROVE  k = l
      OBVIOUS
    <3> DEFINE a == IF k < i THEN k ELSE k + 1
               b == IF l < i THEN l ELSE l + 1
    <3>1. a \in DOMAIN pending /\ b \in DOMAIN pending /\ W[k] = pending[a] /\ W[l] = pending[b]
      BY <2>5, <2>7, <2>8
    <3>2. a = b
      BY <1>2, <3>1
    <3> QED
      BY <2>2, <2>7, <3>2
  <2> QED
    BY <2>5, <2>6, <2>9, <2>10
<1> QED
  BY <1>3, <1>4

LEMMA PlanStates ==
  ASSUME CoTypes, NEW p \in DOMAIN plan PROVE plan[p] \in PlanState
BY DEF CoTypes

LEMMA DeckStates ==
  ASSUME CoTypes, NEW d \in Decks PROVE auto[d] \in DeckState
BY DEF CoTypes

LEMMA TaskOverEnds ==
  ASSUME CoTypes, NEW p \in DOMAIN plan, NEW s \in {"idle", "done"}
  PROVE  /\ Co!TaskOver(auto, p, s) \in [Decks -> DeckState]
         /\ \A d \in Decks : IF d = plan[p].by THEN Co!TaskOver(auto, p, s)[d].task = None
                            ELSE Co!TaskOver(auto, p, s)[d] = auto[d]
<1> DEFINE b == plan[p].by
<1>1. b \in Decks \cup {"proposer"}
  BY PlanStates DEF PlanState
<1>2. auto \in [Decks -> DeckState]
  BY DEF CoTypes
<1>3. CASE b = "proposer"
  BY <1>2, <1>3, CoConstants DEF Co!TaskOver
<1>4. CASE b # "proposer"
  <2>1. [auto[b] EXCEPT !.task = None, !.status = s] \in DeckState
    BY <1>1, <1>4, DeckStates DEF DeckState
  <2>2. Co!TaskOver(auto, p, s) = [auto EXCEPT ![b] = [@ EXCEPT !.task = None, !.status = s]]
    BY <1>1, <1>2, <1>4 DEF Co!TaskOver
  <2> HIDE DEF b
  <2>3. \A d \in Decks : IF d = b THEN Co!TaskOver(auto, p, s)[d].task = None
                        ELSE Co!TaskOver(auto, p, s)[d] = auto[d]
    <3>1. \A d \in Decks : auto[d] \in DeckState
      BY <1>2
    <3> QED
      BY <1>2, <2>2, <3>1 DEF DeckState
  <2>4. Co!TaskOver(auto, p, s) \in [Decks -> DeckState]
    BY <1>2, <2>1, <2>2
  <2> QED
    BY <2>3, <2>4 DEF b
<1> QED
  BY <1>3, <1>4

-----------------------------------------------------------------------------
(* Steps on the deck's side. *)

LEMMA MixStays ==
  ASSUME NEW d \in Decks, OneMix(d), OneTask(d),
         crossed'[d] = crossed[d], stacked'[d] = stacked[d],
         Co!Tasks(d)' \subseteq Co!Tasks(d), Co!Mixes(d)' \subseteq Co!Mixes(d),
         \A p \in Co!Mixes(d)' : plan'[p].from = plan[p].from,
         DOMAIN plan' = DOMAIN plan, auto'[d].task \in {auto[d].task, None},
         ~crossed[d] => \/ Co!Mixes(d)' = {}
                        \/ /\ auto'[d].status \in {auto[d].status, "transitioning"}
                           /\ auto'[d].track = auto[d].track,
         ~stacked[d] => \/ Co!Mixes(d)' = {}
                        \/ auto'[d].task = auto[d].task /\ auto'[d].enabled = auto[d].enabled
  PROVE  OneMix(d)' /\ OneTask(d)'
<1>1. OneMix(d)'
  <2> SUFFICES ASSUME ~crossed[d], NEW p \in Co!Mixes(d)'
               PROVE  /\ auto'[d].status \in {"armed", "transitioning"}
                      /\ auto'[d].track = plan'[p].from
                      /\ auto'[d].task \in {None, p}
                      /\ \A q \in Co!Mixes(d)' : q = p
    BY DEF OneMix
  <2>1. p \in Co!Mixes(d) /\ Co!Mixes(d)' # {}
    OBVIOUS
  <2>2. /\ auto[d].status \in {"armed", "transitioning"} /\ auto[d].track = plan[p].from
        /\ auto[d].task \in {None, p} /\ \A q \in Co!Mixes(d) : q = p
    BY <2>1 DEF OneMix
  <2> QED
    BY <2>1, <2>2
<1>2. OneTask(d)'
  <2> SUFFICES ASSUME ~stacked[d]
               PROVE  /\ \A p, q \in Co!Tasks(d)' : p = q
                      /\ \A p \in Co!Mixes(d)' : auto'[d].task = p /\ auto'[d].enabled
    <3>1. auto'[d].task \in DOMAIN plan' \cup {None}
      BY DEF OneTask
    <3> QED
      BY <3>1 DEF OneTask
  <2>1. /\ \A p, q \in Co!Tasks(d) : p = q
        /\ \A p \in Co!Mixes(d) : auto[d].task = p /\ auto[d].enabled
    BY DEF OneTask
  <2> QED
    BY <2>1
<1> QED
  BY <1>1, <1>2

-----------------------------------------------------------------------------
(* Steps on the engine's side. *)

LEMMA OrderStays ==
  ASSUME InOrder, taken' = taken, to_engine' = to_engine \/ to_engine' = <<>>,
         DOMAIN plan' = DOMAIN plan,
         \A q \in DOMAIN plan : plan'[q].next = plan[q].next /\ (Unsent(q)' => Unsent(q)),
         \A k \in DOMAIN from_engine' :
           from_engine'[k].type = "answer" => \E i \in DOMAIN from_engine : from_engine'[k] = from_engine[i],
         \A k \in DOMAIN pending' :
           /\ plan'[pending'[k].plan].step \in {"wait", "cancelled"}
           /\ \E i \in DOMAIN pending : pending'[k] = pending[i],
         \A k, l \in DOMAIN pending' : pending'[k].plan = pending'[l].plan => k = l
  PROVE  InOrder'
<1> USE DEF InOrder
<1>1. TakenIsBehind'
  BY DEF TakenIsBehind
<1>2. LastIsTaken'
  BY DEF LastIsTaken
<1>3. OnTheWay'
  <2>1. CASE to_engine' = <<>>
    BY <2>1 DEF OnTheWay
  <2>2. CASE to_engine' = to_engine
    BY <2>2 DEF OnTheWay
  <2> QED
    BY <2>1, <2>2
<1>4. AnswersAreTaken'
  BY DEF AnswersAreTaken
<1>5. OneCallWaits'
  BY DEF OneCallWaits
<1>6. Co!PlansArriveWithoutGaps'
  BY DEF Co!PlansArriveWithoutGaps
<1> QED
  BY <1>1, <1>2, <1>3, <1>4, <1>5, <1>6

\* The link and the reading task: nothing the plans or the decks know of.
LEMMA LinkKeeps ==
  ASSUME CoInv, UNCHANGED <<plan, auto, taken, pending, crossed, stacked>>,
         to_engine' = to_engine \/ to_engine' = <<>>, from_engine' \in Seq(Frame),
         \A k \in DOMAIN from_engine' :
           from_engine'[k].type = "answer" => \E i \in DOMAIN from_engine : from_engine'[k] = from_engine[i]
  PROVE  CoInv'
<1>1. CoTypes /\ InOrder
  BY DEF CoInv
<1>2. CoTypes'
  <2>1. to_engine' \in Seq(CallOf)
    <3>1. to_engine \in Seq(CallOf) /\ <<>> \in Seq(CallOf)
      BY <1>1 DEF CoTypes
    <3> QED
      BY <3>1
  <2> QED
    BY <1>1, <2>1 DEF CoTypes
<1>3. InOrder'
  <2>1. \A q \in DOMAIN plan : plan'[q].next = plan[q].next /\ (Unsent(q)' => Unsent(q))
    BY DEF Unsent
  <2>2. /\ \A k \in DOMAIN pending' :
             /\ plan'[pending'[k].plan].step \in {"wait", "cancelled"}
             /\ \E i \in DOMAIN pending : pending'[k] = pending[i]
        /\ \A k, l \in DOMAIN pending' : pending'[k].plan = pending'[l].plan => k = l
    BY <1>1 DEF InOrder, OneCallWaits
  <2> QED
    BY <1>1, <2>1, <2>2, OrderStays
<1>4. \A d \in Decks : OneMix(d)' /\ OneTask(d)'
  <2> TAKE d \in Decks
  <2>1. Co!Tasks(d)' = Co!Tasks(d) /\ Co!Mixes(d)' = Co!Mixes(d)
    BY DEF Co!Tasks, Co!Mixes, Co!Plans
  <2> QED
    BY <2>1 DEF CoInv, OneMix, OneTask
<1> QED
  BY <1>2, <1>3, <1>4 DEF CoInv

LEMMA LinkStepKeeps ==
  ASSUME CoInv,
         \/ Co!Connects \/ Co!Handshake \/ Co!SeesClose \/ Co!Backoff \/ Co!Wedges \/ Co!LinkLost
         \/ \E s \in Co!States : Co!EngineTells(s)
         \/ UNCHANGED Co!copilot_vars
  PROVE  CoInv'
<1>1. from_engine \in Seq(Frame)
  BY DEF CoInv, CoTypes
<1>2. CASE Co!Connects
  <2>1. /\ UNCHANGED <<plan, auto, taken, pending, crossed, stacked>>
        /\ \/ to_engine' = <<>> /\ from_engine' = <<>>
           \/ UNCHANGED <<to_engine, from_engine>>
    BY <1>2 DEF Co!Connects
  <2>2. CASE to_engine' = <<>> /\ from_engine' = <<>>
    BY <2>1, <2>2, LinkKeeps
  <2>3. CASE UNCHANGED <<to_engine, from_engine>>
    BY <1>1, <2>1, <2>3, LinkKeeps
  <2> QED
    BY <2>1, <2>2, <2>3
<1>3. CASE Co!Handshake \/ Co!SeesClose \/ Co!Backoff \/ Co!Wedges \/ UNCHANGED Co!copilot_vars
  <2>1. /\ UNCHANGED <<plan, auto, taken, pending, crossed, stacked>>
        /\ UNCHANGED <<to_engine, from_engine>>
    BY <1>3 DEF Co!Handshake, Co!SeesClose, Co!Backoff, Co!Wedges, Co!copilot_vars
  <2> QED
    BY <1>1, <2>1, LinkKeeps
<1>4. CASE Co!LinkLost
  <2>1. UNCHANGED <<plan, auto, taken, pending, crossed, stacked>> /\ to_engine' = <<>>
    BY <1>4 DEF Co!LinkLost
  <2>2. PICK k \in 0..Len(from_engine) : from_engine' = SubSeq(from_engine, 1, k)
    BY <1>4 DEF Co!LinkLost
  <2>3. /\ from_engine' \in Seq(Frame) /\ DOMAIN from_engine' \subseteq DOMAIN from_engine
        /\ \A i \in DOMAIN from_engine' : from_engine'[i] = from_engine[i]
    BY <1>1, <2>2
  <2> QED
    BY <2>1, <2>3, LinkKeeps
<1>5. ASSUME NEW s \in Co!States, Co!EngineTells(s) PROVE CoInv'
  <2>1. /\ UNCHANGED <<plan, auto, taken, pending, crossed, stacked, to_engine>>
        /\ from_engine' = Append(from_engine, Co!Notice(s))
    BY <1>5 DEF Co!EngineTells
  <2>2. Co!Notice(s) \in Frame /\ Co!Notice(s).type = "state"
    BY DEF Co!Notice, Frame
  <2>3. /\ from_engine' \in Seq(Frame)
        /\ DOMAIN from_engine' = DOMAIN from_engine \cup {Len(from_engine) + 1}
        /\ \A k \in DOMAIN from_engine : from_engine'[k] = from_engine[k]
        /\ from_engine'[Len(from_engine) + 1] = Co!Notice(s)
    BY <1>1, <2>1, <2>2
  <2>4. \A k \in DOMAIN from_engine' :
          from_engine'[k].type = "answer" => \E i \in DOMAIN from_engine : from_engine'[k] = from_engine[i]
    BY <2>2, <2>3
  <2> QED
    BY <2>1, <2>3, <2>4, LinkKeeps
<1> QED
  BY <1>2, <1>3, <1>4, <1>5

LEMMA InTaken ==
  ASSUME NEW s, NEW e PROVE e \in Co!ToSet(s) <=> \E i \in DOMAIN s : s[i] = e
BY DEF Co!ToSet

\* The engine takes the next event: its predecessor was taken, none later was.
LEMMA EngineTakesKeeps ==
  ASSUME CoInv, Co!EngineTakes PROVE CoInv'
<1>1. CoTypes /\ InOrder
  BY DEF CoInv
<1>2. /\ to_engine # <<>> /\ taken' = Append(taken, Head(to_engine))
      /\ from_engine' = Append(from_engine, Co!AnswerTo(Head(to_engine)))
      /\ to_engine' = Tail(to_engine)
      /\ UNCHANGED <<plan, auto, pending, crossed, stacked>>
  BY DEF Co!EngineTakes
<1>3. /\ taken \in Seq(CallOf) /\ to_engine \in Seq(CallOf) /\ from_engine \in Seq(Frame)
      /\ pending \in Seq(CallOf) /\ plan \in Seq(PlanState)
  BY <1>1 DEF CoTypes
<1> DEFINE e == Head(to_engine)
           p == e.plan
           N == Len(taken) + 1
<1>4. e \in CallOf /\ e = to_engine[1] /\ 1 \in DOMAIN to_engine
  BY <1>2, <1>3
<1>5. /\ taken' \in Seq(CallOf) /\ DOMAIN taken' = 1..N /\ DOMAIN taken = 1..N - 1 /\ N \in Nat \ {0}
      /\ taken'[N] = e /\ \A i \in 1..N - 1 : taken'[i] = taken[i]
  BY <1>2, <1>3, <1>4
<1>6. /\ to_engine' \in Seq(CallOf) /\ DOMAIN to_engine = 1..Len(to_engine)
      /\ DOMAIN to_engine' = 1..Len(to_engine) - 1 /\ Len(to_engine) \in Nat
      /\ \A k \in DOMAIN to_engine' : to_engine'[k] = to_engine[k + 1]
  BY <1>2, <1>3
<1>7. Co!AnswerTo(e) \in Frame /\ Co!AnswerTo(e).plan = p /\ Co!AnswerTo(e).n = e.n
  BY <1>4 DEF Co!AnswerTo, Frame, CallOf
<1>8. /\ from_engine' \in Seq(Frame)
      /\ DOMAIN from_engine' = DOMAIN from_engine \cup {Len(from_engine) + 1}
      /\ \A k \in DOMAIN from_engine : from_engine'[k] = from_engine[k]
      /\ from_engine'[Len(from_engine) + 1] = Co!AnswerTo(e)
  BY <1>2, <1>3, <1>7
<1>9. /\ p \in DOMAIN plan /\ ~Unsent(p) /\ e.n = plan[p].next
      /\ \A i \in DOMAIN taken : taken[i].plan = p => taken[i].n < e.n
      /\ \A k \in DOMAIN to_engine : to_engine[k].plan = p => k = 1
  BY <1>1, <1>4 DEF InOrder, OnTheWay
<1>10. e = [plan |-> p, n |-> e.n] /\ e.n \in Nat /\ p \in Nat
  BY <1>4 DEF CallOf
<1> HIDE DEF e, p, N
<1>11. CoTypes'
  BY <1>1, <1>2, <1>5, <1>6, <1>8 DEF CoTypes
<1>12. Co!ToSet(taken) \subseteq Co!ToSet(taken') /\ e \in Co!ToSet(taken')
  BY <1>5 DEF Co!ToSet
<1>13. TakenIsBehind'
  <2>1. \A i \in 1..N - 1 : LET q == taken[i].plan IN
          /\ q \in DOMAIN plan /\ taken[i].n <= plan[q].next
          /\ Unsent(q) => taken[i].n < plan[q].next
    BY <1>1, <1>5 DEF InOrder, TakenIsBehind
  <2>2. \A q : Unsent(q)' = Unsent(q)
    BY <1>2 DEF Unsent
  <2>3. e.plan = p /\ e.n <= plan[p].next
    BY <1>9, <1>10 DEF p
  <2> SUFFICES ASSUME NEW i \in 1..N
               PROVE  /\ taken'[i].plan \in DOMAIN plan
                      /\ taken'[i].n <= plan[taken'[i].plan].next
                      /\ Unsent(taken'[i].plan) => taken'[i].n < plan[taken'[i].plan].next
    BY <1>2, <1>5, <2>2 DEF TakenIsBehind
  <2>4. CASE i = N
    BY <1>5, <1>9, <2>3, <2>4
  <2>5. CASE i # N
    <3>1. i \in 1..N - 1
      BY <1>5, <2>5
    <3> QED
      BY <1>5, <2>1, <3>1
  <2> QED
    BY <2>4, <2>5
<1>14. LastIsTaken'
  BY <1>1, <1>2, <1>12 DEF InOrder, LastIsTaken
<1>15. OnTheWay'
  <2> SUFFICES ASSUME NEW k \in DOMAIN to_engine'
               PROVE  /\ to_engine'[k].plan \in DOMAIN plan /\ ~Unsent(to_engine'[k].plan)
                      /\ to_engine'[k].n = plan[to_engine'[k].plan].next
                      /\ \A i \in 1..N : taken'[i].plan = to_engine'[k].plan =>
                           taken'[i].n < to_engine'[k].n
                      /\ \A l \in DOMAIN to_engine' :
                           to_engine'[l].plan = to_engine'[k].plan => l = k
    BY <1>2, <1>5 DEF OnTheWay, Unsent
  <2>1. k + 1 \in DOMAIN to_engine /\ to_engine'[k] = to_engine[k + 1] /\ k \in Nat
    BY <1>6
  <2>2. /\ to_engine[k + 1].plan \in DOMAIN plan /\ ~Unsent(to_engine[k + 1].plan)
        /\ to_engine[k + 1].n = plan[to_engine[k + 1].plan].next
        /\ \A i \in DOMAIN taken : taken[i].plan = to_engine[k + 1].plan =>
             taken[i].n < to_engine[k + 1].n
        /\ \A l \in DOMAIN to_engine :
             to_engine[l].plan = to_engine[k + 1].plan => l = k + 1
    BY <1>1, <2>1 DEF InOrder, OnTheWay
  <2>3. to_engine[k + 1].plan # p
    <3>1. k + 1 # 1
      BY <1>6
    <3> QED
      BY <1>9, <2>1, <3>1
  <2>4. \A i \in 1..N : taken'[i].plan = to_engine'[k].plan => taken'[i].n < to_engine'[k].n
    <3> TAKE i \in 1..N
    <3>1. CASE i = N
      BY <1>5, <2>1, <2>3, <3>1 DEF p
    <3>2. CASE i # N
      <4>1. i \in 1..N - 1
        BY <1>5, <3>2
      <4> QED
        BY <1>5, <2>1, <2>2, <4>1
    <3> QED
      BY <3>1, <3>2
  <2>5. \A l \in DOMAIN to_engine' : to_engine'[l].plan = to_engine'[k].plan => l = k
    <3> SUFFICES ASSUME NEW l \in DOMAIN to_engine', to_engine'[l].plan = to_engine'[k].plan
                 PROVE  l = k
      OBVIOUS
    <3>1. l + 1 \in DOMAIN to_engine /\ to_engine'[l] = to_engine[l + 1] /\ l \in Nat
      BY <1>6
    <3>2. l + 1 = k + 1
      BY <2>1, <2>2, <3>1
    <3> QED
      BY <2>1, <3>1, <3>2
  <2> QED
    BY <2>1, <2>2, <2>4, <2>5
<1>16. AnswersAreTaken'
  BY <1>1, <1>7, <1>8, <1>10, <1>12 DEF InOrder, AnswersAreTaken
<1>17. OneCallWaits'
  BY <1>1, <1>2 DEF InOrder, OneCallWaits
<1>18. Co!PlansArriveWithoutGaps'
  <2> SUFFICES ASSUME NEW j \in 1..N
               PROVE  /\ \A i \in 1..j - 1 : taken'[i].plan = taken'[j].plan => taken'[i].n < taken'[j].n
                      /\ taken'[j].n # 1 => \E i \in 1..j - 1 :
                           taken'[i] = [plan |-> taken'[j].plan, n |-> taken'[j].n - 1]
    BY <1>5 DEF Co!PlansArriveWithoutGaps
  <2>0. \A i \in 1..j - 1 : i \in 1..N - 1
    BY <1>5
  <2>1. CASE j = N
    <3>1. \A i \in 1..j - 1 : taken'[i].plan = taken'[j].plan => taken'[i].n < taken'[j].n
      BY <1>5, <1>9, <2>0, <2>1 DEF p
    <3>2. ASSUME e.n # 1 PROVE \E i \in 1..j - 1 : taken'[i] = [plan |-> p, n |-> e.n - 1]
      <4>1. [plan |-> p, n |-> e.n - 1] \in Co!ToSet(taken)
        BY <1>1, <1>9, <3>2 DEF InOrder, LastIsTaken
      <4>2. PICK i \in 1..N - 1 : taken[i] = [plan |-> p, n |-> e.n - 1]
        BY <1>5, <4>1, InTaken
      <4> QED
        BY <1>5, <2>1, <4>2
    <3> QED
      BY <1>5, <2>1, <3>1, <3>2 DEF p
  <2>2. CASE j # N
    <3>1. j \in 1..N - 1
      BY <1>5, <2>2
    <3>2. /\ \A i \in 1..j - 1 : taken[i].plan = taken[j].plan => taken[i].n < taken[j].n
          /\ taken[j].n # 1 => \E i \in 1..j - 1 :
               taken[i] = [plan |-> taken[j].plan, n |-> taken[j].n - 1]
      BY <1>1, <1>5, <3>1 DEF InOrder, Co!PlansArriveWithoutGaps
    <3> QED
      BY <1>5, <2>0, <3>1, <3>2
  <2> QED
    BY <2>1, <2>2
<1>19. \A d \in Decks : OneMix(d)' /\ OneTask(d)'
  <2> TAKE d \in Decks
  <2>1. Co!Tasks(d)' = Co!Tasks(d) /\ Co!Mixes(d)' = Co!Mixes(d)
    BY <1>2 DEF Co!Tasks, Co!Mixes, Co!Plans
  <2> QED
    BY <1>2, <2>1 DEF CoInv, OneMix, OneTask
<1> QED
  BY <1>11, <1>13, <1>14, <1>15, <1>16, <1>17, <1>18, <1>19 DEF CoInv, InOrder

Steps == {"start", "send", "wait", "cancelled", "done", "failed"}

LEMMA StepAt ==
  ASSUME CoTypes, NEW p \in DOMAIN plan, NEW s \in Steps, plan' = [plan EXCEPT ![p].step = s]
  PROVE  /\ plan' \in Seq(PlanState) /\ DOMAIN plan' = DOMAIN plan
         /\ \A q \in DOMAIN plan :
              /\ plan'[q].by = plan[q].by /\ plan'[q].from = plan[q].from
              /\ plan'[q].next = plan[q].next
              /\ plan'[q].step = IF q = p THEN s ELSE plan[q].step
<1>1. plan \in Seq(PlanState) /\ \A q \in DOMAIN plan : plan[q] \in PlanState
  BY PlanStates DEF CoTypes
<1>2. [plan[p] EXCEPT !.step = s] \in PlanState
  BY <1>1 DEF PlanState, Steps
<1>3. plan' = [plan EXCEPT ![p] = [@ EXCEPT !.step = s]]
  OBVIOUS
<1>4. plan' \in Seq(PlanState) /\ DOMAIN plan' = DOMAIN plan
  BY <1>1, <1>2, <1>3
<1>5. \A q \in DOMAIN plan :
        /\ plan'[q].by = plan[q].by /\ plan'[q].from = plan[q].from
        /\ plan'[q].next = plan[q].next
        /\ plan'[q].step = IF q = p THEN s ELSE plan[q].step
  BY <1>1, <1>3 DEF PlanState
<1> QED
  BY <1>4, <1>5

LEMMA PlanChanges ==
  ASSUME NEW f \in Seq(PlanState), NEW p \in DOMAIN f, NEW x \in PlanState
  PROVE  /\ [f EXCEPT ![p] = x] \in Seq(PlanState) /\ DOMAIN [f EXCEPT ![p] = x] = DOMAIN f
         /\ \A q \in DOMAIN f : [f EXCEPT ![p] = x][q] = IF q = p THEN x ELSE f[q]
OBVIOUS

LEMMA NextAt ==
  ASSUME CoTypes, NEW p \in DOMAIN plan, NEW s \in Steps,
         plan' = [plan EXCEPT ![p].next = @ + 1, ![p].step = s]
  PROVE  /\ plan' \in Seq(PlanState) /\ DOMAIN plan' = DOMAIN plan
         /\ \A q \in DOMAIN plan :
              /\ plan'[q].by = plan[q].by /\ plan'[q].from = plan[q].from
              /\ plan'[q].next = IF q = p THEN plan[p].next + 1 ELSE plan[q].next
              /\ plan'[q].step = IF q = p THEN s ELSE plan[q].step
<1>1. plan \in Seq(PlanState) /\ \A q \in DOMAIN plan : plan[q] \in PlanState
  BY PlanStates DEF CoTypes
<1> DEFINE on == [plan[p] EXCEPT !.next = plan[p].next + 1]
           moved == [on EXCEPT !.step = s]
<1>2. plan[p] \in PlanState /\ plan[p].next + 1 \in Nat \ {0}
  BY <1>1 DEF PlanState
<1>3. /\ on \in PlanState /\ on.by = plan[p].by /\ on.from = plan[p].from
      /\ on.next = plan[p].next + 1
  BY <1>2 DEF PlanState
<1>4. plan' = [plan EXCEPT ![p] = moved]
  OBVIOUS
<1> HIDE DEF on
<1>5. /\ moved \in PlanState /\ moved.by = on.by /\ moved.from = on.from
      /\ moved.next = on.next /\ moved.step = s
  BY <1>3 DEF PlanState, Steps
<1> HIDE DEF moved
<1>6. /\ plan' \in Seq(PlanState) /\ DOMAIN plan' = DOMAIN plan
      /\ \A q \in DOMAIN plan : plan'[q] = IF q = p THEN moved ELSE plan[q]
  <2> DEFINE after == [plan EXCEPT ![p] = moved]
  <2>1. /\ after \in Seq(PlanState) /\ DOMAIN after = DOMAIN plan
        /\ \A q \in DOMAIN plan : after[q] = IF q = p THEN moved ELSE plan[q]
    BY <1>1, <1>5, PlanChanges
  <2>2. plan' = after
    BY <1>4
  <2> HIDE DEF after
  <2> QED
    BY <2>1, <2>2, Zenon
<1> QED
  BY <1>3, <1>5, <1>6

\* A deck's tasks and mixes after plan p alone took step s.
LEMMA TasksAfter ==
  ASSUME NEW p \in DOMAIN plan, NEW s, NEW d \in Decks,
         DOMAIN plan' = DOMAIN plan,
         \A q \in DOMAIN plan : /\ plan'[q].by = plan[q].by
                                /\ plan'[q].step = IF q = p THEN s ELSE plan[q].step
  PROVE  /\ plan[p].by # d => Co!Tasks(d)' = Co!Tasks(d) /\ Co!Mixes(d)' = Co!Mixes(d)
         /\ s \in {"done", "failed"} =>
              Co!Tasks(d)' = Co!Tasks(d) \ {p} /\ Co!Mixes(d)' = Co!Mixes(d) \ {p}
         /\ s = "cancelled" /\ plan[p].step \notin {"done", "failed"} =>
              Co!Tasks(d)' = Co!Tasks(d) /\ Co!Mixes(d)' = Co!Mixes(d) \ {p}
BY DEF Co!Tasks, Co!Mixes, Co!Plans, Co!Ended

LEMMA TasksStay ==
  ASSUME NEW p \in DOMAIN plan, NEW d \in Decks,
         DOMAIN plan' = DOMAIN plan, plan[p].step \in {"start", "send", "wait"},
         plan'[p].step \in {"send", "wait"},
         \A q \in DOMAIN plan : /\ plan'[q].by = plan[q].by
                                /\ q # p => plan'[q].step = plan[q].step
  PROVE  Co!Tasks(d)' = Co!Tasks(d) /\ Co!Mixes(d)' = Co!Mixes(d)
BY DEF Co!Tasks, Co!Mixes, Co!Plans, Co!Ended

LEMMA PendingAfter ==
  ASSUME CoInv, NEW p \in DOMAIN plan, pending' = Co!Without(p),
         \A q \in DOMAIN plan : q # p => plan'[q].step = plan[q].step
  PROVE  /\ pending' \in Seq(CallOf)
         /\ \A k \in DOMAIN pending' :
              /\ plan'[pending'[k].plan].step \in {"wait", "cancelled"}
              /\ \E i \in DOMAIN pending : pending'[k] = pending[i]
         /\ \A k, l \in DOMAIN pending' : pending'[k].plan = pending'[l].plan => k = l
         /\ \A k \in DOMAIN pending' : pending'[k].plan # p
<1>1. CoTypes /\ OneCallWaits
  BY DEF CoInv, InOrder
<1>2. /\ pending' \in Seq(CallOf)
      /\ \A k \in DOMAIN pending' :
           pending'[k].plan # p /\ \E i \in DOMAIN pending : pending'[k] = pending[i]
      /\ \A k, l \in DOMAIN pending' : pending'[k].plan = pending'[l].plan => k = l
  BY <1>1, WithoutDrops
<1>3. \A k \in DOMAIN pending' : plan'[pending'[k].plan].step \in {"wait", "cancelled"}
  <2> TAKE k \in DOMAIN pending'
  <2>1. PICK i \in DOMAIN pending : pending'[k] = pending[i]
    BY <1>2
  <2>2. pending[i].plan \in DOMAIN plan /\ plan[pending[i].plan].step \in {"wait", "cancelled"}
    BY <1>1 DEF OneCallWaits
  <2> QED
    BY <1>2, <2>1, <2>2
<1> QED
  BY <1>2, <1>3

\* What is left to read was there to be read.
OnlyRead ==
  /\ from_engine' \in Seq(Frame)
  /\ \A k \in DOMAIN from_engine' :
       from_engine'[k].type = "answer" => \E i \in DOMAIN from_engine : from_engine'[k] = from_engine[i]

LEMMA TailIsLeft ==
  ASSUME CoTypes, from_engine = <<>> => from_engine' = from_engine,
         from_engine' = Tail(from_engine) \/ from_engine' = from_engine
  PROVE  OnlyRead
<1>1. from_engine \in Seq(Frame)
  BY DEF CoTypes
<1>2. CASE from_engine' = from_engine
  BY <1>1, <1>2 DEF OnlyRead
<1>3. CASE from_engine # <<>> /\ from_engine' = Tail(from_engine)
  <2>1. /\ from_engine' \in Seq(Frame)
        /\ \A k \in DOMAIN from_engine' :
             k + 1 \in DOMAIN from_engine /\ from_engine'[k] = from_engine[k + 1]
    BY <1>1, <1>3
  <2> QED
    BY <2>1 DEF OnlyRead
<1> QED
  BY <1>2, <1>3

LEMMA FailsKeeps ==
  ASSUME CoInv, NEW p \in DOMAIN plan, plan[p].step \in {"start", "send", "wait"}, Co!Fails(p),
         UNCHANGED <<taken, to_engine, crossed, stacked>>, OnlyRead
  PROVE  CoInv'
<1>1. CoTypes /\ InOrder
  BY DEF CoInv
<1>2. /\ plan' = [plan EXCEPT ![p].step = "failed"] /\ pending' = Co!Without(p)
      /\ auto' = Co!TaskOver(auto, p, "idle")
  BY DEF Co!Fails
<1>3. /\ plan' \in Seq(PlanState) /\ DOMAIN plan' = DOMAIN plan
      /\ \A q \in DOMAIN plan :
           /\ plan'[q].by = plan[q].by /\ plan'[q].from = plan[q].from
           /\ plan'[q].next = plan[q].next
           /\ plan'[q].step = IF q = p THEN "failed" ELSE plan[q].step
  BY <1>1, <1>2, StepAt DEF Steps
<1>4. /\ pending' \in Seq(CallOf)
      /\ \A k \in DOMAIN pending' :
           /\ plan'[pending'[k].plan].step \in {"wait", "cancelled"}
           /\ \E i \in DOMAIN pending : pending'[k] = pending[i]
      /\ \A k, l \in DOMAIN pending' : pending'[k].plan = pending'[l].plan => k = l
  BY <1>2, <1>3, PendingAfter
<1>5. /\ auto' \in [Decks -> DeckState]
      /\ \A d \in Decks : IF d = plan[p].by THEN auto'[d].task = None ELSE auto'[d] = auto[d]
  BY <1>1, <1>2, TaskOverEnds
<1>6. CoTypes'
  BY <1>1, <1>3, <1>4, <1>5 DEF CoTypes, OnlyRead
<1>7. InOrder'
  <2>1. \A q \in DOMAIN plan : plan'[q].next = plan[q].next /\ (Unsent(q)' => Unsent(q))
    BY <1>3 DEF Unsent
  <2> QED
    BY <1>1, <1>3, <1>4, <2>1, OrderStays DEF OnlyRead
<1>8. \A d \in Decks : OneMix(d)' /\ OneTask(d)'
  <2> TAKE d \in Decks
  <2>1. Co!Tasks(d)' = Co!Tasks(d) \ {p} /\ Co!Mixes(d)' = Co!Mixes(d) \ {p}
    BY <1>3, TasksAfter
  <2>2. OneMix(d) /\ OneTask(d)
    BY DEF CoInv
  <2>3. \A q \in Co!Mixes(d)' : plan'[q].from = plan[q].from
    BY <1>3, <2>1 DEF Co!Mixes, Co!Tasks, Co!Plans
  <2>4. CASE plan[p].by # d
    <3>1. auto'[d] = auto[d]
      BY <1>5, <2>4
    <3> QED
      BY <1>3, <2>1, <2>2, <2>3, <3>1, MixStays
  <2>5. CASE plan[p].by = d
    <3>1. p \in Co!Mixes(d) /\ Co!Mixes(d) \subseteq Co!Tasks(d)
      BY <2>5 DEF Co!Mixes, Co!Tasks, Co!Plans, Co!Ended
    <3>2. ~crossed[d] => Co!Mixes(d)' = {}
      BY <2>1, <2>2, <3>1 DEF OneMix
    <3>3. ~stacked[d] => Co!Mixes(d)' = {}
      BY <2>1, <2>2, <3>1 DEF OneTask
    <3> QED
      BY <1>3, <1>5, <2>1, <2>2, <2>3, <2>5, <3>2, <3>3, MixStays
  <2> QED
    BY <2>4, <2>5
<1> QED
  BY <1>6, <1>7, <1>8 DEF CoInv

\* The call that was answered is the plan's next, which the engine took.
LEMMA SucceedsKeeps ==
  ASSUME CoInv, NEW p \in DOMAIN plan, plan[p].step = "wait", Co!Succeeds(p),
         [plan |-> p, n |-> plan[p].next] \in Co!ToSet(taken),
         UNCHANGED <<taken, to_engine, crossed, stacked>>, OnlyRead
  PROVE  CoInv'
<1> DEFINE last == plan[p].next = PlanLength
           s == IF last THEN "done" ELSE "send"
<1>1. CoTypes /\ InOrder
  BY DEF CoInv
<1>2. /\ plan' = [plan EXCEPT ![p].next = @ + 1, ![p].step = s] /\ pending' = Co!Without(p)
      /\ auto' = IF last THEN Co!TaskOver(auto, p, "done") ELSE auto
  BY DEF Co!Succeeds
<1>3. s \in {"done", "send"}
  OBVIOUS
<1> HIDE DEF s
<1>4. /\ plan' \in Seq(PlanState) /\ DOMAIN plan' = DOMAIN plan
      /\ \A q \in DOMAIN plan :
           /\ plan'[q].by = plan[q].by /\ plan'[q].from = plan[q].from
           /\ plan'[q].next = IF q = p THEN plan[p].next + 1 ELSE plan[q].next
           /\ plan'[q].step = IF q = p THEN s ELSE plan[q].step
  <2>1. s \in Steps
    BY <1>3 DEF Steps
  <2> QED
    BY <1>1, <1>2, <2>1, NextAt, Zenon
<1>5. /\ pending' \in Seq(CallOf)
      /\ \A k \in DOMAIN pending' :
           /\ plan'[pending'[k].plan].step \in {"wait", "cancelled"}
           /\ \E i \in DOMAIN pending : pending'[k] = pending[i]
      /\ \A k, l \in DOMAIN pending' : pending'[k].plan = pending'[l].plan => k = l
      /\ \A k \in DOMAIN pending' : pending'[k].plan # p
  BY <1>2, <1>4, PendingAfter
<1>6. /\ auto' \in [Decks -> DeckState]
      /\ \A d \in Decks : \/ auto'[d] = auto[d]
                          \/ d = plan[p].by /\ auto'[d].task = None
  BY <1>1, <1>2, TaskOverEnds DEF CoTypes
<1>7. CoTypes'
  BY <1>1, <1>4, <1>5, <1>6 DEF CoTypes, OnlyRead
<1>8. plan[p].next \in Nat \ {0}
  BY <1>1, PlanStates DEF PlanState
<1>9. \A k \in DOMAIN to_engine : to_engine[k].plan # p
  <2> SUFFICES ASSUME NEW k \in DOMAIN to_engine, to_engine[k].plan = p PROVE FALSE
    OBVIOUS
  <2>1. /\ to_engine[k].n = plan[p].next
        /\ \A i \in DOMAIN taken : taken[i].plan = p => taken[i].n < to_engine[k].n
    BY <1>1 DEF InOrder, OnTheWay
  <2>2. PICK i \in DOMAIN taken : taken[i] = [plan |-> p, n |-> plan[p].next]
    BY InTaken
  <2> QED
    BY <1>8, <2>1, <2>2
<1>10. TakenIsBehind'
  <2> SUFFICES ASSUME NEW i \in DOMAIN taken
               PROVE  /\ taken[i].plan \in DOMAIN plan /\ taken[i].n <= plan'[taken[i].plan].next
                      /\ Unsent(taken[i].plan)' => taken[i].n < plan'[taken[i].plan].next
    BY <1>4 DEF TakenIsBehind
  <2>1. /\ taken[i].plan \in DOMAIN plan /\ taken[i].n <= plan[taken[i].plan].next
        /\ Unsent(taken[i].plan) => taken[i].n < plan[taken[i].plan].next
    BY <1>1 DEF InOrder, TakenIsBehind
  <2>2. CASE taken[i].plan = p
    <3>1. taken[i].n \in Nat
      <4>1. taken[i] \in CallOf
        BY <1>1 DEF CoTypes
      <4> QED
        BY <4>1 DEF CallOf
    <3> QED
      BY <1>4, <1>8, <2>1, <2>2, <3>1
  <2>3. CASE taken[i].plan # p
    BY <1>4, <2>1, <2>3 DEF Unsent
  <2> QED
    BY <2>2, <2>3
<1>11. LastIsTaken'
  <2> SUFFICES ASSUME NEW q \in DOMAIN plan, plan'[q].next # 1
               PROVE  [plan |-> q, n |-> plan'[q].next - 1] \in Co!ToSet(taken)
    BY <1>4 DEF LastIsTaken
  <2>1. CASE q = p
    <3>1. plan'[q].next = plan[p].next + 1
      BY <1>4, <2>1
    <3> DEFINE k == plan'[q].next
               m == plan[p].next
    <3>2. k = m + 1 /\ m \in Nat
      BY <1>8, <3>1
    <3> HIDE DEF k, m
    <3>3. k - 1 = m
      BY <3>2
    <3> USE DEF m
    <3> HIDE DEF k
    <3>4. [plan |-> q, n |-> k - 1] \in Co!ToSet(taken)
      BY <2>1, <3>3, Zenon
    <3> QED
      BY <3>4 DEF k
  <2>2. CASE q # p
    BY <1>1, <1>4, <2>2 DEF InOrder, LastIsTaken
  <2> QED
    BY <2>1, <2>2
<1>12. OnTheWay'
  BY <1>1, <1>4, <1>9 DEF InOrder, OnTheWay, Unsent
<1>13. AnswersAreTaken'
  BY <1>1 DEF InOrder, AnswersAreTaken, OnlyRead
<1>14. OneCallWaits'
  BY <1>1, <1>4, <1>5 DEF InOrder, OneCallWaits
<1>15. Co!PlansArriveWithoutGaps'
  BY <1>1 DEF InOrder, Co!PlansArriveWithoutGaps
<1>16. \A d \in Decks : OneMix(d)' /\ OneTask(d)'
  <2> TAKE d \in Decks
  <2>1. OneMix(d) /\ OneTask(d)
    BY DEF CoInv
  <2>2. CASE last
    <3>1. s = "done"
      BY <2>2 DEF s
    <3>2. Co!Tasks(d)' = Co!Tasks(d) \ {p} /\ Co!Mixes(d)' = Co!Mixes(d) \ {p}
      BY <1>4, <3>1, TasksAfter
    <3>3. \A q \in Co!Mixes(d)' : plan'[q].from = plan[q].from
      BY <1>4, <3>2 DEF Co!Mixes, Co!Tasks, Co!Plans
    <3>4. CASE plan[p].by # d
      BY <1>4, <1>6, <2>1, <3>2, <3>3, <3>4, MixStays
    <3>5. CASE plan[p].by = d
      <4>1. p \in Co!Mixes(d) /\ Co!Mixes(d) \subseteq Co!Tasks(d)
        BY <3>5 DEF Co!Mixes, Co!Tasks, Co!Plans, Co!Ended
      <4>2. ~crossed[d] => Co!Mixes(d)' = {}
        BY <2>1, <3>2, <4>1 DEF OneMix
      <4>3. ~stacked[d] => Co!Mixes(d)' = {}
        BY <2>1, <3>2, <4>1 DEF OneTask
      <4> QED
        BY <1>4, <1>6, <2>1, <3>2, <3>3, <4>2, <4>3, MixStays
    <3> QED
      BY <3>4, <3>5
  <2>3. CASE ~last
    <3>1. s = "send" /\ auto' = auto
      BY <1>2, <2>3 DEF s
    <3>2. Co!Tasks(d)' = Co!Tasks(d) /\ Co!Mixes(d)' = Co!Mixes(d)
      BY <1>4, <3>1, TasksStay
    <3>3. \A q \in Co!Mixes(d)' : plan'[q].from = plan[q].from
      BY <1>4, <3>2 DEF Co!Mixes, Co!Tasks, Co!Plans
    <3> QED
      BY <1>4, <2>1, <3>1, <3>2, <3>3, MixStays
  <2> QED
    BY <2>2, <2>3
<1> QED
  BY <1>7, <1>10, <1>11, <1>12, <1>13, <1>14, <1>15, <1>16 DEF CoInv, InOrder

\* A call is made: its event is sent, or lost with the connection.
LEMMA WaitsKeeps ==
  ASSUME CoInv, NEW p \in DOMAIN plan, Unsent(p), Co!Waits(p),
         \/ to_engine' = Append(to_engine, [plan |-> p, n |-> plan[p].next])
         \/ to_engine' = to_engine,
         UNCHANGED <<taken, from_engine, crossed, stacked>>
  PROVE  CoInv'
<1> DEFINE c == [plan |-> p, n |-> plan[p].next]
<1>1. CoTypes /\ InOrder
  BY DEF CoInv
<1>2. /\ plan' = [plan EXCEPT ![p].step = "wait"] /\ pending' = Append(pending, c)
      /\ auto' = IF plan[p].by = "proposer" THEN auto
                 ELSE [auto EXCEPT ![plan[p].by].status = "transitioning"]
  BY DEF Co!Waits
<1>3. /\ plan' \in Seq(PlanState) /\ DOMAIN plan' = DOMAIN plan
      /\ \A q \in DOMAIN plan :
           /\ plan'[q].by = plan[q].by /\ plan'[q].from = plan[q].from
           /\ plan'[q].next = plan[q].next
           /\ plan'[q].step = IF q = p THEN "wait" ELSE plan[q].step
  BY <1>1, <1>2, StepAt DEF Steps
<1>4. plan[p] \in PlanState /\ p \in Nat
  BY <1>1, PlanStates DEF CoTypes
<1>5. c \in CallOf /\ c.plan = p /\ c.n = plan[p].next
  BY <1>4 DEF CallOf, PlanState
<1>6. /\ pending \in Seq(CallOf) /\ to_engine \in Seq(CallOf) /\ taken \in Seq(CallOf)
  BY <1>1 DEF CoTypes
<1> HIDE DEF c
<1>7. /\ pending' \in Seq(CallOf) /\ DOMAIN pending' = DOMAIN pending \cup {Len(pending) + 1}
      /\ \A k \in DOMAIN pending : pending'[k] = pending[k] /\ k # Len(pending) + 1
      /\ pending'[Len(pending) + 1] = c
  BY <1>2, <1>5, <1>6
<1>8. \A k \in DOMAIN pending : pending[k].plan # p
  BY <1>1 DEF InOrder, OneCallWaits, Unsent
<1>9. \A k \in DOMAIN to_engine : to_engine[k].plan # p
  BY <1>1 DEF InOrder, OnTheWay
<1>10. /\ to_engine' \in Seq(CallOf) /\ DOMAIN to_engine \subseteq DOMAIN to_engine'
       /\ \A k \in DOMAIN to_engine : to_engine'[k] = to_engine[k]
       /\ \A k \in DOMAIN to_engine' \ DOMAIN to_engine :
            to_engine'[k] = c /\ \A l \in DOMAIN to_engine' \ DOMAIN to_engine : l = k
  <2>1. CASE to_engine' = to_engine
    BY <1>6, <2>1
  <2>2. CASE to_engine' = Append(to_engine, c)
    BY <1>5, <1>6, <2>2
  <2> QED
    BY <2>1, <2>2 DEF c
<1>11. auto' \in [Decks -> DeckState] /\ \A d \in Decks :
         /\ auto'[d].status \in {auto[d].status, "transitioning"}
         /\ auto'[d].track = auto[d].track /\ auto'[d].task = auto[d].task
         /\ auto'[d].enabled = auto[d].enabled
  <2> DEFINE b == plan[p].by
  <2>1. b \in Decks \cup {"proposer"} /\ auto \in [Decks -> DeckState]
    BY <1>1, <1>4 DEF PlanState, CoTypes
  <2>2. CASE b = "proposer"
    BY <1>2, <2>1, <2>2
  <2>3. CASE b # "proposer"
    <3>1. [auto[b] EXCEPT !.status = "transitioning"] \in DeckState
      BY <1>1, <2>1, <2>3, DeckStates DEF DeckState
    <3>2. auto' = [auto EXCEPT ![b] = [@ EXCEPT !.status = "transitioning"]]
      BY <1>2, <2>1, <2>3
    <3> HIDE DEF b
    <3>3. auto' \in [Decks -> DeckState]
      BY <2>1, <2>3, <3>1, <3>2
    <3>4. \A d \in Decks : auto[d] \in DeckState
      BY <2>1
    <3> QED
      BY <2>1, <2>3, <3>2, <3>3, <3>4 DEF DeckState
  <2> QED
    BY <2>2, <2>3
<1>12. CoTypes'
  BY <1>1, <1>3, <1>7, <1>10, <1>11 DEF CoTypes
<1>13. \A q \in DOMAIN plan : Unsent(q)' => Unsent(q) /\ q # p
  BY <1>3 DEF Unsent
<1>14. TakenIsBehind'
  BY <1>1, <1>3, <1>13 DEF InOrder, TakenIsBehind
<1>15. LastIsTaken'
  BY <1>1, <1>3 DEF InOrder, LastIsTaken
<1>16. OnTheWay'
  <2> SUFFICES ASSUME NEW k \in DOMAIN to_engine'
               PROVE  /\ to_engine'[k].plan \in DOMAIN plan
                      /\ plan'[to_engine'[k].plan].step \notin {"start", "send"}
                      /\ to_engine'[k].n = plan[to_engine'[k].plan].next
                      /\ \A i \in DOMAIN taken : taken[i].plan = to_engine'[k].plan =>
                           taken[i].n < to_engine'[k].n
                      /\ \A l \in DOMAIN to_engine' :
                           to_engine'[l].plan = to_engine'[k].plan => l = k
    BY <1>3 DEF OnTheWay, Unsent
  <2>1. CASE k \in DOMAIN to_engine
    <3>1. /\ to_engine[k].plan \in DOMAIN plan /\ ~Unsent(to_engine[k].plan)
          /\ to_engine[k].n = plan[to_engine[k].plan].next
          /\ \A i \in DOMAIN taken : taken[i].plan = to_engine[k].plan => taken[i].n < to_engine[k].n
          /\ \A l \in DOMAIN to_engine : to_engine[l].plan = to_engine[k].plan => l = k
      BY <1>1, <2>1 DEF InOrder, OnTheWay
    <3>2. to_engine'[k] = to_engine[k] /\ to_engine[k].plan # p
      BY <1>9, <1>10, <2>1
    <3>3. plan'[to_engine[k].plan].step = plan[to_engine[k].plan].step
      BY <1>3, <3>1, <3>2
    <3>4. \A l \in DOMAIN to_engine' : to_engine'[l].plan = to_engine[k].plan => l = k
      BY <1>5, <1>10, <3>1, <3>2
    <3> QED
      BY <3>1, <3>2, <3>3, <3>4 DEF Unsent
  <2>2. CASE k \notin DOMAIN to_engine
    <3>1. to_engine'[k] = c /\ to_engine'[k].plan = p
      BY <1>5, <1>10, <2>2
    <3>2. \A l \in DOMAIN to_engine' : to_engine'[l].plan = p => l = k
      BY <1>9, <1>10, <2>2
    <3>3. \A i \in DOMAIN taken : taken[i].plan = p => taken[i].n < plan[p].next
      BY <1>1 DEF InOrder, TakenIsBehind
    <3> QED
      BY <1>3, <1>5, <3>1, <3>2, <3>3
  <2> QED
    BY <2>1, <2>2
<1>17. AnswersAreTaken'
  BY <1>1 DEF InOrder, AnswersAreTaken
<1>18. OneCallWaits'
  <2> SUFFICES ASSUME NEW k \in DOMAIN pending'
               PROVE  /\ pending'[k].plan \in DOMAIN plan
                      /\ plan'[pending'[k].plan].step \in {"wait", "cancelled"}
                      /\ pending'[k].n = plan[pending'[k].plan].next
                      /\ \A l \in DOMAIN pending' : pending'[l].plan = pending'[k].plan => l = k
    BY <1>3 DEF OneCallWaits
  <2>1. CASE k \in DOMAIN pending
    BY <1>1, <1>3, <1>5, <1>7, <1>8, <2>1 DEF InOrder, OneCallWaits
  <2>2. CASE k = Len(pending) + 1
    BY <1>3, <1>5, <1>7, <1>8, <2>2
  <2> QED
    BY <1>7, <2>1, <2>2
<1>19. Co!PlansArriveWithoutGaps'
  BY <1>1 DEF InOrder, Co!PlansArriveWithoutGaps
<1>20. \A d \in Decks : OneMix(d)' /\ OneTask(d)'
  <2> TAKE d \in Decks
  <2>1. OneMix(d) /\ OneTask(d)
    BY DEF CoInv
  <2>2. Co!Tasks(d)' = Co!Tasks(d) /\ Co!Mixes(d)' = Co!Mixes(d)
    BY <1>3, TasksStay DEF Unsent
  <2>3. \A q \in Co!Mixes(d)' : plan'[q].from = plan[q].from
    BY <1>3, <2>2 DEF Co!Mixes, Co!Tasks, Co!Plans
  <2> QED
    BY <1>3, <1>11, <2>1, <2>2, <2>3, MixStays
<1> QED
  BY <1>12, <1>14, <1>15, <1>16, <1>17, <1>18, <1>19, <1>20 DEF CoInv, InOrder

\* A deck's task is over as soon as the cancelled task gets to run.
LEMMA CancelLandsKeeps ==
  ASSUME CoInv, NEW p \in DOMAIN plan, Co!CancelLands(p) PROVE CoInv'
<1> DEFINE b == plan[p].by
<1>1. CoTypes /\ InOrder
  BY DEF CoInv
<1>2. /\ plan[p].step = "cancelled" /\ plan' = [plan EXCEPT ![p].step = "failed"]
      /\ pending' = Co!Without(p) /\ auto' = [auto EXCEPT ![b].task = None]
      /\ UNCHANGED <<from_engine, to_engine, taken, crossed, stacked>>
  BY DEF Co!CancelLands
<1>3. /\ plan' \in Seq(PlanState) /\ DOMAIN plan' = DOMAIN plan
      /\ \A q \in DOMAIN plan :
           /\ plan'[q].by = plan[q].by /\ plan'[q].from = plan[q].from
           /\ plan'[q].next = plan[q].next
           /\ plan'[q].step = IF q = p THEN "failed" ELSE plan[q].step
  BY <1>1, <1>2, StepAt DEF Steps
<1>4. /\ pending' \in Seq(CallOf)
      /\ \A k \in DOMAIN pending' :
           /\ plan'[pending'[k].plan].step \in {"wait", "cancelled"}
           /\ \E i \in DOMAIN pending : pending'[k] = pending[i]
      /\ \A k, l \in DOMAIN pending' : pending'[k].plan = pending'[l].plan => k = l
  BY <1>2, <1>3, PendingAfter
<1> HIDE DEF b
<1>5. /\ auto' \in [Decks -> DeckState]
      /\ \A d \in Decks : IF d = b
           THEN auto'[d].task = None /\ auto'[d].status = auto[d].status /\ auto'[d].track = auto[d].track
           ELSE auto'[d] = auto[d]
  <2>1. auto \in [Decks -> DeckState] /\ \A d \in Decks : auto[d] \in DeckState
    BY <1>1 DEF CoTypes
  <2>2. \A d \in Decks : [auto[d] EXCEPT !.task = None] \in DeckState
    BY <2>1 DEF DeckState
  <2>3. auto' = [auto EXCEPT ![b] = [@ EXCEPT !.task = None]]
    BY <1>2
  <2>4. auto' \in [Decks -> DeckState]
    BY <2>1, <2>2, <2>3
  <2> QED
    BY <2>1, <2>3, <2>4 DEF DeckState
<1>6. OnlyRead
  BY <1>1, <1>2, TailIsLeft
<1>7. CoTypes'
  BY <1>1, <1>2, <1>3, <1>4, <1>5 DEF CoTypes
<1>8. InOrder'
  <2>1. \A q \in DOMAIN plan : plan'[q].next = plan[q].next /\ (Unsent(q)' => Unsent(q))
    BY <1>3 DEF Unsent
  <2> QED
    BY <1>1, <1>2, <1>3, <1>4, <1>6, <2>1, OrderStays DEF OnlyRead
<1>9. \A d \in Decks : OneMix(d)' /\ OneTask(d)'
  <2> TAKE d \in Decks
  <2>1. Co!Tasks(d)' = Co!Tasks(d) \ {p} /\ Co!Mixes(d)' = Co!Mixes(d) \ {p}
    BY <1>3, TasksAfter
  <2>2. OneMix(d) /\ OneTask(d)
    BY DEF CoInv
  <2>3. \A q \in Co!Mixes(d)' : plan'[q].from = plan[q].from
    BY <1>3, <2>1 DEF Co!Mixes, Co!Tasks, Co!Plans
  <2>4. CASE d # b
    <3>1. auto'[d] = auto[d]
      BY <1>5, <2>4
    <3> QED
      BY <1>2, <1>3, <2>1, <2>2, <2>3, <3>1, MixStays
  <2>5. CASE d = b
    <3>1. p \in Co!Tasks(d) /\ p \notin Co!Mixes(d) /\ Co!Mixes(d) \subseteq Co!Tasks(d)
      BY <1>2, <2>5 DEF Co!Mixes, Co!Tasks, Co!Plans, Co!Ended, b
    <3>2. ~stacked[d] => Co!Mixes(d)' = {}
      BY <2>1, <2>2, <3>1 DEF OneTask
    <3> QED
      BY <1>2, <1>3, <1>5, <2>1, <2>2, <2>3, <2>5, <3>2, MixStays
  <2> QED
    BY <2>4, <2>5
<1> QED
  BY <1>7, <1>8, <1>9 DEF CoInv

LEMMA ReadAnswerKeeps ==
  ASSUME CoInv, Co!ReadAnswer PROVE CoInv'
<1> DEFINE p == Head(from_engine).plan
           c == [plan |-> p, n |-> Head(from_engine).n]
<1>1. CoTypes /\ InOrder
  BY DEF CoInv
<1>2. /\ from_engine # <<>> /\ Head(from_engine).type = "answer"
      /\ from_engine' = Tail(from_engine)
      /\ UNCHANGED <<to_engine, taken, crossed, stacked>>
      /\ IF c \in Co!ToSet(pending) /\ plan[p].step = "wait"
         THEN Co!Succeeds(p) \/ Co!Fails(p)
         ELSE UNCHANGED <<plan, pending, auto, run>>
  BY DEF Co!ReadAnswer
<1>3. OnlyRead
  BY <1>1, <1>2, TailIsLeft
<1>4. CASE ~(c \in Co!ToSet(pending) /\ plan[p].step = "wait")
  BY <1>2, <1>3, <1>4, LinkKeeps DEF OnlyRead
<1>5. CASE c \in Co!ToSet(pending) /\ plan[p].step = "wait"
  <2>1. c \in Co!ToSet(taken)
    <3>1. 1 \in DOMAIN from_engine /\ Head(from_engine) = from_engine[1]
      BY <1>1, <1>2 DEF CoTypes
    <3> QED
      BY <1>1, <1>2, <3>1 DEF InOrder, AnswersAreTaken
  <2>2. PICK k \in DOMAIN pending : pending[k] = c
    BY <1>5, InTaken
  <2>3. p \in DOMAIN plan /\ plan[p].next = Head(from_engine).n
    BY <1>1, <2>2 DEF InOrder, OneCallWaits
  <2>4. c = [plan |-> p, n |-> plan[p].next]
    BY <2>3
  <2> HIDE DEF p, c
  <2>5. CASE Co!Succeeds(p)
    BY <1>2, <1>3, <1>5, <2>1, <2>3, <2>4, <2>5, SucceedsKeeps
  <2>6. CASE Co!Fails(p)
    BY <1>2, <1>3, <1>5, <2>3, <2>6, FailsKeeps
  <2> QED
    BY <1>2, <1>5, <2>5, <2>6
<1> QED
  BY <1>4, <1>5

LEMMA SendKeeps ==
  ASSUME CoInv, NEW p \in DOMAIN plan, Co!Send(p) \/ Co!Timeout(p) PROVE CoInv'
<1>1. CoTypes
  BY DEF CoInv
<1>2. CASE Co!Timeout(p)
  <2>1. /\ plan[p].step = "wait" /\ Co!Fails(p)
        /\ UNCHANGED <<from_engine, to_engine, taken, crossed, stacked>>
    BY <1>2 DEF Co!Timeout
  <2>2. OnlyRead
    BY <1>1, <2>1, TailIsLeft
  <2> QED
    BY <2>1, <2>2, FailsKeeps
<1>3. CASE Co!Send(p)
  <2>1. /\ plan[p].step \in {"start", "send"}
        /\ UNCHANGED <<from_engine, taken, crossed, stacked>>
        /\ \/ /\ to_engine' = Append(to_engine, [plan |-> p, n |-> plan[p].next])
              /\ Co!Waits(p)
           \/ Co!Waits(p) /\ to_engine' = to_engine
           \/ Co!Fails(p) /\ to_engine' = to_engine
    BY <1>3 DEF Co!Send
  <2>2. OnlyRead
    BY <1>1, <2>1, TailIsLeft
  <2>3. CASE Co!Waits(p)
    BY <2>1, <2>3, WaitsKeeps DEF Unsent
  <2>4. CASE Co!Fails(p) /\ to_engine' = to_engine
    BY <2>1, <2>2, <2>4, FailsKeeps
  <2> QED
    BY <2>1, <2>3, <2>4
<1> QED
  BY <1>2, <1>3

\* set_auto_mix: off cancels the mix, which is the task the deck knows of.
LEMMA SetAutoMixKeeps ==
  ASSUME CoInv, NEW d0 \in Decks, NEW on \in BOOLEAN, Co!SetAutoMix(d0, on) PROVE CoInv'
<1> DEFINE a == auto[d0]
           t == a.task
           stops == ~on /\ t # None
           runs == stops /\ plan[t].step \notin {"done", "failed"}
           s == IF plan[t].step = "start" THEN "failed" ELSE "cancelled"
<1>1. CoTypes /\ InOrder /\ \A d \in Decks : OneMix(d) /\ OneTask(d)
  BY DEF CoInv
<1>2. /\ auto' = [auto EXCEPT ![d0] =
           IF stops THEN [a EXCEPT !.enabled = FALSE, !.status = "idle", !.task = None]
           ELSE [a EXCEPT !.enabled = on]]
      /\ plan' = IF runs THEN [plan EXCEPT ![t].step = s] ELSE plan
      /\ UNCHANGED <<to_engine, from_engine, pending, taken, crossed, stacked>>
  BY DEF Co!SetAutoMix, Co!Ended
<1>3. a \in DeckState /\ t \in DOMAIN plan \cup {None}
  BY <1>1, DeckStates DEF OneTask
<1>4. /\ auto' \in [Decks -> DeckState] /\ \A d \in Decks : d # d0 => auto'[d] = auto[d]
      /\ stops => auto'[d0].task = None
      /\ ~stops => /\ auto'[d0].task = a.task /\ auto'[d0].status = a.status
                   /\ auto'[d0].track = a.track /\ auto'[d0].enabled = on
  <2>1. auto \in [Decks -> DeckState]
    BY <1>1 DEF CoTypes
  <2>2. CASE stops
    <3> DEFINE off == [a EXCEPT !.enabled = FALSE]
               idle == [off EXCEPT !.status = "idle"]
               none == [idle EXCEPT !.task = None]
    <3>1. auto' = [auto EXCEPT ![d0] = none]
      BY <1>2, <2>2
    <3> HIDE DEF a
    <3>2. off \in DeckState
      BY <1>3 DEF DeckState
    <3> HIDE DEF off
    <3>3. idle \in DeckState
      BY <3>2 DEF DeckState
    <3> HIDE DEF idle
    <3>4. none \in DeckState /\ none.task = None
      BY <3>3 DEF DeckState
    <3> HIDE DEF none
    <3>5. none \in DeckState
      BY <3>4
    <3>6. auto' \in [Decks -> DeckState]
      BY <2>1, <3>1, <3>5
    <3> QED
      BY <2>1, <2>2, <3>1, <3>4, <3>6
  <2>3. CASE ~stops
    <3> DEFINE set == [a EXCEPT !.enabled = on]
    <3>1. auto' = [auto EXCEPT ![d0] = set]
      BY <1>2, <2>3
    <3>2. /\ set \in DeckState /\ set.task = a.task /\ set.status = a.status
          /\ set.track = a.track /\ set.enabled = on
      BY <1>3 DEF DeckState
    <3> HIDE DEF set
    <3>3. set \in DeckState
      BY <3>2
    <3>4. auto' \in [Decks -> DeckState]
      BY <2>1, <3>1, <3>3
    <3> QED
      BY <2>1, <2>3, <3>1, <3>2, <3>4
  <2> QED
    BY <2>2, <2>3
<1>5. runs => t \in DOMAIN plan
  BY <1>3
<1>6. s \in {"failed", "cancelled"}
  OBVIOUS
<1>7. /\ plan' \in Seq(PlanState) /\ DOMAIN plan' = DOMAIN plan
      /\ \A q \in DOMAIN plan :
           /\ plan'[q].by = plan[q].by /\ plan'[q].from = plan[q].from
           /\ plan'[q].next = plan[q].next
           /\ plan'[q].step = IF runs /\ q = t THEN s ELSE plan[q].step
  <2>1. CASE runs
    <3> HIDE DEF s, t, runs
    <3>1. s \in Steps
      BY <1>6 DEF Steps
    <3>2. plan' = [plan EXCEPT ![t].step = s]
      BY <1>2, <2>1
    <3> QED
      <4>1. t \in DOMAIN plan
        BY <1>5, <2>1
      <4>2. /\ plan' \in Seq(PlanState) /\ DOMAIN plan' = DOMAIN plan
            /\ \A q \in DOMAIN plan :
                 /\ plan'[q].by = plan[q].by /\ plan'[q].from = plan[q].from
                 /\ plan'[q].next = plan[q].next
                 /\ plan'[q].step = IF q = t THEN s ELSE plan[q].step
        BY <1>1, <3>1, <3>2, <4>1, StepAt, Zenon
      <4> QED
        BY <2>1, <4>2
  <2>2. CASE ~runs
    BY <1>1, <1>2, <2>2 DEF CoTypes
  <2> QED
    BY <2>1, <2>2
<1>8. CoTypes'
  BY <1>1, <1>2, <1>4, <1>7 DEF CoTypes
<1>9. InOrder'
  <2>1. \A q \in DOMAIN plan : plan'[q].next = plan[q].next /\ (Unsent(q)' => Unsent(q))
    BY <1>6, <1>7 DEF Unsent
  <2>2. OnlyRead
    BY <1>1, <1>2, TailIsLeft
  <2>3. \A k \in DOMAIN pending' :
          /\ plan'[pending'[k].plan].step \in {"wait", "cancelled"}
          /\ \E i \in DOMAIN pending : pending'[k] = pending[i]
    <3> TAKE k \in DOMAIN pending'
    <3>1. /\ pending'[k] = pending[k] /\ k \in DOMAIN pending
          /\ pending[k].plan \in DOMAIN plan /\ plan[pending[k].plan].step \in {"wait", "cancelled"}
      BY <1>1, <1>2 DEF InOrder, OneCallWaits
    <3> QED
      BY <1>7, <3>1
  <2>4. \A k, l \in DOMAIN pending' : pending'[k].plan = pending'[l].plan => k = l
    BY <1>1, <1>2 DEF InOrder, OneCallWaits
  <2> QED
    BY <1>1, <1>2, <1>7, <2>1, <2>2, <2>3, <2>4, OrderStays DEF OnlyRead
<1>10. \A d \in Decks : OneMix(d)' /\ OneTask(d)'
  <2> TAKE d \in Decks
  <2>1. OneMix(d) /\ OneTask(d)
    BY <1>1
  <2>2. /\ Co!Tasks(d)' \subseteq Co!Tasks(d) /\ Co!Mixes(d)' \subseteq Co!Mixes(d)
        /\ \A q \in Co!Mixes(d)' : plan'[q].from = plan[q].from
        /\ stops => t \notin Co!Mixes(d)'
    <3> HIDE DEF t, s
    <3> QED
      BY <1>6, <1>7 DEF Co!Mixes, Co!Tasks, Co!Plans, Co!Ended
  <2>3. CASE d # d0
    <3>1. auto'[d] = auto[d]
      BY <1>4, <2>3
    <3> QED
      BY <1>2, <1>7, <2>1, <2>2, <3>1, MixStays
  <2>4. CASE d = d0 /\ stops
    <3>1. ~crossed[d] => \A q \in Co!Mixes(d) : q = t
      BY <2>1, <2>4 DEF OneMix
    <3>2. ~stacked[d] => \A q \in Co!Mixes(d) : q = t
      BY <2>1, <2>4 DEF OneTask
    <3>3. (~crossed[d] \/ ~stacked[d]) => Co!Mixes(d)' = {}
      BY <2>2, <2>4, <3>1, <3>2
    <3>4. auto'[d].task = None
      BY <1>4, <2>4
    <3> QED
      BY <1>2, <1>7, <2>1, <2>2, <3>3, <3>4, MixStays
  <2>5. CASE d = d0 /\ ~stops
    <3>1. ~stacked[d] => Co!Mixes(d)' = {} \/ auto'[d].enabled = auto[d].enabled
      <4> SUFFICES ASSUME ~stacked[d], NEW q \in Co!Mixes(d)' PROVE auto'[d].enabled = auto[d].enabled
        OBVIOUS
      <4>1. q \in Co!Mixes(d)
        BY <2>2
      <4>2. auto[d].task = q /\ auto[d].enabled
        BY <2>1, <4>1 DEF OneTask
      <4>3. q \in Nat
        BY <1>1, <4>1 DEF CoTypes, Co!Mixes, Co!Tasks, Co!Plans
      <4>4. on
        BY <2>5, <4>2, <4>3, CoConstants
      <4>5. auto'[d].enabled = on /\ on = TRUE
        BY <1>4, <2>5, <4>4
      <4>6. auto[d].enabled = TRUE
        BY <1>3, <2>5, <4>2 DEF DeckState
      <4> QED
        BY <4>5, <4>6
    <3> QED
      BY <1>2, <1>4, <1>7, <2>1, <2>2, <2>5, <3>1, MixStays
  <2> QED
    BY <2>3, <2>4, <2>5
<1> QED
  BY <1>8, <1>9, <1>10 DEF CoInv

\* A finite set put in some sequence: all of it, nothing else, nothing twice.
LEMMA SeqOfSet ==
  ASSUME NEW S, IsFiniteSet(S)
  PROVE  /\ Co!SetToSeq(S) \in Seq(S)
         /\ \A e \in S : \E i \in DOMAIN Co!SetToSeq(S) : Co!SetToSeq(S)[i] = e
         /\ \A i, j \in DOMAIN Co!SetToSeq(S) : Co!SetToSeq(S)[i] = Co!SetToSeq(S)[j] => i = j
<1> DEFINE n == Cardinality(S)
           f == Co!SetToSeq(S)
<1>1. n \in Nat /\ ExistsBijection(1..n, S)
  BY FS_CardinalityType
<1>2. PICK g \in [1..n -> S] : Co!IsInjective(g)
  BY <1>1 DEF ExistsBijection, Bijection, Injection, IsInjective, Co!IsInjective
<1>3. f = CHOOSE h \in [1..n -> S] : Co!IsInjective(h)
  BY DEF Co!SetToSeq, Co!Cardinality, Cardinality
<1> HIDE DEF f
<1>4. f \in [1..n -> S] /\ Co!IsInjective(f)
  BY <1>2, <1>3
<1>5. IsFiniteSet(1..n) /\ Cardinality(1..n) = n
  BY <1>1, FS_Interval
<1>6. f \in Injection(1..n, S)
  BY <1>4 DEF Injection, IsInjective, Co!IsInjective
<1>7. f \in Surjection(1..n, S)
  BY <1>5, <1>6, FS_Injection
<1>8. \A e \in S : \E i \in 1..n : f[i] = e
  BY <1>7 DEF Surjection
<1>9. DOMAIN f = 1..n /\ f \in Seq(S)
  BY <1>1, <1>4
<1>10. \A i, j \in DOMAIN f : f[i] = f[j] => i = j
  BY <1>4 DEF Co!IsInjective
<1> QED
  BY <1>8, <1>9, <1>10 DEF f

\* Who gets a plan: each deck that is launched once, then the proposer.
OnceEach(by, ds) ==
  /\ by \in Seq(Decks \cup {"proposer"})
  /\ \A d \in ds : \E i \in DOMAIN by : by[i] = d /\ \A j \in DOMAIN by : by[j] = d => j = i
  /\ \A d \in Decks \ ds : \A i \in DOMAIN by : by[i] # d

LEMMA WhoPlans ==
  ASSUME NEW ds \in SUBSET Decks, NEW z \in {<<>>, <<"proposer">>}
  PROVE  OnceEach(Co!SetToSeq(ds) \o z, ds)
<1> DEFINE f == Co!SetToSeq(ds)
           by == f \o z
<1>1. IsFiniteSet(ds)
  BY CoConstants, FS_Subset
<1>2. /\ f \in Seq(ds) /\ \A e \in ds : \E i \in DOMAIN f : f[i] = e
      /\ \A i, j \in DOMAIN f : f[i] = f[j] => i = j
  BY <1>1, SeqOfSet
<1>3. /\ z \in Seq({"proposer"}) /\ Len(z) \in Nat /\ DOMAIN z = 1..Len(z)
      /\ \A i \in DOMAIN z : z[i] = "proposer"
  <2>1. CASE z = <<"proposer">>
    BY <2>1
  <2>2. CASE z = <<>>
    BY <2>2
  <2> QED
    BY <2>1, <2>2
<1> HIDE DEF f
<1>4. by = f \o z
  OBVIOUS
<1> HIDE DEF by
<1>5. /\ Len(f) \in Nat /\ Len(z) \in Nat /\ DOMAIN f = 1..Len(f) /\ DOMAIN z = 1..Len(z)
      /\ \A i \in DOMAIN f : f[i] \in ds
  BY <1>2, <1>3
<1>6. /\ by \in Seq(Decks \cup {"proposer"}) /\ DOMAIN by = 1..Len(f) + Len(z)
      /\ \A i \in 1..Len(f) : by[i] = f[i]
      /\ \A i \in Len(f) + 1..Len(f) + Len(z) : by[i] = z[i - Len(f)]
  <2>1. f \in Seq(Decks \cup {"proposer"})
    BY <1>2
  <2>2. z \in Seq(Decks \cup {"proposer"})
    BY <1>3
  <2>3. by \in Seq(Decks \cup {"proposer"}) /\ Len(by) = Len(f) + Len(z)
    BY <1>4, <2>1, <2>2, ConcatProperties
  <2>4. \A i \in 1..Len(f) + Len(z) : by[i] = IF i <= Len(f) THEN f[i] ELSE z[i - Len(f)]
    BY <1>4, <2>1, <2>2, ConcatProperties
  <2> QED
    BY <1>5, <2>3, <2>4
<1>7. \A i \in DOMAIN by :
        \/ i \in DOMAIN f /\ by[i] = f[i] /\ by[i] \in ds
        \/ i \notin DOMAIN f /\ by[i] = "proposer"
  <2> TAKE i \in DOMAIN by
  <2>1. CASE i \in DOMAIN f
    BY <1>2, <1>5, <1>6, <2>1
  <2>2. CASE i \notin DOMAIN f
    <3>1. i \in Len(f) + 1..Len(f) + Len(z) /\ i - Len(f) \in DOMAIN z
      BY <1>5, <1>6, <2>2
    <3>2. z[i - Len(f)] = "proposer"
      BY <1>3, <3>1
    <3> QED
      BY <1>6, <2>2, <3>1, <3>2
  <2> QED
    BY <2>1, <2>2
<1>8. \A d \in ds : \E i \in DOMAIN by : by[i] = d /\ \A j \in DOMAIN by : by[j] = d => j = i
  <2> TAKE d \in ds
  <2>1. PICK i \in DOMAIN f : f[i] = d
    BY <1>2
  <2>2. i \in DOMAIN by /\ by[i] = d /\ d # "proposer"
    BY <1>5, <1>6, <2>1, CoConstants
  <2>3. ASSUME NEW j \in DOMAIN by, by[j] = d PROVE j = i
    BY <1>2, <1>7, <2>1, <2>2, <2>3
  <2> QED
    BY <2>2, <2>3
<1>9. \A d \in Decks \ ds : \A i \in DOMAIN by : by[i] # d
  BY <1>7, CoConstants
<1> QED
  BY <1>6, <1>8, <1>9 DEF OnceEach, by, f

\* Two sequences one after the other.
LEMMA Concatenated ==
  ASSUME NEW S, NEW a \in Seq(S), NEW b \in Seq(S)
  PROVE  /\ a \o b \in Seq(S) /\ Len(a \o b) = Len(a) + Len(b)
         /\ \A i \in 1..Len(a) : (a \o b)[i] = a[i]
         /\ \A i \in 1..Len(b) : (a \o b)[Len(a) + i] = b[i]
  BY ConcatProperties

\* on_state: the decks are looked at and the plans that are due begin.
LEMMA ReadNoticeKeeps ==
  ASSUME CoInv, Co!ReadNotice PROVE CoInv'
<1> DEFINE s == Head(from_engine).state
           L == Len(plan)
<1>1. CoTypes /\ InOrder /\ \A d \in Decks : OneMix(d) /\ OneTask(d)
  BY DEF CoInv
<1>2. /\ from_engine # <<>> /\ Head(from_engine).type = "state" /\ from_engine' = Tail(from_engine)
      /\ UNCHANGED <<to_engine, pending, taken>>
  BY DEF Co!ReadNotice, Co!bounds
<1>3. PICK proposes \in BOOLEAN, ds \in SUBSET {d \in Decks : Co!Launches(d, s)} :
        LET by == Co!SetToSeq(ds) \o IF proposes THEN <<"proposer">> ELSE <<>>
        IN /\ plan' = plan \o [i \in DOMAIN by |-> Co!New(by[i], s)]
           /\ Co!Tick(s, [d \in ds |-> Len(plan) + CHOOSE i \in DOMAIN by : by[i] = d])
  BY Zenon DEF Co!ReadNotice
<1> DEFINE by == Co!SetToSeq(ds) \o IF proposes THEN <<"proposer">> ELSE <<>>
<1>4. OnlyRead
  BY <1>1, <1>2, TailIsLeft
<1>5. s \in Co!States
  <2>1. Head(from_engine) \in Frame
    BY <1>1, <1>2 DEF CoTypes
  <2> QED
    BY <1>2, <2>1 DEF Frame
<1> HIDE DEF s
<1>6. \A d \in Decks : s[d].loaded \in Tracks
  BY <1>5 DEF Co!States
<1>a. /\ plan' = plan \o [i \in DOMAIN by |-> Co!New(by[i], s)]
      /\ Co!Tick(s, [d \in ds |-> L + CHOOSE i \in DOMAIN by : by[i] = d])
  BY <1>3, Zenon
<1>b. by = Co!SetToSeq(ds) \o IF proposes THEN <<"proposer">> ELSE <<>>
  OBVIOUS
<1> HIDE DEF by
<1>7. /\ by \in Seq(Decks \cup {"proposer"})
      /\ \A d \in ds : \E i \in DOMAIN by : by[i] = d /\ \A j \in DOMAIN by : by[j] = d => j = i
      /\ \A d \in Decks \ ds : \A i \in DOMAIN by : by[i] # d
  <2>1. ds \in SUBSET Decks
    OBVIOUS
  <2> DEFINE z == IF proposes THEN <<"proposer">> ELSE <<>>
  <2>2. z \in {<<>>, <<"proposer">>}
    OBVIOUS
  <2>3. by = Co!SetToSeq(ds) \o z
    BY <1>b
  <2> HIDE DEF z
  <2>4. OnceEach(Co!SetToSeq(ds) \o z, ds)
    BY <2>1, <2>2, WhoPlans, Zenon
  <2>5. OnceEach(by, ds)
    BY <2>3, <2>4, Zenon
  <2> QED
    BY <2>5, Zenon DEF OnceEach
<1>8. L \in Nat /\ DOMAIN plan = 1..L /\ Len(by) \in Nat /\ DOMAIN by = 1..Len(by)
  BY <1>1, <1>7 DEF CoTypes
<1>9. \A i \in DOMAIN by :
        /\ Co!New(by[i], s) \in PlanState
        /\ Co!New(by[i], s).by = by[i] /\ Co!New(by[i], s).next = 1
        /\ Co!New(by[i], s).step \in {"send", "start"}
        /\ by[i] \in Decks => Co!New(by[i], s).from = s[by[i]].loaded
  <2> TAKE i \in DOMAIN by
  <2>1. by[i] \in Decks \cup {"proposer"}
    BY <1>7
  <2> QED
    BY <1>6, <2>1, CoConstants DEF Co!New, PlanState
<1> HIDE DEF L
<1>10. /\ plan' \in Seq(PlanState) /\ DOMAIN plan' = 1..L + Len(by)
       /\ \A q \in 1..L : plan'[q] = plan[q]
       /\ \A i \in DOMAIN by : plan'[L + i] = Co!New(by[i], s)
  <2> DEFINE new == [i \in DOMAIN by |-> Co!New(by[i], s)]
  <2>1. new \in Seq(PlanState) /\ Len(new) = Len(by) /\ \A i \in DOMAIN by : new[i] = Co!New(by[i], s)
    <3>1. new \in [1..Len(by) -> PlanState]
      BY <1>8, <1>9
    <3> QED
      BY <1>8, <3>1
  <2> HIDE DEF new
  <2>2. plan' = plan \o new /\ plan \in Seq(PlanState) /\ Len(plan) = L
    BY <1>1, <1>a DEF new, L, CoTypes
  <2>3. plan' \in Seq(PlanState) /\ Len(plan') = L + Len(by)
    <3>1. new \in Seq(PlanState)
      BY <2>1
    <3>2. plan \in Seq(PlanState)
      BY <2>2
    <3>3. plan \o new \in Seq(PlanState) /\ Len(plan \o new) = Len(plan) + Len(new)
      BY <3>1, <3>2, Concatenated, Zenon
    <3> QED
      BY <2>1, <2>2, <3>3
  <2>4. \A q \in 1..L : plan'[q] = plan[q]
    BY <1>8, <2>1, <2>2, Concatenated
  <2>5. \A i \in DOMAIN by : plan'[L + i] = new[i]
    BY <1>8, <2>1, <2>2, Concatenated
  <2> QED
    BY <2>1, <2>3, <2>4, <2>5
<1>11. DOMAIN plan \subseteq DOMAIN plan' /\ \A q \in DOMAIN plan : plan'[q] = plan[q]
  BY <1>8, <1>10
<1>12. \A q \in DOMAIN plan' \ DOMAIN plan :
         /\ q - L \in DOMAIN by /\ q = L + (q - L) /\ plan'[q] = Co!New(by[q - L], s)
         /\ plan'[q].next = 1 /\ plan'[q].by = by[q - L]
  <2> TAKE q \in DOMAIN plan' \ DOMAIN plan
  <2>1. q - L \in DOMAIN by /\ q = L + (q - L)
    BY <1>8, <1>10
  <2> QED
    BY <1>9, <1>10, <2>1
<1> DEFINE started == [d \in ds |-> L + CHOOSE i \in DOMAIN by : by[i] = d]
<1>13. \A d \in ds : started[d] \in DOMAIN plan' \ DOMAIN plan /\ plan'[started[d]].by = d
  <2> TAKE d \in ds
  <2>1. PICK i \in DOMAIN by : i = CHOOSE k \in DOMAIN by : by[k] = d
    BY <1>7
  <2>2. by[i] = d
    BY <1>7, <2>1
  <2>3. started[d] = L + i
    BY <2>1
  <2>4. L + i \in DOMAIN plan' \ DOMAIN plan
    BY <1>8, <1>10
  <2> QED
    BY <1>9, <1>10, <2>2, <2>3, <2>4
<1>14. DOMAIN started = ds
  OBVIOUS
<1>15. Co!Tick(s, started)
  BY <1>a
<1> HIDE DEF started
<1>16. /\ auto' = [d \in Decks |->
            IF Co!Reloaded(d, s) THEN [auto[d] EXCEPT !.status = "idle", !.track = None]
            ELSE IF d \in ds
            THEN [auto[d] EXCEPT !.status = "armed", !.track = s[d].loaded, !.task = started[d]]
            ELSE auto[d]]
       /\ crossed' = [d \in Decks |-> crossed[d] \/ \E p \in Co!Mixes(d) : plan[p].from # s[d].loaded]
       /\ stacked' = [d \in Decks |-> stacked[d] \/ (d \in ds /\ Co!Tasks(d) # {})]
  BY <1>14, <1>15 DEF Co!Tick
<1>17. \A d \in ds : /\ ~Co!Reloaded(d, s) /\ auto[d].status = "idle" /\ auto[d].enabled /\ d \in Decks
  BY DEF Co!Launches, Co!Reloaded
<1>18. \A d \in Decks :
         /\ auto'[d] \in DeckState /\ auto'[d].enabled = auto[d].enabled
         /\ Co!Reloaded(d, s) => auto'[d].status = "idle" /\ auto'[d].task = auto[d].task
         /\ ~Co!Reloaded(d, s) /\ d \notin ds => auto'[d] = auto[d]
         /\ d \in ds => /\ auto'[d].status = "armed" /\ auto'[d].track = s[d].loaded
                        /\ auto'[d].task = started[d]
  <2> TAKE d \in Decks
  <2>1. auto[d] \in DeckState
    BY <1>1, DeckStates
  <2>2. CASE Co!Reloaded(d, s)
    <3> DEFINE idle == [auto[d] EXCEPT !.status = "idle"]
               none == [idle EXCEPT !.track = None]
    <3>1. auto'[d] = none
      BY <1>16, <2>2
    <3>2. /\ idle \in DeckState /\ idle.status = "idle" /\ idle.task = auto[d].task
          /\ idle.enabled = auto[d].enabled
      BY <2>1 DEF DeckState
    <3> HIDE DEF idle
    <3>3. /\ none \in DeckState /\ none.status = "idle" /\ none.task = auto[d].task
          /\ none.enabled = auto[d].enabled
      BY <3>2 DEF DeckState
    <3> QED
      BY <1>17, <2>2, <3>1, <3>3
  <2>3. CASE d \in ds
    <3> DEFINE armed == [auto[d] EXCEPT !.status = "armed"]
               tracked == [armed EXCEPT !.track = s[d].loaded]
               tasked == [tracked EXCEPT !.task = started[d]]
    <3>1. auto'[d] = tasked
      BY <1>16, <1>17, <2>3
    <3>2. /\ armed \in DeckState /\ armed.status = "armed" /\ armed.enabled = auto[d].enabled
      BY <2>1 DEF DeckState
    <3> HIDE DEF armed
    <3>3. /\ tracked \in DeckState /\ tracked.status = "armed" /\ tracked.enabled = auto[d].enabled
          /\ tracked.track = s[d].loaded
      BY <1>6, <3>2 DEF DeckState
    <3> HIDE DEF tracked
    <3>4. started[d] \in Nat
      BY <1>8, <1>10, <1>13, <2>3
    <3>5. /\ tasked \in DeckState /\ tasked.status = "armed" /\ tasked.enabled = auto[d].enabled
          /\ tasked.track = s[d].loaded /\ tasked.task = started[d]
      BY <3>3, <3>4 DEF DeckState
    <3> QED
      BY <1>17, <2>3, <3>1, <3>5
  <2>4. CASE ~Co!Reloaded(d, s) /\ d \notin ds
    BY <1>16, <2>1, <2>4
  <2> QED
    BY <2>2, <2>3, <2>4
<1>19. CoTypes'
  <2>1. auto' \in [Decks -> DeckState]
    <3>1. auto' = [d \in Decks |-> auto'[d]]
      BY <1>16
    <3> QED
      BY <1>18, <3>1
  <2>2. crossed' \in [Decks -> BOOLEAN] /\ stacked' \in [Decks -> BOOLEAN]
    BY <1>1, <1>16 DEF CoTypes
  <2> QED
    BY <1>1, <1>2, <1>4, <1>10, <2>1, <2>2 DEF CoTypes, OnlyRead
<1>20. InOrder'
  <2> USE DEF InOrder
  <2>1. TakenIsBehind'
    BY <1>1, <1>2, <1>11 DEF TakenIsBehind, Unsent
  <2>2. LastIsTaken'
    <3> SUFFICES ASSUME NEW q \in DOMAIN plan', plan'[q].next # 1
                 PROVE  [plan |-> q, n |-> plan'[q].next - 1] \in Co!ToSet(taken)
      BY <1>2 DEF LastIsTaken
    <3>1. q \in DOMAIN plan
      BY <1>12
    <3> QED
      BY <1>1, <1>11, <3>1 DEF LastIsTaken
  <2>3. OnTheWay'
    BY <1>1, <1>2, <1>11 DEF OnTheWay, Unsent
  <2>4. AnswersAreTaken'
    BY <1>1, <1>2, <1>4 DEF AnswersAreTaken, OnlyRead
  <2>5. OneCallWaits'
    BY <1>1, <1>2, <1>11 DEF OneCallWaits
  <2>6. Co!PlansArriveWithoutGaps'
    BY <1>1, <1>2 DEF Co!PlansArriveWithoutGaps
  <2> QED
    BY <2>1, <2>2, <2>3, <2>4, <2>5, <2>6
<1>21. \A d \in Decks : OneMix(d)' /\ OneTask(d)'
  <2> TAKE d \in Decks
  <2>1. OneMix(d) /\ OneTask(d)
    BY <1>1
  <2>2. /\ ~crossed'[d] => ~crossed[d] /\ \A p \in Co!Mixes(d) : plan[p].from = s[d].loaded
        /\ ~stacked'[d] => ~stacked[d] /\ (d \in ds => Co!Tasks(d) = {})
    BY <1>16
  <2>3. Co!Mixes(d) \subseteq DOMAIN plan /\ Co!Tasks(d) \subseteq DOMAIN plan
        /\ Co!Mixes(d) \subseteq Co!Tasks(d)
    BY DEF Co!Mixes, Co!Tasks, Co!Plans
  <2>4. CASE d \in ds
    <3>1. \A q \in DOMAIN plan' : plan'[q].by = d => q \in DOMAIN plan \/ q = started[d]
      <4> SUFFICES ASSUME NEW q \in DOMAIN plan', plan'[q].by = d, q \notin DOMAIN plan
                   PROVE  q = started[d]
        OBVIOUS
      <4>1. PICK i \in DOMAIN by : by[i] = d /\ \A j \in DOMAIN by : by[j] = d => j = i
        BY <1>7, <2>4
      <4>2. q - L = i /\ started[d] - L = i
        BY <1>12, <1>13, <2>4, <4>1
      <4>3. q = L + (q - L) /\ started[d] = L + (started[d] - L)
        BY <1>12, <1>13, <2>4
      <4> QED
        BY <4>2, <4>3
    <3>2. Co!Tasks(d)' \subseteq Co!Tasks(d) \cup {started[d]}
      BY <1>11, <3>1 DEF Co!Tasks, Co!Plans
    <3>3. Co!Mixes(d)' \subseteq Co!Mixes(d) \cup {started[d]}
      BY <1>11, <3>1 DEF Co!Tasks, Co!Mixes, Co!Plans
    <3>4. ~crossed'[d] => Co!Mixes(d) = {}
      BY <1>17, <2>1, <2>2, <2>4 DEF OneMix
    <3>5. ~stacked'[d] => Co!Tasks(d) = {}
      BY <2>2, <2>4
    <3>6. plan'[started[d]].from = s[d].loaded
      BY <1>9, <1>12, <1>13, <2>4
    <3>7. OneMix(d)'
      BY <1>18, <2>4, <3>3, <3>4, <3>6 DEF OneMix
    <3>8. started[d] \in DOMAIN plan' /\ auto'[d].task = started[d] /\ auto'[d].enabled
      BY <1>13, <1>17, <1>18, <2>4
    <3>9. OneTask(d)'
      BY <2>3, <3>2, <3>3, <3>5, <3>8 DEF OneTask
    <3> QED
      BY <3>7, <3>9
  <2>5. CASE d \notin ds
    <3>1. \A q \in DOMAIN plan' : plan'[q].by = d => q \in DOMAIN plan
      BY <1>7, <1>12, <2>5
    <3>2. Co!Tasks(d)' = Co!Tasks(d)
      BY <1>11, <3>1 DEF Co!Tasks, Co!Plans
    <3>3. Co!Mixes(d)' = Co!Mixes(d)
      BY <1>11, <3>2, <2>3 DEF Co!Mixes
    <3>4. OneTask(d)'
      <4>1. auto'[d].task = auto[d].task /\ auto'[d].enabled = auto[d].enabled
        BY <1>18, <2>5
      <4> QED
        BY <1>11, <2>1, <2>2, <3>2, <3>3, <4>1 DEF OneTask
    <3>5. CASE Co!Reloaded(d, s)
      <4>1. ~crossed'[d] => Co!Mixes(d) = {}
        BY <2>1, <2>2, <3>5 DEF OneMix, Co!Reloaded
      <4> QED
        BY <3>3, <3>4, <4>1 DEF OneMix
    <3>6. CASE ~Co!Reloaded(d, s)
      <4>1. auto'[d] = auto[d]
        BY <1>18, <2>5, <3>6
      <4>2. \A q \in Co!Mixes(d) : plan'[q].from = plan[q].from
        BY <1>11, <2>3
      <4> QED
        BY <2>1, <2>2, <3>3, <3>4, <4>1, <4>2 DEF OneMix
    <3> QED
      BY <3>5, <3>6
  <2> QED
    BY <2>4, <2>5
<1> QED
  BY <1>19, <1>20, <1>21 DEF CoInv

LEMMA CoStepKeeps == CoInv /\ [Co!Next]_(Co!copilot_vars) => CoInv'
<1> SUFFICES ASSUME CoInv, [Co!Next]_(Co!copilot_vars) PROVE CoInv'
  OBVIOUS
<1>1. CASE \/ Co!Connects \/ Co!Handshake \/ Co!SeesClose \/ Co!Backoff \/ Co!Wedges \/ Co!LinkLost
           \/ \E s \in Co!States : Co!EngineTells(s)
           \/ UNCHANGED Co!copilot_vars
  BY <1>1, LinkStepKeeps
<1>2. CASE Co!ReadAnswer \/ Co!ReadNotice
  BY <1>2, ReadAnswerKeeps, ReadNoticeKeeps
<1>3. ASSUME NEW p \in Co!Plans, Co!Send(p) \/ Co!Timeout(p) \/ Co!CancelLands(p) PROVE CoInv'
  BY <1>3, SendKeeps, CancelLandsKeeps DEF Co!Plans
<1>4. ASSUME NEW d \in Decks, NEW on \in BOOLEAN, Co!SetAutoMix(d, on) PROVE CoInv'
  BY <1>4, SetAutoMixKeeps
<1>5. CASE Co!EngineTakes
  BY <1>5, EngineTakesKeeps
<1> QED
  BY <1>1, <1>2, <1>3, <1>4, <1>5 DEF Co!Next

LEMMA CoHolds == CoInv => PlansHold
<1> SUFFICES ASSUME CoInv PROVE PlansHold
  OBVIOUS
<1>1. Co!PlansArriveWithoutGaps
  BY DEF CoInv, InOrder
<1>2. \A d \in Decks :
        /\ Co!Cardinality(Co!Mixes(d)) > 1 => crossed[d]
        /\ Co!Mixes(d) # {} /\ ~auto[d].enabled => stacked[d]
  <2> TAKE d \in Decks
  <2>1. OneMix(d) /\ OneTask(d)
    BY DEF CoInv
  <2>2. ASSUME ~crossed[d] PROVE ~(Co!Cardinality(Co!Mixes(d)) > 1)
    <3> DEFINE M == Co!Mixes(d)
    <3>1. M = {} \/ \E p \in M : M = {p}
      BY <2>1, <2>2 DEF OneMix
    <3> HIDE DEF M
    <3>2. Cardinality({}) = 0 /\ \A p : Cardinality({p}) = 1
      BY FS_EmptySet, FS_Singleton
    <3>3. Cardinality(M) \in {0, 1}
      BY <3>1, <3>2
    <3>4. Co!Cardinality(M) = Cardinality(M)
      BY DEF Co!Cardinality, Cardinality
    <3> QED
      BY <3>3, <3>4 DEF M
  <2>3. Co!Mixes(d) # {} /\ ~auto[d].enabled => stacked[d]
    BY <2>1 DEF OneTask
  <2> QED
    BY <2>2, <2>3
<1> QED
  BY <1>1, <1>2 DEF PlansHold, Co!OnlyOverlapsEscape

(* Whatever the engine, the connection and the deadlines do, a plan of the *)
(* co-pilot reaches the engine in order and without gaps, and a deck runs  *)
(* two mixes, or one after auto-mix was switched off, only where the code  *)
(* leaves it open (copilot/engine_client.py, auto_mix.py).                 *)
THEOREM PlansCorrect == Co!Spec => []PlansHold
<1> QED
  BY CoInitHolds, CoStepKeeps, CoHolds, PTL DEF Co!Spec
=============================================================================
