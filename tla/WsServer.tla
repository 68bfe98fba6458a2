------------------------------ MODULE WsServer ------------------------------
(***************************************************************************)
(* engine/src/bridge/ws_server.rs: the accept loop and, per connection, a  *)
(* reader that dispatches one request at a time, a task that forwards the  *)
(* engine's notices from the broadcast channel, and a writer that owns the *)
(* socket and drains the bounded queue both of them fill.  A client's      *)
(* requests are numbered as it sends them and an answer is the number of   *)
(* its request; a notice is the number the engine published it under.      *)
(***************************************************************************)
EXTENDS Naturals, Sequences, FiniteSets, SequencesExt

CONSTANTS
  Clients,
  Readers,        \* the clients that keep reading from their socket
  QueueCapacity,  \* the outbound queue, mpsc::channel(256)
  NoticeCapacity, \* the engine's broadcast channel, 1024
  MaxRequests,    \* bound: requests a client sends
  MaxNotices      \* bound: notices the engine publishes

ASSUME WsServerAssumption ==
  /\ Readers \subseteq Clients /\ IsFiniteSet(Clients)
  /\ QueueCapacity \in Nat \ {0} /\ NoticeCapacity \in Nat \ {0}
  /\ MaxRequests \in Nat /\ MaxNotices \in Nat

VARIABLES
  server,     \* the accept loop: accepting, draining, stopped
  connected,  \* metrics.ws_clients_connected
  published,  \* notices the engine has published
  peer,       \* the client's end of the socket: away, open, closed
  sent,       \* requests the client has sent
  inbox,      \* frames on their way to the reader
  reader,     \* the client task: none, read, answer, timeout, ended, joined
  answer,     \* the answer the reader waits to queue
  auth,       \* pending or authed
  forwarder,  \* the notice task: off, recv, send
  cursor,     \* the next notice its subscription holds for it
  writer,     \* the writer task: off, run
  queue,      \* out_tx, the outbound queue
  wire        \* everything the client has received

vars == <<server, connected, published, peer, sent, inbox, reader, answer, auth,
          forwarder, cursor, writer, queue, wire>>
reader_vars == <<reader, answer, auth>>
forwarder_vars == <<forwarder, cursor>>
client_vars == <<peer, sent>>
server_vars == <<server, connected, published>>

Answer(n) == [type |-> "answer", n |-> n]
Notice(n) == [type |-> "notice", n |-> n]
TimedOut == [type |-> "close", n |-> 1008]

Init ==
  /\ server = "accepting" /\ connected = 0 /\ published = 0
  /\ peer = [c \in Clients |-> "away"] /\ sent = [c \in Clients |-> 0]
  /\ inbox = [c \in Clients |-> <<>>]
  /\ reader = [c \in Clients |-> "none"] /\ answer = [c \in Clients |-> 0]
  /\ auth = [c \in Clients |-> "pending"]
  /\ forwarder = [c \in Clients |-> "off"] /\ cursor = [c \in Clients |-> 0]
  /\ writer = [c \in Clients |-> "off"]
  /\ queue = [c \in Clients |-> <<>>] /\ wire = [c \in Clients |-> <<>>]

(* The clients and the engine. *)

Request(c) ==
  /\ peer[c] = "open" /\ sent[c] < MaxRequests
  /\ sent' = [sent EXCEPT ![c] = @ + 1]
  /\ inbox' = [inbox EXCEPT ![c] = Append(@, sent'[c])]
  /\ UNCHANGED <<server_vars, peer, reader_vars, forwarder_vars, writer, queue, wire>>

Leave(c) ==
  /\ peer[c] = "open"
  /\ peer' = [peer EXCEPT ![c] = "closed"]
  /\ UNCHANGED <<server_vars, sent, inbox, reader_vars, forwarder_vars, writer, queue, wire>>

Publish ==
  /\ published < MaxNotices
  /\ published' = published + 1
  /\ UNCHANGED <<server, connected, client_vars, inbox, reader_vars, forwarder_vars, writer,
                 queue, wire>>

(* The accept loop. *)

\* A handshake that succeeds, with a valid token or with none, subscribes
\* the client and starts its tasks.
Accept(c) ==
  /\ server = "accepting" /\ peer[c] = "away"
  /\ peer' = [peer EXCEPT ![c] = "open"]
  /\ connected' = connected + 1
  /\ \E a \in {"pending", "authed"} : auth' = [auth EXCEPT ![c] = a]
  /\ reader' = [reader EXCEPT ![c] = "read"]
  /\ forwarder' = [forwarder EXCEPT ![c] = "recv"]
  /\ cursor' = [cursor EXCEPT ![c] = published + 1]
  /\ writer' = [writer EXCEPT ![c] = "run"]
  /\ UNCHANGED <<server, published, sent, inbox, answer, queue, wire>>

Cancel ==
  /\ server = "accepting"
  /\ server' = "draining"
  /\ UNCHANGED <<connected, published, client_vars, inbox, reader_vars, forwarder_vars,
                 writer, queue, wire>>

\* join_next until every client task is over.
Drained ==
  /\ server = "draining" /\ \A c \in Clients : reader[c] \in {"none", "joined"}
  /\ server' = "stopped"
  /\ UNCHANGED <<connected, published, client_vars, inbox, reader_vars, forwarder_vars,
                 writer, queue, wire>>

(* A client's tasks. *)

\* The send half of the queue: room, or an error once the writer is gone.
Room(c) == writer[c] = "run" /\ Len(queue[c]) < QueueCapacity
Put(c, m) == queue' = [queue EXCEPT ![c] = Append(@, m)]
ReaderMoves(c, to) == reader' = [reader EXCEPT ![c] = to]

\* A request is dispatched and answered; only auth.hello changes auth.
ReadRequest(c) ==
  /\ reader[c] = "read" /\ inbox[c] # <<>>
  /\ inbox' = [inbox EXCEPT ![c] = Tail(@)]
  /\ answer' = [answer EXCEPT ![c] = Head(inbox[c])]
  /\ \E a \in {auth[c], "authed"} : auth' = [auth EXCEPT ![c] = a]
  /\ ReaderMoves(c, "answer")
  /\ UNCHANGED <<server_vars, client_vars, forwarder_vars, writer, queue, wire>>

\* Mutant: an answer overtakes everything that waits to be written.
QueueAnswer_overtakes(c) ==
  /\ reader[c] = "answer"
  /\ \/ /\ Room(c) /\ ReaderMoves(c, "read")
        /\ queue' = [queue EXCEPT ![c] = <<Answer(answer[c])>> \o @]
     \/ writer[c] = "off" /\ ReaderMoves(c, "ended") /\ UNCHANGED queue
  /\ UNCHANGED <<server_vars, client_vars, inbox, answer, auth, forwarder_vars, writer, wire>>

\* Mutant: an answer that finds no room is dropped.
QueueAnswer_tries(c) ==
  /\ reader[c] = "answer"
  /\ \/ Room(c) /\ Put(c, Answer(answer[c])) /\ ReaderMoves(c, "read")
     \/ ~Room(c) /\ ReaderMoves(c, "read") /\ UNCHANGED queue
  /\ UNCHANGED <<server_vars, client_vars, inbox, answer, auth, forwarder_vars, writer, wire>>

QueueAnswer(c) ==
  /\ reader[c] = "answer"
  /\ \/ Room(c) /\ Put(c, Answer(answer[c])) /\ ReaderMoves(c, "read")
     \/ writer[c] = "off" /\ ReaderMoves(c, "ended") /\ UNCHANGED queue
  /\ UNCHANGED <<server_vars, client_vars, inbox, answer, auth, forwarder_vars, writer, wire>>

\* PENDING_AUTH_TIMEOUT: a pending client has been silent for five seconds.
AuthTimeout(c) ==
  /\ reader[c] = "read" /\ auth[c] = "pending" /\ inbox[c] = <<>> /\ peer[c] = "open"
  /\ ReaderMoves(c, "timeout")
  /\ UNCHANGED <<server_vars, client_vars, inbox, answer, auth, forwarder_vars, writer,
                 queue, wire>>

QueueTimeout(c) ==
  /\ reader[c] = "timeout"
  /\ \/ Room(c) /\ Put(c, TimedOut)
     \/ writer[c] = "off" /\ UNCHANGED queue
  /\ ReaderMoves(c, "ended")
  /\ UNCHANGED <<server_vars, client_vars, inbox, answer, auth, forwarder_vars, writer, wire>>

\* The stream ends, by a close frame or an error.
ReadEnd(c) ==
  /\ reader[c] = "read" /\ peer[c] = "closed"
  /\ ReaderMoves(c, "ended")
  /\ UNCHANGED <<server_vars, client_vars, inbox, answer, auth, forwarder_vars, writer,
                 queue, wire>>

\* Mutant: a subscriber that lags goes on with the newest notice.
Receive_newest(c) ==
  /\ forwarder[c] = "recv" /\ cursor[c] <= published
  /\ IF cursor[c] + NoticeCapacity <= published
     THEN /\ cursor' = [cursor EXCEPT ![c] = published]
          /\ UNCHANGED forwarder
     ELSE /\ cursor' = [cursor EXCEPT ![c] = @ + 1]
          /\ forwarder' = [forwarder EXCEPT ![c] = "send"]
  /\ UNCHANGED <<server_vars, client_vars, inbox, reader_vars, writer, queue, wire>>

\* Mutant: a subscriber that lags is given up.
Receive_breaks(c) ==
  /\ forwarder[c] = "recv" /\ cursor[c] <= published
  /\ IF cursor[c] + NoticeCapacity <= published
     THEN /\ forwarder' = [forwarder EXCEPT ![c] = "off"]
          /\ UNCHANGED cursor
     ELSE /\ cursor' = [cursor EXCEPT ![c] = @ + 1]
          /\ forwarder' = [forwarder EXCEPT ![c] = "send"]
  /\ UNCHANGED <<server_vars, client_vars, inbox, reader_vars, writer, queue, wire>>

\* A subscriber that lags is moved to the oldest notice still there.
Receive(c) ==
  /\ forwarder[c] = "recv" /\ cursor[c] <= published
  /\ IF cursor[c] + NoticeCapacity <= published
     THEN /\ cursor' = [cursor EXCEPT ![c] = published - NoticeCapacity + 1]
          /\ UNCHANGED forwarder
     ELSE /\ cursor' = [cursor EXCEPT ![c] = @ + 1]
          /\ forwarder' = [forwarder EXCEPT ![c] = "send"]
  /\ UNCHANGED <<server_vars, client_vars, inbox, reader_vars, writer, queue, wire>>

QueueNotice(c) ==
  /\ forwarder[c] = "send"
  /\ \/ /\ Room(c) /\ Put(c, Notice(cursor[c] - 1))
        /\ forwarder' = [forwarder EXCEPT ![c] = "recv"]
     \/ /\ writer[c] = "off" /\ UNCHANGED queue
        /\ forwarder' = [forwarder EXCEPT ![c] = "off"]
  /\ UNCHANGED <<server_vars, client_vars, inbox, reader_vars, cursor, writer, wire>>

\* Mutant: only a notice task that waits for room is aborted.
AbortForwarder_whileSending(c) ==
  /\ reader[c] \in {"ended", "joined"} /\ forwarder[c] = "send"
  /\ forwarder' = [forwarder EXCEPT ![c] = "off"]
  /\ UNCHANGED <<server_vars, client_vars, inbox, reader_vars, cursor, writer, queue, wire>>

\* When the reader is over it aborts the notice task, whatever that waits for.
AbortForwarder(c) ==
  /\ reader[c] \in {"ended", "joined"} /\ forwarder[c] # "off"
  /\ forwarder' = [forwarder EXCEPT ![c] = "off"]
  /\ UNCHANGED <<server_vars, client_vars, inbox, reader_vars, cursor, writer, queue, wire>>

CloseSent(c) == TimedOut \in ToSet(wire[c])

Write(c) ==
  /\ writer[c] = "run" /\ queue[c] # <<>> /\ peer[c] = "open" /\ ~CloseSent(c)
  /\ wire' = [wire EXCEPT ![c] = Append(@, Head(queue[c]))]
  /\ queue' = [queue EXCEPT ![c] = Tail(@)]
  /\ UNCHANGED <<server_vars, client_vars, inbox, reader_vars, forwarder_vars, writer>>

\* A send to a socket that is gone, or after a close frame, ends the writer:
\* the queue is closed and so is the socket.
WriteFails(c) ==
  /\ writer[c] = "run" /\ queue[c] # <<>>
  /\ peer[c] = "closed" \/ CloseSent(c)
  /\ peer' = [peer EXCEPT ![c] = "closed"]
  /\ writer' = [writer EXCEPT ![c] = "off"]
  /\ queue' = [queue EXCEPT ![c] = <<>>]
  /\ UNCHANGED <<server_vars, sent, inbox, reader_vars, forwarder_vars, wire>>

\* Both senders are dropped and the queue is empty: the socket is closed.
WriterEnds(c) ==
  /\ writer[c] = "run" /\ queue[c] = <<>> /\ reader[c] = "ended" /\ forwarder[c] = "off"
  /\ writer' = [writer EXCEPT ![c] = "off"]
  /\ peer' = [peer EXCEPT ![c] = "closed"]
  /\ UNCHANGED <<server_vars, sent, inbox, reader_vars, forwarder_vars, queue, wire>>

\* The writer is awaited, the drop guard counts the client out.
TaskEnds(c) ==
  /\ reader[c] = "ended" /\ writer[c] = "off"
  /\ ReaderMoves(c, "joined")
  /\ connected' = connected - 1
  /\ UNCHANGED <<server, published, client_vars, inbox, answer, auth, forwarder_vars, writer,
                 queue, wire>>

Reader(c) ==
  \/ ReadRequest(c) \/ QueueAnswer(c) \/ AuthTimeout(c) \/ QueueTimeout(c)
  \/ ReadEnd(c) \/ TaskEnds(c)
Forwarder(c) == Receive(c) \/ QueueNotice(c) \/ AbortForwarder(c)
WriterOver(c) == WriteFails(c) \/ WriterEnds(c)

Next ==
  \/ Publish \/ Cancel \/ Drained
  \/ \E c \in Clients :
       \/ Request(c) \/ Leave(c) \/ Accept(c)
       \/ Reader(c) \/ Forwarder(c) \/ Write(c) \/ WriterOver(c)

\* Every task runs while it can; waiting senders get room in their turn (the
\* queue's semaphore is fair); only the clients in Readers are sure to read.
Fairness ==
  /\ WF_vars(Drained)
  /\ \A c \in Clients :
       /\ WF_vars(Reader(c)) /\ WF_vars(Forwarder(c)) /\ WF_vars(WriterOver(c))
       /\ SF_vars(QueueAnswer(c)) /\ SF_vars(QueueNotice(c))
  /\ \A c \in Readers : WF_vars(Write(c))

Spec == Init /\ [][Next]_vars /\ Fairness
-----------------------------------------------------------------------------
Over(c) == reader[c] \in {"ended", "joined"}

(* The counter in the metrics is the number of client tasks alive.         *)
TypeOK ==
  /\ server \in {"accepting", "draining", "stopped"} /\ published \in 0..MaxNotices
  /\ connected = Cardinality({c \in Clients : reader[c] \notin {"none", "joined"}})
  /\ \A c \in Clients :
       /\ peer[c] \in {"away", "open", "closed"} /\ sent[c] \in 0..MaxRequests
       /\ reader[c] \in {"none", "read", "answer", "timeout", "ended", "joined"}
       /\ auth[c] \in {"pending", "authed"} /\ writer[c] \in {"off", "run"}
       /\ forwarder[c] \in {"off", "recv", "send"}
       /\ Len(queue[c]) <= QueueCapacity /\ cursor[c] \in 0..MaxNotices + 1

(* Before the answer to a request come those to all earlier ones, and none *)
(* else.                                                                   *)
AnswersCountUp(s) ==
  \A i \in DOMAIN s : s[i].type = "answer" =>
    {s[j].n : j \in {j \in 1..i - 1 : s[j].type = "answer"}} = 1..s[i].n - 1

(* A client's requests are answered one each and in the order it sent      *)
(* them, although notices go out through the same queue (ws_server.rs,     *)
(* handle_client).                                                         *)
AnswersInOrder == TypeOK /\ \A c \in Clients : AnswersCountUp(wire[c])

\* Notice m may follow notice n.
Follows(m, n) == m = n + 1 \/ (m > n /\ m + NoticeCapacity <= published + 1)

NoticesFollow(s) ==
  \A i, j \in DOMAIN s :
    /\ i < j /\ s[i].type = "notice" /\ s[j].type = "notice"
    /\ \A k \in i + 1..j - 1 : s[k].type # "notice"
    => Follows(s[j].n, s[i].n)

(* Notices arrive in the order they were published, none twice, and one is *)
(* missed only by a client that was a whole broadcast buffer behind, which *)
(* then goes on with the oldest still there (handle_client, Lagged).       *)
NoticesSkippedOnlyWhenLagging == \A c \in Clients : NoticesFollow(wire[c])

(* Through the shared queue a client's answers come in the order of its    *)
(* requests, and of the notices only the oldest are missed, by one that    *)
(* fell a whole buffer behind.                                             *)
QueueKeepsOrder == AnswersInOrder /\ NoticesSkippedOnlyWhenLagging

(* A client that keeps reading and stays has in the end an answer to every *)
(* request, whatever else competes for room in its queue, and is told of   *)
(* the state it has now, however far it fell behind: when notices stop     *)
(* coming, the last one is the last published (handle_client, reader and   *)
(* notice task).                                                           *)
ReadersAreServed ==
  \A c \in Readers :
    /\ <>[](peer[c] = "closed" \/ \A n \in 1..sent[c] : Answer(n) \in ToSet(wire[c]))
    /\ (forwarder[c] # "off" /\ cursor[c] <= published)
         ~> (Over(c) \/ Notice(published) \in ToSet(wire[c]))

(* Once it is told to stop, the server stops as soon as its clients have   *)
(* left, whatever their tasks were waiting for when they did (accept_loop  *)
(* and handle_client; BridgeServer::shutdown).                             *)
ShutdownEndsWithClients ==
  (server = "draining" /\ \A c \in Clients : peer[c] # "open") ~> (server = "stopped")
=============================================================================
