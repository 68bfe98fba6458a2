------------------------------- MODULE Gateway -------------------------------
(***************************************************************************)
(* What one connection of the bridge may do: the handshake of              *)
(* engine/src/bridge/ws_server.rs with auth.rs, the gate, the token bucket *)
(* and the dispatch of rpc.rs behind it, and the calls library_proxy.rs    *)
(* sends on to the copilot while the reader waits.  How frames and answers *)
(* travel is WsServer's matter; here a frame is read when its turn comes.  *)
(***************************************************************************)
EXTENDS TokenBucket, FiniteSets

CONSTANTS
  Frames,               \* what a client may send
  PENDING_AUTH_TIMEOUT, \* units
  COPILOT_RPC_TIMEOUT,  \* units
  ChannelCapacity,      \* events the channel takes (main.rs: no limit)
  MaxFrames,            \* bound: frames of a connection
  MaxTime               \* bound: time stops here, or when no timer runs

Reads == { "engine.snapshot", "engine.event_log", "engine.health", "engine.list_effects",
           "engine.list_output_devices", "engine.session_info", "engine.list_sessions",
           "engine.replay_session", "engine.export_session" }
Library == {"library.search"}
Methods == Reads \cup Library \cup {"engine.submit_event", "auth.hello", "engine.unknown"}

Requests ==
  [form : {"request"}, valid : BOOLEAN, method : Methods, params : {"good", "wrong", "none"}]
Frame(form) == [form |-> form]
OtherFrames == {Frame("malformed"), Frame("binary"), Frame("ping"), Frame("pong")}

ASSUME GatewayAssumption ==
  /\ Frames \subseteq Requests \cup OtherFrames
  /\ PENDING_AUTH_TIMEOUT \in Nat \ {0} /\ COPILOT_RPC_TIMEOUT \in Nat \ {0}
  /\ ChannelCapacity \in Nat \ {0} /\ MaxFrames \in Nat /\ MaxTime \in Nat

VARIABLES
  requires_auth,  \* a token is configured
  copilot,        \* HYPEHOUSE_COPILOT_URL names a service
  event_sink,     \* unwired, wired, or gone with the control loop
  channel,        \* events in it
  session,        \* away, open, or closed with 401, 1008 or by the client
  auth_state,     \* PendingAuth or Authed
  reader,         \* read, or proxy: awaiting the copilot
  since,          \* when that wait began
  frames,
  answer,         \* the last answer: an error code (error.rs), or a word for a success
  proven,         \* history: the client has shown the token
  reached         \* history: what its requests have touched

engine_vars == <<requires_auth, copilot, event_sink, channel>>
vars == <<now, bucket_vars, engine_vars, session, auth_state, reader, since, frames, answer,
          proven, reached>>

Init ==
  /\ now = 0 /\ BucketInit
  /\ requires_auth \in BOOLEAN /\ copilot \in BOOLEAN
  /\ event_sink \in {"unwired", "wired"} /\ channel = 0
  /\ session = "away" /\ auth_state = "PendingAuth" /\ reader = "read" /\ since = 0
  /\ frames = 0 /\ answer = "none" /\ proven = FALSE /\ reached = {}

\* The handshake: without a token everyone is in, a header must be right,
\* and a client that sends none must say auth.hello.
Accept(header) ==
  /\ session # "open" /\ now < MaxTime
  /\ LET right == ~requires_auth \/ header = "right"
     IN /\ session' = IF requires_auth /\ header = "wrong" THEN "401" ELSE "open"
        /\ auth_state' = IF right THEN "Authed" ELSE "PendingAuth"
        /\ proven' = right
  /\ BucketReset
  /\ reader' = "read" /\ since' = now /\ frames' = 0 /\ answer' = "none" /\ reached' = {}
  /\ UNCHANGED <<now, engine_vars>>

\* The next read starts the pending-auth timer anew.
Answer(code) == answer' = code /\ since' = now /\ reader' = "read"

NotARequest(f) ==
  /\ f.form # "request"
  /\ IF f.form = "ping" THEN Answer("pong")
     ELSE IF f.form = "pong" THEN UNCHANGED answer /\ since' = now /\ UNCHANGED reader
     ELSE Answer("INVALID_REQUEST")
  /\ UNCHANGED <<bucket_vars, channel, auth_state, proven, reached>>

\* handle_request_frame: a submit of an authenticated client takes a token
\* whatever becomes of it.
Limited(f) == auth_state = "Authed" /\ f.method = "engine.submit_event"

RateLimited(f) ==
  /\ f.form = "request" /\ Limited(f) /\ Deny
  /\ Answer("RATE_LIMITED")
  /\ UNCHANGED <<channel, auth_state, proven, reached>>

Admitted(f) ==
  /\ f.form = "request"
  /\ IF Limited(f) THEN Allow ELSE UNCHANGED bucket_vars

Invalid(f) ==
  /\ Admitted(f) /\ ~f.valid
  /\ Answer("INVALID_REQUEST")
  /\ UNCHANGED <<channel, auth_state, proven, reached>>

\* dispatch_auth_hello: a wrong token changes nothing, not even for the worse.
AuthHello(f) ==
  /\ Admitted(f) /\ f.valid /\ f.method = "auth.hello"
  /\ IF f.params = "none" THEN Answer("INVALID_PARAMS") /\ UNCHANGED <<auth_state, proven>>
     ELSE IF requires_auth /\ f.params = "wrong"
     THEN Answer("AUTH_REJECTED") /\ UNCHANGED <<auth_state, proven>>
     ELSE Answer("result") /\ auth_state' = "Authed" /\ proven' = TRUE
  /\ UNCHANGED <<channel, reached>>

Gated(f) ==
  /\ Admitted(f) /\ f.valid /\ f.method # "auth.hello" /\ auth_state = "PendingAuth"
  /\ Answer("AUTH_REJECTED")
  /\ UNCHANGED <<channel, auth_state, proven, reached>>

\* Mutant: the proxy hop comes before the gate.
Passes_libraryFirst(f) ==
  /\ Admitted(f) /\ f.valid /\ f.method # "auth.hello"
  /\ auth_state = "Authed" \/ f.method \in Library

Passes(f) ==
  /\ Admitted(f) /\ f.valid /\ f.method # "auth.hello" /\ auth_state = "Authed"

\* forward_library_call: the reader waits for the copilot, when there is one.
ForwardLibraryCall(f) ==
  /\ Passes(f) /\ f.method \in Library
  /\ IF copilot
     THEN /\ reader' = "proxy" /\ since' = now
          /\ reached' = reached \cup {"copilot"}
          /\ UNCHANGED answer
     ELSE Answer("ENGINE_OFFLINE") /\ UNCHANGED reached
  /\ UNCHANGED <<channel, auth_state, proven>>

\* dispatch, engine.submit_event: "accepted" once it is in the channel.
SubmitEvent(f) ==
  /\ Passes(f) /\ f.method = "engine.submit_event"
  /\ IF f.params # "good"
     THEN Answer("INVALID_PARAMS") /\ UNCHANGED <<channel, reached>>
     ELSE IF event_sink = "unwired"
     THEN Answer("ENGINE_SINK_UNWIRED") /\ UNCHANGED <<channel, reached>>
     ELSE IF event_sink = "gone" \/ channel = ChannelCapacity
     THEN Answer("ENGINE_OFFLINE") /\ UNCHANGED <<channel, reached>>
     ELSE /\ Answer("accepted") /\ channel' = channel + 1
          /\ reached' = reached \cup {"control loop"}
  /\ UNCHANGED <<auth_state, proven>>

\* What a read may answer: parameters first, then the disk's verdict.
Outcomes(method, params) ==
  CASE method = "engine.list_sessions" -> {"result", "INTERNAL_ERROR"}
    [] method = "engine.event_log" -> IF params = "wrong" THEN {"INVALID_PARAMS"} ELSE {"result"}
    [] method = "engine.replay_session" ->
         IF params = "good" THEN {"result", "INVALID_PARAMS"} ELSE {"INVALID_PARAMS"}
    [] method = "engine.export_session" ->
         IF params = "good" THEN {"result", "INVALID_PARAMS", "INTERNAL_ERROR"}
         ELSE {"INVALID_PARAMS"}
    [] OTHER -> {"result"}

Dispatch(f) ==
  /\ Passes(f) /\ f.method \notin Library \cup {"engine.submit_event"}
  /\ IF f.method \in Reads
     THEN /\ \E code \in Outcomes(f.method, f.params) : Answer(code)
          /\ reached' = reached \cup {"state"}
     ELSE Answer("METHOD_NOT_FOUND") /\ UNCHANGED reached
  /\ UNCHANGED <<channel, auth_state, proven>>

ReadFrame(f) ==
  /\ session = "open" /\ reader = "read" /\ frames < MaxFrames
  /\ frames' = frames + 1
  /\ \/ NotARequest(f) \/ RateLimited(f) \/ Invalid(f) \/ AuthHello(f) \/ Gated(f)
     \/ ForwardLibraryCall(f) \/ SubmitEvent(f) \/ Dispatch(f)
  /\ UNCHANGED <<now, requires_auth, copilot, event_sink, session>>

\* The copilot's result or error, or any failure to get one in time.
CopilotAnswers ==
  /\ session = "open" /\ reader = "proxy" /\ now < since + COPILOT_RPC_TIMEOUT
  /\ \E code \in {"result", "error", "ENGINE_OFFLINE"} : Answer(code)
  /\ UNCHANGED <<now, bucket_vars, engine_vars, session, auth_state, frames, proven, reached>>

CopilotTimeout ==
  /\ session = "open" /\ reader = "proxy" /\ now >= since + COPILOT_RPC_TIMEOUT
  /\ Answer("ENGINE_OFFLINE")
  /\ UNCHANGED <<now, bucket_vars, engine_vars, session, auth_state, frames, proven, reached>>

PendingSilence == session = "open" /\ auth_state = "PendingAuth"
PendingAuthTimeout ==
  /\ PendingSilence /\ now >= since + PENDING_AUTH_TIMEOUT
  /\ session' = "1008"
  /\ UNCHANGED <<now, bucket_vars, engine_vars, auth_state, reader, since, frames, answer,
                 proven, reached>>

\* A close frame, or the end of the stream, is a read of its own.
Leave ==
  /\ session = "open" /\ reader = "read"
  /\ session' = "left"
  /\ UNCHANGED <<now, bucket_vars, engine_vars, auth_state, reader, since, frames, answer,
                 proven, reached>>

ControlLoopTakes ==
  /\ event_sink = "wired" /\ channel > 0
  /\ channel' = channel - 1
  /\ UNCHANGED <<now, bucket_vars, requires_auth, copilot, event_sink, session, auth_state,
                 reader, since, frames, answer, proven, reached>>

ControlLoopExits ==
  /\ event_sink = "wired"
  /\ event_sink' = "gone" /\ channel' = 0
  /\ UNCHANGED <<now, bucket_vars, requires_auth, copilot, session, auth_state, reader, since,
                 frames, answer, proven, reached>>

\* Timers fire on time: the clock waits for one that is due.
Due ==
  \/ session = "open" /\ reader = "proxy" /\ now >= since + COPILOT_RPC_TIMEOUT
  \/ PendingSilence /\ now >= since + PENDING_AUTH_TIMEOUT
Tick ==
  /\ now < MaxTime /\ ~Due
  /\ now' = now + 1
  /\ UNCHANGED <<bucket_vars, engine_vars, session, auth_state, reader, since, frames, answer,
                 proven, reached>>

Next ==
  \/ \E header \in {"none", "right", "wrong"} : Accept(header)
  \/ \E f \in Frames : ReadFrame(f)
  \/ CopilotAnswers \/ CopilotTimeout \/ PendingAuthTimeout \/ Leave
  \/ ControlLoopTakes \/ ControlLoopExits \/ Tick

Spec == Init /\ [][Next]_vars
-----------------------------------------------------------------------------

(* A client that has not shown the token, in the header or by auth.hello,  *)
(* touches nothing: no event, no state, no call to the copilot, whatever   *)
(* it sends and in whatever order (rpc.rs, dispatch_with_auth_async).      *)
StrangersReachNothing ==
  /\ reached # {} => proven
  /\ auth_state = "Authed" => proven
=============================================================================
