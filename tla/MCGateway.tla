------------------------------ MODULE MCGateway ------------------------------
EXTENDS Gateway

Request(method, params) ==
  [form |-> "request", valid |-> TRUE, method |-> method, params |-> params]
Submit == Request("engine.submit_event", "good")

(* Every way a frame is answered, one of each. *)
MCFrames ==
  OtherFrames \cup
  { Submit, Request("engine.submit_event", "wrong"), [Submit EXCEPT !.valid = FALSE],
    Request("auth.hello", "good"), Request("auth.hello", "wrong"), Request("auth.hello", "none"),
    Request("library.search", "good"), Request("engine.unknown", "good"),
    Request("engine.event_log", "wrong"), Request("engine.export_session", "good"),
    Request("engine.replay_session", "good"), Request("engine.list_sessions", "none"),
    Request("engine.health", "none") }
=============================================================================
