-------------------------- MODULE MCTraceStreaming --------------------------
(* TraceStreaming with the state tokens as strings. *)
EXTENDS TraceStreaming

MCStateTokens == {"Started", "Completed"}
MCInitialState == "Started"
MCOutputState == "Completed"
====
