------------------------ MODULE MCTraceOrchestrator ------------------------
(***************************************************************************)
(* TraceOrchestrator on two nodes, one message and a timeout of one tick.  *)
(* The gadget waits for "Started" after creation (a multi-round gadget)    *)
(* and prints in "Completed"; configs without an initial wait are in Init. *)
(***************************************************************************)
EXTENDS TraceOrchestrator

MCStateTokens == {"Started", "Completed"}
MCInitialState == "Started"
MCOutputState == "Completed"
=============================================================================
