-------------------------- MODULE TraceStreaming ---------------------------
(***************************************************************************)
(* RunTraceAndPrintStream: the orchestrator of TraceOrchestrator whose     *)
(* output phase is genericStreamsDisplay (trace.go), the stream aggregator *)
(* (spec 4.3).  It registers its own buffered channel sigs for SIGINT and  *)
(* SIGTERM, starts one goroutine per copy that runs receive-stream on its  *)
(* node and then sends one message on the unbuffered channel completion,   *)
(* and selects on both until streamCount, decremented per message, is 0.   *)
(*                                                                         *)
(* The two components interact through the signals: Go delivers a signal  *)
(* to every channel registered for it, so one SIGINT reaches both sigs and *)
(* the channel c of sigHandler.                                            *)
(***************************************************************************)
EXTENDS TraceOrchestrator

VARIABLES
  registered, \* signal.Notify(sigs, ...) has run; it is never undone
  sigq,       \* signals buffered in sigs (capacity 1; Notify drops the rest)
  streams,    \* streams[n]: the goroutine of node n: "idle", "exec", "sending", "sent"
  count,      \* streamCount
  agg,        \* genericStreamsDisplay: "notify", "client", "spawn", "select", "returned"
  cancelled,  \* it returned from the <-sigs case
  exitedBy    \* who ended the process: "none", "main" (Run* returned) or "signal"

aggVars == <<registered, sigq, streams, count, agg, cancelled>>
varsS == <<vars, aggVars, exitedBy>>

(* The goroutines still running receive-stream or blocked on completion. *)
Active == {n \in Nodes : streams[n] \in {"exec", "sending"}}

(* The copies of results.Items the node filter keeps (params.Node).       *)
Selected == {n \in Present : nodeFlag \in {NoNode, n}}

TypeOKS ==
  /\ TypeOK
  /\ registered \in BOOLEAN
  /\ sigq \in 0..1
  /\ streams \in [Nodes -> {"idle", "exec", "sending", "sent"}]
  /\ count \in 0..Cardinality(Nodes)
  /\ agg \in {"notify", "client", "spawn", "select", "returned"}
  /\ cancelled \in BOOLEAN
  /\ exitedBy \in {"none", "main", "signal"}

InitS ==
  /\ Init
  /\ registered = FALSE
  /\ sigq = 0
  /\ streams = [n \in Nodes |-> "idle"]
  /\ count = 0
  /\ agg = "notify"
  /\ cancelled = FALSE
  /\ exitedBy = "none"

(* Records which goroutine ended the process, in the step that ends it. *)
ExitBy(who) == exitedBy' = IF exited' /\ ~exited THEN who ELSE exitedBy

(* A step of the orchestrator that leaves the aggregator alone. *)
Orch(A, who) == A /\ UNCHANGED aggVars /\ ExitBy(who)

(* The orchestrator's variables an aggregator step leaves alone. *)
OrchRest == <<nodeFlag, initialWait, targets, copies, elapsed, published, hRecv, hDeleting,
              sigints, exited, forced, deleteFailed, signals, reports>>

(* The main goroutine is in genericStreamsDisplay at position from. *)
AggAt(from) == ~exited /\ pc = "output" /\ agg = from

-----------------------------------------------------------------------------
(* make(chan os.Signal, 1) and signal.Notify(sigs, SIGINT, SIGTERM). *)
Notify ==
  /\ AggAt("notify")
  /\ registered' = TRUE
  /\ agg' = "client"
  /\ UNCHANGED <<OrchRest, pc, sigq, streams, count, cancelled, exitedBy>>

(* NewClientsetFromConfigFlags; an error is returned to the deferred      *)
(* DeleteTrace.                                                           *)
Client ==
  /\ AggAt("client")
  /\ \/ agg' = "spawn" /\ UNCHANGED pc
     \/ agg' = "returned" /\ pc' = "deleteEnd"
  /\ UNCHANGED <<OrchRest, registered, sigq, streams, count, cancelled, exitedBy>>

(* The loop over results.Items: atomic.AddInt32(&streamCount, 1) and go    *)
(* func() for each copy the filter keeps.  A goroutine can do nothing the  *)
(* main goroutine sees before it reaches the select, so the loop is one    *)
(* step.                                                                   *)
Spawn ==
  /\ AggAt("spawn")
  /\ streams' = [n \in Nodes |-> IF n \in Selected THEN "exec" ELSE "idle"]
  /\ count' = Cardinality(Selected)
  /\ agg' = "select"
  /\ UNCHANGED <<OrchRest, pc, registered, sigq, cancelled, exitedBy>>

(* ExecPod of receive-stream returns, with or without an error; the       *)
(* goroutine then blocks in completion <- until the select takes it.      *)
ExecDone(n) ==
  /\ ~exited
  /\ streams[n] = "exec"
  /\ streams' = [streams EXCEPT ![n] = "sending"]
  /\ UNCHANGED <<vars, registered, sigq, count, agg, cancelled, exitedBy>>

(* Mutant: the message is printed but streamCount is not decremented. *)
DeliverNoDecrement(n) ==
  /\ AggAt("select")
  /\ streams[n] = "sending"
  /\ streams' = [streams EXCEPT ![n] = "sent"]
  /\ UNCHANGED count
  /\ IF count - 1 = 0 THEN agg' = "returned" /\ pc' = "deleteEnd" ELSE UNCHANGED <<agg, pc>>
  /\ UNCHANGED <<OrchRest, registered, sigq, cancelled, exitedBy>>

(* case msg := <-completion: the rendezvous with node n's goroutine, and   *)
(* return nil when atomic.AddInt32(&streamCount, -1) reaches 0.            *)
Deliver(n) ==
  /\ AggAt("select")
  /\ streams[n] = "sending"
  /\ streams' = [streams EXCEPT ![n] = "sent"]
  /\ count' = count - 1
  /\ IF count' = 0 THEN agg' = "returned" /\ pc' = "deleteEnd" ELSE UNCHANGED <<agg, pc>>
  /\ UNCHANGED <<OrchRest, registered, sigq, cancelled, exitedBy>>

(* Mutant: the cancel case ends the process instead of returning, so the  *)
(* deferred DeleteTrace never runs.                                       *)
CancelRecvExits ==
  /\ AggAt("select")
  /\ sigq = 1
  /\ sigq' = 0
  /\ exited' = TRUE
  /\ exitedBy' = "main"
  /\ UNCHANGED <<nodeFlag, initialWait, targets, copies, elapsed, published, hRecv,
                 hDeleting, sigints, forced, deleteFailed, signals, reports>>
  /\ UNCHANGED <<pc, registered, streams, count, agg, cancelled>>

(* Mutant: the cancel case prints "Terminating..." and stays in the loop. *)
CancelRecvContinues ==
  /\ AggAt("select")
  /\ sigq = 1
  /\ sigq' = 0
  /\ UNCHANGED <<OrchRest, pc, registered, streams, count, agg, cancelled, exitedBy>>

(* case <-sigs: "Terminating...", return nil; the goroutines still running *)
(* are abandoned.                                                          *)
CancelRecv ==
  /\ AggAt("select")
  /\ sigq = 1
  /\ sigq' = 0
  /\ agg' = "returned"
  /\ cancelled' = TRUE
  /\ pc' = "deleteEnd"
  /\ UNCHANGED <<OrchRest, registered, streams, count, exitedBy>>

(* Mutant: every signal is queued in sigs, as if Notify never dropped one. *)
SignalSQueueAll(sig) ==
  /\ Signal(sig)
  /\ sigq' = IF registered THEN sigq + 1 ELSE sigq
  /\ UNCHANGED <<registered, streams, count, agg, cancelled>>
  /\ ExitBy("signal")

(* A signal: what sigHandler's goroutine does with it (Signal), and its    *)
(* copy in sigs once that channel is registered, unless the buffer is full. *)
SignalS(sig) ==
  /\ Signal(sig)
  /\ sigq' = IF registered THEN 1 ELSE sigq
  /\ UNCHANGED <<registered, streams, count, agg, cancelled>>
  /\ ExitBy("signal")

-----------------------------------------------------------------------------
(* The main goroutine's steps, the output phase being the aggregator's. *)
MainOrch ==
  \/ InstallHandler \/ ListNodes \/ (\E n \in Nodes : Post(n)) \/ CreateDone
  \/ Rollback \/ WaitInit \/ DeleteInit \/ WaitOut \/ DeleteEnd \/ Return

MainProgressS ==
  \/ Orch(MainOrch, "main")
  \/ Notify \/ Client \/ Spawn \/ (\E n \in Nodes : Deliver(n)) \/ CancelRecv

NextS ==
  \/ MainProgressS
  \/ Orch(WaitListFails, "main")
  \/ Orch(HandlerReady \/ HandlerDelete, "signal")
  \/ \E sig \in Signals : SignalS(sig)
  \/ \E n \in Nodes : ExecDone(n)
  \/ Orch(Tick \/ (\E n \in Nodes, s \in Reports : AgentReport(n, s)) \/ Terminated, "main")

(***************************************************************************)
(* As in TraceOrchestrator, and a select with a ready case takes one.  No  *)
(* receive-stream is assumed to return: ExecPod has no timeout, and a live *)
(* stream may only end when the trace is deleted.                          *)
(***************************************************************************)
FairnessS ==
  /\ WF_varsS(MainProgressS)
  /\ WF_varsS(Orch(HandlerReady, "signal"))
  /\ WF_varsS(Orch(HandlerDelete, "signal"))
  /\ WF_varsS(Orch(Tick, "main"))

SpecS == InitS /\ [][NextS]_varsS
FairSpecS == SpecS /\ FairnessS

-----------------------------------------------------------------------------
(***************************************************************************)
(* The fan-in joins every branch it started (spec 4.3: one completion per  *)
(* node, the counter ends the aggregation at zero).  While the select      *)
(* waits, streamCount equals the goroutines that have not yet delivered    *)
(* and is positive, so the select always has a message to wait for; and   *)
(* the aggregator returns without a signal only once every goroutine it    *)
(* started has delivered, so none is left blocked on completion.          *)
(***************************************************************************)
StreamsJoined ==
  /\ agg = "select" => count = Cardinality(Active) /\ count > 0
  /\ agg = "returned" /\ ~cancelled => Active = {}

(***************************************************************************)
(* Cancellation is immediate (spec 4.3): once an interrupt is buffered in  *)
(* sigs while genericStreamsDisplay selects, the command ends, even if no  *)
(* stream ever returns; also when sigHandler's goroutine was not yet in    *)
(* <-c and lost its copy of the signal.                                    *)
(***************************************************************************)
InterruptEndsStream == AggAt("select") /\ sigq = 1 ~> exited

(***************************************************************************)
(* Cancellation is not an error (spec 4.3 and end-to-end scenario 10: an   *)
(* interrupt mid-stream gives "a clean zero-error return"): once           *)
(* genericStreamsDisplay has returned on a signal, the process ends by     *)
(* Run* returning nil, not by sigHandler's os.Exit(1).                    *)
(***************************************************************************)
CancelIsSuccess == cancelled /\ exited => exitedBy = "main"
====
