------------------------- MODULE TraceOrchestrator -------------------------
(***************************************************************************)
(* The lifecycle of one trace driven by RunTraceAndPrintStatusOutput /     *)
(* RunTraceAndPrintStream (src/cmd/kubectl-gadget/utils/trace.go): the     *)
(* signal handler installed first, CreateTrace (createTraces with its      *)
(* rollback, the optional wait for TraceInitialState and its cleanup), the *)
(* wait for TraceOutputState, the output phase and the deferred            *)
(* DeleteTrace, racing the goroutine of sigHandler.                        *)
(*                                                                         *)
(* The cluster holds at most one copy of the trace per node; the node      *)
(* agents (gadgettracermanager, not under src/) write the copies' Status   *)
(* at any time and keep doing so after the process has exited.             *)
(***************************************************************************)
EXTENDS Naturals, FiniteSets, TraceFeedback

CONSTANTS
  Nodes,         \* nodes.Items returned by the node list
  NoNode,        \* CommonFlags.Node = "": one copy on every node
  UnknownNode,   \* a CommonFlags.Node that names no node of the cluster
  NoCopy,        \* the node holds no copy of the trace
  Msgs,          \* texts an agent writes into OperationError/OperationWarning
  Empty,         \* Status.State of a copy no agent has touched yet ("")
  StateTokens,   \* Status.State values an agent writes
  InitialState,  \* TraceConfig.TraceInitialState, when it is not ""
  OutputState,   \* TraceConfig.TraceOutputState
  Timeout,       \* clock ticks in traceTimeout
  MaxReports,    \* bound on the agents' Status updates
  MaxSignals     \* bound on the signals sent to the process

ASSUME NodesAssumption == IsFiniteSet(Nodes) /\ Nodes # {}
ASSUME FlagAssumption == NoNode \notin Nodes /\ UnknownNode \notin Nodes /\ NoNode # UnknownNode
ASSUME TokenAssumption == Empty \notin StateTokens /\ {InitialState, OutputState} \subseteq StateTokens
ASSUME MsgAssumption == None \notin Msgs /\ TimeoutMsg \notin Msgs
ASSUME BoundAssumption == Timeout \in Nat /\ MaxReports \in Nat /\ MaxSignals \in Nat

Status == [state : {Empty} \cup StateTokens, err : {None} \cup Msgs, warn : {None} \cup Msgs]

ASSUME NoCopyAssumption == NoCopy \notin Status

(* The Status of a copy just posted. *)
Fresh == [state |-> Empty, err |-> None, warn |-> None]

(* What one agent writes in one update: a state, an error or a warning. *)
Reports ==
  [state : StateTokens, err : {None}, warn : {None}]
  \cup [state : {Empty}, err : Msgs, warn : {None}]
  \cup [state : {Empty}, err : {None}, warn : Msgs]

Signals == {"SIGINT", "SIGTERM"}

PCs == {"sig", "list", "post", "rollback", "waitInit", "deleteInit",
        "waitOut", "output", "deleteEnd", "done"}

VARIABLES
  nodeFlag,     \* CommonFlags.Node
  initialWait,  \* TraceConfig.TraceInitialState # ""
  pc,           \* where the main goroutine is
  targets,      \* nodes createTraces has still to post a copy to
  copies,       \* copies[n]: the Status of the copy on node n, or NoCopy
  elapsed,      \* clock ticks since the current waitForTraceState started
  published,    \* the traceID variable shared with the handler is set
  hRecv,        \* the newest handler goroutine: "none", "starting", "waiting" in <-c
  hDeleting,    \* a handler goroutine is in DeleteTrace
  sigints,      \* sigIntReceivedNumber
  exited,       \* the process has exited
  forced,       \* it exited on a second SIGINT, skipping the delete
  deleteFailed, \* deleteTraces has logged an error
  signals,      \* signals sent so far
  reports       \* agent updates so far

vars == <<nodeFlag, initialWait, pc, targets, copies, elapsed, published, hRecv, hDeleting,
          sigints, exited, forced, deleteFailed, signals, reports>>

Present == {n \in Nodes : copies[n] # NoCopy}

(* The copies getTraceListFromID returns: those with the trace's label. *)
Snapshot == [n \in Present |-> copies[n]]

TypeOK ==
  /\ nodeFlag \in Nodes \cup {NoNode, UnknownNode}
  /\ initialWait \in BOOLEAN
  /\ pc \in PCs
  /\ targets \subseteq Nodes
  /\ copies \in [Nodes -> Status \cup {NoCopy}]
  /\ elapsed \in 0..Timeout + 1
  /\ published \in BOOLEAN
  /\ hRecv \in {"none", "starting", "waiting"}
  /\ hDeleting \in BOOLEAN
  /\ sigints \in 0..2
  /\ exited \in BOOLEAN
  /\ forced \in BOOLEAN
  /\ deleteFailed \in BOOLEAN
  /\ signals \in 0..MaxSignals
  /\ reports \in 0..MaxReports

Init ==
  /\ nodeFlag \in Nodes \cup {NoNode, UnknownNode}
  /\ initialWait \in BOOLEAN
  /\ pc = "sig"
  /\ targets = {}
  /\ copies = [n \in Nodes |-> NoCopy]
  /\ elapsed = 0
  /\ published = FALSE
  /\ hRecv = "none"
  /\ hDeleting = FALSE
  /\ sigints = 0
  /\ exited = FALSE
  /\ forced = FALSE
  /\ deleteFailed = FALSE
  /\ signals = 0
  /\ reports = 0

(***************************************************************************)
(* deleteTraces: one DELETE of every copy carrying the trace's label;      *)
(* an error is only logged.                                                *)
(***************************************************************************)
DeleteTraces ==
  \/ /\ copies' = [n \in Nodes |-> NoCopy]
     /\ UNCHANGED deleteFailed
  \/ /\ deleteFailed' = TRUE
     /\ UNCHANGED copies

(* The main goroutine moves on; the process is still running. *)
MainStep(from, to) ==
  /\ ~exited
  /\ pc = from
  /\ pc' = to

(***************************************************************************)
(* The main goroutine.                                                     *)
(***************************************************************************)

(* sigHandler(&traceID), the first statement of RunTraceAndPrint*. *)
InstallHandler ==
  /\ MainStep("sig", "list")
  /\ hRecv' = "starting"
  /\ UNCHANGED <<nodeFlag, initialWait, targets, copies, elapsed, published, hDeleting,
                 sigints, exited, forced, deleteFailed, signals, reports>>

(* Mutant: Run* holds the traceID before createTraces has posted. *)
ListNodesPublishes ==
  /\ \/ /\ MainStep("list", "post")
        /\ targets' = {n \in Nodes : nodeFlag \in {NoNode, n}}
     \/ /\ MainStep("list", "done")
        /\ UNCHANGED targets
  /\ published' = TRUE
  /\ UNCHANGED <<nodeFlag, initialWait, copies, elapsed, hRecv, hDeleting,
                 sigints, exited, forced, deleteFailed, signals, reports>>

(* createTraces lists the nodes and keeps those CommonFlags.Node selects; *)
(* a failed list (or client set-up) returns the error from Run*.          *)
ListNodes ==
  /\ \/ /\ MainStep("list", "post")
        /\ targets' = {n \in Nodes : nodeFlag \in {NoNode, n}}
     \/ /\ MainStep("list", "done")
        /\ UNCHANGED targets
  /\ UNCHANGED <<nodeFlag, initialWait, copies, elapsed, published, hRecv, hDeleting,
                 sigints, exited, forced, deleteFailed, signals, reports>>

(* One POST of the loop.  It succeeds, fails, or fails after the server    *)
(* stored the copy (the answer was lost); on failure the loop rolls back.  *)
Post(n) ==
  /\ ~exited
  /\ pc = "post"
  /\ n \in targets
  /\ \/ /\ copies' = [copies EXCEPT ![n] = Fresh]
        /\ targets' = targets \ {n}
        /\ UNCHANGED pc
     \/ /\ pc' = "rollback"
        /\ UNCHANGED <<copies, targets>>
     \/ /\ pc' = "rollback"
        /\ copies' = [copies EXCEPT ![n] = Fresh]
        /\ UNCHANGED targets
  /\ UNCHANGED <<nodeFlag, initialWait, elapsed, published, hRecv, hDeleting, sigints,
                 exited, forced, deleteFailed, signals, reports>>

(* The loop is over: CreateTrace waits for TraceInitialState if one is    *)
(* set, else returns the traceID, which Run* stores where the handler     *)
(* reads it.                                                              *)
CreateDone ==
  /\ ~exited
  /\ pc = "post"
  /\ targets = {}
  /\ elapsed' = 0
  /\ \/ /\ initialWait
        /\ pc' = "waitInit"
        /\ UNCHANGED published
     \/ /\ ~initialWait
        /\ pc' = "waitOut"
        /\ published' = TRUE
  /\ UNCHANGED <<nodeFlag, initialWait, targets, copies, hRecv, hDeleting, sigints, exited,
                 forced, deleteFailed, signals, reports>>

(* Mutant: the failed POST returns without "Clean before exiting!". *)
RollbackNoDelete ==
  /\ MainStep("rollback", "done")
  /\ UNCHANGED <<nodeFlag, initialWait, targets, elapsed, published, hRecv, hDeleting,
                 sigints, exited, forced, signals, reports, copies, deleteFailed>>

(* createTraces' "Clean before exiting!" and the error return. *)
Rollback ==
  /\ MainStep("rollback", "done")
  /\ DeleteTraces
  /\ UNCHANGED <<nodeFlag, initialWait, targets, elapsed, published, hRecv, hDeleting,
                 sigints, exited, forced, signals, reports>>

(***************************************************************************)
(* A round of waitForTraceState that returns: the list failed or was      *)
(* empty, or no copy is pending, or the timeout has elapsed.  A round that *)
(* meets a pending copy in time sleeps and restarts; it changes nothing,   *)
(* so it is the stuttering of this action until the clock or an agent     *)
(* moves.                                                                 *)
(***************************************************************************)
(* Mutant: the timeout test is lost; a pending copy retries forever. *)
WaitOutcomeNoTimeout(expected) ==
  IF Present = {} THEN "fail"
  ELSE IF RoundRetries(Snapshot, expected, FALSE) THEN "retry"
  ELSE IF RoundSucceeds(Snapshot, expected) THEN "ok"
  ELSE "fail"

WaitOutcome(expected) ==
  IF Present = {} THEN "fail"
  ELSE IF RoundRetries(Snapshot, expected, elapsed > Timeout) THEN "retry"
  ELSE IF RoundSucceeds(Snapshot, expected) THEN "ok"
  ELSE "fail"

Wait(from, expected, onOk, onFail) ==
  /\ ~exited
  /\ pc = from
  /\ \/ WaitOutcome(expected) = "ok" /\ pc' = onOk
     \/ WaitOutcome(expected) = "fail" /\ pc' = onFail

(* CreateTrace's wait; on success Run* gets and publishes the traceID. *)
WaitInit ==
  /\ Wait("waitInit", InitialState, "waitOut", "deleteInit")
  /\ published' = (pc' = "waitOut")
  /\ elapsed' = 0
  /\ UNCHANGED <<nodeFlag, initialWait, targets, copies, hRecv, hDeleting, sigints, exited,
                 forced, deleteFailed, signals, reports>>

(* The GET of getTraceListFromID fails: waitForTraceState returns the     *)
(* error, to CreateTrace's cleanup or to the deferred delete.              *)
WaitListFails ==
  /\ ~exited
  /\ \/ pc = "waitInit" /\ pc' = "deleteInit"
     \/ pc = "waitOut" /\ pc' = "deleteEnd"
  /\ UNCHANGED <<nodeFlag, initialWait, targets, copies, elapsed, published, hRecv,
                 hDeleting, sigints, exited, forced, deleteFailed, signals,
                 reports>>

(* CreateTrace's DeleteTrace after a failed wait, then the error return. *)
DeleteInit ==
  /\ MainStep("deleteInit", "done")
  /\ DeleteTraces
  /\ UNCHANGED <<nodeFlag, initialWait, targets, elapsed, published, hRecv, hDeleting,
                 sigints, exited, forced, signals, reports>>

(* PrintTraceOutputFrom*'s wait; a failure returns to the deferred delete. *)
WaitOut ==
  /\ Wait("waitOut", OutputState, "output", "deleteEnd")
  /\ UNCHANGED <<nodeFlag, initialWait, targets, copies, elapsed, published, hRecv,
                 hDeleting, sigints, exited, forced, deleteFailed, signals,
                 reports>>

(* customResultsDisplay / genericStreamsDisplay returns. *)
Output ==
  /\ MainStep("output", "deleteEnd")
  /\ UNCHANGED <<nodeFlag, initialWait, targets, copies, elapsed, published, hRecv,
                 hDeleting, sigints, exited, forced, deleteFailed, signals,
                 reports>>

(* Mutant: Run* has no deferred DeleteTrace. *)
DeleteEndSkipped ==
  /\ MainStep("deleteEnd", "done")
  /\ UNCHANGED <<nodeFlag, initialWait, targets, elapsed, published, hRecv, hDeleting,
                 sigints, exited, forced, signals, reports, copies, deleteFailed>>

(* defer DeleteTrace(traceID) *)
DeleteEnd ==
  /\ MainStep("deleteEnd", "done")
  /\ DeleteTraces
  /\ UNCHANGED <<nodeFlag, initialWait, targets, elapsed, published, hRecv, hDeleting,
                 sigints, exited, forced, signals, reports>>

(* Run* returns and the command exits. *)
Return ==
  /\ ~exited
  /\ pc = "done"
  /\ exited' = TRUE
  /\ UNCHANGED <<nodeFlag, initialWait, pc, targets, copies, elapsed, published, hRecv,
                 hDeleting, sigints, forced, deleteFailed, signals, reports>>

(***************************************************************************)
(* The signal handler.  A signal before sigHandler runs kills the process  *)
(* (default action).  signal.Notify never blocks on the unbuffered c, so a *)
(* signal that finds no goroutine in <-c is lost.  A SIGINT re-installs    *)
(* the handler, unless it is the second one, which exits at once; then the *)
(* goroutine deletes the trace if it reads a traceID, and exits.          *)
(***************************************************************************)

(* The goroutine started by sigHandler reaches <-c. *)
HandlerReady ==
  /\ ~exited
  /\ hRecv = "starting"
  /\ hRecv' = "waiting"
  /\ UNCHANGED <<nodeFlag, initialWait, pc, targets, copies, elapsed, published, hDeleting,
                 sigints, exited, forced, deleteFailed, signals, reports>>

(* Mutant: off by one, the handler exits only on the third SIGINT. *)
SignalExitOnThird(sig) ==
  /\ ~exited
  /\ signals < MaxSignals
  /\ signals' = signals + 1
  /\ \/ /\ pc = "sig"
        /\ exited' = TRUE
        /\ UNCHANGED <<hRecv, hDeleting, sigints, forced>>
     \/ /\ pc # "sig"
        /\ hRecv # "waiting"
        /\ UNCHANGED <<hRecv, hDeleting, sigints, exited, forced>>
     \/ /\ hRecv = "waiting"
        /\ sigints' = IF sig = "SIGINT" THEN sigints + 1 ELSE sigints
        /\ IF sig = "SIGINT" /\ sigints' > 2
           THEN /\ exited' = TRUE
                /\ forced' = TRUE
                /\ UNCHANGED <<hRecv, hDeleting>>
           ELSE /\ hRecv' = IF sig = "SIGINT" THEN "starting" ELSE "none"
                /\ hDeleting' = (hDeleting \/ published)
                /\ exited' = ~published
                /\ UNCHANGED forced
  /\ UNCHANGED <<nodeFlag, initialWait, pc, targets, copies, elapsed, published,
                 deleteFailed, reports>>

Signal(sig) ==
  /\ ~exited
  /\ signals < MaxSignals
  /\ signals' = signals + 1
  /\ \/ /\ pc = "sig"
        /\ exited' = TRUE
        /\ UNCHANGED <<hRecv, hDeleting, sigints, forced>>
     \/ /\ pc # "sig"
        /\ hRecv # "waiting"
        /\ UNCHANGED <<hRecv, hDeleting, sigints, exited, forced>>
     \/ /\ hRecv = "waiting"
        /\ sigints' = IF sig = "SIGINT" THEN sigints + 1 ELSE sigints
        /\ IF sig = "SIGINT" /\ sigints' > 1
           THEN /\ exited' = TRUE
                /\ forced' = TRUE
                /\ UNCHANGED <<hRecv, hDeleting>>
           ELSE /\ hRecv' = IF sig = "SIGINT" THEN "starting" ELSE "none"
                /\ hDeleting' = (hDeleting \/ published)
                /\ exited' = ~published
                /\ UNCHANGED forced
  /\ UNCHANGED <<nodeFlag, initialWait, pc, targets, copies, elapsed, published,
                 deleteFailed, reports>>

(* The handler goroutine: DeleteTrace of the traceID it read, os.Exit(1). *)
HandlerDelete ==
  /\ ~exited
  /\ hDeleting
  /\ DeleteTraces
  /\ exited' = TRUE
  /\ UNCHANGED <<nodeFlag, initialWait, pc, targets, elapsed, published, hRecv, hDeleting,
                 sigints, forced, signals, reports>>

(***************************************************************************)
(* The environment: the wall clock, and an agent updating a copy's Status. *)
(***************************************************************************)
Tick ==
  /\ ~exited
  /\ pc \in {"waitInit", "waitOut"}
  /\ elapsed <= Timeout
  /\ elapsed' = elapsed + 1
  /\ UNCHANGED <<nodeFlag, initialWait, pc, targets, copies, published, hRecv, hDeleting,
                 sigints, exited, forced, deleteFailed, signals, reports>>

AgentReport(n, s) ==
  /\ copies[n] # NoCopy
  /\ copies[n] # s
  /\ reports < MaxReports
  /\ copies' = [copies EXCEPT ![n] = s]
  /\ reports' = reports + 1
  /\ UNCHANGED <<nodeFlag, initialWait, pc, targets, elapsed, published, hRecv, hDeleting,
                 sigints, exited, forced, deleteFailed, signals>>

(* Once the process has exited, only the agents act. *)
Terminated == exited /\ UNCHANGED vars

(* The main goroutine's steps other than a failing GET of the list. *)
MainProgress ==
  \/ InstallHandler \/ ListNodes \/ (\E n \in Nodes : Post(n)) \/ CreateDone
  \/ Rollback \/ WaitInit \/ DeleteInit \/ WaitOut \/ Output \/ DeleteEnd
  \/ Return

Main == MainProgress \/ WaitListFails

Next ==
  \/ Main
  \/ HandlerReady
  \/ \E sig \in Signals : Signal(sig)
  \/ HandlerDelete
  \/ Tick
  \/ \E n \in Nodes, s \in Reports : AgentReport(n, s)
  \/ Terminated

(***************************************************************************)
(* The main and handler goroutines are scheduled, API calls return (the   *)
(* REST client is built without a timeout, so this is an assumption) and  *)
(* the clock advances.  Agents, signals and API failures are not fair.    *)
(***************************************************************************)
Fairness ==
  WF_vars(MainProgress) /\ WF_vars(HandlerReady) /\ WF_vars(HandlerDelete) /\ WF_vars(Tick)

Spec == Init /\ [][Next]_vars
FairSpec == Spec /\ Fairness

-----------------------------------------------------------------------------
(* Cleanup happened: no copy is left, or a delete error was logged, or the *)
(* user forced the exit with a second SIGINT.                              *)
CleanedUp == Present = {} \/ deleteFailed \/ forced

(***************************************************************************)
(* Rollback is complete (spec 8.1, and "an interrupt during any phase     *)
(* still triggers delete", spec 4.2): once the process has exited, no copy *)
(* of the trace is left in the cluster unless a delete was tried and       *)
(* logged an error or the user forced the exit.                            *)
(***************************************************************************)
NoOrphanedCopies == exited => CleanedUp

(***************************************************************************)
(* Once Run* holds the traceID, every way out of the process (the deferred *)
(* DeleteTrace, the handler's delete then os.Exit, a failed output wait)   *)
(* leaves no copy behind unless a delete logged an error or the user       *)
(* forced the exit.                                                        *)
(***************************************************************************)
NoLeakAfterPublish == exited /\ published => CleanedUp

(***************************************************************************)
(* The traceID sigHandler reads stays valid and covers every copy: once    *)
(* Run* holds it (CreateTrace returned it), it is never lost, and no step  *)
(* creates a copy any more; the POSTs of createTraces are all over.        *)
(***************************************************************************)
PublishedStable == [][published => published' /\ Present' \subseteq Present]_vars

(***************************************************************************)
(* The command always ends: every wait returns by the timeout even if no   *)
(* agent ever answers, and every path reaches an exit.                     *)
(***************************************************************************)
Termination == <>exited

-----------------------------------------------------------------------------
(***************************************************************************)
(* The inductive strengthening of NoLeakAfterPublish and TypeOK.  The      *)
(* handler exits on the second SIGINT, so the counter never passes 1 in a  *)
(* running process; the traceID is published only once createTraces and   *)
(* the initial wait are over, so no copy is posted after it; and the main  *)
(* goroutine reaches "done" holding the traceID only through the deferred  *)
(* DeleteTrace.                                                            *)
(***************************************************************************)
SigintsBound == sigints <= 1 \/ exited
PublishedAfterCreate == published => pc \in {"waitOut", "output", "deleteEnd", "done"}
DoneCleaned == published /\ pc = "done" => CleanedUp

IInv ==
  /\ TypeOK
  /\ SigintsBound
  /\ PublishedAfterCreate
  /\ DoneCleaned
  /\ NoLeakAfterPublish
=============================================================================
