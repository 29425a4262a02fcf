-------------------------- MODULE TraceOperation ---------------------------
(***************************************************************************)
(* A new operation on an existing trace: SetTraceOperation, which patches  *)
(* the GADGET_OPERATION annotation of every copy (updateTraceOperation),   *)
(* followed by waitForTraceState for the state the operation should lead  *)
(* to (src/cmd/kubectl-gadget/utils/trace.go).  The caller that pairs the  *)
(* two is not under src/; it follows spec 4.2 (SetOperation, then          *)
(* WaitForState).  The node agents act on the annotation: they clear it    *)
(* and write a state, an error or a warning (spec 3 and 6).               *)
(***************************************************************************)
EXTENDS Naturals, FiniteSets, TraceFeedback

CONSTANTS
  Nodes,        \* the nodes holding a copy of the trace
  Msgs,         \* texts an agent writes into OperationError/OperationWarning
  StateTokens,  \* Status.State values
  PriorStates,  \* the states the copies were left in by the previous operation
  Expected,     \* the state the caller waits for
  Timeout       \* clock ticks in traceTimeout

ASSUME OperationAssumption ==
  /\ IsFiniteSet(Nodes) /\ Nodes # {}
  /\ None \notin Msgs /\ TimeoutMsg \notin Msgs
  /\ PriorStates \subseteq StateTokens /\ Expected \in StateTokens
  /\ Timeout \in Nat

Status == [state : StateTokens, err : {None} \cup Msgs, warn : {None} \cup Msgs]

VARIABLES
  copies,     \* copies[n]: the Status of node n's copy
  requested,  \* requested[n]: the copy carries an operation the agent has not taken up
  answered,   \* answered[n]: the agent has written its answer to the new operation
  pc,         \* the caller: "list", "patch", "wait", "done"
  todo,       \* copies of traces.Items the loop has still to patch
  failed,     \* copies whose updateTraceOperation returned an error
  elapsed,    \* clock ticks since waitForTraceState started
  result,     \* "none", "listFailed", "setFailed", "waitFailed" or "ok"
  converged   \* the copies the returning round counted in successNodeCount

vars == <<copies, requested, answered, pc, todo, failed, elapsed, result, converged>>

TypeOK ==
  /\ copies \in [Nodes -> Status]
  /\ requested \in [Nodes -> BOOLEAN]
  /\ answered \in [Nodes -> BOOLEAN]
  /\ pc \in {"list", "patch", "wait", "done"}
  /\ todo \subseteq Nodes /\ failed \subseteq Nodes /\ converged \subseteq Nodes
  /\ elapsed \in 0..Timeout + 1
  /\ result \in {"none", "listFailed", "setFailed", "waitFailed", "ok"}

(* The previous operation succeeded on every node. *)
Init ==
  /\ copies \in [Nodes -> [state : PriorStates, err : {None}, warn : {None}]]
  /\ requested = [n \in Nodes |-> FALSE]
  /\ answered = [n \in Nodes |-> FALSE]
  /\ pc = "list"
  /\ todo = {} /\ failed = {} /\ converged = {}
  /\ elapsed = 0
  /\ result = "none"

(* SetTraceOperation's getTraceListFromID; its error is returned. *)
ListCopies ==
  /\ pc = "list"
  /\ \/ pc' = "patch" /\ todo' = Nodes /\ UNCHANGED result
     \/ pc' = "done" /\ result' = "listFailed" /\ UNCHANGED todo
  /\ UNCHANGED <<copies, requested, answered, failed, elapsed, converged>>

(* Mutant: the loop stops at the first failed update. *)
PatchStopsOnError(n) ==
  /\ pc = "patch"
  /\ n \in todo
  /\ todo' = todo \ {n}
  /\ \/ requested' = [requested EXCEPT ![n] = TRUE] /\ UNCHANGED <<failed, pc, result>>
     \/ /\ failed' = failed \cup {n} /\ pc' = "done" /\ result' = "setFailed"
        /\ UNCHANGED requested
  /\ UNCHANGED <<copies, answered, elapsed, converged>>

(***************************************************************************)
(* One updateTraceOperation: the JSON merge patch of the annotation.  It   *)
(* succeeds, fails (getRestClient or the PATCH), or fails after the server *)
(* applied it; an error is wrapped into err and the loop goes on.          *)
(***************************************************************************)
Patch(n) ==
  /\ pc = "patch"
  /\ n \in todo
  /\ todo' = todo \ {n}
  /\ \/ requested' = [requested EXCEPT ![n] = TRUE] /\ UNCHANGED failed
     \/ failed' = failed \cup {n} /\ UNCHANGED requested
     \/ requested' = [requested EXCEPT ![n] = TRUE] /\ failed' = failed \cup {n}
  /\ UNCHANGED <<copies, answered, pc, elapsed, result, converged>>

(* SetTraceOperation returns err; the caller waits only when it is nil. *)
SetReturns ==
  /\ pc = "patch"
  /\ todo = {}
  /\ IF failed = {} THEN pc' = "wait" /\ UNCHANGED result
                    ELSE pc' = "done" /\ result' = "setFailed"
  /\ UNCHANGED <<copies, requested, answered, todo, failed, elapsed, converged>>

(* A round of waitForTraceState that returns (see WaitOutcome in           *)
(* TraceOrchestrator): no copy pending, or the timeout has elapsed.        *)
Wait ==
  /\ pc = "wait"
  /\ ~RoundRetries(copies, Expected, elapsed > Timeout)
  /\ pc' = "done"
  /\ IF RoundSucceeds(copies, Expected)
     THEN result' = "ok" /\ converged' = {n \in Nodes : IsSuccess(copies[n], Expected)}
     ELSE result' = "waitFailed" /\ UNCHANGED converged
  /\ UNCHANGED <<copies, requested, answered, todo, failed, elapsed>>

(* The GET of getTraceListFromID fails. *)
WaitListFails ==
  /\ pc = "wait"
  /\ pc' = "done"
  /\ result' = "waitFailed"
  /\ UNCHANGED <<copies, requested, answered, todo, failed, elapsed, converged>>

Tick ==
  /\ pc = "wait"
  /\ elapsed <= Timeout
  /\ elapsed' = elapsed + 1
  /\ UNCHANGED <<copies, requested, answered, pc, todo, failed, result, converged>>

(* An agent takes up the operation and writes its outcome. *)
Agent(n) ==
  /\ requested[n]
  /\ requested' = [requested EXCEPT ![n] = FALSE]
  /\ answered' = [answered EXCEPT ![n] = TRUE]
  /\ copies' \in {[copies EXCEPT ![n] = s] : s \in
                    [state : StateTokens, err : {None}, warn : {None}]
                    \cup [state : {copies[n].state}, err : Msgs, warn : {None}]
                    \cup [state : {copies[n].state}, err : {None}, warn : Msgs]}
  /\ UNCHANGED <<pc, todo, failed, elapsed, result, converged>>

Done == pc = "done" /\ UNCHANGED vars

Next ==
  \/ ListCopies \/ (\E n \in Nodes : Patch(n)) \/ SetReturns
  \/ Wait \/ WaitListFails \/ Tick
  \/ \E n \in Nodes : Agent(n)
  \/ Done

Spec == Init /\ [][Next]_vars

-----------------------------------------------------------------------------
(***************************************************************************)
(* SetOperation attempts every copy whatever failed before (spec 4.2):     *)
(* once SetTraceOperation has returned, every copy was tried, every copy   *)
(* whose update did not fail carries the operation or has answered it, and *)
(* an error was returned exactly when some update failed.                  *)
(***************************************************************************)
SetReachesAll ==
  pc \in {"wait", "done"} /\ result # "listFailed" =>
    /\ todo = {}
    /\ \A n \in Nodes \ failed : requested[n] \/ answered[n]
    /\ (result = "setFailed" <=> failed # {})

(***************************************************************************)
(* The wait reports the answer to the new operation (the TODO at           *)
(* waitForTraceState's state test): every copy the returning round counted *)
(* as converged had answered the operation set just before.                *)
(***************************************************************************)
FreshConvergence == result = "ok" => \A n \in converged : answered[n]
====
