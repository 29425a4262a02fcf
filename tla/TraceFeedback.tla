--------------------------- MODULE TraceFeedback ---------------------------
(***************************************************************************)
(* One round of waitForTraceState and the feedback it prints, as pure      *)
(* operators (src/cmd/kubectl-gadget/utils/trace.go).                       *)
(*                                                                         *)
(* A round works on a snapshot of the copies of one trace: a function from *)
(* the node of each copy (Spec.Node) to its Status.  The copies of one     *)
(* trace are on distinct nodes, so the code's maps keyed by Spec.Node are   *)
(* functions on a subset of the snapshot's domain.  A message is a model   *)
(* value; the code's empty string is None.                                 *)
(***************************************************************************)
EXTENDS Naturals, FiniteSets

CONSTANTS
  None,        \* the empty string "" of OperationError/OperationWarning
  TimeoutMsg   \* "No results received from trace within 2s"

(***************************************************************************)
(* Classification of one copy, in the order of the if/else-if chain.       *)
(***************************************************************************)
IsError(s)              == s.err # None
IsWarning(s)            == s.err = None /\ s.warn # None
(* Mutant: a copy without error or warning counts whatever its state. *)
IsSuccessAnyState(s, expected) == s.err = None /\ s.warn = None
IsSuccess(s, expected)  == s.err = None /\ s.warn = None /\ s.state = expected
IsPending(s, expected)  == s.err = None /\ s.warn = None /\ s.state # expected

(***************************************************************************)
(* A round restarts (continue RetryLoop) as soon as it meets a pending     *)
(* copy while the timeout has not elapsed; nothing it recorded survives.   *)
(***************************************************************************)
RoundRetries(traces, expected, timeout) ==
  /\ ~timeout
  /\ \E n \in DOMAIN traces : IsPending(traces[n], expected)

(* Mutant: a pending copy is not recorded when the round times out. *)
NodeErrorsNoTimeout(traces, expected, timeout) ==
  [n \in {k \in DOMAIN traces : IsError(traces[k])} |-> traces[n].err]

(* nodeErrors: the copies' errors and, once timed out, the pending copies. *)
NodeErrors(traces, expected, timeout) ==
  [n \in {k \in DOMAIN traces : \/ IsError(traces[k])
                                \/ timeout /\ IsPending(traces[k], expected)}
     |-> IF IsError(traces[n]) THEN traces[n].err ELSE TimeoutMsg]

(* nodeWarnings *)
NodeWarnings(traces) ==
  [n \in {k \in DOMAIN traces : IsWarning(traces[k])} |-> traces[n].warn]

(* successNodeCount *)
SuccessNodeCount(traces, expected) ==
  Cardinality({n \in DOMAIN traces : IsSuccess(traces[n], expected)})

(* The round returns the traces (success) iff some copy converged. *)
RoundSucceeds(traces, expected) == SuccessNodeCount(traces, expected) > 0

(***************************************************************************)
(* getIdenticalValue: the value every entry of m has, or None when two     *)
(* entries differ or m is empty.                                            *)
(***************************************************************************)
GetIdenticalValue(m) ==
  LET vals == {m[n] : n \in DOMAIN m}
  IN  IF \E v \in vals : vals = {v} THEN CHOOSE v \in vals : TRUE ELSE None

(* Mutant: the aggregate line without the len(m) == totalNodes test. *)
PrintTraceFeedbackAnyCount(m, totalNodes) ==
  IF Cardinality(DOMAIN m) > 1 /\ GetIdenticalValue(m) # None
  THEN {[node |-> None, msg |-> GetIdenticalValue(m)]}
  ELSE {[node |-> n, msg |-> m[n]] : n \in DOMAIN m}

(***************************************************************************)
(* printTraceFeedback: the lines written to stderr.  A line names a node,  *)
(* or None for the single "Failed to run the gadget on all nodes" line.    *)
(***************************************************************************)
PrintTraceFeedback(m, totalNodes) ==
  IF /\ Cardinality(DOMAIN m) > 1
     /\ Cardinality(DOMAIN m) = totalNodes
     /\ GetIdenticalValue(m) # None
  THEN {[node |-> None, msg |-> GetIdenticalValue(m)]}
  ELSE {[node |-> n, msg |-> m[n]] : n \in DOMAIN m}

(***************************************************************************)
(* Everything a round that does not retry prints: the warnings, printed    *)
(* only when no copy converged, and the errors, printed by the deferred    *)
(* call whatever the outcome.                                              *)
(***************************************************************************)
RoundFeedback(traces, expected, timeout) ==
  LET total == Cardinality(DOMAIN traces)
  IN  PrintTraceFeedback(NodeErrors(traces, expected, timeout), total)
      \cup (IF SuccessNodeCount(traces, expected) = 0
            THEN PrintTraceFeedback(NodeWarnings(traces), total)
            ELSE {})
=============================================================================
