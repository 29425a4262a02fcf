-------------------------- MODULE MCTraceFeedback --------------------------
(***************************************************************************)
(* Checks one round of waitForTraceState against what spec.md (4.2, 8.2-4) *)
(* says it reports, over every snapshot of up to three copies whose status *)
(* is drawn from two state tokens and two messages.  Every snapshot is an  *)
(* initial state; the round is a function of it, so Next only stutters.    *)
(***************************************************************************)
EXTENDS TraceFeedback

CONSTANTS Nodes, Msgs, Empty, Expected

(* A cluster has finitely many nodes, and "" names none of them. *)
ASSUME FeedbackAssumption == IsFiniteSet(Nodes) /\ None \notin Nodes

VARIABLES traces, timeout
vars == <<traces, timeout>>

Status == [state : {Empty, Expected}, err : {None} \cup Msgs, warn : {None} \cup Msgs]

Init ==
  /\ traces \in UNION {[D -> Status] : D \in SUBSET Nodes \ {{}}}
  /\ timeout \in BOOLEAN

Next == UNCHANGED vars

Spec == Init /\ [][Next]_vars

Finished == ~RoundRetries(traces, Expected, timeout)
Printed  == RoundFeedback(traces, Expected, timeout)

(* A line that reports msg for node n, on its own or in the aggregate. *)
Reports(n, msg) ==
  [node |-> n, msg |-> msg] \in Printed \/ [node |-> None, msg |-> msg] \in Printed

TypeOK ==
  /\ traces \in UNION {[D -> Status] : D \in SUBSET Nodes}
  /\ timeout \in BOOLEAN

(***************************************************************************)
(* Every node's failure reaches the operator: a round that ends reports    *)
(* each copy's error, and each timed-out copy, whatever the other nodes    *)
(* did; it reports each copy's warning exactly when no copy converged      *)
(* (printTraceFeedback called from waitForTraceState, spec 8.2 and 8.4).   *)
(***************************************************************************)
FeedbackComplete ==
  Finished =>
    \A n \in DOMAIN traces :
      /\ IsError(traces[n]) => Reports(n, traces[n].err)
      /\ timeout /\ IsPending(traces[n], Expected) => Reports(n, TimeoutMsg)
      /\ IsWarning(traces[n]) =>
           (Reports(n, traces[n].warn) <=> ~RoundSucceeds(traces, Expected))

(***************************************************************************)
(* The single "Failed to run the gadget on all nodes" line is printed only *)
(* when there are several copies and every one of them failed with that    *)
(* same text (getIdenticalValue and the two len(m) tests of               *)
(* printTraceFeedback, spec 8.3).                                          *)
(***************************************************************************)
AggregateSound ==
  Finished =>
    \A line \in Printed :
      line.node = None =>
        /\ Cardinality(DOMAIN traces) > 1
        /\ \/ \A n \in DOMAIN traces : IsWarning(traces[n]) /\ traces[n].warn = line.msg
           \/ \A n \in DOMAIN traces :
                \/ IsError(traces[n]) /\ traces[n].err = line.msg
                \/ timeout /\ IsPending(traces[n], Expected) /\ TimeoutMsg = line.msg
=============================================================================
