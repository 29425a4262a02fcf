------------------------ MODULE TraceFeedbackProofs -------------------------
(***************************************************************************)
(* Proofs about one round of waitForTraceState and printTraceFeedback, for *)
(* every snapshot of every size: FeedbackComplete and AggregateSound of    *)
(* MCTraceFeedback, which TLC checks on up to three copies.                *)
(***************************************************************************)
EXTENDS MCTraceFeedback, FiniteSetTheorems, TLAPS

(***************************************************************************)
(* getIdenticalValue returns something other than "" only when every       *)
(* entry of the map has that value.                                        *)
(***************************************************************************)
LEMMA IdenticalAll ==
  ASSUME NEW m, GetIdenticalValue(m) # None
  PROVE  \A k \in DOMAIN m : m[k] = GetIdenticalValue(m)
<1> DEFINE vals == {m[n] : n \in DOMAIN m}
<1>1. \E v \in vals : vals = {v}
  BY DEF GetIdenticalValue
<1>2. PICK v \in vals : vals = {v}
  BY <1>1
<1>3. GetIdenticalValue(m) = v
  BY <1>2 DEF GetIdenticalValue
<1>4. QED
  BY <1>2, <1>3

(***************************************************************************)
(* What printTraceFeedback prints: a line for a node of the map with its   *)
(* message, or the single aggregate line, only when the map has several    *)
(* entries, one per node, all with that message.                           *)
(***************************************************************************)
LEMMA PrintLines ==
  ASSUME NEW m, NEW total, NEW line \in PrintTraceFeedback(m, total)
  PROVE  \/ line.node \in DOMAIN m /\ line.msg = m[line.node]
         \/ /\ line.node = None
            /\ Cardinality(DOMAIN m) > 1 /\ Cardinality(DOMAIN m) = total
            /\ \A k \in DOMAIN m : m[k] = line.msg
<1>1. CASE /\ Cardinality(DOMAIN m) > 1 /\ Cardinality(DOMAIN m) = total
           /\ GetIdenticalValue(m) # None
  <2>1. line = [node |-> None, msg |-> GetIdenticalValue(m)]
    BY <1>1 DEF PrintTraceFeedback
  <2>2. QED
    BY <1>1, <2>1, IdenticalAll
<1>2. CASE ~(/\ Cardinality(DOMAIN m) > 1 /\ Cardinality(DOMAIN m) = total
             /\ GetIdenticalValue(m) # None)
  BY <1>2 DEF PrintTraceFeedback
<1>3. QED
  BY <1>1, <1>2

(* Every entry of the map is reported, on its own line or in the aggregate. *)
LEMMA PrintCovers ==
  ASSUME NEW m, NEW total, NEW k \in DOMAIN m
  PROVE  \/ [node |-> k, msg |-> m[k]] \in PrintTraceFeedback(m, total)
         \/ [node |-> None, msg |-> m[k]] \in PrintTraceFeedback(m, total)
<1>1. CASE /\ Cardinality(DOMAIN m) > 1 /\ Cardinality(DOMAIN m) = total
           /\ GetIdenticalValue(m) # None
  BY <1>1, IdenticalAll DEF PrintTraceFeedback
<1>2. CASE ~(/\ Cardinality(DOMAIN m) > 1 /\ Cardinality(DOMAIN m) = total
             /\ GetIdenticalValue(m) # None)
  BY <1>2 DEF PrintTraceFeedback
<1>3. QED
  BY <1>1, <1>2

(***************************************************************************)
(* The facts about one snapshot that both properties rest on: the error    *)
(* and warning maps are on its nodes, with the copies' own messages, a map *)
(* with as many entries as there are copies has all of them, and the       *)
(* round prints the errors, and the warnings exactly when no copy         *)
(* converged.                                                              *)
(***************************************************************************)
(* A snapshot: the copies of one trace on some of the nodes. *)
TypeSnap == DOMAIN traces \subseteq Nodes /\ traces \in [DOMAIN traces -> Status]

E == NodeErrors(traces, Expected, timeout)
W == NodeWarnings(traces)
Total == Cardinality(DOMAIN traces)

LEMMA Snapshot ==
  ASSUME TypeSnap
  PROVE  /\ DOMAIN E = {k \in DOMAIN traces : IsError(traces[k]) \/ (timeout /\ IsPending(traces[k], Expected))}
         /\ \A k \in DOMAIN E : E[k] = IF IsError(traces[k]) THEN traces[k].err ELSE TimeoutMsg
         /\ DOMAIN W = {k \in DOMAIN traces : IsWarning(traces[k])}
         /\ \A k \in DOMAIN W : W[k] = traces[k].warn
         /\ \A S \in SUBSET DOMAIN traces : Cardinality(S) = Total => S = DOMAIN traces
         /\ Printed = PrintTraceFeedback(E, Total)
                      \cup (IF RoundSucceeds(traces, Expected) THEN {} ELSE PrintTraceFeedback(W, Total))
<1> DEFINE D == DOMAIN traces
<1>1. IsFiniteSet(D)
  BY FeedbackAssumption, FS_Subset DEF TypeSnap
<1>2. \A S \in SUBSET D : Cardinality(S) = Total => S = D
  BY <1>1, FS_Subset DEF Total
<1>3. SuccessNodeCount(traces, Expected) \in Nat
  BY <1>1, FS_Subset, FS_CardinalityType DEF SuccessNodeCount
<1>4. Printed = PrintTraceFeedback(E, Total)
                \cup (IF RoundSucceeds(traces, Expected) THEN {} ELSE PrintTraceFeedback(W, Total))
  BY <1>3 DEF Printed, RoundFeedback, RoundSucceeds, E, W, Total
<1>5. QED
  BY <1>2, <1>4 DEF E, W, NodeErrors, NodeWarnings, TypeSnap

(* A copy with a warning has no error and is not pending. *)
LEMMA WarningExcludes ==
  ASSUME NEW s, IsWarning(s)
  PROVE  ~IsError(s) /\ ~IsPending(s, Expected)
  BY DEF IsWarning, IsError, IsPending

(***************************************************************************)
(* A copy with a warning never appears among the errors: not on a line of  *)
(* its own, and not in an aggregate, which needs every copy to have        *)
(* failed.                                                                 *)
(***************************************************************************)
LEMMA WarningNotInErrors ==
  ASSUME TypeSnap, NEW n \in DOMAIN traces, IsWarning(traces[n]), NEW msg,
         \/ [node |-> n, msg |-> msg] \in PrintTraceFeedback(E, Total)
         \/ [node |-> None, msg |-> msg] \in PrintTraceFeedback(E, Total)
  PROVE  FALSE
<1>1. n \notin DOMAIN E
  <2>1. ~IsError(traces[n]) /\ ~IsPending(traces[n], Expected)
    BY WarningExcludes
  <2>2. QED
    BY <2>1, Snapshot
<1>2. PICK line \in PrintTraceFeedback(E, Total) : line.node \in {n, None}
  OBVIOUS
<1>3. CASE line.node \in DOMAIN E
  BY <1>1, <1>2, <1>3, Snapshot, FeedbackAssumption DEF TypeSnap
<1>4. CASE line.node = None /\ Cardinality(DOMAIN E) = Total
  <2>1. DOMAIN E = DOMAIN traces
    BY <1>4, Snapshot
  <2>2. QED
    BY <1>1, <2>1
<1>5. QED
  BY <1>2, <1>3, <1>4, PrintLines

(***************************************************************************)
(* For every snapshot, of any size: every error and every timed-out copy   *)
(* is reported, and a warning exactly when no copy converged.              *)
(***************************************************************************)
LEMMA CompleteForSnapshot ==
  ASSUME TypeSnap
  PROVE  FeedbackComplete
<1> SUFFICES ASSUME NEW n \in DOMAIN traces
             PROVE  /\ IsError(traces[n]) => Reports(n, traces[n].err)
                    /\ timeout /\ IsPending(traces[n], Expected) => Reports(n, TimeoutMsg)
                    /\ IsWarning(traces[n]) =>
                         (Reports(n, traces[n].warn) <=> ~RoundSucceeds(traces, Expected))
  BY DEF FeedbackComplete
<1>0. PrintTraceFeedback(E, Total) \subseteq Printed
  BY Snapshot
<1>1. ASSUME IsError(traces[n]) PROVE Reports(n, traces[n].err)
  <2>1. n \in DOMAIN E /\ E[n] = traces[n].err
    BY <1>0, <1>1, Snapshot
  <2>2. QED
    BY <1>0, <2>1, PrintCovers DEF Reports
<1>2. ASSUME timeout, IsPending(traces[n], Expected) PROVE Reports(n, TimeoutMsg)
  <2>1. ~IsError(traces[n])
    BY <1>2 DEF IsPending, IsError
  <2>2. n \in DOMAIN E /\ E[n] = TimeoutMsg
    BY <1>0, <1>2, <2>1, Snapshot
  <2>3. QED
    BY <1>0, <2>2, PrintCovers DEF Reports
<1>3. ASSUME IsWarning(traces[n])
      PROVE  Reports(n, traces[n].warn) <=> ~RoundSucceeds(traces, Expected)
  <2>1. ASSUME ~RoundSucceeds(traces, Expected) PROVE Reports(n, traces[n].warn)
    <3>1. n \in DOMAIN W /\ W[n] = traces[n].warn
      BY <1>0, <1>3, Snapshot
    <3>2. PrintTraceFeedback(W, Total) \subseteq Printed
      BY <2>1, Snapshot
    <3>3. QED
      BY <3>1, <3>2, PrintCovers DEF Reports
  <2>2. ASSUME RoundSucceeds(traces, Expected), Reports(n, traces[n].warn) PROVE FALSE
    <3>1. Printed = PrintTraceFeedback(E, Total)
      BY <2>2, Snapshot
    <3>2. QED
      BY <1>0, <1>3, <2>2, <3>1, WarningNotInErrors DEF Reports
  <2>3. QED
    BY <2>1, <2>2
<1>4. QED
  BY <1>1, <1>2, <1>3

(***************************************************************************)
(* For every snapshot: the "all nodes" line stands for several copies that *)
(* all failed, or all warned, with the message it prints.                  *)
(***************************************************************************)
LEMMA SoundForSnapshot ==
  ASSUME TypeSnap
  PROVE  AggregateSound
<1> SUFFICES ASSUME NEW line \in Printed, line.node = None
             PROVE  /\ Cardinality(DOMAIN traces) > 1
                    /\ \/ \A n \in DOMAIN traces : IsWarning(traces[n]) /\ traces[n].warn = line.msg
                       \/ \A n \in DOMAIN traces :
                            \/ IsError(traces[n]) /\ traces[n].err = line.msg
                            \/ timeout /\ IsPending(traces[n], Expected) /\ TimeoutMsg = line.msg
  BY DEF AggregateSound
<1>0. line.node \notin DOMAIN traces
  BY FeedbackAssumption DEF TypeSnap
<1>1. CASE line \in PrintTraceFeedback(E, Total)
  <2>1. Cardinality(DOMAIN E) > 1 /\ Cardinality(DOMAIN E) = Total
        /\ \A k \in DOMAIN E : E[k] = line.msg
    BY <1>0, <1>1, Snapshot, PrintLines
  <2>2. DOMAIN E = DOMAIN traces
    BY <2>1, Snapshot
  <2>3. QED
    BY <2>1, <2>2, Snapshot DEF Total
<1>2. CASE line \in PrintTraceFeedback(W, Total)
  <2>1. Cardinality(DOMAIN W) > 1 /\ Cardinality(DOMAIN W) = Total
        /\ \A k \in DOMAIN W : W[k] = line.msg
    BY <1>0, <1>2, Snapshot, PrintLines
  <2>2. DOMAIN W = DOMAIN traces
    BY <2>1, Snapshot
  <2>3. QED
    BY <2>1, <2>2, Snapshot DEF Total
<1>3. QED
  BY <1>1, <1>2, Snapshot

(* A snapshot stays a snapshot: the round is a function of it. *)
LEMMA TypeSnapInvariant == Spec => []TypeSnap
<1>1. Init => TypeSnap
  BY DEF Init, TypeSnap
<1>2. TypeSnap /\ [Next]_vars => TypeSnap'
  BY DEF TypeSnap, Next, vars
<1>3. QED
  BY <1>1, <1>2, PTL DEF Spec

(***************************************************************************)
(* For every set of nodes and messages, a round of waitForTraceState that  *)
(* ends reports every error and every timed-out copy, and each warning     *)
(* exactly when no copy converged (printTraceFeedback, spec 8.2 and 8.4).  *)
(***************************************************************************)
THEOREM FeedbackCompleteAlways == Spec => []FeedbackComplete
  BY TypeSnapInvariant, CompleteForSnapshot, PTL

(***************************************************************************)
(* For every set of nodes and messages, the "Failed to run the gadget on   *)
(* all nodes" line is printed only for several copies that all failed, or *)
(* all warned, with that text (getIdenticalValue, spec 8.3).               *)
(***************************************************************************)
THEOREM AggregateSoundAlways == Spec => []AggregateSound
  BY TypeSnapInvariant, SoundForSnapshot, PTL
====

