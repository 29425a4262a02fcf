----------------------- MODULE TraceStreamingProofs ------------------------
(***************************************************************************)
(* Proofs about TraceStreaming for every set of nodes and every bound: the *)
(* streaming run implements the orchestrator of TraceOrchestrator (the     *)
(* aggregator's return is its Output step, every other aggregator step a   *)
(* stutter), so the orchestrator's invariants carry over; and the fan-in   *)
(* joins every stream it started.                                          *)
(***************************************************************************)
EXTENDS TraceStreaming, TraceOrchestratorProofs, FiniteSetTheorems, TLAPS

LEMMA InitProjects == InitS => Init
  BY DEF InitS

(* The aggregator's return, seen from the orchestrator's variables. *)
LEMMA OutputIsNext == Output => [Next]_vars
  BY DEF Next, Main, MainProgress

LEMMA StepProjects == [NextS]_varsS => [Next]_vars
<1> SUFFICES ASSUME [NextS]_varsS PROVE [Next]_vars
  OBVIOUS
<1>1. CASE Orch(MainOrch, "main")
  BY <1>1 DEF Orch, MainOrch, Next, Main, MainProgress
<1>2. CASE Orch(WaitListFails, "main") \/ Orch(HandlerReady \/ HandlerDelete, "signal")
  BY <1>2 DEF Orch, Next, Main
<1>3. CASE Orch(Tick \/ (\E n \in Nodes, s \in Reports : AgentReport(n, s)) \/ Terminated, "main")
  BY <1>3 DEF Orch, Next
<1>4. ASSUME NEW sig \in Signals, SignalS(sig) PROVE [Next]_vars
  BY <1>4 DEF SignalS, Next
<1>5. ASSUME NEW n \in Nodes, ExecDone(n) PROVE [Next]_vars
  BY <1>5 DEF ExecDone, vars
<1>6. CASE Notify \/ Spawn
  BY <1>6 DEF Notify, Spawn, OrchRest, vars
<1>7. CASE Client
  <2>1. CASE UNCHANGED pc
    BY <1>7, <2>1 DEF Client, OrchRest, vars
  <2>2. CASE pc' = "deleteEnd"
    BY <1>7, <2>2, OutputIsNext DEF Client, AggAt, OrchRest, Output, MainStep
  <2>3. QED
    BY <1>7, <2>1, <2>2 DEF Client
<1>8. ASSUME NEW n \in Nodes, Deliver(n) PROVE [Next]_vars
  <2>1. CASE count' = 0
    BY <1>8, <2>1, OutputIsNext DEF Deliver, AggAt, OrchRest, Output, MainStep
  <2>2. CASE count' # 0
    BY <1>8, <2>2 DEF Deliver, OrchRest, vars
  <2>3. QED
    BY <2>1, <2>2
<1>9. CASE CancelRecv
  BY <1>9, OutputIsNext DEF CancelRecv, AggAt, OrchRest, Output, MainStep
<1>10. CASE UNCHANGED varsS
  BY <1>10 DEF varsS
<1>11. QED
  BY <1>1, <1>2, <1>3, <1>4, <1>5, <1>6, <1>7, <1>8, <1>9, <1>10 DEF NextS, MainProgressS

(***************************************************************************)
(* RunTraceAndPrintStream with the stream aggregator implements the        *)
(* orchestrator whose output phase is one step: every behaviour of the     *)
(* composition, seen on the orchestrator's variables, is one of            *)
(* TraceOrchestrator's.                                                    *)
(***************************************************************************)
THEOREM StreamingRefinesOrchestrator == SpecS => Spec
  BY InitProjects, StepProjects, PTL DEF SpecS, Spec

(***************************************************************************)
(* Hence the orchestrator's inductive invariant, and with it the absence   *)
(* of leaks once the traceID is published, hold in the streaming run too,  *)
(* cancellation by the aggregator's signal case included.                  *)
(***************************************************************************)
THEOREM StreamingLeakFree == SpecS => []NoLeakAfterPublish
<1>1. SpecS => []IInv
  BY StreamingRefinesOrchestrator, IInvariant, PTL
<1>2. IInv => NoLeakAfterPublish
  BY DEF IInv
<1>3. QED
  BY <1>1, <1>2, PTL
-----------------------------------------------------------------------------
(***************************************************************************)
(* The strengthening of StreamsJoined.  Copies are only on nodes the       *)
(* filter keeps, so the copies the output wait found are all selected; the *)
(* aggregator starts only in the output phase, with no goroutine yet; it   *)
(* reaches the loop only with some copy present; and it is cancelled only  *)
(* when it has returned.                                                   *)
(***************************************************************************)
TypeAgg ==
  /\ streams \in [Nodes -> {"idle", "exec", "sending", "sent"}]
  /\ count \in Nat
  /\ agg \in {"notify", "client", "spawn", "select", "returned"}
  /\ cancelled \in BOOLEAN

Filtered == {n \in Nodes : nodeFlag \in {NoNode, n}}

OrchPart ==
  /\ Present \subseteq Filtered
  /\ targets \subseteq Filtered
  /\ pc \notin {"output", "deleteEnd", "done"} => agg = "notify"
  /\ pc = "output" /\ ~exited /\ agg \in {"notify", "client", "spawn"} => Present # {}

AggPart ==
  /\ TypeAgg
  /\ agg \in {"notify", "client", "spawn"} => Active = {}
  /\ cancelled => agg = "returned"
  /\ StreamsJoined

JInv == OrchPart /\ AggPart

LEMMA InitJInv == InitS => JInv
<1> SUFFICES ASSUME InitS PROVE JInv
  OBVIOUS
<1>1. cancelled \in BOOLEAN
  BY Zenon DEF InitS
<1>2. OrchPart
  BY DEF InitS, Init, OrchPart, Present
<1>3. AggPart
  BY <1>1 DEF InitS, AggPart, TypeAgg, Active, StreamsJoined
<1>4. QED
  BY <1>2, <1>3 DEF JInv

(* A finite set of nodes has a natural cardinality, zero exactly when empty. *)
LEMMA NodeSetCard ==
  ASSUME NEW S \in SUBSET Nodes
  PROVE  /\ IsFiniteSet(S)
         /\ Cardinality(S) \in Nat
         /\ Cardinality(S) = 0 <=> S = {}
  BY NodesAssumption, FS_Subset, FS_CardinalityType, FS_EmptySet

(* The output wait succeeds only if it found some copy. *)
LEMMA OkHasCopies == ASSUME NEW e, WaitOutcome(e) = "ok" PROVE Present # {}
  BY DEF WaitOutcome

(***************************************************************************)
(* The orchestrator's steps, which leave agg alone, keep OrchPart: a POST  *)
(* goes to a target, a delete only removes copies, an agent never adds     *)
(* one, and the only step into the output phase is a successful wait.     *)
(***************************************************************************)
LEMMA OrchPartStep ==
  ASSUME IInv, OrchPart, [Next]_vars, UNCHANGED agg
  PROVE  OrchPart'
<1>0. TypeOK
  BY DEF IInv
<1> USE <1>0 DEF OrchPart, Filtered
<1>1. CASE InstallHandler \/ CreateDone \/ WaitInit \/ WaitListFails \/ Return
           \/ HandlerReady \/ Tick \/ Terminated \/ UNCHANGED vars
  BY <1>1 DEF InstallHandler, CreateDone, WaitInit, Wait, WaitListFails, Return,
              HandlerReady, Tick, Terminated, vars, MainStep, Present
<1>2. CASE ListNodes
  BY <1>2 DEF ListNodes, MainStep, Present
<1>3. ASSUME NEW n \in Nodes, Post(n) PROVE OrchPart'
  BY <1>3, FreshType, NoCopyAssumption DEF Post, Present, TypeOK
<1>4. CASE Rollback \/ DeleteInit \/ DeleteEnd \/ HandlerDelete
  <2>1. Present' \subseteq Present
    BY <1>4 DEF Rollback, DeleteInit, DeleteEnd, HandlerDelete, DeleteTraces, Present
  <2>2. QED
    BY <1>4, <2>1 DEF Rollback, DeleteInit, DeleteEnd, HandlerDelete, MainStep
<1>5. CASE WaitOut
  <2>1. pc' = "output" => Present # {}
    BY <1>5, OkHasCopies DEF WaitOut, Wait
  <2>2. QED
    BY <1>5, <2>1 DEF WaitOut, Wait, Present
<1>6. CASE Output
  BY <1>6 DEF Output, MainStep, Present
<1>7. ASSUME NEW sig \in Signals, Signal(sig) PROVE OrchPart'
  BY <1>7 DEF Signal, Present
<1>8. ASSUME NEW n \in Nodes, NEW r \in Reports, AgentReport(n, r) PROVE OrchPart'
  BY <1>8, AgentKeepsPresent DEF AgentReport
<1>9. QED
  BY <1>1, <1>2, <1>3, <1>4, <1>5, <1>6, <1>7, <1>8 DEF Next, Main, MainProgress

(* Steps that leave the goroutines, streamCount and the aggregator alone. *)
LEMMA AggPartFrame ==
  ASSUME AggPart, UNCHANGED <<streams, count, agg, cancelled>>
  PROVE  AggPart'
  BY DEF AggPart, TypeAgg, Active, StreamsJoined

(* The aggregator's own steps keep OrchPart: they move pc only from the    *)
(* output phase to the deferred DeleteTrace and leave the copies alone.    *)
LEMMA OrchPartAgg ==
  ASSUME OrchPart, Notify \/ Client \/ Spawn \/ (\E n \in Nodes : Deliver(n)) \/ CancelRecv
  PROVE  OrchPart'
  BY DEF OrchPart, Filtered, Present, Notify, Client, Spawn, Deliver, CancelRecv, AggAt, OrchRest

(***************************************************************************)
(* The aggregator's steps keep AggPart.  The loop starts one goroutine per *)
(* selected copy, which OrchPart makes the copies present, a non-empty    *)
(* set; each completion takes one goroutine out of Active and one off      *)
(* streamCount, and the one that brings it to zero returns.                *)
(***************************************************************************)
LEMMA AggPartAgg ==
  ASSUME JInv, Notify \/ Client \/ Spawn \/ (\E n \in Nodes : Deliver(n)) \/ CancelRecv
  PROVE  AggPart'
<1> USE DEF JInv, OrchPart, AggPart, TypeAgg, StreamsJoined
<1>1. CASE Notify \/ Client
  BY <1>1 DEF Notify, Client, AggAt, Active
<1>2. CASE Spawn
  <2>1. Selected = Present /\ Present # {} /\ Selected \subseteq Nodes
    BY <1>2 DEF Spawn, AggAt, Selected, Filtered, Present
  <2>2. Active' = Selected
    BY <1>2, <2>1 DEF Spawn, Active
  <2>3. Cardinality(Selected) \in Nat /\ Cardinality(Selected) # 0
    BY <2>1, NodeSetCard
  <2>4. QED
    BY <1>2, <2>2, <2>3 DEF Spawn, AggAt
<1>3. ASSUME NEW n \in Nodes, Deliver(n) PROVE AggPart'
  <2>1. n \in Active /\ Active' = Active \ {n}
    BY <1>3 DEF Deliver, Active
  <2>2. Cardinality(Active') = Cardinality(Active) - 1
    BY <2>1, NodeSetCard, FS_RemoveElement DEF Active
  <2>3. Cardinality(Active') \in Nat /\ (Cardinality(Active') = 0 <=> Active' = {})
    BY <2>1, NodeSetCard DEF Active
  <2>4. count' = Cardinality(Active') /\ count' \in Nat /\ ~cancelled
    BY <1>3, <2>2, <2>3 DEF Deliver, AggAt
  <2>5. QED
    BY <1>3, <2>3, <2>4 DEF Deliver, AggAt
<1>4. CASE CancelRecv
  BY <1>4 DEF CancelRecv, AggAt, Active
<1>5. QED
  BY <1>1, <1>2, <1>3, <1>4

(* Every step of the composition keeps JInv, given the orchestrator's     *)
(* inductive invariant.                                                     *)
LEMMA JStep == IInv /\ JInv /\ [NextS]_varsS => JInv'
<1> SUFFICES ASSUME IInv, JInv, [NextS]_varsS PROVE JInv'
  OBVIOUS
<1>0. [Next]_vars
  BY StepProjects
<1>1. CASE UNCHANGED <<streams, count, agg, cancelled>>
  BY <1>0, <1>1, OrchPartStep, AggPartFrame DEF JInv
<1>2. CASE Notify \/ Client \/ Spawn \/ (\E n \in Nodes : Deliver(n)) \/ CancelRecv
  BY <1>2, OrchPartAgg, AggPartAgg DEF JInv
<1>3. ASSUME NEW n \in Nodes, ExecDone(n) PROVE JInv'
  <2>1. OrchPart'
    BY <1>0, <1>3, OrchPartStep DEF ExecDone, JInv
  <2>2. Active' = Active
    BY <1>3 DEF ExecDone, Active
  <2>3. AggPart'
    BY <1>3, <2>2 DEF ExecDone, JInv, AggPart, TypeAgg, StreamsJoined
  <2>4. QED
    BY <2>1, <2>3 DEF JInv
<1>4. QED
  BY <1>1, <1>2, <1>3
  DEF NextS, MainProgressS, Orch, SignalS, aggVars, varsS

(***************************************************************************)
(* genericStreamsDisplay joins every goroutine it started, for every set   *)
(* of nodes: while it selects, streamCount is the number of goroutines yet *)
(* to deliver and is positive, and when it returns other than on a signal  *)
(* no goroutine is left running or blocked on completion.                  *)
(***************************************************************************)
THEOREM StreamsJoinedAlways == SpecS => []StreamsJoined
<1>1. SpecS => []IInv
  BY StreamingRefinesOrchestrator, IInvariant, PTL
<1>2. SpecS => []JInv
  BY <1>1, InitJInv, JStep, PTL DEF SpecS
<1>3. JInv => StreamsJoined
  BY DEF JInv, AggPart
<1>4. QED
  BY <1>2, <1>3, PTL
-----------------------------------------------------------------------------
(***************************************************************************)
(* The rest of TypeOKS.  streamCount never exceeds the goroutines still    *)
(* running or blocked on completion: 0 before the loop, equal to them      *)
(* while selecting, and left as it was by the cancel case.                 *)
(***************************************************************************)
KInv ==
  /\ registered \in BOOLEAN
  /\ sigq \in 0..1
  /\ exitedBy \in {"none", "main", "signal"}
  /\ count <= Cardinality(Active)

LEMMA InitKInv == InitS => KInv
<1> SUFFICES ASSUME InitS PROVE KInv
  OBVIOUS
<1>1. registered \in BOOLEAN
  BY Zenon DEF InitS
<1>2. QED
  BY <1>1, NodeSetCard DEF InitS, KInv, Active

(* registered is set only by signal.Notify, to TRUE. *)
LEMMA RegisteredStep == registered \in BOOLEAN /\ [NextS]_varsS => registered' \in BOOLEAN
<1> SUFFICES ASSUME registered \in BOOLEAN, [NextS]_varsS PROVE registered' \in BOOLEAN
  OBVIOUS
<1>1. CASE Notify
  BY <1>1, Zenon DEF Notify
<1>2. CASE UNCHANGED registered
  BY <1>2, Zenon
<1>3. QED
  BY <1>1, <1>2
  DEF NextS, MainProgressS, Orch, aggVars, varsS, Client, Spawn, Deliver, CancelRecv,
      SignalS, ExecDone

LEMMA KStep == JInv /\ KInv /\ [NextS]_varsS => KInv'
<1> SUFFICES ASSUME JInv, KInv, [NextS]_varsS PROVE KInv'
  OBVIOUS
<1>0. registered' \in BOOLEAN
  BY RegisteredStep DEF KInv
<1> USE <1>0 DEF KInv, JInv, AggPart, TypeAgg, StreamsJoined
<1>1. CASE UNCHANGED <<sigq, streams, count, exitedBy>>
  BY <1>1 DEF Active
<1>2. ASSUME NEW who \in {"main", "signal"}, UNCHANGED aggVars, ExitBy(who) PROVE KInv'
  BY <1>2 DEF ExitBy, aggVars, Active
<1>3. ASSUME NEW sig \in Signals, SignalS(sig) PROVE KInv'
  BY <1>3 DEF SignalS, ExitBy, Active
<1>4. CASE CancelRecv
  BY <1>4 DEF CancelRecv, Active
<1>5. CASE Spawn
  <2>1. Active' = Selected /\ count' = Cardinality(Selected)
    BY <1>5 DEF Spawn, Active, Selected, Present
  <2>2. Selected \subseteq Nodes
    BY DEF Selected, Present
  <2>3. QED
    BY <1>5, <2>1, <2>2, NodeSetCard DEF Spawn
<1>6. ASSUME NEW n \in Nodes, Deliver(n) PROVE KInv'
  <2>1. n \in Active /\ Active' = Active \ {n}
    BY <1>6 DEF Deliver, Active
  <2>2. Cardinality(Active') = Cardinality(Active) - 1
    BY <2>1, NodeSetCard, FS_RemoveElement DEF Active
  <2>3. QED
    BY <1>6, <2>2 DEF Deliver, AggAt
<1>7. ASSUME NEW n \in Nodes, ExecDone(n) PROVE KInv'
  <2>1. Active' = Active
    BY <1>7 DEF ExecDone, Active
  <2>2. QED
    BY <1>7, <2>1 DEF ExecDone
<1>8. QED
  <2>1. CASE NextS
    <3>1. CASE Orch(MainOrch, "main") \/ Orch(WaitListFails, "main")
               \/ Orch(Tick \/ (\E m \in Nodes, r \in Reports : AgentReport(m, r)) \/ Terminated, "main")
      BY <3>1, <1>2 DEF Orch
    <3>2. CASE Orch(HandlerReady \/ HandlerDelete, "signal")
      BY <3>2, <1>2 DEF Orch
    <3>3. CASE Notify \/ Client
      BY <3>3, <1>1 DEF Notify, Client
    <3>4. QED
      BY <2>1, <3>1, <3>2, <3>3, <1>3, <1>4, <1>5, <1>6, <1>7 DEF NextS, MainProgressS
  <2>2. CASE UNCHANGED varsS
    BY <2>2, <1>1 DEF varsS, aggVars
  <2>3. QED
    BY <2>1, <2>2

(* No more goroutines run than there are nodes. *)
LEMMA ActiveBound == Cardinality(Active) <= Cardinality(Nodes)
<1>1. Active \subseteq Nodes
  BY DEF Active
<1>2. QED
  BY <1>1, NodesAssumption, FS_Subset

(***************************************************************************)
(* The composition is well typed for every set of nodes: in particular     *)
(* streamCount stays between 0 and the number of nodes, and sigs never     *)
(* holds more than its one buffered signal, since signal.Notify drops a    *)
(* signal when the buffer is full.                                         *)
(***************************************************************************)
THEOREM TypeOKSAlways == SpecS => []TypeOKS
<1>1. SpecS => [](IInv /\ JInv /\ KInv)
  <2>1. SpecS => []IInv
    BY StreamingRefinesOrchestrator, IInvariant, PTL
  <2>2. InitS => JInv /\ KInv
    BY InitJInv, InitKInv
  <2>3. IInv /\ JInv /\ KInv /\ [NextS]_varsS => (JInv /\ KInv)'
    BY JStep, KStep
  <2>4. QED
    BY <2>1, <2>2, <2>3, PTL DEF SpecS
<1>2. IInv /\ JInv /\ KInv => TypeOKS
  <2> SUFFICES ASSUME IInv, JInv, KInv PROVE TypeOKS
    OBVIOUS
  <2>1. TypeOK
    BY DEF IInv
  <2>2. count \in 0..Cardinality(Nodes)
    BY ActiveBound, NodeSetCard DEF JInv, AggPart, TypeAgg, KInv, Active
  <2>3. QED
    BY <2>1, <2>2, Zenon DEF TypeOKS, JInv, AggPart, TypeAgg, KInv
<1>3. QED
  BY <1>1, <1>2, PTL
====

