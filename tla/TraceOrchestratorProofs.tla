---------------------- MODULE TraceOrchestratorProofs ----------------------
(***************************************************************************)
(* Proofs about TraceOrchestrator, for every set of nodes, every timeout   *)
(* and every bound: the type invariant, and that once Run* holds the       *)
(* traceID the process never exits leaving copies behind, except after a   *)
(* logged delete error or a forced second SIGINT.                          *)
(***************************************************************************)
EXTENDS TraceOrchestrator, TLAPS

(* The values the main goroutine's steps and the agents write are typed. *)
LEMMA FreshType == Fresh \in Status
  BY DEF Fresh, Status

LEMMA ReportsType == Reports \subseteq Status
  BY DEF Reports, Status

(***************************************************************************)
(* TypeOK in two parts: the Boolean flags, which Zenon handles, and the    *)
(* rest, which needs arithmetic and is left to SMT.                        *)
(***************************************************************************)
TypeFlags ==
  /\ initialWait \in BOOLEAN
  /\ published \in BOOLEAN
  /\ hDeleting \in BOOLEAN
  /\ exited \in BOOLEAN
  /\ forced \in BOOLEAN
  /\ deleteFailed \in BOOLEAN

TypeData ==
  /\ nodeFlag \in Nodes \cup {NoNode, UnknownNode}
  /\ pc \in PCs
  /\ targets \subseteq Nodes
  /\ copies \in [Nodes -> Status \cup {NoCopy}]
  /\ elapsed \in 0..Timeout + 1
  /\ hRecv \in {"none", "starting", "waiting"}
  /\ sigints \in 0..2
  /\ signals \in 0..MaxSignals
  /\ reports \in 0..MaxReports

LEMMA TypeSplit == TypeOK <=> TypeData /\ TypeFlags
  BY Zenon DEF TypeOK, TypeData, TypeFlags

(***************************************************************************)
(* Every initial state satisfies the inductive invariant.                  *)
(***************************************************************************)
LEMMA InitIInv == Init => IInv
<1> SUFFICES ASSUME Init PROVE IInv
  OBVIOUS
<1>1. TypeFlags
  BY Zenon DEF Init, TypeFlags
<1>2. TypeData
  BY BoundAssumption DEF Init, TypeData, PCs
<1>3. SigintsBound /\ PublishedAfterCreate /\ DoneCleaned /\ NoLeakAfterPublish
  BY DEF Init, SigintsBound, PublishedAfterCreate, DoneCleaned, NoLeakAfterPublish
<1>4. QED
  BY <1>1, <1>2, <1>3, TypeSplit DEF IInv

(***************************************************************************)
(* deleteTraces leaves the cluster cleaned up, whatever its outcome.       *)
(***************************************************************************)
LEMMA DeleteCleans ==
  ASSUME DeleteTraces
  PROVE  CleanedUp'
  BY DEF DeleteTraces, CleanedUp, Present

(***************************************************************************)
(* An agent's update never adds or removes a copy.                         *)
(***************************************************************************)
LEMMA AgentKeepsPresent ==
  ASSUME TypeOK, NEW n \in Nodes, NEW s \in Reports, AgentReport(n, s)
  PROVE  Present' = Present
  BY ReportsType, NoCopyAssumption DEF AgentReport, Present, TypeOK

(***************************************************************************)
(* The flags stay Boolean: each step sets them to a constant, a negation,  *)
(* a comparison or leaves them alone.                                      *)
(***************************************************************************)
LEMMA FlagsStep == TypeFlags /\ [Next]_vars => TypeFlags'
  BY ZenonT(120)
  DEF TypeFlags, Next, Main, MainProgress, InstallHandler, ListNodes, Post,
      CreateDone, Rollback, WaitInit, WaitListFails, DeleteInit, WaitOut,
      Output, DeleteEnd, Return, HandlerReady, Signal, HandlerDelete, Tick,
      AgentReport, Terminated, vars, MainStep, DeleteTraces, Wait

(***************************************************************************)
(* The data stays in its sets: the counters are capped by their guards,    *)
(* and the handler's counter passes 1 only as the process exits.           *)
(***************************************************************************)
LEMMA DataStep == TypeData /\ TypeFlags /\ SigintsBound /\ [Next]_vars => TypeData'
<1> SUFFICES ASSUME TypeData, TypeFlags, SigintsBound, [Next]_vars PROVE TypeData'
  OBVIOUS
<1> USE BoundAssumption, FreshType, ReportsType DEF TypeData, PCs
<1>1. CASE Main
  BY <1>1 DEF Main, MainProgress, InstallHandler, ListNodes, Post,
      CreateDone, Rollback, WaitInit, WaitListFails, DeleteInit, WaitOut,
      Output, DeleteEnd, Return, MainStep, DeleteTraces, Wait
<1>2. ASSUME NEW sig \in Signals, Signal(sig) PROVE TypeData'
  BY <1>2 DEF Signal, SigintsBound, TypeFlags
<1>3. CASE HandlerReady \/ HandlerDelete \/ Tick \/ Terminated \/ UNCHANGED vars
  BY <1>3 DEF HandlerReady, HandlerDelete, DeleteTraces, Tick, Terminated, vars
<1>4. ASSUME NEW n \in Nodes, NEW s \in Reports, AgentReport(n, s) PROVE TypeData'
  BY <1>4 DEF AgentReport
<1>5. QED
  BY <1>1, <1>2, <1>3, <1>4 DEF Next

(***************************************************************************)
(* Every step preserves the rest of the inductive invariant: one case per  *)
(* action, each of which either cannot exit or leaves the cluster cleaned  *)
(* up when it does.                                                        *)
(***************************************************************************)
Parts == SigintsBound /\ PublishedAfterCreate /\ DoneCleaned /\ NoLeakAfterPublish

LEMMA PartsStep == IInv /\ [Next]_vars => Parts'
<1> SUFFICES ASSUME IInv, [Next]_vars PROVE Parts'
  OBVIOUS
<1> USE DEF IInv, Parts, SigintsBound, PublishedAfterCreate, DoneCleaned, NoLeakAfterPublish
<1>1. CASE InstallHandler
  BY <1>1 DEF InstallHandler, MainStep, CleanedUp, Present
<1>2. CASE ListNodes
  BY <1>2 DEF ListNodes, MainStep, CleanedUp, Present
<1>3. CASE CreateDone
  BY <1>3 DEF CreateDone, CleanedUp, Present
<1>4. CASE WaitInit
  BY <1>4 DEF WaitInit, Wait, CleanedUp, Present
<1>5. CASE WaitListFails
  BY <1>5 DEF WaitListFails, CleanedUp, Present
<1>6. CASE WaitOut
  BY <1>6 DEF WaitOut, Wait, CleanedUp, Present
<1>7. CASE Output
  BY <1>7 DEF Output, MainStep, CleanedUp, Present
<1>8. CASE Return
  BY <1>8 DEF Return, CleanedUp, Present
<1>9. CASE HandlerReady
  BY <1>9 DEF HandlerReady, CleanedUp, Present
<1>10. CASE Tick
  BY <1>10 DEF Tick, CleanedUp, Present
<1>11. ASSUME NEW n \in Nodes, Post(n) PROVE Parts'
  BY <1>11 DEF Post
<1>12. CASE Rollback \/ DeleteInit \/ DeleteEnd \/ HandlerDelete
  <2>1. CleanedUp'
    BY <1>12, DeleteCleans DEF Rollback, DeleteInit, DeleteEnd, HandlerDelete
  <2>2. QED
    BY <1>12, <2>1 DEF Rollback, DeleteInit, DeleteEnd, HandlerDelete, MainStep
<1>13. ASSUME NEW sig \in Signals, Signal(sig) PROVE Parts'
  BY <1>13 DEF Signal, CleanedUp, Present, TypeOK
<1>14. ASSUME NEW n \in Nodes, NEW s \in Reports, AgentReport(n, s) PROVE Parts'
  BY <1>14, AgentKeepsPresent DEF AgentReport, CleanedUp
<1>15. CASE Terminated \/ UNCHANGED vars
  BY <1>15 DEF Terminated, vars, CleanedUp, Present
<1>16. QED
  BY <1>1, <1>2, <1>3, <1>4, <1>5, <1>6, <1>7, <1>8, <1>9, <1>10, <1>11,
     <1>12, <1>13, <1>14, <1>15
  DEF Next, Main, MainProgress

LEMMA NextIInv == IInv /\ [Next]_vars => IInv'
<1> SUFFICES ASSUME IInv, [Next]_vars PROVE IInv'
  OBVIOUS
<1>1. TypeFlags' /\ TypeData'
  BY FlagsStep, DataStep, TypeSplit DEF IInv
<1>2. TypeOK'
  BY <1>1, Zenon DEF TypeOK, TypeData, TypeFlags
<1>3. Parts'
  BY PartsStep
<1>4. QED
  BY <1>2, <1>3 DEF IInv, Parts

(***************************************************************************)
(* The inductive invariant holds in every reachable state.                 *)
(***************************************************************************)
THEOREM IInvariant == Spec => []IInv
  BY InitIInv, NextIInv, PTL DEF Spec

(***************************************************************************)
(* Type correctness of the orchestrator model.                             *)
(***************************************************************************)
THEOREM TypeCorrect == Spec => []TypeOK
  <1>1. IInv => TypeOK
    BY DEF IInv
  <1>2. QED
    BY IInvariant, <1>1, PTL

(***************************************************************************)
(* Once Run* holds the traceID, the process never exits leaving a copy of  *)
(* the trace behind, unless a delete logged an error or the user forced   *)
(* the exit with a second SIGINT, for any nodes, timeout and signals.     *)
(***************************************************************************)
THEOREM LeakFreeAfterPublish == Spec => []NoLeakAfterPublish
  <1>1. IInv => NoLeakAfterPublish
    BY DEF IInv
  <1>2. QED
    BY IInvariant, <1>1, PTL

(* A delete of the trace only removes copies. *)
LEMMA DeleteShrinks ==
  ASSUME DeleteTraces
  PROVE  Present' \subseteq Present
  BY DEF DeleteTraces, Present

(***************************************************************************)
(* After CreateTrace has returned the traceID, the main goroutine is past  *)
(* the POST loop, so every step keeps the traceID and adds no copy: the    *)
(* deletes remove copies, and the agents only rewrite them.                *)
(***************************************************************************)
LEMMA PublishedStep ==
  ASSUME IInv, [Next]_vars, published
  PROVE  published' /\ Present' \subseteq Present
<1>0. pc \in {"waitOut", "output", "deleteEnd", "done"} /\ TypeOK
  BY DEF IInv, PublishedAfterCreate
<1>1. CASE InstallHandler \/ ListNodes \/ (\E n \in Nodes : Post(n)) \/ CreateDone
           \/ Rollback \/ WaitInit \/ DeleteInit
  BY <1>0, <1>1 DEF InstallHandler, ListNodes, Post, CreateDone, Rollback, WaitInit,
                    Wait, DeleteInit, MainStep
<1>2. CASE DeleteEnd \/ HandlerDelete
  BY <1>2, DeleteShrinks DEF DeleteEnd, HandlerDelete
<1>3. ASSUME NEW n \in Nodes, NEW r \in Reports, AgentReport(n, r)
      PROVE  published' /\ Present' \subseteq Present
  BY <1>0, <1>3, AgentKeepsPresent DEF AgentReport
<1>4. ASSUME NEW sig \in Signals, Signal(sig) PROVE published' /\ Present' \subseteq Present
  BY <1>4 DEF Signal, Present
<1>5. CASE WaitOut \/ Output \/ Return \/ WaitListFails \/ HandlerReady \/ Tick
           \/ Terminated \/ UNCHANGED vars
  BY <1>5 DEF WaitOut, Output, Return, WaitListFails, HandlerReady, Tick, Terminated,
              vars, Present
<1>6. QED
  BY <1>1, <1>2, <1>3, <1>4, <1>5 DEF Next, Main, MainProgress

(***************************************************************************)
(* For every set of nodes, timeout and bound: once Run* holds the traceID, *)
(* which sigHandler reads to delete the trace, it keeps it, and no copy of *)
(* the trace appears any more, so a delete by that ID covers them all.     *)
(***************************************************************************)
THEOREM PublishedStableAlways == Spec => PublishedStable
<1>1. IInv /\ [Next]_vars => (published => published' /\ Present' \subseteq Present)
  BY PublishedStep
<1>2. QED
  BY <1>1, IInvariant, PTL DEF PublishedStable, Spec
-----------------------------------------------------------------------------
(***************************************************************************)
(* Without signals.  The handler never deletes, no copy exists before the  *)
(* POST loop, and the main goroutine reaches "done" only with the cluster  *)
(* cleaned up: through an empty node list, createTraces' rollback,         *)
(* CreateTrace's cleanup or the deferred DeleteTrace.                      *)
(***************************************************************************)
NoSigInv ==
  /\ ~hDeleting
  /\ pc \in {"sig", "list"} => Present = {}
  /\ pc = "done" => CleanedUp
  /\ NoOrphanedCopies

LEMMA NoSigStep ==
  ASSUME MaxSignals = 0, IInv, NoSigInv, [Next]_vars
  PROVE  NoSigInv'
<1>0. TypeOK /\ signals = 0
  BY TypeSplit DEF IInv, TypeData
<1> USE <1>0 DEF NoSigInv, NoOrphanedCopies
<1>1. CASE InstallHandler \/ ListNodes \/ CreateDone \/ WaitInit \/ WaitListFails
           \/ WaitOut \/ Output \/ HandlerReady \/ Tick \/ Terminated \/ UNCHANGED vars
  BY <1>1 DEF InstallHandler, ListNodes, CreateDone, WaitInit, Wait, WaitListFails, WaitOut,
              Output, HandlerReady, Tick, Terminated, vars, MainStep, CleanedUp, Present
<1>2. ASSUME NEW n \in Nodes, Post(n) PROVE NoSigInv'
  BY <1>2 DEF Post
<1>3. CASE Rollback \/ DeleteInit \/ DeleteEnd
  <2>1. CleanedUp'
    BY <1>3, DeleteCleans DEF Rollback, DeleteInit, DeleteEnd
  <2>2. QED
    BY <1>3, <2>1 DEF Rollback, DeleteInit, DeleteEnd, MainStep
<1>4. CASE Return
  BY <1>4 DEF Return, CleanedUp, Present
<1>5. CASE HandlerDelete
  BY <1>5 DEF HandlerDelete
<1>6. ASSUME NEW sig \in Signals, Signal(sig) PROVE NoSigInv'
  BY <1>6 DEF Signal
<1>7. ASSUME NEW n \in Nodes, NEW r \in Reports, AgentReport(n, r) PROVE NoSigInv'
  BY <1>7, AgentKeepsPresent DEF AgentReport, CleanedUp
<1>8. QED
  BY <1>1, <1>2, <1>3, <1>4, <1>5, <1>6, <1>7 DEF Next, Main, MainProgress

(***************************************************************************)
(* If no signal arrives, the command never exits leaving a copy of the     *)
(* trace behind, unless a delete logged an error, for every set of nodes   *)
(* and every timeout: the rollback of a failed POST, CreateTrace's cleanup *)
(* after a failed initial wait and the deferred DeleteTrace cover every    *)
(* path.  With signals it fails (run sigint_during_create).                *)
(***************************************************************************)
THEOREM NoOrphansWithoutSignals ==
  ASSUME MaxSignals = 0
  PROVE  Spec => []NoOrphanedCopies
<1>1. Init => NoSigInv
  BY DEF Init, NoSigInv, NoOrphanedCopies, Present
<1>2. IInv /\ NoSigInv /\ [Next]_vars => NoSigInv'
  BY NoSigStep
<1>3. QED
  BY <1>1, <1>2, IInvariant, PTL DEF Spec, NoSigInv
=============================================================================

