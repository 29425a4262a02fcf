----------------------- MODULE TraceOperationProofs ------------------------
(***************************************************************************)
(* Proofs about TraceOperation for every set of nodes, messages and state  *)
(* tokens: SetTraceOperation reaches every copy, and the wait that follows *)
(* reports only fresh answers when the expected state differs from the     *)
(* states the previous operation left.                                     *)
(***************************************************************************)
EXTENDS TraceOperation, TLAPS

(***************************************************************************)
(* The strengthening of SetReachesAll: before SetTraceOperation returns no *)
(* result is set, and during the loop every copy already handled and not   *)
(* failed carries the operation or has answered it.                        *)
(***************************************************************************)
OInv ==
  /\ TypeOK
  /\ pc \in {"list", "patch", "wait"} => result = "none"
  /\ pc = "patch" => \A n \in Nodes \ (failed \cup todo) : requested[n] \/ answered[n]
  /\ SetReachesAll

(* TypeOK in two parts: the Boolean maps, for Zenon, and the rest, for SMT. *)
TypeFlags == requested \in [Nodes -> BOOLEAN] /\ answered \in [Nodes -> BOOLEAN]

TypeData ==
  /\ copies \in [Nodes -> Status]
  /\ pc \in {"list", "patch", "wait", "done"}
  /\ todo \subseteq Nodes /\ failed \subseteq Nodes /\ converged \subseteq Nodes
  /\ elapsed \in 0..Timeout + 1
  /\ result \in {"none", "listFailed", "setFailed", "waitFailed", "ok"}

LEMMA TypeSplit == TypeOK <=> TypeFlags /\ TypeData
  BY Zenon DEF TypeOK, TypeFlags, TypeData

(* The rest of OInv. *)
Loop ==
  /\ pc \in {"list", "patch", "wait"} => result = "none"
  /\ pc = "patch" => \A n \in Nodes \ (failed \cup todo) : requested[n] \/ answered[n]
  /\ SetReachesAll

LEMMA InitOInv == Init => OInv
<1> SUFFICES ASSUME Init PROVE OInv
  OBVIOUS
<1>1. TypeFlags
  BY Zenon DEF Init, TypeFlags
<1>2. TypeData
  BY OperationAssumption DEF Init, TypeData, Status
<1>3. Loop
  BY DEF Init, Loop, SetReachesAll
<1>4. QED
  BY <1>1, <1>2, <1>3, TypeSplit DEF OInv, Loop

(* Every step keeps requested and answered Boolean maps. *)
LEMMA FlagsStep == TypeFlags /\ [Next]_vars => TypeFlags'
<1> SUFFICES ASSUME TypeFlags, [Next]_vars PROVE TypeFlags'
  OBVIOUS
<1>1. ASSUME NEW n \in Nodes, Patch(n) PROVE TypeFlags'
  BY <1>1, Zenon DEF Patch, TypeFlags
<1>2. ASSUME NEW n \in Nodes, Agent(n) PROVE TypeFlags'
  BY <1>2, Zenon DEF Agent, TypeFlags
<1>3. QED
  BY <1>1, <1>2, Zenon
  DEF Next, TypeFlags, ListCopies, SetReturns, Wait, WaitListFails, Tick, Done, vars

(* The data and the loop facts: one case per action. *)
LEMMA RestStep == OInv /\ [Next]_vars => (TypeData /\ Loop)'
<1> SUFFICES ASSUME OInv, [Next]_vars PROVE (TypeData /\ Loop)'
  OBVIOUS
<1>0. TypeFlags /\ TypeData
  BY TypeSplit DEF OInv
<1> USE <1>0 DEF OInv, TypeData, Loop, SetReachesAll
<1>1. CASE ListCopies
  BY <1>1 DEF ListCopies
<1>2. ASSUME NEW n \in Nodes, Patch(n) PROVE (TypeData /\ Loop)'
  BY <1>2 DEF Patch, TypeFlags
<1>3. CASE SetReturns
  BY <1>3 DEF SetReturns
<1>4. CASE Wait
  BY <1>4 DEF Wait
<1>5. CASE WaitListFails
  BY <1>5 DEF WaitListFails
<1>6. CASE Tick
  BY <1>6, OperationAssumption DEF Tick
<1>7. ASSUME NEW n \in Nodes, Agent(n) PROVE (TypeData /\ Loop)'
  <2>1. copies' \in [Nodes -> Status]
    BY <1>7 DEF Agent, Status
  <2>2. QED
    BY <1>7, <2>1 DEF Agent, TypeFlags
<1>8. CASE Done \/ UNCHANGED vars
  BY <1>8 DEF Done, vars
<1>9. QED
  BY <1>1, <1>2, <1>3, <1>4, <1>5, <1>6, <1>7, <1>8 DEF Next

LEMMA NextOInv == OInv /\ [Next]_vars => OInv'
<1> SUFFICES ASSUME OInv, [Next]_vars PROVE OInv'
  OBVIOUS
<1>1. TypeFlags'
  BY FlagsStep, TypeSplit DEF OInv
<1>2. (TypeData /\ Loop)'
  BY RestStep
<1>3. TypeOK'
  BY <1>1, <1>2, Zenon DEF TypeOK, TypeFlags, TypeData
<1>4. QED
  BY <1>2, <1>3 DEF OInv, Loop

(***************************************************************************)
(* SetTraceOperation tries every copy whatever failed before, and returns  *)
(* an error exactly when some update failed, for every set of nodes.       *)
(***************************************************************************)
THEOREM SetReachesAllAlways == Spec => []SetReachesAll
<1>1. OInv => SetReachesAll
  BY DEF OInv
<1>2. QED
  BY <1>1, InitOInv, NextOInv, PTL DEF Spec
-----------------------------------------------------------------------------
(***************************************************************************)
(* A copy the agent has not answered still holds what the previous         *)
(* operation left: a state of PriorStates and no error or warning.        *)
(***************************************************************************)
Untouched ==
  \A n \in Nodes : ~answered[n] => copies[n] \in [state : PriorStates, err : {None}, warn : {None}]

LEMMA InitUntouched == Init => Untouched /\ FreshConvergence
  BY DEF Init, Untouched, FreshConvergence

LEMMA FreshStep ==
  ASSUME Expected \notin PriorStates
  PROVE  OInv /\ Untouched /\ FreshConvergence /\ [Next]_vars => (Untouched /\ FreshConvergence)'
<1> SUFFICES ASSUME OInv, Untouched, FreshConvergence, [Next]_vars
             PROVE  (Untouched /\ FreshConvergence)'
  OBVIOUS
<1>0. TypeFlags /\ TypeData
  BY TypeSplit DEF OInv
<1> USE <1>0 DEF Untouched, FreshConvergence, TypeFlags, TypeData
<1>1. CASE Wait
  <2>1. \A n \in Nodes : IsSuccess(copies[n], Expected) => answered[n]
    BY DEF IsSuccess
  <2>2. QED
    BY <1>1, <2>1 DEF Wait
<1>2. ASSUME NEW n \in Nodes, Agent(n) PROVE (Untouched /\ FreshConvergence)'
  BY <1>2 DEF Agent
<1>3. CASE ListCopies \/ (\E n \in Nodes : Patch(n)) \/ SetReturns \/ WaitListFails \/ Tick
  BY <1>3 DEF ListCopies, Patch, SetReturns, WaitListFails, Tick
<1>4. CASE Done \/ UNCHANGED vars
  BY <1>4 DEF Done, vars
<1>5. QED
  BY <1>1, <1>2, <1>3, <1>4 DEF Next

(***************************************************************************)
(* When the state the caller waits for is not one the previous operation   *)
(* left (the case the TODO at waitForTraceState's state test does not      *)
(* cover), every copy the wait counts as converged has answered the new    *)
(* operation, for every set of nodes and tokens.                           *)
(***************************************************************************)
THEOREM FreshWhenDistinct ==
  ASSUME Expected \notin PriorStates
  PROVE  Spec => []FreshConvergence
<1> DEFINE FInv == OInv /\ Untouched /\ FreshConvergence
<1>1. Init => FInv
  BY InitOInv, InitUntouched
<1>2. FInv /\ [Next]_vars => FInv'
  BY NextOInv, FreshStep
<1>3. QED
  BY <1>1, <1>2, PTL DEF Spec
====
