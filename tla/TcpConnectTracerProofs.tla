----------------------- MODULE TcpConnectTracerProofs -----------------------
(***************************************************************************)
(* Proofs about TcpConnectTracer for every bound on the kernel's records:  *)
(* the type invariant, that close leaves no attachment behind, and that    *)
(* the tracer implements the lifecycle of spec 4.1.                        *)
(***************************************************************************)
EXTENDS TcpConnectTracer, TLAPS

(***************************************************************************)
(* Where the main goroutine is tells what it holds: programs are loaded    *)
(* from the first attach to the wait, and the run goroutine exists exactly *)
(* once go t.run() has executed, i.e. never at a close reached from a      *)
(* failed install.                                                         *)
(***************************************************************************)
PhaseOK ==
  /\ pc \in {"attach", "reader", "start", "wait"} => loaded
  /\ pc \in {"load", "attach", "reader", "start"} => loop = "off"
  /\ pc = "wait" => loop # "off"

TInv == TypeOK /\ NoLinkLeak /\ PhaseOK

(***************************************************************************)
(* TypeOK in two parts: the Boolean flags, for Zenon, and the rest, for    *)
(* SMT.                                                                    *)
(***************************************************************************)
TypeFlags == latency \in BOOLEAN /\ loaded \in BOOLEAN /\ readerOpen \in BOOLEAN

TypeData ==
  /\ pc \in PCs
  /\ step \in 1..NProbes
  /\ links \subseteq Links
  /\ loop \in {"off", "running", "ended"}
  /\ written \in Seq(Records)
  /\ pos \in 0..Len(written)
  /\ delivered \in Seq({"event", "warn", "error"})

LEMMA TypeSplit == TypeOK <=> TypeFlags /\ TypeData
  BY Zenon DEF TypeOK, TypeFlags, TypeData

LEMMA InitTInv == Init => TInv
<1> SUFFICES ASSUME Init PROVE TInv
  OBVIOUS
<1>1. TypeFlags
  BY Zenon DEF Init, TypeFlags
<1>2. TypeData
  BY DEF Init, TypeData, PCs, NProbes
<1>3. NoLinkLeak /\ PhaseOK
  BY DEF Init, NoLinkLeak, PhaseOK
<1>4. QED
  BY <1>1, <1>2, <1>3, TypeSplit DEF TInv

(***************************************************************************)
(* Every step keeps the flags Boolean: each sets them to a constant or     *)
(* leaves them alone.                                                      *)
(***************************************************************************)
LEMMA FlagsStep == TypeFlags /\ [Next]_vars => TypeFlags'
  BY ZenonT(60)
  DEF TypeFlags, Next, Load, Attach, OpenReader, StartRun, Finish, Close,
      Produce, ReadRecord, ReadFails, Terminated, vars

(***************************************************************************)
(* The rest of the invariant: one case per action; each leaf expands only  *)
(* that action.                                                            *)
(***************************************************************************)
Rest == TypeData /\ NoLinkLeak /\ PhaseOK

LEMMA RestStep == TInv /\ [Next]_vars => Rest'
<1> SUFFICES ASSUME TInv, [Next]_vars PROVE Rest'
  OBVIOUS
<1>0. TypeData
  BY TypeSplit DEF TInv
<1> USE <1>0 DEF TInv, Rest, TypeData, NoLinkLeak, PhaseOK, PCs, NProbes
<1>1. CASE Load
  BY <1>1 DEF Load
<1>2. CASE Attach
  <2>1. Probes(latency)[step] \in Links
    BY DEF Probes, Links
  <2>2. QED
    BY <1>2, <2>1 DEF Attach
<1>3. CASE OpenReader
  BY <1>3 DEF OpenReader
<1>4. CASE StartRun
  BY <1>4 DEF StartRun
<1>5. CASE Finish
  BY <1>5 DEF Finish
<1>6. CASE Close
  BY <1>6 DEF Close
<1>7. ASSUME NEW r \in Records, Produce(r) PROVE Rest'
  BY <1>7 DEF Produce
<1>8. CASE ReadRecord
  <2>1. Kind(written[pos + 1]) \in {"event", "warn", "error"}
    BY DEF Kind
  <2>2. QED
    BY <1>8, <2>1 DEF ReadRecord
<1>9. CASE ReadFails
  BY <1>9 DEF ReadFails
<1>10. CASE Terminated \/ UNCHANGED vars
  BY <1>10 DEF Terminated, vars
<1>11. QED
  BY <1>1, <1>2, <1>3, <1>4, <1>5, <1>6, <1>7, <1>8, <1>9, <1>10 DEF Next

LEMMA NextTInv == TInv /\ [Next]_vars => TInv'
<1> SUFFICES ASSUME TInv, [Next]_vars PROVE TInv'
  OBVIOUS
<1>1. TypeFlags'
  BY FlagsStep, TypeSplit DEF TInv
<1>2. Rest'
  BY RestStep
<1>3. TypeOK'
  BY <1>1, <1>2, Zenon DEF TypeOK, TypeFlags, TypeData, Rest
<1>4. QED
  BY <1>2, <1>3 DEF TInv, Rest

(***************************************************************************)
(* The inductive invariant holds in every reachable state.                 *)
(***************************************************************************)
THEOREM TracerInvariant == Spec => []TInv
  BY InitTInv, NextTInv, PTL DEF Spec

(***************************************************************************)
(* Once Run, NewTracer or Stop has returned, whether install failed at any *)
(* step or the tracer ran, close has released every link and the loaded   *)
(* programs (the CloseLink calls and objs.Close of close).                 *)
(***************************************************************************)
THEOREM NoLinkLeakAlways == Spec => []NoLinkLeak
  <1>1. TInv => NoLinkLeak
    BY DEF TInv
  <1>2. QED
    BY TracerInvariant, <1>1, PTL

-----------------------------------------------------------------------------
(***************************************************************************)
(* Refinement of the lifecycle: the initial state is Uninstalled with      *)
(* nothing held, and every step is a lifecycle step or a stutter of it.    *)
(***************************************************************************)
LEMMA InitRefines == Init => Lifecycle!LInit
  BY DEF Init, Lifecycle!LInit, LState, Held

LEMMA StepRefines == TInv /\ [Next]_vars => [Lifecycle!LNext]_Lifecycle!lvars
<1> SUFFICES ASSUME TInv, [Next]_vars PROVE [Lifecycle!LNext]_Lifecycle!lvars
  OBVIOUS
<1> USE DEF TInv, TypeOK, PhaseOK, PCs
<1>1. CASE Load
  <2>1. CASE loaded' = TRUE /\ pc' = "attach"
    BY <1>1, <2>1 DEF Load, Lifecycle!LNext, Lifecycle!Acquire, LState, Held
  <2>2. CASE pc' = "close" /\ UNCHANGED loaded
    BY <1>1, <2>2 DEF Load, Lifecycle!lvars, LState, Held
  <2>3. QED
    BY <1>1, <2>1, <2>2 DEF Load
<1>2. CASE Attach
  BY <1>2 DEF Attach, Lifecycle!lvars, LState, Held
<1>3. CASE OpenReader
  <2>1. CASE readerOpen' = TRUE /\ pc' = "start"
    BY <1>3, <2>1 DEF OpenReader, Lifecycle!LNext, Lifecycle!Install, LState, Held
  <2>2. CASE pc' = "close" /\ UNCHANGED readerOpen
    BY <1>3, <2>2 DEF OpenReader, Lifecycle!lvars, LState, Held
  <2>3. QED
    BY <1>3, <2>1, <2>2 DEF OpenReader
<1>4. CASE StartRun
  BY <1>4 DEF StartRun, Lifecycle!LNext, Lifecycle!Start, LState, Held
<1>5. CASE Finish
  BY <1>5 DEF Finish, Lifecycle!lvars, LState, Held
<1>6. CASE Close
  BY <1>6 DEF Close, Lifecycle!LNext, Lifecycle!LClose, LState, Held
<1>7. ASSUME NEW r \in Records, Produce(r) PROVE [Lifecycle!LNext]_Lifecycle!lvars
  BY <1>7 DEF Produce, Lifecycle!lvars, LState, Held
<1>8. CASE ReadRecord
  BY <1>8 DEF ReadRecord, Lifecycle!lvars, LState, Held
<1>9. CASE ReadFails
  BY <1>9 DEF ReadFails, Lifecycle!lvars, LState, Held
<1>10. CASE Terminated \/ UNCHANGED vars
  BY <1>10 DEF Terminated, vars, Lifecycle!lvars, LState, Held
<1>11. QED
  BY <1>1, <1>2, <1>3, <1>4, <1>5, <1>6, <1>7, <1>8, <1>9, <1>10 DEF Next

(***************************************************************************)
(* The tracer implements the lifecycle of spec 4.1, for every bound: it   *)
(* never goes back from Running, Closed is terminal, and close releases   *)
(* every attachment.                                                      *)
(***************************************************************************)
THEOREM TracerRefinesLifecycle == Spec => ImplementsLifecycle
  <1>1. Spec => []TInv
    BY TracerInvariant
  <1>2. QED
    BY <1>1, InitRefines, StepRefines, PTL DEF Spec, ImplementsLifecycle, Lifecycle!LSpec
-----------------------------------------------------------------------------
(***************************************************************************)
(* What the callback must have seen once run has read the first k records. *)
(***************************************************************************)
Faithful(w, k) == [i \in 1..k |-> Kind(w[i])]

(* Reading one more record appends its kind. *)
LEMMA FaithfulAppend ==
  ASSUME NEW w \in Seq(Records), NEW k \in 0..Len(w) - 1
  PROVE  Append(Faithful(w, k), Kind(w[k + 1])) = Faithful(w, k + 1)
  BY DEF Faithful

(* The kernel appending a record leaves the prefix already read alone. *)
LEMMA FaithfulExtend ==
  ASSUME NEW w \in Seq(Records), NEW k \in 0..Len(w), NEW r \in Records
  PROVE  Faithful(Append(w, r), k) = Faithful(w, k)
  BY DEF Faithful

(* EventsFaithful, written with Faithful. *)
LEMMA FaithfulDef ==
  EventsFaithful <=> \/ delivered = Faithful(written, pos)
                     \/ delivered = Append(Faithful(written, pos), "error") /\ loop = "ended"
  BY DEF EventsFaithful, Faithful

(***************************************************************************)
(* Every step keeps EventsFaithful.  Only the run goroutine touches        *)
(* delivered, and only while running, when nothing has failed yet; the     *)
(* kernel appends behind the read position; go t.run() starts a loop that *)
(* PhaseOK says was off, so no error had been delivered.                  *)
(***************************************************************************)
LEMMA FaithfulStep == TInv /\ EventsFaithful /\ [Next]_vars => EventsFaithful'
<1> SUFFICES ASSUME TInv, EventsFaithful, [Next]_vars PROVE EventsFaithful'
  OBVIOUS
<1>0. TypeData
  BY TypeSplit DEF TInv
<1> USE <1>0 DEF TypeData
<1>1. CASE UNCHANGED <<loop, written, pos, delivered>>
  BY <1>1 DEF EventsFaithful
<1>2. CASE ReadRecord
  <2>1. delivered = Faithful(written, pos)
    BY <1>2, FaithfulDef DEF ReadRecord
  <2>2. delivered' = Faithful(written, pos + 1)
    BY <1>2, <2>1, FaithfulAppend DEF ReadRecord
  <2>3. QED
    BY <1>2, <2>2 DEF ReadRecord, EventsFaithful, Faithful
<1>3. CASE ReadFails
  <2>1. delivered = Faithful(written, pos)
    BY <1>3, FaithfulDef DEF ReadFails
  <2>2. QED
    BY <1>3, <2>1 DEF ReadFails, EventsFaithful, Faithful
<1>4. ASSUME NEW r \in Records, Produce(r) PROVE EventsFaithful'
  <2>1. Faithful(written', pos) = Faithful(written, pos)
    BY <1>4, FaithfulExtend DEF Produce
  <2>2. QED
    BY <1>4, <2>1 DEF Produce, EventsFaithful, Faithful
<1>5. CASE StartRun
  <2>1. delivered = Faithful(written, pos)
    BY <1>5, FaithfulDef DEF StartRun, TInv, PhaseOK
  <2>2. QED
    BY <1>5, <2>1 DEF StartRun, EventsFaithful, Faithful
<1>6. QED
  BY <1>1, <1>2, <1>3, <1>4, <1>5
  DEF Next, Load, Attach, OpenReader, Finish, Close, Terminated, vars

(***************************************************************************)
(* For every bound on the records, the callback of run sees exactly the   *)
(* records read so far, in the kernel's order, lost samples as warnings   *)
(* and nothing dropped, followed at most by one error when Read failed    *)
(* and the loop ended.                                                    *)
(***************************************************************************)
THEOREM EventsFaithfulAlways == Spec => []EventsFaithful
<1>1. Init => EventsFaithful
  BY DEF Init, EventsFaithful
<1>2. TInv /\ EventsFaithful /\ [Next]_vars => (TInv /\ EventsFaithful)'
  BY NextTInv, FaithfulStep
<1>3. QED
  BY <1>1, <1>2, InitTInv, PTL DEF Spec

(* run's Tracer is well typed in every reachable state, for every bound. *)
THEOREM TracerTypeCorrect == Spec => []TypeOK
<1>1. TInv => TypeOK
  BY DEF TInv
<1>2. QED
  BY <1>1, TracerInvariant, PTL
=============================================================================

