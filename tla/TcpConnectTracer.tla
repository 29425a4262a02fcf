-------------------------- MODULE TcpConnectTracer --------------------------
(***************************************************************************)
(* The tcpconnect tracer runtime (src/pkg/gadgets/trace/tcpconnect/tracer/ *)
(* tracer.go): install's ordered attachments, the run goroutine reading    *)
(* the perf ring buffer, and close, driven by Run (or NewTracer and Stop). *)
(*                                                                         *)
(* The kernel writes records into the perf buffer while the programs are   *)
(* attached; a record is a sample or a lost-samples notification.  What    *)
(* the callback receives is one of "event", "warn" or "error".             *)
(***************************************************************************)
EXTENDS Naturals, Sequences

CONSTANTS
  MaxRecords   \* bound on the records the kernel writes

ASSUME MaxRecordsAssumption == MaxRecords \in Nat

(* The links of Tracer, named after its fields. *)
Links == {"v4Enter", "v4Exit", "v6Enter", "v6Exit", "tcpDestroySock", "tcpRvcStateProcess"}

(* The order install attaches them in, for a CalculateLatency setting. *)
Probes(latency) ==
  IF latency THEN <<"v4Enter", "v6Enter", "tcpDestroySock", "tcpRvcStateProcess">>
             ELSE <<"v4Enter", "v6Enter", "v4Exit", "v6Exit">>

NProbes == 4

Records == {"sample", "lost"}

(* What run hands to the callback for a record it read. *)
Kind(r) == IF r = "lost" THEN "warn" ELSE "event"

VARIABLES
  latency,     \* config.CalculateLatency
  pc,          \* the goroutine calling Run (or NewTracer, then Stop)
  step,        \* the index in Probes(latency) of the link install attaches next
  loaded,      \* t.objs holds loaded programs and maps
  links,       \* the links attached in the kernel
  readerOpen,  \* t.reader is an open perf reader
  loop,        \* the run goroutine: "off", "running" or "ended"
  written,     \* the records the kernel wrote into the perf buffer, in order
  pos,         \* how many of them run has read
  delivered    \* the callbacks run made, in order

vars == <<latency, pc, step, loaded, links, readerOpen, loop, written, pos, delivered>>

PCs == {"load", "attach", "reader", "start", "wait", "close", "done"}

TypeOK ==
  /\ latency \in BOOLEAN
  /\ pc \in PCs
  /\ step \in 1..NProbes
  /\ loaded \in BOOLEAN
  /\ links \subseteq Links
  /\ readerOpen \in BOOLEAN
  /\ loop \in {"off", "running", "ended"}
  /\ written \in Seq(Records)
  /\ pos \in 0..Len(written)
  /\ delivered \in Seq({"event", "warn", "error"})

(* NewInstance / NewTracer: a Tracer with its configuration and nothing    *)
(* loaded.                                                                 *)
Init ==
  /\ latency \in BOOLEAN
  /\ pc = "load"
  /\ step = 1
  /\ loaded = FALSE
  /\ links = {}
  /\ readerOpen = FALSE
  /\ loop = "off"
  /\ written = <<>>
  /\ pos = 0
  /\ delivered = <<>>

(***************************************************************************)
(* install.  Each step either succeeds or returns an error; on an error    *)
(* NewTracer calls t.close() and Run's deferred t.close() runs.            *)
(***************************************************************************)

(* loadTcpconnect, RewriteConstants and LoadAndAssign. *)
Load ==
  /\ pc = "load"
  /\ \/ loaded' = TRUE /\ pc' = "attach"
     \/ pc' = "close" /\ UNCHANGED loaded
  /\ UNCHANGED <<latency, step, links, readerOpen, loop, written, pos, delivered>>

(* Mutant: the step index moves past the last probe. *)
AttachPastEnd ==
  /\ pc = "attach"
  /\ \/ /\ links' = links \cup {Probes(latency)[step]}
        /\ step' = step + 1
        /\ pc' = IF step < NProbes THEN "attach" ELSE "reader"
     \/ pc' = "close" /\ UNCHANGED <<links, step>>
  /\ UNCHANGED <<latency, loaded, readerOpen, loop, written, pos, delivered>>

(* link.Kprobe / link.Kretprobe / link.Tracepoint of the next probe. *)
Attach ==
  /\ pc = "attach"
  /\ \/ /\ links' = links \cup {Probes(latency)[step]}
        /\ step' = IF step < NProbes THEN step + 1 ELSE step
        /\ pc' = IF step < NProbes THEN "attach" ELSE "reader"
     \/ pc' = "close" /\ UNCHANGED <<links, step>>
  /\ UNCHANGED <<latency, loaded, readerOpen, loop, written, pos, delivered>>

(* perf.NewReader, the last step of install. *)
OpenReader ==
  /\ pc = "reader"
  /\ \/ readerOpen' = TRUE /\ pc' = "start"
     \/ pc' = "close" /\ UNCHANGED readerOpen
  /\ UNCHANGED <<latency, step, loaded, links, loop, written, pos, delivered>>

(* go t.run() *)
StartRun ==
  /\ pc = "start"
  /\ pc' = "wait"
  /\ loop' = "running"
  /\ UNCHANGED <<latency, step, loaded, links, readerOpen, written, pos, delivered>>

(* WaitForTimeoutOrDone returns (Run), or the owner calls Stop. *)
Finish ==
  /\ pc = "wait"
  /\ pc' = "close"
  /\ UNCHANGED <<latency, step, loaded, links, readerOpen, loop, written, pos, delivered>>

(* Mutant: close forgets tcpRvcStateProcessLink. *)
CloseKeepsRcv ==
  /\ pc = "close"
  /\ pc' = "done"
  /\ links' = links \cap {"tcpRvcStateProcess"}
  /\ loaded' = FALSE
  /\ UNCHANGED <<latency, step, readerOpen, loop, written, pos, delivered>>

(* close: CloseLink on the six links and objs.Close; t.reader is left open. *)
Close ==
  /\ pc = "close"
  /\ pc' = "done"
  /\ links' = {}
  /\ loaded' = FALSE
  /\ UNCHANGED <<latency, step, readerOpen, loop, written, pos, delivered>>

(***************************************************************************)
(* The kernel: an attached program submits a record to the perf buffer, or *)
(* the buffer reports samples it had to drop.                              *)
(***************************************************************************)
Produce(r) ==
  /\ readerOpen
  /\ links # {}
  /\ Len(written) < MaxRecords
  /\ written' = Append(written, r)
  /\ UNCHANGED <<latency, pc, step, loaded, links, readerOpen, loop, pos, delivered>>

(***************************************************************************)
(* run: one iteration of the loop.  t.reader.Read() blocks until a record  *)
(* is there; ErrClosed (175-178) needs t.reader.Close(), which no code     *)
(* calls, so it is not an action.                                          *)
(***************************************************************************)

(* Mutant: the lost-samples branch has no continue and decodes the record. *)
ReadRecordNoContinue ==
  /\ loop = "running"
  /\ pos < Len(written)
  /\ pos' = pos + 1
  /\ delivered' = IF written[pos + 1] = "lost"
                  THEN delivered \o <<"warn", "event">>
                  ELSE Append(delivered, "event")
  /\ UNCHANGED <<latency, pc, step, loaded, links, readerOpen, loop, written>>

(* Mutant: the lost-samples branch returns instead of continuing. *)
ReadRecordLostReturns ==
  /\ loop = "running"
  /\ pos < Len(written)
  /\ pos' = pos + 1
  /\ delivered' = Append(delivered, Kind(written[pos + 1]))
  /\ loop' = IF written[pos + 1] = "lost" THEN "ended" ELSE loop
  /\ UNCHANGED <<latency, pc, step, loaded, links, readerOpen, written>>

(* A record: a warning for lost samples, else the decoded, enriched event. *)
ReadRecord ==
  /\ loop = "running"
  /\ pos < Len(written)
  /\ pos' = pos + 1
  /\ delivered' = Append(delivered, Kind(written[pos + 1]))
  /\ UNCHANGED <<latency, pc, step, loaded, links, readerOpen, loop, written>>

(* Read fails with another error: one error event, and run returns. *)
ReadFails ==
  /\ loop = "running"
  /\ delivered' = Append(delivered, "error")
  /\ loop' = "ended"
  /\ UNCHANGED <<latency, pc, step, loaded, links, readerOpen, written, pos>>

(* Run has returned and the run goroutine is gone: nothing moves. *)
Terminated ==
  /\ pc = "done"
  /\ loop # "running"
  /\ UNCHANGED vars

Next ==
  \/ Load \/ Attach \/ OpenReader \/ StartRun \/ Finish \/ Close
  \/ \E r \in Records : Produce(r)
  \/ ReadRecord \/ ReadFails
  \/ Terminated

(***************************************************************************)
(* The goroutine in Run executes install, go t.run() and close without     *)
(* stopping (the kernel calls return); when Run returns is up to the       *)
(* context or the owner, so Finish is not fair.  The run goroutine is      *)
(* scheduled whenever Read has a record to return.                         *)
(***************************************************************************)
Fairness ==
  /\ WF_vars(Load \/ Attach \/ OpenReader \/ StartRun \/ Close)
  /\ WF_vars(ReadRecord)

Spec == Init /\ [][Next]_vars
FairSpec == Spec /\ Fairness

-----------------------------------------------------------------------------
(***************************************************************************)
(* No kernel attachment outlives the tracer (spec 4.1, Install is          *)
(* all-or-nothing and Close leaves nothing attached): once Run, NewTracer  *)
(* or Stop has returned, after a failed install at any step or a full run, *)
(* no link is attached and no program is loaded.                           *)
(***************************************************************************)
NoLinkLeak == pc = "done" => links = {} /\ ~loaded

(***************************************************************************)
(* The callback sees exactly the records run read, in the kernel's order,  *)
(* one callback per record (lost samples as a warning, never dropped nor  *)
(* decoded), and at most one error, as the last callback.                 *)
(***************************************************************************)
EventsFaithful ==
  LET faithful == [i \in 1..pos |-> Kind(written[i])]
  IN  \/ delivered = faithful
      \/ delivered = Append(faithful, "error") /\ loop = "ended"

(***************************************************************************)
(* Lost samples never end the loop: every record the kernel writes is      *)
(* eventually delivered, unless a read error ended the loop.               *)
(***************************************************************************)
Drained ==
  LET failed == delivered # <<>> /\ delivered[Len(delivered)] = "error"
  IN  \A k \in 1..MaxRecords : Len(written) >= k ~> (pos >= k \/ failed)

(***************************************************************************)
(* Closing the tracer ends the run goroutine (spec 4.1 and 5: closing the  *)
(* reader is the defined way to unblock the loop): once Run or Stop has    *)
(* returned, the goroutine eventually exits.                               *)
(***************************************************************************)
RunLoopExits == pc = "done" ~> loop # "running"

-----------------------------------------------------------------------------
(***************************************************************************)
(* The tracer as its owner sees it.  A failed install is still            *)
(* Uninstalled until close; after a full install it is Installed until go *)
(* t.run(), then Running until close returns.                             *)
(***************************************************************************)
LState ==
  CASE pc \in {"load", "attach", "reader"} \/ (pc = "close" /\ loop = "off") -> "Uninstalled"
    [] pc = "start"                                                     -> "Installed"
    [] pc = "wait" \/ (pc = "close" /\ loop # "off")                     -> "Running"
    [] pc = "done"                                                      -> "Closed"

Held == links # {} \/ loaded

Lifecycle == INSTANCE TracerLifecycle WITH lstate <- LState, attached <- Held

(***************************************************************************)
(* Install, Run/NewTracer and close/Stop implement the lifecycle of spec   *)
(* 4.1: every step is a lifecycle step or leaves the owner's view alone,   *)
(* and Closed holds no attachment.                                         *)
(***************************************************************************)
ImplementsLifecycle == Lifecycle!LSpec
=============================================================================
