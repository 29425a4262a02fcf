# TLA+ verification of the trace orchestrator and tracer runtime

This directory holds TLA+ models of the concurrent and distributed parts of
`kubectl-gadget` and of one node-side tracer. It has TLC configurations that
check the models on small instances, and TLAPS proofs that hold for every
instance. The source is under `src/`; `spec.md` describes the intended
behaviour.

## 1. The system

| Part | Source | What it does |
|---|---|---|
| Trace orchestrator | `src/cmd/kubectl-gadget/utils/trace.go` | `CreateTrace` posts one `Trace` copy per selected node, all with a shared random `traceID` label (`createTraces`), and rolls back on a failed POST. `waitForTraceState` polls the copies every 100 ms until each one has an error, a warning or the expected state, or until the 2 s timeout. `printTraceFeedback` reports per-node errors and warnings. `DeleteTrace` deletes every copy by label. `RunTraceAndPrint*` chains these steps: handler, create, wait, output, then the deferred delete. `SetTraceOperation` patches the operation annotation of every copy (`updateTraceOperation`). |
| Signal handler | `trace.go` `sigHandler` | This goroutine waits on an unbuffered channel for terminating signals. A SIGINT re-installs the handler, and a second SIGINT exits at once. Otherwise it deletes the trace if `traceID` is set, then calls `os.Exit(1)`. |
| Stream aggregator | `trace.go` `genericStreamsDisplay` | It starts one goroutine per copy that the node filter keeps. Each goroutine runs `receive-stream` on its node through `ExecPod`, then sends one message on an unbuffered `completion` channel. The main goroutine selects on `completion` and on its own buffered (size 1) channel for SIGINT/SIGTERM. It returns on a signal, or when the atomic `streamCount` reaches 0. |
| Node agent | not under `src/` (gadgettracermanager) | It writes `Status.State`, `OperationError` and `OperationWarning` into each copy. |
| Tracer runtime | `src/pkg/gadgets/trace/tcpconnect/tracer/tracer.go` | `install` attaches up to four kprobes in order, then opens a perf reader. `run` reads records in a goroutine, turns lost samples into warnings, and stops on `ErrClosed` or on another error. `close` releases the links and objects. `Run`/`NewTracer`/`Stop` wire these together. |
| Generated eBPF loader, integration test | `capabilities_x86_bpfel.go`, `trace_mount_test.go` | These are not modelled. The loader is generated code with no control flow of its own. The test states expected output and has no behaviour to model. |

The parts interact as follows:
- The orchestrator and the signal handler share two things: the `traceID` variable (unsynchronised) and the global counter `sigIntReceivedNumber`.
- The node agents change the copies' status while the orchestrator polls it, and keep doing so after the process exits.
- The stream aggregator runs inside the orchestrator's output phase and registers a second receiver for SIGINT. Go delivers a signal to every registered channel, so one SIGINT wakes both the aggregator and `sigHandler`.

### Behaviours that are hard to test

- **Signal handler timing.** A signal can arrive at any point of the main goroutine's run. It is lost if no handler goroutine is waiting in `<-c`.
- **Partial failure of creation.** A POST can fail, including after the server stored the copy. The rollback delete and the deferred delete can themselves fail, and they only log the error.
- **Polling against concurrent agents.** One round of `waitForTraceState` sees a snapshot that agents keep changing. A pending copy restarts the whole round, and only the timeout makes the wait end.
- **Aggregated feedback.** One aggregate line stands for "all nodes failed the same way". Warnings are suppressed when any node succeeded.

## 2. Modules

| Module | Models | State and actions |
|---|---|---|
| `TraceFeedback` | One round of `waitForTraceState` (trace.go 409-460), `printTraceFeedback` and `getIdenticalValue` (104-133) | These are pure operators over a snapshot, which is a function from node to `Status`. `IsError`/`IsWarning`/`IsSuccess`/`IsPending` follow the if/else-if chain. `NodeErrors`/`NodeWarnings` are the two maps. A printed line is a record `[node, msg]`, and `node = None` marks the "all nodes" line. |
| `MCTraceFeedback` | TLC harness for `TraceFeedback`, and the statement of its two properties | Every snapshot of 1-3 copies, with two messages, the expected state or not, timed out or not, is an initial state. `FeedbackAssumption`: `Nodes` is finite and `None` (the empty string) is not a node name. |
| `TraceFeedbackProofs` | TLAPS proofs about `MCTraceFeedback` | See section 4. |
| `TraceOrchestrator` | One run of `RunTraceAndPrintStatusOutput`/`RunTraceAndPrintStream` with `sigHandler` and the node agents | See below. |
| `MCTraceOrchestrator` | TLC harness | It gives the agents' state tokens as strings. |
| `TraceOrchestratorProofs` | TLAPS proofs about `TraceOrchestrator` | See section 4. |
| `TraceStreaming` | `RunTraceAndPrintStream` with `genericStreamsDisplay` (trace.go 648-665, 692-762) | It extends `TraceOrchestrator` and replaces its one-step `Output` by the aggregator's steps. See below. |
| `MCTraceStreaming` | TLC harness | It gives the state tokens as strings. |
| `TraceStreamingProofs` | TLAPS proofs about `TraceStreaming` | See section 4. |
| `TraceOperation` | `SetTraceOperation` and `updateTraceOperation` (trace.go 224-264, 389-405), then `waitForTraceState` | See below. |
| `TraceOperationProofs` | TLAPS proofs about `TraceOperation` | See section 4. |
| `TcpConnectTracer` | `install`, `run`, `close`, `Run`/`NewTracer`/`Stop` of tracer.go | See below. |
| `TracerLifecycle` | The abstract tracer of spec 4.1 | `lstate` is Uninstalled, Installed, Running or Closed. `attached` means something is held in the kernel. The actions are `Acquire` (an install in progress), `Install`, `Start`, and `LClose` from any non-Closed state, which releases everything. |
| `TcpConnectTracerProofs` | TLAPS proofs about `TcpConnectTracer` | See section 4. |

`TraceOrchestrator` has the following state:
- `pc` is the main goroutine's position: `sig`, `list`, `post`, `rollback`, `waitInit`, `deleteInit`, `waitOut`, `output`, `deleteEnd` or `done`.
- `copies[n]` is the `Status` of the copy on node `n`, or `NoCopy`. The cluster holds at most one copy per node, since `Spec.Node` is set per copy.
- `targets` is the set of nodes still to be posted.
- `elapsed` counts clock ticks of the current wait.
- `published` means the `traceID` variable is set.
- `hRecv` is the newest handler goroutine: none, starting, or waiting in `<-c`.
- `hDeleting` means a handler goroutine is inside `DeleteTrace`.
- `sigints` is `sigIntReceivedNumber`.
- `exited`, `forced` and `deleteFailed` record how the process ended.
- `signals` and `reports` are the bounded counts of signals and agent updates.

Each action is one step of the code:
- `InstallHandler` is `sigHandler(&traceID)`.
- `ListNodes` lists the nodes and selects them, or fails.
- `Post(n)` is one POST. It succeeds, fails, or fails with the copy stored.
- `Rollback` is the "Clean before exiting!" delete.
- `CreateDone` ends the loop. It either starts the initial-state wait or publishes the traceID.
- `WaitInit` and `WaitOut` are a returning round of `waitForTraceState`. A retrying round changes nothing, so it is a stutter.
- `WaitListFails` is a failed GET.
- `DeleteInit` is CreateTrace's cleanup.
- `Output` is the display.
- `DeleteEnd` is the deferred `DeleteTrace`.
- `Return` is the process exit.
- On the handler side, `HandlerReady` is the goroutine reaching `<-c`. `Signal(sig)` is the signal's delivery and the handler's counter logic. `HandlerDelete` is the handler's `DeleteTrace` followed by `os.Exit(1)`.
- The environment acts through `Tick` (the wall clock) and `AgentReport(n, s)` (an agent writing a state, an error or a warning).

`TcpConnectTracer` has the following state:
- `pc` is the goroutine in `Run`: `load`, `attach`, `reader`, `start`, `wait`, `close` or `done`.
- `step` is the next probe in the `CalculateLatency` order (`latency`).
- `loaded` means `t.objs` holds loaded programs and maps.
- `links` is the set of attached links.
- `readerOpen` means `t.reader` is an open perf reader.
- `loop` is the run goroutine: off, running or ended.
- `written` is the records the kernel put in the perf buffer, each a sample or a lost-samples report.
- `pos` is how many of them `run` has read.
- `delivered` is the callbacks made, each an event, a warning or an error.

Its actions follow the code:
- `Load` is `loadTcpconnect`, `RewriteConstants` and `LoadAndAssign`.
- `Attach` is each `link.*` call in order.
- `OpenReader` is `perf.NewReader`.
- Each of these three can fail and go to `close`.
- `StartRun` is `go t.run()`.
- `Finish` is `WaitForTimeoutOrDone` returning, or `Stop`.
- `Close` is `close()`.
- `Produce(r)` is the kernel program, modelled from the spec.
- `ReadRecord` and `ReadFails` are one iteration of `run`.

The `ErrClosed` branch of `run` is not an action, because nothing ever closes the reader. The refinement mapping gives `LState` and `Held`:
- A failed install stays Uninstalled until `close`.
- Install complete is Installed.
- After `go t.run()` the tracer is Running until `close`.
- `done` is Closed.
- `Held` means `links # {}` or `loaded`.

`TraceStreaming` composes the orchestrator with the aggregator. Each orchestrator action is conjoined with `UNCHANGED` on the aggregator's variables (`Orch`). Each signal step is `Signal(sig)` of the orchestrator, plus the copy of the signal that lands in `sigs`. The added state is:
- `registered`: `signal.Notify(sigs, ...)` has run. It is never undone.
- `sigq`: the signals buffered in `sigs`, 0 or 1. Notify drops a signal when the buffer is full.
- `streams[n]`: node `n`'s goroutine, which is idle, in `ExecPod`, blocked sending on `completion`, or done.
- `count`: `streamCount`.
- `agg`: the aggregator's position. It is one of `notify`, `client`, `spawn`, `select` or `returned`.
- `cancelled`: the aggregator returned from the `<-sigs` case.
- `exitedBy`: whether `Run*` returned (`main`) or a signal path ended the process (`signal`).

Its actions are `Notify`, `Client` (client set-up, which may fail) and `Spawn`. `Spawn` is the loop over `results.Items`: one step, because no goroutine can affect the main goroutine before the select. The other actions are `ExecDone(n)` (ExecPod returns), `Deliver(n)` (the rendezvous on `completion` and the decrement) and `CancelRecv` (the `<-sigs` case).

`TraceOperation` models a new operation on an existing trace. The copies start in a state of `PriorStates` that the previous operation left. `ListCopies` is the GET. `Patch(n)` is one `updateTraceOperation`: it succeeds, fails, or fails after the server applied it. `SetReturns` returns the combined error. The caller, which is not under `src/`, waits only when that error is nil. `Wait`, `WaitListFails` and `Tick` are `waitForTraceState`, as in the orchestrator. `Agent(n)` is the agent taking up the operation; it is modelled from the spec. The ghost variables `answered` and `converged` record which agents answered and which copies the returning round counted.

`DeleteTraces` is one DELETE by label, used by all four delete sites. It either removes every copy or logs an error (`deleteFailed`).

Data is abstracted as follows:
- Messages are model values. The timeout text is `TimeoutMsg`, and the empty string is `None`.
- There is one trace, so the `traceID` value itself is not modelled. A set label is `published`.
- Node names are model values. `NoNode` is `--node ""`, and `UnknownNode` names no node.

## 3. Runs

| Run | Config | Checks | Result |
|---|---|---|---|
| `feedback` | `MCTraceFeedback.cfg` (3 nodes, 2 messages) | `FeedbackComplete`: a finished round reports every copy's error and every timed-out copy, and reports warnings iff nothing converged. `AggregateSound`: the "all nodes" line appears only if there are several copies and all of them failed with that text. | pass (13,716 states) |
| `orchestrator_nosig` | `MCTraceOrchestrator.cfg` (2 nodes, 1 message, timeout 1 tick, 3 agent updates, no signals) | `NoOrphanedCopies`: at exit no copy is left unless a delete logged an error. `Termination`: the command always exits. | pass |
| `orchestrator_signals` | `MCTraceOrchestratorSignals.cfg` (as above, up to 3 signals) | `TypeOK`, the inductive invariant `IInv`, `NoLeakAfterPublish` (once Run* holds the traceID, no exit leaks a copy unless a delete failed or the exit was forced), `PublishedStable` (an action property: once Run* holds the traceID it keeps it, and no step creates a copy any more), and `Termination`. | pass (87,978 states) |
| `sigint_during_create` | `MCTraceOrchestratorSigintCreate.cfg` (1 signal) | `NoOrphanedCopies` | **violation** |
| `streaming` | `MCTraceStreaming.cfg` (2 nodes, up to 2 signals) | `TypeOKS`. `StreamsJoined`: while the select waits, `streamCount` equals the goroutines that have not delivered and is positive; a return without a signal leaves no goroutine behind. `NoLeakAfterPublish`, now with the cancel path. `InterruptEndsStream`: once an interrupt is buffered in `sigs` while the select waits, the command ends, even if no stream ever returns and the handler goroutine lost its copy of the signal. | pass (264,471 states) |
| `streaming_cancel` | `MCTraceStreamingCancel.cfg` (1 signal) | `CancelIsSuccess`: after the aggregator returned on a signal, the process ends by `Run*` returning, not by `os.Exit(1)`. | **violation** |
| `operation` | `MCTraceOperation.cfg` (3 nodes, prior state `Started`, expected `Stopped`) | `SetReachesAll`: every copy is tried whatever failed before, and an error is returned iff an update failed. `FreshConvergence`: every copy the wait counts as converged answered the new operation. | pass (3,815 states) |
| `operation_repeat` | `MCTraceOperationRepeat.cfg` (2 nodes, prior and expected state both `Completed`) | `FreshConvergence` | **violation** |
| `tracer` | `MCTcpConnectTracer.cfg` (up to 3 kernel records, both latency modes, every install failure point) | `TypeOK`. `NoLinkLeak`: once Run/NewTracer/Stop returned, nothing is attached or loaded. `EventsFaithful`: callbacks are exactly the records read, in order, with a lost record becoming one warning and an error only last. `Drained`: each written record is eventually delivered unless a read error ended the loop. `ImplementsLifecycle`: refinement of `TracerLifecycle`. | pass (650 states) |
| `tracer_loop_exit` | `MCTcpConnectTracerLoopExit.cfg` (2 records) | `RunLoopExits`: after Run/Stop returned, the run goroutine eventually exits. | **violation** |

**Finding (sigint_during_create).** spec.md 4.2 says that the handler is registered before creation "so that an interrupt during any phase still triggers delete". The code does not do this: `traceID` is assigned only when `CreateTrace` returns (trace.go 657, 682). A SIGINT during the POST loop, or during the up-to-2 s wait for `TraceInitialState`, therefore reaches `sigHandler` with `traceID == ""`. The handler calls `os.Exit(1)` without deleting, and the copies already posted stay in the cluster. TLC's counterexample is short: install the handler, list the nodes, post one copy, SIGINT.

**Finding (tracer_loop_exit).** spec 4.1 says `Close` releases the ring buffer reader. Spec 5 says closing the reader is the defined way to unblock the loop. The code disagrees: `close()` (tracer.go 84-93) closes the six links and `objs`, but never `t.reader`. Once `Run` or `Stop` returns, the `run` goroutine therefore blocks in `t.reader.Read()` forever, and the perf buffer stays allocated. In the counterexample the goroutine even delivers a record left in the buffer after `Close`.

**Finding (streaming_cancel).** spec 4.3 says cancellation returns success, and scenario 10 expects "a clean zero-error return" after an interrupt mid-stream. In the code, the SIGINT that makes the select return nil (trace.go 754) also reaches `sigHandler`'s channel (471). Its goroutine deletes the trace and calls `os.Exit(1)` (490-493). When it gets there before the main goroutine's deferred `DeleteTrace` and return, the command exits with status 1. The trace is still deleted: `NoLeakAfterPublish` holds in the `streaming` run.

**Finding (operation_repeat).** `waitForTraceState` counts a copy as converged when its state equals the expected one (trace.go 432), as spec 4.2 says. The TODO at 429-431 names the consequence. Take an operation whose expected state is the state the copies are already in. The wait then returns at once, with copies whose agent has not read the new annotation. The `operation` run, and the theorem `FreshWhenDistinct`, show that this is the only way it happens: when the expected state differs from the previous ones, only answered copies count.

**Bounds.** These bounds are enough for the interesting cases to happen:
- Two nodes are enough for partial creation: one copy posted, the next POST failing.
- Two nodes are also enough for one node converging while the other fails.
- A timeout of one tick is enough to distinguish "retry" from "timed out".
- Three agent updates let an agent write a state, then an error, then a warning, or answer on both nodes.
- Three signals reach the second SIGINT while a first handler is deleting, a SIGTERM after a SIGINT, and a signal lost while the re-installed goroutine starts.

For the stream aggregator, two nodes give two goroutines, so one can deliver while the other is still in `ExecPod` when a signal arrives. Two signals let a second one find `sigs` full, or hit the handler during the aggregator's return. The operation run uses three nodes, so a failed update can sit between two successful ones.

For the tracer, three records are enough for a sample, then a lost report, then another sample. The two latency modes cover both probe orders, and every install step is tried with a failure.

The feedback run uses three nodes because the aggregate line needs "more than one copy, all equal". With three nodes TLC also covers two equal errors plus one different error.

**Fairness.** The orchestrator assumes weak fairness for four things, justified as follows:
- **The main goroutine, except a failing GET.** The goroutine is always runnable, and the API calls are assumed to return. That is an assumption: the client uses `context.TODO()` and sets no timeout.
- **The handler goroutine reaching `<-c`.**
- **The handler's delete.**
- **The clock.** `time.Since` keeps growing, and the 100 ms sleep returns.

Agents, signals and API failures get no fairness, because none of them has to happen.

`TraceStreaming` adds weak fairness on the aggregator's main-goroutine steps. This includes the select: when one of its cases is ready, it takes one.

`ExecDone(n)` (a receive-stream returning) gets no fairness. `ExecPod` has no timeout, and a live stream may end only when the trace is deleted, which happens after the select returns. So the model does not claim that streaming ends by itself. It claims only what spec 4.3 promises: an interrupt ends it (`InterruptEndsStream`).

`TraceOperation` checks only safety, so it needs no fairness.

The tracer assumes weak fairness on `Run`'s own straight-line code (`Load`, `Attach`, `OpenReader`, `StartRun`, `Close`), and on `ReadRecord` whenever a record is waiting. `Finish` is not fair: when `Run` returns is up to the gadget context or the owner. Read errors are not fair either.

**Mutants.** Every property of a passing run is broken by a plausible bug:
- a timed-out pending copy not recorded;
- the `len(m) == totalNodes` test dropped;
- the rollback delete dropped;
- the timeout test lost;
- the deferred delete dropped;
- the handler exiting on the third SIGINT instead of the second;
- the tracer's attach index running past the last probe;
- `close` forgetting `tcpRvcStateProcessLink`;
- a missing `continue` after lost samples;
- a `return` on lost samples;
- `sigs` queuing every signal, as if Notify never dropped one;
- the completion case printing without decrementing `streamCount`;
- the cancel case exiting instead of returning, which skips the deferred delete;
- the cancel case staying in the loop instead of returning;
- `SetTraceOperation` stopping at the first failed update;
- the state test dropped from `IsSuccess`.

For `InterruptEndsStream`, the mutant is a cancel case that does not return. TLC's counterexample sends an interrupt before the handler goroutine reaches `<-c`. The handler loses its copy, and the select consumes the copy in `sigs` and goes on waiting on streams that never end.

For `Termination`, the mutant is the lost timeout test of the wait. A wait that never times out has no step left, so TLC reports it as a deadlock rather than a liveness violation.

## 4. Proofs (checked by `tlapm`)

**Orchestrator (`TraceOrchestratorProofs`).**

The proofs rest on the following assumptions:
- `Nodes` is finite and non-empty.
- `NoNode`, `UnknownNode` and `NoCopy` are distinct from the nodes and from every `Status`.
- `Timeout`, `MaxReports` and `MaxSignals` are naturals.

There are five theorems:
- `IInvariant`: `Spec => []IInv`.
- `TypeCorrect`: `Spec => []TypeOK`.
- `LeakFreeAfterPublish`: `Spec => []NoLeakAfterPublish`. This holds for every number of nodes, every timeout and every bound.
- `PublishedStableAlways`: `Spec => PublishedStable`, an action property. It is proved from `IInv` (lemma `PublishedStep`). `PublishedAfterCreate` puts `pc` past the POST loop and the initial wait, so no step can unset `published` or post. The deletes only shrink `Present` (`DeleteShrinks`), and the agents keep it (`AgentKeepsPresent`).
- `NoOrphansWithoutSignals`: if `MaxSignals = 0`, then `Spec => []NoOrphanedCopies`. This is the hypothesis of the `orchestrator_nosig` run. With signals the property is false (the `sigint_during_create` finding), so the theorem pins the orphans on the signal path alone. Its invariant `NoSigInv` adds three facts: the handler never deletes; no copy exists before the POST loop; and `done` is reached only with `CleanedUp`, through the empty node list, the rollback, CreateTrace's cleanup or the deferred delete.

`NoLeakAfterPublish` is not inductive on its own. Take a state with `published` true that is not an exit state but has copies left: nothing in the property stops `Return` from exiting in it. The strengthening `IInv` adds four facts:
- `TypeOK`.
- `SigintsBound`: `sigints <= 1` while the process runs. This is why the second SIGINT is the one that exits.
- `PublishedAfterCreate`: the traceID is set only once `pc` has passed creation and the initial wait. So no `Post` happens after it.
- `DoneCleaned`: holding the traceID at `done` means the deferred delete ran.

The proof is laid out as follows:
- `InitIInv`.
- `FlagsStep` (Boolean flags, by Zenon).
- `DataStep` (the rest of the typing, by SMT, using `SigintsBound` to keep `sigints` in `0..2`).
- `PartsStep`, with one case per action. It uses `DeleteCleans` (every delete outcome leaves `CleanedUp`) and `AgentKeepsPresent` (an agent never creates or removes a copy).
- `NextIInv`, and then the temporal step by PTL.

**Tracer (`TcpConnectTracerProofs`).** This module rests only on `MaxRecords \in Nat`. It proves five theorems:
- `TracerInvariant`: `Spec => []TInv`.
- `TracerTypeCorrect`: `Spec => []TypeOK`.
- `NoLinkLeakAlways`: `Spec => []NoLinkLeak`.
- `TracerRefinesLifecycle`: `Spec => Lifecycle!LSpec`.
- `EventsFaithfulAlways`: `Spec => []EventsFaithful`, for every bound on the records.

`EventsFaithful` is inductive given `TInv`. It is written with `Faithful(w, k)`, the kinds of the first `k` records. Two lemmas about it do the sequence work: reading one record appends its kind (`FaithfulAppend`), and the kernel appending behind the read position leaves the prefix alone (`FaithfulExtend`). `go t.run()` needs `PhaseOK`: the loop was off, so no error had been delivered.

`TInv` is `TypeOK /\ NoLinkLeak /\ PhaseOK`. `PhaseOK` says three things: programs are loaded from the first attach to the wait; the run goroutine does not exist before `go t.run()`; and it exists at `wait`. The refinement needs `PhaseOK` for three steps:
- `OpenReader` maps to `Install`, which requires `Held` to be true afterwards.
- `Finish` must be a stutter, so Running has to stay Running.
- `close` after a failed install has to count as Uninstalled.

The refinement proof maps `Init` to `LInit`, then gives every action one case: a lifecycle step or a stutter of `<<LState, Held>>`.

**Operations (`TraceOperationProofs`).** This module rests on `OperationAssumption`: `Nodes` is finite and non-empty, the messages are not `None` or `TimeoutMsg`, `PriorStates` and `Expected` are tokens, and `Timeout` is a natural. It proves two theorems:
- `SetReachesAllAlways`: `Spec => []SetReachesAll`, for every set of nodes.
- `FreshWhenDistinct`: if `Expected \notin PriorStates`, then `Spec => []FreshConvergence`.

`SetReachesAll` needs two strengthenings, collected in `OInv`. First, no result is set before `SetTraceOperation` returns, including during the wait. Second, during the loop every copy already handled, if its update did not fail, carries or has answered the operation. `FreshConvergence` then adds `Untouched`: a copy whose agent has not answered still holds a state of `PriorStates`, with no error or warning. So when `Expected` is not one of those states, an unanswered copy is never a success. The type invariant is split again, into the Boolean maps (Zenon) and the rest (SMT).

**Streaming (`TraceStreamingProofs`).** This module rests on the orchestrator's assumptions, and it reuses that module's inductive invariant `IInv`. It proves three theorems:
- `StreamingRefinesOrchestrator`: `SpecS => Spec`. The initial states project onto `Init`. Every step of `NextS` projects onto `[Next]_vars`: an orchestrator step is itself, and the aggregator step that returns (`Client` on error, the last `Deliver`, `CancelRecv`) is `Output`. The aggregator's other steps leave the orchestrator's variables alone. The proof of each step is one case per disjunct of `NextS`.
- `StreamingLeakFree`: `SpecS => []NoLeakAfterPublish`. It follows from the refinement and `IInvariant`, so the cancel path of the aggregator inherits the no-leak result.
- `StreamsJoinedAlways`: `SpecS => []StreamsJoined`, for every set of nodes.

`StreamsJoined` is not inductive. Its strengthening `JInv` has two parts:
- `OrchPart`. Copies and targets lie on nodes that the filter keeps. The aggregator is at `notify` outside the output, delete-end and done phases. In the output phase, before the spawn loop, some copy is present, because the only step into that phase is a wait that found a converged copy.
- `AggPart`. No goroutine runs before the spawn loop. `cancelled` implies `returned`. `StreamsJoined` holds.

With `OrchPart`, the goroutines that the spawn loop starts are exactly the present copies, which form a non-empty set. Each `Deliver` removes one node from `Active` and one unit from `streamCount` (`FS_RemoveElement`). The delivery that reaches zero leaves `Active` empty. The proof of each step takes `IInv` as a hypothesis, for the type of `copies` and for `AgentKeepsPresent`.

`TypeOKSAlways` (`SpecS => []TypeOKS`) adds `KInv`: `registered` is Boolean, `sigq` is in `0..1`, `exitedBy` is typed, and `count <= Cardinality(Active)`. The last fact is zero before the spawn loop, an equality while selecting, and unchanged by the cancel case. With `Active \subseteq Nodes` (`FS_Subset`) it bounds `streamCount` by the number of nodes.

**Feedback (`TraceFeedbackProofs`).** This module rests on `FeedbackAssumption`. It proves `FeedbackCompleteAlways` and `AggregateSoundAlways`: `Spec => []FeedbackComplete` and `Spec => []AggregateSound` of `MCTraceFeedback`. They hold for snapshots of every size, not only the three nodes TLC enumerates. The lemmas are about the operators of `TraceFeedback`:
- `IdenticalAll`: a value of `getIdenticalValue` other than `""` is every entry's value.
- `PrintLines`: a printed line is a node's own line, or the aggregate for a map with one entry per copy, all with that message.
- `PrintCovers`: every entry is printed, on its own line or in the aggregate.
- `Snapshot`: the error and warning maps, and what the round prints. A map with as many entries as there are copies has all of them (`FS_Subset`).
- `WarningNotInErrors`: a copy with a warning is never among the errors.

`None \notin Nodes` is needed because the aggregate line is the one whose node is `None`.

The following are only model-checked:
- `Termination`: liveness is beyond TLAPS here.
- `NoOrphanedCopies` with signals: it is false, as the finding above shows.
- `InterruptEndsStream` (liveness) and `CancelIsSuccess` of `TraceStreaming`. `CancelIsSuccess` is false; see the finding.
- The tracer's `Drained` and `RunLoopExits`, and `Termination`/`InterruptEndsStream`: these are liveness properties under fairness, which the provers cannot reach here (`ENABLED` and fairness reasoning).

## 5. Not modelled, and the plan

The following are not modelled:
- `PrintAllTraces`, `DeleteTracesByGadgetName`, `ListTracesByGadgetName` and the list/label helpers. They are formatting, or one LIST or DELETE by label.
- The post-processing of streamed lines (`NewPostProcess`, the transform), which is formatting only.
- `randomTraceID`: one trace is modelled, so ID collisions are out of scope.
- The REST client's hang. Fairness assumes calls return.

Plan for later sittings:
1. An abstract specification of an operation on the trace (set, then wait for the state) and a refinement proof of `TraceOperation` against it.
2. Action properties of the aggregator: `streamCount` only moves down by one per completion, and a delivered stream never restarts.
