# go-capataz in TLA+

This directory holds a verification development for go-capataz, a library of
supervision trees for Go goroutines: modules that model its supervisors and
what surrounds them, TLC configurations that check them on small instances,
and proofs that TLAPS checks for every instance. `PROJECT.json` lists the runs,
the mutants that show each property is sensitive to the code, the source lines
each definition models, the findings, the hazards and the theorems.

## 1. The system

A **supervisor** owns a list of children, starts them in order, restarts those
that fail and stops them in reverse order. A child is a **worker** (client
code) or the root of a **sub-tree** (another supervisor). Each child runs in a
goroutine of its own; so does a root supervisor. A sub-tree supervisor runs
in the goroutine of the child that it is.

| Component | Source | State | Operations | Module |
|---|---|---|---|---|
| Supervision loop | `internal/s/monitor.go`, `one_for_one.go`, `one_for_all.go`, `spec.go` | `supChildren` (name to `Child`), the place in the loop, the child under restart, `restartErr` | `startChildNodes`, `terminateChildNodes`, `handleChildNodeNotification`, `execRestartLoop`, `terminateSupervisor` | `Supervisor` |
| Child goroutine | `internal/c/start.go`, `core.go`, `spec.go` | its channels `startCh`, `startedCh`, `terminateCh`, its context | `DoStart`, `Terminate`, `waitTimeout`, `sendNotificationToSup` | `Supervisor` |
| Restart tolerance | `internal/s/restart_tolerance.go`, `supervisor.go` | `restartCount`, `restartBeginTime`, `sourceErr` | `checkToleranceExceeded` | `Tolerance`, `RestartTolerance` |
| Restart backoff | `internal/s/restart_tolerance.go` | none | `duration` | `Backoff` |
| Root supervisor | `internal/s/root.go`, `supervisor.go` | `terminationManager`, `ctrlCh`, `terminateCh` | `Terminate`, `Wait`, `GetCrashError`, `onTerminate` | `Termination` |
| Sub-tree | `internal/s/subtree.go` | none of its own | `run`, `subtree` | `SupervisionTree` |
| Dynamic supervisor | `internal/s/dyn_supervisor.go` | `supChildrenSpecs` of the loop, the result channels | `Spawn`, terminate callback, `processMsg` | `DynSupervisor` |
| Dynamic sub-tree | `internal/s/dyn_subtree.go` | none of its own | `Spawn` of its `Spawner` | parts, see section 6 |
| Reliable notifier | `internal/n/reliable_notifier.go` | the entrypoint queue and one queue per notifier | `eventNotifier`, `runEntrypointListener`, the workers | `ReliableNotifier` |
| Health check | `internal/s/healthcheck.go` | `failedEvs` | `HandleEvent`, `GetHealthReport` | `Healthcheck` |
| Event criteria, matchers | `internal/n/crit.go`, `smtest/asserters.go`, `eventp.go` | none | combinators, `verifyExactMatch`, `verifyPartialMatch` | `EventCriteria` |
| Test event manager | `smtest/event_manager.go` | event buffer, condition variable | collector, iterators | `EventManager` |
| Test helpers | `internal/stest/` | counters of the workers | `ObserveSupervisorWithNotifiers`, `FailOnSignalWorker` | `ObservedSupervisor` |
| Error and event texts, options, `cap/`, `examples/` | | none, or formatting | | section 6 |

How they meet: the supervisor and a child meet on **unbuffered channels** only.
`DoStart` blocks on `startCh`; an ended child blocks in a `select` that offers
its end on the supervisor's `supNotifyChan` (received by the loop) and on its
own `terminateCh` (received by `Child.Terminate`). Client calls cancel a
context, receive from `terminateCh` of the root, or send control messages on
`ctrlCh`. Events are synchronous calls of the notifier function, which in turn
sends to the queues of the reliable notifier or to the collector of a test.

What is hard:

- children end at any time, also while the supervisor starts, restarts or stops
  others, and several at once; a `select` picks any ready case;
- a notification carries the *name* of the child, not the incarnation, so one
  that was left behind (failed start, timed-out shutdown) can be taken for the
  end of another goroutine;
- starts fail half-way through a list, in a boot or in a restart, and have to be
  rolled back; restarts are retried until the tolerance is surpassed;
- shutdowns time out while the child is still running;
- termination may be requested while a restart waits for its backoff, and of a
  sub-tree while it boots, restarts its own children, or gives up;
- clients of a dynamic supervisor change the list of children between its steps,
  and give up on answers that come later;
- the result of a supervisor is stored by racing callers;
- notifiers panic and hang while events keep coming, and events are what the
  health check and every test rely on;
- the tolerance counts in a fixed window, the backoff in machine words.

What makes the components correct: no child goroutine escapes the supervisor's
map; the stop order reverses the start order on every path and takes a sub-tree
as a whole; a failed boot leaves nothing up; resources are released last;
restart kinds are respected; events agree with reality, are delivered in order,
and are never lost in silence; giving up is justified and never premature;
termination completes and is answered; a crash is not lost. `PROJECT.json`,
"hazards", lists what can go wrong at its line.

## 2. Plan

The modules, in the order in which they were written, all in place:

1. `Tolerance` (verdict and counter), `Supervisor` (one supervisor and its child
   goroutines), `MCSupervisor` (its instances).
2. `Backoff` (machine arithmetic of the wait), `RestartTolerance` (tolerance and
   wait against a clock), `Termination` (callers against the end of a root).
3. `SupervisorProofs`, `RestartToleranceProofs`.
4. `SupervisorContract`: the abstract supervisor that `Supervisor` implements.
5. `DynSupervisor` extends `Supervisor`; `SupervisionTree` composes two
   instances of it.
6. `EventCriteria`, `Healthcheck`, `ReliableNotifier`; `Monitoring` composes them.
7. `EventManager`; `ObservedSupervisor` composes it with `Supervisor` and
   `EventCriteria`.
8. `LifecycleProofs`, `TerminationProofs`; shutdowns that time out in
   `SupervisorProofs`; `DynProofs`, `NotifierProofs`, the wait in
   `RestartToleranceProofs`, `TreeProofs` and `ObservedProofs`.

```
Tolerance <- Supervisor <- DynSupervisor
   |             |  |  \-- SupervisionTree  (a second instance, inside a child)
   |             |  \-- ObservedSupervisor <- EventManager, EventCriteria
   |             \== SupervisorContract     (refinement mapping)
   |<- RestartTolerance <- Backoff
   \<- ReliableNotifier <- Monitoring <- Healthcheck, EventCriteria
Termination
```

Every invariant that a passing run checks is a theorem. What is left is a tree with a
dynamic sub-tree.

## 3. Modules and their code

### Supervisor

One action per step between two blocking points of the supervisor goroutine,
and one per step of a child goroutine; a send on an unbuffered channel is one
joint step of both sides.

| Code | Model |
|---|---|
| place in `runMonitorLoop`/`execRestartLoop` | `pc`: `build`, `boot`, `bootRollback`, `loop`, `tolerance`, `backoff`, `siblings`, `restart`, `restartRollback`, `shutdown`, `cleanup`, `dead`, `panicked` |
| the `for` loops of `startChildNodes`, `terminateChildNodes` | `todo`, the names left; `waiting`, the goroutine blocked on |
| `supChildrenSpecs`, the strategy of the specification | `specs` (constant unless the supervisor is dynamic), `strategy` (chosen once) |
| `supChildren` | `children`, name to goroutine |
| `sourceCh`, `prevErr` of `execRestartLoop` | `source`, `erred` |
| a goroutine of `DoStart` | `phase` (`starting`, `running`, `stopping`, then `failing` or `completing` while it offers its end) and `owner` (its name) |
| `restartCount` | `restartCount`; whether the window elapsed is open (`WithinWindow`), see `RestartTolerance` |
| `supCtx` | `ctxDone` |
| what `buildNodes` allocated | `resources` |
| error given to `onStart`/`onTerminate` | `outcome` |
| event notifier | `reported`, last event per child |

Correspondence of the main steps: `SpawnChild`, `StartSucceeds`, `StartFails`,
`AllStarted` are `startChildNodes`/`DoStart`; `SkipChild`, `CancelChild`,
`ChildStopped`, `ChildAlreadyGone`, `ShutdownTimesOut`, `AllStopped` are
`terminateChildNodes`/`Child.Terminate` in its four uses (OneForAll siblings,
two rollbacks, shutdown); `Receive` is the notification case of the loop with
the tables of `handleChildNodeError` and `handleChildNodeCompletion`;
`CheckTolerance`, `RestartUncounted`, `BackoffElapses`, `BackoffCancelled` are
one turn of `execRestartLoop`; `Shutdown`, `Cleanup` are `terminateSupervisor`.

Abstractions. An entry leaves `children` as soon as its child is stopped; the
code keeps it in a map that every caller of `terminateChildNodes` drops. Panics of
children are captured, the default, so a panic is a failure. `reported` treats
each child as a worker: a sub-tree child notifies its own start. A child that
fails its start returns afterwards. A second call of `notifyStart` has no
effect (the closed `startedCh`) and is not modelled. Exit of a goroutine and the
close of its `terminateCh` are one step: a `Terminate` in between would only
wait for the close. A supervisor that is over, or blocked for ever in `DoStart`
by a child that returned before `notifyStart`, stutters (`Over`), so that the
deadlock check stays on for everything else.

Definitions marked *Fault* are not part of the specification: each is the
definition after it with a plausible bug, used to show that a property detects
it (`PROJECT.json`, "mutants").

### SupervisorContract

What a supervisor promises to whoever started it, without strategies, orders,
restart loop or channels: `stage` (starting, up, stopping, over), `procs` (the
goroutines under each name), `asked` and `verdict`. A start next to another
goroutine of the same name, a reported start that is incomplete, a start during a
stop, an end with something left over, and an end without an error that nobody
asked for are no steps of it. `Supervisor` maps to it by `Stage` and
`Incarnations` (`ImplementsContract`); the liveness promise is separate (`Halts`).

### Tolerance, Backoff and RestartTolerance

`Tolerance` has the verdict (`Check`) and its effect on the counter
(`CountAfter`), used by `Supervisor`, `RestartTolerance` and `ReliableNotifier`.

`Backoff` has `duration` in words of `Bits` bits, as Go computes it: the shift
drops bits, the product wraps, the exponent of count 0 wraps to the largest
counter.

`RestartTolerance` puts both against a clock, because the wait decides which
errors can share a window: `CheckToleranceExceeded` is an error and the wait
after it, `RestartCompleted` the wait after a Permanent child that completed,
`resumeAt` the time at which the supervisor goes on. The module keeps the
history of error times and the index of the source error of the window instead
of `restartBeginTime`. `Bases` and `Maxima` are the backoff options, chosen once.

### Termination

The callers of `Terminate`, `Wait`, `GetCrashError` against `onTerminate`.
Every lock section of `terminationManager` is one step; what happens between
two of them interleaves. The children are abstracted to the error that the
supervision loop ends with.

### DynSupervisor

The supervisor of `Supervisor` with `Specs = << >>`, whose loop also receives
from `ctrlCh`. `handleCtrlMsg` adds three places to `pc`: `spawn` (DoStart of the
new child), `discard` (the `<-supNotifyChan` after a failed start) and `cancel`
(Child.Terminate of a terminate message). `client` is where each client is in
`Spawn` or in the callback Spawn returned, with its buffered `resultChan`
(`answer`); both of its timers may fire at any time (`SendTimesOut`,
`AwaitTimesOut`). `serving` is the client whose message is processed, or none when
that client no longer reads the channel. `ctrl` follows `onTerminate`: the error is
offered, `ctrlCh` is closed, `terminateCh` is closed. `Removal` is the removal loop of
`terminateChildMsg` with its in-place shift, panic on the slice bounds included.

`intact` is a history variable: no name was spawned twice, and no failed spawn
discarded the end of another child. The code guarantees neither, so two properties
are stated for the histories in which it is true; the run `SwallowedEnd` shows what
happens in the others.

### SupervisionTree

The parent is `Supervisor` itself; the supervisor inside its child `Subtree` is a
second instance (`Sub`), whose variables begin with `sub`. The two meet where the
code connects them: spawning the child's goroutine runs the sub-tree anew (`Run`,
with a new tolerance manager), `notifyStart` is called by the sub-tree's `onStart`
(`SubtreeStarts`), cancelling the child cancels the sub-tree's context (`Cancel`),
and the child returns what the sub-tree's loop returned (`SubtreeReturns`,
`ReturnValue`). Everything else of the two loops interleaves. The start of the
sub-tree may fail at boot only: a failed restart would leave a goroutine behind,
as in `OrphanAfterFailedRestart`, and two incarnations of the sub-tree would need
two sets of its variables.

### EventCriteria, Healthcheck, ReliableNotifier and Monitoring

A criterion is the set of events it accepts; names are sequences, so that
`EInSubtree` compares prefixes as the code does. `HandleEvent` and
`GetHealthReport` are operators on `failedEvs`; the age of a failure is open
(`late`).

`ReliableNotifier` has the channels (`entry`, `queue`; size 0 is an unbuffered
channel, whose send is a joint step), the entrypoint that broadcasts to one notifier
after the other with a timer each, the workers, and what the two supervisors of
the notifier do when a user's function panics: restart the worker, restart the
sub-tree, give up, or stop. Their steps follow from `Supervisor` and are taken as
one each. An event is its place in `stream`, the order of entry.

- The timer of a send may fire although there is room: the `select` of the code
  picks among the ready cases.
- The channels survive every restart: the nodes are built once, outside.
- A function that hangs, hangs for ever: its worker is left behind when its
  Timeout is over. The event in hand is lost.
- The count of the notifier's root (100 failures in a second) is left open: any
  failure of the sub-tree may be the one too many.
- Once the notifier has stopped, nobody empties `entry`: publishers go on until it
  is full and then block. `PublisherReleased` claims nothing of that case.

`Monitoring` is the composition: supervisors that publish the events of processes
in an order `Supervisor` can produce (`MayFollow`; a restart may fail, which the
health check ignores), the health check as one notifier, and a
function of the user, which may panic and hang, as another. Of a sub-tree both its
own supervisor and its parent speak; notifying is synchronous and comes before
`onStart`, so they take turns (`BeingTold`, `internal/s/monitor.go:521-530`). What is
said of a process that never ran (its first start fails) is left out.

### EventManager and ObservedSupervisor

`EventManager` is the collector goroutine and the iterators with their condition
variable. `evDone` is set on a copy of the manager, and only when `evCh` is closed,
which nothing does: readers never see it, and it has no variable.

`ObservedSupervisor` is a test: `ObserveSupervisorWithNotifiers` starts a supervisor
of `FailOnSignalWorker`s, waits for the event of the root, lets its callback
trigger a failure and wait for it, terminates, waits for the event of the end and
reads the buffer. The supervisor's goroutine is inside the collector
until its event is stored (`sending`). When the start fails the callback does
nothing. The context stays alive until the test returns.

## 4. Runs

Passing runs:

| Run | Instance | Shows |
|---|---|---|
| `ReliableChildren` | 3 children, one per restart kind, both strategies, 4 goroutines, tolerance 2, backoff, window, failing build and cleanup, under fairness | `TypeOK`; `SupervisionInv` (the inductive invariant of the proofs: nothing orphaned, no panic, resources last); `OrderedStop`, `UpIsReportedUp`, `RestartPolicy`, `Revived`; `ImplementsContract` and `Halts` (refinement of `SupervisorContract`) |
| `FaultyChildren` | 2 children right to left, both strategies; one child may fail to start or return before `notifyStart`, the other may time out in its shutdown; 6 goroutines, two of them left behind; tolerance 2 in an endless window, failing build | `ReportedUpIsUp`, `StartsInOrder`, `BootAllOrNothing` |
| `RestartTolerance` | maximum 3, window 4, 9 ticks, waits in words of 3 bits | `TypeOK`, `GiveUpJustified`, `ToleratedBound`, `RestartsSpaced`, `WaitBounded` |
| `Termination` | one caller each of `Terminate`, `Wait` and `GetCrashError`, under fairness | `TypeOK`, `ErrorDelivered`, `EverybodyAnswered` |
| `DynSupervisor` | 2 interchangeable clients, 2 names (Permanent, Temporary), failing spawns, one shutdown that may time out, both strategies, 3 goroutines, at most 2 specifications | `DynTypeOK`, `MapIsListed`, `DynNoOrphan`, `TerminatedIsForgotten` |
| `DynAnswers` | 1 client, a backoff, a window, tolerance 1, 3 goroutines, failing spawns and failing restarts, under fairness | `Answered`, `DynTerminates` |
| `SupervisionTree` | a worker and a sub-tree of 2 workers (Permanent, Temporary; OneForAll) under either strategy of the parent, tolerance 1 in both, failing build and cleanup of the sub-tree, under fairness | `TreeTypeOK`, `NothingOutlivesSubtree`, `WholeSubtreeFirst`, `TreeTerminates`, `SubtreeRevived`, `SubtreeIsAChild` |
| `Monitoring` | 3 events of a worker and of a sub-tree, whose restart may fail and whose name is a prefix of the worker's, the health check and a faulty function, buffers of size 0 and 1, under fairness | `OrderKept`, `NothingLostSilently`, `HealthReportRight`, `PublisherReleased`, `PromptNotifierServed` |
| `ObservedSupervisor` | 2 FailOnSignalWorkers that fail twice each, either strategy, tolerance 3, failing build, under fairness | `StoredWhenReturned`, `SnapshotComplete`, `MatchersAgree`, `ObservationReturns` |

`SubtreeIsAChild` closes the circle of the composition: to its parent a sub-tree is
what `Supervisor` assumes a child to be, in its steps (`Spec` holds of the parent's
variables in the composed system) and in what fairness asks of a child. What is
checked or proved of one supervisor holds of a tree level by level.

Runs that end in a violation, each a disagreement between the code and what its
documentation says (`PROJECT.json`, "findings", quotes both):

| Run | What the code does |
|---|---|
| `OrphanAfterFailedRestart` | the late notification of a failed restart makes the loop replace a healthy goroutine that nobody stops |
| `SlidingWindow` | the window of the tolerance is fixed and begins with an error: one error more than the maximum within a span that straddles two of its windows is tolerated |
| `SwallowedEnd` | a failed spawn discards the end of another child; its own notification then panics the loop |

Observed while modelling, without a run of their own:

- the wait is documented as `base ^ restart count`
  (`internal/s/supervisor_options.go:97`) and is `base << (restartCount - 1)`;
- a failed OneForAll restart returns a nil map (`internal/s/monitor.go:328`), which the
  loop keeps when the backoff after it is cancelled (`:78`): a `Spawn` served
  before the shutdown would panic writing to it
  (`internal/s/dyn_supervisor.go:79`). The model has an empty map there; no run
  of a dynamic supervisor has failed starts under OneForAll;
- without a backoff, failing restarts are repeated after `Terminate`: the restart
  loop does not look at its context (`internal/s/monitor.go:57`);
- a failed boot skips the cleanup of the resources (`internal/s/monitor.go:514`);
- the stored result of a crashed supervisor may be replaced by nil: of two callers
  that pass `getTerminateErr` before either has stored, one receives the error and
  the other nil from the closed channel, and the last store wins
  (`internal/s/supervisor.go:181`, against the comment at `:50`). `Termination`
  states it as `FinalStateKept`; TLC refutes it when it is added to the
  invariants of `Termination.cfg`;
- a child that returns before it calls `notifyStart` blocks the supervisor for
  ever: `DoStart` waits without a timeout (`internal/c/start.go:201`);
- a failed start in a OneForOne restart is not announced as an event
  (`internal/s/one_for_one.go:28`), one in `startChildNodes` is;
- a OneForAll restart also revives Temporary and Transient children that had
  finished (`internal/s/one_for_all.go:25`);
- the wait becomes zero or negative, so the restart immediate, once
  `base << (restartCount - 1)` overflows (`internal/s/restart_tolerance.go:67`);
- `Spawn` panics in its caller when the supervisor ends between the check and the
  send (`SendOnClosed`), and returns an error for a worker that is then started
  when the answer takes more than a second (`AwaitTimesOut`);
- a callback that is called again finds the answer of a call it gave up on;
- a name that was spawned twice loses its first goroutine, and its terminate
  message panics on slice bounds in the removal loop (`Removal`);
- `EInSubtree("root/db")` accepts the events of `root/db2`;
- a Temporary process that failed stays in the health report for good;
- `ObserveDynSupervisor` waits for a termination event that never comes when
  `Terminate` returns an error (`internal/stest/assertions.go:61`).

### Bounds

- **Children**: three suffice to have a first, a middle and a last in both
  orders, and one child of each restart kind; two where faults, clients or a second
  supervisor multiply the states. The proofs have no such bound.
- **Goroutine identities** are reused once a goroutine is gone. There must be at
  least one per child, one being started, one per goroutine left behind
  (`MaxStale`) and one to spare; with fewer, `SpawnChild` would be disabled and
  the deadlock check of the runs would report it. The runs of the dynamic supervisor have three:
  enough while no name is spawned twice. A name that is spawned again and again
  piles up goroutines without a bound, in the code as in the model; there the
  supervisor of the model stays where it is when no identity is free.
- **MaxStale** bounds the goroutines that live outside the supervisor's books.
  `LeaveBehind` forgets a goroutine beyond it. One is enough to take a late
  notification for the end of another incarnation; `FaultyChildren` has two, so
  that one of a failed start and one that timed out in the rollback after it
  exist together. In the runs of the dynamic
  supervisor it is 0: what a goroutine left behind can do is the question of
  `FaultyChildren` and `OrphanAfterFailedRestart`.
- **MaxSpecs** 2: one name twice, or both names. A client could spawn more; the
  guard of `ServeSpawn` stops it there, and its timer still lets it go on.
- **MaxRestartCount** 0 to 3 with `CountLimit` 16: the counter passes through
  zero, the increments, the reset and the surplus. In `DynSupervisor` it is 0, so
  that the first failure of a Permanent worker ends the supervisor while clients are in a call;
  `DynAnswers` has restarts.
- **MaxTime** 9 with a window of 4 and a maximum of 3: two full windows, errors
  that straddle them, and more than twice the maximum of errors.
- **Bits** 3 with bases 0 to 2: a wait overflows at the third error of a window
  with base 1 and at the second with base 2, and `CountLimit` 8 is enough for the
  exponent of count 0 to shift the one out of the word.
- **MaxEvents** 3: a start, a failure and a recovery of one process, or events of
  both, with up to two restarts of a panicking worker, one more than the
  sub-tree tolerates. Two processes are down together after four events only, so
  the health check allows none (`MaxAllowedFailures` 0): the first failure is one
  too many and the recovery makes the report healthy again. Other thresholds and
  more processes are left to the theorem `HealthReportIsRight`. Buffer sizes 0 and 1 are
  combined freely for the entrypoint and the notifiers.
- **TotalErrCount** 2 with a tolerance of 3: the observed supervisor survives
  three failures and gives up at the fourth, so that a test ends either way.
- The clients of `DynSupervisor` are symmetric (`ClientSymmetry`), which is sound
  because the run checks invariants only. No other run uses symmetry.
- Deadlock is checked everywhere but in `Monitoring`, where all events have been
  notified at some time and the notifier may have been stopped.

### Fairness

`FairSpec` of `Supervisor` assumes (`Progress`, weak fairness): the supervisor
goroutine runs; a starting child decides; a child with `Indefinitely`
honors its cancelled context, as `internal/c/new.go:29-31` demands, one with
`Timeout` need not; timers fire. It assumes (`LoopFairness`, `Received`, strong fairness)
that a `select` that finds a case ready again and again picks it: `Shutdown`,
`BackoffCancelled` and the receipt of the end of each child, because Go chooses among
the ready cases at random and queues the senders of a channel. A running
child need never end and nobody need call `Terminate`.

`DynFairSpec` takes `LoopFairness` without the queue of the senders, which its properties do
without, and adds that a waiting client reads its answer and the supervisor goroutine
runs in `processMsg`; the clients' timers need not fire, so `Answered` does not
lean on them. `TreeFairSpec` is `LoopFairness` of both supervisors and their workers
(`ParentProgress`, `SubtreeProgress`), and that the end of the sub-tree is received;
of the sub-tree as a child nothing is assumed but that its goroutine returns
when its loop has. `MonFairSpec` lets the goroutines of the notifier and of the
health check run and queues blocked publishers; nothing is assumed of a
user's function, and a timer of the entrypoint fires because its goroutine runs.
`ObservedSpec` lets the collector and the test run. `FairSpec` of `Termination` assumes
that the supervisor obeys its context and callers inside a call go on.

## 5. Proofs

No theorem bounds the children, goroutines, clients, notifiers, events or
counters. Unless a premise is named, a theorem holds under any faults.

### Premises

- `ReliableChildren`: starts that are attempted succeed, shutdowns wait for the
  child. `ReliableStarts`: only the first half; shutdowns may time out. Both are
  necessary where they are used: `OrphanAfterFailedRestart` is the counterexample.
- `StaticChildren`: the specification lists every child.
- The assumptions of the modules: `Specs` names every child at most once (names are
  unique among siblings); `MaxRestartCount + 1 < CountLimit`, which excludes the
  single configuration whose `uint32` counter would wrap.

### Supervisor

`SupervisorProofs`:

- `TypeCorrect`: `Spec => []TypeOK`. `Typed` is the types and what they need: the
  owner of a living goroutine is a child, the source of a restart is a child, and the
  supervisor waits only inside a loop with a name in hand; `EnterRestartLoop` makes
  an owner the source and `BeginRestart` makes the source a list of names. It holds of any
  list of specifications (`TypedStep`), which is what a dynamic supervisor
  needs; `TypeInv` adds that the list is `Specs`. The bound of the counter
  rests on `CountBounded`: a verdict other than "surpassed" leaves at most
  `MaxRestartCount`.
- `Supervision`, for reliable and static children: `Spec => []SupervisionInv`.
  `NoOrphan` alone is not inductive: that a start does not overwrite a
  living entry needs `StillToStart` (names still to be started have no living
  goroutine), which a restart gets from `SourceDone` (its source has ended) and, under
  OneForAll, from `StillToStop` (whatever lives during a stop is still on the list),
  while `WaitingFor` and `OnlyWaitedStart` say which goroutine the supervisor is
  blocked on. That both orders list every child exactly once (`OrdersListAll`) is
  proved from the assumption on `Specs`.
- `NothingOrphaned`, `PanicUnreachable`, `ResourcesLast` follow: no
  goroutine escapes, the panic on an unknown child is unreachable and resources
  go last.

In `LifecycleProofs`, `ContractImplemented`, for reliable and static children, shows that
`Supervisor` implements `SupervisorContract` step by step. What happens to the
goroutines of a step comes from `SupervisionInv`: `SpawnStartsOne` (under the name
of a child that is started nothing lives) and `ExitEndsOne` (an end is that of one
name). A reported start is complete by `BootComplete` (while the supervisor
boots, a child is still to be started or it is there), and the steps that the
contract does not see are stutters (`Stutters`).

Also in `LifecycleProofs`:

- `StartsAreOrdered` and `FinishedStaysDown`, from `StartInv`: what
  is left to start is the end of the start order, the children before it are in the
  map with a started goroutine of their own, those after it have no entry, the child being started is the
  next one in it, and a OneForOne restart is about a child that has not finished
  for good. `RestartPolicy` needs the last part, and that at boot nothing was
  reported yet of the children still to be started.
- `StopsAreOrdered`, `RunningIsReported` and `ReportedIsRunning`, for reliable and
  static children, from `StopInv`: the supervisor waits for the
  only cancelled goroutine, what is left to stop is the end of the termination
  order, and a child is reported as started exactly as long as the map has a
  living goroutine of it. A sibling started later lies earlier in the
  termination order, hence is not left to stop, hence is gone (`StillToStop`).

Of shutdowns that may time out, in `SupervisorProofs`:

- `BootIsAllOrNothing`. `BootInv` follows the whole boot: while nothing is started
  everything is free (`BuildFirst`), what lives during the boot is in the map and
  its name is no longer to be started (`Booting`), what lives in the rollback is in the
  map with its name still to be stopped, or was cancelled and timed out
  (`RollingBack`). The child whose start failed is not up any more.
- `EveryChildStopped`, under `ReliableStarts`: a supervisor that is dead has left
  behind goroutines with a Timeout only. A goroutine that timed out still sends its
  end, and the loop may take it for the end of a later incarnation of the same
  name. So the claim is kept per name: `DoneWith(c)` (the entry is gone, or the
  name has a Timeout) is what a stop establishes (`StopsRest`, `EndsStopped`), a goroutine outside the
  map has a name with a Timeout (`OrphansTimed`), and a name to be started
  is done with (`StartsDone`). `HomeListed` shows that every list the loop walks
  through is made of the names in the map's specifications.

### Sub-tree

`TreeProofs`, for any number of siblings, of which some may exceed their Timeout or
forget `notifyStart`, and any number of workers in the sub-tree, under the assumption of the
module (`TreeAssumption`): the sub-tree is the only child whose start may fail, at
boot, and its own workers start and stop reliably.

- `ParentIsASupervisor`: `TreeSpec => Spec`. A step of the tree is one of the parent or
  leaves it alone (`ParentStep`), so whatever is proved of `Spec` holds of a parent. This is the
  safety half of `SubtreeIsAChild`.
- The supervisor in the child is an instance of `Supervisor`, so its invariants are
  those of `SupervisorProofs`, instantiated (`SubFacts`): its steps are steps of that
  supervisor (`SubIsASupervisor`), and `Run` puts it back to its initial state
  (`SubFactsAfterRun`).
- Of the parent (`ParentInv`): the claims of `EveryChildStopped` per name, unless the boot has
  failed, which is the end (`FailedStays`); a cancelled goroutine of the map is the one that is
  waited for (`CancelWaited`); and what is left to stop is the end of the termination
  order. `KeepingOne` concludes that no two goroutines run the sub-tree at once.
- Between the two (`Link`): `Attached` says for each phase of the child where the loop
  in it is and whether its context is done. It needs that the context of the child
  and of the sub-tree are cancelled in one step (`CancelStep`), that the sub-tree
  begins anew with its goroutine (`SpawnStep`), and that a parent does not move while
  a child starts (`WhileStarting`), or the failed start would be met by a restart.

`SubtreeTypeCorrect`, `SubtreeEndsWhole` and `SubtreeStopsWhole` follow. For the last:
a child that is being cancelled is the head of what is left to stop
(`CancelledIsNext`), the sub-tree started after it lies before it in the termination
order, is done with, and has no Timeout to have been given up on.

### Dynamic supervisor

`DynProofs`, for any number of clients:

- `DynTypeCorrect`. A step of the loop outside `processMsg` is one of `Supervisor` and
  keeps its types by `TypedStep` (`HomeStep`); the steps inside are treated one by one. The removal
  loop of `terminateChildMsg` is a recursive function of the turns; `LoopStates` shows by
  induction that its states exist, `RemovalTurns` that each stays in
  the array, `RemovedFromFacts` what the shortened slice is.
- `DynMapIsListed`, from `ListInv` and `RemovalKeepsOthers`: the removal keeps what has
  another name, also when the name was spawned twice.
- `DynNothingOrphaned`, under `ReliableStarts` (spawns may fail, restarts do not). The
  conjuncts of `DynInv` that are stated under `intact`: names are listed once and a
  spawn that is under way is of a name not listed (`NamesOnce`), which is what the
  history `intact` promises and the removal keeps (`RemovalDrops`: of names listed once the
  removed one is gone); `DynFrame`, the goroutine waited for, also
  in the three places of `processMsg`; and the claims of `EveryChildStopped` per name, to which
  `OneToDiscard` adds the goroutine whose failed start is to be received.
- `TerminatedStaysForgotten`, under `ReliableStarts`: in the loop and while one child is
  restarted no listed name was last reported as terminated; while all are restarted
  such a name is still to be started (`Forgotten`).

### Termination

`TerminationProofs`, for any number of callers: `TerminationTypeCorrect`, and
`ErrorReachesACaller` if there is a caller at all. Before the supervisor is rid of
its error no call is past its receive (`BeforeTheEnd`), and after that one caller
holds the error until it has announced and returned it (`OneHasTheError`).

### Tolerance and backoff

`RestartToleranceProofs`, for every maximum, window, clock and width of words:

- `ToleranceTypeCorrect`, `GivingUpIsJustified`, `ToleranceIsBounded` follow from
  `ToleranceInv`: the counter is the number of errors since the source of the window
  (`CountIsWindow`), all of them lie within one window (`WindowHolds`),
  and the window before this one had no more errors than the maximum and had
  elapsed when this one began (`PreviousElapsed`). The bound of twice the maximum
  is the sum of two windows.
- `BackoffTypeCorrect`, `ErrorsAreSpaced`, `WaitsAreBounded` follow from `WaitInv`: the
  supervisor goes on no later than the maximum after the last error or completion, and
  no sooner than the doubled wait (`NextSpaced`). The provers know nothing of
  powers, so `PowerDoubles` and `PowerGrows` come from counting: `2^n` is the number of
  subsets of `1 .. n`, and the subsets with and without `n + 1` are as many. `Wrapped` and
  `WaitDoubles` show that the wait in words is the doubled one unless it overflows.

### Notifier

`NotifierProofs`, for any number of notifiers and events, buffers of any size
(unbuffered included), and panics, hangs, timeouts, restarts and the end of the
notifier anywhere: `EventsInOrder` and `EveryLossIsKnown`. Neither property is inductive. `LineInv`
puts what a notifier has got, has in hand and has in its queue into one
increasing line, in front of what the entrypoint broadcasts and of what waits for
it (`InLine`, `EntryLine`); an event that is lost is in no other place (`LostApart`); and
one that was sent is in one of the places (`AllKnown`). Every step moves an event by
one place along the line, or out of it (`SkipNotifierStep`, `HandLost`).

`HealthReportIsRight`, if the criterion of the health check lets failures and starts
pass, for any number of supervisors and processes and any threshold. `HealthInv` has
three parts. `FailedThenStarted`: after a failure of a process nothing but failed
starts is said of it before a start. It is inductive only with `ToldInTurn`: what a
supervisor is about to say may follow what was last said, and nobody else is
about to speak of the same process. `HealthRemembers`: `failedEvs` has exactly the
handled failures after which no failure or start of the same process was
handled; that the next event is later than all of those is `LineInv`. When
nothing is lost or on its way, `RemembersDown` and a bijection between the
remembered failures and the processes that are down (`ReportOfDown`) conclude.

### Observed supervisor and matchers

`ObservedProofs`, for any number of workers, any strategy, order, tolerance and
number of failures the test may ask for:

- `ObservedIsSupervisor`: `ObservedSpec => Spec`. The supervisor of a test takes the steps
  of `Supervisor`, so that the theorems of `SupervisorProofs` hold of it.
- `EventsAreStored`, from `CollectorInv`: a call of `EventCollector` is about the last event
  there is, the buffer has everything but the event of that call (`Stored`), and
  there is one call at a time, because the supervisor notifies before it is dead
  and the goroutine that observes it afterwards (`InTurns`).
- `SnapshotIsComplete`, from `StoryInv`: the events of the supervisor are those with the
  name of the root (`RootNamed`); a worker fails only when the test asks it to, after
  the start of the root was told (`FailuresAsked`); a supervisor past its boot has
  told its start (`UpAnnounced`); the test goes on when it has seen the failure
  (`FailureAwaited`); and what is told last is of the root (`RootLast`).
- `PartialMatchEmbeds`, for lists of predicates and of events of any length: taking
  each predicate at the first event it accepts (`VerifyPartialMatch`) succeeds exactly
  if there are increasing places for all of them (`Embeds`). The turns of the loop are
  a function of the events seen (`MatchTurns`). After each the predicates taken have
  places among those events, and no choice of places has more of them there.
  `MatchersAreRight` applies it to what a test collected.

### How induction over data is done

The library states induction with an operator as parameter, which no installed
prover can instantiate. `SetInduction` of `SupervisorProofs` states it for a set of numbers
instead and is proved from the least element of a non-empty set; it is enough for
recursive functions over numbers such as the removal loop (`LoopStates`), and for
folds over lists: `IsFold` describes a fold by the list of its results and `FoldExists` shows
that there is one for every list, after which a claim about the fold is an
induction over its turns (`MatchTurns`). Nothing in the proved modules is a
`RECURSIVE` operator.

### Only model-checked

- Everything under fairness: `Revived`, `Halts`, `Answered`, `DynTerminates`,
  `TreeTerminates`, `SubtreeRevived`, the fairness part of `SubtreeIsAChild`,
  `PublisherReleased`, `PromptNotifierServed`, `ObservationReturns`,
  `EverybodyAnswered`. TLAPS does not reason about liveness under weak and
  strong fairness here.
- `DynNothingOrphaned` and `TerminatedStaysForgotten` are proved for restarts that start;
  what a failing one leaves behind is the subject of `DynAnswers` only as far as the
  supervisor still ends.
- `ReportedUpIsUp` of faulty children, and `SupervisionInv`, `OrderedStop`,
  `UpIsReportedUp` of children that time out: the first is checked by `FaultyChildren`.

## 6. Not modelled

- The composition of a dynamic supervisor with the trees it spawns
  (`dyn_subtree.go`): `NewDynSubtree` builds a OneForAll supervisor of a sub-tree
  and a worker, as in `SupervisionTree`, and `Spawn` of its `Spawner` is `BeginSpawn` with nobody
  refusing. Both at once multiply the states beyond what TLC finishes.
- A sub-tree whose start fails in a restart by its parent, see `SupervisionTree`.
- A child that calls `notifyStart` with an error and keeps running: `StartFails` and
  `SpawnFails` take it to return. In the code a failed spawn waits for it, possibly
  for ever (`internal/s/dyn_supervisor.go:61`).
- The other workers of `stest` are variations of `FailOnSignalWorker`, and
  `ObserveDynSupervisor` of `ObserveSupervisorWithNotifiers`.
- Error and event formatting (`error.go`, explanations, durations): text without state.
- The setters of options: the fields they set are the constants of the modules.
- Workers created with `CapturePanic` off: a panic ends the whole program.
- A parent context cancelled from outside: it is `Terminate` without the wait.
- `cap/`: aliases of the internal packages. `examples/`: a client program.
