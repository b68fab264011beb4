----------------------------- MODULE Supervisor -----------------------------
(***************************************************************************)
(* One capataz supervisor: the goroutine of runMonitorLoop                 *)
(* (internal/s/monitor.go) and the goroutines of its children              *)
(* (internal/c/start.go), which meet it on unbuffered channels:            *)
(*                                                                         *)
(*   startCh        DoStart waits for the child to call notifyStart        *)
(*   supNotifyChan  an ended child is received by the supervision loop     *)
(*   terminateCh    an ended child is received by Child.Terminate          *)
(*                                                                         *)
(* A send on an unbuffered channel is one joint step of its two sides.     *)
(* A child name can have several goroutines at once (incarnations): the    *)
(* one in the supChildren map, one being started, and those the supervisor *)
(* does not know any more.                                                 *)
(*                                                                         *)
(* A definition marked "Fault:" is no part of the specification: it is the *)
(* definition after it with a plausible bug, which the properties detect.  *)
(***************************************************************************)
EXTENDS Tolerance, Sequences, FiniteSets, SequencesExt

CONSTANTS
    Child,          \* child names
    Specs,          \* the child names in the order buildNodes returns them
    Order,          \* "LeftToRight" or "RightToLeft"
    Strategies,     \* the strategies to consider: "OneForOne", "OneForAll"
    Restart,        \* Child -> "Permanent", "Transient" or "Temporary"
    Timed,          \* children with Shutdown Timeout(d); the rest: Indefinitely
    HasBackoff,     \* restartBackoff has positive base and max
    WindowForever,  \* RestartWindow = 0: errors are never forgotten
    CanFailStart,   \* children whose start may fail (notifyStart(err) or panic)
    CanSkipNotify,  \* children that may return before calling notifyStart
    BuildCanFail,   \* buildNodes may return an error or panic
    CleanupCanFail, \* the resource cleanup may return an error
    Goroutine,      \* identities of child goroutines, reused after they exit
    MaxStale,       \* bound: goroutines outside the supervisor's books the
                    \* model keeps track of
    None            \* absence of a child or goroutine

ASSUME SupervisorAssumption ==
    /\ Specs \in Seq(Child)
    /\ \A i, j \in 1 .. Len(Specs) : Specs[i] = Specs[j] => i = j
    /\ Order \in {"LeftToRight", "RightToLeft"}
    /\ Strategies \subseteq {"OneForOne", "OneForAll"}
    /\ Restart \in [Child -> {"Permanent", "Transient", "Temporary"}]
    /\ Timed \subseteq Child
    /\ CanFailStart \subseteq Child
    /\ CanSkipNotify \subseteq Child
    /\ {HasBackoff, WindowForever, BuildCanFail, CleanupCanFail} \subseteq BOOLEAN
    /\ MaxStale \in Nat
    /\ None \notin Child \cup Goroutine
    /\ MaxRestartCount + 1 < CountLimit

VARIABLES
    specs,        \* supChildrenSpecs: what the supervisor is to start and stop
    strategy,     \* the strategy of its specification
    pc,           \* where the supervisor goroutine is in runMonitorLoop
    todo,         \* names still to start or to stop in the current loop
    waiting,      \* goroutine DoStart or Child.Terminate is blocked on
    source,       \* sourceCh of the restart in progress
    erred,        \* prevErr # nil in execRestartLoop
    children,     \* supChildren: name -> goroutine of the tracked incarnation
    phase,        \* what each goroutine is doing
    owner,        \* the child name each goroutine runs
    restartCount, \* restartToleranceManager.restartCount
    ctxDone,      \* supCtx was cancelled
    resources,    \* what buildNodes allocated
    outcome,      \* the error handed to onStart / onTerminate
    reported      \* last event notified for each child name

specVars == <<specs, strategy>>
supVars == <<pc, todo, waiting, source, erred>>
childVars == <<children, phase, owner>>
vars == <<specVars, supVars, childVars, restartCount, ctxDone, resources, outcome, reported>>

-----------------------------------------------------------------------------
StartOrder == IF Order = "LeftToRight" THEN specs ELSE Reverse(specs)

\* Fault: the order is not reversed.
TerminationOrderUnreversed == StartOrder
TerminationOrder == IF Order = "LeftToRight" THEN Reverse(specs) ELSE specs

Starting == {"boot", "restart"}
Stopping == {"siblings", "bootRollback", "restartRollback", "shutdown"}
Ended == {"dead", "panicked"}
Location == {"build", "loop", "tolerance", "backoff", "cleanup"}
              \cup Starting \cup Stopping \cup Ended

\* "free" is a goroutine that does not exist; "failing" and "completing" are
\* blocked in sendNotificationToSup with a non-nil and a nil error.
Phase == {"free", "starting", "running", "stopping", "failing", "completing"}

Event == {"None", "Started", "StartFailed", "Failed", "Completed", "Terminated"}

NoChildren == [c \in Child |-> None]
Tracked == {children[c] : c \in Child} \ {None}
Pending(g) == phase[g] \in {"failing", "completing"}
Up(g) == phase[g] \in {"starting", "running", "stopping"}
FreeGoroutines == {g \in Goroutine : phase[g] = "free" /\ g \notin Tracked}

\* Goroutines that exist but that the supervisor would not stop: their start
\* failed, their shutdown timed out, or their map entry was overwritten.
Untracked == {g \in Goroutine : phase[g] # "free" /\ g \notin Tracked \cup {waiting}}

\* A goroutine the supervisor gives up on stays in phase p, unless the bound
\* on such goroutines is reached and the model forgets it.
LeaveBehind(g, p) ==
    IF Cardinality(Untracked) < MaxStale
    THEN /\ phase' = [phase EXCEPT ![g] = p]
         /\ UNCHANGED owner
    ELSE /\ phase' = [phase EXCEPT ![g] = "free"]
         /\ owner' = [owner EXCEPT ![g] = None]

Exit(g) ==
    /\ phase' = [phase EXCEPT ![g] = "free"]
    /\ owner' = [owner EXCEPT ![g] = None]

Report(c, e) == reported' = [reported EXCEPT ![c] = e]

Init ==
    /\ specs = Specs
    /\ strategy \in Strategies
    /\ pc = "build"
    /\ todo = << >>
    /\ waiting = None
    /\ source = None
    /\ erred = FALSE
    /\ children = NoChildren
    /\ phase = [g \in Goroutine |-> "free"]
    /\ owner = [g \in Goroutine |-> None]
    /\ restartCount = 0
    /\ ctxDone = FALSE
    /\ resources = "none"
    /\ outcome = "ok"
    /\ reported = [c \in Child |-> "None"]

-----------------------------------------------------------------------------
(* Building the nodes, before the loop: rootStart, SupervisorSpec.run.     *)

BuildNodes ==
    /\ pc = "build"
    /\ pc' = "boot"
    /\ todo' = StartOrder
    /\ resources' = "allocated"
    /\ UNCHANGED <<specVars, waiting, source, erred, childVars, restartCount, ctxDone,
                   outcome, reported>>

BuildNodesFails ==
    /\ BuildCanFail
    /\ pc = "build"
    /\ pc' = "dead"
    /\ outcome' = "startFailed"
    /\ UNCHANGED <<specVars, todo, waiting, source, erred, childVars, restartCount,
                   ctxDone, resources, reported>>

-----------------------------------------------------------------------------
(* Starting children: startChildNodes over the start order at boot and in  *)
(* a OneForAll restart, a bare DoStart of one child in a OneForOne restart.*)

\* DoStart spawns the goroutine and blocks on its startCh.  Which of the free
\* identities the goroutine gets does not matter: the model takes any one.
SpawnChild ==
    /\ pc \in Starting /\ waiting = None /\ todo # << >>
    /\ FreeGoroutines # {}
    /\ waiting' = CHOOSE g \in FreeGoroutines : TRUE
    /\ phase' = [phase EXCEPT ![waiting'] = "starting"]
    /\ owner' = [owner EXCEPT ![waiting'] = Head(todo)]
    /\ UNCHANGED <<specVars, pc, todo, source, erred, children, restartCount,
                   ctxDone, resources, outcome, reported>>

\* Fault: the event is forgotten.
RecordStartSilently(g) ==
    /\ children' = [children EXCEPT ![owner[g]] = g]
    /\ UNCHANGED reported
RecordStart(g) ==
    /\ children' = [children EXCEPT ![owner[g]] = g]
    /\ Report(owner[g], "Started")

\* The child calls notifyStart(nil); the supervisor records it in the map.
StartSucceeds(g) ==
    /\ pc \in Starting /\ waiting = g /\ phase[g] = "starting"
    /\ phase' = [phase EXCEPT ![g] = "running"]
    /\ RecordStart(g)
    /\ waiting' = None
    /\ todo' = Tail(todo)
    /\ UNCHANGED <<specVars, pc, source, erred, owner, restartCount, ctxDone, resources,
                   outcome>>

\* Fault: the children started so far are forgotten.
AbortStartUnrolled(g, rollback) ==
    /\ pc' = rollback
    /\ todo' = << >>
    /\ Report(owner[g], "StartFailed")
    /\ UNCHANGED erred
\* startChildNodes stops the children started so far.
AbortStart(g, rollback) ==
    /\ pc' = rollback
    /\ todo' = TerminationOrder
    /\ Report(owner[g], "StartFailed")
    /\ UNCHANGED erred

\* The child calls notifyStart(err) or panics before notifying; its goroutine
\* goes on to return and blocks in sendNotificationToSup.
StartFails(g) ==
    /\ pc \in Starting /\ waiting = g /\ phase[g] = "starting"
    /\ owner[g] \in CanFailStart
    /\ \E p \in {"failing", "completing"} : LeaveBehind(g, p)
    /\ waiting' = None
    /\ \/ pc = "boot" /\ AbortStart(g, "bootRollback")
       \/ pc = "restart" /\ strategy = "OneForAll" /\ AbortStart(g, "restartRollback")
       \/ /\ pc = "restart" /\ strategy = "OneForOne"
          /\ pc' = "tolerance"
          /\ todo' = << >>
          /\ erred' = TRUE
          /\ UNCHANGED reported
    /\ UNCHANGED <<specVars, source, children, restartCount, ctxDone, resources, outcome>>

\* The child returns although it never called notifyStart.
ReturnsWithoutNotify(g) ==
    /\ waiting = g /\ phase[g] = "starting"
    /\ owner[g] \in CanSkipNotify
    /\ \E p \in {"failing", "completing"} : phase' = [phase EXCEPT ![g] = p]
    /\ UNCHANGED <<specVars, supVars, children, owner, restartCount, ctxDone, resources,
                   outcome, reported>>

AllStarted ==
    /\ pc \in Starting /\ waiting = None /\ todo = << >>
    /\ pc' = "loop"
    /\ source' = None
    /\ erred' = FALSE
    /\ UNCHANGED <<specVars, todo, waiting, childVars, restartCount, ctxDone, resources,
                   outcome, reported>>

-----------------------------------------------------------------------------
(* Stopping children: terminateChildNodes over the termination order.  An  *)
(* entry leaves `children' once its child is dealt with: the code keeps it *)
(* in a map every caller of terminateChildNodes discards right after.      *)

\* Fault: a OneForAll restart stops nobody.
SkippedAll(c) == pc = "siblings"
\* skipChild: the child a restart is about has ended already.
Skipped(c) == pc = "siblings" /\ c = source

SkipChild ==
    /\ pc \in Stopping /\ waiting = None /\ todo # << >>
    /\ children[Head(todo)] = None \/ Skipped(Head(todo))
    /\ todo' = Tail(todo)
    /\ UNCHANGED <<specVars, pc, waiting, source, erred, childVars, restartCount, ctxDone,
                   resources, outcome, reported>>

\* Child.Terminate cancels the child's context and waits.
CancelChild ==
    /\ pc \in Stopping /\ waiting = None /\ todo # << >>
    /\ children[Head(todo)] # None /\ ~Skipped(Head(todo))
    /\ LET g == children[Head(todo)] IN
          /\ waiting' = g
          /\ phase' = [phase EXCEPT ![g] = IF @ = "running" THEN "stopping" ELSE @]
    /\ UNCHANGED <<specVars, pc, todo, source, erred, children, owner, restartCount,
                   ctxDone, resources, outcome, reported>>

WaitIsOver ==
    /\ waiting' = None
    /\ todo' = Tail(todo)
    /\ children' = [children EXCEPT ![Head(todo)] = None]

\* A failed termination is part of the error of a shutdown, not of a restart.
TerminationFailed == outcome' = IF pc = "shutdown" THEN "crashed" ELSE outcome

\* Fault: the event is forgotten.
StopFailsSilently(c) == TerminationFailed /\ UNCHANGED reported
StopFails(c) == Report(c, "Failed") /\ TerminationFailed

\* The ended child is received on its terminateCh.
ChildStopped(g) ==
    /\ pc \in Stopping /\ waiting = g /\ Pending(g)
    /\ WaitIsOver
    /\ Exit(g)
    /\ IF phase[g] = "failing"
       THEN StopFails(Head(todo))
       ELSE Report(Head(todo), "Terminated") /\ UNCHANGED outcome
    /\ UNCHANGED <<specVars, pc, source, erred, restartCount, ctxDone, resources>>

\* Fault: terminateCh is left open.
ChildAlreadyGoneNever(g) == FALSE
\* terminateCh is closed: the child was received by the loop some time ago.
ChildAlreadyGone(g) ==
    /\ pc \in Stopping /\ waiting = g /\ phase[g] = "free"
    /\ WaitIsOver
    /\ UNCHANGED <<specVars, pc, source, erred, phase, owner, restartCount, ctxDone,
                   resources, outcome, reported>>

HasShutdownTimeout(c) == c \in Timed

\* The timer of waitTimeout fires, and is picked even if the child has ended in
\* the meantime: its goroutine, if there is one, is left behind.
ShutdownTimesOut(g) ==
    /\ pc \in Stopping /\ waiting = g
    /\ HasShutdownTimeout(Head(todo))
    /\ WaitIsOver
    /\ LeaveBehind(g, phase[g])
    /\ StopFails(Head(todo))
    /\ UNCHANGED <<specVars, pc, source, erred, restartCount, ctxDone, resources>>

\* Fault: the old map is kept.
RestartFromOldMap == todo' = StartOrder /\ UNCHANGED children
\* startChildNodes begins with an empty map.
RestartFromScratch == todo' = StartOrder /\ children' = NoChildren

\* What follows terminateChildNodes in each of its four callers.
AllStopped ==
    /\ pc \in Stopping /\ waiting = None /\ todo = << >>
    /\ \/ /\ pc = "siblings"
          /\ pc' = "restart"
          /\ RestartFromScratch
          /\ UNCHANGED <<erred, outcome>>
       \/ /\ pc = "bootRollback"
          /\ pc' = "dead"
          /\ outcome' = "startFailed"
          /\ UNCHANGED <<todo, children, erred>>
       \/ /\ pc = "restartRollback"
          /\ pc' = "tolerance"
          /\ erred' = TRUE
          /\ UNCHANGED <<todo, children, outcome>>
       \/ /\ pc = "shutdown"
          /\ pc' = "cleanup"
          /\ UNCHANGED <<todo, children, erred, outcome>>
    /\ UNCHANGED <<specVars, waiting, source, phase, owner, restartCount, ctxDone,
                   resources, reported>>

\* supRscCleanup and onTerminate, at the end of terminateSupervisor.
Cleanup ==
    /\ pc = "cleanup"
    /\ pc' = "dead"
    /\ resources' = "released"
    /\ \/ UNCHANGED outcome
       \/ CleanupCanFail /\ outcome' = "crashed"
    /\ UNCHANGED <<specVars, todo, waiting, source, erred, childVars, restartCount,
                   ctxDone, reported>>

-----------------------------------------------------------------------------
(* The supervision loop and the restart loop.                              *)

\* ctx.Done is picked by the select of the loop.
Shutdown ==
    /\ pc = "loop" /\ ctxDone
    /\ pc' = "shutdown"
    /\ todo' = TerminationOrder
    /\ UNCHANGED <<specVars, waiting, source, erred, childVars, restartCount, ctxDone,
                   resources, outcome, reported>>

\* Fault: Transient is taken for Permanent.
NeedsRestartTransient(c, p) == Restart[c] \in {"Permanent", "Transient"}
\* Fault: Permanent is taken for Transient.
NeedsRestartOnError(c, p) == Restart[c] # "Temporary" /\ p = "failing"
\* The tables of handleChildNodeError and handleChildNodeCompletion.
NeedsRestart(c, p) ==
    \/ Restart[c] = "Permanent"
    \/ Restart[c] = "Transient" /\ p = "failing"

EnterRestartLoop(g) ==
    /\ pc' = "tolerance"
    /\ source' = owner[g]
    /\ erred' = (phase[g] = "failing")
    /\ UNCHANGED children

\* handleChildNodeNotification.  The notification carries the child's name:
\* whatever incarnation the map has under that name is taken for the one that
\* ended.
Receive(g) ==
    /\ pc = "loop" /\ Pending(g) /\ children[owner[g]] # None
    /\ Exit(g)
    /\ Report(owner[g], IF phase[g] = "failing" THEN "Failed" ELSE "Completed")
    /\ IF NeedsRestart(owner[g], phase[g])
       THEN EnterRestartLoop(g)
       ELSE /\ children' = [children EXCEPT ![owner[g]] = None]
            /\ UNCHANGED <<pc, source, erred>>
    /\ UNCHANGED <<specVars, todo, waiting, restartCount, ctxDone, resources, outcome>>

\* "something horribly wrong happened here": the name is not in the map.
PanicUnknownChild(g) ==
    /\ pc = "loop" /\ Pending(g) /\ children[owner[g]] = None
    /\ pc' = "panicked"
    /\ Exit(g)
    /\ UNCHANGED <<specVars, todo, waiting, source, erred, children, restartCount, ctxDone,
                   resources, outcome, reported>>

\* The call of the strategy function.
BeginRestart ==
    \/ /\ strategy = "OneForOne"
       /\ pc' = "restart"
       /\ todo' = <<source>>
    \/ /\ strategy = "OneForAll"
       /\ pc' = "siblings"
       /\ todo' = TerminationOrder

\* Fault: the backoff, and with it the look at ctx.Done, is left out.
RestartAtOnce(count) == BeginRestart
\* The backoff is zero while no error was counted.
WaitThenRestart(count) ==
    IF HasBackoff /\ count > 0
    THEN pc' = "backoff" /\ UNCHANGED todo
    ELSE BeginRestart

\* Whether the window that began with the first counted error has elapsed
\* depends on the clock; the first error opens it, so it cannot have.
WithinWindow == IF WindowForever \/ restartCount = 0 THEN {TRUE} ELSE BOOLEAN

\* Fault: giving up is taken for a clean stop.
GiveUpCleanly ==
    /\ pc' = "shutdown"
    /\ todo' = TerminationOrder
    /\ UNCHANGED <<outcome, children>>
\* Fault: a nil map is returned with the error ("Very important!").
GiveUpEmptyHanded ==
    /\ pc' = "shutdown"
    /\ todo' = TerminationOrder
    /\ outcome' = "crashed"
    /\ children' = NoChildren
\* RestartToleranceReached goes to terminateSupervisor.
GiveUp ==
    /\ pc' = "shutdown"
    /\ todo' = TerminationOrder
    /\ outcome' = "crashed"
    /\ UNCHANGED children

CheckTolerance ==
    /\ pc = "tolerance" /\ erred
    /\ \E within \in WithinWindow :
          LET verdict == Check(restartCount, within) IN
          /\ restartCount' = CountAfter(restartCount, verdict)
          /\ IF verdict = "surpassed"
             THEN GiveUp
             ELSE /\ WaitThenRestart(restartCount')
                  /\ UNCHANGED <<outcome, children>>
    /\ UNCHANGED <<specVars, waiting, source, erred, phase, owner, ctxDone, resources, reported>>

\* A Permanent child completed: its restart is not counted.
RestartUncounted ==
    /\ pc = "tolerance" /\ ~erred
    /\ WaitThenRestart(restartCount)
    /\ UNCHANGED <<specVars, waiting, source, erred, childVars, restartCount, ctxDone,
                   resources, outcome, reported>>

BackoffElapses ==
    /\ pc = "backoff"
    /\ BeginRestart
    /\ UNCHANGED <<specVars, waiting, source, erred, childVars, restartCount, ctxDone,
                   resources, outcome, reported>>

\* The restart is given up; the loop's own select sees ctx.Done next, or
\* another notification.
BackoffCancelled ==
    /\ pc = "backoff" /\ ctxDone
    /\ pc' = "loop"
    /\ source' = None
    /\ erred' = FALSE
    /\ UNCHANGED <<specVars, todo, waiting, childVars, restartCount, ctxDone, resources,
                   outcome, reported>>

-----------------------------------------------------------------------------
(* The environment: client code of the children, and Terminate().          *)

\* The client function of g returns, with or without an error, on its own or
\* because its context was cancelled.
ReturnsFrom(g) ==
    /\ \E p \in {"failing", "completing"} : phase' = [phase EXCEPT ![g] = p]
    /\ UNCHANGED <<specVars, supVars, children, owner, restartCount, ctxDone, resources,
                   outcome, reported>>

Ends(g) == phase[g] = "running" /\ ReturnsFrom(g)
HonorsCancel(g) == phase[g] = "stopping" /\ ReturnsFrom(g)

Terminate ==
    /\ ~ctxDone
    /\ ctxDone' = TRUE
    /\ UNCHANGED <<specVars, supVars, childVars, restartCount, resources, outcome, reported>>

\* DoStart waits, without a timeout, for a child that has returned.
BlockedInStart == pc \in Starting /\ waiting # None /\ Pending(waiting)

\* The supervisor is gone, or blocked for ever: stuttering is not a deadlock.
Over == (pc \in Ended \/ BlockedInStart) /\ UNCHANGED vars

-----------------------------------------------------------------------------
Local ==
    \/ BuildNodes \/ BuildNodesFails
    \/ SpawnChild \/ AllStarted
    \/ SkipChild \/ CancelChild \/ AllStopped \/ Cleanup
    \/ CheckTolerance \/ RestartUncounted \/ BackoffElapses

Next ==
    \/ Local
    \/ Shutdown \/ BackoffCancelled
    \/ Terminate \/ Over
    \/ \E g \in Goroutine :
          \/ StartSucceeds(g) \/ StartFails(g) \/ ReturnsWithoutNotify(g)
          \/ Ends(g) \/ HonorsCancel(g)
          \/ ChildStopped(g) \/ ChildAlreadyGone(g) \/ ShutdownTimesOut(g)
          \/ Receive(g) \/ PanicUnknownChild(g)

(***************************************************************************)
(* The supervisor goroutine runs; a child that is starting decides, one    *)
(* with Shutdown Indefinitely honors its cancelled context, as the         *)
(* documentation demands; timers fire.  A select picks a ready case at     *)
(* random, so one that is ready again and again is picked: ctx.Done, and   *)
(* the senders blocked on supNotifyChan, which are queued.  The supervisor *)
(* goroutine and the child it waits for are never both able to move: one   *)
(* condition covers them.                                                  *)
(***************************************************************************)
Progress ==
    \/ Local
    \/ \E g \in Goroutine :
          \/ StartSucceeds(g) \/ StartFails(g) \/ ReturnsWithoutNotify(g)
          \/ owner[g] \notin Timed /\ HonorsCancel(g)
          \/ ChildStopped(g) \/ ChildAlreadyGone(g) \/ ShutdownTimesOut(g)
LoopFairness == WF_vars(Progress) /\ SF_vars(Shutdown) /\ SF_vars(BackoffCancelled)
Received(c) == \E g \in Goroutine : owner[g] = c /\ (Receive(g) \/ PanicUnknownChild(g))
Fairness == LoopFairness /\ \A c \in Child : SF_vars(Received(c))

Spec == Init /\ [][Next]_vars
FairSpec == Spec /\ Fairness
-----------------------------------------------------------------------------
(* Properties.                                                             *)

\* Every variable stays in the range the code gives it.
TypeOK ==
    /\ specs \in Seq(Child)
    /\ strategy \in Strategies
    /\ pc \in Location
    /\ todo \in Seq(Child)
    /\ waiting \in Goroutine \cup {None}
    /\ source \in Child \cup {None}
    /\ erred \in BOOLEAN
    /\ children \in [Child -> Goroutine \cup {None}]
    /\ phase \in [Goroutine -> Phase]
    /\ owner \in [Goroutine -> Child \cup {None}]
    /\ restartCount \in 0 .. MaxRestartCount
    /\ ctxDone \in BOOLEAN
    /\ resources \in {"none", "allocated", "released"}
    /\ outcome \in {"ok", "crashed", "startFailed"}
    /\ reported \in [Child -> Event]

\* A goroutine that exists is the one in the supervisor's map under its own
\* name, or the one DoStart is waiting for: the map is never overwritten while
\* its goroutine lives, no end is attributed to another incarnation, and
\* nothing runs that a shutdown would not reach.
NoOrphan ==
    \A g \in Goroutine :
        phase[g] # "free" =>
            \/ owner[g] \in Child /\ children[owner[g]] = g
            \/ pc \in Starting /\ waiting = g

\* The loop never meets a notification whose child it does not know
\* (monitor.go, "something horribly wrong happened here").
NeverPanics == pc # "panicked"

\* A child is cancelled only when every sibling started after it is gone: the
\* stop order is the reverse of the start order in a shutdown, in the rollback
\* of a failed start and in a OneForAll restart alike.
OrderedStop ==
    \A i, j \in 1 .. Len(StartOrder) :
        LET c == children[StartOrder[i]]
            d == children[StartOrder[j]]
        IN  (i < j /\ c # None /\ phase[c] = "stopping") =>
                d = None \/ ~Up(d)

\* While startChildNodes runs, every child before the next one in the start
\* order is in the map with a goroutine of its own that has started and that
\* nobody has cancelled: it runs, or its end waits to be received, so a child
\* may rely on those declared before it.  The others have no entry: a OneForAll
\* restart takes none over from before.  That is said of the supervisor's map
\* and of the goroutines in it.  A goroutine that a OneForAll restart has left
\* behind, because its shutdown timed out or a late notification was taken for
\* its end, may run next to them.
HasStarted(c) ==
    /\ children[c] # None /\ owner[children[c]] = c
    /\ phase[children[c]] \in {"running", "failing", "completing"}
StartsInOrder ==
    (pc = "boot" \/ (pc = "restart" /\ strategy = "OneForAll")) =>
        \A i \in 1 .. Len(StartOrder) :
            IF i <= Len(StartOrder) - Len(todo)
            THEN HasStarted(StartOrder[i])
            ELSE children[StartOrder[i]] = None

\* A child last reported as started is one the loop supervises and whose end
\* it has not seen; once the supervisor is dead, no child is left reported so.
ReportedUpIsUp ==
    \A c \in Child : reported[c] = "Started" =>
        /\ pc = "loop" => children[c] # None /\ phase[children[c]] # "free"
        /\ pc # "dead"

\* Conversely, a child the loop supervises and whose end it has not seen was
\* last reported as started: no spurious failure was announced.
UpIsReportedUp ==
    pc = "loop" =>
        \A c \in Child :
            (children[c] # None /\ phase[children[c]] # "free") => reported[c] = "Started"

\* The resources shared by the children are released only when every child
\* goroutine has come to its end, whichever way the supervisor got there.
CleanupLast ==
    resources = "released" => \A g \in Goroutine : phase[g] = "free"

\* A supervisor that fails to boot leaves no child up, except one that was told
\* to stop and did not do so within its Timeout.
BootAllOrNothing ==
    (pc = "dead" /\ outcome = "startFailed") =>
        \A g \in Goroutine : Up(g) => phase[g] = "stopping" /\ owner[g] \in Timed

\* A dead supervisor has stopped every child that honors its context
\* (cap/doc.go: "it will stop each child node in reverse order").
StopsEveryChild ==
    pc = "dead" => \A g \in Goroutine : Up(g) => owner[g] \in Timed

\* With OneForOne, a Temporary child that ended and a Transient child that
\* completed are not started again (internal/c/spec.go, Restart).
Finished(c) ==
    \/ Restart[c] = "Temporary" /\ reported[c] \in {"Failed", "Completed"}
    \/ Restart[c] = "Transient" /\ reported[c] = "Completed"
RestartPolicy ==
    [][strategy = "OneForOne" =>
          \A c \in Child : Finished(c) => reported'[c] # "Started"]_vars

\* A Permanent child that ended runs again, unless the supervisor itself ends.
Revived ==
    \A c \in Child :
        (Restart[c] = "Permanent" /\ children[c] # None /\ Pending(children[c]))
            ~> (pc \in Ended
                  \/ (children[c] # None /\ phase[children[c]] = "running"))

-----------------------------------------------------------------------------
(* The abstract supervisor, and how the variables above appear in it.      *)

Stage ==
    IF pc \in {"build", "boot", "bootRollback"} THEN "starting"
    ELSE IF pc \in {"shutdown", "cleanup"} THEN "stopping"
    ELSE IF pc \in Ended THEN "over"
    ELSE "up"

Incarnations == [c \in Child |-> {g \in Goroutine : phase[g] # "free" /\ owner[g] = c}]

Contract == INSTANCE SupervisorContract WITH
    stage <- Stage,
    procs <- Incarnations,
    asked <- ctxDone,
    verdict <- outcome

\* A supervisor of reliable children does what SupervisorContract says: no two
\* goroutines under a name, a start that is reported is complete, nothing is
\* started during or after a stop, nothing outlives it, and it ends without an
\* error only when it was told to: giving up is never taken for a clean stop.
ImplementsContract == Contract!Spec

\* And when it is told to terminate, it comes to its end.
Halts == Contract!Halts

-----------------------------------------------------------------------------
(* Nothing escapes a supervisor of reliable children: a start that is      *)
(* attempted succeeds, and a shutdown waits until the child has ended.     *)
(* The strategy, the order, the restart kinds, the tolerance, the backoff  *)
(* and the number of children are arbitrary; a child may even forget to    *)
(* call notifyStart.                                                       *)

ReliableChildren == CanFailStart = {} /\ Timed = {}

\* The supervisor is not dynamic: its specification lists every child.
StaticChildren == \A c \in Child : \E i \in 1 .. Len(Specs) : Specs[i] = c

AllFree == \A g \in Goroutine : phase[g] = "free"

\* The map has no living goroutine under the name c.
EntryDone(c) == children[c] = None \/ phase[children[c]] = "free"

\* Which goroutine the supervisor is blocked on, in which loop.
WaitingFor ==
    waiting # None =>
        \/ pc \in Starting /\ phase[waiting] # "free" /\ owner[waiting] = Head(todo)
        \/ pc \in Stopping /\ children[Head(todo)] = waiting

\* Only the goroutine DoStart waits for is starting.
OnlyWaitedStart ==
    \A g \in Goroutine : phase[g] = "starting" => pc \in Starting /\ waiting = g

\* What is still to be started is not running, and is listed once.
StillToStart ==
    pc \in Starting =>
        /\ \A i \in 1 .. Len(todo) : EntryDone(todo[i])
        /\ \A i, j \in 1 .. Len(todo) : todo[i] = todo[j] => i = j

\* Whatever is alive while children are stopped is still to be stopped.
StillToStop ==
    pc \in Stopping =>
        \A c \in Child : EntryDone(c) \/ \E i \in 1 .. Len(todo) : todo[i] = c

\* A restart is about a child that has ended; siblings are stopped for a
\* OneForAll restart only.
SourceDone ==
    /\ pc = "siblings" => strategy = "OneForAll"
    /\ pc \in {"tolerance", "backoff", "siblings"} => EntryDone(source)
    /\ (pc = "restart" /\ strategy = "OneForOne") =>
           \A i \in 1 .. Len(todo) : todo[i] = source

\* Before the first child is started and after the last was stopped, there is
\* no goroutine; the resources go last.
Quiet ==
    /\ pc \in {"build", "cleanup", "dead"} => AllFree
    /\ resources = "released" => pc = "dead"

\* The invariant NoOrphan, NeverPanics and CleanupLast follow from, inductive
\* together with the types: what the supervisor goroutine knows at each point
\* of runMonitorLoop about the goroutines of its children.
SupervisionInv ==
    /\ NoOrphan
    /\ NeverPanics
    /\ WaitingFor
    /\ OnlyWaitedStart
    /\ StillToStart
    /\ StillToStop
    /\ SourceDone
    /\ Quiet
=============================================================================
