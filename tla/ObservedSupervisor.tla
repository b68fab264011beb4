-------------------------- MODULE ObservedSupervisor -------------------------
(***************************************************************************)
(* A test of the library at work (internal/stest, smtest): the goroutine   *)
(* of ObserveSupervisorWithNotifiers starts the supervisor of Supervisor   *)
(* with an event manager as its notifier, runs a callback that makes a     *)
(* worker fail, terminates the supervisor and returns the events.          *)
(*                                                                         *)
(* Every child is a FailOnSignalWorker.  The events of the children are    *)
(* notified by the supervisor's goroutine ("sup"), which is in the         *)
(* EventCollector until the event is stored; those of the root supervisor  *)
(* about its end by whoever called Start or Terminate ("test").            *)
(*                                                                         *)
(* The context given to ObserveSupervisor is not cancelled before it       *)
(* returns: then events would be dropped and WaitTill would never return.  *)
(***************************************************************************)
EXTENDS Supervisor, EventManager, EventCriteria

CONSTANTS
    Root,           \* the name of the supervisor
    TotalErrCount,  \* of the FailOnSignalWorkers
    Predicates      \* bound: predicates the matchers are tried with

ASSUME ObservedAssumption ==
    /\ Name = Child \cup {Root} /\ Root \notin Child
    /\ Reader = {"observer", "callback"}
    /\ CanFailStart = {} /\ CanSkipNotify = {} /\ Timed = {}
    /\ TotalErrCount \in Nat \ {0}

VARIABLES
    test,       \* where the goroutine of the test is
    notified,   \* history: the events passed to EventCollector
    sending,    \* per goroutine: the event it is in EventCollector with, or 0
    signalled,  \* startCh of the workers is closed
    failCount   \* currentFailCount, per worker

testVars == <<test, signalled, failCount>>
eventVars == <<notified, sending>>
observedVars == <<vars, managerVars, testVars, eventVars>>

ObservedInit ==
    /\ Init /\ ManagerInit
    /\ test = "start"
    /\ notified = << >>
    /\ sending = [sup |-> 0, test |-> 0]
    /\ signalled = FALSE
    /\ failCount = [c \in Child |-> 0]

-----------------------------------------------------------------------------
(* Events.                                                                 *)

TagOf == [Started |-> "ProcessStarted", StartFailed |-> "ProcessStartFailed",
          Failed |-> "ProcessFailed", Completed |-> "ProcessCompleted",
          Terminated |-> "ProcessTerminated"]
EventOf(name, e) ==
    [tag |-> TagOf[e], nodeTag |-> IF name = Root THEN "Supervisor" ELSE "Worker",
     name |-> name, err |-> IF e \in {"Failed", "StartFailed"} THEN "other" ELSE "none"]

\* EventCollector is called; the goroutine is in it until the event is stored.
Collect(who, ev) ==
    /\ notified' = Append(notified, ev)
    /\ sending' = [sending EXCEPT ![who] = Len(notified')]

\* What the supervisor notifies in a step: about a child, or that it is up
\* (supervisorStarted, before onStart).
SupervisorNotifies ==
    IF reported' # reported
    THEN \E c \in Child : /\ reported'[c] # reported[c]
                          /\ Collect("sup", EventOf(c, reported'[c]))
    ELSE IF pc = "boot" /\ pc' = "loop"
    THEN Collect("sup", EventOf(Root, "Started"))
    ELSE UNCHANGED eventVars

\* A step of the supervisor's goroutine.
SupervisorDoes(action) ==
    /\ sending["sup"] = 0
    /\ action
    /\ SupervisorNotifies
    /\ UNCHANGED <<managerVars, testVars>>

SendToCollector(who) ==
    /\ sending[who] # 0 /\ SendEvent(sending[who])
    /\ UNCHANGED <<vars, testVars, eventVars>>

EventCollected(who) ==
    /\ sending[who] # 0 /\ EventProcessed(sending[who])
    /\ sending' = [sending EXCEPT ![who] = 0]
    /\ UNCHANGED <<vars, testVars, notified>>

-----------------------------------------------------------------------------
(* FailOnSignalWorker.                                                     *)

MayFail(c) == failCount[c] < TotalErrCount

WorkerFails(g) ==
    /\ signalled /\ phase[g] \in {"running", "stopping"} /\ MayFail(owner[g])
    /\ Ends(g) \/ HonorsCancel(g)
    /\ phase'[g] = "failing"
    /\ failCount' = [failCount EXCEPT ![owner[g]] = @ + 1]
    /\ UNCHANGED <<managerVars, eventVars, test, signalled>>

WorkerIsDone(g) ==
    /\ HonorsCancel(g)
    /\ phase'[g] = "completing"
    /\ UNCHANGED <<managerVars, eventVars, testVars>>

-----------------------------------------------------------------------------
(* The goroutine of the test.                                              *)

Goes(from, to) == test = from /\ sending["test"] = 0 /\ test' = to

BootFailed == pc = "dead" /\ outcome = "startFailed"
\* onStart(nil) closes startCh after supervisorStarted.
BootDone ==
    /\ pc \notin {"build", "boot", "bootRollback"} /\ ~BootFailed
    /\ \A i \in 1 .. Len(notified) : notified[i].name = Root => sending["sup"] # i

StartReturns ==
    /\ Goes("start", "waitStart") /\ BootDone
    /\ UNCHANGED <<vars, managerVars, eventVars, signalled, failCount>>

StartReturnsError ==
    /\ Goes("start", "waitStartFailed") /\ BootFailed
    /\ Collect("test", EventOf(Root, "StartFailed"))
    /\ UNCHANGED <<vars, managerVars, signalled, failCount>>

\* One turn of WaitTill.
WaitTill(r, pred, from, to) ==
    /\ ReadEvent(r)
    /\ Goes(from, IF notified[evBuffer[reader[r].evIx + 1]] \in pred THEN to ELSE from)
    /\ UNCHANGED <<vars, eventVars, signalled, failCount>>

\* The iterator waits on the condition variable, in whatever WaitTill.
IteratorWaits(r, froms) ==
    /\ test \in froms /\ sending["test"] = 0 /\ WaitForEvent(r)
    /\ UNCHANGED <<vars, testVars, eventVars>>

WorkerFailed == AndP(<<{ev \in EventRecord : ev.tag = "ProcessFailed"},
                       {ev \in EventRecord : ev.nodeTag = "Worker"}>>)

WaitsForRoot(from, to) == WaitTill("observer", EHasRuntimeName(Root), from, to)
WaitsForFailure == WaitTill("callback", WorkerFailed, "callback", "terminate")

\* failWorker(true)
Signal ==
    /\ Goes("signal", "callback")
    /\ signalled' = TRUE
    /\ UNCHANGED <<vars, managerVars, eventVars, failCount>>

CallTerminate ==
    /\ Goes("terminate", "terminating")
    /\ Terminate
    /\ UNCHANGED <<managerVars, eventVars, signalled, failCount>>

\* Fault: Terminate does not wait for the children.
SupervisorOverEarly == pc \in {"shutdown", "cleanup", "dead"}
\* terminateCh has an error, or is closed.
SupervisorOver == pc = "dead"

TerminateReturns ==
    /\ Goes("terminating", "waitEnd") /\ SupervisorOver
    /\ Collect("test", EventOf(Root, IF outcome = "ok" THEN "Terminated" ELSE "Failed"))
    /\ UNCHANGED <<vars, managerVars, signalled, failCount>>

\* The deferred stop() ends the collector.
Stop ==
    /\ test = "done" /\ StopCollector
    /\ UNCHANGED <<vars, testVars, eventVars>>

\* Stuttering is not a deadlock.
TestIsOver == test = "done" /\ collector = "gone" /\ UNCHANGED observedVars

Test ==
    \/ StartReturns \/ StartReturnsError
    \/ WaitsForRoot("waitStart", "signal") \/ WaitsForRoot("waitStartFailed", "done")
    \/ Signal \/ WaitsForFailure
    \/ CallTerminate \/ TerminateReturns
    \/ WaitsForRoot("waitEnd", "done")

-----------------------------------------------------------------------------
SupervisorSteps(g) ==
    \/ StartSucceeds(g) \/ ChildStopped(g) \/ ChildAlreadyGone(g)

ObservedNext ==
    \/ SupervisorDoes(Local) \/ SupervisorDoes(Shutdown)
    \/ SupervisorDoes(BackoffCancelled)
    \/ \E g \in Goroutine :
          \/ SupervisorDoes(SupervisorSteps(g)) \/ SupervisorDoes(Receive(g))
          \/ WorkerFails(g) \/ WorkerIsDone(g)
    \/ \E who \in {"sup", "test"} : SendToCollector(who) \/ EventCollected(who)
    \/ StoreEvent /\ UNCHANGED <<vars, testVars, eventVars>>
    \/ Test \/ Stop
    \/ IteratorWaits("observer", {"waitStart", "waitStartFailed", "waitEnd"})
    \/ IteratorWaits("callback", {"callback"})
    \/ TestIsOver

\* As in Supervisor; the collector and the test run.
ObservedFairness ==
    /\ WF_observedVars(SupervisorDoes(Local \/ \E g \in Goroutine : SupervisorSteps(g)))
    /\ SF_observedVars(SupervisorDoes(Shutdown))
    /\ SF_observedVars(SupervisorDoes(BackoffCancelled))
    /\ \A g \in Goroutine :
          /\ SF_observedVars(SupervisorDoes(Receive(g)))
          /\ WF_observedVars(WorkerFails(g) \/ WorkerIsDone(g))
    /\ WF_observedVars(\E who \in {"sup", "test"} : SendToCollector(who) \/ EventCollected(who))
    /\ WF_observedVars(StoreEvent /\ UNCHANGED <<vars, testVars, eventVars>>)
    /\ WF_observedVars(Test)

ObservedSpec == ObservedInit /\ [][ObservedNext]_observedVars /\ ObservedFairness

-----------------------------------------------------------------------------
(* Properties.                                                             *)

\* EventCollector returns when the event is in the buffer: the events are there
\* in the order of the calls, all but the one that is being collected.
StoredWhenReturned ==
    \A i \in 1 .. Len(notified) :
        \/ i \in {sending["sup"], sending["test"]}
        \/ i <= Len(evBuffer) /\ evBuffer[i] = i

\* The events a test gets are all there are, and the last one is about the
\* root ("the event from root must be the last event reported"); a test whose
\* supervisor started finds the failure it asked for.
Collected == [i \in 1 .. Len(evBuffer) |-> notified[evBuffer[i]]]
SnapshotComplete ==
    test = "done" =>
        /\ Collected = notified
        /\ Last(Collected).name = Root
        /\ signalled => VerifyPartialMatch(
               <<EHasRuntimeName(Root), WorkerFailed, EHasRuntimeName(Root)>>, Collected) = << >>

\* AssertPartialMatch accepts the collected events exactly if they contain, in
\* order, one event for each predicate; what AssertExactMatch accepts, it
\* accepts too.
Embeds(preds, given) ==
    \E at \in [1 .. Len(preds) -> 1 .. Len(given)] :
        /\ \A i \in 1 .. Len(preds) : given[at[i]] \in preds[i]
        /\ \A i, j \in 1 .. Len(preds) : i < j => at[i] < at[j]
MatchersAgree ==
    test = "done" =>
        \A preds \in UNION {[1 .. k -> Predicates] : k \in 0 .. 3} :
            /\ (VerifyPartialMatch(preds, Collected) = << >>) <=> Embeds(preds, Collected)
            /\ VerifyExactMatch(preds, Collected) => VerifyPartialMatch(preds, Collected) = << >>

\* A test ends: no iterator waits for ever for an event that was notified, and
\* the collector stops nobody.
ObservationReturns == <>(test = "done")
=============================================================================
