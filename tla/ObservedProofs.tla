--------------------------- MODULE ObservedProofs ---------------------------
(***************************************************************************)
(* Proofs about ObservedSupervisor, for every value of its constants: any  *)
(* number of workers, any strategy, order, tolerance and failures.         *)
(*                                                                         *)
(*   ObservedIsSupervisor  ObservedSpec => Spec                            *)
(*   EventsAreStored       ObservedSpec => []StoredWhenReturned            *)
(*   SnapshotIsComplete    ObservedSpec => []SnapshotComplete              *)
(*   PartialMatchEmbeds    what verifyPartialMatch decides, for any lists  *)
(*   MatchersAreRight      ObservedSpec => []MatchersAgree                 *)
(*                                                                         *)
(* The first lets the theorems of SupervisorProofs be used of a test.  For *)
(* the second the supervisor and the test call EventCollector in turns     *)
(* (CollectorInv).  For the third the events tell what was done            *)
(* (StoryInv): a worker fails when the test asks it to, which is after the *)
(* root has told its start, and the root tells its end last.  A fold is    *)
(* reasoned about as the list of its results, which exists for lists of    *)
(* every length (FoldExists).                                              *)
(***************************************************************************)
EXTENDS ObservedSupervisor, SupervisorProofs

-----------------------------------------------------------------------------
(* The steps of the supervisor, as the event manager sees them.            *)

Reports == {"Started", "StartFailed", "Failed", "Completed", "Terminated"}

\* The goroutine of the supervisor takes a step.
SupervisorActs ==
    \/ SupervisorDoes(Local) \/ SupervisorDoes(Shutdown) \/ SupervisorDoes(BackoffCancelled)
    \/ \E g \in Goroutine :
          SupervisorDoes(SupervisorSteps(g)) \/ SupervisorDoes(Receive(g))

\* The events carry the tag of what is reported.
LEMMA EventFacts ==
    ASSUME NEW name \in Name, NEW e \in Reports
    PROVE  /\ EventOf(name, e) \in EventRecord
           /\ EventOf(name, e).name = name
           /\ EventOf(name, e).nodeTag = IF name = Root THEN "Supervisor" ELSE "Worker"
           /\ EventOf(name, e).tag = "ProcessFailed" <=> e = "Failed"
  BY DEF EventOf, EventRecord, TagOf, Tag, Reports

\* A step that reports nothing of the children.
LEMMA QuietNotifies ==
    ASSUME SupervisorNotifies, UNCHANGED reported
    PROVE  IF pc = "boot" /\ pc' = "loop" THEN Collect("sup", EventOf(Root, "Started"))
                                          ELSE UNCHANGED eventVars
  BY DEF SupervisorNotifies

\* A step that reports of a child.
LEMMA ReportNotifies ==
    ASSUME SupervisorNotifies, reported \in [Child -> Event], NEW c \in Child, NEW e \in Reports,
           Report(c, e), pc # "boot" \/ pc' # "loop"
    PROVE  UNCHANGED eventVars \/ Collect("sup", EventOf(c, e))
<1>1. CASE reported' = reported
  BY <1>1, QuietNotifies
<1>2. CASE reported' # reported
  <2>1. PICK d \in Child : reported'[d] # reported[d] /\ Collect("sup", EventOf(d, reported'[d]))
    BY <1>2 DEF SupervisorNotifies
  <2>2. d = c /\ reported'[d] = e
    BY <2>1 DEF Report
  <2> QED
    BY <2>1, <2>2
<1> QED
  BY <1>1, <1>2

\* What such a step does to the events, and that it makes no child fail.
EventSent(name, e) ==
    /\ Collect("sup", EventOf(name, e))
    /\ e = "Failed" => \E g \in Goroutine : phase[g] = "failing"

LEMMA SupervisorStep ==
    ASSUME TypeInv, SupervisorActs
    PROVE  /\ Next
           /\ sending["sup"] = 0 /\ pc # "dead"
           /\ UNCHANGED <<managerVars, testVars>>
           /\ \/ UNCHANGED eventVars
              \/ pc' # "dead" /\ \E name \in Name, e \in Reports : EventSent(name, e)
           /\ (pc = "boot" /\ pc' = "loop") => Collect("sup", EventOf(Root, "Started"))
           /\ \A g \in Goroutine : phase'[g] = "failing" => phase[g] = "failing"
<1> DEFINE Sent == \/ UNCHANGED eventVars
                   \/ pc' # "dead" /\ \E name \in Name, e \in Reports : EventSent(name, e)
           Up1 == (pc = "boot" /\ pc' = "loop") => Collect("sup", EventOf(Root, "Started"))
           Kept == \A g \in Goroutine : phase'[g] = "failing" => phase[g] = "failing"
<1>0. /\ sending["sup"] = 0 /\ SupervisorNotifies /\ UNCHANGED <<managerVars, testVars>>
      /\ Next
  BY DEF SupervisorActs, SupervisorDoes, SupervisorSteps, Next
<1>t. /\ reported \in [Child -> Event] /\ phase \in [Goroutine -> Phase]
      /\ Root \in Name /\ Child \subseteq Name /\ "Started" \in Reports
  BY ObservedAssumption DEF TypeInv, Typed, TypeOK, Reports
<1>1. ASSUME UNCHANGED reported, pc # "dead", Kept
      PROVE  pc # "dead" /\ Sent /\ Up1 /\ Kept
  <2>1. CASE pc = "boot" /\ pc' = "loop"
    <3>1. Collect("sup", EventOf(Root, "Started"))
      BY <1>0, <1>1, <2>1, QuietNotifies
    <3>2. pc' # "dead" /\ EventSent(Root, "Started")
      BY <2>1, <3>1 DEF EventSent
    <3> QED
      BY <1>1, <1>t, <3>1, <3>2
  <2>2. CASE ~(pc = "boot" /\ pc' = "loop")
    BY <1>0, <1>1, <2>2, QuietNotifies
  <2> QED
    BY <2>1, <2>2
<1>2. ASSUME NEW c \in Child, NEW e \in Reports, Report(c, e), pc # "dead", pc' # "dead", Kept,
             pc # "boot" \/ pc' # "loop",
             e = "Failed" => \E g \in Goroutine : phase[g] = "failing"
      PROVE  pc # "dead" /\ Sent /\ Up1 /\ Kept
  <2>1. UNCHANGED eventVars \/ Collect("sup", EventOf(c, e))
    BY <1>0, <1>2, <1>t, ReportNotifies
  <2>2. UNCHANGED eventVars \/ EventSent(c, e)
    BY <1>2, <2>1 DEF EventSent
  <2> QED
    BY <1>2, <1>t, <2>2
<1> HIDE DEF Sent, Up1
<1>q. ASSUME Local \/ Shutdown \/ BackoffCancelled
      PROVE  pc # "dead" /\ Sent /\ Up1 /\ Kept
  <2>1. UNCHANGED reported /\ pc # "dead"
    BY <1>q DEF Local, BuildNodes, BuildNodesFails, SpawnChild, AllStarted, SkipChild, CancelChild,
       AllStopped, Cleanup, CheckTolerance, RestartUncounted, BackoffElapses, Shutdown,
       BackoffCancelled, Starting, Stopping
  <2>2. Kept
    <3>1. CASE SpawnChild
      BY <1>t, <3>1 DEF SpawnChild
    <3>2. CASE CancelChild
      BY <1>t, <3>2 DEF CancelChild
    <3>3. CASE UNCHANGED phase
      BY <3>3
    <3>4. SpawnChild \/ CancelChild \/ UNCHANGED phase
      BY <1>q DEF Local, BuildNodes, BuildNodesFails, AllStarted, SkipChild, AllStopped, Cleanup,
         CheckTolerance, RestartUncounted, BackoffElapses, Shutdown, BackoffCancelled, childVars
    <3> QED
      BY <3>1, <3>2, <3>3, <3>4
  <2> HIDE DEF Kept
  <2> QED
    BY <1>1, <2>1, <2>2
<1>s. ASSUME NEW g \in Goroutine, StartSucceeds(g)
      PROVE  pc # "dead" /\ Sent /\ Up1 /\ Kept
  <2>1. owner[g] \in Child /\ Report(owner[g], "Started") /\ UNCHANGED pc /\ pc # "dead"
    BY <1>s DEF StartSucceeds, RecordStart, TypeInv, Typed, OwnerKnown, Starting
  <2>2. Kept
    BY <1>s, <1>t DEF StartSucceeds
  <2>3. "Started" # "Failed"
    OBVIOUS
  <2> QED
    BY <1>2, <1>t, <2>1, <2>2, <2>3
<1>c. ASSUME NEW g \in Goroutine, ChildStopped(g)
      PROVE  pc # "dead" /\ Sent /\ Up1 /\ Kept
  <2>1. Head(todo) \in Child
    BY <1>c, NoneIsFresh DEF ChildStopped, TypeInv, Typed, TypeOK, WaitingKnown
  <2>2. Kept /\ UNCHANGED pc /\ pc # "dead"
    BY <1>c, <1>t DEF ChildStopped, Exit, Stopping
  <2>3. PICK e \in Reports : Report(Head(todo), e) /\ (e = "Failed" => phase[g] = "failing")
    BY <1>c DEF ChildStopped, StopFails, Reports
  <2> QED
    BY <1>2, <2>1, <2>2, <2>3
<1>a. ASSUME NEW g \in Goroutine, ChildAlreadyGone(g)
      PROVE  pc # "dead" /\ Sent /\ Up1 /\ Kept
  BY <1>1, <1>a DEF ChildAlreadyGone, Stopping
<1>r. ASSUME NEW g \in Goroutine, Receive(g)
      PROVE  pc # "dead" /\ Sent /\ Up1 /\ Kept
  <2>1. owner[g] \in Child /\ pc = "loop" /\ pc' \in {"loop", "tolerance"}
    BY <1>r DEF Receive, Pending, EnterRestartLoop, TypeInv, Typed, OwnerKnown
  <2>2. Kept
    BY <1>r, <1>t DEF Receive, Exit
  <2>3. PICK e \in Reports : Report(owner[g], e) /\ (e = "Failed" => phase[g] = "failing")
    BY <1>r DEF Receive, Reports
  <2> QED
    BY <1>2, <2>1, <2>2, <2>3
<1> QED
  BY <1>0, <1>q, <1>s, <1>c, <1>a, <1>r DEF SupervisorActs, SupervisorDoes, SupervisorSteps, Sent, Up1
\* Whoever observes a supervisor does to it what its own specification allows:
\* whatever is proved of Supervisor holds of an observed one.
LEMMA ObservedStep ==
    ASSUME TypeInv, [ObservedNext]_observedVars
    PROVE  [Next]_vars
<1> USE DEF vars
<1>1. CASE SupervisorActs
  BY <1>1, SupervisorStep
<1>2. ASSUME NEW g \in Goroutine, WorkerFails(g) \/ WorkerIsDone(g)
      PROVE  Next
  BY <1>2 DEF WorkerFails, WorkerIsDone, Next
<1>3. ASSUME CallTerminate
      PROVE  Next
  BY <1>3 DEF CallTerminate, Next
<1>4. ASSUME Test
      PROVE  [Next]_vars
  BY <1>3, <1>4 DEF Test, StartReturns, StartReturnsError, WaitsForRoot, WaitTill, Signal,
     WaitsForFailure, TerminateReturns
<1> QED
  BY <1>1, <1>2, <1>4 DEF ObservedNext, SupervisorActs, SendToCollector, EventCollected, Stop,
     IteratorWaits, TestIsOver, observedVars

\* The supervisor of a test is a supervisor: all that is proved of Supervisor
\* is true of it, whatever the event manager and the test do.
THEOREM ObservedIsSupervisor == ObservedSpec => Spec
<1>1. ObservedInit => Init /\ TypeInv
  BY TypeInvInit DEF ObservedInit
<1>2. TypeInv /\ [ObservedNext]_observedVars => [Next]_vars /\ TypeInv'
  BY ObservedStep, TypeInvStep
<1> QED
  BY <1>1, <1>2, PTL DEF ObservedSpec, Spec

-----------------------------------------------------------------------------
(* The event manager.                                                      *)

ObservedTypes ==
    /\ notified \in Seq(EventRecord)
    /\ sending \in [{"sup", "test"} -> Nat]
    /\ test \in {"start", "waitStart", "waitStartFailed", "signal", "callback", "terminate",
                 "terminating", "waitEnd", "done"}
    /\ evBuffer \in Seq(Nat) /\ evMsg \in Nat
    /\ reader \in [Reader -> [evIx : Nat, waits : BOOLEAN]]

\* The supervisor notifies its events before it is dead, the test afterwards.
InTurns ==
    /\ sending["test"] # 0 => pc = "dead"
    /\ pc = "dead" => sending["sup"] = 0

\* The last event is the one that is being collected, if any is; the events
\* before it are in the buffer, and it is, too, once it has been stored.
Busy == sending["sup"] # 0 \/ sending["test"] # 0
Stored ==
    /\ \A i \in 1 .. Len(evBuffer) : evBuffer[i] = i
    /\ sending["sup"] \in {0, Len(notified)} /\ sending["test"] \in {0, Len(notified)}
    /\ collector \in {"select", "store", "stored", "gone"}
    /\ collector \in {"store", "stored"} => Busy /\ evMsg = Len(notified)
    /\ Len(evBuffer) =
          IF Busy /\ collector # "stored" THEN Len(notified) - 1 ELSE Len(notified)

CollectorInv == TypeInv /\ ObservedTypes /\ InTurns /\ Stored

\* A call of EventCollector.
LEMMA CollectFacts ==
    ASSUME ObservedTypes, NEW who \in {"sup", "test"}, NEW ev \in EventRecord, Collect(who, ev)
    PROVE  /\ notified' \in Seq(EventRecord)
           /\ Len(notified) \in Nat /\ Len(notified') = Len(notified) + 1
           /\ \A i \in 1 .. Len(notified) : notified'[i] = notified[i]
           /\ notified'[Len(notified')] = ev
           /\ sending' = [sending EXCEPT ![who] = Len(notified')]
           /\ sending' \in [{"sup", "test"} -> Nat]
  BY DEF ObservedTypes, Collect

\* Nobody else is in the collector then.
LEMMA CollectStored ==
    ASSUME CollectorInv, NEW who \in {"sup", "test"}, NEW ev \in EventRecord, Collect(who, ev),
           ~Busy, UNCHANGED <<collector, evMsg, evBuffer>>
    PROVE  Stored'
<1>1. /\ Len(notified') = Len(notified) + 1 /\ Len(notified) \in Nat
      /\ sending' = [sending EXCEPT ![who] = Len(notified')]
      /\ sending \in [{"sup", "test"} -> Nat]
  BY CollectFacts DEF CollectorInv, ObservedTypes
<1>2. collector \in {"select", "gone"} /\ Len(evBuffer) = Len(notified)
  BY DEF CollectorInv, Stored
<1>3. Busy' /\ \A w \in {"sup", "test"} : sending'[w] \in {0, Len(notified')}
  BY <1>1 DEF Busy
<1> QED
  BY <1>1, <1>2, <1>3 DEF CollectorInv, Stored

LEMMA CollectorStep ==
    ASSUME CollectorInv, [ObservedNext]_observedVars
    PROVE  CollectorInv'
<1> USE DEF CollectorInv
<1>t. TypeInv'
  BY ObservedStep, TypeInvStep
<1>n. /\ Len(notified) \in Nat /\ Len(evBuffer) \in Nat
      /\ sending["sup"] \in Nat /\ sending["test"] \in Nat
  BY DEF ObservedTypes
<1>e. Root \in Name /\ {"Started", "StartFailed", "Failed", "Terminated"} \subseteq Reports
  BY ObservedAssumption DEF Reports
<1> DEFINE Holds == ObservedTypes' /\ InTurns' /\ Stored'
<1>1. ASSUME UNCHANGED <<managerVars, eventVars, test, pc>>
      PROVE  Holds
  BY <1>1 DEF managerVars, eventVars, ObservedTypes, InTurns, Stored, Busy
<1>2. ASSUME SupervisorActs
      PROVE  Holds
  <2>1. /\ sending["sup"] = 0 /\ pc # "dead"
        /\ UNCHANGED <<managerVars, testVars>>
    BY <1>2, SupervisorStep
  <2>2. CASE UNCHANGED eventVars
    BY <2>1, <2>2 DEF managerVars, testVars, eventVars, ObservedTypes, InTurns, Stored, Busy
  <2>3. ASSUME NEW name \in Name, NEW e \in Reports, pc' # "dead", EventSent(name, e)
        PROVE  Holds
    <3>1. EventOf(name, e) \in EventRecord /\ Collect("sup", EventOf(name, e))
      BY <2>3, EventFacts DEF EventSent
    <3>2. ~Busy
      BY <2>1 DEF InTurns, Busy
    <3>3. Stored'
      BY <2>1, <3>1, <3>2, CollectStored DEF managerVars
    <3>4. /\ notified' \in Seq(EventRecord) /\ sending' \in [{"sup", "test"} -> Nat]
          /\ sending' = [sending EXCEPT !["sup"] = Len(notified')]
      BY <3>1, CollectFacts
    <3>5. ObservedTypes'
      BY <2>1, <3>4 DEF ObservedTypes, managerVars, testVars
    <3>6. InTurns'
      BY <2>1, <2>3, <3>2, <3>4 DEF InTurns, Busy, ObservedTypes
    <3> QED
      BY <3>3, <3>5, <3>6
  <2> QED
    BY <1>2, <2>2, <2>3, SupervisorStep
<1>3. ASSUME NEW g \in Goroutine, WorkerFails(g) \/ WorkerIsDone(g)
      PROVE  Holds
  BY <1>1, <1>3 DEF WorkerFails, WorkerIsDone, testVars, Ends, HonorsCancel, ReturnsFrom, supVars
<1>4. ASSUME NEW who \in {"sup", "test"}, SendToCollector(who)
      PROVE  Holds
  <2>1. sending[who] = Len(notified) /\ Busy /\ sending[who] \in Nat
    BY <1>4, <1>n DEF SendToCollector, Stored, Busy
  <2>2. /\ collector = "select" /\ collector' = "store" /\ evMsg' = sending[who]
        /\ UNCHANGED <<evBuffer, reader, notified, sending, test, pc>>
    BY <1>4 DEF SendToCollector, SendEvent, vars, supVars, testVars, eventVars
  <2> QED
    BY <2>1, <2>2 DEF ObservedTypes, InTurns, Stored, Busy
<1>5. ASSUME NEW who \in {"sup", "test"}, EventCollected(who)
      PROVE  Holds
  <2>1. /\ collector = "stored" /\ collector' = "select" /\ sending[who] # 0
        /\ sending' = [sending EXCEPT ![who] = 0]
        /\ UNCHANGED <<evMsg, evBuffer, reader, notified, test, pc>>
    BY <1>5 DEF EventCollected, EventProcessed, Processed, vars, supVars, testVars
  <2>2. ~Busy'
    BY <1>n, <2>1 DEF InTurns, Busy, ObservedTypes
  <2>3. sending' \in [{"sup", "test"} -> Nat]
    BY <2>1 DEF ObservedTypes
  <2> QED
    BY <1>n, <2>1, <2>2, <2>3 DEF ObservedTypes, InTurns, Stored, Busy
<1>6. ASSUME StoreEvent, UNCHANGED <<vars, testVars, eventVars>>
      PROVE  Holds
  <2>1. /\ collector = "store" /\ collector' = "stored" /\ evBuffer' = Append(evBuffer, evMsg)
        /\ reader' = Broadcast
        /\ UNCHANGED <<evMsg, notified, sending, test, pc>>
    BY <1>6 DEF StoreEvent, vars, supVars, testVars, eventVars
  <2>2. /\ Busy /\ evMsg = Len(notified) /\ Len(evBuffer) = Len(notified) - 1
    BY <2>1 DEF Stored
  <2>3. /\ evBuffer' \in Seq(Nat) /\ Len(evBuffer') = Len(notified)
        /\ \A i \in 1 .. Len(evBuffer') : evBuffer'[i] = i
    BY <1>n, <2>1, <2>2 DEF ObservedTypes, Stored
  <2>4. reader' \in [Reader -> [evIx : Nat, waits : BOOLEAN]]
    BY <2>1 DEF ObservedTypes, Broadcast
  <2> QED
    BY <2>1, <2>2, <2>3, <2>4 DEF ObservedTypes, InTurns, Stored, Busy
<1>7. ASSUME NEW r \in Reader, ReadEvent(r) \/ WaitForEvent(r)
      PROVE  /\ reader' \in [Reader -> [evIx : Nat, waits : BOOLEAN]]
             /\ UNCHANGED <<collector, evMsg, evBuffer>>
  <2>1. reader[r] \in [evIx : Nat, waits : BOOLEAN] /\ reader[r].evIx + 1 \in Nat
    BY DEF ObservedTypes
  <2>2. CASE ReadEvent(r)
    <3>1. [reader[r] EXCEPT !.evIx = @ + 1] \in [evIx : Nat, waits : BOOLEAN]
      BY <2>1
    <3>2. reader' = [reader EXCEPT ![r] = [reader[r] EXCEPT !.evIx = @ + 1]]
      BY <2>2 DEF ReadEvent
    <3> QED
      BY <2>2, <3>1, <3>2 DEF ReadEvent, ObservedTypes
  <2>3. CASE WaitForEvent(r)
    <3>1. [reader[r] EXCEPT !.waits = TRUE] \in [evIx : Nat, waits : BOOLEAN]
      BY <2>1
    <3>2. reader' = [reader EXCEPT ![r] = [reader[r] EXCEPT !.waits = TRUE]]
      BY <2>3 DEF WaitForEvent
    <3> QED
      BY <2>3, <3>1, <3>2 DEF WaitForEvent, ObservedTypes
  <2> QED
    BY <1>7, <2>2, <2>3
<1>8. ASSUME NEW r \in Reader, NEW pred, NEW from,
             NEW to \in {"signal", "terminate", "done"},
             WaitTill(r, pred, from, to)
      PROVE  Holds
  <2>1. test' \in {test, to} /\ UNCHANGED <<pc, notified, sending>>
    BY <1>8 DEF WaitTill, Goes, vars, supVars, eventVars
  <2>2. ReadEvent(r)
    BY <1>8 DEF WaitTill
  <2> QED
    BY <1>7, <2>1, <2>2 DEF ObservedTypes, InTurns, Stored, Busy
<1>9. ASSUME NEW ev \in EventRecord, Collect("test", ev), sending["test"] = 0, pc = "dead",
             test' \in {"waitEnd", "waitStartFailed"}, UNCHANGED <<vars, managerVars>>
      PROVE  Holds
  <2>1. ~Busy
    BY <1>9 DEF InTurns, Busy
  <2>2. Stored'
    BY <1>9, <2>1, CollectStored DEF managerVars
  <2>3. /\ notified' \in Seq(EventRecord) /\ sending' \in [{"sup", "test"} -> Nat]
        /\ sending' = [sending EXCEPT !["test"] = Len(notified')]
    BY <1>9, CollectFacts
  <2>4. ObservedTypes'
    BY <1>9, <2>3 DEF ObservedTypes, managerVars
  <2>5. InTurns'
    BY <1>9, <2>1, <2>3 DEF InTurns, Busy, ObservedTypes, vars, supVars
  <2> QED
    BY <2>2, <2>4, <2>5
<1>10. ASSUME Test
       PROVE  Holds
  <2>1. CASE StartReturns \/ Signal \/ CallTerminate
    <3>1. test' \in {"waitStart", "callback", "terminating"}
          /\ UNCHANGED <<managerVars, eventVars, pc>>
      BY <2>1 DEF StartReturns, Signal, CallTerminate, Goes, vars, supVars, Terminate
    <3> QED
      BY <3>1 DEF managerVars, eventVars, ObservedTypes, InTurns, Stored, Busy
  <2>2. CASE StartReturnsError
    BY <1>9, <1>e, <2>2, EventFacts DEF StartReturnsError, Goes, BootFailed
  <2>3. CASE TerminateReturns
    BY <1>9, <1>e, <2>3, EventFacts DEF TerminateReturns, Goes, SupervisorOver
  <2>4. Reader = {"observer", "callback"}
    BY ObservedAssumption
  <2> QED
    BY <1>8, <1>10, <2>1, <2>2, <2>3, <2>4 DEF Test, WaitsForRoot, WaitsForFailure
<1>11. ASSUME Stop
       PROVE  Holds
  BY <1>11 DEF Stop, StopCollector, vars, supVars, testVars, eventVars, ObservedTypes, InTurns,
     Stored, Busy
<1>12. ASSUME NEW r \in Reader, NEW froms, IteratorWaits(r, froms)
       PROVE  Holds
  BY <1>7, <1>12 DEF IteratorWaits, vars, supVars, testVars, eventVars, ObservedTypes, InTurns,
     Stored, Busy
<1>13. CASE UNCHANGED observedVars
  BY <1>1, <1>t, <1>13 DEF observedVars, vars, supVars, testVars
<1>14. Reader = {"observer", "callback"}
  BY ObservedAssumption
<1> HIDE DEF Holds
<1>15. CASE ObservedNext
  <2>1. Holds
    BY <1>2, <1>3, <1>4, <1>5, <1>6, <1>10, <1>11, <1>12, <1>13, <1>14, <1>15
    DEF ObservedNext, SupervisorActs, TestIsOver, Holds
  <2> QED
    BY <1>t, <2>1 DEF Holds
<1> QED
  BY <1>13, <1>15
LEMMA CollectorInit == ObservedInit => CollectorInv
<1> SUFFICES ASSUME ObservedInit
             PROVE  CollectorInv
  OBVIOUS
<1>1. TypeInv
  BY TypeInvInit DEF ObservedInit
<1>2. ObservedTypes /\ InTurns /\ Stored
  BY DEF ObservedInit, Init, ManagerInit, ObservedTypes, InTurns, Stored, Busy
<1> QED
  BY <1>1, <1>2 DEF CollectorInv

LEMMA CollectorInvHolds == ObservedSpec => []CollectorInv
  BY CollectorInit, CollectorStep, PTL DEF ObservedSpec

\* EventCollector returns when its event is stored, whoever calls it, and the
\* calls of the two goroutines never overlap: the buffer has all the events in
\* the order in which they were notified, but for the one that is being
\* collected.
THEOREM EventsAreStored == ObservedSpec => []StoredWhenReturned
<1>1. ASSUME CollectorInv PROVE StoredWhenReturned
  <2> SUFFICES ASSUME NEW i \in 1 .. Len(notified), i \notin {sending["sup"], sending["test"]}
               PROVE  i <= Len(evBuffer) /\ evBuffer[i] = i
    BY DEF StoredWhenReturned
  <2>1. Len(notified) \in Nat /\ Len(evBuffer) \in Nat
    BY <1>1 DEF CollectorInv, ObservedTypes
  <2>2. i <= Len(evBuffer)
    BY <1>1, <2>1 DEF CollectorInv, Stored, Busy
  <2> QED
    BY <1>1, <2>1, <2>2 DEF CollectorInv, Stored
<1> QED
  BY <1>1, CollectorInvHolds, PTL
-----------------------------------------------------------------------------
(* Folds over a list: FoldLeft takes the places from a set, greatest last.  *)

\* A set of places has a greatest.
LEMMA MaxOfPlaces ==
    ASSUME NEW N \in Nat, NEW s \in SUBSET (1 .. N), s # {}
    PROVE  Max(s) \in s /\ \A i \in s : Max(s) >= i
<1> DEFINE HasMax(t) == t # {} => \E x \in t : \A y \in t : x >= y
           S == {n \in Nat : \A t \in SUBSET (1 .. n) : HasMax(t)}
<1>1. 0 \in S
  <2>1. \A t \in SUBSET (1 .. 0) : t = {}
    OBVIOUS
  <2> QED
    BY <2>1
<1>2. ASSUME NEW n \in Nat, n \in S
      PROVE  n + 1 \in S
  <2> SUFFICES ASSUME NEW t \in SUBSET (1 .. n + 1)
               PROVE  HasMax(t)
    <3> HIDE DEF HasMax
    <3> QED
      OBVIOUS
  <2>1. CASE n + 1 \in t
    BY <2>1
  <2>2. CASE n + 1 \notin t
    <3>1. t \in SUBSET (1 .. n)
      BY <2>2
    <3> HIDE DEF HasMax
    <3> QED
      BY <1>2, <3>1
  <2> QED
    BY <2>1, <2>2
<1>3. HasMax(s)
  <2> HIDE DEF HasMax
  <2>1. N \in S
    <3> HIDE DEF S
    <3> QED
      BY <1>1, <1>2, SetInduction
  <2> QED
    BY <2>1
<1> QED
  BY <1>3 DEF Max

\* The greatest of the first k places, and those before it.
LEMMA FirstPlaces ==
    ASSUME NEW N \in Nat, NEW k \in 1 .. N
    PROVE  /\ 1 .. k \in SUBSET (1 .. N) /\ 1 .. k # {}
           /\ Max(1 .. k) = k /\ (1 .. k) \ {k} = 1 .. k - 1
<1>1. k \in Nat /\ 1 .. k \in SUBSET (1 .. N) /\ k \in 1 .. k
  OBVIOUS
<1>2. Max(1 .. k) \in 1 .. k /\ Max(1 .. k) >= k
  BY <1>1, MaxOfPlaces
<1> QED
  BY <1>1, <1>2

\* What a fold is over the sets of places: step[x, i] is its turn at place i.
FoldSteps(N, X) == [X \X (1 .. N) -> X]
IsFold(f, N, X, x0, step) ==
    /\ f \in [SUBSET (1 .. N) -> X]
    /\ \A s \in SUBSET (1 .. N) :
          f[s] = IF s = {} THEN x0 ELSE step[<<f[s \ {Max(s)}], Max(s)>>]

\* There is such a function: the recursive definition of a fold has a value.
LEMMA FoldExists ==
    ASSUME NEW N \in Nat, NEW X, NEW x0 \in X, NEW step \in FoldSteps(N, X)
    PROVE  \E f : IsFold(f, N, X, x0, step)
<1> DEFINE Turn(f, s) == IF s = {} THEN x0 ELSE step[<<f[s \ {Max(s)}], Max(s)>>]
           Folds(n, f) == \A s \in SUBSET (1 .. n) : f[s] = Turn(f, s)
           Has(n) == \E f \in [SUBSET (1 .. n) -> X] : Folds(n, f)
           S == {n \in Nat : n <= N => Has(n)}
<1>1. 0 \in S
  <2> DEFINE f == [s \in SUBSET (1 .. 0) |-> x0]
  <2>1. f \in [SUBSET (1 .. 0) -> X]
    OBVIOUS
  <2>2. \A s \in SUBSET (1 .. 0) : s = {}
    OBVIOUS
  <2>3. Folds(0, f)
    BY <2>2
  <2> HIDE DEF f, Folds
  <2> QED
    BY <2>1, <2>3
<1>2. ASSUME NEW n \in Nat, n \in S
      PROVE  n + 1 \in S
  <2> SUFFICES ASSUME n + 1 <= N
               PROVE  Has(n + 1)
    <3> HIDE DEF Has
    <3> QED
      OBVIOUS
  <2>0. Has(n)
    <3> HIDE DEF Has
    <3> QED
      BY <1>2
  <2>1. PICK f \in [SUBSET (1 .. n) -> X] : Folds(n, f)
    <3> HIDE DEF Folds
    <3> QED
      BY <2>0
  <2> DEFINE g == [s \in SUBSET (1 .. n + 1) |->
                     IF n + 1 \in s THEN step[<<f[s \ {n + 1}], n + 1>>] ELSE f[s]]
  <2>2. ASSUME NEW s \in SUBSET (1 .. n + 1)
        PROVE  g[s] \in X /\ g[s] = Turn(g, s)
    <3>1. CASE n + 1 \in s
      <4>1. s \ {n + 1} \in SUBSET (1 .. n)
        OBVIOUS
      <4>2. s # {} /\ Max(s) = n + 1
        <5>1. n + 1 \in Nat /\ s # {}
          BY <3>1
        <5>2. Max(s) \in s /\ Max(s) >= n + 1
          BY <3>1, <5>1, MaxOfPlaces
        <5>3. Max(s) \in 1 .. n + 1
          BY <5>2
        <5> QED
          BY <5>1, <5>2, <5>3
      <4>3. s \ {n + 1} \in SUBSET (1 .. n + 1) /\ n + 1 \notin s \ {n + 1}
        BY <4>1
      <4>4. g[s \ {n + 1}] = f[s \ {n + 1}] /\ g[s] = step[<<f[s \ {n + 1}], n + 1>>]
        BY <3>1, <4>3
      <4>5. f[s \ {n + 1}] \in X /\ n + 1 \in 1 .. N
        BY <4>1
      <4> HIDE DEF g
      <4>6. step[<<f[s \ {n + 1}], n + 1>>] \in X
        BY <4>5 DEF FoldSteps
      <4> QED
        BY <4>2, <4>4, <4>6
    <3>2. CASE n + 1 \notin s
      <4>1. s \in SUBSET (1 .. n)
        BY <3>2
      <4>2. g[s] = f[s] /\ f[s] = Turn(f, s)
        BY <2>1, <3>2, <4>1
      <4>3. s # {} => Max(s) \in s
        BY <4>1, MaxOfPlaces
      <4>4. /\ s \ {Max(s)} \in SUBSET (1 .. n + 1) /\ n + 1 \notin s \ {Max(s)}
        BY <3>2
      <4>5. g[s \ {Max(s)}] = f[s \ {Max(s)}]
        BY <4>4
      <4>6. f[s] \in X
        BY <4>1
      <4> HIDE DEF g
      <4> QED
        BY <4>2, <4>5, <4>6
    <3> QED
      BY <3>1, <3>2
  <2>3. g \in [SUBSET (1 .. n + 1) -> X]
    <3>1. \A s \in SUBSET (1 .. n + 1) : g[s] \in X
      BY <2>2
    <3> QED
      BY <3>1
  <2>4. Folds(n + 1, g)
    BY <2>2
  <2> HIDE DEF g, Folds
  <2> QED
    BY <2>3, <2>4
<1>3. N \in S
  <2> HIDE DEF S
  <2> QED
    BY <1>1, <1>2, SetInduction
<1>4. Has(N)
  <2> HIDE DEF Has
  <2> QED
    BY <1>3
<1>5. PICK f \in [SUBSET (1 .. N) -> X] : Folds(N, f)
  <2> HIDE DEF Folds
  <2> QED
    BY <1>4
<1>6. IsFold(f, N, X, x0, step)
  BY <1>5 DEF IsFold
<1> QED
  BY <1>6

-----------------------------------------------------------------------------
(* The criteria and the matchers.                                          *)

\* AndP of two predicates accepts what both accept.
LEMMA AndOfTwo ==
    ASSUME NEW A \in SUBSET EventRecord, NEW B \in SUBSET EventRecord
    PROVE  AndP(<<A, B>>) = A \cap B
<1> DEFINE crits == <<A, B>>
           X == SUBSET EventRecord
           step == [p \in X \X (1 .. 2) |-> p[1] \cap crits[p[2]]]
           Turn(f, s) == IF s = {} THEN EventRecord ELSE f[s \ {Max(s)}] \cap crits[Max(s)]
           Fold(f) == [s \in SUBSET (1 .. 2) |-> Turn(f, s)]
           fold == CHOOSE f : f = Fold(f)
<1>1. DOMAIN crits = 1 .. 2 /\ EventRecord \in X
  OBVIOUS
<1>2. AndP(crits) = fold[1 .. 2]
  BY <1>1 DEF AndP, EAnd, FoldLeft, MapThenFoldSet
<1>3. step \in FoldSteps(2, X)
  BY DEF FoldSteps
<1>4. PICK f : IsFold(f, 2, X, EventRecord, step)
  <2> HIDE DEF step, X
  <2> QED
    BY <1>1, <1>3, FoldExists
<1>5. ASSUME NEW s \in SUBSET (1 .. 2)
      PROVE  f[s] = Turn(f, s)
  <2>1. CASE s = {}
    BY <1>4, <2>1 DEF IsFold
  <2>2. CASE s # {}
    <3>1. Max(s) \in 1 .. 2
      BY <2>2, MaxOfPlaces
    <3>2. s \ {Max(s)} \in SUBSET (1 .. 2)
      OBVIOUS
    <3>3. f[s \ {Max(s)}] \in X
      BY <1>4, <3>2 DEF IsFold
    <3>4. f[s] = step[<<f[s \ {Max(s)}], Max(s)>>]
      BY <1>4, <2>2 DEF IsFold
    <3> HIDE DEF crits
    <3> QED
      BY <2>2, <3>1, <3>3, <3>4
  <2> QED
    BY <2>1, <2>2
<1>6. f = Fold(f)
  <2> HIDE DEF Turn
  <2>1. f \in [SUBSET (1 .. 2) -> X]
    BY <1>4 DEF IsFold
  <2> QED
    BY <1>5, <2>1
<1>7. fold = Fold(fold)
  <2> HIDE DEF Fold
  <2> QED
    BY <1>6
<1> HIDE DEF fold
<1>8. \A s \in SUBSET (1 .. 2) : fold[s] = Turn(fold, s)
  <2> HIDE DEF Turn
  <2> QED
    BY <1>7
<1>9. 1 .. 1 \in SUBSET (1 .. 2) /\ {} \in SUBSET (1 .. 2) /\ 1 .. 0 = {}
  OBVIOUS
<1>10. fold[{}] = EventRecord
  BY <1>8, <1>9
<1>11. fold[1 .. 1] = EventRecord \cap A
  <2>0. 1 \in Nat /\ 1 \in 1 .. 1 /\ 1 - 1 = 0
    OBVIOUS
  <2>1. 1 .. 1 # {} /\ Max(1 .. 1) = 1 /\ (1 .. 1) \ {1} = {}
    BY <1>9, <2>0, FirstPlaces
  <2> QED
    BY <1>8, <1>9, <1>10, <2>1
<1>12. fold[1 .. 2] = (EventRecord \cap A) \cap B
  <2>0. 2 \in Nat /\ 2 \in 1 .. 2 /\ 2 - 1 = 1
    OBVIOUS
  <2>1. /\ 1 .. 2 # {} /\ Max(1 .. 2) = 2 /\ (1 .. 2) \ {2} = 1 .. 1
        /\ 1 .. 2 \in SUBSET (1 .. 2)
    BY <2>0, FirstPlaces
  <2>2. crits[2] = B
    OBVIOUS
  <2> HIDE DEF crits
  <2> QED
    BY <1>8, <1>11, <2>1, <2>2
<1> QED
  BY <1>2, <1>12

\* verifyPartialMatch goes through the events once, with a turn for each.
LEMMA MatchTurns ==
    ASSUME NEW P, NEW preds \in Seq(P), NEW E, NEW given \in Seq(E)
    PROVE  \E f \in [0 .. Len(given) -> Seq(P)] :
              /\ f[0] = preds
              /\ \A k \in 1 .. Len(given) : f[k] = MatchOne(f[k - 1], given[k])
              /\ VerifyPartialMatch(preds, given) = f[Len(given)]
<1> DEFINE N == Len(given)
           X == Seq(P)
           step == [p \in X \X (1 .. N) |-> MatchOne(p[1], given[p[2]])]
           Turn(f, s) == IF s = {} THEN preds ELSE MatchOne(f[s \ {Max(s)}], given[Max(s)])
           Fold(f) == [s \in SUBSET (1 .. N) |-> Turn(f, s)]
           fold == CHOOSE f : f = Fold(f)
<1>0. \A x \in X : \A ev : MatchOne(x, ev) \in X
  BY DEF MatchOne
<1>1. DOMAIN given = 1 .. N /\ N \in Nat /\ preds \in X
  OBVIOUS
<1>2. VerifyPartialMatch(preds, given) = fold[1 .. N]
  BY <1>1 DEF VerifyPartialMatch, FoldLeft, MapThenFoldSet
<1>3. step \in FoldSteps(N, X)
  <2> HIDE DEF N, X
  <2> QED
    BY <1>0 DEF FoldSteps
<1> HIDE DEF N, X
<1>4. PICK f : IsFold(f, N, X, preds, step)
  <2> HIDE DEF step
  <2> QED
    BY <1>1, <1>3, FoldExists
<1>5. ASSUME NEW s \in SUBSET (1 .. N)
      PROVE  f[s] = Turn(f, s)
  <2>1. CASE s = {}
    BY <1>4, <2>1 DEF IsFold
  <2>2. CASE s # {}
    <3>1. Max(s) \in 1 .. N
      BY <1>1, <2>2, MaxOfPlaces
    <3>2. s \ {Max(s)} \in SUBSET (1 .. N)
      OBVIOUS
    <3>3. f[s \ {Max(s)}] \in X
      BY <1>4, <3>2 DEF IsFold
    <3>4. f[s] = step[<<f[s \ {Max(s)}], Max(s)>>]
      BY <1>4, <2>2 DEF IsFold
    <3> QED
      BY <2>2, <3>1, <3>3, <3>4
  <2> QED
    BY <2>1, <2>2
<1>6. f = Fold(f)
  <2> HIDE DEF Turn
  <2>1. f \in [SUBSET (1 .. N) -> X]
    BY <1>4 DEF IsFold
  <2> QED
    BY <1>5, <2>1
<1>7. fold = Fold(fold)
  <2> HIDE DEF Fold
  <2> QED
    BY <1>6
<1> HIDE DEF fold
<1>8. \A s \in SUBSET (1 .. N) : fold[s] = Turn(fold, s)
  <2> HIDE DEF Turn
  <2> QED
    BY <1>7
<1> DEFINE turns == [k \in 0 .. N |-> fold[1 .. k]]
<1>9. turns[0] = preds
  <2>1. 1 .. 0 = {} /\ {} \in SUBSET (1 .. N) /\ 0 \in 0 .. N
    BY <1>1
  <2> QED
    BY <1>8, <2>1
<1>10. ASSUME NEW k \in 1 .. N
       PROVE  turns[k] = MatchOne(turns[k - 1], given[k])
  <2>1. /\ 1 .. k \in SUBSET (1 .. N) /\ 1 .. k # {}
        /\ Max(1 .. k) = k /\ (1 .. k) \ {k} = 1 .. k - 1
    BY <1>1, FirstPlaces
  <2>2. k \in 0 .. N /\ k - 1 \in 0 .. N
    BY <1>1
  <2>3. turns[k] = fold[1 .. k] /\ turns[k - 1] = fold[1 .. k - 1]
    BY <2>2
  <2>4. fold[1 .. k] = MatchOne(fold[1 .. k - 1], given[k])
    BY <1>8, <2>1
  <2> QED
    BY <2>3, <2>4
<1>11. turns[N] = fold[1 .. N] /\ DOMAIN turns = 0 .. N
  BY <1>1
<1> HIDE DEF turns
<1>12. \A k \in 0 .. N : turns[k] \in X
  <2> DEFINE S == {n \in Nat : n <= N => turns[n] \in X}
  <2>1. 0 \in S
    BY <1>1, <1>9
  <2>2. ASSUME NEW n \in Nat, n \in S PROVE n + 1 \in S
    <3>1. n + 1 <= N => n + 1 \in 1 .. N /\ n + 1 - 1 = n
      BY <1>1
    <3> QED
      BY <1>0, <1>1, <1>10, <2>2, <3>1
  <2>3. \A n \in Nat : n \in S
    <3> HIDE DEF S
    <3> QED
      BY <2>1, <2>2, SetInduction
  <2> QED
    BY <1>1, <2>3
<1>13. turns = [k \in 0 .. N |-> turns[k]]
  BY <1>11 DEF turns
<1>14. turns \in [0 .. N -> X]
  BY <1>12, <1>13
<1> QED
  BY <1>2, <1>9, <1>10, <1>11, <1>14 DEF N, X

\* One turn takes the first predicate, or none.
LEMMA MatchOneFacts ==
    ASSUME NEW P, NEW s \in Seq(P), NEW ev
    PROVE  /\ (s # << >> /\ ev \in s[1]) =>
                 /\ Len(MatchOne(s, ev)) = Len(s) - 1
                 /\ \A i \in 1 .. Len(s) - 1 : MatchOne(s, ev)[i] = s[i + 1]
           /\ ~(s # << >> /\ ev \in s[1]) => MatchOne(s, ev) = s
  BY DEF MatchOne

\* After k turns m predicates are gone, the first ones.
Gone(preds, s, m) ==
    /\ m \in 0 .. Len(preds) /\ Len(s) = Len(preds) - m
    /\ \A i \in 1 .. Len(s) : s[i] = preds[m + i]

\* A turn takes the next predicate if it accepts the event, and else none.
LEMMA NextGone ==
    ASSUME NEW P, NEW preds \in Seq(P), NEW s \in Seq(P), NEW m, Gone(preds, s, m), NEW ev
    PROVE  \/ /\ m + 1 \in 1 .. Len(preds) /\ ev \in preds[m + 1]
              /\ Gone(preds, MatchOne(s, ev), m + 1)
           \/ /\ m + 1 \in 1 .. Len(preds) => ev \notin preds[m + 1]
              /\ Gone(preds, MatchOne(s, ev), m)
<1>1. Len(preds) \in Nat /\ m \in Nat /\ Len(s) = Len(preds) - m /\ Len(s) \in Nat
  BY DEF Gone
<1>2. CASE s # << >> /\ ev \in s[1]
  <2>1. 1 \in 1 .. Len(s) /\ m + 1 \in 1 .. Len(preds) /\ s[1] = preds[m + 1]
    BY <1>1, <1>2 DEF Gone
  <2>2. /\ Len(MatchOne(s, ev)) = Len(s) - 1
        /\ \A i \in 1 .. Len(s) - 1 : MatchOne(s, ev)[i] = s[i + 1]
    BY <1>2, MatchOneFacts
  <2>3. ASSUME NEW i \in 1 .. Len(s) - 1
        PROVE  MatchOne(s, ev)[i] = preds[m + 1 + i]
    <3>1. i + 1 \in 1 .. Len(s) /\ m + (i + 1) = m + 1 + i
      BY <1>1
    <3> QED
      BY <2>2, <3>1 DEF Gone
  <2> QED
    BY <1>1, <1>2, <2>1, <2>2, <2>3 DEF Gone
<1>3. CASE ~(s # << >> /\ ev \in s[1])
  <2>1. MatchOne(s, ev) = s
    BY <1>3, MatchOneFacts
  <2>2. ASSUME m + 1 \in 1 .. Len(preds)
        PROVE  ev \notin preds[m + 1]
    <3>1. 1 \in 1 .. Len(s) /\ s # << >>
      BY <1>1, <2>2
    <3> QED
      BY <1>3, <3>1 DEF Gone
  <2> QED
    BY <2>1, <2>2
<1> QED
  BY <1>2, <1>3

\* AssertPartialMatch is right about every list of predicates and every list of
\* events: taking each predicate at the first event it accepts finds a place
\* for all of them exactly if there are such places, in order.
THEOREM PartialMatchEmbeds ==
    ASSUME NEW P, NEW preds \in Seq(P), NEW E, NEW given \in Seq(E)
    PROVE  (VerifyPartialMatch(preds, given) = << >>) <=> Embeds(preds, given)
<1> DEFINE M == Len(preds)
           N == Len(given)
<1>1. M \in Nat /\ N \in Nat
  OBVIOUS
<1>2. PICK f \in [0 .. N -> Seq(P)] :
         /\ f[0] = preds
         /\ \A k \in 1 .. N : f[k] = MatchOne(f[k - 1], given[k])
         /\ VerifyPartialMatch(preds, given) = f[N]
  BY MatchTurns
<1> DEFINE Places(k, m, at) ==
              /\ at \in [1 .. m -> 1 .. k]
              /\ \A i \in 1 .. m : given[at[i]] \in preds[i]
              /\ \A i, j \in 1 .. m : i < j => at[i] < at[j]
           Greedy(k) == \E m \in 0 .. M :
              /\ Gone(preds, f[k], m)
              /\ \E at : Places(k, m, at)
              /\ \A j \in 1 .. M : \A at : Places(N, M, at) /\ at[j] <= k => j <= m
           S == {n \in Nat : n <= N => Greedy(n)}
<1>3. 0 \in S
  <2>1. 0 \in 0 .. M /\ Gone(preds, f[0], 0)
    BY <1>1, <1>2 DEF Gone
  <2>2. Places(0, 0, << >>)
    <3>1. << >> \in [1 .. 0 -> 1 .. 0]
      OBVIOUS
    <3> QED
      BY <3>1
  <2>3. \A j \in 1 .. M : \A at : Places(N, M, at) => ~(at[j] <= 0)
    BY <1>1
  <2> HIDE DEF Places
  <2> QED
    BY <2>1, <2>2, <2>3
<1>4. ASSUME NEW n \in Nat, n \in S
      PROVE  n + 1 \in S
  <2> SUFFICES ASSUME n + 1 <= N
               PROVE  Greedy(n + 1)
    <3> HIDE DEF Greedy
    <3> QED
      OBVIOUS
  <2>0. Greedy(n) /\ n \in 0 .. N /\ n + 1 \in 1 .. N /\ n + 1 - 1 = n
    <3> HIDE DEF Greedy
    <3> QED
      BY <1>1, <1>4
  <2>1. PICK m \in 0 .. M :
           /\ Gone(preds, f[n], m)
           /\ \E at : Places(n, m, at)
           /\ \A j \in 1 .. M : \A at : Places(N, M, at) /\ at[j] <= n => j <= m
    <3> HIDE DEF Places
    <3> QED
      BY <2>0
  <2>2. f[n + 1] = MatchOne(f[n], given[n + 1]) /\ f[n] \in Seq(P)
    BY <1>2, <2>0
  <2>3. PICK at : Places(n, m, at)
    <3> HIDE DEF Places
    <3> QED
      BY <2>1
  <2>4. CASE /\ m + 1 \in 1 .. M /\ given[n + 1] \in preds[m + 1]
             /\ Gone(preds, f[n + 1], m + 1)
    <3> DEFINE at1 == [i \in 1 .. m + 1 |-> IF i = m + 1 THEN n + 1 ELSE at[i]]
    <3>1. Places(n + 1, m + 1, at1)
      <4>1. ASSUME NEW i \in 1 .. m + 1, i # m + 1
            PROVE  i \in 1 .. m /\ at1[i] = at[i] /\ at[i] \in 1 .. n
        BY <2>3, <4>1
      <4>2. m + 1 \in 1 .. m + 1 /\ at1[m + 1] = n + 1 /\ DOMAIN at1 = 1 .. m + 1
        OBVIOUS
      <4>3. at1 \in [1 .. m + 1 -> 1 .. n + 1]
        <5>1. \A i \in 1 .. m + 1 : (IF i = m + 1 THEN n + 1 ELSE at[i]) \in 1 .. n + 1
          BY <4>1
        <5> QED
          BY <5>1
      <4> HIDE DEF at1
      <4>4. \A i \in 1 .. m + 1 : given[at1[i]] \in preds[i]
        BY <2>3, <2>4, <4>1, <4>2
      <4>5. ASSUME NEW i \in 1 .. m + 1, NEW j \in 1 .. m + 1, i < j
            PROVE  at1[i] < at1[j]
        <5>1. i # m + 1 /\ i \in 1 .. m /\ at1[i] = at[i] /\ at[i] \in 1 .. n
          BY <4>1, <4>5
        <5>2. CASE j = m + 1
          BY <4>2, <5>1, <5>2
        <5>3. CASE j # m + 1
          BY <2>3, <4>1, <4>5, <5>1, <5>3
        <5> QED
          BY <5>2, <5>3
      <4> QED
        BY <4>3, <4>4, <4>5
    <3>2. ASSUME NEW j \in 1 .. M, NEW b, Places(N, M, b), b[j] <= n + 1
          PROVE  j <= m + 1
      <4>1. b[j] \in 1 .. N
        BY <3>2
      <4>2. CASE b[j] <= n
        <5> HIDE DEF Places
        <5>1. j <= m
          BY <2>1, <3>2, <4>2
        <5> QED
          BY <5>1
      <4>3. CASE ~(b[j] <= n) /\ j > 1
        <5>0. j - 1 \in 1 .. M /\ j - 1 < j
          BY <1>1, <4>3
        <5>1. j - 1 \in 1 .. M /\ b[j - 1] < b[j] /\ b[j - 1] \in 1 .. N
          BY <3>2, <5>0
        <5>2. b[j - 1] <= n
          BY <3>2, <4>1, <5>1
        <5> HIDE DEF Places
        <5>3. j - 1 <= m
          BY <2>1, <3>2, <5>1, <5>2
        <5> QED
          BY <5>3
      <4> QED
        BY <4>2, <4>3
    <3> HIDE DEF Places, at1
    <3>3. m + 1 \in 0 .. M
      BY <2>4
    <3> QED
      BY <2>4, <3>1, <3>2, <3>3
  <2>5. CASE /\ m + 1 \in 1 .. M => given[n + 1] \notin preds[m + 1]
             /\ Gone(preds, f[n + 1], m)
    <3>1. Places(n + 1, m, at)
      <4>1. \A i \in 1 .. m : at[i] \in 1 .. n + 1
        BY <2>3
      <4> QED
        BY <2>3, <4>1
    <3>2. ASSUME NEW j \in 1 .. M, NEW b, Places(N, M, b), b[j] <= n + 1
          PROVE  j <= m
      <4>1. b[j] \in 1 .. N
        BY <3>2
      <4>2. CASE b[j] <= n
        <5> HIDE DEF Places
        <5> QED
          BY <2>1, <3>2, <4>2
      <4>3. CASE b[j] = n + 1
        <5>1. given[n + 1] \in preds[j]
          BY <3>2, <4>3
        <5>2. j # m + 1
          BY <2>5, <5>1
        <5>3. CASE j > 1
          <6>0. j - 1 \in 1 .. M /\ j - 1 < j
            BY <1>1, <5>3
          <6>1. j - 1 \in 1 .. M /\ b[j - 1] < b[j] /\ b[j - 1] \in 1 .. N
            BY <3>2, <6>0
          <6>2. b[j - 1] <= n
            BY <4>3, <6>1
          <6> HIDE DEF Places
          <6>3. j - 1 <= m
            BY <2>1, <3>2, <6>1, <6>2
          <6> QED
            BY <5>2, <6>3
        <5> QED
          BY <5>2, <5>3
      <4> QED
        BY <3>2, <4>1, <4>2, <4>3
    <3> HIDE DEF Places
    <3> QED
      BY <2>5, <3>1, <3>2
  <2> HIDE DEF Greedy
  <2> QED
    BY <2>1, <2>2, <2>4, <2>5, NextGone
<1>5. Greedy(N)
  <2> HIDE DEF Greedy
  <2>1. N \in S
    <3> HIDE DEF S
    <3> QED
      BY <1>1, <1>3, <1>4, SetInduction
  <2> QED
    BY <1>1, <2>1
<1>6. PICK m \in 0 .. M :
         /\ Gone(preds, f[N], m)
         /\ \E at : Places(N, m, at)
         /\ \A j \in 1 .. M : \A at : Places(N, M, at) /\ at[j] <= N => j <= m
  <2> HIDE DEF Places
  <2> QED
    BY <1>5
<1>7. f[N] = << >> <=> m = M
  <2>1. f[N] \in Seq(P) /\ Len(f[N]) = M - m
    <3>1. N \in 0 .. N
      BY <1>1
    <3> HIDE DEF Places
    <3> QED
      BY <1>1, <1>2, <1>6, <3>1 DEF Gone
  <2> QED
    BY <1>1, <2>1
<1>8. Embeds(preds, given) <=> \E at : Places(N, M, at)
  BY DEF Embeds
<1>9. ASSUME NEW at, Places(N, M, at)
      PROVE  m = M
  <2>1. CASE M = 0
    BY <2>1
  <2>2. CASE M # 0
    <3>1. M \in 1 .. M
      BY <1>1, <2>2
    <3>2. at[M] <= N
      BY <1>1, <1>9, <3>1
    <3> HIDE DEF Places
    <3>3. M <= m
      BY <1>6, <1>9, <3>1, <3>2
    <3> QED
      BY <1>1, <3>3
  <2> QED
    BY <2>1, <2>2
<1> HIDE DEF Places
<1> QED
  BY <1>2, <1>6, <1>7, <1>8, <1>9

-----------------------------------------------------------------------------
(* What the events tell.                                                   *)

FailedWorkers == {ev \in EventRecord : ev.tag = "ProcessFailed" /\ ev.nodeTag = "Worker"}
Announced == \E i \in 1 .. Len(notified) : notified[i].name = Root
FailureSeen == \E i \in 1 .. Len(notified) : notified[i] \in FailedWorkers

RootNamed ==
    \A i \in 1 .. Len(notified) :
        notified[i].nodeTag = IF notified[i].name = Root THEN "Supervisor" ELSE "Worker"

\* No worker fails before it is told to, and by then the root was announced.
FailuresAsked ==
    /\ signalled \in BOOLEAN
    /\ test \in {"start", "waitStart", "waitStartFailed", "signal"} => ~signalled
    /\ ~signalled => \A g \in Goroutine : phase[g] # "failing"
    /\ \A j \in 1 .. Len(notified) :
          notified[j] \in FailedWorkers => \E i \in 1 .. j - 1 : notified[i].name = Root

\* A supervisor that started has said so.
UpAnnounced ==
    /\ pc \notin {"build", "boot", "bootRollback", "dead"} => Announced
    /\ pc = "dead" => outcome = "startFailed" \/ Announced
    /\ test \in {"waitStart", "signal"} \/ signalled => Announced

\* The test goes on when it has seen the failure, and is over when the root is.
FailureAwaited ==
    test \in {"terminate", "terminating", "waitEnd"} \/ (test = "done" /\ signalled) =>
        FailureSeen
RootLast ==
    test \in {"waitEnd", "waitStartFailed", "done"} =>
        /\ pc = "dead"
        /\ Len(notified) # 0 /\ notified[Len(notified)].name = Root
        /\ test = "done" => sending["test"] = 0

StoryInv == RootNamed /\ FailuresAsked /\ UpAnnounced /\ FailureAwaited /\ RootLast

\* What was told stays told.
LEMMA CollectKeeps ==
    ASSUME ObservedTypes, RootNamed, FailuresAsked, NEW who \in {"sup", "test"},
           NEW name \in Name, NEW e \in Reports,
           Collect(who, EventOf(name, e)), e = "Failed" => name = Root \/ Announced
    PROVE  /\ Announced => Announced'
           /\ name = Root => Announced'
           /\ FailureSeen => FailureSeen'
           /\ RootNamed'
           /\ (\A j \in 1 .. Len(notified) :
                 notified[j] \in FailedWorkers => \E i \in 1 .. j - 1 : notified[i].name = Root)'
           /\ Len(notified') # 0 /\ notified'[Len(notified')].name = name
<1> DEFINE ev == EventOf(name, e)
<1>1. /\ ev \in EventRecord /\ ev.name = name
      /\ ev.nodeTag = IF name = Root THEN "Supervisor" ELSE "Worker"
      /\ ev.tag = "ProcessFailed" <=> e = "Failed"
  BY EventFacts
<1>2. /\ Len(notified) \in Nat /\ Len(notified') = Len(notified) + 1
      /\ \A i \in 1 .. Len(notified) : notified'[i] = notified[i]
      /\ notified'[Len(notified')] = ev
  BY <1>1, CollectFacts
<1> HIDE DEF ev
<1>3. /\ \A i \in 1 .. Len(notified) : i \in 1 .. Len(notified')
      /\ \A i \in 1 .. Len(notified') : i \in 1 .. Len(notified) \/ i = Len(notified')
      /\ Len(notified') \in 1 .. Len(notified')
  BY <1>2
<1>4. Announced => Announced'
  BY <1>2, <1>3 DEF Announced
<1>5. name = Root => Announced'
  BY <1>1, <1>2, <1>3 DEF Announced
<1>6. FailureSeen => FailureSeen'
  BY <1>2, <1>3 DEF FailureSeen, FailedWorkers
<1>7. RootNamed'
  BY <1>1, <1>2, <1>3 DEF RootNamed
<1>8. ASSUME NEW j \in 1 .. Len(notified'), notified'[j] \in FailedWorkers
      PROVE  \E i \in 1 .. j - 1 : notified'[i].name = Root
  <2>1. CASE j \in 1 .. Len(notified)
    <3>1. PICK i \in 1 .. j - 1 : notified[i].name = Root
      BY <1>2, <1>8, <2>1 DEF FailuresAsked
    <3>2. i \in 1 .. Len(notified)
      BY <1>2, <2>1
    <3> QED
      BY <1>2, <3>1, <3>2
  <2>2. CASE j = Len(notified')
    <3>1. e = "Failed" /\ name # Root
      BY <1>1, <1>2, <1>8, <2>2 DEF FailedWorkers
    <3>2. PICK i \in 1 .. Len(notified) : notified[i].name = Root
      BY <3>1 DEF Announced
    <3>3. i \in 1 .. j - 1
      BY <1>2, <2>2
    <3> QED
      BY <1>2, <3>2, <3>3
  <2> QED
    BY <1>3, <1>8, <2>1, <2>2
<1> QED
  BY <1>1, <1>2, <1>4, <1>5, <1>6, <1>7, <1>8 DEF FailedWorkers

\* The boot of the supervisor ends with its announcement, or has failed.
LEMMA SupervisorBoots ==
    ASSUME SupervisorActs
    PROVE  \/ pc \notin {"build", "boot", "bootRollback", "dead"}
           \/ pc' \in {"build", "boot", "bootRollback"}
           \/ pc = "boot" /\ pc' = "loop"
           \/ pc' = "dead" /\ outcome' = "startFailed"
<1>1. CASE Local \/ Shutdown \/ BackoffCancelled
  BY <1>1 DEF Local, BuildNodes, BuildNodesFails, SpawnChild, AllStarted, SkipChild, CancelChild,
     AllStopped, Cleanup, CheckTolerance, RestartUncounted, BackoffElapses, Shutdown,
     BackoffCancelled, Starting, Stopping
<1>2. ASSUME NEW g \in Goroutine, SupervisorSteps(g) \/ Receive(g)
      PROVE  UNCHANGED pc \/ pc = "loop"
  BY <1>2 DEF SupervisorSteps, StartSucceeds, ChildStopped, ChildAlreadyGone, Receive
<1>3. ASSUME NEW g \in Goroutine, SupervisorSteps(g) \/ Receive(g)
      PROVE  pc # "dead"
  BY <1>3 DEF SupervisorSteps, StartSucceeds, ChildStopped, ChildAlreadyGone, Receive, Starting,
     Stopping
<1> QED
  BY <1>1, <1>2, <1>3 DEF SupervisorActs, SupervisorDoes
\* A step of the supervisor.
LEMMA SupervisorTells ==
    ASSUME CollectorInv, StoryInv, SupervisorActs
    PROVE  StoryInv'
<1> USE DEF StoryInv
<1>1. /\ pc # "dead" /\ UNCHANGED <<managerVars, testVars>>
      /\ \A g \in Goroutine : phase'[g] = "failing" => phase[g] = "failing"
  BY SupervisorStep DEF CollectorInv
<1>2. UNCHANGED <<test, signalled>>
  BY <1>1 DEF testVars
<1>e. Root \in Name /\ "Started" \in Reports /\ "Started" # "Failed"
  BY ObservedAssumption DEF Reports
<1> DEFINE Told == /\ Announced => Announced'
                   /\ (pc = "boot" /\ pc' = "loop") => Announced'
                   /\ FailureSeen => FailureSeen'
                   /\ RootNamed'
                   /\ (\A j \in 1 .. Len(notified) :
                         notified[j] \in FailedWorkers =>
                             \E i \in 1 .. j - 1 : notified[i].name = Root)'
<1>3. Told
  <2>1. CASE pc = "boot" /\ pc' = "loop"
    <3>1. Collect("sup", EventOf(Root, "Started"))
      BY <2>1, SupervisorStep DEF CollectorInv
    <3> QED
      BY <1>e, <3>1, CollectKeeps DEF CollectorInv
  <2>2. CASE ~(pc = "boot" /\ pc' = "loop") /\ UNCHANGED eventVars
    BY <2>2 DEF eventVars, Announced, FailureSeen, RootNamed, FailuresAsked, FailedWorkers
  <2>3. ASSUME ~(pc = "boot" /\ pc' = "loop"), NEW name \in Name, NEW e \in Reports,
               EventSent(name, e)
        PROVE  Told
    <3>1. e = "Failed" => Announced
      BY <2>3 DEF EventSent, FailuresAsked, UpAnnounced
    <3> QED
      BY <2>3, <3>1, CollectKeeps DEF EventSent, CollectorInv
  <2> HIDE DEF Told
  <2> QED
    BY <2>1, <2>2, <2>3, SupervisorStep DEF CollectorInv
<1>4. FailuresAsked'
  BY <1>1, <1>2, <1>3 DEF FailuresAsked
<1>5. UpAnnounced'
  BY <1>1, <1>2, <1>3, SupervisorBoots DEF UpAnnounced
<1>6. FailureAwaited' /\ RootLast'
  BY <1>1, <1>2, <1>3 DEF FailureAwaited, RootLast
<1> QED
  BY <1>3, <1>4, <1>5, <1>6

\* A step that leaves the events and the test alone, and makes no worker fail
\* that was not told to.
LEMMA NothingTold ==
    ASSUME StoryInv, UNCHANGED <<test, notified, signalled, pc, outcome>>,
           sending["test"] = 0 => sending'["test"] = 0,
           signalled \/ \A g \in Goroutine : phase'[g] = "failing" => phase[g] = "failing"
    PROVE  StoryInv'
<1> USE DEF StoryInv
<1>1. RootNamed' /\ (Announced <=> Announced') /\ (FailureSeen <=> FailureSeen')
  BY DEF RootNamed, Announced, FailureSeen, FailedWorkers
<1>2. FailuresAsked'
  BY DEF FailuresAsked, FailedWorkers
<1>3. UpAnnounced' /\ FailureAwaited' /\ RootLast'
  BY <1>1 DEF UpAnnounced, FailureAwaited, RootLast
<1> QED
  BY <1>1, <1>2, <1>3

\* The predicate a test waits for its failure with.
LEMMA WorkerFailedIs == WorkerFailed = FailedWorkers
<1> DEFINE A == {ev \in EventRecord : ev.tag = "ProcessFailed"}
           B == {ev \in EventRecord : ev.nodeTag = "Worker"}
<1>1. AndP(<<A, B>>) = A \cap B
  BY AndOfTwo
<1>2. A \cap B = FailedWorkers
  BY DEF FailedWorkers
<1> QED
  BY <1>1, <1>2 DEF WorkerFailed

\* A turn of WaitTill reads an event that was notified.
LEMMA ReadsNotified ==
    ASSUME CollectorInv, NEW r \in Reader, ReadEvent(r)
    PROVE  /\ evBuffer[reader[r].evIx + 1] \in 1 .. Len(notified)
           /\ evBuffer[reader[r].evIx + 1] = reader[r].evIx + 1
<1>1. reader[r].evIx \in Nat /\ Len(evBuffer) \in Nat /\ Len(notified) \in Nat
  BY DEF CollectorInv, ObservedTypes
<1>2. reader[r].evIx + 1 \in 1 .. Len(evBuffer)
  BY <1>1 DEF ReadEvent
<1>3. Len(evBuffer) <= Len(notified)
  BY <1>1 DEF CollectorInv, Stored
<1> QED
  BY <1>1, <1>2, <1>3 DEF CollectorInv, Stored

\* A step of the test.
LEMMA TestTells ==
    ASSUME CollectorInv, StoryInv, Test
    PROVE  StoryInv'
<1> USE DEF StoryInv
<1>e. /\ Root \in Name /\ {"StartFailed", "Failed", "Terminated"} \subseteq Reports
      /\ "test" \in {"sup", "test"}
  BY ObservedAssumption DEF Reports
<1> DEFINE Same == UNCHANGED <<notified, sending, pc, outcome, phase>>
<1>0. ASSUME Same
      PROVE  /\ RootNamed' /\ (Announced <=> Announced') /\ (FailureSeen <=> FailureSeen')
             /\ (\A j \in 1 .. Len(notified) :
                   notified[j] \in FailedWorkers =>
                       \E i \in 1 .. j - 1 : notified[i].name = Root)'
  BY <1>0 DEF RootNamed, Announced, FailureSeen, FailuresAsked, FailedWorkers
<1>1. CASE StartReturns
  <2>1. Same /\ UNCHANGED signalled /\ test = "start" /\ test' = "waitStart" /\ BootDone
    BY <1>1 DEF StartReturns, Goes, vars, supVars, childVars, eventVars
  <2>2. Announced
    BY <2>1 DEF BootDone, BootFailed, UpAnnounced
  <2> QED
    BY <1>0, <2>1, <2>2 DEF FailuresAsked, UpAnnounced, FailureAwaited, RootLast
<1>2. CASE Signal
  <2>1. Same /\ signalled' = TRUE /\ test = "signal" /\ test' = "callback"
    BY <1>2 DEF Signal, Goes, vars, supVars, childVars, eventVars
  <2> QED
    BY <1>0, <2>1 DEF FailuresAsked, UpAnnounced, FailureAwaited, RootLast
<1>3. CASE CallTerminate
  <2>1. Same /\ UNCHANGED signalled /\ test = "terminate" /\ test' = "terminating"
    BY <1>3 DEF CallTerminate, Terminate, Goes, supVars, childVars, eventVars
  <2> QED
    BY <1>0, <2>1 DEF FailuresAsked, UpAnnounced, FailureAwaited, RootLast
<1>4. ASSUME NEW r, NEW pred, NEW from, NEW to, WaitTill(r, pred, from, to)
      PROVE  /\ Same /\ UNCHANGED signalled /\ test = from /\ test' \in {from, to}
             /\ sending["test"] = 0
             /\ test' # from => notified[evBuffer[reader[r].evIx + 1]] \in pred
             /\ ReadEvent(r)
  BY <1>4 DEF WaitTill, Goes, vars, supVars, childVars, eventVars
<1>5. CASE WaitsForRoot("waitStart", "signal")
  <2>1. Same /\ UNCHANGED signalled /\ test = "waitStart" /\ test' \in {"waitStart", "signal"}
    BY <1>4, <1>5 DEF WaitsForRoot
  <2> QED
    BY <1>0, <2>1 DEF FailuresAsked, UpAnnounced, FailureAwaited, RootLast
<1>6. CASE WaitsForRoot("waitStartFailed", "done")
  <2>1. /\ Same /\ UNCHANGED signalled /\ test = "waitStartFailed"
        /\ test' \in {"waitStartFailed", "done"} /\ sending["test"] = 0
    BY <1>4, <1>6 DEF WaitsForRoot
  <2> QED
    BY <1>0, <2>1 DEF FailuresAsked, UpAnnounced, FailureAwaited, RootLast
<1>7. CASE WaitsForRoot("waitEnd", "done")
  <2>1. /\ Same /\ UNCHANGED signalled /\ test = "waitEnd" /\ test' \in {"waitEnd", "done"}
        /\ sending["test"] = 0
    BY <1>4, <1>7 DEF WaitsForRoot
  <2> QED
    BY <1>0, <2>1 DEF FailuresAsked, UpAnnounced, FailureAwaited, RootLast
<1>8. CASE WaitsForFailure
  <2>1. /\ Same /\ UNCHANGED signalled /\ test = "callback" /\ test' \in {"callback", "terminate"}
        /\ test' # "callback" =>
              notified[evBuffer[reader["callback"].evIx + 1]] \in WorkerFailed
        /\ ReadEvent("callback")
    BY <1>4, <1>8 DEF WaitsForFailure
  <2>2. test' # "callback" => FailureSeen
    BY <2>1, ReadsNotified, WorkerFailedIs, ObservedAssumption DEF FailureSeen
  <2> QED
    BY <1>0, <2>1, <2>2 DEF FailuresAsked, UpAnnounced, FailureAwaited, RootLast
<1>9. ASSUME NEW e \in Reports, Collect("test", EventOf(Root, e)), UNCHANGED <<vars, signalled>>,
             pc = "dead",
             \/ test = "start" /\ test' = "waitStartFailed"
             \/ test = "terminating" /\ test' = "waitEnd"
      PROVE  StoryInv'
  <2>1. /\ Announced' /\ (FailureSeen => FailureSeen') /\ RootNamed'
        /\ (\A j \in 1 .. Len(notified) :
              notified[j] \in FailedWorkers => \E i \in 1 .. j - 1 : notified[i].name = Root)'
        /\ Len(notified') # 0 /\ notified'[Len(notified')].name = Root
    BY <1>e, <1>9, CollectKeeps DEF CollectorInv
  <2>2. UNCHANGED <<pc, outcome, phase>>
    BY <1>9 DEF vars, supVars, childVars
  <2> QED
    BY <1>9, <2>1, <2>2 DEF FailuresAsked, UpAnnounced, FailureAwaited, RootLast
<1>10. CASE StartReturnsError
  BY <1>e, <1>9, <1>10 DEF StartReturnsError, Goes, BootFailed
<1>11. CASE TerminateReturns
  BY <1>e, <1>9, <1>11 DEF TerminateReturns, Goes, SupervisorOver
<1> QED
  BY <1>1, <1>2, <1>3, <1>5, <1>6, <1>7, <1>8, <1>10, <1>11 DEF Test

LEMMA StoryStep ==
    ASSUME CollectorInv, StoryInv, [ObservedNext]_observedVars
    PROVE  StoryInv'
<1>1. ASSUME NEW g \in Goroutine, WorkerFails(g) \/ WorkerIsDone(g)
      PROVE  StoryInv'
  <2>1. UNCHANGED <<test, notified, sending, signalled, pc, outcome>>
    BY <1>1 DEF WorkerFails, WorkerIsDone, Ends, HonorsCancel, ReturnsFrom, supVars, eventVars,
       testVars
  <2>2. signalled \/ \A h \in Goroutine : phase'[h] = "failing" => phase[h] = "failing"
    <3>1. CASE WorkerFails(g)
      BY <3>1 DEF WorkerFails
    <3>2. CASE WorkerIsDone(g)
      BY <3>2 DEF WorkerIsDone, HonorsCancel, ReturnsFrom, CollectorInv, TypeInv, Typed, TypeOK
    <3> QED
      BY <1>1, <3>1, <3>2
  <2> QED
    BY <2>1, <2>2, NothingTold
<1>2. ASSUME UNCHANGED <<vars, testVars, notified>>, sending["test"] = 0 => sending'["test"] = 0
      PROVE  StoryInv'
  BY <1>2, NothingTold DEF vars, supVars, childVars, testVars
<1>3. ASSUME NEW who \in {"sup", "test"}, SendToCollector(who) \/ EventCollected(who)
      PROVE  StoryInv'
  <2>1. UNCHANGED <<vars, testVars, notified>>
    BY <1>3 DEF SendToCollector, EventCollected, eventVars
  <2>2. sending["test"] = 0 => sending'["test"] = 0
    BY <1>3 DEF SendToCollector, EventCollected, eventVars, CollectorInv, ObservedTypes
  <2> QED
    BY <1>2, <2>1, <2>2
<1>4. ASSUME \/ StoreEvent /\ UNCHANGED <<vars, testVars, eventVars>>
             \/ Stop
             \/ \E r \in Reader, froms \in {{"waitStart", "waitStartFailed", "waitEnd"}, {"callback"}} :
                    IteratorWaits(r, froms)
             \/ UNCHANGED observedVars
      PROVE  StoryInv'
  BY <1>2, <1>4 DEF Stop, IteratorWaits, eventVars, observedVars
<1>5. Reader = {"observer", "callback"}
  BY ObservedAssumption
<1>6. CASE SupervisorActs
  BY <1>6, SupervisorTells
<1>7. CASE Test
  BY <1>7, TestTells
<1> QED
  BY <1>1, <1>3, <1>4, <1>5, <1>6, <1>7 DEF ObservedNext, SupervisorActs, TestIsOver
-----------------------------------------------------------------------------
(* What a test gets.                                                       *)

LEMMA StoryInit == ObservedInit => StoryInv
<1> SUFFICES ASSUME ObservedInit
             PROVE  StoryInv
  OBVIOUS
<1>1. notified = << >> /\ Len(notified) = 0 /\ 1 .. 0 = {}
  BY DEF ObservedInit
<1>2. /\ test = "start" /\ signalled = FALSE /\ pc = "build"
      /\ \A g \in Goroutine : phase[g] # "failing"
  BY DEF ObservedInit, Init
<1> QED
  BY <1>1, <1>2 DEF StoryInv, RootNamed, FailuresAsked, UpAnnounced, FailureAwaited, RootLast

LEMMA StoryInvHolds == ObservedSpec => [](CollectorInv /\ StoryInv)
<1>1. ObservedInit => CollectorInv /\ StoryInv
  BY CollectorInit, StoryInit
<1>2. CollectorInv /\ StoryInv /\ [ObservedNext]_observedVars => (CollectorInv /\ StoryInv)'
  BY CollectorStep, StoryStep
<1> QED
  BY <1>1, <1>2, PTL DEF ObservedSpec

\* A test that is over has collected all events, in order.
LEMMA AllCollected ==
    ASSUME CollectorInv, StoryInv, test = "done"
    PROVE  Collected = notified /\ notified \in Seq(EventRecord)
<1>1. sending["test"] = 0 /\ sending["sup"] = 0
  BY DEF StoryInv, RootLast, CollectorInv, InTurns
<1>2. Len(evBuffer) = Len(notified) /\ \A i \in 1 .. Len(evBuffer) : evBuffer[i] = i
  BY <1>1 DEF CollectorInv, Stored, Busy
<1>3. notified \in Seq(EventRecord)
  BY DEF CollectorInv, ObservedTypes
<1>4. Collected = [i \in 1 .. Len(notified) |-> notified[i]]
  BY <1>2 DEF Collected
<1> QED
  BY <1>3, <1>4

\* A test gets all the events there are, however the collector, the supervisor
\* and the test interleave; the last is about the root; and a test whose
\* supervisor started finds a failure of a worker after the start of the root
\* and before its end.
THEOREM SnapshotIsComplete == ObservedSpec => []SnapshotComplete
<1>1. ASSUME CollectorInv, StoryInv
      PROVE  SnapshotComplete
  <2> SUFFICES ASSUME test = "done"
               PROVE  /\ Collected = notified
                      /\ Last(Collected).name = Root
                      /\ signalled => VerifyPartialMatch(
                             <<EHasRuntimeName(Root), WorkerFailed, EHasRuntimeName(Root)>>,
                             Collected) = << >>
    BY DEF SnapshotComplete
  <2> DEFINE preds == <<EHasRuntimeName(Root), WorkerFailed, EHasRuntimeName(Root)>>
             n == Len(notified)
  <2>1. Collected = notified /\ notified \in Seq(EventRecord) /\ n \in Nat
    BY <1>1, AllCollected
  <2>2. n # 0 /\ n \in 1 .. n /\ notified[n].name = Root
    BY <1>1, <2>1 DEF StoryInv, RootLast
  <2>3. ASSUME signalled
        PROVE  Embeds(preds, notified)
    <3>1. PICK j \in 1 .. n : notified[j] \in FailedWorkers
      BY <1>1, <2>3 DEF StoryInv, FailureAwaited, FailureSeen
    <3>2. PICK i \in 1 .. j - 1 : notified[i].name = Root
      BY <1>1, <3>1 DEF StoryInv, FailuresAsked
    <3>3. notified[j].nodeTag = "Worker" /\ notified[n].nodeTag = "Supervisor"
      BY <1>1, <2>2, <3>1 DEF FailedWorkers, StoryInv, RootNamed
    <3>4. j # n
      BY <3>3
    <3>5. i \in 1 .. n /\ i < j /\ j < n
      BY <2>1, <3>4
    <3> DEFINE at == <<i, j, n>>
    <3>6. Len(preds) = 3 /\ at \in [1 .. Len(preds) -> 1 .. Len(notified)]
      BY <2>2, <3>5
    <3>7. /\ notified[i] \in EHasRuntimeName(Root) /\ notified[n] \in EHasRuntimeName(Root)
          /\ notified[j] \in WorkerFailed
      BY <2>1, <2>2, <3>1, <3>2, <3>5, WorkerFailedIs DEF EHasRuntimeName
    <3>8. /\ at[1] = i /\ at[2] = j /\ at[3] = n
          /\ preds[1] = EHasRuntimeName(Root) /\ preds[2] = WorkerFailed
          /\ preds[3] = EHasRuntimeName(Root)
      OBVIOUS
    <3> HIDE DEF at, preds, n
    <3>9. \A k \in 1 .. Len(preds) : notified[at[k]] \in preds[k]
      BY <3>6, <3>7, <3>8
    <3>10. \A k, l \in 1 .. Len(preds) : k < l => at[k] < at[l]
      BY <2>1, <3>5, <3>6, <3>8
    <3> QED
      BY <3>6, <3>9, <3>10 DEF Embeds
  <2>4. preds \in Seq(SUBSET EventRecord)
    BY WorkerFailedIs DEF EHasRuntimeName, FailedWorkers
  <2> HIDE DEF preds
  <2>5. signalled => VerifyPartialMatch(preds, notified) = << >>
    BY <2>1, <2>3, <2>4, PartialMatchEmbeds
  <2> QED
    BY <2>1, <2>2, <2>5 DEF preds, Last
<1> QED
  BY <1>1, StoryInvHolds, PTL

\* What AssertExactMatch accepts has a place for every predicate.
LEMMA ExactEmbeds ==
    ASSUME NEW P, NEW preds \in Seq(P), NEW E, NEW given \in Seq(E),
           VerifyExactMatch(preds, given)
    PROVE  Embeds(preds, given)
<1> DEFINE at == [i \in 1 .. Len(preds) |-> i]
<1>1. /\ Len(preds) \in Nat /\ Len(given) = Len(preds)
      /\ \A i \in 1 .. Len(preds) : given[i] \in preds[i]
  BY DEF VerifyExactMatch
<1>2. at \in [1 .. Len(preds) -> 1 .. Len(given)]
  BY <1>1
<1>3. \A i \in 1 .. Len(preds) : at[i] = i
  OBVIOUS
<1> HIDE DEF at
<1> QED
  BY <1>1, <1>2, <1>3 DEF Embeds

\* The two assertions of a test agree with what they promise on what the test
\* collected, for any predicates.
THEOREM MatchersAreRight == ObservedSpec => []MatchersAgree
<1>1. ASSUME CollectorInv, StoryInv
      PROVE  MatchersAgree
  <2> SUFFICES ASSUME test = "done", NEW k \in 0 .. 3, NEW preds \in [1 .. k -> Predicates]
               PROVE  /\ (VerifyPartialMatch(preds, Collected) = << >>) <=> Embeds(preds, Collected)
                      /\ VerifyExactMatch(preds, Collected) =>
                             VerifyPartialMatch(preds, Collected) = << >>
    BY DEF MatchersAgree
  <2>1. preds \in Seq(Predicates)
    OBVIOUS
  <2>2. Collected \in Seq(EventRecord)
    BY <1>1, AllCollected
  <2> QED
    BY <2>1, <2>2, PartialMatchEmbeds, ExactEmbeds
<1> QED
  BY <1>1, StoryInvHolds, PTL
=============================================================================
