----------------------------- MODULE TreeProofs -----------------------------
(***************************************************************************)
(* Proofs about SupervisionTree, for every value of the constants.         *)
(*                                                                         *)
(*   ParentIsASupervisor   TreeSpec => Spec                                *)
(*   SubtreeTypeCorrect    TreeSpec => []TreeTypeOK                        *)
(*   SubtreeEndsWhole      TreeSpec => []NothingOutlivesSubtree            *)
(*   SubtreeStopsWhole     TreeSpec => []WholeSubtreeFirst                 *)
(*                                                                         *)
(* The invariant has a part about the parent, which is one of Supervisor,  *)
(* the invariants of SupervisorProofs about the supervisor inside the      *)
(* child, and a part that relates the two.                                 *)
(***************************************************************************)
EXTENDS SupervisionTree, LifecycleProofs

-----------------------------------------------------------------------------
(* The parent is a supervisor, and so is the sub-tree.                     *)

\* A step of the tree is one of the parent, or leaves the parent alone.
LEMMA ParentStep == [TreeNext]_treeVars => [Next]_vars
<1> SUFFICES ASSUME [TreeNext]_treeVars
             PROVE  [Next]_vars
  OBVIOUS
<1>1. CASE ParentGoes
  BY <1>1 DEF ParentGoes, Next
<1>2. CASE \/ Outside(Shutdown) \/ Outside(BackoffCancelled)
           \/ Outside(Terminate) \/ Outside(Over)
  BY <1>2 DEF Outside, Next
<1>3. ASSUME NEW g \in Goroutine,
             \/ SubtreeStarts(g) \/ SubtreeStartFails(g) \/ SubtreeReturns(g)
             \/ SiblingStarts(g) \/ SiblingEnds(g) \/ SiblingHonorsCancel(g)
             \/ Outside(ChildStopped(g) \/ ChildAlreadyGone(g) \/ ShutdownTimesOut(g))
             \/ Outside(Receive(g) \/ PanicUnknownChild(g))
      PROVE  Next
  BY <1>3
  DEF SubtreeStarts, SubtreeStartFails, SubtreeReturns, SiblingStarts, SiblingEnds,
      SiblingHonorsCancel, Outside, Next
<1>4. CASE \/ SubtreeGoes \/ Inside(Sub!Shutdown) \/ Inside(Sub!BackoffCancelled)
           \/ \E h \in SubGoroutine :
                 \/ Inside(Sub!StartSucceeds(h))
                 \/ Inside(Sub!Ends(h)) \/ Inside(Sub!HonorsCancel(h))
                 \/ Inside(Sub!ChildStopped(h) \/ Sub!ChildAlreadyGone(h))
                 \/ Inside(Sub!Receive(h) \/ Sub!PanicUnknownChild(h))
  BY <1>4 DEF SubtreeGoes, Inside
<1>5. CASE UNCHANGED treeVars
  BY <1>5 DEF treeVars
<1> QED
  BY <1>1, <1>2, <1>3, <1>4, <1>5 DEF TreeNext

\* To its parent a sub-tree is a child as Supervisor assumes it: what is proved
\* of Spec holds of the parent of a sub-tree (subtree, internal/s/subtree.go).
THEOREM ParentIsASupervisor == TreeSpec => Spec
<1>1. TreeInit => Init
  BY DEF TreeInit
<1> QED
  BY <1>1, ParentStep, PTL DEF TreeSpec, Spec

\* What is proved of a supervisor holds of the one inside the child.
SubProofs == INSTANCE SupervisorProofs WITH
    Child <- SubChild, Specs <- SubSpecs, Strategies <- SubStrategies,
    Restart <- SubRestart, Timed <- {}, CanFailStart <- {},
    CanSkipNotify <- {}, BuildCanFail <- SubBuildCanFail,
    CleanupCanFail <- SubCleanupCanFail, Goroutine <- SubGoroutine,
    specs <- subSpecs, strategy <- subStrategy, pc <- subPc, todo <- subTodo,
    waiting <- subWaiting, source <- subSource, erred <- subErred,
    children <- subChildren, phase <- subPhase, owner <- subOwner,
    restartCount <- subRestartCount, ctxDone <- subCtxDone,
    resources <- subResources, outcome <- subOutcome, reported <- subReported

\* The steps of the loop in the child, and of its workers.
SubInside ==
    \/ Sub!Local \/ Sub!Shutdown \/ Sub!BackoffCancelled
    \/ \E h \in SubGoroutine :
          \/ Sub!StartSucceeds(h) \/ Sub!Ends(h) \/ Sub!HonorsCancel(h)
          \/ Sub!ChildStopped(h) \/ Sub!ChildAlreadyGone(h)
          \/ Sub!Receive(h) \/ Sub!PanicUnknownChild(h)

\* Those of the specification and those the proofs are about are the same.
LEMMA SubIsASupervisor == SubInside => SubProofs!Next
<1> USE DEF Sub!specVars, Sub!supVars, Sub!childVars, Sub!Starting, Sub!Stopping,
            Sub!StartOrder, Sub!TerminationOrder, Sub!Pending, Sub!Exit, Sub!Report,
            Sub!WaitIsOver, Sub!Reverse, SubProofs!specVars, SubProofs!supVars,
            SubProofs!childVars, SubProofs!Starting, SubProofs!Stopping, SubProofs!StartOrder,
            SubProofs!TerminationOrder, SubProofs!Pending, SubProofs!Exit, SubProofs!Report,
            SubProofs!WaitIsOver, SubProofs!Reverse
<1>1. /\ Sub!BuildNodes => SubProofs!BuildNodes
      /\ Sub!BuildNodesFails => SubProofs!BuildNodesFails
      /\ Sub!AllStarted => SubProofs!AllStarted
      /\ Sub!SkipChild => SubProofs!SkipChild
      /\ Sub!Cleanup => SubProofs!Cleanup
      /\ Sub!Shutdown => SubProofs!Shutdown
      /\ Sub!BackoffCancelled => SubProofs!BackoffCancelled
  BY DEF Sub!BuildNodes, Sub!BuildNodesFails, Sub!AllStarted, Sub!SkipChild, Sub!Skipped,
         Sub!Cleanup, Sub!Shutdown, Sub!BackoffCancelled,
         SubProofs!BuildNodes, SubProofs!BuildNodesFails, SubProofs!AllStarted,
         SubProofs!SkipChild, SubProofs!Skipped, SubProofs!Cleanup, SubProofs!Shutdown,
         SubProofs!BackoffCancelled
<1>2. /\ Sub!SpawnChild => SubProofs!SpawnChild
      /\ Sub!CancelChild => SubProofs!CancelChild
  BY DEF Sub!SpawnChild, Sub!FreeGoroutines, Sub!Tracked, Sub!CancelChild, Sub!Skipped,
         SubProofs!SpawnChild, SubProofs!FreeGoroutines, SubProofs!Tracked,
         SubProofs!CancelChild, SubProofs!Skipped
<1>3. Sub!AllStopped => SubProofs!AllStopped
  BY DEF Sub!AllStopped, Sub!RestartFromScratch, Sub!NoChildren,
         SubProofs!AllStopped, SubProofs!RestartFromScratch, SubProofs!NoChildren
<1>4. Sub!CheckTolerance => SubProofs!CheckTolerance
  BY DEF Sub!CheckTolerance, Sub!WithinWindow, Sub!Check, Sub!NextCount, Sub!CountAfter,
         Sub!GiveUp, Sub!WaitThenRestart, Sub!BeginRestart,
         SubProofs!CheckTolerance, SubProofs!WithinWindow, SubProofs!Check, SubProofs!NextCount,
         SubProofs!CountAfter, SubProofs!GiveUp, SubProofs!WaitThenRestart,
         SubProofs!BeginRestart
<1>5. /\ Sub!RestartUncounted => SubProofs!RestartUncounted
      /\ Sub!BackoffElapses => SubProofs!BackoffElapses
  BY DEF Sub!RestartUncounted, Sub!WaitThenRestart, Sub!BeginRestart, Sub!BackoffElapses,
         SubProofs!RestartUncounted, SubProofs!WaitThenRestart, SubProofs!BeginRestart,
         SubProofs!BackoffElapses
<1>6. ASSUME NEW h \in SubGoroutine
      PROVE  /\ Sub!StartSucceeds(h) => SubProofs!StartSucceeds(h)
             /\ Sub!Ends(h) => SubProofs!Ends(h)
             /\ Sub!HonorsCancel(h) => SubProofs!HonorsCancel(h)
             /\ Sub!ChildAlreadyGone(h) => SubProofs!ChildAlreadyGone(h)
  BY DEF Sub!StartSucceeds, Sub!RecordStart, Sub!Ends, Sub!ReturnsFrom, Sub!HonorsCancel,
         Sub!ChildAlreadyGone,
         SubProofs!StartSucceeds, SubProofs!RecordStart, SubProofs!Ends, SubProofs!ReturnsFrom,
         SubProofs!HonorsCancel, SubProofs!ChildAlreadyGone
<1>7. ASSUME NEW h \in SubGoroutine
      PROVE  Sub!ChildStopped(h) => SubProofs!ChildStopped(h)
  BY DEF Sub!ChildStopped, Sub!StopFails, Sub!TerminationFailed,
         SubProofs!ChildStopped, SubProofs!StopFails, SubProofs!TerminationFailed
<1>8. ASSUME NEW h \in SubGoroutine
      PROVE  /\ Sub!Receive(h) => SubProofs!Receive(h)
             /\ Sub!PanicUnknownChild(h) => SubProofs!PanicUnknownChild(h)
  BY DEF Sub!Receive, Sub!NeedsRestart, Sub!EnterRestartLoop, Sub!PanicUnknownChild,
         SubProofs!Receive, SubProofs!NeedsRestart, SubProofs!EnterRestartLoop,
         SubProofs!PanicUnknownChild
<1> QED
  BY <1>1, <1>2, <1>3, <1>4, <1>5, <1>6, <1>7, <1>8
  DEF SubInside, Sub!Local, SubProofs!Next, SubProofs!Local

\* What is known of the supervisor in the child.
SubFacts == SubProofs!TypeInv /\ SubProofs!SupervisionInv

\* The assumptions of Supervisor, about the sub-tree; its workers start and
\* stop reliably, and its specification lists all of them.
LEMMA SubPremises ==
    /\ SubProofs!ReliableChildren /\ SubProofs!StaticChildren
    /\ SubSpecs \in Seq(SubChild)
    /\ \A i, j \in 1 .. Len(SubSpecs) : SubSpecs[i] = SubSpecs[j] => i = j
    /\ SubStrategies \subseteq {"OneForOne", "OneForAll"}
    /\ SubRestart \in [SubChild -> {"Permanent", "Transient", "Temporary"}]
    /\ {HasBackoff, WindowForever, SubBuildCanFail, SubCleanupCanFail} \subseteq BOOLEAN
    /\ None \notin SubChild \cup SubGoroutine
    /\ Order \in {"LeftToRight", "RightToLeft"} /\ MaxStale \in Nat
    /\ MaxRestartCount + 1 < CountLimit
  BY TreeAssumption, SupervisorAssumption
  DEF SubProofs!ReliableChildren, SubProofs!StaticChildren

LEMMA SubFactsStep ==
    ASSUME SubFacts, SubInside
    PROVE  SubFacts'
<1>1. SubProofs!TypeInv'
  BY SubIsASupervisor, SubPremises, ToleranceAssumption, SubProofs!TypeInvStep DEF SubFacts
<1>2. SubProofs!SupervisionInv'
  BY SubIsASupervisor, SubPremises, ToleranceAssumption, SubProofs!SupervisionStep DEF SubFacts
<1> QED
  BY <1>1, <1>2 DEF SubFacts

\* A supervisor that has not begun.
LEMMA SubFactsAtFirst == SubProofs!Init => SubFacts
  BY SubPremises, ToleranceAssumption, SubProofs!TypeInvInit, SubProofs!SupervisionInit DEF SubFacts

LEMMA SubFactsAfterRun == SubFacts /\ Run => SubFacts'
<1>1. SubFacts /\ Run => SubProofs!Init'
  BY DEF SubFacts, Run, SubProofs!TypeInv, SubProofs!Typed, SubProofs!TypeOK, SubProofs!SpecsKept,
         SubProofs!Init, SubProofs!NoChildren
<1> QED
  BY <1>1, SubFactsAtFirst, PTL
-----------------------------------------------------------------------------
(* The parent, one of whose children may fail to start at boot.            *)

\* A goroutine that does not exist has no name.
FreeUnowned == \A g \in Goroutine : phase[g] = "free" => owner[g] = None

\* The supervisor waits for every goroutine of the map that it has cancelled.
CancelWaited ==
    \A c \in Child :
        (children[c] # None /\ phase[children[c]] = "stopping") =>
            pc \in Stopping /\ waiting = children[c]

\* A failed boot is the end, and no restart fails.
Failed == pc = "bootRollback" \/ outcome = "startFailed"
FailsAtBoot ==
    /\ pc # "restartRollback"
    /\ outcome = "startFailed" => pc = "dead"

ParentInv ==
    /\ TypeInv /\ ListInv /\ Books
    /\ FreeUnowned /\ CancelWaited /\ EndOfTerminationOrder /\ FailsAtBoot
    /\ Failed \/ Keeping

\* Goroutines come and go with their names.
LEMMA FreeUnownedStep ==
    ASSUME Typed, FreeUnowned, [Next]_vars
    PROVE  FreeUnowned'
<1> USE DEF FreeUnowned
<1>0. /\ phase \in [Goroutine -> Phase] /\ owner \in [Goroutine -> Child \cup {None}]
      /\ todo \in Seq(Child) /\ waiting \in Goroutine \cup {None}
  BY DEF Typed, TypeOK
<1>1. CASE UNCHANGED <<phase, owner>>
  BY <1>1
<1>2. CASE SpawnChild
  BY <1>0, <1>2, TailFacts DEF SpawnChild, FreeGoroutines
<1>3. CASE CancelChild
  BY <1>0, <1>3 DEF CancelChild
<1>4. ASSUME NEW g \in Goroutine, StartSucceeds(g)
      PROVE  FreeUnowned'
  BY <1>0, <1>4 DEF StartSucceeds, RecordStart
<1>5. ASSUME NEW g \in Goroutine, ReturnsWithoutNotify(g) \/ Ends(g) \/ HonorsCancel(g)
      PROVE  FreeUnowned'
  BY <1>0, <1>5 DEF ReturnsWithoutNotify, Ends, HonorsCancel, ReturnsFrom
<1>6. ASSUME NEW g \in Goroutine,
             \/ StartFails(g) \/ ChildStopped(g) \/ ChildAlreadyGone(g) \/ ShutdownTimesOut(g)
             \/ Receive(g) \/ PanicUnknownChild(g)
      PROVE  FreeUnowned'
  <2>1. \/ UNCHANGED <<phase, owner>>
        \/ /\ phase' = [phase EXCEPT ![g] = "free"]
           /\ owner' = [owner EXCEPT ![g] = None]
        \/ /\ \E p \in {"failing", "completing"} : phase' = [phase EXCEPT ![g] = p]
           /\ UNCHANGED owner
    BY <1>0, <1>6
    DEF StartFails, ChildStopped, ChildAlreadyGone, ShutdownTimesOut, Receive, PanicUnknownChild,
        LeaveBehind, Exit
  <2> QED
    BY <1>0, <2>1
<1>7. CASE \/ BuildNodes \/ BuildNodesFails \/ AllStarted \/ SkipChild \/ AllStopped \/ Cleanup
           \/ CheckTolerance \/ RestartUncounted \/ BackoffElapses \/ Shutdown \/ BackoffCancelled
           \/ Terminate \/ UNCHANGED vars
  <2>1. UNCHANGED <<phase, owner>>
    BY <1>7
    DEF BuildNodes, BuildNodesFails, AllStarted, SkipChild, AllStopped, Cleanup, CheckTolerance,
        RestartUncounted, BackoffElapses, Shutdown, BackoffCancelled, Terminate, vars, childVars
  <2> QED
    BY <1>1, <2>1
<1> QED
  BY <1>2, <1>3, <1>4, <1>5, <1>6, <1>7 DEF Next, Local, Over

\* Only the goroutine that is waited for is cancelled.
LEMMA CancelWaitedStep ==
    ASSUME Typed, Books, CancelWaited, [Next]_vars
    PROVE  CancelWaited'
<1> USE DEF CancelWaited, Stopping
<1>0. /\ children \in [Child -> Goroutine \cup {None}]
      /\ phase \in [Goroutine -> Phase] /\ owner \in [Goroutine -> Child \cup {None}]
      /\ todo \in Seq(Child) /\ waiting \in Goroutine \cup {None}
      /\ pc \in Location /\ WaitingKnown /\ MapOwned
      /\ None \notin Child /\ None \notin Goroutine
  BY NoneIsFresh DEF Typed, TypeOK, Books
<1>1. CASE SpawnChild
  BY <1>0, <1>1 DEF SpawnChild, FreeGoroutines, Tracked, Starting
<1>2. CASE CancelChild
  <2>1. /\ pc \in Stopping /\ pc' = pc /\ UNCHANGED children
        /\ Head(todo) \in Child /\ children[Head(todo)] \in Goroutine
        /\ waiting = None /\ waiting' = children[Head(todo)]
        /\ \A h \in Goroutine : h # children[Head(todo)] => phase'[h] = phase[h]
    BY <1>0, <1>2, TailFacts DEF CancelChild
  <2> QED
    BY <1>0, <2>1
<1>3. CASE AllStopped
  BY <1>0, <1>3 DEF AllStopped, RestartFromScratch, NoChildren
<1>4. CASE \/ BuildNodes \/ BuildNodesFails \/ AllStarted \/ SkipChild \/ Cleanup
           \/ Shutdown \/ BackoffCancelled \/ Terminate \/ UNCHANGED vars
  BY <1>0, <1>4
  DEF BuildNodes, BuildNodesFails, AllStarted, SkipChild, Cleanup, Shutdown, BackoffCancelled,
      Terminate, vars, supVars, childVars, Starting
<1>5. CASE CheckTolerance \/ RestartUncounted \/ BackoffElapses
  <2>1. pc \notin Stopping /\ UNCHANGED <<children, phase, waiting>>
    BY <1>5 DEF CheckTolerance, RestartUncounted, BackoffElapses, GiveUp, childVars
  <2> QED
    BY <1>0, <2>1
<1>6. ASSUME NEW g \in Goroutine, StartSucceeds(g) \/ StartFails(g)
      PROVE  CancelWaited'
  <2>1. /\ pc \notin Stopping
        /\ \A h \in Goroutine : phase'[h] = "stopping" => phase[h] = "stopping"
        /\ phase'[g] # "stopping"
        /\ \A c \in Child : children'[c] = children[c] \/ children'[c] = g
    BY <1>0, <1>6 DEF StartSucceeds, RecordStart, StartFails, LeaveBehind, Starting
  <2> QED
    BY <1>0, <2>1
<1>7. ASSUME NEW g \in Goroutine, ReturnsWithoutNotify(g) \/ Ends(g) \/ HonorsCancel(g)
      PROVE  CancelWaited'
  BY <1>0, <1>7 DEF ReturnsWithoutNotify, Ends, HonorsCancel, ReturnsFrom, supVars
<1>8. ASSUME NEW g \in Goroutine, ChildStopped(g) \/ ChildAlreadyGone(g) \/ ShutdownTimesOut(g)
      PROVE  CancelWaited'
  <2>1. /\ pc \in Stopping /\ waiting = g /\ g # None /\ pc' = pc
        /\ Head(todo) \in Child /\ children[Head(todo)] = g
        /\ children' = [children EXCEPT ![Head(todo)] = None]
        /\ \A h \in Goroutine : phase'[h] = "stopping" => phase[h] = "stopping"
    BY <1>0, <1>8, TailFacts
    DEF ChildStopped, ChildAlreadyGone, ShutdownTimesOut, WaitIsOver, WaitingKnown, Exit, LeaveBehind,
        Books, WaitingFor, Starting
  <2>2. ASSUME NEW c \in Child, children'[c] # None, phase'[children'[c]] = "stopping"
        PROVE  FALSE
    <3>1. c # Head(todo) /\ children[c] # None /\ phase[children[c]] = "stopping"
      BY <1>0, <2>1, <2>2
    <3>2. children[c] = g /\ owner[g] = c
      BY <1>0, <2>1, <3>1 DEF MapOwned, EntryDone
    <3> QED
      BY <1>0, <2>1, <3>1, <3>2 DEF MapOwned, EntryDone
  <2> QED
    BY <2>2
<1>9. ASSUME NEW g \in Goroutine, Receive(g) \/ PanicUnknownChild(g)
      PROVE  CancelWaited'
  BY <1>0, <1>9 DEF Receive, PanicUnknownChild, EnterRestartLoop, Exit
<1> QED
  BY <1>1, <1>2, <1>3, <1>4, <1>5, <1>6, <1>7, <1>8, <1>9 DEF Next, Local, Over

\* What is left to stop is the end of the termination order.
LEMMA EndOfTerminationOrderStep ==
    ASSUME TypeInv, EndOfTerminationOrder, [Next]_vars
    PROVE  EndOfTerminationOrder'
<1> USE DEF EndOfTerminationOrder
<1>0. pc \in Location /\ todo \in Seq(Child)
  BY DEF TypeInv, Typed, TypeOK
<1>orders. /\ TerminationOrder \in Seq(Child) /\ TerminationOrder' = TerminationOrder
           /\ EndOf(TerminationOrder, TerminationOrder)
  BY TypeInvStep, OrdersKept, OrdersUnique, EndOfSelf
<1>1. CASE UNCHANGED <<pc, todo>>
  BY <1>orders, <1>1
<1>2. CASE pc' \in Stopping /\ todo' = TerminationOrder
  BY <1>orders, <1>2
<1>3. CASE pc' \notin Stopping
  BY <1>3
<1>4. CASE pc \in Stopping /\ pc' = pc /\ todo # << >> /\ todo' = Tail(todo)
  BY <1>0, <1>orders, <1>4, EndOfTail
<1>5. CASE \/ BuildNodes \/ BuildNodesFails \/ AllStarted \/ Cleanup \/ AllStopped
           \/ Shutdown \/ BackoffCancelled
  BY <1>2, <1>3, <1>5
  DEF BuildNodes, BuildNodesFails, AllStarted, Cleanup, AllStopped, Shutdown, BackoffCancelled,
      Stopping
<1>6. CASE SpawnChild \/ CancelChild \/ Terminate \/ UNCHANGED vars
  BY <1>1, <1>6 DEF SpawnChild, CancelChild, Terminate, vars, supVars
<1>7. CASE SkipChild
  BY <1>4, <1>7 DEF SkipChild
<1>8. CASE CheckTolerance \/ RestartUncounted \/ BackoffElapses
  <2>1. \/ pc' \in {"backoff", "restart"}
        \/ pc' \in {"shutdown", "siblings"} /\ todo' = TerminationOrder
    BY <1>8
    DEF CheckTolerance, RestartUncounted, BackoffElapses, GiveUp, WaitThenRestart, BeginRestart
  <2> QED
    BY <1>2, <1>3, <2>1 DEF Stopping
<1>9. ASSUME NEW g \in Goroutine, StartSucceeds(g) \/ StartFails(g)
      PROVE  EndOfTerminationOrder'
  <2>1. \/ pc \in Starting /\ pc' = pc
        \/ pc' = "tolerance"
        \/ pc' \in {"bootRollback", "restartRollback"} /\ todo' = TerminationOrder
    BY <1>9 DEF StartSucceeds, StartFails, AbortStart
  <2> QED
    BY <1>2, <1>3, <2>1 DEF Starting, Stopping
<1>10. ASSUME NEW g \in Goroutine, ReturnsWithoutNotify(g) \/ Ends(g) \/ HonorsCancel(g)
       PROVE  EndOfTerminationOrder'
  BY <1>1, <1>10 DEF ReturnsWithoutNotify, Ends, HonorsCancel, ReturnsFrom, supVars
<1>11. ASSUME NEW g \in Goroutine, ChildStopped(g) \/ ChildAlreadyGone(g) \/ ShutdownTimesOut(g)
       PROVE  EndOfTerminationOrder'
  <2>1. /\ pc \in Stopping /\ pc' = pc /\ waiting = g /\ todo' = Tail(todo)
        /\ todo # << >>
    BY <1>11, NoneIsFresh
    DEF ChildStopped, ChildAlreadyGone, ShutdownTimesOut, WaitIsOver, TypeInv, Typed, WaitingKnown
  <2> QED
    BY <1>4, <2>1
<1>12. ASSUME NEW g \in Goroutine, Receive(g) \/ PanicUnknownChild(g)
       PROVE  EndOfTerminationOrder'
  <2>1. pc' \in {"loop", "tolerance", "panicked"}
    BY <1>12 DEF Receive, PanicUnknownChild, EnterRestartLoop
  <2> QED
    BY <1>3, <2>1 DEF Stopping
<1> QED
  BY <1>5, <1>6, <1>7, <1>8, <1>9, <1>10, <1>11, <1>12 DEF Next, Local, Over

\* While a child is starting, the supervisor waits for it.
LEMMA WhileStarting ==
    ASSUME Typed, Books, [Next]_vars, NEW g \in Goroutine,
           phase[g] = "starting", phase'[g] = "starting"
    PROVE  pc' = pc
<1>1. pc \in Starting /\ waiting = g /\ g # None
  BY NoneIsFresh DEF Books, OnlyWaitedStart
<1>2. phase \in [Goroutine -> Phase]
  BY DEF Typed, TypeOK
<1>3. CASE \/ BuildNodes \/ BuildNodesFails \/ SpawnChild \/ AllStarted \/ SkipChild \/ CancelChild
           \/ AllStopped \/ Cleanup \/ CheckTolerance \/ RestartUncounted \/ BackoffElapses
           \/ Shutdown \/ BackoffCancelled
  BY <1>1, <1>3
  DEF BuildNodes, BuildNodesFails, SpawnChild, AllStarted, SkipChild, CancelChild, AllStopped,
      Cleanup, CheckTolerance, RestartUncounted, BackoffElapses, Shutdown, BackoffCancelled,
      Starting, Stopping
<1>4. CASE Terminate \/ UNCHANGED vars
  BY <1>4 DEF Terminate, vars, supVars
<1>5. ASSUME NEW h \in Goroutine, StartFails(h)
      PROVE  FALSE
  BY <1>1, <1>2, <1>5 DEF StartFails, LeaveBehind
<1>6. ASSUME NEW h \in Goroutine,
             \/ StartSucceeds(h) \/ ReturnsWithoutNotify(h) \/ Ends(h) \/ HonorsCancel(h)
             \/ ChildStopped(h) \/ ChildAlreadyGone(h) \/ ShutdownTimesOut(h)
      PROVE  pc' = pc
  BY <1>6
  DEF StartSucceeds, ReturnsWithoutNotify, Ends, HonorsCancel, ReturnsFrom, ChildStopped,
      ChildAlreadyGone, ShutdownTimesOut, supVars
<1>7. ASSUME NEW h \in Goroutine, Receive(h) \/ PanicUnknownChild(h)
      PROVE  FALSE
  BY <1>1, <1>7 DEF Receive, PanicUnknownChild, Starting
<1> QED
  BY <1>3, <1>4, <1>5, <1>6, <1>7 DEF Next, Local, Over

\* A failed boot is rolled back, and the supervisor ends.
LEMMA FailedStays ==
    ASSUME Typed, Books, FailsAtBoot, Failed, [Next]_vars
    PROVE  Failed' /\ FailsAtBoot' /\ \A g \in Goroutine : Up(g)' => owner'[g] = owner[g] /\ Up(g)
<1> USE DEF FailsAtBoot, Failed, Up
<1>0. /\ pc \in {"bootRollback", "dead"} /\ (pc = "dead" => outcome = "startFailed")
      /\ phase \in [Goroutine -> Phase] /\ owner \in [Goroutine -> Child \cup {None}]
      /\ children \in [Child -> Goroutine \cup {None}]
  BY DEF Typed, TypeOK
<1>1. CASE UNCHANGED <<pc, outcome, phase, owner>>
  BY <1>1
<1>2. CASE \/ BuildNodes \/ BuildNodesFails \/ SpawnChild \/ AllStarted \/ Cleanup
           \/ CheckTolerance \/ RestartUncounted \/ BackoffElapses \/ Shutdown \/ BackoffCancelled
  BY <1>0, <1>2
  DEF BuildNodes, BuildNodesFails, SpawnChild, AllStarted, Cleanup, CheckTolerance,
      RestartUncounted, BackoffElapses, Shutdown, BackoffCancelled, Starting
<1>3. CASE SkipChild \/ Terminate \/ UNCHANGED vars
  BY <1>1, <1>3 DEF SkipChild, Terminate, vars, supVars, childVars
<1>4. CASE CancelChild
  BY <1>0, <1>4 DEF CancelChild
<1>5. CASE AllStopped
  BY <1>0, <1>5 DEF AllStopped, Stopping
<1>6. ASSUME NEW g \in Goroutine,
             StartSucceeds(g) \/ StartFails(g) \/ Receive(g) \/ PanicUnknownChild(g)
      PROVE  FALSE
  BY <1>0, <1>6 DEF StartSucceeds, StartFails, Receive, PanicUnknownChild, Starting
<1>7. ASSUME NEW g \in Goroutine, ReturnsWithoutNotify(g) \/ Ends(g) \/ HonorsCancel(g)
      PROVE  Failed' /\ FailsAtBoot' /\ \A h \in Goroutine : Up(h)' => owner'[h] = owner[h] /\ Up(h)
  BY <1>0, <1>7 DEF ReturnsWithoutNotify, Ends, HonorsCancel, ReturnsFrom, supVars
<1>8. ASSUME NEW g \in Goroutine, ChildStopped(g) \/ ChildAlreadyGone(g) \/ ShutdownTimesOut(g)
      PROVE  Failed' /\ FailsAtBoot' /\ \A h \in Goroutine : Up(h)' => owner'[h] = owner[h] /\ Up(h)
  <2>1. pc = "bootRollback" /\ pc' = pc /\ outcome' = outcome
    BY <1>0, <1>8
    DEF ChildStopped, ChildAlreadyGone, ShutdownTimesOut, StopFails, TerminationFailed, Stopping
  <2>2. \/ UNCHANGED <<phase, owner>>
        \/ /\ phase' = [phase EXCEPT ![g] = "free"]
           /\ owner' = [owner EXCEPT ![g] = None]
    BY <1>0, <1>8 DEF ChildStopped, ChildAlreadyGone, ShutdownTimesOut, Exit, LeaveBehind
  <2> QED
    BY <1>0, <2>1, <2>2
<1> QED
  BY <1>2, <1>3, <1>4, <1>5, <1>6, <1>7, <1>8 DEF Next, Local, Over

\* The starts that fail are those of the boot.
OnlyBootFails == \A g \in Goroutine : StartFails(g) => pc = "boot"

\* A start that fails begins the rollback of the boot.
LEMMA BootFails ==
    ASSUME OnlyBootFails, FailsAtBoot, NEW g \in Goroutine, StartFails(g)
    PROVE  Failed' /\ FailsAtBoot'
  BY DEF OnlyBootFails, FailsAtBoot, Failed, StartFails, AbortStart

\* While no start fails, only the nodes may fail to be built.
LEMMA FailsAtBootStep ==
    ASSUME StartsSucceed, TypeInv, Books, FailsAtBoot, ~Failed, [Next]_vars
    PROVE  FailsAtBoot' /\ (Failed' => pc = "build")
<1>1. NoRollback'
  <2>1. Frame
    BY DEF Frame, NoRollback, Failed, FailsAtBoot
  <2> QED
    BY <2>1, FrameStep DEF TypeInv, Frame
<1>2. outcome' = "startFailed" => pc' = "dead" /\ pc = "build"
  <2>1. outcome # "startFailed" /\ pc # "bootRollback"
    BY DEF Failed
  <2>2. ASSUME \/ BuildNodes \/ SpawnChild \/ AllStarted \/ SkipChild \/ CancelChild \/ Cleanup
               \/ Shutdown \/ BackoffCancelled \/ Terminate \/ UNCHANGED vars
               \/ RestartUncounted \/ BackoffElapses
        PROVE  outcome' # "startFailed"
    BY <2>1, <2>2
    DEF BuildNodes, SpawnChild, AllStarted, SkipChild, CancelChild, Cleanup, Shutdown,
        BackoffCancelled, Terminate, vars, RestartUncounted, BackoffElapses
  <2>3. ASSUME BuildNodesFails \/ AllStopped \/ CheckTolerance
        PROVE  outcome' = "startFailed" => pc' = "dead" /\ pc = "build"
    BY <2>1, <2>3 DEF BuildNodesFails, AllStopped, CheckTolerance, GiveUp
  <2>4. ASSUME NEW g \in Goroutine,
               \/ StartSucceeds(g) \/ ReturnsWithoutNotify(g) \/ Ends(g) \/ HonorsCancel(g)
               \/ ChildStopped(g) \/ ChildAlreadyGone(g) \/ ShutdownTimesOut(g)
               \/ Receive(g) \/ PanicUnknownChild(g)
        PROVE  outcome' # "startFailed"
    BY <2>1, <2>4
    DEF StartSucceeds, ReturnsWithoutNotify, Ends, HonorsCancel, ReturnsFrom, ChildStopped,
        StopFails, TerminationFailed, ChildAlreadyGone, ShutdownTimesOut, Receive,
        PanicUnknownChild
  <2> QED
    BY <2>2, <2>3, <2>4 DEF Next, Local, Over, StartsSucceed
<1> QED
  BY <1>1, <1>2 DEF FailsAtBoot, NoRollback, Failed

\* Every step of a supervisor whose starts fail at boot only keeps ParentInv.
LEMMA ParentInvStep ==
    ASSUME ParentInv, OnlyBootFails, [Next]_vars
    PROVE  ParentInv'
<1>0. /\ TypeInv /\ Typed /\ specs \in Seq(Child) /\ ListedOnce /\ ListInv /\ Books
      /\ FreeUnowned /\ CancelWaited /\ EndOfTerminationOrder /\ FailsAtBoot
  BY SupervisorAssumption DEF ParentInv, TypeInv, Typed, TypeOK, SpecsKept, ListedOnce
<1>1. /\ TypeInv' /\ ListInv' /\ Books' /\ FreeUnowned' /\ CancelWaited'
      /\ EndOfTerminationOrder'
  BY <1>0, TypeInvStep, HomeListed, BooksStep, FreeUnownedStep, CancelWaitedStep,
     EndOfTerminationOrderStep
<1>2. FailsAtBoot' /\ (Failed' \/ Keeping')
  <2>1. CASE Failed
    BY <1>0, <2>1, FailedStays
  <2>2. ASSUME NEW g \in Goroutine, StartFails(g)
        PROVE  FailsAtBoot' /\ Failed'
    BY <1>0, <2>2, BootFails
  <2>3. CASE ~Failed /\ StartsSucceed
    <3>1. Keeping /\ Frame
      BY <1>0, <2>3 DEF ParentInv, Frame, NoRollback, Failed, FailsAtBoot
    <3> QED
      BY <1>0, <2>3, <3>1, KeepingStep, FailsAtBootStep
  <2> QED
    BY <2>1, <2>2, <2>3 DEF StartsSucceed
<1> QED
  BY <1>1, <1>2 DEF ParentInv

LEMMA ParentInvInit == Init => ParentInv
<1> SUFFICES ASSUME Init PROVE ParentInv
  OBVIOUS
<1>1. TypeInv
  BY TypeInvInit
<1> QED
  BY <1>1, NoneIsFresh
  DEF Init, NoChildren, ParentInv, ListInv, MapNames, StartsListed, Books, MapOwned, WaitingFor,
      OnlyWaitedStart, EntryDone, FreeUnowned, CancelWaited, EndOfTerminationOrder, FailsAtBoot,
      Keeping, OrphansTimed, StartsDone, StopsRest, SourceOver, EndsStopped, DoneWith, Restarting,
      Starting, Stopping

-----------------------------------------------------------------------------
(* One goroutine at a time runs the sub-tree.                              *)

\* Two incarnations of the sub-tree never exist at once.
OneSubtree ==
    \A g, h \in Goroutine : (owner[g] = Subtree /\ owner[h] = Subtree) => g = h

\* The goroutine of the sub-tree is the one in the map, or the one waited for.
LEMMA KeepingOne == ParentInv /\ ~Failed => OneSubtree
<1> SUFFICES ASSUME ParentInv, ~Failed
             PROVE  OneSubtree
  OBVIOUS
<1>keeping. Typed /\ Books /\ FreeUnowned /\ Keeping
  BY DEF ParentInv, TypeInv
<1>0. /\ Subtree \in Child /\ Subtree \notin Timed /\ None \notin Child /\ None \notin Goroutine
      /\ todo \in Seq(Child) /\ waiting \in Goroutine \cup {None} /\ WaitingKnown
  BY <1>keeping, TreeAssumption, NoneIsFresh DEF Typed, TypeOK
<1> SUFFICES ASSUME NEW g \in Goroutine, NEW h \in Goroutine,
                    owner[g] = Subtree, owner[h] = Subtree
             PROVE  g = h
  BY DEF OneSubtree
<1>1. phase[g] # "free" /\ phase[h] # "free"
  BY <1>0, <1>keeping DEF FreeUnowned
<1>2. (children[Subtree] = g \/ waiting = g) /\ (children[Subtree] = h \/ waiting = h)
  BY <1>0, <1>1, <1>keeping DEF Keeping, OrphansTimed, HasShutdownTimeout
<1>3. CASE waiting # None /\ pc \in Starting /\ owner[waiting] = Subtree
  <2>1. todo # << >> /\ Head(todo) = Subtree
    BY <1>0, <1>3, <1>keeping DEF Books, WaitingFor, Starting, Stopping, WaitingKnown
  <2>2. todo[1] = Subtree /\ 1 \in 1 .. Len(todo)
    BY <1>0, <2>1, TailFacts
  <2>3. EntryDone(Subtree)
    BY <1>0, <1>3, <2>2, <1>keeping DEF Keeping, StartsDone, DoneWith, HasShutdownTimeout
  <2> QED
    BY <1>0, <1>1, <1>2, <2>3 DEF EntryDone
<1>4. CASE waiting # None /\ pc \notin Starting /\ owner[waiting] = Subtree
  <2>1. todo # << >> /\ Head(todo) \in Child /\ children[Head(todo)] = waiting
    BY <1>0, <1>4, TailFacts, <1>keeping DEF Books, WaitingFor, WaitingKnown
  <2>2. Head(todo) = Subtree
    BY <1>0, <1>1, <1>2, <1>4, <2>1, <1>keeping DEF Books, MapOwned, EntryDone, FreeUnowned
  <2> QED
    BY <1>2, <2>1, <2>2
<1> QED
  BY <1>0, <1>2, <1>3, <1>4

\* Without a goroutine in the map, and before anything is started, none runs
\* the sub-tree.
LEMMA NoneBeforeBoot ==
    ASSUME ParentInv, pc = "build"
    PROVE  ~SubtreeAlive
<1>1. /\ Subtree \in Child /\ Subtree \notin Timed /\ waiting = None /\ Keeping
      /\ None \notin Goroutine
  BY TreeAssumption, NoneIsFresh
  DEF ParentInv, TypeInv, Typed, WaitingKnown, Starting, Stopping, Failed, FailsAtBoot
<1>2. EntryDone(Subtree)
  BY <1>1 DEF Keeping, EndsStopped, DoneWith, HasShutdownTimeout
<1> QED
  BY <1>1, <1>2
  DEF SubtreeAlive, Runs, Up, Keeping, OrphansTimed, HasShutdownTimeout, EntryDone

-----------------------------------------------------------------------------
(* The two supervisors together.                                           *)

SubBooting == {"build", "boot", "bootRollback"}

\* What the channels of the child say of the supervisor in it: its start is not
\* decided while it boots, it was told to stop when it was cancelled, and its
\* end is sent when its loop has returned.
Attached ==
    \A g \in Goroutine : owner[g] = Subtree =>
        /\ phase[g] = "starting" =>
              /\ ~subCtxDone
              /\ \/ subPc \in {"build", "boot"}
                 \/ SubtreeReturned /\ subOutcome = "startFailed" /\ pc = "boot"
        /\ phase[g] \in {"running", "stopping"} =>
              /\ subPc \notin SubBooting
              /\ subCtxDone <=> phase[g] = "stopping"
        /\ Pending(g) => SubtreeReturned

\* When the parent fails to boot, the sub-tree is not there.
FailedIsGone == Failed => ~SubtreeAlive

Link == Attached /\ FailedIsGone /\ NothingOutlivesSubtree

TreeInv == ParentInv /\ SubFacts /\ Link

\* The steps of the supervisor in the child, as far as the parent is concerned.
LEMMA SubMoves ==
    ASSUME SubFacts, SubInside
    PROVE  /\ subCtxDone' = subCtxDone
           /\ subPc \notin SubBooting => subPc' \notin SubBooting
           /\ subPc = "build" =>
                 \/ subPc' \in {"build", "boot"}
                 \/ subPc' = "dead" /\ subOutcome' = "startFailed"
           /\ subPc = "boot" => subPc' \in {"boot", "loop"}
           /\ subPc = "dead" => subPc' = "dead" /\ subOutcome' = subOutcome
<1> USE DEF SubBooting, Sub!Starting, Sub!Stopping
<1>1. CASE Sub!BuildNodes \/ Sub!BuildNodesFails \/ Sub!SpawnChild \/ Sub!AllStarted
           \/ Sub!SkipChild \/ Sub!CancelChild
  BY <1>1
  DEF Sub!BuildNodes, Sub!BuildNodesFails, Sub!SpawnChild, Sub!AllStarted, Sub!SkipChild,
      Sub!CancelChild
<1>2. CASE Sub!AllStopped \/ Sub!Cleanup \/ Sub!Shutdown \/ Sub!BackoffCancelled
  BY <1>2 DEF Sub!AllStopped, Sub!Cleanup, Sub!Shutdown, Sub!BackoffCancelled
<1>3. CASE Sub!CheckTolerance \/ Sub!RestartUncounted \/ Sub!BackoffElapses
  BY <1>3
  DEF Sub!CheckTolerance, Sub!RestartUncounted, Sub!BackoffElapses, Sub!GiveUp,
      Sub!WaitThenRestart, Sub!BeginRestart
<1>4. ASSUME NEW h \in SubGoroutine,
             \/ Sub!StartSucceeds(h) \/ Sub!Ends(h) \/ Sub!HonorsCancel(h)
             \/ Sub!ChildStopped(h) \/ Sub!ChildAlreadyGone(h)
      PROVE  subCtxDone' = subCtxDone /\ subPc' = subPc /\ (subPc = "dead" => subOutcome' = subOutcome)
  BY <1>4
  DEF Sub!StartSucceeds, Sub!Ends, Sub!HonorsCancel, Sub!ReturnsFrom, Sub!supVars,
      Sub!ChildStopped, Sub!ChildAlreadyGone
<1>5. ASSUME NEW h \in SubGoroutine, Sub!Receive(h) \/ Sub!PanicUnknownChild(h)
      PROVE  subCtxDone' = subCtxDone /\ subPc = "loop" /\ subPc' \in {"loop", "tolerance", "panicked"}
  BY <1>5 DEF Sub!Receive, Sub!PanicUnknownChild, Sub!EnterRestartLoop
<1> QED
  BY <1>1, <1>2, <1>3, <1>4, <1>5 DEF SubInside, Sub!Local

\* A loop that has returned has left nothing running.
LEMMA ReturnedIsFree ==
    ASSUME SubFacts, SubtreeReturned
    PROVE  \A h \in SubGoroutine : subPhase[h] = "free"
  BY DEF SubFacts, SubtreeReturned, SubProofs!SupervisionInv, SubProofs!Quiet, SubProofs!AllFree

\* The only start that fails is that of the sub-tree, at boot.
LEMMA StartFailsIsSubtrees ==
    ASSUME Typed, [TreeNext]_treeVars, NEW g \in Goroutine, StartFails(g)
    PROVE  SubtreeStartFails(g)
<1>1. /\ pc \in Starting /\ pc' \notin Starting /\ waiting = g /\ waiting # None
  BY NoneIsFresh DEF StartFails, AbortStart, Starting
<1>2. CASE ParentGoes
  BY <1>1, <1>2
  DEF ParentGoes, Local, BuildNodes, BuildNodesFails, SpawnChild, AllStarted, SkipChild,
      CancelChild, AllStopped, Cleanup, CheckTolerance, RestartUncounted, BackoffElapses,
      Starting, Stopping
<1>3. CASE \/ Outside(Shutdown) \/ Outside(BackoffCancelled)
           \/ Outside(Terminate) \/ Outside(Over)
  BY <1>1, <1>3
  DEF Outside, Shutdown, BackoffCancelled, Terminate, Over, vars, supVars, Starting
<1>4. ASSUME NEW h \in Goroutine,
             \/ SubtreeStarts(h) \/ SubtreeReturns(h)
             \/ SiblingStarts(h) \/ SiblingEnds(h) \/ SiblingHonorsCancel(h)
      PROVE  FALSE
  <2>1. pc' = pc
    BY <1>4
    DEF SubtreeStarts, SubtreeReturns, SiblingStarts, SiblingEnds, SiblingHonorsCancel, Outside,
        StartSucceeds, ReturnsWithoutNotify, Ends, HonorsCancel, ReturnsFrom, supVars
  <2> QED
    BY <1>1, <2>1
<1>5. ASSUME NEW h \in Goroutine,
             \/ Outside(ChildStopped(h) \/ ChildAlreadyGone(h) \/ ShutdownTimesOut(h))
             \/ Outside(Receive(h) \/ PanicUnknownChild(h))
      PROVE  FALSE
  BY <1>1, <1>5
  DEF Outside, ChildStopped, ChildAlreadyGone, ShutdownTimesOut, Receive, PanicUnknownChild,
      Starting, Stopping
<1>6. ASSUME NEW h \in Goroutine, SubtreeStartFails(h)
      PROVE  SubtreeStartFails(g)
  BY <1>1, <1>6 DEF SubtreeStartFails, StartFails
<1>7. CASE UNCHANGED vars
  BY <1>1, <1>7 DEF vars, supVars
<1>8. CASE \/ SubtreeGoes \/ Inside(Sub!Shutdown) \/ Inside(Sub!BackoffCancelled)
           \/ \E h \in SubGoroutine :
                 \/ Inside(Sub!StartSucceeds(h))
                 \/ Inside(Sub!Ends(h)) \/ Inside(Sub!HonorsCancel(h))
                 \/ Inside(Sub!ChildStopped(h) \/ Sub!ChildAlreadyGone(h))
                 \/ Inside(Sub!Receive(h) \/ Sub!PanicUnknownChild(h))
  BY <1>7, <1>8 DEF SubtreeGoes, Inside
<1> QED
  BY <1>2, <1>3, <1>4, <1>5, <1>6, <1>7, <1>8 DEF TreeNext, treeVars

LEMMA TreeFailsAtBoot ==
    ASSUME Typed, Attached, [TreeNext]_treeVars
    PROVE  OnlyBootFails
<1> SUFFICES ASSUME NEW g \in Goroutine, StartFails(g)
             PROVE  pc = "boot"
  BY DEF OnlyBootFails
<1>1. SubtreeStartFails(g)
  BY StartFailsIsSubtrees
<1> QED
  BY <1>1 DEF SubtreeStartFails, Runs, StartFails, Attached, SubtreeReturned

\* The step leaves the goroutines of the sub-tree where they are, except that
\* one whose end is received goes.
Unmoved ==
    \A g \in Goroutine :
        /\ owner'[g] = Subtree => owner[g] = Subtree /\ phase'[g] = phase[g]
        /\ Runs(g) => owner'[g] = Subtree /\ phase'[g] = phase[g]

\* A step of the parent that is about other children, or about none.
Elsewhere == Unmoved /\ UNCHANGED subVars

LEMMA ElsewhereStep ==
    ASSUME TreeInv, [Next]_vars, Elsewhere, StartsSucceed
    PROVE  Link'
<1>1. Typed /\ TypeInv /\ Books /\ FailsAtBoot /\ Attached /\ FailedIsGone /\ NothingOutlivesSubtree
  BY DEF TreeInv, ParentInv, TypeInv, Link
<1>2. \A g \in Goroutine : Runs(g)' <=> Runs(g)
  BY DEF Elsewhere, Unmoved, Runs, Up
<1>3. SubtreeAlive' <=> SubtreeAlive
  BY <1>2 DEF SubtreeAlive
<1>4. Attached'
  <2> SUFFICES ASSUME NEW g \in Goroutine, owner'[g] = Subtree
               PROVE  /\ phase'[g] = "starting" =>
                            /\ ~subCtxDone'
                            /\ \/ subPc' \in {"build", "boot"}
                               \/ /\ SubtreeReturned' /\ subOutcome' = "startFailed"
                                  /\ pc' = "boot"
                      /\ phase'[g] \in {"running", "stopping"} =>
                            /\ subPc' \notin SubBooting
                            /\ subCtxDone' <=> phase'[g] = "stopping"
                      /\ Pending(g)' => SubtreeReturned'
    BY DEF Attached
  <2>1. owner[g] = Subtree /\ phase'[g] = phase[g] /\ UNCHANGED <<subPc, subCtxDone, subOutcome>>
    BY DEF Elsewhere, Unmoved, subVars
  <2>2. phase[g] = "starting" => pc' = pc
    BY <1>1, <2>1, WhileStarting
  <2> QED
    BY <1>1, <2>1, <2>2 DEF Attached, SubtreeReturned, Pending
<1>5. FailedIsGone'
  <2>1. CASE Failed
    BY <1>1, <1>3, <2>1 DEF FailedIsGone
  <2>2. CASE ~Failed
    <3>1. Failed' => pc = "build"
      BY <1>1, <2>2, FailsAtBootStep
    <3> QED
      BY <1>3, <3>1, NoneBeforeBoot DEF FailedIsGone, TreeInv
  <2> QED
    BY <2>1, <2>2
<1>6. NothingOutlivesSubtree'
  BY <1>1, <1>3 DEF NothingOutlivesSubtree, Elsewhere, subVars
<1> QED
  BY <1>4, <1>5, <1>6 DEF Link

\* The parent starts the sub-tree.
LEMMA SpawnStep ==
    ASSUME TreeInv, ParentInv', SpawnChild, SpawnsSubtree, Run
    PROVE  Link'
<1>0. /\ phase \in [Goroutine -> Phase] /\ owner \in [Goroutine -> Child \cup {None}]
      /\ Subtree \in Child /\ None \notin Child /\ FreeUnowned /\ FailsAtBoot
  BY TreeAssumption, NoneIsFresh DEF TreeInv, ParentInv, TypeInv, Typed, TypeOK
<1>1. /\ pc \in Starting /\ pc' = pc /\ outcome' = outcome
      /\ waiting' \in Goroutine
      /\ phase' = [phase EXCEPT ![waiting'] = "starting"]
      /\ owner' = [owner EXCEPT ![waiting'] = Head(todo)]
  BY DEF SpawnChild, FreeGoroutines
<1>2. ~Failed /\ ~Failed'
  BY <1>0, <1>1 DEF Failed, FailsAtBoot, Starting
<1>3. OneSubtree'
  <2>1. (ParentInv /\ ~Failed => OneSubtree)'
    BY KeepingOne, PTL
  <2> QED
    BY <1>2, <2>1
<1>4. owner'[waiting'] = Subtree /\ phase'[waiting'] = "starting"
  BY <1>0, <1>1 DEF SpawnsSubtree, FreeUnowned
<1>5. \A g \in Goroutine : owner'[g] = Subtree => g = waiting'
  BY <1>1, <1>3, <1>4 DEF OneSubtree
<1>6. Attached'
  BY <1>4, <1>5 DEF Attached, Run, Pending
<1>7. NothingOutlivesSubtree'
  BY <1>1 DEF NothingOutlivesSubtree, Run
<1> QED
  BY <1>2, <1>6, <1>7 DEF Link, FailedIsGone

\* One goroutine g of the sub-tree moves, and no other.
OnlyMoves(g) ==
    \A h \in Goroutine : (owner[h] = Subtree \/ owner'[h] = Subtree) => h = g

LEMMA RunningOnly ==
    ASSUME TreeInv, NEW g \in Goroutine, Runs(g),
           \A h \in Goroutine : owner'[h] = Subtree => owner[h] = Subtree
    PROVE  OnlyMoves(g) /\ ~Failed
<1>1. ~Failed
  BY DEF TreeInv, Link, FailedIsGone, SubtreeAlive
<1>2. OneSubtree
  BY <1>1, KeepingOne DEF TreeInv
<1> QED
  BY <1>1, <1>2 DEF OnlyMoves, OneSubtree, Runs

\* The parent cancels the sub-tree.
LEMMA CancelStep ==
    ASSUME TreeInv, CancelChild, CancelsSubtree, Cancel
    PROVE  Link'
<1>1. PICK g \in Goroutine : owner[g] = Subtree /\ phase[g] = "running" /\ phase'[g] = "stopping"
  BY DEF CancelsSubtree
<1>2. UNCHANGED <<pc, owner, outcome>>
  BY DEF CancelChild
<1>3. OnlyMoves(g) /\ ~Failed
  BY <1>1, <1>2, RunningOnly DEF Runs, Up
<1>4. Attached'
  BY <1>1, <1>2, <1>3 DEF TreeInv, Link, Attached, OnlyMoves, Cancel, Pending
<1>5. ~Failed'
  BY <1>2, <1>3 DEF Failed
<1>6. NothingOutlivesSubtree'
  BY <1>1, <1>2 DEF NothingOutlivesSubtree, SubtreeAlive, Runs, Up
<1> QED
  BY <1>4, <1>5, <1>6 DEF Link, FailedIsGone

\* The start of the sub-tree succeeds.
LEMMA SubtreeStartsStep ==
    ASSUME TreeInv, NEW g \in Goroutine, SubtreeStarts(g)
    PROVE  Link'
<1>0. phase \in [Goroutine -> Phase]
  BY DEF TreeInv, ParentInv, TypeInv, Typed, TypeOK
<1>1. /\ Runs(g) /\ phase[g] = "starting" /\ phase'[g] = "running"
      /\ UNCHANGED <<pc, owner, outcome>>
  BY <1>0 DEF SubtreeStarts, StartSucceeds
<1>2. OnlyMoves(g) /\ ~Failed
  BY <1>1, RunningOnly
<1>3. subPc' = "loop" /\ subCtxDone' = subCtxDone
  BY DEF SubtreeStarts, Started, Sub!AllStarted
<1>4. Attached'
  BY <1>1, <1>2, <1>3 DEF TreeInv, Link, Attached, OnlyMoves, Runs, SubBooting, Pending
<1>5. ~Failed'
  BY <1>1, <1>2 DEF Failed
<1>6. NothingOutlivesSubtree'
  BY <1>1 DEF NothingOutlivesSubtree, SubtreeAlive, Runs, Up
<1> QED
  BY <1>4, <1>5, <1>6 DEF Link, FailedIsGone

\* The goroutine of the sub-tree comes to its end, with the loop in it.
LEMMA SubtreeEndsStep ==
    ASSUME TreeInv, NEW g \in Goroutine, SubtreeStartFails(g) \/ SubtreeReturns(g)
    PROVE  Link'
<1>0. /\ phase \in [Goroutine -> Phase] /\ owner \in [Goroutine -> Child \cup {None}]
      /\ Subtree # None
  BY TreeAssumption, NoneIsFresh DEF TreeInv, ParentInv, TypeInv, Typed, TypeOK
<1>1. Runs(g) /\ SubtreeReturned /\ UNCHANGED subVars
  BY DEF SubtreeStartFails, SubtreeReturns
<1>2. \/ \E p \in {"failing", "completing"} : phase' = [phase EXCEPT ![g] = p] /\ UNCHANGED owner
      \/ /\ phase' = [phase EXCEPT ![g] = "free"]
         /\ owner' = [owner EXCEPT ![g] = None]
  BY DEF SubtreeStartFails, SubtreeReturns, StartFails, LeaveBehind, Ends, HonorsCancel, ReturnsFrom
<1>3. ~Up(g)' /\ \A h \in Goroutine : owner'[h] = Subtree => owner[h] = Subtree
  BY <1>0, <1>2 DEF Up
<1>4. OnlyMoves(g)
  BY <1>1, <1>3, RunningOnly
<1>5. ~SubtreeAlive'
  BY <1>3, <1>4 DEF SubtreeAlive, Runs, OnlyMoves
<1>6. SubtreeReturned' /\ \A h \in SubGoroutine : subPhase'[h] = "free"
  BY <1>1, ReturnedIsFree DEF TreeInv, subVars, SubtreeReturned
<1>7. Attached'
  BY <1>3, <1>4, <1>6 DEF Attached, OnlyMoves, Up
<1> QED
  BY <1>5, <1>6, <1>7 DEF Link, FailedIsGone, NothingOutlivesSubtree

\* A step inside the sub-tree.
LEMMA InsideStep ==
    ASSUME TreeInv, SubtreeAlive, SubInside, UNCHANGED vars,
           subPc = "boot" => subPc' # "loop",
           (subPc = "build" /\ subPc' = "dead") => pc = "boot"
    PROVE  Link'
<1>1. PICK g \in Goroutine : Runs(g)
  BY DEF SubtreeAlive
<1>2. UNCHANGED <<pc, phase, owner, outcome>>
  BY DEF vars, supVars, childVars
<1>3. OnlyMoves(g) /\ ~Failed
  BY <1>1, <1>2, RunningOnly
<1>4. SubtreeAlive'
  BY <1>2 DEF SubtreeAlive, Runs, Up
<1>5. /\ subCtxDone' = subCtxDone
      /\ subPc \notin SubBooting => subPc' \notin SubBooting
      /\ subPc = "build" => \/ subPc' \in {"build", "boot"}
                            \/ subPc' = "dead" /\ subOutcome' = "startFailed" /\ pc' = "boot"
      /\ subPc = "boot" => subPc' = "boot"
      /\ subPc = "dead" => subPc' = "dead" /\ subOutcome' = subOutcome
  BY <1>2, SubMoves DEF TreeInv
<1>6. Attached'
  BY <1>1, <1>2, <1>3, <1>5
  DEF TreeInv, Link, Attached, OnlyMoves, Runs, Up, SubtreeReturned, Pending
<1>7. ~Failed'
  BY <1>2, <1>3 DEF Failed
<1> QED
  BY <1>4, <1>6, <1>7 DEF Link, FailedIsGone, NothingOutlivesSubtree

\* The steps of the parent goroutine that start or cancel another child, or
\* none at all.
LEMMA ParentElsewhere ==
    ASSUME Typed, FreeUnowned, Local, ~SpawnsSubtree, ~CancelsSubtree
    PROVE  Unmoved
<1>0. /\ phase \in [Goroutine -> Phase] /\ owner \in [Goroutine -> Child \cup {None}]
      /\ children \in [Child -> Goroutine \cup {None}] /\ todo \in Seq(Child)
      /\ Subtree # None
  BY TreeAssumption, NoneIsFresh DEF Typed, TypeOK
<1> USE DEF Unmoved, Runs, Up
<1>1. CASE SpawnChild
  <2>1. /\ waiting' \in Goroutine /\ phase[waiting'] = "free"
        /\ phase' = [phase EXCEPT ![waiting'] = "starting"]
        /\ owner' = [owner EXCEPT ![waiting'] = Head(todo)]
    BY <1>1 DEF SpawnChild, FreeGoroutines
  <2>2. owner'[waiting'] # Subtree
    BY <2>1 DEF SpawnsSubtree
  <2> QED
    BY <1>0, <2>1, <2>2
<1>2. CASE CancelChild
  <2>1. /\ UNCHANGED owner
        /\ \A g \in Goroutine :
              phase'[g] = phase[g] \/ (phase[g] = "running" /\ phase'[g] = "stopping")
    BY <1>0, <1>2 DEF CancelChild
  <2>2. \A g \in Goroutine : owner[g] = Subtree => phase'[g] = phase[g]
    BY <2>1 DEF CancelsSubtree
  <2> QED
    BY <2>1, <2>2
<1>3. CASE UNCHANGED <<phase, owner>>
  BY <1>3
<1>4. CASE \/ BuildNodes \/ BuildNodesFails \/ AllStarted \/ SkipChild \/ AllStopped \/ Cleanup
           \/ CheckTolerance \/ RestartUncounted \/ BackoffElapses
  BY <1>3, <1>4
  DEF BuildNodes, BuildNodesFails, AllStarted, SkipChild, AllStopped, Cleanup, CheckTolerance,
      RestartUncounted, BackoffElapses, childVars
<1> QED
  BY <1>1, <1>2, <1>4 DEF Local

\* A goroutine that is not of the sub-tree, or whose end is received.
LEMMA ChildElsewhere ==
    ASSUME Typed, Books, NEW g \in Goroutine,
           \/ SiblingStarts(g) \/ SiblingEnds(g) \/ SiblingHonorsCancel(g)
           \/ ChildStopped(g) \/ ChildAlreadyGone(g) \/ ShutdownTimesOut(g)
           \/ Receive(g) \/ PanicUnknownChild(g)
    PROVE  Unmoved
<1>0. /\ phase \in [Goroutine -> Phase] /\ owner \in [Goroutine -> Child \cup {None}]
      /\ Subtree # None /\ Subtree \notin Timed /\ todo \in Seq(Child) /\ WaitingKnown
      /\ None \notin Goroutine
  BY TreeAssumption, NoneIsFresh DEF Typed, TypeOK
<1> USE DEF Unmoved, Runs, Up
<1>1. CASE SiblingStarts(g) \/ SiblingEnds(g) \/ SiblingHonorsCancel(g)
  <2>1. /\ owner[g] # Subtree /\ UNCHANGED owner
        /\ \A h \in Goroutine : h # g => phase'[h] = phase[h]
    BY <1>0, <1>1
    DEF SiblingStarts, SiblingEnds, SiblingHonorsCancel, Outside, StartSucceeds,
        ReturnsWithoutNotify, Ends, HonorsCancel, ReturnsFrom
  <2> QED
    BY <2>1
<1>2. CASE ChildStopped(g) \/ ChildAlreadyGone(g) \/ Receive(g) \/ PanicUnknownChild(g)
  <2>1. \/ UNCHANGED <<phase, owner>>
        \/ /\ phase[g] \in {"failing", "completing"}
           /\ phase' = [phase EXCEPT ![g] = "free"]
           /\ owner' = [owner EXCEPT ![g] = None]
    BY <1>2 DEF ChildStopped, ChildAlreadyGone, Receive, PanicUnknownChild, Pending, Exit
  <2> QED
    BY <1>0, <2>1
<1>3. CASE ShutdownTimesOut(g)
  <2>1. /\ \/ UNCHANGED <<phase, owner>>
           \/ /\ phase' = [phase EXCEPT ![g] = "free"]
              /\ owner' = [owner EXCEPT ![g] = None]
        /\ pc \in Stopping /\ waiting = g /\ Head(todo) \in Timed
    BY <1>0, <1>3 DEF ShutdownTimesOut, HasShutdownTimeout, LeaveBehind
  <2>2. CASE phase[g] = "free"
    BY <1>0, <2>1, <2>2
  <2>3. phase[g] # "free" => owner[g] = Head(todo)
    <3>1. todo # << >> /\ Head(todo) \in Child /\ children[Head(todo)] = g
      BY <1>0, <2>1, TailFacts DEF Books, WaitingFor, WaitingKnown, Starting, Stopping
    <3> QED
      BY <1>0, <2>1, <3>1 DEF Books, MapOwned, EntryDone
  <2> QED
    BY <1>0, <2>1, <2>2, <2>3
<1> QED
  BY <1>1, <1>2, <1>3

\* What a start or a cancellation of the sub-tree is.
LEMMA SpawnsIsSpawn ==
    ASSUME Typed, FreeUnowned, Local, SpawnsSubtree
    PROVE  SpawnChild
<1>1. PICK g \in Goroutine : phase[g] = "free" /\ owner'[g] = Subtree
  BY DEF SpawnsSubtree
<1>2. owner'[g] # owner[g]
  BY <1>1, TreeAssumption, NoneIsFresh DEF FreeUnowned
<1> QED
  BY <1>2
  DEF Local, BuildNodes, BuildNodesFails, AllStarted, SkipChild, CancelChild, AllStopped, Cleanup,
      CheckTolerance, RestartUncounted, BackoffElapses, childVars

LEMMA CancelsIsCancel ==
    ASSUME Typed, Local, CancelsSubtree
    PROVE  CancelChild
<1>1. PICK g \in Goroutine : phase[g] = "running" /\ phase'[g] = "stopping"
  BY DEF CancelsSubtree
<1>2. phase \in [Goroutine -> Phase]
  BY DEF Typed, TypeOK
<1>3. ~SpawnChild
  BY <1>1, <1>2 DEF SpawnChild, FreeGoroutines
<1> QED
  BY <1>1, <1>3
  DEF Local, BuildNodes, BuildNodesFails, AllStarted, SkipChild, AllStopped, Cleanup,
      CheckTolerance, RestartUncounted, BackoffElapses, childVars

\* Every step of the tree keeps its invariant.
LEMMA TreeInvStep ==
    ASSUME TreeInv, [TreeNext]_treeVars
    PROVE  TreeInv'
<1>0. /\ ParentInv /\ SubFacts /\ Typed /\ TypeInv /\ Books /\ FreeUnowned /\ Attached
      /\ [Next]_vars
  BY ParentStep DEF TreeInv, ParentInv, TypeInv, Link
<1>1. ParentInv'
  BY <1>0, TreeFailsAtBoot, ParentInvStep
<1> SUFFICES SubFacts' /\ Link'
  BY <1>1 DEF TreeInv
<1>same. ASSUME UNCHANGED subVars
         PROVE  SubFacts'
  BY <1>0, <1>same
  DEF SubFacts, subVars, SubProofs!TypeInv, SubProofs!Typed, SubProofs!TypeOK,
      SubProofs!OwnerKnown, SubProofs!SourceKnown, SubProofs!WaitingKnown, SubProofs!SpecsKept,
      SubProofs!SupervisionInv, SubProofs!NoOrphan, SubProofs!NeverPanics, SubProofs!WaitingFor,
      SubProofs!OnlyWaitedStart, SubProofs!StillToStart, SubProofs!StillToStop,
      SubProofs!SourceDone, SubProofs!Quiet, SubProofs!AllFree, SubProofs!EntryDone
<1>else. ASSUME Elsewhere, StartsSucceed
         PROVE  SubFacts' /\ Link'
  BY <1>0, <1>same, <1>else, ElsewhereStep DEF Elsewhere
<1>inside. ASSUME SubtreeAlive, SubInside, UNCHANGED vars,
                  subPc = "boot" => subPc' # "loop",
                  (subPc = "build" /\ subPc' = "dead") => pc = "boot"
           PROVE  SubFacts' /\ Link'
  BY <1>0, <1>inside, SubFactsStep, InsideStep
<1>1a. ASSUME NEW g \in Goroutine, SubtreeStartFails(g) \/ SubtreeReturns(g)
       PROVE  SubFacts' /\ Link'
  BY <1>1a, <1>same, SubtreeEndsStep DEF SubtreeStartFails, SubtreeReturns
<1>2. ASSUME ~\E g \in Goroutine : SubtreeStartFails(g)
      PROVE  StartsSucceed
  BY <1>0, <1>2, StartFailsIsSubtrees DEF StartsSucceed
<1> SUFFICES ASSUME StartsSucceed
             PROVE  SubFacts' /\ Link'
  BY <1>1a, <1>2
<1>3. CASE ParentGoes
  <2>1. CASE SpawnsSubtree
    BY <1>0, <1>1, <1>3, <2>1, SpawnsIsSpawn, SpawnStep, SubFactsAfterRun DEF ParentGoes
  <2>2. CASE ~SpawnsSubtree /\ CancelsSubtree
    <3>1. CancelChild /\ Cancel
      BY <1>0, <1>3, <2>2, CancelsIsCancel DEF ParentGoes
    <3>2. SubFacts'
      BY <1>0, <3>1
      DEF Cancel, SubFacts, SubProofs!TypeInv, SubProofs!Typed, SubProofs!TypeOK,
          SubProofs!OwnerKnown, SubProofs!SourceKnown, SubProofs!WaitingKnown,
          SubProofs!SpecsKept, SubProofs!SupervisionInv, SubProofs!NoOrphan,
          SubProofs!NeverPanics, SubProofs!WaitingFor, SubProofs!OnlyWaitedStart,
          SubProofs!StillToStart, SubProofs!StillToStop, SubProofs!SourceDone,
          SubProofs!Quiet, SubProofs!AllFree, SubProofs!EntryDone
    <3> QED
      BY <2>2, <3>1, <3>2, CancelStep
  <2>3. CASE ~SpawnsSubtree /\ ~CancelsSubtree
    <3>1. Unmoved /\ UNCHANGED subVars
      BY <1>0, <1>3, <2>3, ParentElsewhere DEF ParentGoes
    <3> QED
      BY <1>else, <3>1 DEF Elsewhere
  <2> QED
    BY <2>1, <2>2, <2>3
<1>4. CASE \/ Outside(Shutdown) \/ Outside(BackoffCancelled)
           \/ Outside(Terminate) \/ Outside(Over) \/ UNCHANGED treeVars
  <2>1. UNCHANGED <<phase, owner, subVars>>
    BY <1>4 DEF Outside, Shutdown, BackoffCancelled, Terminate, Over, childVars, vars, treeVars
  <2> QED
    BY <1>else, <2>1 DEF Elsewhere, Unmoved, Runs
<1>5. ASSUME NEW g \in Goroutine, SubtreeStarts(g)
      PROVE  SubFacts' /\ Link'
  <2>1. SubInside
    BY <1>5 DEF SubtreeStarts, Started, SubInside, Sub!Local
  <2> QED
    BY <1>0, <1>5, <2>1, SubFactsStep, SubtreeStartsStep
<1>6. ASSUME NEW g \in Goroutine,
             \/ SiblingStarts(g) \/ SiblingEnds(g) \/ SiblingHonorsCancel(g)
             \/ Outside(ChildStopped(g) \/ ChildAlreadyGone(g) \/ ShutdownTimesOut(g))
             \/ Outside(Receive(g) \/ PanicUnknownChild(g))
      PROVE  SubFacts' /\ Link'
  <2>1. UNCHANGED subVars
    BY <1>6 DEF SiblingStarts, SiblingEnds, SiblingHonorsCancel, Outside
  <2>2. Unmoved
    BY <1>0, <1>6, ChildElsewhere DEF Outside
  <2> QED
    BY <1>else, <2>1, <2>2 DEF Elsewhere
<1>7. CASE SubtreeGoes
  BY <1>7, <1>inside DEF SubtreeGoes, SubInside
<1>8. CASE \/ Inside(Sub!Shutdown) \/ Inside(Sub!BackoffCancelled)
           \/ \E h \in SubGoroutine :
                 \/ Inside(Sub!StartSucceeds(h))
                 \/ Inside(Sub!Ends(h)) \/ Inside(Sub!HonorsCancel(h))
                 \/ Inside(Sub!ChildStopped(h) \/ Sub!ChildAlreadyGone(h))
                 \/ Inside(Sub!Receive(h) \/ Sub!PanicUnknownChild(h))
  <2>1. SubtreeAlive /\ SubInside /\ UNCHANGED vars
    BY <1>8 DEF Inside, SubInside
  <2>2. subPc \in {"build", "boot"} => subPc' = subPc
    BY <1>8
    DEF Inside, Sub!Shutdown, Sub!BackoffCancelled, Sub!StartSucceeds, Sub!Ends,
        Sub!HonorsCancel, Sub!ReturnsFrom, Sub!supVars, Sub!ChildStopped,
        Sub!ChildAlreadyGone, Sub!Receive, Sub!PanicUnknownChild, Sub!Stopping
  <2> QED
    BY <1>inside, <2>1, <2>2
<1> QED
  BY <1>1a, <1>3, <1>4, <1>5, <1>6, <1>7, <1>8 DEF TreeNext

LEMMA TreeInvInit == TreeInit => TreeInv
<1> SUFFICES ASSUME TreeInit PROVE TreeInv
  OBVIOUS
<1>1. ParentInv
  BY ParentInvInit DEF TreeInit
<1>2. SubFacts
  <2>1. SubProofs!Init
    BY DEF TreeInit, Sub!Init, Sub!NoChildren, SubProofs!Init, SubProofs!NoChildren
  <2> QED
    BY <2>1, SubFactsAtFirst
<1>3. Link
  BY TreeAssumption, NoneIsFresh
  DEF TreeInit, Init, Sub!Init, Link, Attached, FailedIsGone, Failed, NothingOutlivesSubtree
<1> QED
  BY <1>1, <1>2, <1>3 DEF TreeInv

LEMMA TreeInvHolds == TreeSpec => []TreeInv
<1>1. TreeInv /\ [TreeNext]_treeVars => TreeInv'
  BY TreeInvStep
<1> QED
  BY <1>1, TreeInvInit, PTL DEF TreeSpec

-----------------------------------------------------------------------------
(* The properties.                                                         *)

\* Both supervisors keep their types and neither loop panics because of the
\* other: what the parent's channels tell it about the child is where the
\* sub-tree really is, and the sub-tree's own loop never meets an unknown child.
THEOREM SubtreeTypeCorrect == TreeSpec => []TreeTypeOK
<1>1. ASSUME TreeInv PROVE TreeTypeOK
  <2>1. TypeOK
    BY <1>1 DEF TreeInv, ParentInv, TypeInv, Typed
  <2>2. Sub!TypeOK /\ Sub!NeverPanics
    BY <1>1
    DEF TreeInv, SubFacts, SubProofs!TypeInv, SubProofs!Typed, SubProofs!TypeOK,
        SubProofs!SupervisionInv, SubProofs!NeverPanics, SubProofs!Location, SubProofs!Starting,
        SubProofs!Stopping, SubProofs!Ended, SubProofs!Phase, SubProofs!Event,
        Sub!TypeOK, Sub!NeverPanics, Sub!Location, Sub!Starting, Sub!Stopping, Sub!Ended,
        Sub!Phase, Sub!Event
  <2> QED
    BY <1>1, <2>1, <2>2 DEF TreeTypeOK, TreeInv, Link, Attached, SubBooting
<1>2. TreeInv => TreeTypeOK
  BY <1>1
<1> QED
  BY <1>2, TreeInvHolds, PTL

\* Whenever the child that is a sub-tree has come to its end, and so before its
\* parent restarts it or ends, every goroutine of the sub-tree is gone
\* (SupervisorSpec.run returns when runMonitorLoop has).
THEOREM SubtreeEndsWhole == TreeSpec => []NothingOutlivesSubtree
<1>1. TreeInv => NothingOutlivesSubtree
  BY DEF TreeInv, Link
<1> QED
  BY <1>1, TreeInvHolds, PTL

\* A child that is being cancelled is the next one in the termination order.
LEMMA CancelledIsNext ==
    ASSUME ParentInv, NEW c \in Child, children[c] # None, phase[children[c]] = "stopping"
    PROVE  /\ pc \in Stopping /\ waiting = children[c] /\ owner[waiting] = c
           /\ todo # << >> /\ Head(todo) = c
<1>0. /\ children \in [Child -> Goroutine \cup {None}] /\ todo \in Seq(Child)
      /\ WaitingKnown /\ None \notin Goroutine
  BY NoneIsFresh DEF ParentInv, TypeInv, Typed, TypeOK
<1>1. pc \in Stopping /\ waiting = children[c] /\ waiting # None /\ owner[waiting] = c
  BY <1>0 DEF ParentInv, CancelWaited, Books, MapOwned, EntryDone
<1>2. todo # << >> /\ Head(todo) \in Child /\ children[Head(todo)] = waiting
  BY <1>0, <1>1, TailFacts DEF ParentInv, Books, WaitingFor, WaitingKnown, Starting, Stopping
<1>3. Head(todo) = c
  BY <1>1, <1>2 DEF ParentInv, Books, MapOwned, EntryDone
<1> QED
  BY <1>1, <1>2, <1>3

\* A child that the sub-tree was started after is cancelled when every goroutine
\* of the sub-tree is gone (terminateChildNodes, internal/s/monitor.go; "it will
\* stop each child node in reverse order", cap/doc.go).
THEOREM SubtreeStopsWhole == TreeSpec => []WholeSubtreeFirst
<1>1. ASSUME TreeInv PROVE WholeSubtreeFirst
  <2>0. /\ ParentInv /\ TypeInv /\ todo \in Seq(Child) /\ specs \in Seq(Child)
        /\ Subtree \in Child /\ Subtree \notin Timed /\ None \notin Goroutine
    BY <1>1, TreeAssumption, NoneIsFresh DEF TreeInv, ParentInv, TypeInv, Typed, TypeOK
  <2>1. /\ StartOrder \in Seq(Child) /\ TerminationOrder \in Seq(Child)
        /\ Len(TerminationOrder) = Len(StartOrder)
        /\ \A k \in 1 .. Len(StartOrder) :
               StartOrder[k] = TerminationOrder[Len(StartOrder) - k + 1]
        /\ \A k, l \in 1 .. Len(StartOrder) : StartOrder[k] = StartOrder[l] => k = l
        /\ \A k, l \in 1 .. Len(TerminationOrder) :
               TerminationOrder[k] = TerminationOrder[l] => k = l
    BY <2>0, OrdersOpposite, OrdersUnique
  <2> SUFFICES ASSUME NEW i \in 1 .. Len(StartOrder), NEW j \in 1 .. Len(StartOrder),
                      i < j, StartOrder[j] = Subtree, children[StartOrder[i]] # None,
                      phase[children[StartOrder[i]]] = "stopping", SubtreeAlive
               PROVE  FALSE
    BY <1>1 DEF WholeSubtreeFirst, TreeInv, Link, NothingOutlivesSubtree
  <2> DEFINE n == Len(StartOrder)
             c == StartOrder[i]
  <2>2. c \in Child /\ c # Subtree /\ n \in Nat
    BY <2>1
  <2>3. /\ pc \in Stopping /\ waiting = children[c] /\ owner[waiting] = c
        /\ todo # << >> /\ Head(todo) = c
    BY <2>0, <2>2, CancelledIsNext
  <2>4. Keeping
    BY <1>1 DEF TreeInv, ParentInv, Link, FailedIsGone
  <2>5. EndOf(todo, TerminationOrder)
    BY <2>0, <2>3 DEF ParentInv, EndOfTerminationOrder
  <2>6. /\ Len(todo) \in Nat /\ n - Len(todo) + 1 \in 1 .. n
        /\ c = TerminationOrder[n - Len(todo) + 1]
    BY <2>0, <2>1, <2>3, <2>5, EndOfTail
  <2>7. n - i + 1 = n - Len(todo) + 1
    <3>1. n - i + 1 \in 1 .. n
      BY <2>2
    <3>2. TerminationOrder[n - i + 1] = TerminationOrder[n - Len(todo) + 1]
      BY <2>1, <2>6
    <3>3. \A k, l \in 1 .. n : TerminationOrder[k] = TerminationOrder[l] => k = l
      BY <2>1
    <3> HIDE DEF n
    <3> QED
      BY <2>6, <3>1, <3>2, <3>3
  <2>8. \A k \in 1 .. Len(todo) : todo[k] # Subtree
    <3> SUFFICES ASSUME NEW k \in 1 .. Len(todo), todo[k] = Subtree
                 PROVE  FALSE
      OBVIOUS
    <3>1. TerminationOrder[n - Len(todo) + k] = TerminationOrder[n - j + 1]
      BY <2>1, <2>5 DEF EndOf
    <3>2. n - Len(todo) + k \in 1 .. n /\ n - j + 1 \in 1 .. n
      BY <2>2, <2>6
    <3>3. n - Len(todo) + k = n - j + 1
      BY <2>1, <3>1, <3>2
    <3> QED
      BY <2>2, <2>6, <2>7, <3>3
  <2>9. EntryDone(Subtree)
    BY <2>0, <2>3, <2>4, <2>8 DEF Keeping, StopsRest, DoneWith, HasShutdownTimeout
  <2>10. PICK g \in Goroutine : owner[g] = Subtree /\ phase[g] # "free"
    BY DEF SubtreeAlive, Runs, Up
  <2>11. children[Subtree] = g \/ waiting = g
    BY <2>0, <2>4, <2>10 DEF Keeping, OrphansTimed, HasShutdownTimeout
  <2> QED
    BY <2>0, <2>2, <2>3, <2>9, <2>10, <2>11 DEF EntryDone
<1>2. TreeInv => WholeSubtreeFirst
  BY <1>1
<1> QED
  BY <1>2, TreeInvHolds, PTL
=============================================================================
