-------------------------- MODULE LifecycleProofs ---------------------------
(***************************************************************************)
(* Proofs about the order in which Supervisor starts and stops children,   *)
(* about which of them it starts again, about what it reports of them, and *)
(* about the contract it implements in all of that.                        *)
(* For whatever faults of the children:                                    *)
(*                                                                         *)
(*   StartsAreOrdered   Spec => []StartsInOrder                            *)
(*   FinishedStaysDown  Spec => RestartPolicy                              *)
(*                                                                         *)
(* and, for children that start and stop reliably,                         *)
(*                                                                         *)
(*   StopsAreOrdered    Spec => []OrderedStop                              *)
(*   RunningIsReported  Spec => []UpIsReportedUp                           *)
(*   ReportedIsRunning  Spec => []ReportedUpIsUp                           *)
(*   ContractImplemented  Spec => ImplementsContract                       *)
(***************************************************************************)
EXTENDS SupervisorProofs

\* s is what is left of t after some steps of a loop over t.
EndOf(s, t) ==
    /\ Len(s) <= Len(t)
    /\ \A i \in 1 .. Len(s) : s[i] = t[Len(t) - Len(s) + i]

\* All of a list is left at first.
LEMMA EndOfSelf == ASSUME NEW s \in Seq(Child) PROVE EndOf(s, s)
  BY DEF EndOf

\* One step further into the list.
LEMMA EndOfTail ==
    ASSUME NEW s \in Seq(Child), NEW t \in Seq(Child), EndOf(s, t), s # << >>
    PROVE  /\ EndOf(Tail(s), t)
           /\ Len(t) - Len(s) + 1 \in 1 .. Len(t)
           /\ Head(s) = t[Len(t) - Len(s) + 1]
<1>1. /\ Len(s) \in Nat /\ Len(t) \in Nat /\ Len(s) >= 1
      /\ Head(s) = s[1]
      /\ Tail(s) \in Seq(Child) /\ Len(Tail(s)) = Len(s) - 1
      /\ \A i \in 1 .. Len(Tail(s)) : Tail(s)[i] = s[i + 1] /\ i + 1 \in 1 .. Len(s)
  BY TailFacts
<1>2. \A i \in 1 .. Len(Tail(s)) : Tail(s)[i] = t[Len(t) - Len(Tail(s)) + i]
  <2> SUFFICES ASSUME NEW i \in 1 .. Len(Tail(s))
               PROVE  Tail(s)[i] = t[Len(t) - Len(Tail(s)) + i]
    OBVIOUS
  <2>1. Len(t) - Len(s) + (i + 1) = Len(t) - Len(Tail(s)) + i
    BY <1>1
  <2> QED
    BY <1>1, <2>1 DEF EndOf
<1> QED
  BY <1>1, <1>2 DEF EndOf

\* The two orders are opposite.
LEMMA OrdersOpposite ==
    ASSUME specs \in Seq(Child)
    PROVE  /\ Len(TerminationOrder) = Len(StartOrder)
           /\ \A i \in 1 .. Len(StartOrder) :
                  StartOrder[i] = TerminationOrder[Len(StartOrder) - i + 1]
<1>1. \A i \in 1 .. Len(specs) : Len(specs) - i + 1 \in 1 .. Len(specs)
                                 /\ Len(specs) - (Len(specs) - i + 1) + 1 = i
  OBVIOUS
<1> QED
  BY <1>1, ReverseFacts DEF StartOrder, TerminationOrder

\* Neither order names a child twice, whether or not they name all of them.
LEMMA OrdersUnique ==
    ASSUME TypeInv
    PROVE  /\ StartOrder \in Seq(Child) /\ TerminationOrder \in Seq(Child)
           /\ \A i, j \in 1 .. Len(StartOrder) :
                  StartOrder[i] = StartOrder[j] => i = j
           /\ \A i, j \in 1 .. Len(TerminationOrder) :
                  TerminationOrder[i] = TerminationOrder[j] => i = j
<1>1. specs = Specs /\ specs \in Seq(Child)
  BY DEF TypeInv, Typed, TypeOK, SpecsKept
<1>2. \A i, j \in 1 .. Len(specs) : specs[i] = specs[j] => i = j
  BY <1>1, SupervisorAssumption
<1>3. \A i, j \in 1 .. Len(specs) : Reverse(specs)[i] = Reverse(specs)[j] => i = j
  <2> SUFFICES ASSUME NEW i \in 1 .. Len(specs), NEW j \in 1 .. Len(specs),
                      specs[Len(specs) - i + 1] = specs[Len(specs) - j + 1]
               PROVE  i = j
    BY <1>1, ReverseFacts
  <2>1. /\ Len(specs) - i + 1 \in 1 .. Len(specs)
        /\ Len(specs) - j + 1 \in 1 .. Len(specs)
    BY <1>1
  <2>2. Len(specs) - i + 1 = Len(specs) - j + 1
    BY <1>2, <2>1
  <2> QED
    BY <1>1, <2>2
<1> QED
  BY <1>1, <1>2, <1>3, ReverseFacts, OrdersTyped DEF StartOrder, TerminationOrder

\* The orders do not change.
LEMMA OrdersKept ==
    ASSUME TypeInv, TypeInv'
    PROVE  UNCHANGED <<StartOrder, TerminationOrder>>
  BY DEF TypeInv, Typed, SpecsKept, StartOrder, TerminationOrder

-----------------------------------------------------------------------------
(* Starting, with any faults.                                              *)

StartingAll == pc = "boot" \/ (pc = "restart" /\ strategy = "OneForAll")

\* The child that is being started is the next one in the loop.
StartsNext == (pc \in Starting /\ waiting # None) => owner[waiting] = Head(todo)

\* What is left to start is the end of the start order.
EndOfStartOrder == StartingAll => EndOf(todo, StartOrder)

\* Nothing was started before the boot, and at boot nothing was reported of
\* the children that are still to be started.
FreshAtBoot ==
    /\ pc = "build" => children = NoChildren /\ \A c \in Child : reported[c] = "None"
    /\ pc = "boot" => \A i \in 1 .. Len(todo) : reported[todo[i]] = "None"

\* A OneForOne restart is about one child, which has not finished for good.
RestartsUnfinished ==
    /\ pc \in {"siblings", "restartRollback"} => strategy = "OneForAll"
    /\ strategy = "OneForOne" =>
           /\ pc \in {"tolerance", "backoff", "restart"} => ~Finished(source)
           /\ pc = "restart" => \A i \in 1 .. Len(todo) : todo[i] = source

StartInv ==
    TypeInv /\ StartsNext /\ EndOfStartOrder /\ StartsInOrder /\ FreshAtBoot
            /\ RestartsUnfinished

\* A loop over the whole start order begins with an empty map.
LEMMA StartInvAtFirst ==
    ASSUME StartOrder \in Seq(Child), UNCHANGED StartOrder,
           todo' = StartOrder, children' = NoChildren
    PROVE  EndOfStartOrder' /\ StartsInOrder'
<1>1. \A i \in 1 .. Len(StartOrder) : children'[StartOrder[i]] = None
  BY DEF NoChildren
<1> QED
  BY <1>1, EndOfSelf DEF EndOfStartOrder, StartsInOrder

\* The call of the strategy function begins a OneForAll restart by stopping the
\* siblings, and a OneForOne restart with the one child it is about.
LEMMA StartInvRestart ==
    ASSUME StartInv, WaitThenRestart(restartCount'), pc \in {"tolerance", "backoff"},
           waiting = None, UNCHANGED <<strategy, waiting, source, children, reported>>
    PROVE  StartsNext' /\ EndOfStartOrder' /\ StartsInOrder' /\ FreshAtBoot'
              /\ RestartsUnfinished'
<1>1. CASE strategy = "OneForOne" /\ pc' = "restart" /\ todo' = <<source>>
  BY <1>1
  DEF StartInv, StartsNext, EndOfStartOrder, StartsInOrder, FreshAtBoot, RestartsUnfinished,
      StartingAll, Finished
<1>2. CASE strategy = "OneForAll" /\ pc' = "siblings"
  BY <1>2
  DEF StartsNext, EndOfStartOrder, StartsInOrder, FreshAtBoot, RestartsUnfinished,
      StartingAll, Starting
<1>3. CASE pc' = "backoff"
  BY <1>3
  DEF StartInv, StartsNext, EndOfStartOrder, StartsInOrder, FreshAtBoot, RestartsUnfinished,
      StartingAll, Starting, Finished
<1> QED
  BY <1>1, <1>2, <1>3 DEF WaitThenRestart, BeginRestart

\* Every step keeps the invariant: one case per action of Next.
LEMMA StartInvStep ==
    ASSUME StartInv, [Next]_vars
    PROVE  StartInv'
<1>0. /\ pc \in Location
      /\ todo \in Seq(Child)
      /\ waiting \in Goroutine \cup {None}
      /\ children \in [Child -> Goroutine \cup {None}]
      /\ phase \in [Goroutine -> Phase]
      /\ owner \in [Goroutine -> Child \cup {None}]
      /\ reported \in [Child -> Event]
      /\ TypeInv /\ OwnerKnown /\ SourceKnown /\ WaitingKnown
  BY DEF StartInv, TypeInv, Typed, TypeOK
<1>typed. TypeInv'
  BY TypeInvStep DEF StartInv
<1>orders. UNCHANGED StartOrder
  BY <1>0, <1>typed, OrdersKept
<1> SUFFICES StartsNext' /\ EndOfStartOrder' /\ StartsInOrder' /\ FreshAtBoot'
                /\ RestartsUnfinished'
  BY <1>typed DEF StartInv
<1>kept. ASSUME UNCHANGED <<strategy, pc, todo, source, children, reported>>, StartsNext',
                \A c \in Child : HasStarted(c) => HasStarted(c)'
         PROVE  StartsNext' /\ EndOfStartOrder' /\ StartsInOrder' /\ FreshAtBoot'
                   /\ RestartsUnfinished'
  <2>1. EndOfStartOrder' /\ FreshAtBoot' /\ RestartsUnfinished'
    BY <1>kept, <1>orders
    DEF StartInv, EndOfStartOrder, FreshAtBoot, RestartsUnfinished, StartingAll,
        Finished, EndOf
  <2>2. \A i \in 1 .. Len(StartOrder) : StartOrder[i] \in Child
    BY <1>0, OrdersUnique
  <2>3. StartsInOrder'
    BY <1>kept, <1>orders, <2>2 DEF StartInv, StartsInOrder
  <2> QED
    BY <1>kept, <2>1, <2>3
<1>1. CASE BuildNodes
  <2>1. EndOfStartOrder' /\ StartsInOrder'
    <3>1. todo' = StartOrder /\ children' = NoChildren
      BY <1>1 DEF BuildNodes, childVars, StartInv, FreshAtBoot
    <3> QED
      BY <1>0, <1>orders, <3>1, OrdersUnique, StartInvAtFirst
  <2>2. FreshAtBoot'
    <3>1. StartOrder \in Seq(Child)
      BY <1>0, OrdersUnique
    <3> QED
      BY <1>1, <3>1 DEF BuildNodes, StartInv, FreshAtBoot
  <2>3. StartsNext' /\ RestartsUnfinished'
    BY <1>0, <1>1 DEF BuildNodes, WaitingKnown, StartsNext, RestartsUnfinished, Starting, Stopping
  <2> QED
    BY <2>1, <2>2, <2>3
<1>2. CASE SpawnChild
  <2>1. StartsNext'
    BY <1>0, <1>2 DEF SpawnChild, FreeGoroutines, StartsNext
  <2>2. ASSUME NEW c \in Child, HasStarted(c)
        PROVE  HasStarted(c)'
    <3>1. /\ waiting' \in Goroutine /\ phase[waiting'] = "free"
          /\ children' = children
          /\ phase' = [phase EXCEPT ![waiting'] = "starting"]
          /\ owner' = [owner EXCEPT ![waiting'] = Head(todo)]
      BY <1>2 DEF SpawnChild, FreeGoroutines
    <3>2. children[c] \in Goroutine /\ children[c] # waiting'
      BY <1>0, <2>2, <3>1 DEF HasStarted
    <3> QED
      BY <1>0, <2>2, <3>1, <3>2 DEF HasStarted
  <2> QED
    BY <1>2, <1>kept, <2>1, <2>2 DEF SpawnChild, specVars
<1>3. ASSUME NEW g \in Goroutine, StartSucceeds(g)
      PROVE  StartsNext' /\ EndOfStartOrder' /\ StartsInOrder' /\ FreshAtBoot'
                /\ RestartsUnfinished'
  <2>1. /\ pc \in Starting /\ todo # << >> /\ owner[g] = Head(todo) /\ Head(todo) \in Child
        /\ children' = [children EXCEPT ![Head(todo)] = g]
        /\ reported' = [reported EXCEPT ![Head(todo)] = "Started"]
        /\ todo' = Tail(todo) /\ waiting' = None
        /\ phase[g] = "starting" /\ phase' = [phase EXCEPT ![g] = "running"]
        /\ UNCHANGED <<strategy, pc, source, owner>>
    BY <1>0, <1>3, NoneIsFresh, TailFacts
    DEF StartSucceeds, RecordStart, Report, StartInv, StartsNext, WaitingKnown, specVars
  <2>2. StartsNext'
    BY <2>1 DEF StartsNext
  <2>3. EndOfStartOrder' /\ StartsInOrder'
    <3> SUFFICES ASSUME StartingAll
                 PROVE  EndOf(todo', StartOrder') /\ StartsInOrder'
      BY <2>1 DEF EndOfStartOrder, StartsInOrder, StartingAll
    <3>1. EndOf(todo, StartOrder) /\ StartOrder \in Seq(Child)
      BY <1>0, OrdersUnique DEF StartInv, EndOfStartOrder
    <3> DEFINE n == Len(StartOrder) - Len(todo)
    <3>2. /\ EndOf(Tail(todo), StartOrder)
          /\ n + 1 \in 1 .. Len(StartOrder) /\ Head(todo) = StartOrder[n + 1]
      BY <1>0, <2>1, <3>1, EndOfTail
    <3>3. Len(StartOrder) - Len(Tail(todo)) = n + 1 /\ n \in Nat
      BY <1>0, <2>1, <3>1, <3>2, TailFacts
    <3>4. ASSUME NEW i \in 1 .. Len(StartOrder)
          PROVE  IF i <= n + 1
                 THEN HasStarted(StartOrder[i])'
                 ELSE children'[StartOrder[i]] = None
      <4>1. StartOrder[i] \in Child
        BY <3>1
      <4>2. IF i <= n THEN HasStarted(StartOrder[i]) ELSE children[StartOrder[i]] = None
        BY DEF StartInv, StartsInOrder, StartingAll
      <4>3. CASE i = n + 1
        <5>1. StartOrder'[i] = Head(todo) /\ children'[Head(todo)] = g /\ g # None
          BY <1>0, <1>orders, <2>1, <3>2, <4>3, NoneIsFresh
        <5>2. phase'[g] = "running" /\ owner'[g] = Head(todo)
          BY <1>0, <2>1
        <5> QED
          BY <4>3, <5>1, <5>2 DEF HasStarted
      <4>4. CASE i # n + 1
        <5>1. StartOrder[i] # Head(todo)
          BY <1>0, <3>2, <4>4, OrdersUnique
        <5>2. children'[StartOrder[i]] = children[StartOrder[i]]
          BY <1>0, <2>1, <4>1, <5>1
        <5>3. HasStarted(StartOrder[i]) => HasStarted(StartOrder[i])'
          BY <1>0, <1>orders, <2>1, <4>1, <5>2 DEF HasStarted
        <5> QED
          BY <1>orders, <3>3, <4>2, <4>4, <5>2, <5>3
      <4> QED
        BY <4>3, <4>4
    <3> QED
      BY <1>orders, <2>1, <3>2, <3>3, <3>4 DEF StartsInOrder
  <2>4. FreshAtBoot'
    <3> SUFFICES ASSUME pc = "boot", NEW i \in 1 .. Len(Tail(todo))
                 PROVE  reported'[Tail(todo)[i]] = "None"
      BY <2>1 DEF FreshAtBoot, Starting
    <3>1. Tail(todo)[i] = todo[i + 1] /\ i + 1 \in 1 .. Len(todo) /\ todo[i + 1] \in Child
      BY <1>0, <2>1, TailFacts
    <3>2. reported[todo[i + 1]] = "None"
      BY <3>1 DEF StartInv, FreshAtBoot
    <3>3. todo[i + 1] # Head(todo)
      <4>1. EndOf(todo, StartOrder) /\ StartOrder \in Seq(Child)
        BY <1>0, OrdersUnique DEF StartInv, EndOfStartOrder, StartingAll
      <4> DEFINE n == Len(StartOrder) - Len(todo)
      <4>2. todo[i + 1] = StartOrder[n + (i + 1)] /\ Head(todo) = StartOrder[n + 1]
        BY <1>0, <2>1, <3>1, <4>1, EndOfTail DEF EndOf
      <4>3. /\ n + (i + 1) \in 1 .. Len(StartOrder) /\ n + 1 \in 1 .. Len(StartOrder)
            /\ n + (i + 1) # n + 1
        BY <1>0, <3>1, <4>1 DEF EndOf
      <4> QED
        BY <1>0, <4>2, <4>3, OrdersUnique
    <3> QED
      BY <1>0, <2>1, <3>1, <3>2, <3>3
  <2>5. RestartsUnfinished'
    <3> SUFFICES ASSUME strategy = "OneForOne", pc = "restart"
                 PROVE  /\ ~Finished(source)'
                        /\ \A i \in 1 .. Len(Tail(todo)) : Tail(todo)[i] = source
      BY <2>1 DEF RestartsUnfinished, Starting
    <3>1. \A i \in 1 .. Len(todo) : todo[i] = source
      BY DEF StartInv, RestartsUnfinished
    <3>2. Head(todo) = source
      BY <1>0, <2>1, <3>1, TailFacts
    <3> QED
      BY <1>0, <2>1, <3>1, <3>2, TailFacts DEF Finished
  <2> QED
    BY <2>2, <2>3, <2>4, <2>5
<1>4. ASSUME NEW g \in Goroutine, StartFails(g)
      PROVE  StartsNext' /\ EndOfStartOrder' /\ StartsInOrder' /\ FreshAtBoot'
                /\ RestartsUnfinished'
  <2>1. CASE pc' = "bootRollback" \/ (pc' = "restartRollback" /\ strategy' = "OneForAll")
    BY <2>1
    DEF StartsNext, EndOfStartOrder, StartsInOrder, FreshAtBoot, RestartsUnfinished,
        StartingAll, Starting
  <2>2. CASE pc = "restart" /\ strategy = "OneForOne" /\ pc' = "tolerance"
             /\ UNCHANGED <<reported, source, strategy>>
    BY <2>2
    DEF StartInv, StartsNext, EndOfStartOrder, StartsInOrder, FreshAtBoot, RestartsUnfinished,
        StartingAll, Starting, Finished
  <2> QED
    BY <1>4, <2>1, <2>2 DEF StartFails, AbortStart, specVars
<1>5. ASSUME NEW g \in Goroutine, ReturnsWithoutNotify(g) \/ Ends(g) \/ HonorsCancel(g)
      PROVE  StartsNext' /\ EndOfStartOrder' /\ StartsInOrder' /\ FreshAtBoot'
                /\ RestartsUnfinished'
  <2>1. UNCHANGED <<strategy, pc, todo, waiting, source, children, owner, reported>>
    BY <1>5 DEF ReturnsWithoutNotify, Ends, HonorsCancel, ReturnsFrom, specVars, supVars
  <2>2. PICK p \in {"failing", "completing"} : phase' = [phase EXCEPT ![g] = p]
    BY <1>5 DEF ReturnsWithoutNotify, Ends, HonorsCancel, ReturnsFrom
  <2>3. \A c \in Child : HasStarted(c) => HasStarted(c)'
    BY <1>0, <2>1, <2>2 DEF HasStarted
  <2> QED
    BY <1>kept, <2>1, <2>3 DEF StartInv, StartsNext
<1>6. CASE Terminate \/ UNCHANGED vars
  <2>1. UNCHANGED <<strategy, pc, todo, waiting, source, childVars, reported>>
    BY <1>6 DEF Terminate, vars, specVars, supVars, childVars
  <2> QED
    BY <1>kept, <2>1 DEF StartInv, StartsNext, HasStarted, childVars
<1>7. CASE BuildNodesFails \/ AllStarted \/ Cleanup \/ Shutdown \/ BackoffCancelled
  <2>1. pc' \in {"dead", "loop", "shutdown"}
    BY <1>7 DEF BuildNodesFails, AllStarted, Cleanup, Shutdown, BackoffCancelled
  <2> QED
    BY <2>1
    DEF StartsNext, EndOfStartOrder, StartsInOrder, FreshAtBoot, RestartsUnfinished,
        StartingAll, Starting
<1>8. CASE pc \in Stopping /\ UNCHANGED <<strategy, pc>>
  BY <1>8
  DEF StartInv, StartsNext, EndOfStartOrder, StartsInOrder, FreshAtBoot, RestartsUnfinished,
      StartingAll, Starting, Stopping
<1>9. CASE SkipChild \/ CancelChild
  BY <1>8, <1>9 DEF SkipChild, CancelChild, specVars
<1>10. ASSUME NEW g \in Goroutine,
              ChildStopped(g) \/ ChildAlreadyGone(g) \/ ShutdownTimesOut(g)
       PROVE  StartsNext' /\ EndOfStartOrder' /\ StartsInOrder' /\ FreshAtBoot'
                /\ RestartsUnfinished'
  BY <1>8, <1>10 DEF ChildStopped, ChildAlreadyGone, ShutdownTimesOut, specVars
<1>11. CASE AllStopped
  <2>1. CASE pc = "siblings" /\ pc' = "restart" /\ RestartFromScratch
    <3>1. EndOfStartOrder' /\ StartsInOrder'
      <4>1. todo' = StartOrder /\ children' = NoChildren
        BY <2>1 DEF RestartFromScratch
      <4> QED
        BY <1>0, <1>orders, <4>1, OrdersUnique, StartInvAtFirst
    <3>2. strategy' = "OneForAll" /\ waiting' = None
      BY <1>11, <2>1 DEF AllStopped, StartInv, RestartsUnfinished, specVars
    <3> QED
      BY <2>1, <3>1, <3>2 DEF StartsNext, FreshAtBoot, RestartsUnfinished
  <2>2. CASE pc' \in {"dead", "cleanup"}
    BY <2>2
    DEF StartsNext, EndOfStartOrder, StartsInOrder, FreshAtBoot, RestartsUnfinished,
        StartingAll, Starting
  <2>3. CASE pc = "restartRollback" /\ pc' = "tolerance"
    <3>1. strategy' = "OneForAll"
      BY <1>11, <2>3 DEF AllStopped, StartInv, RestartsUnfinished, specVars
    <3> QED
      BY <2>3, <3>1
      DEF StartsNext, EndOfStartOrder, StartsInOrder, FreshAtBoot, RestartsUnfinished,
          StartingAll, Starting
  <2> QED
    BY <1>11, <2>1, <2>2, <2>3 DEF AllStopped
<1>12. CASE CheckTolerance
  <2>1. CASE GiveUp
    BY <2>1
    DEF GiveUp, StartsNext, EndOfStartOrder, StartsInOrder, FreshAtBoot, RestartsUnfinished,
        StartingAll, Starting
  <2>2. CASE WaitThenRestart(restartCount') /\ UNCHANGED children
    BY <1>0, <1>12, <2>2, StartInvRestart
    DEF CheckTolerance, WaitingKnown, Starting, Stopping, specVars
  <2> QED
    BY <1>12, <2>1, <2>2 DEF CheckTolerance
<1>13. CASE RestartUncounted
  <2>1. WaitThenRestart(restartCount')
    BY <1>13 DEF RestartUncounted
  <2> QED
    BY <1>0, <1>13, <2>1, StartInvRestart
    DEF RestartUncounted, WaitingKnown, Starting, Stopping, specVars, childVars
<1>14. CASE BackoffElapses
  <2>1. CASE strategy = "OneForOne" /\ pc' = "restart" /\ todo' = <<source>>
    BY <1>0, <1>14, <2>1
    DEF BackoffElapses, StartInv, StartsNext, EndOfStartOrder, StartsInOrder, FreshAtBoot,
        RestartsUnfinished, StartingAll, Starting, Stopping, WaitingKnown, Finished, specVars
  <2>2. CASE strategy = "OneForAll" /\ pc' = "siblings"
    BY <1>14, <2>2
    DEF BackoffElapses, StartsNext, EndOfStartOrder, StartsInOrder, FreshAtBoot,
        RestartsUnfinished, StartingAll, Starting, specVars
  <2> QED
    BY <1>14, <2>1, <2>2 DEF BackoffElapses, BeginRestart
<1>15. ASSUME NEW g \in Goroutine, Receive(g)
       PROVE  StartsNext' /\ EndOfStartOrder' /\ StartsInOrder' /\ FreshAtBoot'
                /\ RestartsUnfinished'
  <2>1. owner[g] \in Child /\ phase[g] \in {"failing", "completing"}
    BY <1>0, <1>15 DEF Receive, Pending, OwnerKnown
  <2>2. CASE NeedsRestart(owner[g], phase[g]) /\ EnterRestartLoop(g)
    <3>1. pc' = "tolerance" /\ source' = owner[g]
      BY <2>2 DEF EnterRestartLoop
    <3>2. reported' = [reported EXCEPT ![owner[g]] =
                           IF phase[g] = "failing" THEN "Failed" ELSE "Completed"]
      BY <1>15 DEF Receive, Report
    <3>3. ~Finished(source)'
      BY <1>0, <2>1, <2>2, <3>1, <3>2 DEF Finished, NeedsRestart
    <3> QED
      BY <3>1, <3>3
      DEF StartsNext, EndOfStartOrder, StartsInOrder, FreshAtBoot, RestartsUnfinished,
          StartingAll, Starting
  <2>3. CASE pc' = "loop"
    BY <2>3
    DEF StartsNext, EndOfStartOrder, StartsInOrder, FreshAtBoot, RestartsUnfinished,
        StartingAll, Starting
  <2> QED
    BY <1>15, <2>2, <2>3 DEF Receive
<1>16. ASSUME NEW g \in Goroutine, PanicUnknownChild(g)
       PROVE  StartsNext' /\ EndOfStartOrder' /\ StartsInOrder' /\ FreshAtBoot'
                /\ RestartsUnfinished'
  BY <1>16
  DEF PanicUnknownChild, StartsNext, EndOfStartOrder, StartsInOrder, FreshAtBoot,
      RestartsUnfinished, StartingAll, Starting
<1> QED
  BY <1>1, <1>2, <1>3, <1>4, <1>5, <1>6, <1>7, <1>9, <1>10, <1>11, <1>12, <1>13,
     <1>14, <1>15, <1>16
  DEF Next, Local, Over

\* The invariant holds at first.
LEMMA StartInvInit == Init => StartInv
<1> SUFFICES ASSUME Init
             PROVE  StartInv
  OBVIOUS
<1> QED
  BY TypeInvInit
  DEF Init, StartInv, StartsNext, EndOfStartOrder, StartsInOrder, FreshAtBoot,
      RestartsUnfinished, StartingAll, Starting

\* StartInv is an invariant of every supervisor.
LEMMA StartInvHolds == Spec => []StartInv
  BY StartInvInit, StartInvStep, PTL DEF Spec

\* At boot and in a OneForAll restart, the children in the supervisor's map are
\* at any time exactly those before the next one in the start order, and the
\* goroutine of each has started under its name and was not cancelled, whatever
\* starts fail, whatever children end meanwhile and whatever was left behind
\* before.  Nothing is claimed of what was left behind.
THEOREM StartsAreOrdered == Spec => []StartsInOrder
<1>1. StartInv => StartsInOrder
  BY DEF StartInv
<1> QED
  BY <1>1, StartInvHolds, PTL

\* With OneForOne, a Temporary child that ended and a Transient child that
\* completed are never started again, whatever faults there are.
THEOREM FinishedStaysDown == Spec => RestartPolicy
<1>1. ASSUME StartInv, [Next]_vars, strategy = "OneForOne", NEW c \in Child, Finished(c)
      PROVE  reported'[c] # "Started"
  <2>0. /\ todo \in Seq(Child)
        /\ owner \in [Goroutine -> Child \cup {None}]
        /\ reported \in [Child -> Event]
        /\ OwnerKnown /\ WaitingKnown
    BY <1>1 DEF StartInv, TypeInv, Typed, TypeOK
  <2>1. reported[c] # "Started"
    BY <1>1 DEF Finished
  <2>2. CASE UNCHANGED reported
    BY <2>1, <2>2
  <2>3. ASSUME NEW d, NEW e \in Event \ {"Started"}, Report(d, e)
        PROVE  reported'[c] # "Started"
    BY <2>0, <2>1, <2>3 DEF Report
  <2>4. ASSUME NEW g \in Goroutine, StartSucceeds(g)
        PROVE  reported'[c] # "Started"
    <3>1. /\ pc \in Starting /\ owner[g] = Head(todo) /\ Head(todo) = todo[1]
          /\ 1 \in 1 .. Len(todo)
          /\ reported' = [reported EXCEPT ![owner[g]] = "Started"]
      BY <1>1, <2>0, <2>4, NoneIsFresh, TailFacts
      DEF StartSucceeds, RecordStart, Report, StartInv, StartsNext, WaitingKnown
    <3>2. ~Finished(owner[g])
      BY <1>1, <3>1 DEF StartInv, FreshAtBoot, RestartsUnfinished, Starting, Finished
    <3> QED
      BY <1>1, <2>0, <2>1, <3>1, <3>2
  <2>5. ASSUME NEW g \in Goroutine, StartFails(g)
        PROVE  reported'[c] # "Started"
    BY <2>2, <2>3, <2>5 DEF StartFails, AbortStart, Event
  <2>6. ASSUME NEW g \in Goroutine, ChildStopped(g) \/ ShutdownTimesOut(g) \/ Receive(g)
        PROVE  reported'[c] # "Started"
    BY <2>3, <2>6 DEF ChildStopped, ShutdownTimesOut, Receive, StopFails, Event
  <2>7. CASE BuildNodes \/ BuildNodesFails \/ SpawnChild \/ AllStarted \/ SkipChild
                \/ CancelChild \/ AllStopped \/ Cleanup \/ CheckTolerance
                \/ RestartUncounted \/ BackoffElapses \/ Shutdown \/ BackoffCancelled
                \/ Terminate \/ UNCHANGED vars
    BY <2>2, <2>7
    DEF BuildNodes, BuildNodesFails, SpawnChild, AllStarted, SkipChild, CancelChild,
        AllStopped, Cleanup, CheckTolerance, RestartUncounted, BackoffElapses, Shutdown,
        BackoffCancelled, Terminate, vars
  <2>8. ASSUME NEW g \in Goroutine,
               ReturnsWithoutNotify(g) \/ Ends(g) \/ HonorsCancel(g)
                  \/ ChildAlreadyGone(g) \/ PanicUnknownChild(g)
        PROVE  reported'[c] # "Started"
    BY <2>2, <2>8
    DEF ReturnsWithoutNotify, Ends, HonorsCancel, ReturnsFrom, ChildAlreadyGone,
        PanicUnknownChild
  <2> QED
    BY <1>1, <2>4, <2>5, <2>6, <2>7, <2>8 DEF Next, Local, Over
<1>2. StartInv /\ [Next]_vars =>
          [strategy = "OneForOne" =>
              \A c \in Child : Finished(c) => reported'[c] # "Started"]_vars
  BY <1>1
<1> QED
  BY <1>2, StartInvHolds, PTL DEF Spec, RestartPolicy

-----------------------------------------------------------------------------
(* Stopping and reporting, with reliable children.                         *)

\* A living goroutine in the map is there under its own name.
EntryIsOwn == \A c \in Child : ~EntryDone(c) => owner[children[c]] = c

\* Only the goroutine Child.Terminate waits for has been cancelled.
OnlyWaitedStops ==
    \A g \in Goroutine : phase[g] = "stopping" => pc \in Stopping /\ waiting = g

\* What is left to stop is the end of the termination order.
EndOfTerminationOrder == pc \in Stopping => EndOf(todo, TerminationOrder)

\* A child is reported as started exactly as long as the map has a living
\* goroutine of it.
ReportsAgree == \A c \in Child : reported[c] = "Started" <=> ~EntryDone(c)

StopInv ==
    /\ TypeInv /\ SupervisionInv
    /\ EntryIsOwn /\ OnlyWaitedStops /\ EndOfTerminationOrder /\ ReportsAgree

\* The four parts are kept by a step that only ends or begins no loop, changes
\* no entry and leaves every goroutine as alive and as cancelled as it was.
LEMMA StopInvKept ==
    ASSUME StopInv, UNCHANGED <<children, owner, reported>>,
           \A g \in Goroutine :
              /\ phase'[g] = "free" <=> phase[g] = "free"
              /\ phase'[g] = "stopping" => phase[g] = "stopping"
    PROVE  /\ EntryIsOwn' /\ ReportsAgree'
           /\ (UNCHANGED <<pc, waiting>> \/ pc \notin Stopping) => OnlyWaitedStops'
<1>1. children \in [Child -> Goroutine \cup {None}]
  BY DEF StopInv, TypeInv, Typed, TypeOK
<1>2. \A c \in Child : EntryDone(c)' <=> EntryDone(c)
  BY <1>1 DEF EntryDone
<1>3. EntryIsOwn' /\ ReportsAgree'
  BY <1>2 DEF StopInv, EntryIsOwn, ReportsAgree
<1>4. (UNCHANGED <<pc, waiting>> \/ pc \notin Stopping) => OnlyWaitedStops'
  BY DEF StopInv, OnlyWaitedStops
<1> QED
  BY <1>3, <1>4

\* The entry under a name is dropped, and its goroutine has ended or ends.
LEMMA StopInvDrop ==
    ASSUME StopInv, NEW g \in Goroutine, NEW d \in Child,
           children[d] = g \/ (children[d] = None /\ phase[g] = "free"),
           phase[g] # "free" => owner[g] = d,
           phase'[g] = "free",
           \A h \in Goroutine : h # g => phase'[h] = phase[h] /\ owner'[h] = owner[h],
           \/ children' = [children EXCEPT ![d] = None]
           \/ UNCHANGED children,
           \A c \in Child : c # d => reported'[c] = reported[c],
           reported'[d] # "Started"
    PROVE  EntryIsOwn' /\ ReportsAgree'
<1>0. /\ children \in [Child -> Goroutine \cup {None}]
      /\ reported \in [Child -> Event]
  BY DEF StopInv, TypeInv, Typed, TypeOK
<1>1. EntryDone(d)'
  BY <1>0, NoneIsFresh DEF EntryDone
<1>2. ASSUME NEW c \in Child, c # d
      PROVE  /\ EntryDone(c)' <=> EntryDone(c)
             /\ ~EntryDone(c) => owner'[children'[c]] = owner[children[c]]
                                   /\ children'[c] = children[c]
  <2>1. children'[c] = children[c] /\ (children[c] # None => children[c] \in Goroutine)
    BY <1>0, <1>2
  <2>2. CASE children[c] = g
    <3>1. phase[g] = "free"
      BY <1>2, <2>2, NoneIsFresh DEF StopInv, EntryIsOwn, EntryDone
    <3> QED
      BY <2>1, <2>2, <3>1 DEF EntryDone
  <2>3. CASE children[c] # g
    BY <2>1, <2>3 DEF EntryDone
  <2> QED
    BY <2>2, <2>3
<1> QED
  BY <1>1, <1>2 DEF StopInv, EntryIsOwn, ReportsAgree

\* Every step keeps the four parts: one case per action of Next.
LEMMA StopInvStep ==
    ASSUME ReliableChildren, StaticChildren, StopInv, [Next]_vars
    PROVE  StopInv'
<1>0. /\ todo \in Seq(Child) /\ waiting \in Goroutine \cup {None}
      /\ children \in [Child -> Goroutine \cup {None}]
      /\ phase \in [Goroutine -> Phase]
      /\ owner \in [Goroutine -> Child \cup {None}]
      /\ reported \in [Child -> Event]
      /\ TypeInv /\ OwnerKnown /\ WaitingKnown
  BY DEF StopInv, TypeInv, Typed, TypeOK
<1>inv. TypeInv' /\ SupervisionInv'
  BY TypeInvStep, SupervisionStep DEF StopInv
<1>orders. /\ UNCHANGED TerminationOrder
           /\ EndOf(TerminationOrder, TerminationOrder)
           /\ TerminationOrder \in Seq(Child)
  BY <1>0, <1>inv, OrdersKept, OrdersUnique, EndOfSelf
<1>idle. (waiting = None \/ pc \notin Stopping) =>
             \A g \in Goroutine : phase[g] # "stopping"
  BY NoneIsFresh DEF StopInv, OnlyWaitedStops
<1>next. ASSUME pc \in Stopping, todo # << >>, UNCHANGED pc, todo' = Tail(todo)
         PROVE  EndOfTerminationOrder'
  BY <1>0, <1>next, <1>orders, EndOfTail DEF StopInv, EndOfTerminationOrder
<1> SUFFICES EntryIsOwn' /\ OnlyWaitedStops' /\ EndOfTerminationOrder' /\ ReportsAgree'
  BY <1>inv DEF StopInv
<1>1. CASE BuildNodes \/ BuildNodesFails \/ AllStarted \/ Cleanup \/ BackoffCancelled
  <2>1. /\ UNCHANGED <<children, phase, owner, reported>>
        /\ pc \notin Stopping /\ pc' \notin Stopping
    BY <1>1
    DEF BuildNodes, BuildNodesFails, AllStarted, Cleanup, BackoffCancelled, childVars,
        Starting, Stopping
  <2> QED
    BY <2>1, StopInvKept DEF EndOfTerminationOrder
<1>2. CASE SpawnChild
  <2>1. PICK g \in FreeGoroutines :
            /\ phase' = [phase EXCEPT ![g] = "starting"]
            /\ owner' = [owner EXCEPT ![g] = Head(todo)]
    BY <1>2, Zenon DEF SpawnChild
  <2>2. /\ g \in Goroutine /\ phase[g] = "free"
        /\ \A c \in Child : children[c] # g
    BY <2>1, NoneIsFresh DEF FreeGoroutines, Tracked
  <2>3. pc \in Starting /\ UNCHANGED <<pc, children, reported>>
    BY <1>2 DEF SpawnChild
  <2>4. \A c \in Child : children[c] # None =>
            /\ phase'[children[c]] = phase[children[c]]
            /\ owner'[children[c]] = owner[children[c]]
    BY <1>0, <2>1, <2>2
  <2>5. EntryIsOwn' /\ ReportsAgree'
    BY <2>3, <2>4 DEF StopInv, EntryIsOwn, ReportsAgree, EntryDone
  <2>6. \A h \in Goroutine : phase'[h] # "stopping"
    BY <1>0, <1>idle, <2>1, <2>2, <2>3 DEF Starting, Stopping
  <2> QED
    BY <2>3, <2>5, <2>6
    DEF OnlyWaitedStops, EndOfTerminationOrder, Starting, Stopping
<1>3. CASE SkipChild
  <2>1. /\ UNCHANGED <<pc, waiting, children, phase, owner, reported>>
        /\ pc \in Stopping /\ todo # << >> /\ todo' = Tail(todo)
    BY <1>3 DEF SkipChild, childVars
  <2> QED
    BY <1>next, <2>1, StopInvKept
<1>4. CASE CancelChild
  <2> DEFINE g == children[Head(todo)]
  <2>1. /\ pc \in Stopping /\ UNCHANGED <<pc, todo, children, owner, reported>>
        /\ g \in Goroutine /\ waiting = None /\ waiting' = g
        /\ phase' = [phase EXCEPT ![g] = IF @ = "running" THEN "stopping" ELSE @]
    BY <1>0, <1>4, TailFacts DEF CancelChild
  <2>2. \A h \in Goroutine : /\ phase'[h] = "free" <=> phase[h] = "free"
                             /\ h # g => phase'[h] = phase[h]
    BY <1>0, <2>1
  <2>3. \A c \in Child : EntryDone(c)' <=> EntryDone(c)
    BY <1>0, <2>1, <2>2 DEF EntryDone
  <2>4. EntryIsOwn' /\ ReportsAgree'
    BY <2>1, <2>3 DEF StopInv, EntryIsOwn, ReportsAgree
  <2>5. OnlyWaitedStops'
    BY <1>idle, <2>1, <2>2 DEF OnlyWaitedStops
  <2> QED
    BY <1>orders, <2>1, <2>4, <2>5 DEF StopInv, EndOfTerminationOrder
<1>5. CASE AllStopped
  <2>1. AllFree
    BY <1>0, <1>5, AllDone DEF AllStopped, StopInv, SupervisionInv, StillToStop, Starting,
       Stopping
  <2>2. /\ UNCHANGED <<phase, owner, reported>> /\ pc' \notin Stopping
        /\ children' = children \/ children' = NoChildren
    BY <1>5 DEF AllStopped, RestartFromScratch, Stopping
  <2>3. \A c \in Child : EntryDone(c) /\ EntryDone(c)'
    BY <1>0, <2>1, <2>2 DEF EntryDone, AllFree, NoChildren
  <2> QED
    BY <2>1, <2>2, <2>3
    DEF StopInv, EntryIsOwn, OnlyWaitedStops, EndOfTerminationOrder, ReportsAgree, AllFree
<1>6. ASSUME BeginRestart \/ (pc' \in {"backoff", "shutdown"}
                                /\ (pc' = "shutdown" => todo' = TerminationOrder)),
             pc \in {"tolerance", "backoff", "loop"},
             UNCHANGED <<children, phase, owner, reported>>
      PROVE  EntryIsOwn' /\ OnlyWaitedStops' /\ EndOfTerminationOrder' /\ ReportsAgree'
  <2>1. EntryIsOwn' /\ OnlyWaitedStops' /\ ReportsAgree'
    BY <1>6, StopInvKept DEF Stopping
  <2>2. EndOfTerminationOrder'
    BY <1>6, <1>orders DEF BeginRestart, EndOfTerminationOrder, Stopping
  <2> QED
    BY <2>1, <2>2
<1>7. CASE CheckTolerance \/ RestartUncounted \/ BackoffElapses \/ Shutdown
  BY <1>6, <1>7
  DEF CheckTolerance, RestartUncounted, BackoffElapses, Shutdown, WaitThenRestart, GiveUp,
      childVars
<1>8. CASE Terminate \/ UNCHANGED vars
  <2>1. UNCHANGED <<pc, todo, waiting, children, phase, owner, reported>>
    BY <1>8 DEF Terminate, supVars, childVars, vars
  <2> QED
    BY <1>orders, <2>1, StopInvKept DEF StopInv, EndOfTerminationOrder
<1>9. ASSUME NEW g \in Goroutine, StartSucceeds(g)
      PROVE  EntryIsOwn' /\ OnlyWaitedStops' /\ EndOfTerminationOrder' /\ ReportsAgree'
  <2>1. /\ pc \in Starting /\ UNCHANGED <<pc, owner>>
        /\ phase[g] = "starting" /\ phase' = [phase EXCEPT ![g] = "running"]
        /\ owner[g] \in Child
        /\ children' = [children EXCEPT ![owner[g]] = g]
        /\ reported' = [reported EXCEPT ![owner[g]] = "Started"]
    BY <1>0, <1>9 DEF StartSucceeds, RecordStart, Report, OwnerKnown
  <2>2. ASSUME NEW c \in Child, c # owner[g]
        PROVE  children'[c] = children[c] /\ (EntryDone(c)' <=> EntryDone(c))
    <3>1. children'[c] = children[c] /\ (children[c] # None => children[c] \in Goroutine)
      BY <1>0, <2>1, <2>2
    <3>2. children[c] # g
      BY <2>1, <2>2, NoneIsFresh DEF StopInv, EntryIsOwn, EntryDone
    <3> QED
      BY <1>0, <2>1, <3>1, <3>2 DEF EntryDone
  <2>3. children'[owner[g]] = g /\ ~EntryDone(owner[g])'
    BY <1>0, <2>1, NoneIsFresh DEF EntryDone
  <2>4. EntryIsOwn' /\ ReportsAgree'
    BY <1>0, <2>1, <2>2, <2>3 DEF StopInv, EntryIsOwn, ReportsAgree
  <2> QED
    BY <1>0, <1>idle, <2>1, <2>4
    DEF OnlyWaitedStops, EndOfTerminationOrder, Starting, Stopping
<1>10. ASSUME NEW g \in Goroutine, ReturnsWithoutNotify(g) \/ Ends(g) \/ HonorsCancel(g)
       PROVE  EntryIsOwn' /\ OnlyWaitedStops' /\ EndOfTerminationOrder' /\ ReportsAgree'
  <2>1. /\ UNCHANGED <<pc, todo, waiting, children, owner, reported>>
        /\ phase[g] # "free"
        /\ \E p \in {"failing", "completing"} : phase' = [phase EXCEPT ![g] = p]
    BY <1>10 DEF ReturnsWithoutNotify, Ends, HonorsCancel, ReturnsFrom, supVars
  <2>2. \A h \in Goroutine : /\ phase'[h] = "free" <=> phase[h] = "free"
                             /\ phase'[h] = "stopping" => phase[h] = "stopping"
    BY <1>0, <2>1
  <2> QED
    BY <1>orders, <2>1, <2>2, StopInvKept DEF StopInv, EndOfTerminationOrder
<1>11. ASSUME NEW g \in Goroutine, ChildStopped(g) \/ ChildAlreadyGone(g)
       PROVE  EntryIsOwn' /\ OnlyWaitedStops' /\ EndOfTerminationOrder' /\ ReportsAgree'
  <2>1. /\ pc \in Stopping /\ UNCHANGED pc /\ waiting = g
        /\ todo # << >> /\ Head(todo) \in Child /\ children[Head(todo)] = g
        /\ todo' = Tail(todo) /\ children' = [children EXCEPT ![Head(todo)] = None]
    BY <1>0, <1>11, TailFacts, NoneIsFresh
    DEF ChildStopped, ChildAlreadyGone, WaitIsOver, StopInv, SupervisionInv, WaitingFor,
        WaitingKnown, Starting, Stopping
  <2>2. /\ phase'[g] = "free"
        /\ \A h \in Goroutine : h # g => phase'[h] = phase[h] /\ owner'[h] = owner[h]
    BY <1>0, <1>11 DEF ChildStopped, ChildAlreadyGone, Exit
  <2>3. phase[g] # "free" => owner[g] = Head(todo)
    BY <2>1, NoneIsFresh DEF StopInv, EntryIsOwn, EntryDone
  <2>4. /\ \A c \in Child : c # Head(todo) => reported'[c] = reported[c]
        /\ reported'[Head(todo)] # "Started"
    <3>1. CASE ChildStopped(g)
      BY <1>0, <2>1, <3>1 DEF ChildStopped, StopFails, Report
    <3>2. CASE ChildAlreadyGone(g)
      BY <2>1, <3>2 DEF ChildAlreadyGone, StopInv, ReportsAgree, EntryDone
    <3> QED
      BY <1>11, <3>1, <3>2
  <2>5. EntryIsOwn' /\ ReportsAgree'
    BY <2>1, <2>2, <2>3, <2>4, StopInvDrop
  <2>6. OnlyWaitedStops'
    BY <2>1, <2>2 DEF StopInv, OnlyWaitedStops
  <2> QED
    BY <1>next, <2>1, <2>5, <2>6
<1>12. ASSUME NEW g \in Goroutine, Receive(g)
       PROVE  EntryIsOwn' /\ OnlyWaitedStops' /\ EndOfTerminationOrder' /\ ReportsAgree'
  <2>1. /\ pc = "loop" /\ phase[g] # "free" /\ owner[g] \in Child
        /\ children[owner[g]] = g
    BY <1>0, <1>12
    DEF Receive, Pending, OwnerKnown, StopInv, SupervisionInv, NoOrphan, Starting
  <2>2. /\ phase'[g] = "free" /\ pc' \notin Stopping
        /\ \A h \in Goroutine : h # g => phase'[h] = phase[h] /\ owner'[h] = owner[h]
    BY <1>0, <1>12, <2>1 DEF Receive, Exit, EnterRestartLoop, Stopping
  <2>3. /\ \A c \in Child : c # owner[g] => reported'[c] = reported[c]
        /\ reported'[owner[g]] # "Started"
    BY <1>0, <1>12, <2>1 DEF Receive, Report
  <2>4. \/ children' = [children EXCEPT ![owner[g]] = None]
        \/ UNCHANGED children
    BY <1>12 DEF Receive, EnterRestartLoop
  <2>5. EntryIsOwn' /\ ReportsAgree'
    BY <2>1, <2>2, <2>3, <2>4, StopInvDrop
  <2>6. OnlyWaitedStops'
    BY <1>idle, <2>1, <2>2 DEF OnlyWaitedStops, Stopping
  <2> QED
    BY <2>2, <2>5, <2>6 DEF EndOfTerminationOrder
<1>13. ASSUME NEW g \in Goroutine,
              StartFails(g) \/ ShutdownTimesOut(g) \/ PanicUnknownChild(g)
       PROVE  FALSE
  <2>1. CASE StartFails(g) \/ ShutdownTimesOut(g)
    BY <2>1 DEF StartFails, ShutdownTimesOut, HasShutdownTimeout, ReliableChildren
  <2>2. CASE PanicUnknownChild(g)
    <3>1. pc' = "panicked"
      BY <2>2 DEF PanicUnknownChild
    <3> QED
      BY <1>inv, <3>1 DEF SupervisionInv, NeverPanics
  <2> QED
    BY <1>13, <2>1, <2>2
<1> QED
  BY <1>1, <1>2, <1>3, <1>4, <1>5, <1>7, <1>8, <1>9, <1>10, <1>11, <1>12, <1>13
  DEF Next, Local, Over

\* The four parts hold at first: there is no goroutine and nothing was reported.
LEMMA StopInvInit == Init => StopInv
<1> SUFFICES ASSUME Init PROVE StopInv
  OBVIOUS
<1>1. TypeInv /\ SupervisionInv
  BY TypeInvInit, SupervisionInit
<1>2. \A c \in Child : EntryDone(c)
  BY DEF Init, NoChildren, EntryDone
<1> QED
  BY <1>1, <1>2
  DEF Init, StopInv, EntryIsOwn, OnlyWaitedStops, EndOfTerminationOrder, ReportsAgree,
      Stopping

\* The invariant about stopping and reporting holds throughout.
LEMMA StopInvHolds == ReliableChildren /\ StaticChildren => (Spec => []StopInv)
<1> SUFFICES ASSUME ReliableChildren, StaticChildren
             PROVE  Spec => []StopInv
  OBVIOUS
<1>1. StopInv /\ [Next]_vars => StopInv'
  BY StopInvStep
<1> QED
  BY <1>1, StopInvInit, PTL DEF Spec

\* A reliable child is cancelled only when every sibling started after it is
\* gone, in a shutdown and in a OneForAll restart alike.
THEOREM StopsAreOrdered == ReliableChildren /\ StaticChildren => (Spec => []OrderedStop)
<1>1. ASSUME StopInv PROVE OrderedStop
  <2>0. /\ TypeInv /\ todo \in Seq(Child) /\ specs \in Seq(Child)
        /\ children \in [Child -> Goroutine \cup {None}]
    BY <1>1 DEF StopInv, TypeInv, Typed, TypeOK
  <2>1. /\ StartOrder \in Seq(Child) /\ TerminationOrder \in Seq(Child)
        /\ Len(TerminationOrder) = Len(StartOrder)
        /\ \A k \in 1 .. Len(StartOrder) :
               StartOrder[k] = TerminationOrder[Len(StartOrder) - k + 1]
        /\ \A k, l \in 1 .. Len(TerminationOrder) :
               TerminationOrder[k] = TerminationOrder[l] => k = l
    BY <2>0, OrdersOpposite, OrdersUnique
  <2> SUFFICES ASSUME NEW i \in 1 .. Len(StartOrder), NEW j \in 1 .. Len(StartOrder),
                      i < j, children[StartOrder[i]] # None,
                      phase[children[StartOrder[i]]] = "stopping",
                      ~EntryDone(StartOrder[j])
               PROVE  FALSE
    BY DEF OrderedStop, EntryDone, Up
  <2> DEFINE n == Len(StartOrder)
             g == children[StartOrder[i]]
  <2>2. StartOrder[i] \in Child /\ StartOrder[j] \in Child /\ n \in Nat
    BY <2>1
  <2>3. g \in Goroutine /\ pc \in Stopping /\ waiting = g /\ owner[g] = StartOrder[i]
    BY <1>1, <2>0, <2>2 DEF StopInv, OnlyWaitedStops, EntryIsOwn, EntryDone
  <2>4. todo # << >> /\ Head(todo) \in Child /\ children[Head(todo)] = g
    BY <1>1, <2>0, <2>3, TailFacts, NoneIsFresh
    DEF StopInv, TypeInv, Typed, WaitingKnown, SupervisionInv, WaitingFor, Starting, Stopping
  <2>5. Head(todo) = StartOrder[i]
    BY <1>1, <2>3, <2>4, NoneIsFresh DEF StopInv, EntryIsOwn, EntryDone
  <2>6. EndOf(todo, TerminationOrder)
    BY <1>1, <2>3 DEF StopInv, EndOfTerminationOrder
  <2>7. /\ Len(todo) \in Nat /\ n - Len(todo) + 1 \in 1 .. n
        /\ StartOrder[i] = TerminationOrder[n - Len(todo) + 1]
    BY <2>0, <2>1, <2>4, <2>5, <2>6, EndOfTail
  <2>8. n - i + 1 = n - Len(todo) + 1
    <3>1. n - i + 1 \in 1 .. n
      BY <2>2
    <3> QED
      BY <2>1, <2>7, <3>1
  <2>9. PICK k \in 1 .. Len(todo) : todo[k] = StartOrder[j]
    BY <1>1, <2>2, <2>3 DEF StopInv, SupervisionInv, StillToStop
  <2>10. TerminationOrder[n - Len(todo) + k] = TerminationOrder[n - j + 1]
    BY <2>1, <2>6, <2>9 DEF EndOf
  <2>11. n - Len(todo) + k \in 1 .. n /\ n - j + 1 \in 1 .. n
    BY <2>2, <2>7, <2>9
  <2>12. n - Len(todo) + k = n - j + 1
    BY <2>1, <2>10, <2>11
  <2> QED
    BY <2>2, <2>7, <2>8, <2>12
<1>2. StopInv => OrderedStop
  BY <1>1
<1> QED
  BY <1>2, StopInvHolds, PTL

\* What the loop supervises and has not seen end was last reported as started.
THEOREM RunningIsReported ==
    ReliableChildren /\ StaticChildren => (Spec => []UpIsReportedUp)
<1>1. StopInv => UpIsReportedUp
  BY DEF StopInv, ReportsAgree, UpIsReportedUp, EntryDone
<1> QED
  BY <1>1, StopInvHolds, PTL

\* What was last reported as started is supervised, and its end was not seen;
\* once the supervisor is dead, no child is left reported so.
THEOREM ReportedIsRunning ==
    ReliableChildren /\ StaticChildren => (Spec => []ReportedUpIsUp)
<1>1. ASSUME StopInv PROVE ReportedUpIsUp
  <2>1. children \in [Child -> Goroutine \cup {None}]
    BY <1>1 DEF StopInv, TypeInv, Typed, TypeOK
  <2> SUFFICES ASSUME NEW c \in Child, reported[c] = "Started"
               PROVE  /\ children[c] # None /\ phase[children[c]] # "free"
                      /\ pc # "dead"
    BY DEF ReportedUpIsUp
  <2>2. ~EntryDone(c)
    BY <1>1 DEF StopInv, ReportsAgree
  <2> QED
    BY <1>1, <2>1, <2>2 DEF StopInv, SupervisionInv, Quiet, AllFree, EntryDone
<1>2. StopInv => ReportedUpIsUp
  BY <1>1
<1> QED
  BY <1>2, StopInvHolds, PTL

-----------------------------------------------------------------------------
(* Supervisor implements SupervisorContract when its children start and    *)
(* stop reliably: the refinement mapping is Stage and Incarnations.  What  *)
(* happens to the goroutines follows from SupervisionInv; that a           *)
(* supervisor which reports its start has all of its children needs one    *)
(* more invariant, BootComplete.                                           *)

\* While the supervisor boots, a child is still to be started or it is there.
BootComplete ==
    pc = "boot" =>
        \A c \in Child : (\E i \in 1 .. Len(todo) : todo[i] = c) \/ Incarnations[c] # {}

KnownInv == TypeInv /\ SupervisionInv /\ BootComplete

-----------------------------------------------------------------------------
(* BootComplete is kept.                                                   *)

\* No goroutine goes away, and none changes its name.
NoneGoes ==
    \A g \in Goroutine : phase[g] # "free" => phase'[g] # "free" /\ owner'[g] = owner[g]

\* Every step keeps BootComplete: only those that start a boot or are taken
\* during one matter, and no child of a booting supervisor is received.
LEMMA BootCompleteStep ==
    ASSUME StaticChildren, KnownInv, [Next]_vars
    PROVE  BootComplete'
<1> SUFFICES ASSUME pc' = "boot", NEW c \in Child
             PROVE  (\E i \in 1 .. Len(todo') : todo'[i] = c) \/ Incarnations'[c] # {}
  BY DEF BootComplete
<1>0. /\ todo \in Seq(Child)
      /\ phase \in [Goroutine -> Phase]
      /\ owner \in [Goroutine -> Child \cup {None}]
  BY DEF KnownInv, TypeInv, Typed, TypeOK
<1>1. CASE BuildNodes
  <2>1. ListsAll(StartOrder)
    <3>1. ListsAll(Specs)
      BY SupervisorAssumption DEF StaticChildren, ListsAll
    <3>2. specs = Specs
      BY DEF KnownInv, TypeInv, Typed, SpecsKept
    <3> QED
      BY <3>1, <3>2, OrdersListAll
  <2> QED
    BY <1>1, <2>1 DEF BuildNodes, ListsAll
<1>stays. ASSUME NoneGoes, Incarnations[c] # {}
          PROVE  Incarnations'[c] # {}
  BY <1>stays DEF NoneGoes, Incarnations
<1>2. CASE pc = "boot" /\ UNCHANGED todo /\ NoneGoes
  BY <1>2, <1>stays DEF KnownInv, BootComplete
<1>3. ASSUME NEW g \in Goroutine, StartSucceeds(g)
      PROVE  (\E i \in 1 .. Len(todo') : todo'[i] = c) \/ Incarnations'[c] # {}
  <2>1. /\ pc = "boot" /\ owner[g] = Head(todo) /\ todo # << >>
        /\ phase' = [phase EXCEPT ![g] = "running"]
        /\ UNCHANGED owner
        /\ todo' = Tail(todo)
    BY <1>3, NoneIsFresh
    DEF StartSucceeds, KnownInv, TypeInv, Typed, SupervisionInv, WaitingFor, WaitingKnown,
        Stopping, Starting
  <2>2. CASE c = Head(todo)
    BY <1>0, <2>1, <2>2 DEF Incarnations
  <2>3. CASE c # Head(todo) /\ \E i \in 1 .. Len(todo) : todo[i] = c
    <3>1. PICK i \in 1 .. Len(todo) : todo[i] = c
      BY <2>3
    <3>2. i # 1
      BY <1>0, <2>1, <2>3, <3>1, TailFacts
    <3>3. i - 1 \in 1 .. Len(Tail(todo)) /\ Tail(todo)[i - 1] = todo[i]
      BY <1>0, <2>1, <3>2, TailFacts
    <3> QED
      BY <2>1, <3>1, <3>3
  <2>4. CASE Incarnations[c] # {}
    BY <1>0, <1>stays, <2>1, <2>4 DEF NoneGoes
  <2> QED
    BY <2>1, <2>2, <2>3, <2>4 DEF KnownInv, BootComplete
<1>4. CASE SpawnChild
  <2>1. NoneGoes
    BY <1>0, <1>4 DEF SpawnChild, FreeGoroutines, NoneGoes
  <2> QED
    BY <1>2, <1>4, <2>1 DEF SpawnChild
<1>5. ASSUME NEW g \in Goroutine,
             ReturnsWithoutNotify(g) \/ Ends(g) \/ HonorsCancel(g)
      PROVE  (\E i \in 1 .. Len(todo') : todo'[i] = c) \/ Incarnations'[c] # {}
  <2>1. NoneGoes
    BY <1>0, <1>5 DEF ReturnsWithoutNotify, Ends, HonorsCancel, ReturnsFrom, NoneGoes
  <2> QED
    BY <1>2, <1>5, <2>1 DEF ReturnsWithoutNotify, Ends, HonorsCancel, ReturnsFrom, supVars
<1>6. CASE Terminate \/ UNCHANGED vars
  BY <1>2, <1>6 DEF Terminate, vars, supVars, childVars, NoneGoes
<1>7. ASSUME NEW g \in Goroutine, StartFails(g) \/ ChildStopped(g) \/ ChildAlreadyGone(g)
                \/ ShutdownTimesOut(g) \/ Receive(g) \/ PanicUnknownChild(g)
      PROVE  FALSE
  BY <1>7
  DEF StartFails, AbortStart, ChildStopped, ChildAlreadyGone, ShutdownTimesOut, Receive,
      EnterRestartLoop, PanicUnknownChild, Stopping
<1>8. CASE BuildNodesFails \/ AllStarted \/ AllStopped \/ Cleanup
  BY <1>8 DEF BuildNodesFails, AllStarted, AllStopped, Cleanup
<1>9. CASE SkipChild \/ CancelChild \/ Shutdown \/ BackoffCancelled
  BY <1>9 DEF SkipChild, CancelChild, Shutdown, BackoffCancelled, Stopping
<1>10. CASE CheckTolerance \/ RestartUncounted \/ BackoffElapses
  BY <1>10
  DEF CheckTolerance, GiveUp, RestartUncounted, BackoffElapses, WaitThenRestart, BeginRestart
<1> QED
  BY <1>1, <1>3, <1>4, <1>5, <1>6, <1>7, <1>8, <1>9, <1>10 DEF Next, Local, Over

\* What the implementation proof knows of the reachable states.
LEMMA KnownInvHolds == ReliableChildren /\ StaticChildren => (Spec => []KnownInv)
<1> SUFFICES ASSUME ReliableChildren, StaticChildren
             PROVE  Spec => []KnownInv
  OBVIOUS
<1>1. Init => KnownInv
  BY TypeInvInit, SupervisionInit DEF KnownInv, BootComplete, Init
<1>2. KnownInv /\ [Next]_vars => KnownInv'
  BY TypeInvStep, SupervisionStep, BootCompleteStep DEF KnownInv
<1> QED
  BY <1>1, <1>2, PTL DEF Spec

-----------------------------------------------------------------------------
(* Goroutines and incarnations.                                            *)

\* Nothing came and nothing went.
LEMMA IncarnationsKept ==
    ASSUME \A g \in Goroutine : phase'[g] = "free" <=> phase[g] = "free",
           UNCHANGED owner
    PROVE  UNCHANGED Incarnations
  BY DEF Incarnations

\* A goroutine that exists outside a start is alone under its name.
LEMMA OneIncarnation ==
    ASSUME NoOrphan, pc \notin Starting, NEW g \in Goroutine, phase[g] # "free"
    PROVE  owner[g] \in Child /\ Incarnations[owner[g]] = {g}
<1>1. \A h \in Goroutine : phase[h] # "free" => owner[h] \in Child /\ children[owner[h]] = h
  BY DEF NoOrphan
<1> QED
  BY <1>1 DEF Incarnations

\* The end of a goroutine outside a start is the end of one child.
LEMMA ExitEndsOne ==
    ASSUME TypeInv, NoOrphan, pc \notin Starting, NEW g \in Goroutine, phase[g] # "free",
           Exit(g), Stage' = Stage, UNCHANGED ctxDone,
           UNCHANGED outcome \/ (Stage = "stopping" /\ outcome' = "crashed")
    PROVE  Contract!Next
<1>1. owner[g] \in Child /\ Incarnations[owner[g]] = {g}
  BY OneIncarnation
<1>2. /\ phase \in [Goroutine -> Phase]
      /\ owner \in [Goroutine -> Child \cup {None}]
  BY DEF TypeInv, Typed, TypeOK
<1>3. /\ \A h \in Goroutine : h # g => phase'[h] = phase[h] /\ owner'[h] = owner[h]
      /\ phase'[g] = "free"
  BY <1>2 DEF Exit
<1>4. Incarnations'[owner[g]] = {}
  <2>1. \A h \in Goroutine : phase[h] # "free" /\ owner[h] = owner[g] => h = g
    BY DEF NoOrphan
  <2> QED
    BY <1>1, <1>3, <2>1 DEF Incarnations
<1>5. ASSUME NEW c \in Child, c # owner[g]
      PROVE  Incarnations'[c] = Incarnations[c]
  BY <1>3, <1>5 DEF Incarnations
<1>6. Incarnations' = [Incarnations EXCEPT ![owner[g]] = {}]
  BY <1>1, <1>4, <1>5 DEF Incarnations
<1>7. Contract!EndOne(owner[g])
  BY <1>1, <1>6 DEF Contract!EndOne
<1> QED
  BY <1>1, <1>7 DEF Contract!Next

\* Without goroutines there are no incarnations.
LEMMA NobodyLeft == ASSUME AllFree PROVE Incarnations = Contract!Nobody
  BY DEF AllFree, Incarnations, Contract!Nobody

-----------------------------------------------------------------------------
(* The refinement.                                                         *)

\* The initial states are initial states of the contract.
LEMMA ContractInit == Init => Contract!Init
<1> SUFFICES ASSUME Init
             PROVE  Contract!Init
  OBVIOUS
<1>1. AllFree
  BY DEF Init, AllFree
<1> QED
  BY <1>1, NobodyLeft DEF Init, Contract!Init, Stage

\* A step that changes neither the stage nor the goroutines nor the verdict.
LEMMA Stutters ==
    ASSUME Stage' = Stage, UNCHANGED <<Incarnations, ctxDone, outcome>>
    PROVE  UNCHANGED Contract!vars
  BY DEF Contract!vars

\* DoStart of a child: nothing lives under its name, and the goroutine is new.
LEMMA SpawnStartsOne ==
    ASSUME KnownInv, SpawnChild
    PROVE  Contract!Next
<1>0. /\ todo \in Seq(Child) /\ todo # << >>
      /\ Head(todo) \in Child /\ Head(todo) = todo[1] /\ 1 \in 1 .. Len(todo)
      /\ children \in [Child -> Goroutine \cup {None}]
      /\ phase \in [Goroutine -> Phase]
      /\ owner \in [Goroutine -> Child \cup {None}]
      /\ pc \in Starting /\ waiting = None
  BY TailFacts DEF SpawnChild, KnownInv, TypeInv, Typed, TypeOK
<1>1. PICK g \in FreeGoroutines : waiting' = g
  BY DEF SpawnChild
<1>2. /\ g \in Goroutine /\ phase[g] = "free"
      /\ phase' = [phase EXCEPT ![g] = "starting"]
      /\ owner' = [owner EXCEPT ![g] = Head(todo)]
      /\ UNCHANGED <<pc, ctxDone, outcome>>
  BY <1>1 DEF SpawnChild, FreeGoroutines
<1>3. EntryDone(Head(todo))
  BY <1>0 DEF KnownInv, SupervisionInv, StillToStart
<1>4. \A h \in Goroutine : phase[h] # "free" => children[owner[h]] = h
  BY <1>0, NoneIsFresh DEF KnownInv, SupervisionInv, NoOrphan
<1>5. Incarnations[Head(todo)] = {}
  BY <1>0, <1>3, <1>4, NoneIsFresh DEF Incarnations, EntryDone
<1>6. \A d \in Child : g \notin Incarnations[d]
  BY <1>2 DEF Incarnations
<1>7. \A h \in Goroutine : h # g => phase'[h] = phase[h] /\ owner'[h] = owner[h]
  BY <1>0, <1>2
<1>8. phase'[g] # "free" /\ owner'[g] = Head(todo)
  BY <1>0, <1>2
<1>9. Incarnations'[Head(todo)] = {g}
  BY <1>0, <1>2, <1>5, <1>7, <1>8 DEF Incarnations
<1>10. ASSUME NEW c \in Child, c # Head(todo)
       PROVE  Incarnations'[c] = Incarnations[c]
  BY <1>2, <1>7, <1>8, <1>10 DEF Incarnations
<1>11. Incarnations' = [Incarnations EXCEPT ![Head(todo)] = {g}]
  BY <1>0, <1>9, <1>10 DEF Incarnations
<1>12. Stage \in {"starting", "up"} /\ Stage' = Stage
  BY <1>0, <1>2 DEF Stage, Starting, Ended
<1>13. Contract!StartOne(Head(todo), g)
  BY <1>2, <1>5, <1>6, <1>11, <1>12 DEF Contract!StartOne
<1> QED
  BY <1>0, <1>2, <1>13 DEF Contract!Next

\* Every step is a step of the contract or a stutter: one case per action.
LEMMA ContractStep ==
    ASSUME ReliableChildren, KnownInv, [Next]_vars
    PROVE  [Contract!Next]_(Contract!vars)
<1>0. /\ pc \in Location
      /\ todo \in Seq(Child)
      /\ phase \in [Goroutine -> Phase]
      /\ owner \in [Goroutine -> Child \cup {None}]
      /\ NoOrphan /\ Quiet
      /\ TypeInv
  BY DEF KnownInv, TypeInv, Typed, TypeOK, SupervisionInv
<1>same. ASSUME UNCHANGED <<phase, owner>>
         PROVE  UNCHANGED Incarnations
  BY <1>same, IncarnationsKept
<1>1. CASE BuildNodes \/ SkipChild \/ Terminate
  <2>1. CASE BuildNodes \/ SkipChild
    <3>1. UNCHANGED <<Incarnations, ctxDone, outcome>>
      BY <1>same, <2>1 DEF BuildNodes, SkipChild, childVars
    <3>2. Stage' = Stage
      BY <2>1 DEF BuildNodes, SkipChild, Stage, Ended
    <3> QED
      BY <3>1, <3>2, Stutters
  <2>2. CASE Terminate
    <3>1. UNCHANGED <<Incarnations, Stage, outcome>>
      BY <1>same, <2>2 DEF Terminate, supVars, childVars, Stage
    <3> QED
      BY <2>2, <3>1 DEF Terminate, Contract!Next, Contract!Ask
  <2> QED
    BY <1>1, <2>1, <2>2
<1>2. CASE BuildNodesFails
  <2>1. Incarnations = Contract!Nobody /\ UNCHANGED Incarnations
    BY <1>0, <1>2, <1>same, NobodyLeft DEF BuildNodesFails, Quiet, childVars
  <2>2. Stage = "starting" /\ Stage' = "over"
    BY <1>2 DEF BuildNodesFails, Stage, Ended
  <2> QED
    BY <1>2, <2>1, <2>2 DEF BuildNodesFails, Contract!Next, Contract!ReportStartFailed
<1>3. CASE SpawnChild
  BY <1>3, SpawnStartsOne
<1>4. CASE AllStarted
  <2>1. UNCHANGED <<Incarnations, ctxDone, outcome>>
    BY <1>4, <1>same DEF AllStarted, childVars
  <2>2. CASE pc = "boot"
    <3>1. Stage = "starting" /\ Stage' = "up"
      BY <1>4, <2>2 DEF AllStarted, Stage, Ended
    <3>2. \A c \in Child : Incarnations[c] # {}
      BY <1>4, <2>2 DEF AllStarted, KnownInv, BootComplete
    <3> QED
      BY <2>1, <3>1, <3>2 DEF Contract!Next, Contract!ReportStarted
  <2>3. CASE pc = "restart"
    <3>1. Stage' = Stage
      BY <1>4, <2>3 DEF AllStarted, Stage, Ended
    <3> QED
      BY <2>1, <3>1, Stutters
  <2> QED
    BY <1>4, <2>2, <2>3 DEF AllStarted, Starting
<1>5. CASE CancelChild
  <2>1. UNCHANGED Incarnations
    BY <1>0, <1>5, IncarnationsKept DEF CancelChild
  <2>2. Stage' = Stage
    BY <1>5 DEF CancelChild, Stage
  <2> QED
    BY <1>5, <2>1, <2>2, Stutters DEF CancelChild
<1>6. CASE AllStopped
  <2>1. AllFree /\ UNCHANGED <<Incarnations, ctxDone>>
    <3>1. \A c \in Child : EntryDone(c)
      BY <1>6 DEF AllStopped, KnownInv, SupervisionInv, StillToStop
    <3>2. pc \notin Starting
      BY <1>6 DEF AllStopped, Starting, Stopping
    <3> QED
      BY <1>0, <1>6, <1>same, <3>1, <3>2, AllDone DEF AllStopped
  <2>2. CASE pc = "bootRollback"
    <3>1. Stage = "starting" /\ Stage' = "over" /\ outcome' = "startFailed"
      BY <1>6, <2>2 DEF AllStopped, Stage, Ended
    <3> QED
      BY <2>1, <3>1, NobodyLeft DEF Contract!Next, Contract!ReportStartFailed
  <2>3. CASE pc # "bootRollback"
    <3>1. Stage' = Stage /\ UNCHANGED outcome
      BY <1>6, <2>3 DEF AllStopped, Stage, Ended
    <3> QED
      BY <2>1, <3>1, Stutters
  <2> QED
    BY <2>2, <2>3
<1>7. CASE Cleanup
  <2>1. Incarnations = Contract!Nobody /\ UNCHANGED Incarnations
    BY <1>0, <1>7, <1>same, NobodyLeft DEF Cleanup, Quiet, childVars
  <2>2. Stage = "stopping" /\ Stage' = "over"
    BY <1>7 DEF Cleanup, Stage, Ended
  <2> QED
    BY <1>7, <2>1, <2>2 DEF Cleanup, Contract!Next, Contract!Finish
<1>8. CASE CheckTolerance
  <2>1. UNCHANGED <<Incarnations, ctxDone>> /\ pc = "tolerance"
    BY <1>8, <1>same DEF CheckTolerance
  <2>2. CASE GiveUp
    <3>1. Stage = "up" /\ Stage' = "stopping" /\ outcome' = "crashed"
      BY <2>1, <2>2 DEF GiveUp, Stage, Ended
    <3> QED
      BY <2>1, <3>1 DEF Contract!Next, Contract!Stop
  <2>3. CASE WaitThenRestart(restartCount') /\ UNCHANGED outcome
    <3>1. Stage' = Stage
      BY <2>1, <2>3 DEF WaitThenRestart, BeginRestart, Stage, Ended
    <3> QED
      BY <2>1, <2>3, <3>1, Stutters
  <2> QED
    BY <1>8, <2>2, <2>3 DEF CheckTolerance
<1>9. CASE RestartUncounted \/ BackoffElapses \/ BackoffCancelled
  <2>1. UNCHANGED <<Incarnations, ctxDone, outcome>>
    BY <1>9, <1>same DEF RestartUncounted, BackoffElapses, BackoffCancelled, childVars
  <2>2. Stage' = Stage
    BY <1>9
    DEF RestartUncounted, BackoffElapses, BackoffCancelled, WaitThenRestart, BeginRestart,
        Stage, Ended
  <2> QED
    BY <2>1, <2>2, Stutters
<1>10. CASE Shutdown
  <2>1. UNCHANGED <<Incarnations, ctxDone, outcome>>
    BY <1>10, <1>same DEF Shutdown, childVars
  <2>2. Stage = "up" /\ Stage' = "stopping"
    BY <1>10 DEF Shutdown, Stage, Ended
  <2> QED
    BY <1>10, <2>1, <2>2 DEF Shutdown, Contract!Next, Contract!Stop
<1>11. ASSUME NEW g \in Goroutine,
              \/ StartSucceeds(g) \/ ReturnsWithoutNotify(g)
              \/ Ends(g) \/ HonorsCancel(g) \/ ChildAlreadyGone(g)
       PROVE  UNCHANGED Contract!vars
  <2>1. UNCHANGED Incarnations
    <3>1. \A h \in Goroutine : phase'[h] = "free" <=> phase[h] = "free"
      BY <1>0, <1>11
      DEF StartSucceeds, ReturnsWithoutNotify, Ends, HonorsCancel, ReturnsFrom, ChildAlreadyGone
    <3>2. UNCHANGED owner
      BY <1>11
      DEF StartSucceeds, ReturnsWithoutNotify, Ends, HonorsCancel, ReturnsFrom, ChildAlreadyGone
    <3> QED
      BY <3>1, <3>2, IncarnationsKept
  <2>2. UNCHANGED <<pc, ctxDone, outcome>>
    BY <1>11
    DEF StartSucceeds, ReturnsWithoutNotify, Ends, HonorsCancel, ReturnsFrom, ChildAlreadyGone,
        supVars
  <2> QED
    BY <2>1, <2>2, Stutters DEF Stage
<1>12. ASSUME NEW g \in Goroutine, ChildStopped(g)
       PROVE  Contract!Next
  <2>1. /\ pc \notin Starting /\ phase[g] # "free" /\ Exit(g)
        /\ UNCHANGED <<pc, ctxDone>>
    BY <1>12 DEF ChildStopped, Pending, Starting, Stopping
  <2>2. UNCHANGED outcome \/ (pc = "shutdown" /\ outcome' = "crashed")
    BY <1>12 DEF ChildStopped, StopFails, TerminationFailed
  <2> QED
    BY <1>0, <2>1, <2>2, ExitEndsOne DEF Stage
<1>13. ASSUME NEW g \in Goroutine, Receive(g)
       PROVE  Contract!Next
  <2>1. /\ pc \notin Starting /\ phase[g] # "free" /\ Exit(g)
        /\ UNCHANGED <<ctxDone, outcome>>
    BY <1>13 DEF Receive, Pending, Starting
  <2>2. Stage' = Stage
    BY <1>13 DEF Receive, EnterRestartLoop, Stage, Ended
  <2> QED
    BY <1>0, <2>1, <2>2, ExitEndsOne
<1>14. ASSUME NEW g \in Goroutine,
              StartFails(g) \/ ShutdownTimesOut(g) \/ PanicUnknownChild(g)
       PROVE  FALSE
  <2>1. ~StartFails(g) /\ ~ShutdownTimesOut(g)
    BY DEF StartFails, ShutdownTimesOut, HasShutdownTimeout, ReliableChildren
  <2>2. ~PanicUnknownChild(g)
    BY <1>0, NoneIsFresh DEF PanicUnknownChild, Pending, NoOrphan, Starting
  <2> QED
    BY <1>14, <2>1, <2>2
<1>15. CASE UNCHANGED vars
  BY <1>15, <1>same, Stutters DEF vars, supVars, childVars, Stage
<1> QED
  BY <1>1, <1>2, <1>3, <1>4, <1>5, <1>6, <1>7, <1>8, <1>9, <1>10, <1>11, <1>12,
     <1>13, <1>14, <1>15
  DEF Next, Local, Over

\* With reliable children, whatever their number, kinds, orders and strategy,
\* a supervisor does what SupervisorContract allows: children run one at a time
\* under their name, a reported start is complete, nothing is started in or
\* after a stop, nothing is left behind, and a clean end was asked for.
THEOREM ContractImplemented ==
    ReliableChildren /\ StaticChildren => (Spec => ImplementsContract)
<1> SUFFICES ASSUME ReliableChildren, StaticChildren
             PROVE  Spec => ImplementsContract
  OBVIOUS
<1>1. Init => Contract!Init
  BY ContractInit
<1>2. KnownInv /\ [Next]_vars => [Contract!Next]_(Contract!vars)
  BY ContractStep
<1>3. Spec => []KnownInv
  BY KnownInvHolds
<1> QED
  BY <1>1, <1>2, <1>3, PTL DEF Spec, ImplementsContract, Contract!Spec
=============================================================================
