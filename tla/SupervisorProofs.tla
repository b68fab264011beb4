-------------------------- MODULE SupervisorProofs --------------------------
(***************************************************************************)
(* Proofs about Supervisor, for every value of its constants.              *)
(*                                                                         *)
(*   TypeCorrect       Spec => []TypeOK                                    *)
(*                                                                         *)
(* and, for children that start and stop reliably,                         *)
(*                                                                         *)
(*   Supervision       Spec => []SupervisionInv                            *)
(*   NothingOrphaned   Spec => []NoOrphan                                  *)
(*   PanicUnreachable  Spec => []NeverPanics                               *)
(*   ResourcesLast     Spec => []CleanupLast                               *)
(*                                                                         *)
(* and about what a supervisor leaves running when it ends, where children *)
(* may outlast their Timeout: only what is listed is in the map, every     *)
(* termination order covers the list, and so                               *)
(*                                                                         *)
(*   EveryChildStopped   Spec => []StopsEveryChild, if no start fails      *)
(*   BootIsAllOrNothing  Spec => []BootAllOrNothing                        *)
(*                                                                         *)
(* Nothing is assumed of Specs there: the lemmas serve DynProofs as well.  *)
(***************************************************************************)
EXTENDS Supervisor, WellFoundedInduction, TLAPS

-----------------------------------------------------------------------------
(* Induction.                                                              *)

\* A set of numbers that holds 0, and with every number the next, holds them
\* all.
LEMMA SetInduction ==
    ASSUME NEW S, 0 \in S, \A n \in Nat : n \in S => n + 1 \in S
    PROVE  \A n \in Nat : n \in S
<1> DEFINE Less == {ss \in Nat \X Nat : ss[1] < ss[2]}
<1> SUFFICES ASSUME Nat \ S # {}
             PROVE  FALSE
  OBVIOUS
<1>1. IsWellFoundedOn(Less, Nat)
  BY NatLessThanWellFounded DEF OpToRel
<1>2. PICK x \in Nat \ S : \A y \in Nat \ S : <<y, x>> \notin Less
  <2> HIDE DEF Less
  <2>1. Nat \ S \subseteq Nat
    OBVIOUS
  <2> QED
    BY <1>1, <2>1, WFMin
<1>3. \A y \in Nat \ S : ~(y < x)
  BY <1>2
<1>4. x - 1 \in Nat /\ x - 1 < x /\ x - 1 + 1 = x
  OBVIOUS
<1>5. x - 1 \in S
  BY <1>3, <1>4
<1> QED
  BY <1>4, <1>5

-----------------------------------------------------------------------------
(* The two orders list every child once.                                   *)

\* Reversing a list of children yields a list of the same children.
LEMMA ReverseFacts ==
    ASSUME NEW s \in Seq(Child)
    PROVE  /\ Reverse(s) \in Seq(Child)
           /\ Len(Reverse(s)) = Len(s)
           /\ \A i \in 1 .. Len(s) : Reverse(s)[i] = s[Len(s) - i + 1]
  BY DEF Reverse

\* A list that names every child, each once, whatever their number.
ListsAll(s) ==
    /\ s \in Seq(Child)
    /\ \A c \in Child : \E i \in 1 .. Len(s) : s[i] = c
    /\ \A i, j \in 1 .. Len(s) : s[i] = s[j] => i = j

\* Reversing a list that names every child yields another.
LEMMA ReverseListsAll ==
    ASSUME NEW s, ListsAll(s)
    PROVE  ListsAll(Reverse(s))
<1>1. s \in Seq(Child)
  BY DEF ListsAll
<1>2. Reverse(s) \in Seq(Child)
  BY <1>1, ReverseFacts
<1>3. \A c \in Child : \E i \in 1 .. Len(Reverse(s)) : Reverse(s)[i] = c
  <2> SUFFICES ASSUME NEW c \in Child
               PROVE  \E i \in 1 .. Len(Reverse(s)) : Reverse(s)[i] = c
    OBVIOUS
  <2>1. PICK i \in 1 .. Len(s) : s[i] = c
    BY DEF ListsAll
  <2>2. Len(s) - i + 1 \in 1 .. Len(s) /\ Len(s) - (Len(s) - i + 1) + 1 = i
    BY <1>1
  <2> QED
    BY <1>1, <2>1, <2>2, ReverseFacts
<1>4. \A i, j \in 1 .. Len(Reverse(s)) : Reverse(s)[i] = Reverse(s)[j] => i = j
  <2> SUFFICES ASSUME NEW i \in 1 .. Len(s), NEW j \in 1 .. Len(s),
                      s[Len(s) - i + 1] = s[Len(s) - j + 1]
               PROVE  i = j
    BY <1>1, ReverseFacts
  <2>1. Len(s) - i + 1 \in 1 .. Len(s) /\ Len(s) - j + 1 \in 1 .. Len(s)
    BY <1>1
  <2>2. Len(s) - i + 1 = Len(s) - j + 1
    BY <2>1 DEF ListsAll
  <2> QED
    BY <1>1, <2>2
<1> QED
  BY <1>2, <1>3, <1>4 DEF ListsAll

\* Both orders name every child once.
LEMMA OrdersListAll ==
    ASSUME ListsAll(specs)
    PROVE  ListsAll(StartOrder) /\ ListsAll(TerminationOrder)
<1>1. ListsAll(Reverse(specs))
  BY ReverseListsAll
<1> QED
  BY <1>1 DEF StartOrder, TerminationOrder

\* None is neither a child nor a goroutine.
LEMMA NoneIsFresh == None \notin Child /\ None \notin Goroutine
  BY SupervisorAssumption

\* Both orders are lists of children.
LEMMA OrdersTyped ==
    ASSUME specs \in Seq(Child)
    PROVE  StartOrder \in Seq(Child) /\ TerminationOrder \in Seq(Child)
  BY ReverseFacts DEF StartOrder, TerminationOrder

-----------------------------------------------------------------------------
(* Type correctness.  A restart puts its source into todo, and a received  *)
(* end makes the owner of its goroutine the source: both must be children. *)

OwnerKnown == \A g \in Goroutine : phase[g] # "free" => owner[g] \in Child

Restarting == {"tolerance", "backoff", "siblings", "restart", "restartRollback"}
SourceKnown == pc \in Restarting => source \in Child

\* The supervisor waits only inside one of its loops over todo.
WaitingKnown == waiting # None => pc \in Starting \cup Stopping /\ todo # << >>

Typed == TypeOK /\ OwnerKnown /\ SourceKnown /\ WaitingKnown

\* No action of a supervisor that is not dynamic changes its specification.
SpecsKept == specs = Specs

TypeInv == Typed /\ SpecsKept

\* A number below the modulus is its own remainder.
LEMMA SmallModulo == ASSUME NEW m \in Nat, NEW n \in Nat, n < m PROVE n % m = n
  OBVIOUS

\* The counter stays below its maximum whenever the supervisor goes on.
LEMMA CountBounded ==
    ASSUME NEW within \in WithinWindow, restartCount \in 0 .. MaxRestartCount
    PROVE  CountAfter(restartCount, Check(restartCount, within)) \in 0 .. MaxRestartCount
<1>1. NextCount(restartCount) = restartCount + 1
  <2>1. restartCount + 1 \in Nat /\ CountLimit \in Nat /\ restartCount + 1 < CountLimit
    BY ToleranceAssumption, SupervisorAssumption
  <2> QED
    BY <2>1, SmallModulo DEF NextCount
<1>2. CASE ~within
  <2>1. restartCount # 0
    BY <1>2, Zenon DEF WithinWindow
  <2> QED
    BY <1>2, <2>1, ToleranceAssumption DEF Check, CountAfter
<1>3. CASE within
  BY <1>1, <1>3, ToleranceAssumption DEF Check, CountAfter
<1> QED
  BY <1>2, <1>3

\* The initial state is well typed.
LEMMA TypeInvInit == Init => TypeInv
<1> SUFFICES ASSUME Init
             PROVE  TypeInv
  OBVIOUS
<1>1. TypeOK /\ SpecsKept
  <2>0. specs \in Seq(Child)
    BY SupervisorAssumption DEF Init
  <2>1. restartCount \in 0 .. MaxRestartCount
    BY ToleranceAssumption DEF Init
  <2>2. todo \in Seq(Child)
    BY DEF Init
  <2> QED
    BY <2>0, <2>1, <2>2 DEF SpecsKept, Init, TypeOK, Location, Phase, Event, NoChildren
<1>2. OwnerKnown /\ SourceKnown /\ WaitingKnown
  BY DEF Init, OwnerKnown, SourceKnown, WaitingKnown, Restarting
<1> QED
  BY <1>1, <1>2 DEF TypeInv, Typed

\* The parts of a step that several actions share.
LEMMA ExitTyped ==
    ASSUME Typed, NEW g \in Goroutine, Exit(g)
    PROVE  /\ phase' \in [Goroutine -> Phase]
           /\ owner' \in [Goroutine -> Child \cup {None}]
           /\ OwnerKnown'
  BY DEF Typed, TypeOK, OwnerKnown, Exit, Phase

\* Leaving a goroutine behind keeps its phase and owner in range.
LEMMA LeaveBehindTyped ==
    ASSUME Typed, NEW g \in Goroutine, NEW p \in Phase, LeaveBehind(g, p),
           phase[g] # "free" \/ p = "free"
    PROVE  /\ phase' \in [Goroutine -> Phase]
           /\ owner' \in [Goroutine -> Child \cup {None}]
           /\ OwnerKnown'
<1>1. CASE /\ phase' = [phase EXCEPT ![g] = p]
           /\ UNCHANGED owner
  BY <1>1 DEF Typed, TypeOK, OwnerKnown, Phase
<1>2. CASE /\ phase' = [phase EXCEPT ![g] = "free"]
           /\ owner' = [owner EXCEPT ![g] = None]
  BY <1>2 DEF Typed, TypeOK, OwnerKnown, Phase
<1> QED
  BY <1>1, <1>2 DEF LeaveBehind

\* The call of the strategy function keeps the loop variables in range.
LEMMA BeginRestartTyped ==
    ASSUME Typed, BeginRestart, pc \in Restarting, UNCHANGED source
    PROVE  pc' \in {"restart", "siblings"} /\ todo' \in Seq(Child) /\ SourceKnown'
<1>1. source \in Child
  BY DEF Typed, SourceKnown
<1>2. <<source>> \in Seq(Child)
  BY <1>1
<1> QED
  BY <1>1, <1>2, OrdersTyped DEF BeginRestart, SourceKnown, Typed, TypeOK

\* So does the backoff before it.
LEMMA WaitThenRestartTyped ==
    ASSUME Typed, NEW n, WaitThenRestart(n), pc \in Restarting, UNCHANGED source
    PROVE  pc' \in {"restart", "siblings", "backoff"} /\ todo' \in Seq(Child) /\ SourceKnown'
<1>1. CASE BeginRestart
  BY <1>1, BeginRestartTyped
<1>2. CASE pc' = "backoff" /\ UNCHANGED todo
  BY <1>2 DEF Typed, TypeOK, SourceKnown, Restarting
<1> QED
  BY <1>1, <1>2 DEF WaitThenRestart

\* Every step keeps the types: one case per action of Next.
LEMMA TypedStep ==
    ASSUME Typed, [Next]_vars
    PROVE  Typed'
<1> USE DEF Typed, specVars
<1>1. CASE BuildNodes
  BY <1>1, OrdersTyped
  DEF BuildNodes, TypeOK, WaitingKnown, OwnerKnown, SourceKnown, Restarting, Location, Starting,
      childVars, Stopping
<1>2. CASE BuildNodesFails
  BY <1>2
  DEF BuildNodesFails, TypeOK, WaitingKnown, OwnerKnown, SourceKnown, Restarting, Location, Ended,
      childVars, Starting, Stopping
<1>3. CASE SpawnChild
  <2>1. Head(todo) \in Child
    BY <1>3 DEF SpawnChild, TypeOK, WaitingKnown
  <2> QED
    BY <1>3, <2>1
    DEF SpawnChild, FreeGoroutines, TypeOK, WaitingKnown, OwnerKnown, SourceKnown, Phase
<1>4. CASE AllStarted
  BY <1>4
  DEF AllStarted, TypeOK, WaitingKnown, OwnerKnown, SourceKnown, Restarting, Location, childVars,
      Starting, Stopping
<1>5. CASE SkipChild
  BY <1>5 DEF SkipChild, TypeOK, WaitingKnown, OwnerKnown, SourceKnown, childVars
<1>6. CASE CancelChild
  <2>1. children[Head(todo)] \in Goroutine
    BY <1>6 DEF CancelChild, TypeOK, WaitingKnown
  <2> QED
    BY <1>6, <2>1 DEF CancelChild, TypeOK, WaitingKnown, OwnerKnown, SourceKnown, Phase
<1>7. CASE AllStopped
  BY <1>7, OrdersTyped
  DEF AllStopped, RestartFromScratch, NoChildren, TypeOK, WaitingKnown, OwnerKnown, SourceKnown,
      Restarting, Location, Starting, Stopping, Ended
<1>8. CASE Cleanup
  BY <1>8
  DEF Cleanup, TypeOK, WaitingKnown, OwnerKnown, SourceKnown, Restarting, Location, Ended,
      childVars, Starting, Stopping
<1>9. CASE CheckTolerance
  <2>1. PICK within \in WithinWindow :
           LET verdict == Check(restartCount, within) IN
           /\ restartCount' = CountAfter(restartCount, verdict)
           /\ IF verdict = "surpassed"
              THEN GiveUp
              ELSE /\ WaitThenRestart(restartCount')
                   /\ UNCHANGED <<outcome, children>>
    BY <1>9 DEF CheckTolerance
  <2>2. restartCount' \in 0 .. MaxRestartCount
    BY <2>1, CountBounded DEF TypeOK, WaitingKnown
  <2>3. pc = "tolerance" /\ UNCHANGED <<specVars, waiting, source, erred, phase, owner, ctxDone,
                                        resources, reported>>
    BY <1>9 DEF CheckTolerance
  <2>4. CASE GiveUp
    BY <2>2, <2>3, <2>4, OrdersTyped
    DEF GiveUp, TypeOK, WaitingKnown, OwnerKnown, SourceKnown, Restarting, Location, Stopping,
        Starting
  <2>5. CASE WaitThenRestart(restartCount') /\ UNCHANGED <<outcome, children>>
    <3>1. pc' \in {"restart", "siblings", "backoff"} /\ todo' \in Seq(Child) /\ SourceKnown'
      BY <2>3, <2>5, WaitThenRestartTyped DEF Restarting
    <3> QED
      BY <2>2, <2>3, <2>5, <3>1 DEF TypeOK, WaitingKnown, OwnerKnown, Location, Starting, Stopping
  <2> QED
    BY <2>1, <2>4, <2>5
<1>10. CASE RestartUncounted
  <2>1. pc' \in {"restart", "siblings", "backoff"} /\ todo' \in Seq(Child) /\ SourceKnown'
    BY <1>10, WaitThenRestartTyped DEF RestartUncounted, Restarting
  <2> QED
    BY <1>10, <2>1
    DEF RestartUncounted, TypeOK, WaitingKnown, OwnerKnown, Location, Starting, Stopping, childVars
<1>11. CASE BackoffElapses
  <2>1. pc' \in {"restart", "siblings"} /\ todo' \in Seq(Child) /\ SourceKnown'
    BY <1>11, BeginRestartTyped DEF BackoffElapses, Restarting
  <2> QED
    BY <1>11, <2>1
    DEF BackoffElapses, TypeOK, WaitingKnown, OwnerKnown, Location, Starting, Stopping, childVars
<1>12. CASE Shutdown
  BY <1>12, OrdersTyped
  DEF Shutdown, TypeOK, WaitingKnown, OwnerKnown, SourceKnown, Restarting, Location, Stopping,
      childVars, Starting
<1>13. CASE BackoffCancelled
  BY <1>13
  DEF BackoffCancelled, TypeOK, WaitingKnown, OwnerKnown, SourceKnown, Restarting, Location,
      childVars, Starting, Stopping
<1>14. CASE Terminate
  BY <1>14 DEF Terminate, TypeOK, WaitingKnown, OwnerKnown, SourceKnown, supVars, childVars
<1>15. ASSUME NEW g \in Goroutine, StartSucceeds(g)
       PROVE  Typed'
  <2>1. owner[g] \in Child
    BY <1>15 DEF StartSucceeds, OwnerKnown
  <2> QED
    BY NoneIsFresh, <1>15, <2>1
    DEF StartSucceeds, RecordStart, Report, Event, TypeOK, WaitingKnown, OwnerKnown, SourceKnown,
        Phase
<1>16. ASSUME NEW g \in Goroutine, StartFails(g)
       PROVE  Typed'
  <2>1. /\ phase' \in [Goroutine -> Phase]
        /\ owner' \in [Goroutine -> Child \cup {None}]
        /\ OwnerKnown'
    BY <1>16, LeaveBehindTyped DEF StartFails, Phase
  <2>2. owner[g] \in Child /\ waiting' = None
        /\ UNCHANGED <<specVars, source, children, restartCount, ctxDone, resources, outcome>>
    BY <1>16 DEF StartFails, OwnerKnown
  <2>3. CASE pc = "boot" /\ AbortStart(g, "bootRollback")
    BY <2>1, <2>2, <2>3, OrdersTyped
    DEF AbortStart, Report, Event, TypeOK, WaitingKnown, SourceKnown, Restarting, Location,
        Stopping, Starting
  <2>4. CASE pc = "restart" /\ AbortStart(g, "restartRollback")
    BY <2>1, <2>2, <2>4, OrdersTyped
    DEF AbortStart, Report, Event, TypeOK, WaitingKnown, SourceKnown, Restarting, Location,
        Stopping, Starting
  <2>5. CASE pc = "restart" /\ pc' = "tolerance" /\ todo' = << >> /\ erred' = TRUE
             /\ UNCHANGED reported
    BY <2>1, <2>2, <2>5 DEF TypeOK, WaitingKnown, SourceKnown, Restarting, Location, Starting,
                            Stopping
  <2> QED
    BY <1>16, <2>3, <2>4, <2>5 DEF StartFails
<1>17. ASSUME NEW g \in Goroutine, ReturnsWithoutNotify(g)
       PROVE  Typed'
  BY <1>17
  DEF ReturnsWithoutNotify, supVars, TypeOK, WaitingKnown, OwnerKnown, SourceKnown, Phase
<1>18. ASSUME NEW g \in Goroutine, Ends(g) \/ HonorsCancel(g)
       PROVE  Typed'
  BY <1>18
  DEF Ends, HonorsCancel, ReturnsFrom, supVars, TypeOK, WaitingKnown, OwnerKnown, SourceKnown, Phase
<1>19. ASSUME NEW g \in Goroutine, ChildStopped(g)
       PROVE  Typed'
  <2>1. /\ phase' \in [Goroutine -> Phase]
        /\ owner' \in [Goroutine -> Child \cup {None}]
        /\ OwnerKnown'
    BY <1>19, ExitTyped DEF ChildStopped
  <2>2. todo # << >> /\ Head(todo) \in Child
    BY <1>19, NoneIsFresh DEF ChildStopped, TypeOK, WaitingKnown
  <2>3. /\ waiting' = None
        /\ todo' \in Seq(Child)
        /\ children' \in [Child -> Goroutine \cup {None}]
    BY <1>19, <2>2 DEF ChildStopped, WaitIsOver, TypeOK
  <2>4. reported' \in [Child -> Event] /\ outcome' \in {"ok", "crashed", "startFailed"}
    BY <1>19, <2>2 DEF ChildStopped, StopFails, TerminationFailed, Report, Event, TypeOK
  <2>5. UNCHANGED <<specVars, pc, source, erred, restartCount, ctxDone, resources>>
    BY <1>19 DEF ChildStopped
  <2> QED
    BY NoneIsFresh, <2>1, <2>3, <2>4, <2>5 DEF TypeOK, WaitingKnown, SourceKnown
<1>20. ASSUME NEW g \in Goroutine, ChildAlreadyGone(g)
       PROVE  Typed'
  BY NoneIsFresh, <1>20 DEF ChildAlreadyGone, WaitIsOver, TypeOK, WaitingKnown, OwnerKnown,
                            SourceKnown
<1>21. ASSUME NEW g \in Goroutine, ShutdownTimesOut(g)
       PROVE  Typed'
  <2>1. /\ phase' \in [Goroutine -> Phase]
        /\ owner' \in [Goroutine -> Child \cup {None}]
        /\ OwnerKnown'
    <3>1. LeaveBehind(g, phase[g]) /\ phase[g] \in Phase
      BY <1>21 DEF ShutdownTimesOut, TypeOK
    <3>2. CASE phase[g] = "free"
      BY <3>1, <3>2, LeaveBehindTyped DEF Phase
    <3>3. CASE phase[g] # "free"
      BY <3>1, <3>3, LeaveBehindTyped
    <3> QED
      BY <3>2, <3>3
  <2> QED
    BY NoneIsFresh, <1>21, <2>1
    DEF ShutdownTimesOut, WaitIsOver, StopFails, TerminationFailed, Report, Event,
        TypeOK, WaitingKnown, SourceKnown
<1>22. ASSUME NEW g \in Goroutine, Receive(g)
       PROVE  Typed'
  <2>1. /\ phase' \in [Goroutine -> Phase]
        /\ owner' \in [Goroutine -> Child \cup {None}]
        /\ OwnerKnown'
    BY <1>22, ExitTyped DEF Receive
  <2>2. owner[g] \in Child
    BY <1>22 DEF Receive, Pending, OwnerKnown
  <2> QED
    BY <1>22, <2>1, <2>2
    DEF Receive, EnterRestartLoop, Report, Event, TypeOK, WaitingKnown, SourceKnown, Restarting,
        Location, Starting, Stopping
<1>23. ASSUME NEW g \in Goroutine, PanicUnknownChild(g)
       PROVE  Typed'
  <2>1. /\ phase' \in [Goroutine -> Phase]
        /\ owner' \in [Goroutine -> Child \cup {None}]
        /\ OwnerKnown'
    BY <1>23, ExitTyped DEF PanicUnknownChild
  <2> QED
    BY <1>23, <2>1 DEF PanicUnknownChild, TypeOK, WaitingKnown, SourceKnown, Restarting,
                       Location, Ended, Starting, Stopping
<1>24. CASE UNCHANGED vars
  BY <1>24 DEF vars, supVars, childVars, TypeOK, WaitingKnown, OwnerKnown, SourceKnown
<1> QED
  BY <1>1, <1>2, <1>3, <1>4, <1>5, <1>6, <1>7, <1>8, <1>9, <1>10, <1>11, <1>12,
     <1>13, <1>14, <1>15, <1>16, <1>17, <1>18, <1>19, <1>20, <1>21, <1>22, <1>23,
     <1>24
  DEF Next, Local, Over

\* No step changes the specification.
LEMMA SpecsUnchanged ==
    ASSUME [Next]_vars
    PROVE  UNCHANGED <<specs, strategy>>
  BY DEF Next, Local, Over, vars, specVars, BuildNodes, BuildNodesFails, SpawnChild, AllStarted,
     SkipChild, CancelChild, AllStopped, Cleanup, CheckTolerance, RestartUncounted, BackoffElapses,
     Shutdown, BackoffCancelled, Terminate, StartSucceeds, StartFails, ReturnsWithoutNotify,
     Ends, HonorsCancel, ReturnsFrom, ChildStopped, ChildAlreadyGone, ShutdownTimesOut, Receive,
     PanicUnknownChild

\* Every step keeps the types and the list.
LEMMA TypeInvStep ==
    ASSUME TypeInv, [Next]_vars
    PROVE  TypeInv'
  BY TypedStep, SpecsUnchanged DEF TypeInv, SpecsKept

\* Every variable keeps its type, whatever the children do: the source of a
\* restart is always a child, and the error counter never exceeds
\* MaxRestartCount.
THEOREM TypeCorrect == Spec => []TypeOK
<1>1. Spec => []TypeInv
  BY TypeInvInit, TypeInvStep, PTL DEF Spec
<1>2. TypeInv => TypeOK
  BY DEF TypeInv, Typed
<1> QED
  BY <1>1, <1>2, PTL

-----------------------------------------------------------------------------
(* Supervision of reliable children.                                       *)

\* The tail of a list drops its first element only.
LEMMA TailFacts ==
    ASSUME NEW s \in Seq(Child), s # << >>
    PROVE  /\ Head(s) \in Child
           /\ Head(s) = s[1]
           /\ Len(s) \in Nat /\ Len(s) >= 1
           /\ Tail(s) \in Seq(Child)
           /\ Len(Tail(s)) = Len(s) - 1
           /\ \A i \in 1 .. Len(Tail(s)) : Tail(s)[i] = s[i + 1] /\ i + 1 \in 1 .. Len(s)
  OBVIOUS

\* If no entry of the map is alive, nothing is.
LEMMA AllDone ==
    ASSUME TypeInv, NoOrphan, pc \notin Starting, \A c \in Child : EntryDone(c)
    PROVE  AllFree
<1> SUFFICES ASSUME NEW g \in Goroutine, phase[g] # "free"
             PROVE  FALSE
  BY DEF AllFree
<1>1. owner[g] \in Child /\ children[owner[g]] = g
  BY DEF NoOrphan
<1> QED
  BY <1>1, NoneIsFresh DEF EntryDone

\* The supervision invariant holds at first: there is no goroutine.
LEMMA SupervisionInit == Init => SupervisionInv
<1> SUFFICES ASSUME Init
             PROVE  SupervisionInv
  OBVIOUS
<1> QED
  BY DEF Init, SupervisionInv, NoOrphan, NeverPanics, WaitingFor, OnlyWaitedStart,
     StillToStart, StillToStop, SourceDone, Quiet, AllFree, EntryDone, Starting, Stopping

\* Every step keeps the supervision invariant: one case per action of Next.
LEMMA SupervisionStep ==
    ASSUME ReliableChildren, StaticChildren, TypeInv, SupervisionInv, [Next]_vars
    PROVE  SupervisionInv'
<1> USE DEF SupervisionInv, NoOrphan, NeverPanics, WaitingFor, OnlyWaitedStart,
            StillToStart, StillToStop, SourceDone, Quiet, AllFree, EntryDone,
            Starting, Stopping, specVars
<1>0. /\ pc \in Location
      /\ specs \in Seq(Child)
      /\ todo \in Seq(Child)
      /\ waiting \in Goroutine \cup {None}
      /\ source \in Child \cup {None}
      /\ children \in [Child -> Goroutine \cup {None}]
      /\ phase \in [Goroutine -> Phase]
      /\ owner \in [Goroutine -> Child \cup {None}]
      /\ OwnerKnown /\ SourceKnown /\ WaitingKnown
  BY DEF TypeInv, Typed, TypeOK
<1>orders. ListsAll(StartOrder) /\ ListsAll(TerminationOrder)
  <2>1. ListsAll(Specs)
    BY SupervisorAssumption DEF StaticChildren, ListsAll
  <2>2. specs = Specs
    BY DEF TypeInv, SpecsKept
  <2> QED
    BY <2>1, <2>2, OrdersListAll
<1>1. CASE BuildNodes
  <2>1. \A c \in Child : EntryDone(c)'
    BY <1>0, <1>1 DEF BuildNodes, childVars
  <2>2. StillToStart'
    <3>1. todo' = StartOrder /\ StartOrder \in Seq(Child)
      BY <1>0, <1>1, OrdersTyped DEF BuildNodes
    <3>2. \A i \in 1 .. Len(StartOrder) : StartOrder[i] \in Child
      BY <3>1
    <3>3. \A i, j \in 1 .. Len(StartOrder) : StartOrder[i] = StartOrder[j] => i = j
      BY <1>orders DEF ListsAll
    <3> QED
      BY <2>1, <3>1, <3>2, <3>3
  <2> QED
    BY <1>0, <1>1, <2>2 DEF BuildNodes, childVars, WaitingKnown
<1>2. CASE BuildNodesFails
  BY <1>0, <1>2 DEF BuildNodesFails, childVars, WaitingKnown
<1>3. CASE SpawnChild
  BY <1>0, <1>3, NoneIsFresh DEF SpawnChild, FreeGoroutines, Tracked, WaitingKnown
<1>4. CASE AllStarted
  BY <1>0, <1>4, NoneIsFresh DEF AllStarted, childVars
<1>5. CASE SkipChild
  <2>1. EntryDone(Head(todo))
    BY <1>5 DEF SkipChild, Skipped
  <2>2. StillToStop'
    <3> SUFFICES ASSUME NEW c \in Child, ~EntryDone(c)
                 PROVE  \E i \in 1 .. Len(Tail(todo)) : Tail(todo)[i] = c
      BY <1>5 DEF SkipChild, childVars
    <3>1. PICK i \in 1 .. Len(todo) : todo[i] = c
      BY <1>5 DEF SkipChild
    <3>2. i # 1
      BY <1>0, <1>5, <2>1, <3>1, TailFacts DEF SkipChild
    <3>3. i - 1 \in 1 .. Len(Tail(todo)) /\ Tail(todo)[i - 1] = todo[i]
      BY <1>0, <1>5, <3>2, TailFacts DEF SkipChild
    <3> QED
      BY <3>1, <3>3
  <2> QED
    BY <1>0, <1>5, <2>2 DEF SkipChild, childVars
<1>6. CASE CancelChild
  BY <1>0, <1>6, TailFacts, NoneIsFresh DEF CancelChild
<1>7. CASE AllStopped
  <2>1. AllFree
    BY <1>0, <1>7, AllDone DEF AllStopped
  <2>2. CASE pc = "siblings" /\ pc' = "restart" /\ RestartFromScratch
    <3>1. \A c \in Child : EntryDone(c)'
      BY <2>2 DEF RestartFromScratch, NoChildren
    <3>2. StillToStart'
      <4>1. todo' = StartOrder /\ StartOrder \in Seq(Child)
        BY <1>0, <2>2, OrdersTyped DEF RestartFromScratch
      <4>2. \A i \in 1 .. Len(StartOrder) : StartOrder[i] \in Child
        BY <4>1
      <4>3. \A i, j \in 1 .. Len(StartOrder) : StartOrder[i] = StartOrder[j] => i = j
        BY <1>orders DEF ListsAll
      <4> QED
        BY <3>1, <4>1, <4>2, <4>3
    <3>3. strategy # "OneForOne"
      BY <2>2
    <3> QED
      BY <1>0, <1>7, <2>1, <2>2, <3>2, <3>3 DEF AllStopped
  <2>3. CASE pc # "siblings"
    <3>1. pc' \in {"dead", "tolerance", "cleanup"}
          /\ UNCHANGED <<children, waiting, source, phase, owner, resources>>
      BY <1>7, <2>3 DEF AllStopped
    <3>2. waiting = None /\ resources # "released"
      BY <1>7 DEF AllStopped
    <3>3. pc' = "tolerance" => source \in Child
      BY <1>0, <1>7, <2>3 DEF AllStopped, SourceKnown, Restarting
    <3>4. \A c \in Child : EntryDone(c)'
      BY <1>0, <2>1, <3>1
    <3> QED
      BY <2>1, <3>1, <3>2, <3>3, <3>4
  <2> QED
    BY <1>7, <2>2, <2>3 DEF AllStopped
<1>8. CASE Cleanup
  BY <1>0, <1>8 DEF Cleanup, childVars, WaitingKnown
<1>9. ASSUME BeginRestart, pc \in {"tolerance", "backoff"},
             UNCHANGED <<specVars, waiting, source, childVars, resources>>
      PROVE  SupervisionInv'
  <2>1. waiting = None /\ EntryDone(source)
    BY <1>0, <1>9 DEF WaitingKnown
  <2>2. CASE strategy = "OneForOne" /\ pc' = "restart" /\ todo' = <<source>>
    BY <1>0, <1>9, <2>1, <2>2, NoneIsFresh DEF childVars
  <2>3. CASE strategy = "OneForAll" /\ pc' = "siblings" /\ todo' = TerminationOrder
    BY <1>0, <1>9, <2>1, <2>3, <1>orders, NoneIsFresh DEF childVars, ListsAll
  <2> QED
    BY <1>9, <2>2, <2>3 DEF BeginRestart
<1>10. CASE CheckTolerance
  <2>1. CASE BeginRestart /\ UNCHANGED children
    BY <1>9, <1>10, <2>1 DEF CheckTolerance, childVars
  <2>2. CASE pc' = "backoff" /\ UNCHANGED <<todo, children>>
    BY <1>0, <1>10, <2>2 DEF CheckTolerance, WaitingKnown
  <2>3. CASE GiveUp
    BY <1>0, <1>10, <2>3, <1>orders DEF CheckTolerance, GiveUp, WaitingKnown, ListsAll
  <2> QED
    BY <1>10, <2>1, <2>2, <2>3 DEF CheckTolerance, WaitThenRestart
<1>11. CASE RestartUncounted
  <2>1. CASE BeginRestart
    BY <1>9, <1>11, <2>1 DEF RestartUncounted
  <2>2. CASE pc' = "backoff" /\ UNCHANGED todo
    BY <1>0, <1>11, <2>2 DEF RestartUncounted, childVars, WaitingKnown
  <2> QED
    BY <1>11, <2>1, <2>2 DEF RestartUncounted, WaitThenRestart
<1>12. CASE BackoffElapses
  BY <1>9, <1>12 DEF BackoffElapses
<1>13. CASE Shutdown
  BY <1>0, <1>13, <1>orders DEF Shutdown, childVars, WaitingKnown, ListsAll
<1>14. CASE BackoffCancelled
  BY <1>0, <1>14 DEF BackoffCancelled, childVars, WaitingKnown
<1>15. CASE Terminate
  BY <1>0, <1>15 DEF Terminate, supVars, childVars
<1>16. ASSUME NEW g \in Goroutine, StartSucceeds(g)
       PROVE  SupervisionInv'
  BY <1>0, <1>16, TailFacts, NoneIsFresh
  DEF StartSucceeds, RecordStart, WaitingKnown, OwnerKnown
<1>17. ASSUME NEW g \in Goroutine, StartFails(g)
       PROVE  FALSE
  BY <1>17 DEF StartFails, ReliableChildren
<1>18. ASSUME NEW g \in Goroutine, ReturnsWithoutNotify(g)
       PROVE  SupervisionInv'
  BY <1>0, <1>18 DEF ReturnsWithoutNotify, supVars
<1>19. ASSUME NEW g \in Goroutine, Ends(g) \/ HonorsCancel(g)
       PROVE  SupervisionInv'
  <2>1. PICK p \in {"failing", "completing"} : phase' = [phase EXCEPT ![g] = p]
    BY <1>19 DEF Ends, HonorsCancel, ReturnsFrom
  <2>2. phase[g] \in {"running", "stopping"}
    BY <1>19 DEF Ends, HonorsCancel
  <2>3. UNCHANGED <<specVars, supVars, children, owner, restartCount, ctxDone, resources, outcome,
                    reported>>
    BY <1>19 DEF Ends, HonorsCancel, ReturnsFrom
  <2>4. \A h \in Goroutine : phase'[h] = "free" <=> phase[h] = "free"
    BY <1>0, <2>1, <2>2
  <2>5. \A h \in Goroutine : phase'[h] = "starting" => phase[h] = "starting"
    BY <1>0, <2>1
  <2>6. \A c \in Child : EntryDone(c)' <=> EntryDone(c)
    BY <1>0, <2>3, <2>4
  <2>7. NoOrphan' /\ NeverPanics' /\ WaitingFor' /\ OnlyWaitedStart' /\ Quiet'
    BY <1>0, <2>3, <2>4, <2>5 DEF supVars
  <2>8. StillToStart' /\ StillToStop' /\ SourceDone'
    BY <1>0, <2>3, <2>6 DEF supVars, SourceKnown, Restarting
  <2> QED
    BY <2>7, <2>8
<1>20. ASSUME NEW g \in Goroutine, ChildStopped(g)
       PROVE  SupervisionInv'
  <2>1. /\ pc \in Stopping /\ waiting = g /\ todo # << >>
        /\ children[Head(todo)] = g
        /\ waiting' = None /\ todo' = Tail(todo)
        /\ children' = [children EXCEPT ![Head(todo)] = None]
        /\ UNCHANGED <<specVars, pc, source, resources>>
    BY <1>0, <1>20, NoneIsFresh DEF ChildStopped, WaitIsOver, WaitingKnown
  <2>2. \A h \in Goroutine : h # g => phase'[h] = phase[h] /\ owner'[h] = owner[h]
    BY <1>0, <1>20 DEF ChildStopped, Exit
  <2>3. phase'[g] = "free"
    BY <1>0, <1>20 DEF ChildStopped, Exit
  <2>4. \A c \in Child : c = Head(todo) \/ EntryDone(c) => EntryDone(c)'
    <3>1. ASSUME NEW c \in Child, c = Head(todo)
          PROVE  EntryDone(c)'
      BY <1>0, <2>1, <3>1
    <3>2. ASSUME NEW c \in Child, c # Head(todo), EntryDone(c)
          PROVE  EntryDone(c)'
      <4>1. children'[c] = children[c]
        BY <1>0, <2>1, <3>2
      <4>2. children[c] # None => children[c] \in Goroutine
        BY <1>0
      <4> QED
        BY <2>2, <2>3, <3>2, <4>1, <4>2
    <3> QED
      BY <3>1, <3>2
  <2>5. StillToStop'
    <3> SUFFICES ASSUME NEW c \in Child, ~EntryDone(c)'
                 PROVE  \E i \in 1 .. Len(Tail(todo)) : Tail(todo)[i] = c
      BY <2>1
    <3>1. PICK i \in 1 .. Len(todo) : todo[i] = c
      BY <2>1, <2>4
    <3>2. i # 1
      BY <1>0, <2>1, <2>4, <3>1, TailFacts
    <3>3. i - 1 \in 1 .. Len(Tail(todo)) /\ Tail(todo)[i - 1] = todo[i]
      BY <1>0, <2>1, <3>2, TailFacts
    <3> QED
      BY <3>1, <3>3
  <2>6. NoOrphan'
    <3> SUFFICES ASSUME NEW h \in Goroutine, phase'[h] # "free"
                 PROVE  owner'[h] \in Child /\ children'[owner'[h]] = h
      OBVIOUS
    <3>1. h # g /\ owner[h] \in Child /\ children[owner[h]] = h
      BY <2>1, <2>2, <2>3
    <3>2. owner[h] # Head(todo)
      BY <2>1, <3>1
    <3> QED
      BY <1>0, <2>1, <2>2, <3>1, <3>2
  <2>7. OnlyWaitedStart' /\ Quiet'
    BY <1>0, <2>1, <2>2, <2>3
  <2>8. SourceDone'
    BY <1>0, <2>1, <2>4 DEF SourceKnown, Restarting
  <2> QED
    BY <1>0, <2>1, <2>5, <2>6, <2>7, <2>8
<1>21. ASSUME NEW g \in Goroutine, ChildAlreadyGone(g)
       PROVE  SupervisionInv'
  <2>1. /\ pc \in Stopping /\ waiting = g /\ todo # << >>
        /\ children[Head(todo)] = g
        /\ waiting' = None /\ todo' = Tail(todo)
        /\ children' = [children EXCEPT ![Head(todo)] = None]
        /\ UNCHANGED <<specVars, pc, source, resources>>
    BY <1>0, <1>21, NoneIsFresh DEF ChildAlreadyGone, WaitIsOver, WaitingKnown
  <2>2. \A h \in Goroutine : h # g => phase'[h] = phase[h] /\ owner'[h] = owner[h]
    BY <1>0, <1>21 DEF ChildAlreadyGone
  <2>3. phase'[g] = "free"
    BY <1>0, <1>21 DEF ChildAlreadyGone
  <2>4. \A c \in Child : c = Head(todo) \/ EntryDone(c) => EntryDone(c)'
    <3>1. ASSUME NEW c \in Child, c = Head(todo)
          PROVE  EntryDone(c)'
      BY <1>0, <2>1, <3>1
    <3>2. ASSUME NEW c \in Child, c # Head(todo), EntryDone(c)
          PROVE  EntryDone(c)'
      <4>1. children'[c] = children[c]
        BY <1>0, <2>1, <3>2
      <4>2. children[c] # None => children[c] \in Goroutine
        BY <1>0
      <4> QED
        BY <2>2, <2>3, <3>2, <4>1, <4>2
    <3> QED
      BY <3>1, <3>2
  <2>5. StillToStop'
    <3> SUFFICES ASSUME NEW c \in Child, ~EntryDone(c)'
                 PROVE  \E i \in 1 .. Len(Tail(todo)) : Tail(todo)[i] = c
      BY <2>1
    <3>1. PICK i \in 1 .. Len(todo) : todo[i] = c
      BY <2>1, <2>4
    <3>2. i # 1
      BY <1>0, <2>1, <2>4, <3>1, TailFacts
    <3>3. i - 1 \in 1 .. Len(Tail(todo)) /\ Tail(todo)[i - 1] = todo[i]
      BY <1>0, <2>1, <3>2, TailFacts
    <3> QED
      BY <3>1, <3>3
  <2>6. NoOrphan'
    <3> SUFFICES ASSUME NEW h \in Goroutine, phase'[h] # "free"
                 PROVE  owner'[h] \in Child /\ children'[owner'[h]] = h
      OBVIOUS
    <3>1. h # g /\ owner[h] \in Child /\ children[owner[h]] = h
      BY <2>1, <2>2, <2>3
    <3>2. owner[h] # Head(todo)
      BY <2>1, <3>1
    <3> QED
      BY <1>0, <2>1, <2>2, <3>1, <3>2
  <2>7. OnlyWaitedStart' /\ Quiet'
    BY <1>0, <2>1, <2>2, <2>3
  <2>8. SourceDone'
    BY <1>0, <2>1, <2>4 DEF SourceKnown, Restarting
  <2> QED
    BY <1>0, <2>1, <2>5, <2>6, <2>7, <2>8
<1>22. ASSUME NEW g \in Goroutine, ShutdownTimesOut(g)
       PROVE  FALSE
  BY <1>22 DEF ShutdownTimesOut, HasShutdownTimeout, ReliableChildren
<1>23. ASSUME NEW g \in Goroutine, Receive(g)
       PROVE  SupervisionInv'
  BY <1>0, <1>23, NoneIsFresh
  DEF Receive, Pending, Exit, EnterRestartLoop, WaitingKnown, OwnerKnown
<1>24. ASSUME NEW g \in Goroutine, PanicUnknownChild(g)
       PROVE  FALSE
  BY <1>0, <1>24, NoneIsFresh DEF PanicUnknownChild, Pending
<1>25. CASE UNCHANGED vars
  BY <1>0, <1>25 DEF vars, supVars, childVars
<1> QED
  BY <1>1, <1>2, <1>3, <1>4, <1>5, <1>6, <1>7, <1>8, <1>10, <1>11, <1>12, <1>13,
     <1>14, <1>15, <1>16, <1>17, <1>18, <1>19, <1>20, <1>21, <1>22, <1>23, <1>24,
     <1>25
  DEF Next, Local, Over

\* The supervisor of reliable children knows at every point which goroutines
\* are alive and which are still to be started or stopped.
THEOREM Supervision == ReliableChildren /\ StaticChildren => (Spec => []SupervisionInv)
<1> SUFFICES ASSUME ReliableChildren, StaticChildren
             PROVE  Spec => []SupervisionInv
  OBVIOUS
<1>1. Init => TypeInv /\ SupervisionInv
  BY TypeInvInit, SupervisionInit
<1>2. TypeInv /\ SupervisionInv /\ [Next]_vars => (TypeInv /\ SupervisionInv)'
  BY TypeInvStep, SupervisionStep
<1> QED
  BY <1>1, <1>2, PTL DEF Spec

\* No goroutine of a reliable child ever runs, or reports its end, without
\* being the one in the supervisor's map under its name, or the one DoStart is
\* waiting for.
THEOREM NothingOrphaned == ReliableChildren /\ StaticChildren => (Spec => []NoOrphan)
<1>1. SupervisionInv => NoOrphan
  BY DEF SupervisionInv
<1> QED
  BY <1>1, Supervision, PTL

\* With reliable children the panic of the supervision loop is unreachable.
THEOREM PanicUnreachable == ReliableChildren /\ StaticChildren => (Spec => []NeverPanics)
<1>1. SupervisionInv => NeverPanics
  BY DEF SupervisionInv
<1> QED
  BY <1>1, Supervision, PTL

\* With reliable children the resources are released only after every child
\* goroutine has come to its end.
THEOREM ResourcesLast == ReliableChildren /\ StaticChildren => (Spec => []CleanupLast)
<1>1. SupervisionInv => CleanupLast
  BY DEF SupervisionInv, Quiet, AllFree, CleanupLast
<1> QED
  BY <1>1, Supervision, PTL

-----------------------------------------------------------------------------
(* The map and the list.                                                   *)

\* No name is listed twice.
ListedOnce == \A i, j \in 1 .. Len(specs) : specs[i] = specs[j] => i = j

\* The names that are listed, as a set.
Names == {specs[i] : i \in 1 .. Len(specs)}
MapNames == \A c \in Child : children[c] # None => c \in Names

\* Only listed names are started and restarted.
StartsListed ==
    /\ pc \in Restarting => source \in Names
    /\ pc \in Starting =>
          /\ \A i \in 1 .. Len(todo) : todo[i] \in Names
          /\ waiting # None => owner[waiting] = Head(todo)

ListInv == MapNames /\ StartsListed

\* What a list names besides its head, its tail names.
LEMMA RestInTail ==
    ASSUME NEW s \in Seq(Child), s # << >>, NEW c, c # Head(s), \E i \in 1 .. Len(s) : s[i] = c
    PROVE  \E i \in 1 .. Len(Tail(s)) : Tail(s)[i] = c
<1>1. PICK i \in 1 .. Len(s) : s[i] = c
  OBVIOUS
<1>2. i # 1
  BY <1>1, TailFacts
<1>3. i - 1 \in 1 .. Len(Tail(s)) /\ Tail(s)[i - 1] = s[i]
  BY <1>1, <1>2, TailFacts
<1> QED
  BY <1>1, <1>3

\* What is listed once is once in the start order.
LEMMA OrdersOnce ==
    ASSUME specs \in Seq(Child), ListedOnce
    PROVE  \A i, j \in 1 .. Len(StartOrder) : StartOrder[i] = StartOrder[j] => i = j
<1> DEFINE rev == Reverse(specs)
<1>1. /\ rev \in Seq(Child) /\ Len(rev) = Len(specs) /\ Len(specs) \in Nat
      /\ \A i \in 1 .. Len(specs) : rev[i] = specs[Len(specs) - i + 1]
  BY ReverseFacts
<1> HIDE DEF rev
<1>2. \A i, j \in 1 .. Len(rev) : rev[i] = rev[j] => i = j
  <2> SUFFICES ASSUME NEW i \in 1 .. Len(specs), NEW j \in 1 .. Len(specs), rev[i] = rev[j]
               PROVE  i = j
    BY <1>1
  <2>1. Len(specs) - i + 1 \in 1 .. Len(specs) /\ Len(specs) - j + 1 \in 1 .. Len(specs)
    BY <1>1, SMTT(30)
  <2>2. Len(specs) - i + 1 = Len(specs) - j + 1
    BY <1>1, <2>1 DEF ListedOnce
  <2> QED
    BY <1>1, <2>2
<1> QED
  BY <1>2 DEF StartOrder, ListedOnce, rev

\* Both orders consist of the listed names, and of all of them.
LEMMA OrdersList ==
    ASSUME specs \in Seq(Child)
    PROVE  /\ \A i \in 1 .. Len(StartOrder) : StartOrder[i] \in Names
           /\ \A i \in 1 .. Len(TerminationOrder) : TerminationOrder[i] \in Names
           /\ \A c \in Names :
                 /\ \E i \in 1 .. Len(StartOrder) : StartOrder[i] = c
                 /\ \E i \in 1 .. Len(TerminationOrder) : TerminationOrder[i] = c
<1> DEFINE rev == Reverse(specs)
<1>1. /\ rev \in Seq(Child) /\ Len(rev) = Len(specs) /\ Len(specs) \in Nat
      /\ \A i \in 1 .. Len(specs) : rev[i] = specs[Len(specs) - i + 1]
  BY ReverseFacts
<1> HIDE DEF rev
<1>2. \A i \in 1 .. Len(specs) : Len(specs) - i + 1 \in 1 .. Len(specs)
                                 /\ Len(specs) - (Len(specs) - i + 1) + 1 = i
  BY <1>1
<1>3. \A i \in 1 .. Len(rev) : rev[i] \in Names
  BY <1>1, <1>2 DEF Names
<1>4. \A c \in Names : \E i \in 1 .. Len(rev) : rev[i] = c
  <2> SUFFICES ASSUME NEW c, NEW i \in 1 .. Len(specs), specs[i] = c
               PROVE  \E j \in 1 .. Len(rev) : rev[j] = c
    BY DEF Names
  <2>1. rev[Len(specs) - i + 1] = c /\ Len(specs) - i + 1 \in 1 .. Len(rev)
    BY <1>1, <1>2
  <2> QED
    BY <2>1
<1> QED
  BY <1>3, <1>4 DEF StartOrder, TerminationOrder, Names, rev

\* Every step keeps to the list.
LEMMA HomeListed ==
    ASSUME Typed, specs \in Seq(Child), ListInv, [Next]_vars
    PROVE  ListInv'
<1> USE DEF ListInv, MapNames, StartsListed, Starting, Stopping, Restarting
<1>0. UNCHANGED <<specs, strategy>> /\ Names' = Names
  BY SpecsUnchanged DEF Names
<1>1. /\ children \in [Child -> Goroutine \cup {None}]
      /\ phase \in [Goroutine -> Phase] /\ owner \in [Goroutine -> Child \cup {None}]
      /\ todo \in Seq(Child) /\ waiting \in Goroutine \cup {None} /\ source \in Child \cup {None}
      /\ pc \in Location /\ OwnerKnown /\ SourceKnown /\ WaitingKnown
  BY DEF Typed, TypeOK
<1>2. CASE BuildNodes
  BY <1>0, <1>1, <1>2, OrdersList, OrdersTyped DEF BuildNodes, childVars, WaitingKnown
<1>3. CASE BuildNodesFails \/ AllStarted \/ Cleanup
  BY <1>0, <1>1, <1>3 DEF BuildNodesFails, AllStarted, Cleanup, childVars
<1>4. CASE SpawnChild
  BY <1>0, <1>1, <1>4 DEF SpawnChild, FreeGoroutines
<1>5. CASE SkipChild \/ CancelChild
  BY <1>0, <1>1, <1>5 DEF SkipChild, CancelChild, childVars
<1>6. CASE AllStopped
  BY <1>0, <1>1, <1>6, OrdersList, OrdersTyped DEF AllStopped, RestartFromScratch, NoChildren
<1>7. CASE CheckTolerance \/ RestartUncounted \/ BackoffElapses
  <2>1. /\ pc \in {"tolerance", "backoff"} /\ waiting' = waiting /\ waiting = None
        /\ UNCHANGED <<source, children>>
        /\ pc' \in {"backoff", "shutdown"} \/ BeginRestart
    BY <1>1, <1>7
    DEF CheckTolerance, RestartUncounted, BackoffElapses, GiveUp, WaitThenRestart, BeginRestart,
        childVars, WaitingKnown
  <2>2. CASE pc' \in {"backoff", "shutdown"}
    BY <1>0, <2>1, <2>2
  <2>3. CASE BeginRestart
    BY <1>0, <2>1, <2>3 DEF BeginRestart
  <2> QED
    BY <2>1, <2>2, <2>3
<1>8. CASE Shutdown \/ BackoffCancelled
  BY <1>0, <1>1, <1>8 DEF Shutdown, BackoffCancelled, childVars
<1>9. CASE Terminate \/ UNCHANGED vars
  BY <1>0, <1>1, <1>9 DEF Terminate, vars, supVars, childVars
<1>10. ASSUME NEW g \in Goroutine, StartSucceeds(g)
       PROVE  ListInv'
  <2>1. /\ pc \in Starting /\ waiting = g /\ todo # << >> /\ owner[g] = Head(todo)
        /\ waiting' = None /\ todo' = Tail(todo)
        /\ children' = [children EXCEPT ![owner[g]] = g]
        /\ UNCHANGED <<pc, source, owner>>
    BY <1>1, <1>10, NoneIsFresh DEF StartSucceeds, RecordStart, WaitingKnown
  <2>2. Head(todo) \in Child /\ Head(todo) \in Names
    BY <1>1, <2>1, TailFacts
  <2>3. \A i \in 1 .. Len(Tail(todo)) : Tail(todo)[i] \in Names
    BY <1>1, <2>1, TailFacts
  <2> QED
    BY <1>0, <1>1, <2>1, <2>2, <2>3, TailFacts
<1>11. ASSUME NEW g \in Goroutine, StartFails(g)
       PROVE  ListInv'
  <2>1. /\ waiting' = None /\ UNCHANGED <<source, children>>
        /\ pc' \notin Starting /\ (pc' \in Restarting => pc \in Restarting)
    BY <1>11 DEF StartFails, AbortStart
  <2> QED
    BY <1>0, <1>1, <2>1
<1>12. ASSUME NEW g \in Goroutine, ReturnsWithoutNotify(g) \/ Ends(g) \/ HonorsCancel(g)
       PROVE  ListInv'
  BY <1>0, <1>1, <1>12 DEF ReturnsWithoutNotify, Ends, HonorsCancel, ReturnsFrom, supVars
<1>13. ASSUME NEW g \in Goroutine, ChildStopped(g) \/ ChildAlreadyGone(g) \/ ShutdownTimesOut(g)
       PROVE  ListInv'
  BY <1>0, <1>1, <1>13 DEF ChildStopped, ChildAlreadyGone, ShutdownTimesOut, WaitIsOver
<1>14. ASSUME NEW g \in Goroutine, Receive(g)
       PROVE  ListInv'
  BY <1>0, <1>1, <1>14, NoneIsFresh DEF Receive, EnterRestartLoop, Pending, OwnerKnown
<1>15. ASSUME NEW g \in Goroutine, PanicUnknownChild(g)
       PROVE  ListInv'
  BY <1>0, <1>1, <1>15 DEF PanicUnknownChild
<1> QED
  BY <1>2, <1>3, <1>4, <1>5, <1>6, <1>7, <1>8, <1>9, <1>10, <1>11, <1>12, <1>13, <1>14, <1>15
  DEF Next, Local, Over

-----------------------------------------------------------------------------
(* A supervisor whose children start reliably, but may not stop in time.   *)

ReliableStarts == CanFailStart = {}

\* A name without a living goroutine in the map, or one the supervisor may
\* have left a goroutine of.
DoneWith(c) == EntryDone(c) \/ HasShutdownTimeout(c)

\* The goroutine in the map under a name belongs to it, while it exists.
MapOwned == \A c \in Child : EntryDone(c) \/ owner[children[c]] = c

Books == MapOwned /\ WaitingFor /\ OnlyWaitedStart

\* No start fails in this step, so no rollback is ever needed.
StartsSucceed == \A g \in Goroutine : ~StartFails(g)
NoRollback == pc \notin {"bootRollback", "restartRollback"}

Frame == Books /\ NoRollback

\* A goroutine that exists is in the map, is waited for, or was given up on.
OrphansTimed ==
    \A g \in Goroutine : phase[g] # "free" =>
        children[owner[g]] = g \/ waiting = g \/ HasShutdownTimeout(owner[g])

\* What the supervisor knows of the names in its loops, as in SupervisionInv.
StartsDone ==
    pc \in Starting =>
        /\ \A i \in 1 .. Len(todo) : DoneWith(todo[i])
        /\ \A i, j \in 1 .. Len(todo) : todo[i] = todo[j] => i = j
StopsRest ==
    pc \in Stopping => \A c \in Child : DoneWith(c) \/ \E i \in 1 .. Len(todo) : todo[i] = c
SourceOver == pc \in {"tolerance", "backoff", "siblings"} => DoneWith(source)
EndsStopped == pc \in {"build", "cleanup", "dead"} => \A c \in Child : DoneWith(c)

Keeping == OrphansTimed /\ StartsDone /\ StopsRest /\ SourceOver /\ EndsStopped

\* Every step keeps the books of the goroutines.
LEMMA BooksStep ==
    ASSUME Typed, Books, [Next]_vars
    PROVE  Books'
<1> USE DEF Books, MapOwned, WaitingFor, OnlyWaitedStart, EntryDone, Starting, Stopping, specVars
<1>0. /\ children \in [Child -> Goroutine \cup {None}]
      /\ phase \in [Goroutine -> Phase] /\ owner \in [Goroutine -> Child \cup {None}]
      /\ todo \in Seq(Child) /\ waiting \in Goroutine \cup {None}
      /\ pc \in Location /\ OwnerKnown /\ WaitingKnown
      /\ None \notin Child /\ None \notin Goroutine
  BY NoneIsFresh DEF Typed, TypeOK
<1>1. CASE \/ BuildNodes \/ BuildNodesFails \/ AllStarted \/ SkipChild \/ Cleanup
           \/ Shutdown \/ BackoffCancelled \/ Terminate \/ UNCHANGED vars
  BY <1>0, <1>1
  DEF BuildNodes, BuildNodesFails, AllStarted, SkipChild, Cleanup, Shutdown, BackoffCancelled,
      Terminate, vars, supVars, childVars, WaitingKnown
<1>2. CASE SpawnChild
  BY <1>0, <1>2 DEF SpawnChild, FreeGoroutines, Tracked
<1>3. CASE CancelChild
  BY <1>0, <1>3, TailFacts DEF CancelChild
<1>4. CASE AllStopped
  BY <1>0, <1>4 DEF AllStopped, RestartFromScratch, NoChildren
<1>5. CASE CheckTolerance \/ RestartUncounted \/ BackoffElapses
  <2>1. /\ pc \in {"tolerance", "backoff"} /\ waiting' = waiting /\ waiting = None
        /\ UNCHANGED <<children, phase, owner>>
        /\ pc' \in {"backoff", "shutdown", "restart", "siblings"}
    BY <1>0, <1>5
    DEF CheckTolerance, RestartUncounted, BackoffElapses, GiveUp, WaitThenRestart, BeginRestart,
        childVars, WaitingKnown
  <2> QED
    BY <1>0, <2>1
<1>6. ASSUME NEW g \in Goroutine, StartSucceeds(g)
      PROVE  Books'
  BY <1>0, <1>6 DEF StartSucceeds, RecordStart, WaitingKnown, OwnerKnown
<1>7. ASSUME NEW g \in Goroutine, StartFails(g)
      PROVE  Books'
  <2>1. /\ waiting = g /\ waiting' = None /\ children' = children
        /\ pc' \in {"bootRollback", "restartRollback", "tolerance"}
    BY <1>7 DEF StartFails, AbortStart
  <2>2. \/ \E p \in {"failing", "completing"} :
              phase' = [phase EXCEPT ![g] = p] /\ owner' = owner
        \/ /\ phase' = [phase EXCEPT ![g] = "free"]
           /\ owner' = [owner EXCEPT ![g] = None]
    BY <1>7 DEF StartFails, LeaveBehind
  <2> QED
    BY <1>0, <1>7, <2>1, <2>2 DEF StartFails
<1>8. ASSUME NEW g \in Goroutine, ReturnsWithoutNotify(g) \/ Ends(g) \/ HonorsCancel(g)
      PROVE  Books'
  <2>1. PICK p \in {"failing", "completing"} : phase' = [phase EXCEPT ![g] = p]
    BY <1>8 DEF ReturnsWithoutNotify, Ends, HonorsCancel, ReturnsFrom
  <2>2. phase[g] # "free" /\ UNCHANGED <<supVars, children, owner>>
    BY <1>8 DEF ReturnsWithoutNotify, Ends, HonorsCancel, ReturnsFrom
  <2> QED
    BY <1>0, <2>1, <2>2 DEF supVars
<1>9. ASSUME NEW g \in Goroutine, ChildStopped(g) \/ ChildAlreadyGone(g) \/ ShutdownTimesOut(g)
      PROVE  Books'
  <2>1. /\ pc \in Stopping /\ waiting' = None /\ pc' = pc /\ todo # << >> /\ Head(todo) \in Child
        /\ children' = [children EXCEPT ![Head(todo)] = None]
    BY <1>0, <1>9, TailFacts
    DEF ChildStopped, ChildAlreadyGone, ShutdownTimesOut, WaitIsOver, WaitingKnown
  <2>2. \/ UNCHANGED <<phase, owner>>
        \/ /\ phase' = [phase EXCEPT ![g] = "free"]
           /\ owner' = [owner EXCEPT ![g] = None]
    BY <1>0, <1>9 DEF ChildStopped, ChildAlreadyGone, ShutdownTimesOut, Exit, LeaveBehind
  <2> QED
    BY <1>0, <2>1, <2>2
<1>10. ASSUME NEW g \in Goroutine, Receive(g) \/ PanicUnknownChild(g)
       PROVE  Books'
  BY <1>0, <1>10
  DEF Receive, PanicUnknownChild, EnterRestartLoop, Exit, Pending, WaitingKnown, OwnerKnown
<1> QED
  BY <1>1, <1>2, <1>3, <1>4, <1>5, <1>6, <1>7, <1>8, <1>9, <1>10 DEF Next, Local, Over

\* Without a failing start there is no rollback.
LEMMA FrameStep ==
    ASSUME StartsSucceed, Typed, Frame, [Next]_vars
    PROVE  Frame'
<1>1. Books'
  BY BooksStep DEF Frame
<1>2. NoRollback
  BY DEF Frame
<1>3. ASSUME \/ BuildNodes \/ BuildNodesFails \/ SpawnChild \/ AllStarted \/ SkipChild \/ CancelChild
             \/ AllStopped \/ Cleanup \/ Shutdown \/ BackoffCancelled \/ Terminate \/ UNCHANGED vars
      PROVE  NoRollback'
  BY <1>2, <1>3
  DEF NoRollback, BuildNodes, BuildNodesFails, SpawnChild, AllStarted, SkipChild, CancelChild,
      AllStopped, Cleanup, Shutdown, BackoffCancelled, Terminate, vars, supVars
<1>4. ASSUME CheckTolerance \/ RestartUncounted \/ BackoffElapses
      PROVE  NoRollback'
  BY <1>2, <1>4
  DEF NoRollback, CheckTolerance, RestartUncounted, BackoffElapses, GiveUp, WaitThenRestart, BeginRestart
<1>5. ASSUME NEW g \in Goroutine,
             \/ StartSucceeds(g) \/ ReturnsWithoutNotify(g) \/ Ends(g) \/ HonorsCancel(g)
             \/ ChildStopped(g) \/ ChildAlreadyGone(g) \/ ShutdownTimesOut(g)
             \/ Receive(g) \/ PanicUnknownChild(g)
      PROVE  NoRollback'
  BY <1>2, <1>5
  DEF NoRollback, StartSucceeds, ReturnsWithoutNotify, Ends, HonorsCancel, ReturnsFrom, ChildStopped,
      ChildAlreadyGone, ShutdownTimesOut, Receive, EnterRestartLoop, PanicUnknownChild, supVars
<1> QED
  BY <1>1, <1>3, <1>4, <1>5 DEF Frame, Next, Local, Over, StartsSucceed

\* Reliable starts never fail.
LEMMA ReliableStartsSucceed == ReliableStarts => StartsSucceed
  BY DEF ReliableStarts, StartsSucceed, StartFails

\* Every step keeps what the supervisor knows of the names.
LEMMA KeepingStep ==
    ASSUME StartsSucceed, Typed, ListInv, ListedOnce, Frame, Keeping, [Next]_vars
    PROVE  Keeping'
<1> USE DEF Keeping, OrphansTimed, StartsDone, StopsRest, SourceOver, EndsStopped, DoneWith,
            EntryDone, HasShutdownTimeout, Starting, Stopping, specVars
<1>0. /\ children \in [Child -> Goroutine \cup {None}]
      /\ phase \in [Goroutine -> Phase] /\ owner \in [Goroutine -> Child \cup {None}]
      /\ todo \in Seq(Child) /\ waiting \in Goroutine \cup {None} /\ source \in Child \cup {None}
      /\ pc \in Location /\ OwnerKnown /\ SourceKnown /\ WaitingKnown
      /\ None \notin Child /\ None \notin Goroutine
      /\ MapOwned /\ WaitingFor /\ OnlyWaitedStart /\ NoRollback /\ MapNames
  BY NoneIsFresh DEF Typed, TypeOK, Frame, Books, ListInv
<1>orders. /\ StartOrder \in Seq(Child) /\ TerminationOrder \in Seq(Child)
           /\ \A i, j \in 1 .. Len(StartOrder) : StartOrder[i] = StartOrder[j] => i = j
           /\ \A c \in Child :
                 EntryDone(c) \/ \E i \in 1 .. Len(TerminationOrder) : TerminationOrder[i] = c
  <2>1. specs \in Seq(Child)
    BY DEF Typed, TypeOK
  <2> QED
    BY <1>0, <2>1, OrdersTyped, OrdersList, OrdersOnce DEF MapNames
<1>1. CASE BuildNodes
  <2>1. \A c \in Child : DoneWith(c)'
    BY <1>0, <1>1 DEF BuildNodes, childVars
  <2>2. StartsDone'
    BY <1>orders, <1>1, <2>1 DEF BuildNodes
  <2> QED
    BY <1>0, <1>1, <2>2 DEF BuildNodes, childVars
<1>2. CASE \/ BuildNodesFails \/ AllStarted \/ Cleanup \/ BackoffCancelled \/ Terminate
           \/ UNCHANGED vars
  BY <1>0, <1>2
  DEF BuildNodesFails, AllStarted, Cleanup, BackoffCancelled, Terminate, vars, supVars, childVars,
      WaitingKnown
<1>3. CASE Shutdown
  BY <1>0, <1>orders, <1>3 DEF Shutdown, childVars, WaitingKnown
<1>4. CASE SpawnChild
  BY <1>0, <1>4, TailFacts DEF SpawnChild, FreeGoroutines, Tracked, WaitingKnown
<1>5. CASE SkipChild
  <2>1. DoneWith(Head(todo)) /\ todo # << >>
    BY <1>0, <1>5 DEF SkipChild, Skipped
  <2>2. StopsRest'
    <3> SUFFICES ASSUME NEW c \in Child, ~DoneWith(c)
                 PROVE  \E i \in 1 .. Len(Tail(todo)) : Tail(todo)[i] = c
      BY <1>5 DEF SkipChild, childVars
    <3> QED
      <4>1. todo \in Seq(Child) /\ c # Head(todo) /\ \E i \in 1 .. Len(todo) : todo[i] = c
        BY <1>0, <1>5, <2>1 DEF SkipChild
      <4> QED
        BY <2>1, <4>1, RestInTail
  <2> QED
    BY <1>0, <1>5, <2>2 DEF SkipChild, childVars
<1>6. CASE CancelChild
  BY <1>0, <1>6, TailFacts DEF CancelChild
<1>7. CASE AllStopped
  <2>1. \A c \in Child : DoneWith(c)
    BY <1>0, <1>7 DEF AllStopped
  <2>2. \A g \in Goroutine : phase[g] # "free" => HasShutdownTimeout(owner[g])
    BY <1>0, <1>7, <2>1 DEF AllStopped, OwnerKnown
  <2>3. CASE pc = "siblings" /\ pc' = "restart" /\ RestartFromScratch
    <3>1. \A c \in Child : DoneWith(c)'
      BY <2>3 DEF RestartFromScratch, NoChildren
    <3>2. StartsDone'
      BY <1>orders, <2>3, <3>1 DEF RestartFromScratch
    <3> QED
      BY <1>0, <1>7, <2>2, <2>3, <3>2 DEF AllStopped
  <2>4. CASE pc = "shutdown"
    BY <1>0, <1>7, <2>1, <2>4 DEF AllStopped
  <2> QED
    BY <1>0, <1>7, <2>3, <2>4 DEF AllStopped, NoRollback
<1>8. CASE CheckTolerance \/ RestartUncounted \/ BackoffElapses
  <2>1. /\ pc \in {"tolerance", "backoff"} /\ waiting' = waiting /\ waiting = None
        /\ UNCHANGED <<children, phase, owner, source>>
        /\ \/ pc' = "backoff"
           \/ pc' = "shutdown" /\ todo' = TerminationOrder
           \/ BeginRestart
    BY <1>0, <1>8
    DEF CheckTolerance, RestartUncounted, BackoffElapses, GiveUp, WaitThenRestart, childVars,
        WaitingKnown
  <2>2. CASE pc' = "backoff"
    BY <1>0, <2>1, <2>2
  <2>3. CASE pc' \in {"shutdown", "siblings"} /\ todo' = TerminationOrder
    BY <1>0, <1>orders, <2>1, <2>3
  <2>4. CASE pc' = "restart" /\ todo' = <<source>>
    BY <1>0, <2>1, <2>4
  <2> QED
    BY <2>1, <2>2, <2>3, <2>4 DEF BeginRestart
<1>9. ASSUME NEW g \in Goroutine, StartSucceeds(g)
      PROVE  Keeping'
  <2>1. /\ pc \in Starting /\ waiting = g /\ todo # << >>
        /\ owner[g] = Head(todo) /\ owner[g] \in Child
        /\ waiting' = None /\ todo' = Tail(todo) /\ UNCHANGED <<pc, owner>>
        /\ children' = [children EXCEPT ![owner[g]] = g]
        /\ phase[g] = "starting" /\ phase' = [phase EXCEPT ![g] = "running"]
    BY <1>0, <1>9 DEF StartSucceeds, RecordStart, WaitingKnown, OwnerKnown, WaitingFor
  <2>2. \A i \in 1 .. Len(Tail(todo)) : Tail(todo)[i] # Head(todo) /\ DoneWith(Tail(todo)[i])
    <3>1. \A i \in 1 .. Len(Tail(todo)) :
             /\ i + 1 \in 1 .. Len(todo) /\ i + 1 # 1
             /\ Tail(todo)[i] = todo[i + 1]
      BY <1>0, <2>1, TailFacts
    <3>2. Head(todo) = todo[1] /\ 1 \in 1 .. Len(todo)
      BY <1>0, <2>1, TailFacts
    <3> QED
      BY <2>1, <3>1, <3>2
  <2>3. StartsDone'
    <3>1. ASSUME NEW c \in Child, c # owner[g], DoneWith(c)
          PROVE  DoneWith(c)'
      <4>1. children'[c] = children[c] /\ (children[c] # None => children[c] \in Goroutine)
        BY <1>0, <2>1, <3>1
      <4> QED
        BY <1>0, <2>1, <3>1, <4>1
    <3>2. \A i \in 1 .. Len(Tail(todo)) :
             Tail(todo)[i] \in Child /\ Tail(todo)[i] # owner[g] /\ DoneWith(Tail(todo)[i])
      BY <1>0, <2>1, <2>2, TailFacts
    <3>3. \A i \in 1 .. Len(todo') :
             \/ children'[todo'[i]] = None \/ phase'[children'[todo'[i]]] = "free"
             \/ todo'[i] \in Timed
      BY <2>1, <3>1, <3>2
    <3>4. \A i, j \in 1 .. Len(todo') : todo'[i] = todo'[j] => i = j
      BY <1>0, <2>1, TailFacts
    <3> QED
      BY <3>3, <3>4
  <2>4. OrphansTimed'
    <3> SUFFICES ASSUME NEW h \in Goroutine, h # g, phase[h] # "free"
                 PROVE  children'[owner[h]] = h \/ HasShutdownTimeout(owner[h])
      BY <1>0, <2>1
    <3>1. CASE owner[h] = owner[g]
      <4>1. DoneWith(owner[g])
        BY <1>0, <2>1, TailFacts
      <4> QED
        BY <1>0, <2>1, <3>1, <4>1 DEF OwnerKnown
    <3>2. CASE owner[h] # owner[g]
      BY <1>0, <2>1, <3>2 DEF OwnerKnown
    <3> QED
      BY <3>1, <3>2
  <2> QED
    BY <2>1, <2>3, <2>4
<1>10. ASSUME NEW g \in Goroutine, StartFails(g)
       PROVE  FALSE
  BY <1>10 DEF StartsSucceed
<1>11. ASSUME NEW g \in Goroutine, ReturnsWithoutNotify(g) \/ Ends(g) \/ HonorsCancel(g)
       PROVE  Keeping'
  <2>1. PICK p \in {"failing", "completing"} : phase' = [phase EXCEPT ![g] = p]
    BY <1>11 DEF ReturnsWithoutNotify, Ends, HonorsCancel, ReturnsFrom
  <2>2. phase[g] # "free" /\ UNCHANGED <<supVars, children, owner>>
    BY <1>11 DEF ReturnsWithoutNotify, Ends, HonorsCancel, ReturnsFrom
  <2>3. \A h \in Goroutine : phase'[h] = "free" <=> phase[h] = "free"
    BY <1>0, <2>1, <2>2
  <2>4. \A c \in Child : DoneWith(c)' <=> DoneWith(c)
    BY <1>0, <2>2, <2>3
  <2> QED
    BY <1>0, <2>2, <2>3, <2>4 DEF supVars, SourceKnown, Restarting
<1>12. ASSUME NEW g \in Goroutine, ChildStopped(g) \/ ChildAlreadyGone(g) \/ ShutdownTimesOut(g)
       PROVE  Keeping'
  <2>1. /\ pc \in Stopping /\ waiting = g /\ waiting' = None /\ todo # << >> /\ Head(todo) \in Child
        /\ children[Head(todo)] = g
        /\ children' = [children EXCEPT ![Head(todo)] = None]
        /\ todo' = Tail(todo) /\ UNCHANGED <<pc, source>>
    BY <1>0, <1>12, TailFacts
    DEF ChildStopped, ChildAlreadyGone, ShutdownTimesOut, WaitIsOver, WaitingKnown, WaitingFor
  <2>2. \/ UNCHANGED <<phase, owner>> /\ (phase[g] = "free" \/ HasShutdownTimeout(Head(todo)))
        \/ /\ phase' = [phase EXCEPT ![g] = "free"]
           /\ owner' = [owner EXCEPT ![g] = None]
    BY <1>0, <1>12 DEF ChildStopped, ChildAlreadyGone, ShutdownTimesOut, Exit, LeaveBehind
  <2>3. \A c \in Child : c = Head(todo) \/ DoneWith(c) => DoneWith(c)'
    <3>1. ASSUME NEW c \in Child, c = Head(todo)
          PROVE  DoneWith(c)'
      BY <1>0, <2>1, <3>1
    <3>2. ASSUME NEW c \in Child, c # Head(todo), DoneWith(c)
          PROVE  DoneWith(c)'
      <4>1. children'[c] = children[c] /\ (children[c] # None => children[c] \in Goroutine)
        BY <1>0, <2>1, <3>2
      <4> QED
        BY <1>0, <2>2, <3>2, <4>1
    <3> QED
      BY <3>1, <3>2
  <2>4. StopsRest'
    <3> SUFFICES ASSUME NEW c \in Child, ~DoneWith(c)'
                 PROVE  \E i \in 1 .. Len(Tail(todo)) : Tail(todo)[i] = c
      BY <2>1
    <3>1. c # Head(todo) /\ ~DoneWith(c)
      BY <2>3
    <3> QED
      <4>1. todo \in Seq(Child) /\ \E i \in 1 .. Len(todo) : todo[i] = c
        BY <1>0, <2>1, <3>1
      <4> QED
        BY <2>1, <3>1, <4>1, RestInTail
  <2>5. OrphansTimed'
    <3> SUFFICES ASSUME NEW h \in Goroutine, phase'[h] # "free"
                 PROVE  children'[owner'[h]] = h \/ HasShutdownTimeout(owner'[h])
      OBVIOUS
    <3>1. phase[h] # "free" /\ owner'[h] = owner[h] /\ owner[h] \in Child
      BY <1>0, <2>2 DEF OwnerKnown
    <3>2. CASE h = g
      BY <1>0, <2>1, <2>2, <3>1, <3>2 DEF MapOwned
    <3>3. CASE h # g
      BY <1>0, <2>1, <3>1, <3>3
    <3> QED
      BY <3>2, <3>3
  <2>6. SourceOver'
    BY <1>0, <2>1, <2>3 DEF SourceKnown, Restarting
  <2> QED
    BY <2>1, <2>4, <2>5, <2>6
<1>13. ASSUME NEW g \in Goroutine, Receive(g)
       PROVE  Keeping'
  <2>1. /\ pc = "loop" /\ waiting = None /\ waiting' = None /\ Pending(g) /\ owner[g] \in Child
        /\ phase' = [phase EXCEPT ![g] = "free"]
        /\ owner' = [owner EXCEPT ![g] = None]
        /\ \/ pc' = "tolerance" /\ source' = owner[g] /\ UNCHANGED children
           \/ pc' = "loop" /\ children' = [children EXCEPT ![owner[g]] = None]
    BY <1>0, <1>13 DEF Receive, EnterRestartLoop, Exit, Pending, WaitingKnown, OwnerKnown
  <2>2. children[owner[g]] = g \/ HasShutdownTimeout(owner[g])
    BY <1>0, <2>1 DEF Pending
  <2>3. OrphansTimed'
    <3> SUFFICES ASSUME NEW h \in Goroutine, h # g, phase[h] # "free"
                 PROVE  children'[owner[h]] = h \/ HasShutdownTimeout(owner[h])
      BY <1>0, <2>1
    <3>1. owner[h] \in Child
      BY <1>0 DEF OwnerKnown
    <3>2. CASE owner[h] = owner[g]
      BY <1>0, <2>1, <2>2, <3>2
    <3>3. CASE owner[h] # owner[g]
      BY <1>0, <2>1, <3>1, <3>3
    <3> QED
      BY <3>2, <3>3
  <2>4. SourceOver'
    BY <1>0, <2>1, <2>2
  <2> QED
    BY <2>1, <2>3, <2>4
<1>14. ASSUME NEW g \in Goroutine, PanicUnknownChild(g)
       PROVE  Keeping'
  BY <1>0, <1>14 DEF PanicUnknownChild, Exit, Pending, WaitingKnown, OwnerKnown
<1> QED
  BY <1>1, <1>2, <1>3, <1>4, <1>5, <1>6, <1>7, <1>8, <1>9, <1>10, <1>11, <1>12, <1>13, <1>14
  DEF Next, Local, Over

\* A supervisor whose children start reliably has, when it is dead, stopped
\* every child that ends within its Timeout, whatever the others do.
THEOREM EveryChildStopped == ReliableStarts => (Spec => []StopsEveryChild)
<1> SUFFICES ASSUME ReliableStarts
             PROVE  Spec => []StopsEveryChild
  OBVIOUS
<1> DEFINE Inv == TypeInv /\ ListInv /\ Frame /\ Keeping
<1>1. Init => Inv
  <2> SUFFICES ASSUME Init
               PROVE  ListInv /\ Frame /\ Keeping
    BY TypeInvInit
  <2> QED
    BY NoneIsFresh
    DEF Init, NoChildren, ListInv, MapNames, StartsListed, Restarting, Starting, Stopping, Frame,
        Books, MapOwned, WaitingFor, OnlyWaitedStart, NoRollback, Keeping, OrphansTimed, StartsDone,
        StopsRest, SourceOver, EndsStopped, DoneWith, EntryDone
<1>2. Inv /\ [Next]_vars => Inv'
  <2> SUFFICES ASSUME Inv, [Next]_vars
               PROVE  Inv'
    OBVIOUS
  <2>1. Typed /\ specs \in Seq(Child)
    BY DEF TypeInv, Typed, TypeOK
  <2>2. ListedOnce
    BY SupervisorAssumption DEF TypeInv, SpecsKept, ListedOnce
  <2> QED
    BY <2>1, <2>2, TypeInvStep, HomeListed, ReliableStartsSucceed, FrameStep, KeepingStep
<1>3. Inv => StopsEveryChild
  <2> SUFFICES ASSUME Inv, pc = "dead", NEW g \in Goroutine, Up(g)
               PROVE  owner[g] \in Timed
    BY DEF StopsEveryChild
  <2>1. owner[g] \in Child /\ waiting # g /\ phase[g] # "free"
    BY NoneIsFresh DEF TypeInv, Typed, OwnerKnown, WaitingKnown, Starting, Stopping, Up
  <2> QED
    BY <2>1, NoneIsFresh
    DEF Keeping, OrphansTimed, EndsStopped, DoneWith, EntryDone, HasShutdownTimeout
<1> QED
  BY <1>1, <1>2, <1>3, PTL DEF Spec
-----------------------------------------------------------------------------
(* A boot that fails, with any faults: its rollback takes over the map.    *)

\* Before the boot there is nothing; a failed boot is the end.
BuildFirst ==
    /\ pc = "build" => AllFree /\ children = NoChildren
    /\ outcome = "startFailed" => pc = "dead"

\* While children are booted, what is up is in the map or is being started, and
\* what is still to be started is not in the map.
Booting ==
    pc = "boot" =>
        /\ \A g \in Goroutine : Up(g) => children[owner[g]] = g \/ waiting = g
        /\ \A g \in Goroutine : phase[g] = "starting" => waiting = g
        /\ waiting # None => owner[waiting] = Head(todo)
        /\ \A i \in 1 .. Len(todo) : children[todo[i]] = None
        /\ \A i, j \in 1 .. Len(todo) : todo[i] = todo[j] => i = j

\* In the rollback, what is up is still to be stopped, or was not stopped in
\* time.
RollingBack ==
    pc = "bootRollback" =>
        /\ \A g \in Goroutine : Up(g) =>
              \/ children[owner[g]] = g /\ \E i \in 1 .. Len(todo) : todo[i] = owner[g]
              \/ phase[g] = "stopping" /\ owner[g] \in Timed
        /\ \A g \in Goroutine : phase[g] # "starting"
        /\ waiting # None => phase[waiting] # "running" /\ children[Head(todo)] = waiting

BootInv == BuildFirst /\ Booting /\ RollingBack /\ BootAllOrNothing

\* Every step keeps it.
LEMMA BootInvStep ==
    ASSUME Typed, ListInv, ListedOnce, BootInv, [Next]_vars
    PROVE  BootInv'
<1> USE DEF BootInv, BuildFirst, Booting, RollingBack, BootAllOrNothing, Up, AllFree, Starting,
            Stopping, specVars
<1>0. /\ children \in [Child -> Goroutine \cup {None}]
      /\ phase \in [Goroutine -> Phase] /\ owner \in [Goroutine -> Child \cup {None}]
      /\ todo \in Seq(Child) /\ waiting \in Goroutine \cup {None}
      /\ pc \in Location /\ OwnerKnown /\ WaitingKnown
      /\ None \notin Child /\ None \notin Goroutine /\ MapNames
  BY NoneIsFresh DEF Typed, TypeOK, ListInv
<1>orders. /\ StartOrder \in Seq(Child) /\ TerminationOrder \in Seq(Child)
           /\ \A i, j \in 1 .. Len(StartOrder) : StartOrder[i] = StartOrder[j] => i = j
           /\ \A c \in Child : children[c] # None =>
                 \E i \in 1 .. Len(TerminationOrder) : TerminationOrder[i] = c
  <2>1. specs \in Seq(Child)
    BY DEF Typed, TypeOK
  <2> QED
    BY <1>0, <2>1, OrdersTyped, OrdersList, OrdersOnce DEF MapNames
<1>1. CASE BuildNodes
  <2>1. /\ pc = "build" /\ pc' = "boot" /\ todo' = StartOrder /\ waiting = None
        /\ UNCHANGED <<waiting, children, phase, owner, outcome>>
    BY <1>0, <1>1 DEF BuildNodes, childVars, WaitingKnown
  <2> QED
    BY <1>orders, <2>1 DEF NoChildren
<1>2. CASE \/ BuildNodesFails \/ AllStarted \/ Cleanup \/ Shutdown \/ BackoffCancelled \/ Terminate
           \/ UNCHANGED vars
  BY <1>0, <1>2
  DEF BuildNodesFails, AllStarted, Cleanup, Shutdown, BackoffCancelled, Terminate, vars, supVars,
      childVars
<1>3. CASE SpawnChild
  BY <1>0, <1>3, TailFacts DEF SpawnChild, FreeGoroutines
<1>4. CASE SkipChild
  <2>1. /\ pc \in Stopping /\ waiting = None /\ todo # << >> /\ todo' = Tail(todo)
        /\ pc = "bootRollback" => children[Head(todo)] = None
        /\ UNCHANGED <<pc, waiting, children, phase, owner, outcome>>
    BY <1>4 DEF SkipChild, Skipped, childVars
  <2>2. \A c \in Child : c # Head(todo) /\ (\E i \in 1 .. Len(todo) : todo[i] = c) =>
           \E i \in 1 .. Len(todo') : todo'[i] = c
    BY <1>0, <2>1, RestInTail
  <2>3. \A g \in Goroutine : Up(g) => owner[g] \in Child
    BY <1>0 DEF OwnerKnown
  <2>4. CASE pc = "bootRollback"
    <3>1. ASSUME NEW g \in Goroutine, Up(g)
          PROVE  \/ children[owner[g]] = g /\ \E i \in 1 .. Len(todo') : todo'[i] = owner[g]
                 \/ phase[g] = "stopping" /\ owner[g] \in Timed
      <4>1. CASE children[owner[g]] = g /\ \E i \in 1 .. Len(todo) : todo[i] = owner[g]
        <5>1. owner[g] # Head(todo)
          BY <1>0, <2>1, <2>4, <4>1
        <5> QED
          BY <2>2, <2>3, <3>1, <4>1, <5>1
      <4> QED
        BY <2>4, <3>1, <4>1
    <3> QED
      BY <2>1, <2>4, <3>1
  <2>5. CASE pc # "bootRollback"
    BY <2>1, <2>5
  <2> QED
    BY <2>4, <2>5
<1>5. CASE CancelChild
  BY <1>0, <1>5, TailFacts DEF CancelChild
<1>6. CASE AllStopped
  BY <1>0, <1>6 DEF AllStopped
<1>7. CASE CheckTolerance \/ RestartUncounted \/ BackoffElapses
  <2>1. /\ pc \in {"tolerance", "backoff"} /\ UNCHANGED <<phase, owner>>
        /\ pc' \in {"backoff", "shutdown", "restart", "siblings"}
        /\ outcome' \in {outcome, "crashed"}
    BY <1>7
    DEF CheckTolerance, RestartUncounted, BackoffElapses, GiveUp, WaitThenRestart, BeginRestart,
        childVars
  <2> QED
    BY <2>1
<1>8. ASSUME NEW g \in Goroutine, StartSucceeds(g)
      PROVE  BootInv'
  <2>1. /\ pc \in Starting /\ waiting = g /\ phase[g] = "starting" /\ owner[g] \in Child
        /\ todo # << >> /\ todo' = Tail(todo) /\ waiting' = None
        /\ children' = [children EXCEPT ![owner[g]] = g]
        /\ phase' = [phase EXCEPT ![g] = "running"]
        /\ UNCHANGED <<pc, owner, outcome>>
    BY <1>0, <1>8 DEF StartSucceeds, RecordStart, WaitingKnown, OwnerKnown
  <2>2. \A i \in 1 .. Len(Tail(todo)) :
           i + 1 \in 1 .. Len(todo) /\ i + 1 # 1 /\ Tail(todo)[i] = todo[i + 1]
    BY <1>0, <2>1, TailFacts
  <2>3. Head(todo) = todo[1] /\ 1 \in 1 .. Len(todo)
    BY <1>0, <2>1, TailFacts
  <2>4. CASE pc = "boot"
    <3>1. owner[g] = Head(todo) /\ children[Head(todo)] = None
      BY <1>0, <2>1, <2>3, <2>4
    <3>2. \A i \in 1 .. Len(todo') : todo'[i] \in Child /\ children'[todo'[i]] = None
      <4>1. \A i \in 1 .. Len(Tail(todo)) :
               /\ todo[i + 1] # Head(todo) /\ children[todo[i + 1]] = None
               /\ todo[i + 1] \in Child
        BY <1>0, <2>2, <2>3, <2>4
      <4> QED
        BY <1>0, <2>1, <2>2, <3>1, <4>1
    <3>3. \A i, j \in 1 .. Len(todo') : todo'[i] = todo'[j] => i = j
      BY <1>0, <2>1, <2>4, TailFacts
    <3>4. \A h \in Goroutine : h # g /\ Up(h) => children'[owner'[h]] = h
      BY <1>0, <2>1, <2>4, <3>1 DEF OwnerKnown
    <3>5. children'[owner'[g]] = g /\ \A h \in Goroutine : phase'[h] # "starting"
      BY <1>0, <2>1, <2>4
    <3> QED
      BY <1>0, <2>1, <2>4, <3>2, <3>3, <3>4, <3>5
  <2>5. CASE pc = "restart"
    BY <2>1, <2>5
  <2> QED
    BY <2>1, <2>4, <2>5
<1>9. ASSUME NEW g \in Goroutine, StartFails(g)
      PROVE  BootInv'
  <2>1. /\ pc \in Starting /\ waiting = g /\ waiting' = None /\ UNCHANGED <<children, outcome>>
        /\ \/ pc = "boot" /\ pc' = "bootRollback" /\ todo' = TerminationOrder
           \/ pc = "restart" /\ pc' \in {"restartRollback", "tolerance"}
    BY <1>9 DEF StartFails, AbortStart
  <2>2. \/ \E p \in {"failing", "completing"} : phase' = [phase EXCEPT ![g] = p] /\ UNCHANGED owner
        \/ /\ phase' = [phase EXCEPT ![g] = "free"]
           /\ owner' = [owner EXCEPT ![g] = None]
    BY <1>9 DEF StartFails, LeaveBehind
  <2>3. ~Up(g)' /\ \A h \in Goroutine : h # g => phase'[h] = phase[h] /\ owner'[h] = owner[h]
    BY <1>0, <2>2
  <2>4. CASE pc = "boot"
    <3>1. ASSUME NEW h \in Goroutine, Up(h)'
          PROVE  /\ children'[owner'[h]] = h /\ phase'[h] # "starting"
                 /\ \E i \in 1 .. Len(todo') : todo'[i] = owner'[h]
      <4>1. h # g /\ Up(h)
        BY <2>3, <3>1
      <4>2. children[owner[h]] = h /\ owner[h] \in Child /\ phase[h] # "starting"
        BY <1>0, <2>1, <2>4, <4>1 DEF OwnerKnown
      <4> QED
        BY <1>0, <1>orders, <2>1, <2>3, <2>4, <4>1, <4>2
    <3>2. \A h \in Goroutine : phase'[h] # "starting"
      BY <3>1
    <3> QED
      BY <2>1, <2>4, <3>1, <3>2
  <2>5. CASE pc = "restart"
    BY <2>1, <2>5
  <2> QED
    BY <2>1, <2>4, <2>5
<1>10. ASSUME NEW g \in Goroutine, ReturnsWithoutNotify(g) \/ Ends(g) \/ HonorsCancel(g)
       PROVE  BootInv'
  <2>1. PICK p \in {"failing", "completing"} : phase' = [phase EXCEPT ![g] = p]
    BY <1>10 DEF ReturnsWithoutNotify, Ends, HonorsCancel, ReturnsFrom
  <2>2. /\ Up(g) /\ UNCHANGED <<pc, todo, waiting, children, owner, outcome>>
    BY <1>10 DEF ReturnsWithoutNotify, Ends, HonorsCancel, ReturnsFrom, supVars
  <2>3. ~Up(g)' /\ \A h \in Goroutine : h # g => phase'[h] = phase[h]
    BY <1>0, <2>1
  <2> QED
    BY <1>0, <2>2, <2>3
<1>11. ASSUME NEW g \in Goroutine, ChildStopped(g) \/ ChildAlreadyGone(g) \/ ShutdownTimesOut(g)
       PROVE  BootInv'
  <2>1. /\ pc \in Stopping /\ waiting = g /\ waiting' = None /\ pc' = pc /\ todo # << >>
        /\ Head(todo) \in Child /\ todo' = Tail(todo)
        /\ children' = [children EXCEPT ![Head(todo)] = None]
        /\ outcome' \in {outcome, "crashed"}
    BY <1>0, <1>11, TailFacts
    DEF ChildStopped, ChildAlreadyGone, ShutdownTimesOut, WaitIsOver, WaitingKnown, StopFails,
        TerminationFailed
  <2>2. \/ UNCHANGED <<phase, owner>> /\ (phase[g] = "free" \/ HasShutdownTimeout(Head(todo)))
        \/ /\ phase' = [phase EXCEPT ![g] = "free"]
           /\ owner' = [owner EXCEPT ![g] = None]
    BY <1>0, <1>11 DEF ChildStopped, ChildAlreadyGone, ShutdownTimesOut, Exit, LeaveBehind
  <2>3. \A c \in Child : c # Head(todo) /\ (\E i \in 1 .. Len(todo) : todo[i] = c) =>
           \E i \in 1 .. Len(todo') : todo'[i] = c
    <3>1. todo \in Seq(Child)
      BY <1>0
    <3> QED
      BY <2>1, <3>1, RestInTail, ZenonT(60)
  <2>4. CASE pc = "bootRollback"
    <3>1. children[Head(todo)] = g /\ phase[g] \notin {"starting", "running"}
      BY <1>0, <2>1, <2>4
    <3>2. ASSUME NEW h \in Goroutine, Up(h)'
          PROVE  \/ children'[owner'[h]] = h /\ \E i \in 1 .. Len(todo') : todo'[i] = owner'[h]
                 \/ phase'[h] = "stopping" /\ owner'[h] \in Timed
      <4>1. Up(h) /\ owner'[h] = owner[h] /\ phase'[h] = phase[h] /\ owner[h] \in Child
        BY <1>0, <2>2, <3>2 DEF OwnerKnown
      <4>2. CASE phase[h] = "stopping" /\ owner[h] \in Timed
        BY <4>1, <4>2
      <4>3. CASE children[owner[h]] = h /\ \E i \in 1 .. Len(todo) : todo[i] = owner[h]
        <5>1. CASE owner[h] = Head(todo)
          BY <1>0, <2>2, <3>1, <3>2, <4>1, <4>3, <5>1 DEF HasShutdownTimeout
        <5>2. CASE owner[h] # Head(todo)
          BY <1>0, <2>1, <2>3, <4>1, <4>3, <5>2
        <5> QED
          BY <5>1, <5>2
      <4> QED
        BY <2>4, <4>1, <4>2, <4>3
    <3>3. \A h \in Goroutine : phase'[h] # "starting"
      BY <1>0, <2>2, <2>4
    <3> QED
      BY <2>1, <2>4, <3>2, <3>3
  <2>5. CASE pc # "bootRollback"
    BY <2>1, <2>5
  <2> QED
    BY <2>4, <2>5
<1>12. ASSUME NEW g \in Goroutine, Receive(g) \/ PanicUnknownChild(g)
       PROVE  BootInv'
  <2>1. /\ pc = "loop" /\ pc' \in {"loop", "tolerance", "panicked"} /\ UNCHANGED outcome
    BY <1>12 DEF Receive, PanicUnknownChild, EnterRestartLoop
  <2> QED
    BY <2>1
<1> QED
  BY <1>1, <1>2, <1>3, <1>4, <1>5, <1>6, <1>7, <1>8, <1>9, <1>10, <1>11, <1>12
  DEF Next, Local, Over

\* A supervisor that fails to boot, whichever of its children fail to start, end
\* meanwhile or outlast their Timeout, leaves nothing up but a child that was
\* told to stop and did not do so in time.
THEOREM BootIsAllOrNothing == Spec => []BootAllOrNothing
<1> DEFINE Inv == TypeInv /\ ListInv /\ BootInv
<1>1. Init => Inv
  <2> SUFFICES ASSUME Init
               PROVE  ListInv /\ BootInv
    BY TypeInvInit
  <2> QED
    BY NoneIsFresh
    DEF Init, NoChildren, ListInv, MapNames, StartsListed, Restarting, Starting, BootInv,
        BuildFirst, Booting, RollingBack, BootAllOrNothing, AllFree
<1>2. Inv /\ [Next]_vars => Inv'
  <2> SUFFICES ASSUME Inv, [Next]_vars
               PROVE  Inv'
    OBVIOUS
  <2>1. Typed /\ specs \in Seq(Child)
    BY DEF TypeInv, Typed, TypeOK
  <2>2. ListedOnce
    BY SupervisorAssumption DEF TypeInv, SpecsKept, ListedOnce
  <2> QED
    BY <2>1, <2>2, TypeInvStep, HomeListed, BootInvStep
<1>3. Inv => BootAllOrNothing
  BY DEF BootInv
<1> QED
  BY <1>1, <1>2, <1>3, PTL DEF Spec
=============================================================================
