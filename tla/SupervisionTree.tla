--------------------------- MODULE SupervisionTree ---------------------------
(***************************************************************************)
(* A supervisor one of whose children is a sub-tree: the goroutine of that *)
(* child runs a supervisor of its own (internal/s/subtree.go).  The parent *)
(* is the supervisor of Supervisor, and the supervisor inside its child    *)
(* Subtree is another instance of it, with the variables that begin with   *)
(* sub.  The steps of the two meet where the code connects them:           *)
(*                                                                         *)
(*   the parent spawns the child       run builds the nodes and boots      *)
(*   notifyStart, called by onStart    the children of the sub-tree are up *)
(*   Child.Terminate cancels the ctx   the sub-tree's ctx is done          *)
(*   the child's function returns      the sub-tree's loop has returned    *)
(*                                                                         *)
(* A sub-tree that fails to start when its parent restarts it would leave  *)
(* a goroutine behind (see Supervisor); here its start fails at boot only, *)
(* so that one incarnation of the sub-tree exists at a time.               *)
(***************************************************************************)
EXTENDS Supervisor

CONSTANTS
    Subtree,           \* the child of the parent that is a sub-tree
    SubChild,          \* the children of the sub-tree, by name
    SubSpecs,          \* in the order its buildNodes returns them
    SubStrategies,
    SubRestart,
    SubBuildCanFail,   \* its buildNodes may fail, when the tree boots
    SubCleanupCanFail,
    SubGoroutine

ASSUME TreeAssumption ==
    /\ Subtree \in Child /\ StaticChildren
    \* subtree() forces Indefinitely; run always calls notifyStart.
    /\ Subtree \notin Timed \cup CanSkipNotify
    /\ CanFailStart \subseteq {Subtree}
    \* What SupervisorAssumption asks, of a sub-tree that is not dynamic.
    /\ SubSpecs \in Seq(SubChild)
    /\ \A i, j \in 1 .. Len(SubSpecs) : SubSpecs[i] = SubSpecs[j] => i = j
    /\ \A c \in SubChild : \E i \in 1 .. Len(SubSpecs) : SubSpecs[i] = c
    /\ SubStrategies \subseteq {"OneForOne", "OneForAll"}
    /\ SubRestart \in [SubChild -> {"Permanent", "Transient", "Temporary"}]
    /\ {SubBuildCanFail, SubCleanupCanFail} \subseteq BOOLEAN
    /\ SubGoroutine \cap Goroutine = {} /\ None \notin SubChild \cup SubGoroutine

VARIABLES
    subSpecs, subStrategy, subPc, subTodo, subWaiting, subSource, subErred,
    subChildren, subPhase, subOwner, subRestartCount, subCtxDone,
    subResources, subOutcome, subReported

subVars == <<subSpecs, subStrategy, subPc, subTodo, subWaiting, subSource,
             subErred, subChildren, subPhase, subOwner, subRestartCount,
             subCtxDone, subResources, subOutcome, subReported>>
treeVars == <<vars, subVars>>

Sub == INSTANCE Supervisor WITH
    Child <- SubChild, Specs <- SubSpecs, Strategies <- SubStrategies,
    Restart <- SubRestart, Timed <- {}, CanFailStart <- {},
    CanSkipNotify <- {}, BuildCanFail <- SubBuildCanFail,
    CleanupCanFail <- SubCleanupCanFail, Goroutine <- SubGoroutine,
    specs <- subSpecs, strategy <- subStrategy, pc <- subPc, todo <- subTodo,
    waiting <- subWaiting, source <- subSource, erred <- subErred,
    children <- subChildren, phase <- subPhase, owner <- subOwner,
    restartCount <- subRestartCount, ctxDone <- subCtxDone,
    resources <- subResources, outcome <- subOutcome, reported <- subReported

TreeInit == Init /\ Sub!Init

\* The goroutine g of the parent runs the supervisor of the sub-tree.
Runs(g) == owner[g] = Subtree /\ Up(g)
SubtreeAlive == \E g \in Goroutine : Runs(g)
SubtreeReturned == subPc = "dead"

-----------------------------------------------------------------------------
(* What a step of the parent goroutine does to the sub-tree.               *)

\* run: the sub-tree begins from its specification, with new nodes, a new
\* tolerance manager and a new context.
Run ==
    /\ subPc' = "build"
    /\ subTodo' = << >>
    /\ subWaiting' = None
    /\ subSource' = None
    /\ subErred' = FALSE
    /\ subChildren' = [c \in SubChild |-> None]
    /\ subPhase' = [h \in SubGoroutine |-> "free"]
    /\ subOwner' = [h \in SubGoroutine |-> None]
    /\ subRestartCount' = 0
    /\ subCtxDone' = FALSE
    /\ subResources' = "none"
    /\ subOutcome' = "ok"
    /\ subReported' = [c \in SubChild |-> "None"]
    /\ UNCHANGED <<subSpecs, subStrategy>>

\* Fault: the sub-tree is not told to stop.
CancelIgnored == UNCHANGED subVars
\* The context of the sub-tree derives from the one of the child.
Cancel ==
    /\ subCtxDone' = TRUE
    /\ UNCHANGED <<subSpecs, subStrategy, subPc, subTodo, subWaiting, subSource,
                   subErred, subChildren, subPhase, subOwner, subRestartCount,
                   subResources, subOutcome, subReported>>

SpawnsSubtree == \E g \in Goroutine : phase[g] = "free" /\ owner'[g] = Subtree
CancelsSubtree ==
    \E g \in Goroutine : owner[g] = Subtree /\ phase[g] = "running" /\ phase'[g] = "stopping"

ParentGoes ==
    /\ Local
    /\ IF SpawnsSubtree THEN Run
       ELSE IF CancelsSubtree THEN Cancel
       ELSE UNCHANGED subVars

-----------------------------------------------------------------------------
(* The goroutine of the sub-tree, on behalf of the parent's child.         *)

\* Fault: the sub-tree says it has started when its boot begins.
StartedAtOnce == subPc = "build" /\ UNCHANGED subVars
\* onStart(nil), when the children of the sub-tree have started.
Started == subPc = "boot" /\ Sub!AllStarted

SubtreeStarts(g) == Runs(g) /\ StartSucceeds(g) /\ Started

\* onStart(err), after the rollback; run returns the error as well.
SubtreeStartFails(g) ==
    /\ Runs(g) /\ StartFails(g) /\ phase'[g] # "completing"
    /\ SubtreeReturned /\ UNCHANGED subVars

\* Fault: the error of the sub-tree's loop is lost.
ReturnValueLost == "completing"
ReturnValue == IF subOutcome = "ok" THEN "completing" ELSE "failing"

\* subtreeMain returns what the loop of the sub-tree returned.
SubtreeReturns(g) ==
    /\ Runs(g) /\ SubtreeReturned
    /\ Ends(g) \/ HonorsCancel(g)
    /\ phase'[g] = ReturnValue
    /\ UNCHANGED subVars

\* The loop of the sub-tree runs as the parent's does.
SubtreeGoes ==
    /\ SubtreeAlive /\ UNCHANGED vars
    /\ Sub!Local
    /\ subPc = "boot" => subPc' # "loop"
    /\ (subPc = "build" /\ subPc' = "dead") => pc = "boot"

Inside(SubAction) == SubtreeAlive /\ SubAction /\ UNCHANGED vars
Outside(Action) == Action /\ UNCHANGED subVars

-----------------------------------------------------------------------------
\* A worker of the parent starts, or ends.
SiblingStarts(g) ==
    owner[g] # Subtree /\ Outside(StartSucceeds(g) \/ ReturnsWithoutNotify(g))
SiblingEnds(g) == owner[g] # Subtree /\ Outside(Ends(g))
SiblingHonorsCancel(g) == owner[g] # Subtree /\ Outside(HonorsCancel(g))

TreeNext ==
    \/ ParentGoes
    \/ Outside(Shutdown) \/ Outside(BackoffCancelled)
    \/ Outside(Terminate) \/ Outside(Over)
    \/ \E g \in Goroutine :
          \/ SubtreeStarts(g) \/ SubtreeStartFails(g) \/ SubtreeReturns(g)
          \/ SiblingStarts(g) \/ SiblingEnds(g) \/ SiblingHonorsCancel(g)
          \/ Outside(ChildStopped(g) \/ ChildAlreadyGone(g) \/ ShutdownTimesOut(g))
          \/ Outside(Receive(g) \/ PanicUnknownChild(g))
    \/ SubtreeGoes
    \/ Inside(Sub!Shutdown) \/ Inside(Sub!BackoffCancelled)
    \/ \E h \in SubGoroutine :
          \/ Inside(Sub!StartSucceeds(h))
          \/ Inside(Sub!Ends(h)) \/ Inside(Sub!HonorsCancel(h))
          \/ Inside(Sub!ChildStopped(h) \/ Sub!ChildAlreadyGone(h))
          \/ Inside(Sub!Receive(h) \/ Sub!PanicUnknownChild(h))

\* Progress of Supervisor, in the parent and in the sub-tree, whose goroutine
\* returns when the loop in it has.
ParentProgress ==
    \/ ParentGoes
    \/ \E g \in Goroutine :
          \/ SiblingStarts(g) \/ SubtreeStarts(g) \/ SubtreeStartFails(g)
          \/ owner[g] \notin Timed /\ SiblingHonorsCancel(g)
          \/ Outside(ChildStopped(g) \/ ChildAlreadyGone(g) \/ ShutdownTimesOut(g))
SubtreeProgress ==
    \/ SubtreeGoes
    \/ \E g \in Goroutine : SubtreeReturns(g)
    \/ \E h \in SubGoroutine :
          \/ Inside(Sub!StartSucceeds(h)) \/ Inside(Sub!HonorsCancel(h))
          \/ Inside(Sub!ChildStopped(h) \/ Sub!ChildAlreadyGone(h))

\* What LoopFairness says of a supervisor and its workers, of both supervisors
\* and all workers, and that the end of the sub-tree is received.  Nothing else
\* is assumed of the child that is a sub-tree.
TreeFairness ==
    /\ WF_treeVars(ParentProgress)
    /\ SF_treeVars(Outside(Shutdown))
    /\ SF_treeVars(Outside(Received(Subtree)))
    /\ WF_treeVars(SubtreeProgress)
    /\ SF_treeVars(Inside(Sub!Shutdown))

TreeSpec == TreeInit /\ [][TreeNext]_treeVars
TreeFairSpec == TreeSpec /\ TreeFairness

-----------------------------------------------------------------------------
(* Properties.                                                             *)

\* Both supervisors keep their types, and what the parent's channels tell it
\* about the child is where the sub-tree really is.
TreeTypeOK ==
    /\ TypeOK /\ Sub!TypeOK /\ Sub!NeverPanics
    /\ \A g \in Goroutine : owner[g] = Subtree =>
          /\ phase[g] = "starting" =>
                 subPc \in {"build", "boot", "bootRollback"} \/ subOutcome = "startFailed"
          /\ phase[g] \in {"running", "stopping"} =>
                 subPc \notin {"build", "boot", "bootRollback"}
          /\ (phase[g] = "running" \/ phase[g] = "stopping") =>
                 (subCtxDone <=> phase[g] = "stopping")
          /\ Pending(g) => SubtreeReturned

\* Nothing of the sub-tree outlives the child it runs in: whenever the parent
\* restarts it, or ends, all of its goroutines are gone.
NothingOutlivesSubtree ==
    SubtreeAlive \/ \A h \in SubGoroutine : subPhase[h] = "free"

\* A child of the parent that the sub-tree was started after is cancelled when
\* every goroutine of the sub-tree is gone ("it will stop each child node in
\* reverse order", cap/doc.go).
WholeSubtreeFirst ==
    \A i, j \in 1 .. Len(StartOrder) :
        LET c == children[StartOrder[i]] IN
        (i < j /\ StartOrder[j] = Subtree /\ c # None /\ phase[c] = "stopping") =>
            \A h \in SubGoroutine : subPhase[h] = "free"

\* Terminate of the root ends the whole tree.
TreeTerminates ==
    ctxDone ~> (pc \in Ended /\ \A h \in SubGoroutine : subPhase[h] = "free")

\* A sub-tree that gave up runs again with all of its children, unless the
\* root ends.
SubtreeRevived ==
    (SubtreeAlive /\ subPc = "dead") ~> (pc \in Ended \/ (SubtreeAlive /\ subPc = "loop"))

\* A sub-tree is a child like any other: to its parent it behaves as a worker
\* that comes to a decision about its start and honors its cancelled context,
\* which Supervisor assumes of every child.
InPhase(p) == \E g \in Goroutine : owner[g] = Subtree /\ phase[g] = p
SubtreeIsAChild ==
    /\ Spec
    /\ InPhase("starting") ~> ~InPhase("starting")
    /\ InPhase("stopping") ~> ~InPhase("stopping")
=============================================================================
