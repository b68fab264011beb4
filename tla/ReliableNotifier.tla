--------------------------- MODULE ReliableNotifier --------------------------
(***************************************************************************)
(* The reliable notifier (internal/n/reliable_notifier.go) between the     *)
(* supervisors of a tree, which call it with their events, and the event   *)
(* notifiers of the user.  It is a supervision tree itself:                *)
(*                                                                         *)
(*   reliable-notifier      100 errors in a second                         *)
(*     entrypoint           a worker that broadcasts the events            *)
(*     notifiers            a sub-tree, the default tolerance of one error *)
(*       <name>             a worker for each notifier                     *)
(*                                                                         *)
(* What Supervisor says of such a tree is used here: a panicking worker is *)
(* restarted, at the second panic in a window the whole sub-tree is.  The  *)
(* channels belong to the nodes, which are built once, and survive.        *)
(*                                                                         *)
(* Events are told apart by their place in `stream', the order in which    *)
(* they entered the entrypoint.  Workers that do not stop in time are      *)
(* taken to hang for ever in the notifier's function.                      *)
(***************************************************************************)
EXTENDS Naturals, Sequences, FiniteSets, SequencesExt

CONSTANTS
    Publisher,           \* supervisor goroutines that notify events
    AnyEvent,            \* the events they may notify
    Notifier,            \* names of the user's notifiers
    Faulty,              \* those whose function may panic or hang
    Criterion,           \* per notifier, the events ApplyEventCriteria forwards
    BufferSizes,         \* WithEntrypointBufferSize and WithNotifierBufferSize:
                         \* the sizes that are tried; 0 makes a channel unbuffered
    MaxEvents            \* bound: events notified

ASSUME NotifierAssumption ==
    /\ Faulty \subseteq Notifier
    /\ Criterion \in [Notifier -> SUBSET AnyEvent]
    /\ BufferSizes \subseteq Nat
    /\ MaxEvents \in Nat

VARIABLES
    settings,    \* notifierSettings
    publishing,  \* per publisher: the event it is sending to entrypointCh
    stream,      \* history: the events that entered entrypointCh
    entry,       \* entrypointCh
    broadcast,   \* the event the entrypoint has in hand, or 0
    targets,     \* the notifiers it has still to send it to
    queue,       \* notifierChans
    worker,      \* per notifier: "select", "notify", "panicked", "stopped"
    hand,        \* per notifier: the event its worker has received, or 0
    restarts,    \* restartCount of the notifiers sub-tree
    tree,        \* the root: "up", "stopping" or "stopped"
    got,         \* history: per notifier, the events its function returned from
    lost         \* history: per notifier, the events it was skipped for, or
                 \* did not finish

entryVars == <<stream, entry, broadcast, targets>>
workerVars == <<queue, worker, hand, got>>
treeVars == <<settings, restarts, tree>>
notifierVars == <<publishing, entryVars, workerVars, treeVars, lost>>

Nothing == [tag |-> "none"]
SubtreeTolerance == INSTANCE Tolerance WITH MaxRestartCount <- 1, CountLimit <- 16

NotifierInit ==
    /\ settings \in [entrypointBufferSize : BufferSizes, notifierBufferSize : BufferSizes]
    /\ publishing = [p \in Publisher |-> Nothing]
    /\ stream = << >> /\ entry = << >>
    /\ broadcast = 0 /\ targets = {}
    /\ queue = [n \in Notifier |-> << >>]
    /\ worker = [n \in Notifier |-> "select"]
    /\ hand = [n \in Notifier |-> 0]
    /\ restarts = 0
    /\ tree = "up"
    /\ got = [n \in Notifier |-> << >>]
    /\ lost = [n \in Notifier |-> {}]

-----------------------------------------------------------------------------
(* The supervisors of the observed tree.                                   *)

Notify(p, ev) ==
    /\ publishing[p] = Nothing
    /\ Len(stream) + Cardinality({q \in Publisher : publishing[q] # Nothing}) < MaxEvents
    /\ publishing' = [publishing EXCEPT ![p] = ev]
    /\ UNCHANGED <<entryVars, workerVars, treeVars, lost>>

HasRoom(ch, size) == Len(ch) < size

\* The entrypoint worker is at its select.
EntrypointListens == tree # "stopped" /\ broadcast = 0

\* The event enters entrypointCh when there is room, or is handed to the
\* entrypoint if the channel has no buffer; until then the supervisor is blocked.
Enter(p) ==
    /\ publishing[p] # Nothing
    /\ stream' = Append(stream, publishing[p])
    /\ publishing' = [publishing EXCEPT ![p] = Nothing]
    /\ \/ /\ HasRoom(entry, settings.entrypointBufferSize)
          /\ entry' = Append(entry, Len(stream'))
          /\ UNCHANGED <<broadcast, targets>>
       \/ /\ settings.entrypointBufferSize = 0 /\ EntrypointListens
          /\ broadcast' = Len(stream') /\ targets' = Notifier
          /\ UNCHANGED entry
    /\ UNCHANGED <<workerVars, treeVars, lost>>

-----------------------------------------------------------------------------
(* The entrypoint worker: runEntrypointListener.                           *)

TakeEntry ==
    /\ EntrypointListens /\ entry # << >>
    /\ broadcast' = Head(entry)
    /\ entry' = Tail(entry)
    /\ targets' = Notifier
    /\ UNCHANGED <<publishing, stream, workerVars, treeVars, lost>>

TargetDone(n) ==
    /\ n \in targets
    /\ targets' = targets \ {n}
    /\ broadcast' = IF targets' = {} THEN 0 ELSE broadcast

\* The notifier's channel has room, or its worker is there to take the event.
Offer(n) ==
    /\ TargetDone(n)
    /\ \/ /\ HasRoom(queue[n], settings.notifierBufferSize)
          /\ queue' = [queue EXCEPT ![n] = Append(@, broadcast)]
          /\ UNCHANGED <<worker, hand>>
       \/ /\ settings.notifierBufferSize = 0 /\ worker[n] = "select"
          /\ worker' = [worker EXCEPT ![n] = "notify"]
          /\ hand' = [hand EXCEPT ![n] = broadcast]
          /\ UNCHANGED queue
    /\ UNCHANGED <<publishing, stream, entry, got, treeVars, lost>>

\* Fault: the entrypoint waits for a notifier as long as it takes.
TimerFiresNever(n) == FALSE
\* At any time: the select may pick the timer although there is room.
TimerFires(n) == TRUE

\* onNotifierTimeout is called and the notifier is skipped.
SkipNotifier(n) ==
    /\ TargetDone(n)
    /\ TimerFires(n)
    /\ lost' = [lost EXCEPT ![n] = @ \cup {broadcast}]
    /\ UNCHANGED <<publishing, stream, entry, workerVars, treeVars>>

-----------------------------------------------------------------------------
(* The workers of the notifiers.                                           *)

Receive(n) ==
    /\ worker[n] = "select" /\ queue[n] # << >>
    /\ worker' = [worker EXCEPT ![n] = "notify"]
    /\ hand' = [hand EXCEPT ![n] = Head(queue[n])]
    /\ queue' = [queue EXCEPT ![n] = Tail(@)]
    /\ UNCHANGED <<publishing, entryVars, got, treeVars, lost>>

Accepts(n) == hand[n] # 0 /\ stream[hand[n]] \in Criterion[n]

\* notifierFn returns; without an effect if the criterion rejects the event.
NotifierReturns(n) ==
    /\ worker[n] = "notify"
    /\ worker' = [worker EXCEPT ![n] = "select"]
    /\ hand' = [hand EXCEPT ![n] = 0]
    /\ got' = IF Accepts(n) THEN [got EXCEPT ![n] = Append(@, hand[n])] ELSE got
    /\ UNCHANGED <<publishing, entryVars, queue, treeVars, lost>>

\* Fault: the event in hand goes back to the end of the queue.
LoseEventRequeued(n) ==
    /\ queue' = [queue EXCEPT ![n] = Append(@, hand[n])]
    /\ UNCHANGED lost
LoseEvent(n) ==
    /\ lost' = [lost EXCEPT ![n] = @ \cup {hand[n]}]
    /\ UNCHANGED queue

\* notifierFn panics: the event in hand is gone.
NotifierPanics(n) ==
    /\ n \in Faulty /\ worker[n] = "notify" /\ Accepts(n)
    /\ worker' = [worker EXCEPT ![n] = "panicked"]
    /\ hand' = [hand EXCEPT ![n] = 0]
    /\ LoseEvent(n)
    /\ UNCHANGED <<publishing, entryVars, got, treeVars>>

-----------------------------------------------------------------------------
(* The supervisors of the reliable notifier.                               *)

\* The panic is within the tolerance of the sub-tree.
RestartWorker(n) ==
    /\ tree = "up" /\ worker[n] = "panicked"
    /\ \E within \in BOOLEAN :
          /\ restarts = 0 => within
          /\ SubtreeTolerance!Check(restarts, within) # "surpassed"
          /\ restarts' = SubtreeTolerance!CountAfter(
                             restarts, SubtreeTolerance!Check(restarts, within))
    /\ worker' = [worker EXCEPT ![n] = "select"]
    /\ UNCHANGED <<publishing, entryVars, queue, hand, got, settings, tree, lost>>

\* Fault: the workers get new channels, as in the nodes of a BuildNodesFn.
KeptQueuesRebuilt == [n \in Notifier |-> << >>]
KeptQueues == queue

\* Fault: only the worker that panicked runs again.
RevivedOnlyPanicked == {n \in Notifier : worker[n] = "panicked"}
Revived == Notifier

\* A worker is stopped, the entrypoint aside: it hangs and is left behind, or
\* it is waiting in its select.
Stoppable(n) == worker[n] # "notify" \/ n \in Faulty
LeftBehind == [n \in Notifier |-> IF hand[n] = 0 THEN {} ELSE {hand[n]}]
StopWorkers ==
    /\ \A n \in Notifier : Stoppable(n)
    /\ hand' = [n \in Notifier |-> 0]
    /\ lost' = [n \in Notifier |-> lost[n] \cup LeftBehind[n]]

\* The sub-tree gives up; onReliableNotifierFailure is called, and the root
\* starts all the workers again.  Or it gives up too: its count, 100 failures in
\* a second, is left out, and any failure may be the one too many.
SubtreeGivesUp ==
    /\ tree = "up"
    /\ \E n \in Notifier : worker[n] = "panicked"
    /\ SubtreeTolerance!Check(restarts, TRUE) = "surpassed"
    /\ StopWorkers
    /\ queue' = KeptQueues
    /\ UNCHANGED <<publishing, entryVars, settings, got>>

RestartSubtree ==
    /\ SubtreeGivesUp
    /\ worker' = [n \in Notifier |-> IF n \in Revived THEN "select" ELSE "stopped"]
    /\ restarts' = 0
    /\ UNCHANGED tree

RootGivesUp ==
    /\ SubtreeGivesUp
    /\ tree' = "stopping"
    /\ worker' = [n \in Notifier |-> "stopped"]
    /\ UNCHANGED restarts

\* The cancel function of NewReliableNotifier terminates the root, which stops
\* the sub-tree first; what is queued is never read.
CancelNotifier ==
    /\ tree = "up"
    /\ StopWorkers
    /\ tree' = "stopping"
    /\ worker' = [n \in Notifier |-> "stopped"]
    /\ UNCHANGED <<publishing, entryVars, queue, settings, restarts, got>>

\* The entrypoint sees that its context is done, between two events.
StopEntrypoint ==
    /\ tree = "stopping" /\ EntrypointListens
    /\ tree' = "stopped"
    /\ UNCHANGED <<publishing, entryVars, workerVars, settings, restarts, lost>>

Entrypoint == TakeEntry \/ \E n \in Notifier : Offer(n) \/ SkipNotifier(n)
Supervision == RestartSubtree \/ RootGivesUp \/ StopEntrypoint \/ \E n \in Notifier : RestartWorker(n)

-----------------------------------------------------------------------------
(* Properties.                                                             *)

\* A notifier sees the events in the order in which they were notified,
\* whatever panics and restarts come between.
OrderKept ==
    \A n \in Notifier : \A i, j \in 1 .. Len(got[n]) : i < j => got[n][i] < got[n][j]

\* No event is lost in silence: one the entrypoint has sent is in the queue or
\* the hand of the notifier, was handled, was rejected by its criterion, or was
\* lost to a timeout, a panic or a hung function; and only one of these.
SentTo(n) ==
    {i \in 1 .. Len(stream) :
        /\ \A k \in 1 .. Len(entry) : entry[k] # i
        /\ ~(broadcast = i /\ n \in targets)}
Places(n, i) ==
    <<i \in ToSet(queue[n]), hand[n] = i, i \in ToSet(got[n]), i \in lost[n]>>
NothingLostSilently ==
    \A n \in Notifier : \A i \in SentTo(n) :
        LET occupied == {k \in 1 .. 4 : Places(n, i)[k]} IN
        \/ Cardinality(occupied) = 1
        \/ occupied = {} /\ stream[i] \notin Criterion[n]

\* A supervisor is not blocked by a notifier that hangs or panics, as long as
\* the reliable notifier runs.
PublisherReleased ==
    \A p \in Publisher : (publishing[p] # Nothing) ~> (publishing[p] = Nothing \/ tree # "up")

\* A notifier that does its work gets what was queued for it, whatever the
\* others do.
PromptNotifierServed ==
    \A n \in Notifier \ Faulty : \A i \in 1 .. MaxEvents :
        (i \in ToSet(queue[n])) ~> (i \notin ToSet(queue[n]) \/ tree # "up")
=============================================================================
