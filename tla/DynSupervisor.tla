---------------------------- MODULE DynSupervisor ----------------------------
(***************************************************************************)
(* A dynamic supervisor (internal/s/dyn_supervisor.go): a supervisor that  *)
(* boots without children and whose loop also takes messages from ctrlCh,  *)
(* and the clients that send them.  A client calls Spawn and gets a        *)
(* callback that terminates the worker; both send a message, at most for a *)
(* second, and await the answer, at most for another second.               *)
(*                                                                         *)
(* The supervisor is the one of Supervisor, with Specs = << >>.  Its loop  *)
(* gets three more places, in processMsg: "spawn" waits for the start of a *)
(* child, "discard" for the notification of a failed start, and "cancel"   *)
(* for the end of a child.                                                 *)
(***************************************************************************)
EXTENDS Supervisor

CONSTANTS
    Client,        \* goroutines that use the supervisor
    CanFailSpawn,  \* children whose first start, in a Spawn, may fail
    MaxSpecs       \* bound: children listed

ASSUME DynAssumption ==
    /\ Specs = << >>
    /\ CanFailSpawn \subseteq Child
    /\ MaxSpecs \in Nat
    /\ None \notin Client

VARIABLES
    client,   \* per client: where it is in a call, of what, and its resultChan
    serving,  \* the client whose message is processed, if it still reads
    ctrl,     \* onTerminate: "open", "sending" the error, ctrlCh "closed",
              \* and "gone" when terminateCh is closed as well
    intact    \* history: no name was spawned twice and no end was discarded
              \* in place of another

clientVars == <<client, intact>>
dynVars == <<client, serving, ctrl, intact>>
staticVars == vars

Idle == [at |-> "idle", op |-> "spawn", name |-> None, answer |-> "none"]

Listed(c) == \E i \in 1 .. Len(specs) : specs[i] = c
BeingSpawned(c) ==
    \/ pc = "spawn" /\ Head(todo) = c
    \/ \E k \in Client : client[k].op = "spawn" /\ client[k].name = c
                           /\ client[k].at \in {"sending", "awaiting"}

DynInit ==
    /\ Init
    /\ client = [k \in Client |-> Idle]
    /\ serving = None
    /\ ctrl = "open"
    /\ intact = TRUE

-----------------------------------------------------------------------------
(* The clients.  The result of a call matters for what they hold next: a   *)
(* client with op = "terminate" has the callback of the worker name.       *)

\* A call is over without a new callback: a Spawn leaves nothing behind, a
\* callback can be called again.
HangUp(r) == IF r.op = "spawn" THEN Idle ELSE [r EXCEPT !.at = "idle"]

\* A new call does not read the resultChan of the one before.
Unserved(k) == serving' = IF serving = k THEN None ELSE serving

\* GetCrashError finds nothing to receive, and Spawn goes on to send.
BeginSpawn(k, c) ==
    /\ client[k].at = "idle"
    /\ ctrl \in {"open", "closed"}
    /\ client' = [client EXCEPT ![k] = [at |-> "sending", op |-> "spawn",
                                        name |-> c, answer |-> "none"]]
    /\ intact' = (intact /\ ~Listed(c) /\ ~BeingSpawned(c))
    /\ Unserved(k)
    /\ UNCHANGED <<staticVars, ctrl>>

\* GetCrashError receives the error onTerminate waits to get rid of.
SpawnRefused(k) ==
    /\ client[k].at = "idle" /\ ctrl = "sending"
    /\ ctrl' = "closed"
    /\ UNCHANGED <<staticVars, clientVars, serving>>

\* The client calls its callback, for the first time or again.
BeginTerminate(k) ==
    /\ client[k].at = "idle" /\ client[k].op = "terminate"
    /\ client' = [client EXCEPT ![k].at = "sending"]
    /\ UNCHANGED <<staticVars, serving, ctrl, intact>>

\* A send on the closed ctrlCh panics; the callback recovers, Spawn does not.
SendOnClosed(k) ==
    /\ client[k].at = "sending" /\ ctrl \in {"closed", "gone"}
    /\ client' = [client EXCEPT ![k] = IF @.op = "spawn" THEN [Idle EXCEPT !.at = "panicked"]
                                      ELSE HangUp(@)]
    /\ UNCHANGED <<staticVars, serving, ctrl, intact>>

\* "could not talk to supervisor"
SendTimesOut(k) ==
    /\ client[k].at = "sending"
    /\ client' = [client EXCEPT ![k] = HangUp(@)]
    /\ UNCHANGED <<staticVars, serving, ctrl, intact>>

\* The client gives up on the answer: a Spawn forgets its resultChan, a
\* callback finds the late answer in it when it is called again.
AwaitTimesOut(k) ==
    /\ client[k].at = "awaiting"
    /\ client' = [client EXCEPT ![k] = HangUp(@)]
    /\ IF client[k].op = "spawn" THEN Unserved(k) ELSE UNCHANGED serving
    /\ UNCHANGED <<staticVars, ctrl, intact>>

\* A Spawn that succeeded returns the callback.
GetAnswer(k) ==
    /\ client[k].at = "awaiting" /\ client[k].answer # "none"
    /\ client' = [client EXCEPT ![k] =
           IF @.answer = "ok" THEN [@ EXCEPT !.at = "idle", !.answer = "none", !.op = "terminate"]
           ELSE HangUp([@ EXCEPT !.answer = "none"])]
    /\ UNCHANGED <<staticVars, serving, ctrl, intact>>

-----------------------------------------------------------------------------
(* The supervisor goroutine: handleCtrlMsg.                                *)

\* A resultChan has room for one answer; the supervisor never waits for it.
Put(k, a) == [client EXCEPT ![k].answer = IF @ = "none" THEN a ELSE @]
Answer(a) == client' = IF serving = None THEN client ELSE Put(serving, a)

\* The message is dealt with; the goroutine goes on at p.
GoOn(p) ==
    /\ pc' = p
    /\ todo' = << >>
    /\ waiting' = None
    /\ serving' = None
    /\ UNCHANGED <<strategy, source, erred, restartCount, ctxDone, resources,
                   outcome, ctrl>>

\* The loop receives the message of k and goes on at the place p for c.
Take(k, p) ==
    /\ pc = "loop" /\ ctrl = "open" /\ client[k].at = "sending"
    /\ pc' = p
    /\ todo' = <<client[k].name>>
    /\ serving' = k
    /\ client' = [client EXCEPT ![k].at = "awaiting"]
    /\ UNCHANGED <<specVars, source, erred, children, restartCount, ctxDone,
                   resources, outcome, reported, ctrl, intact>>

\* startChildMsg: DoStart spawns the goroutine and blocks on its startCh.
ServeSpawn(k) ==
    /\ Take(k, "spawn")
    /\ client[k].op = "spawn"
    /\ Len(specs) < MaxSpecs /\ Cardinality(Untracked) <= MaxStale
    /\ FreeGoroutines # {}
    /\ waiting' = CHOOSE g \in FreeGoroutines : TRUE
    /\ phase' = [phase EXCEPT ![waiting'] = "starting"]
    /\ owner' = [owner EXCEPT ![waiting'] = client[k].name]

\* terminateChildMsg of a child in the map: Child.Terminate cancels it.
ServeTerminate(k) ==
    /\ Take(k, "cancel")
    /\ client[k].op = "terminate" /\ children[client[k].name] # None
    /\ waiting' = children[client[k].name]
    /\ phase' = [phase EXCEPT ![waiting'] = IF @ = "running" THEN "stopping" ELSE @]
    /\ UNCHANGED owner

\* Fault: the client is left without an answer.
NotFoundUnanswered(k) == client
NotFound(k) == Put(k, "error")

\* "worker not found": it ended for good, or was terminated before.
ServeUnknown(k) ==
    /\ pc = "loop" /\ ctrl = "open" /\ client[k].at = "sending"
    /\ client[k].op = "terminate" /\ children[client[k].name] = None
    /\ client' = [NotFound(k) EXCEPT ![k].at = "awaiting"]
    /\ UNCHANGED <<staticVars, serving, ctrl, intact>>

\* Fault: the new specification is not stored.
SpecsWithout(c) == specs
SpecsWith(c) == Append(specs, c)

\* The child calls notifyStart(nil): it is listed last and enters the map.
SpawnSucceeds(g) ==
    /\ pc = "spawn" /\ waiting = g /\ phase[g] = "starting"
    /\ phase' = [phase EXCEPT ![g] = "running"]
    /\ specs' = SpecsWith(owner[g])
    /\ RecordStart(g)
    /\ Answer("ok")
    /\ GoOn("loop")
    /\ UNCHANGED <<owner, intact>>

\* Fault: the notification of the failed start is left to the loop.
AfterFailedSpawnAtOnce == "loop"
AfterFailedSpawn == "discard"

\* The start fails; the goroutine goes on to offer its end to the loop.
SpawnFails(g) ==
    /\ pc = "spawn" /\ waiting = g /\ phase[g] = "starting"
    /\ owner[g] \in CanFailSpawn
    /\ \E p \in {"failing", "completing"} : phase' = [phase EXCEPT ![g] = p]
    /\ Report(owner[g], "StartFailed")
    /\ pc' = AfterFailedSpawn
    /\ waiting' = None
    /\ UNCHANGED <<specVars, todo, source, erred, children, owner, restartCount,
                   ctxDone, resources, outcome, dynVars>>

\* <-supNotifyChan: the notification of the failed start, or of any other
\* child that has ended meanwhile.
Discard(g) ==
    /\ pc = "discard" /\ Pending(g)
    /\ Exit(g)
    /\ Answer("error")
    /\ intact' = (intact /\ owner[g] = Head(todo) /\ children[owner[g]] # g)
    /\ GoOn("loop")
    /\ UNCHANGED <<specs, children, reported>>

\* The loop of terminateChildMsg removes entry i of the array it ranges over
\* and shifts the ones after it, all in place: the range goes on over the old
\* length and panics on a match beyond the new one.
RemoveEntry(acc, i) ==
    IF acc.panic \/ acc.array[i] # acc.name THEN acc
    ELSE IF i > acc.len THEN [acc EXCEPT !.panic = TRUE]
    ELSE [acc EXCEPT
            !.len = @ - 1,
            !.array = [j \in DOMAIN @ |-> IF j \in i .. acc.len - 1 THEN @[j + 1] ELSE @[j]]]
\* Fault: the specification of a terminated child stays.
RemovalNone(c) == [name |-> c, array |-> specs, len |-> Len(specs), panic |-> FALSE]
Removal(c) ==
    LET after[i \in 0 .. Len(specs)] ==
            IF i = 0 THEN [name |-> c, array |-> specs, len |-> Len(specs), panic |-> FALSE]
            ELSE RemoveEntry(after[i - 1], i)
    IN  after[Len(specs)]

\* The child is received on its terminateCh, was received by somebody else
\* before, or does not end in time; the client is answered, then the child is
\* removed from the map and the list.
CancelFinished(g) ==
    /\ pc = "cancel" /\ waiting = g
    /\ \/ /\ Pending(g)
          /\ Exit(g)
          /\ Report(Head(todo), IF phase[g] = "failing" THEN "Failed" ELSE "Terminated")
          /\ Answer(IF phase[g] = "failing" THEN "error" ELSE "ok")
       \/ /\ phase[g] = "free"
          /\ Answer("ok")
          /\ UNCHANGED <<phase, owner, reported>>
       \/ /\ phase[g] # "free" /\ HasShutdownTimeout(Head(todo))
          /\ LeaveBehind(g, phase[g])
          /\ Report(Head(todo), "Failed")
          /\ Answer("error")
    /\ LET r == Removal(Head(todo)) IN
          /\ specs' = SubSeq(r.array, 1, r.len)
          /\ GoOn(IF r.panic THEN "panicked" ELSE "loop")
    /\ children' = IF Listed(Head(todo)) THEN [children EXCEPT ![Head(todo)] = None]
                   ELSE children
    /\ UNCHANGED intact

-----------------------------------------------------------------------------
(* The end of the supervisor goroutine: onTerminate (internal/s/root.go).  *)

CloseControl ==
    /\ pc = "dead" /\ ctrl = "open"
    /\ ctrl' = IF outcome = "ok" THEN "closed" ELSE "sending"
    /\ UNCHANGED <<staticVars, clientVars, serving>>

\* A caller of Terminate or Wait receives the error.
ErrorTaken ==
    /\ ctrl = "sending"
    /\ ctrl' = "closed"
    /\ UNCHANGED <<staticVars, clientVars, serving>>

CloseTerminate ==
    /\ ctrl = "closed"
    /\ ctrl' = "gone"
    /\ UNCHANGED <<staticVars, clientVars, serving>>

-----------------------------------------------------------------------------
DynNext ==
    \/ Next /\ UNCHANGED dynVars
    \/ CloseControl \/ ErrorTaken \/ CloseTerminate
    \/ \E k \in Client :
          \/ \E c \in Child : BeginSpawn(k, c)
          \/ SpawnRefused(k) \/ BeginTerminate(k)
          \/ SendOnClosed(k) \/ SendTimesOut(k) \/ AwaitTimesOut(k) \/ GetAnswer(k)
          \/ ServeSpawn(k) \/ ServeTerminate(k) \/ ServeUnknown(k)
    \/ \E g \in Goroutine :
          SpawnSucceeds(g) \/ SpawnFails(g) \/ Discard(g) \/ CancelFinished(g)

\* As in Supervisor, without the queue of the senders; and a client that waits
\* reads its answer.  Nothing is assumed of the timers of the clients, nor that
\* anybody takes the error.
DynFairness ==
    /\ LoopFairness
    /\ \A k \in Client : WF_<<vars, dynVars>>(GetAnswer(k))
    /\ WF_<<vars, dynVars>>(\E g \in Goroutine :
           SpawnSucceeds(g) \/ SpawnFails(g) \/ Discard(g) \/ CancelFinished(g))

DynSpec == DynInit /\ [][DynNext]_<<vars, dynVars>>
DynFairSpec == DynSpec /\ DynFairness

-----------------------------------------------------------------------------
(* Properties.                                                             *)

\* Every variable stays in its range, and processMsg knows what it is about.
DynTypeOK ==
    /\ specs \in Seq(Child) /\ Len(specs) <= MaxSpecs
    /\ pc \in Location \cup {"spawn", "discard", "cancel"}
    /\ pc \in {"spawn", "discard", "cancel"} => Len(todo) = 1
    /\ waiting # None => pc \in Starting \cup Stopping \cup {"spawn", "cancel"}
    /\ pc = "loop" => todo = << >> /\ waiting = None /\ serving = None
    /\ children \in [Child -> Goroutine \cup {None}]
    /\ phase \in [Goroutine -> Phase]
    /\ client \in [Client -> [at : {"idle", "sending", "awaiting", "panicked"},
                              op : {"spawn", "terminate"},
                              name : Child \cup {None},
                              answer : {"none", "ok", "error"}]]
    /\ serving \in Client \cup {None}
    /\ ctrl \in {"open", "sending", "closed", "gone"}
    /\ ctrl # "open" => pc = "dead"

\* A shutdown and a OneForAll restart stop what is listed: whatever else is in
\* the map would be left running by them, spawned or restarted at any time.
MapIsListed ==
    \A c \in Child : children[c] # None => Listed(c)

\* As long as the clients spawn no name twice and no failed spawn discards the
\* end of another child, a goroutine that exists is in the map under its name,
\* is being started, is the one whose failed start is being dealt with, or did
\* not end within its Timeout.
DynNoOrphan ==
    intact =>
        \A g \in Goroutine : phase[g] # "free" =>
            \/ children[owner[g]] = g
            \/ waiting = g
            \/ pc = "discard" /\ owner[g] = Head(todo) /\ Pending(g)
            \/ HasShutdownTimeout(owner[g])

\* A worker that a client terminated is forgotten: it is not listed, and so no
\* restart of the supervisor's children brings it back.
TerminatedIsForgotten ==
    (intact /\ pc = "loop" /\ ~ctxDone) =>
        \A c \in Child : reported[c] = "Terminated" => ~Listed(c)

\* A client whose message was received is answered without the help of its
\* timers, unless the supervisor goroutine panics.
Answered ==
    \A k \in Client :
        client[k].at = "awaiting" ~> (client[k].at # "awaiting" \/ pc = "panicked")

\* A dynamic supervisor that is told to terminate ends, whatever its clients
\* and their failed spawns do meanwhile.
DynTerminates == ctxDone ~> pc \in Ended
=============================================================================
