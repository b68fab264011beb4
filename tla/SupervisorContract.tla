------------------------- MODULE SupervisorContract -------------------------
(***************************************************************************)
(* What a supervisor promises to whoever started it, without its strategy, *)
(* its orders, its restart loop or its channels: children run one at a     *)
(* time under their name, it reports a successful start only when all of   *)
(* them are there, starts nothing once it is stopping, and has left        *)
(* nothing running when it is over.  Supervisor implements it for          *)
(* children that start and stop reliably (Supervisor!ImplementsContract).  *)
(***************************************************************************)
CONSTANTS Child, Goroutine

VARIABLES
    stage,    \* "starting", "up", "stopping" or "over"
    procs,    \* the goroutines that exist under each child name
    asked,    \* the supervisor was told to terminate
    verdict   \* the error it ends with

vars == <<stage, procs, asked, verdict>>

Nobody == [c \in Child |-> {}]

Init ==
    /\ stage = "starting"
    /\ procs = Nobody
    /\ asked = FALSE
    /\ verdict = "ok"

\* At boot and in any restart; never next to another one of the same name.
StartOne(c, g) ==
    /\ stage \in {"starting", "up"}
    /\ procs[c] = {}
    /\ \A d \in Child : g \notin procs[d]
    /\ procs' = [procs EXCEPT ![c] = {g}]
    /\ UNCHANGED <<stage, asked, verdict>>

\* A child is gone for good; one that fails to stop spoils a clean end.
EndOne(c) ==
    /\ procs[c] # {}
    /\ procs' = [procs EXCEPT ![c] = {}]
    /\ UNCHANGED verdict \/ (stage = "stopping" /\ verdict' = "crashed")
    /\ UNCHANGED <<stage, asked>>

ReportStarted ==
    /\ stage = "starting"
    /\ \A c \in Child : procs[c] # {}
    /\ stage' = "up"
    /\ UNCHANGED <<procs, asked, verdict>>

ReportStartFailed ==
    /\ stage = "starting"
    /\ procs = Nobody
    /\ stage' = "over"
    /\ verdict' = "startFailed"
    /\ UNCHANGED <<procs, asked>>

Ask ==
    /\ asked' = TRUE
    /\ UNCHANGED <<stage, procs, verdict>>

\* It stops because it was told to, or because it gives up.
Stop ==
    /\ stage = "up"
    /\ stage' = "stopping"
    /\ (asked /\ UNCHANGED verdict) \/ verdict' = "crashed"
    /\ UNCHANGED <<procs, asked>>

Finish ==
    /\ stage = "stopping"
    /\ procs = Nobody
    /\ stage' = "over"
    /\ UNCHANGED verdict \/ verdict' = "crashed"
    /\ UNCHANGED <<procs, asked>>

Next ==
    \/ \E c \in Child : EndOne(c) \/ \E g \in Goroutine : StartOne(c, g)
    \/ ReportStarted \/ ReportStartFailed
    \/ Ask \/ Stop \/ Finish

Spec == Init /\ [][Next]_vars

\* A supervisor that is told to terminate comes to its end.
Halts == asked ~> stage = "over"
=============================================================================
