---------------------------- MODULE Termination ----------------------------
(***************************************************************************)
(* How the callers of Supervisor.Terminate, Wait and GetCrashError learn   *)
(* the end of a root supervisor (internal/s/supervisor.go, root.go): the   *)
(* supervisor goroutine runs onTerminate, the callers meet it on           *)
(* terminateCh and record the result in the terminationManager, which is   *)
(* guarded by a mutex.  Every lock section is one step.                    *)
(***************************************************************************)
EXTENDS FiniteSets

CONSTANTS
    Terminator,   \* callers of Terminate
    Waiter,       \* callers of Wait
    Prober,       \* callers of GetCrashError, which does not block
    NoError,      \* nil
    SupError      \* the error the supervisor may end with

ASSUME TerminationAssumption == NoError # SupError

Client == Terminator \cup Waiter \cup Prober
Error == {NoError, SupError}

VARIABLES
    ctxDone,       \* supCtx was cancelled
    sup,           \* where the supervisor goroutine is
    supErr,        \* the error it ended with
    ctrlOpen,      \* ctrlCh is not closed
    termOpen,      \* terminateCh is not closed
    terminated,    \* terminationManager.terminated
    terminateErr,  \* terminationManager.terminateErr
    call,          \* where each client is in its call
    result,        \* what each client read, and returns in the end
    events         \* which supervisor events were notified

vars == <<ctxDone, sup, supErr, ctrlOpen, termOpen, terminated, terminateErr,
          call, result, events>>

supVars == <<sup, supErr, ctrlOpen, termOpen>>
managerVars == <<terminated, terminateErr>>

Init ==
    /\ ctxDone = FALSE
    /\ sup = "running"
    /\ supErr = NoError
    /\ ctrlOpen = TRUE
    /\ termOpen = TRUE
    /\ terminated = FALSE
    /\ terminateErr = NoError
    /\ call = [c \in Client |-> "idle"]
    /\ result = [c \in Client |-> NoError]
    /\ events = {}

-----------------------------------------------------------------------------
(* The supervisor goroutine.                                               *)

\* Fault: the error is sent only if somebody is waiting already.
AfterMonitorUnsent(err) == "closing"
\* onTerminate blocks in a send of a non-nil error.
AfterMonitor(err) == IF err = NoError THEN "closing" ELSE "sending"

\* The monitor loop ends because it was told to, possibly with termination
\* errors, or with an error because the tolerance was surpassed.
MonitorEnds ==
    /\ sup = "running"
    /\ \/ ctxDone /\ supErr' = NoError
       \/ supErr' = SupError
    /\ sup' = AfterMonitor(supErr')
    /\ UNCHANGED <<ctxDone, ctrlOpen, termOpen, managerVars, call, result, events>>

\* close(ctrlCh) and close(terminateCh) at the end of onTerminate.
CloseControl ==
    /\ sup = "closing"
    /\ ctrlOpen' = FALSE
    /\ sup' = "closingTerminate"
    /\ UNCHANGED <<ctxDone, supErr, termOpen, managerVars, call, result, events>>

\* Fault: terminateCh is not closed.
CloseTerminateForgotten ==
    /\ sup = "closingTerminate"
    /\ sup' = "gone"
    /\ UNCHANGED <<ctxDone, supErr, ctrlOpen, termOpen, managerVars, call, result,
                   events>>
CloseTerminate ==
    /\ sup = "closingTerminate"
    /\ termOpen' = FALSE
    /\ sup' = "gone"
    /\ UNCHANGED <<ctxDone, supErr, ctrlOpen, managerVars, call, result, events>>

-----------------------------------------------------------------------------
(* The callers.                                                            *)

Begin(c) ==
    /\ call[c] = "idle"
    /\ call' = [call EXCEPT ![c] = "checking"]
    /\ ctxDone' = (ctxDone \/ c \in Terminator)
    /\ UNCHANGED <<supVars, managerVars, result, events>>

\* getTerminateErr
GetTerminateErr(c) ==
    /\ call[c] = "checking"
    /\ IF terminated
       THEN /\ result' = [result EXCEPT ![c] = terminateErr]
            /\ call' = [call EXCEPT ![c] = "done"]
       ELSE /\ call' = [call EXCEPT ![c] = "receiving"]
            /\ UNCHANGED result
    /\ UNCHANGED <<ctxDone, supVars, managerVars, events>>

\* The error meets the supervisor blocked in terminateCh <- err.
ReceiveError(c) ==
    /\ call[c] = "receiving" /\ sup = "sending"
    /\ result' = [result EXCEPT ![c] = supErr]
    /\ call' = [call EXCEPT ![c] = "storing"]
    /\ sup' = "closing"
    /\ UNCHANGED <<ctxDone, supErr, ctrlOpen, termOpen, managerVars, events>>

\* A receive from the closed terminateCh yields nil.
ReceiveClosed(c) ==
    /\ call[c] = "receiving" /\ ~termOpen
    /\ result' = [result EXCEPT ![c] = NoError]
    /\ call' = [call EXCEPT ![c] = "storing"]
    /\ UNCHANGED <<ctxDone, supVars, managerVars, events>>

\* GetCrashError: the default case of its select.
StillRunning(c) ==
    /\ call[c] = "receiving" /\ c \in Prober
    /\ sup # "sending" /\ termOpen
    /\ call' = [call EXCEPT ![c] = "idle"]
    /\ UNCHANGED <<ctxDone, supVars, managerVars, result, events>>

\* setTerminationErr
SetTerminationErr(c) ==
    /\ call[c] = "storing"
    /\ terminated' = TRUE
    /\ terminateErr' = result[c]
    /\ call' = [call EXCEPT ![c] = "notifying"]
    /\ UNCHANGED <<ctxDone, supVars, result, events>>

\* supervisorFailed or supervisorTerminated
Notify(c) ==
    /\ call[c] = "notifying"
    /\ events' = events \cup {IF result[c] = NoError THEN "Terminated" ELSE "Failed"}
    /\ call' = [call EXCEPT ![c] = "done"]
    /\ UNCHANGED <<ctxDone, supVars, managerVars, result>>

\* Everybody has an answer.
Over ==
    /\ \A c \in Client : call[c] = "done"
    /\ UNCHANGED vars

-----------------------------------------------------------------------------
ClientStep(c) ==
    \/ GetTerminateErr(c) \/ ReceiveError(c) \/ ReceiveClosed(c)
    \/ StillRunning(c) \/ SetTerminationErr(c) \/ Notify(c)

Next ==
    \/ MonitorEnds \/ CloseControl \/ CloseTerminate
    \/ \E c \in Client : Begin(c) \/ ClientStep(c)
    \/ Over

\* The supervisor goroutine obeys its context; a caller that is in a call goes
\* on, and a receive waiting for ever is picked.
Fairness ==
    /\ WF_vars(ctxDone /\ MonitorEnds)
    /\ WF_vars(CloseControl)
    /\ WF_vars(CloseTerminate)
    /\ \A c \in Client : WF_vars(ClientStep(c))

Spec == Init /\ [][Next]_vars
FairSpec == Spec /\ Fairness

-----------------------------------------------------------------------------
\* Types, and onTerminate closes the control channel, then terminateCh.
TypeOK ==
    /\ {ctxDone, ctrlOpen, termOpen, terminated} \subseteq BOOLEAN
    /\ sup \in {"running", "sending", "closing", "closingTerminate", "gone"}
    /\ {supErr, terminateErr} \subseteq Error
    /\ call \in [Client -> {"idle", "checking", "receiving", "storing",
                            "notifying", "done"}]
    /\ result \in [Client -> Error]
    /\ events \subseteq {"Failed", "Terminated"}
    /\ ctrlOpen <=> sup \notin {"closingTerminate", "gone"}
    /\ termOpen <=> sup # "gone"

\* The error a supervisor ends with is not lost: once every call has returned,
\* one of them returned it, and it was announced to the event notifier.
ErrorDelivered ==
    (supErr = SupError /\ \A c \in Client : call[c] = "done") =>
        /\ \E c \in Client : result[c] = SupError
        /\ "Failed" \in events

\* A supervisor that was told to terminate answers everybody who asks.
EverybodyAnswered ==
    \A c \in Terminator \cup Waiter :
        (ctxDone /\ call[c] = "checking") ~> call[c] = "done"

\* What the terminationManager is for (supervisor.go, setTerminationErr
\* "registers the final state of a Supervisor"): once every call has returned,
\* the state it tracks is the one the supervisor ended in.  The code does not
\* keep this: a caller that received nil may store it over the error.
FinalStateKept ==
    (\A c \in Client : call[c] = "done") => terminateErr = supErr
=============================================================================
