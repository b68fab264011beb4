-------------------------- MODULE RestartTolerance --------------------------
(***************************************************************************)
(* restartToleranceManager and restartBackoff (internal/s/supervisor.go,   *)
(* restart_tolerance.go) against a clock: the errors a supervisor counts,  *)
(* when they happen, how long it waits before each restart and when it     *)
(* gives up.  A supervisor that waits handles no error, so what the        *)
(* backoff does decides which errors can share a window.  The history of   *)
(* error times is what the properties are about; the code keeps only the   *)
(* counter, the begin time and the first error of a window.                *)
(***************************************************************************)
EXTENDS Backoff, Sequences

CONSTANTS
    RestartWindow,  \* restartTolerance.RestartWindow in ticks; 0: forever
    Bases,          \* values of restartBackoff.base
    Maxima,         \* values of restartBackoff.max
    MaxTime         \* bound on the clock

ASSUME RestartToleranceAssumption ==
    /\ RestartWindow \in Nat
    /\ MaxTime \in Nat
    /\ Bases \cup Maxima \subseteq Duration \cap Nat
    /\ MaxRestartCount + 1 < CountLimit

VARIABLES
    now,           \* the clock
    base,          \* restartBackoff.base
    max,           \* restartBackoff.max
    restartCount,  \* mgr.restartCount
    sourceErr,     \* index of mgr.sourceErr in errors; 0: restartBeginTime unset
    previous,      \* history: index of the source error of the window before
    errors,        \* history: the time of every error, in order
    gaveUp,        \* checkToleranceExceeded returned false
    resumeAt       \* the time at which the last restart happens

countVars == <<restartCount, sourceErr, previous, errors, gaveUp>>
vars == <<now, base, max, countVars, resumeAt>>

Init ==
    /\ now = 0
    /\ base \in Bases
    /\ max \in Maxima
    /\ restartCount = 0
    /\ sourceErr = 0
    /\ previous = 0
    /\ errors = << >>
    /\ gaveUp = FALSE
    /\ resumeAt = 0

Tick ==
    /\ ~gaveUp
    /\ now < MaxTime
    /\ now' = now + 1
    /\ UNCHANGED <<base, max, countVars, resumeAt>>

\* execRestartLoop waits only for a positive duration.
Resume(count) ==
    LET wait == duration(base, max, count)
    IN  resumeAt' = IF wait > 0 THEN now + wait ELSE now

\* Fault: an error exactly at the end of the window is still counted to it.
IsWithinLongWindow(begin) == now - begin <= RestartWindow \/ RestartWindow = 0
\* restartTolerance.isWithinRestartWindow
IsWithinRestartWindow(begin) == now - begin < RestartWindow \/ RestartWindow = 0

\* The end of a child with an error, or a failed restart, happens now, and the
\* supervisor is not waiting: checkToleranceExceeded, then the backoff.
CheckToleranceExceeded ==
    /\ ~gaveUp
    /\ now >= resumeAt
    /\ errors' = Append(errors, now)
    /\ LET opening == IF sourceErr = 0 THEN Len(errors') ELSE sourceErr
           verdict == Check(restartCount, IsWithinRestartWindow(errors'[opening]))
       IN  /\ gaveUp' = (verdict = "surpassed")
           /\ restartCount' = CountAfter(restartCount, verdict)
           /\ sourceErr' = IF verdict = "reset" THEN Len(errors') ELSE opening
           /\ previous' = IF verdict = "reset" THEN sourceErr ELSE previous
    /\ IF gaveUp' THEN UNCHANGED resumeAt ELSE Resume(restartCount')
    /\ UNCHANGED <<now, base, max>>

\* The restart of a Permanent child that completed is not counted, but waits.
RestartCompleted ==
    /\ ~gaveUp
    /\ now >= resumeAt
    /\ Resume(restartCount)
    /\ UNCHANGED <<now, base, max, countVars>>

\* The supervisor that gave up asks no more; the clock of the model ends.
Over == (gaveUp \/ now = MaxTime) /\ UNCHANGED vars

Next == Tick \/ CheckToleranceExceeded \/ RestartCompleted \/ Over

Spec == Init /\ [][Next]_vars

-----------------------------------------------------------------------------
\* Types of what the error handler keeps: the counter never exceeds its
\* maximum, and the history is in the order of time.
CountTypeOK ==
    /\ now \in 0 .. MaxTime
    /\ restartCount \in 0 .. MaxRestartCount
    /\ errors \in Seq(0 .. MaxTime)
    /\ sourceErr \in 0 .. Len(errors)
    /\ previous \in 0 .. Len(errors)
    /\ gaveUp \in BOOLEAN
    /\ \A i, j \in 1 .. Len(errors) : i <= j => errors[i] <= errors[j] /\ errors[j] <= now

\* The types of all variables.
TypeOK ==
    /\ CountTypeOK
    /\ base \in Bases
    /\ max \in Maxima
    /\ resumeAt \in Nat

\* A supervisor gives up only when more than MaxRestartCount errors really
\* happened within one window: the last MaxRestartCount + 1 of them.
GiveUpJustified ==
    gaveUp =>
        /\ Len(errors) > MaxRestartCount
        /\ \/ RestartWindow = 0
           \/ errors[Len(errors)] - errors[Len(errors) - MaxRestartCount] < RestartWindow

\* Tolerance is bounded: no more than twice MaxRestartCount errors within a
\* window, wherever the window is put, are tolerated.  The window begins with
\* the first error that is counted (restartBeginTime), and the counter starts
\* again when it is over: a span of the same length that straddles two windows
\* may have the errors of both.  DocumentedTolerance is what was promised.
ToleratedBound ==
    (~gaveUp /\ MaxRestartCount > 0) =>
        \A i \in 1 .. Len(errors) :
            i + 2 * MaxRestartCount <= Len(errors) =>
                /\ RestartWindow > 0
                /\ errors[i + 2 * MaxRestartCount] - errors[i] >= RestartWindow

\* What the documentation says of WithRestartTolerance(10, 5 * time.Second):
\* "if there is 11 errors in a 5 second window, it makes the supervisor fail"
\* (supervisor_options.go:84).  One error more than MaxRestartCount within any
\* span of RestartWindow is not tolerated.
DocumentedTolerance ==
    ~gaveUp =>
        \A i \in 1 .. Len(errors) :
            i + MaxRestartCount <= Len(errors) =>
                /\ RestartWindow > 0
                /\ errors[i + MaxRestartCount] - errors[i] >= RestartWindow

Smaller(m, n) == IF m < n THEN m ELSE n

\* Unless a wait overflows a Duration, a restart after the n-th error of a
\* window comes no sooner than min(base * 2^(n - 1), max) after it: so much
\* later than the error before happens the next one.
RestartsSpaced ==
    (~gaveUp /\ sourceErr > 0) =>
        \A i \in sourceErr .. Len(errors) - 1 :
            base * 2^(i - sourceErr) \in Duration =>
                errors[i + 1] - errors[i] >= Smaller(base * 2^(i - sourceErr), max)

\* The backoff never holds a supervisor up for longer than its maximum, nor
\* before the first error: there the exponent 0 - 1 wraps to the largest
\* uint32, which shifts the one out of the word.
WaitBounded ==
    /\ resumeAt <= now + max
    /\ errors = << >> => resumeAt <= now
=============================================================================
