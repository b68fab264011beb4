------------------------------ MODULE Tolerance ------------------------------
(***************************************************************************)
(* The decision a supervisor takes on every counted error                  *)
(* (internal/s/restart_tolerance.go) and what it does to the error counter *)
(* (restartToleranceManager, internal/s/supervisor.go).  The counter is a  *)
(* uint32; CountLimit is 2^32 in the code and smaller in the instances.    *)
(***************************************************************************)
EXTENDS Naturals

CONSTANTS
    MaxRestartCount,   \* restartTolerance.MaxRestartCount
    CountLimit         \* number of values of the counter's unsigned type

ASSUME ToleranceAssumption ==
    /\ CountLimit \in Nat \ {0}
    /\ MaxRestartCount \in Nat
    /\ MaxRestartCount < CountLimit

NextCount(count) == (count + 1) % CountLimit

\* Fault: the error at hand is not counted.
CheckOneLate(count, within) ==
    IF ~within THEN "reset"
    ELSE IF MaxRestartCount = 0 \/ MaxRestartCount < count
         THEN "surpassed"
         ELSE "inc"
\* restartTolerance.check; `within' is the result of isWithinRestartWindow.
Check(count, within) ==
    IF ~within THEN "reset"
    ELSE IF MaxRestartCount = 0 \/ MaxRestartCount < NextCount(count)
         THEN "surpassed"
         ELSE "inc"

\* The counter after checkToleranceExceeded acted on the verdict.
CountAfter(count, verdict) ==
    IF verdict = "surpassed" THEN count
    ELSE IF verdict = "inc" THEN NextCount(count)
    ELSE 1
=============================================================================
