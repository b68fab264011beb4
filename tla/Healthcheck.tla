----------------------------- MODULE Healthcheck -----------------------------
(***************************************************************************)
(* HealthcheckMonitor (internal/s/healthcheck.go): an event notifier that  *)
(* remembers the last failure of every process that was not started since. *)
(* Its two operations run under one lock each.                             *)
(*                                                                         *)
(* failedEvs is a set of pairs of a name and the identity of an event; at  *)
(* most one pair has a name.  Whether a failure is older than              *)
(* maxAllowedRestartDuration depends on the clock: `late' is the set of    *)
(* the events for which it is.                                             *)
(***************************************************************************)
EXTENDS Naturals, FiniteSets

CONSTANT MaxAllowedFailures

ASSUME HealthcheckAssumption == MaxAllowedFailures \in Nat

Forget(failedEvs, name) == {f \in failedEvs : f.name # name}

\* Fault: a process is not forgotten when it starts again.
HandleStartedIgnored(failedEvs, name) == failedEvs
HandleStarted(failedEvs, name) == Forget(failedEvs, name)

HandleEvent(failedEvs, id, ev) ==
    IF ev.tag = "ProcessFailed"
    THEN Forget(failedEvs, ev.name) \cup {[name |-> ev.name, id |-> id]}
    ELSE IF ev.tag = "ProcessStarted" THEN HandleStarted(failedEvs, ev.name)
    ELSE failedEvs

\* Fault: one more is let pass.
TooManyOneLate(failedEvs) == Cardinality(failedEvs) > MaxAllowedFailures + 1
TooMany(failedEvs) == Cardinality(failedEvs) > MaxAllowedFailures

GetHealthReport(failedEvs, late) ==
    [failedProcesses |-> IF TooMany(failedEvs) THEN {f.name : f \in failedEvs} ELSE {},
     delayedRestartProcesses |-> {f.name : f \in {d \in failedEvs : d.id \in late}}]

IsHealthyReport(report) ==
    report.failedProcesses = {} /\ report.delayedRestartProcesses = {}
=============================================================================
