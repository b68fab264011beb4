---------------------------- MODULE EventCriteria ----------------------------
(***************************************************************************)
(* Events (internal/s/event.go), the criteria that select among them       *)
(* (internal/n/crit.go) and the matching of recorded events by the tests   *)
(* of a supervision system (smtest/asserters.go, smtest/eventp.go).        *)
(*                                                                         *)
(* A criterion or predicate is the set of the events it accepts.  A name   *)
(* is a sequence of symbols, the separator "/" among them, cut so that a   *)
(* prefix of the string is a prefix of the sequence.                       *)
(***************************************************************************)
EXTENDS Naturals, Sequences, SequencesExt

CONSTANT Name  \* runtime names

Tag == {"ProcessStarted", "ProcessTerminated", "ProcessStartFailed",
        "ProcessFailed", "ProcessCompleted"}
EventRecord == [tag : Tag, nodeTag : {"Worker", "Supervisor"}, name : Name,
                err : {"none", "restartTolerance", "other"}]

-----------------------------------------------------------------------------
EAnd(crits) == FoldLeft(LAMBDA acc, crit : acc \cap crit, EventRecord, crits)
EOr(crits) ==
    IF crits = << >> THEN EventRecord
    ELSE FoldLeft(LAMBDA acc, crit : acc \cup crit, {}, crits)
ENot(crit) == EventRecord \ crit

\* strings.HasPrefix: the names of the sub-tree, and any other that begins so.
EInSubtree(name) == {ev \in EventRecord : IsPrefix(name, ev.name)}
EHasNameSuffix(suffix) == {ev \in EventRecord : IsSuffix(suffix, ev.name)}
EHasRuntimeName(name) == {ev \in EventRecord : ev.name = name}

EIsFailure == {ev \in EventRecord : ev.tag = "ProcessFailed"}
EIsWorkerFailure == {ev \in EIsFailure : ev.nodeTag = "Worker"}
\* errors.As finds a SupervisorRestartError at any depth of the error.
EIsSupervisorRestartError ==
    {ev \in EIsFailure : ev.nodeTag = "Supervisor" /\ ev.err = "restartTolerance"}

-----------------------------------------------------------------------------
(* smtest: preds and given are sequences of predicates and of events.      *)

AndP(preds) == EAnd(preds)
OrP(preds) == EOr(preds)

\* verifyExactMatch returns no error.
VerifyExactMatch(preds, given) ==
    /\ Len(preds) = Len(given)
    /\ \A i \in 1 .. Len(preds) : given[i] \in preds[i]

\* Fault: an event may match several predicates.
MatchOneRepeatedly(preds, ev) == SelectSeq(preds, LAMBDA pred : ev \notin pred)
\* One turn of the loop: the event is passed over unless the next predicate
\* accepts it.
MatchOne(preds, ev) ==
    IF preds # << >> /\ ev \in Head(preds) THEN Tail(preds) ELSE preds

\* verifyPartialMatch: the predicates that are left without a match.
VerifyPartialMatch(preds, given) == FoldLeft(MatchOne, preds, given)
=============================================================================
