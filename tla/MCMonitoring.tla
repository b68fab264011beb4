---------------------------- MODULE MCMonitoring -----------------------------
(* Values for the constants of Monitoring that a .cfg cannot write down: a  *)
(* worker and a sub-tree, one of whose names is a prefix of the other.      *)
EXTENDS Monitoring, TLC

CONSTANTS health, user

Db == <<"root", "/", "db">>
Db2 == <<"root", "/", "db", "2">>
Names == {Db, Db2}

Started(name, nodeTag) ==
    [tag |-> "ProcessStarted", nodeTag |-> nodeTag, name |-> name, err |-> "none"]
Failed(name, nodeTag, err) ==
    [tag |-> "ProcessFailed", nodeTag |-> nodeTag, name |-> name, err |-> err]
StartFailed(name, nodeTag) ==
    [tag |-> "ProcessStartFailed", nodeTag |-> nodeTag, name |-> name, err |-> "other"]
SomeEvents ==
    {Started(Db, "Supervisor"), Failed(Db, "Supervisor", "restartTolerance"),
     StartFailed(Db, "Supervisor"),
     Started(Db2, "Worker"), Failed(Db2, "Worker", "other")}

Both == {health, user}
OnlyUser == {user}

\* Health sees everything.  The user's function sees what is not a failure of a
\* worker, and the failures of processes with a name like the worker's.
Criteria ==
    (health :> SomeEvents \cap EAnd(<< >>)) @@
    (user :> SomeEvents \cap EOr(<<
        EAnd(<<ENot(EIsWorkerFailure), EInSubtree(Db)>>),
        EAnd(<<EIsFailure, EHasNameSuffix(<<"2">>)>>)>>))
=============================================================================
