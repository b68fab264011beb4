------------------------ MODULE MCObservedSupervisor -------------------------
(* Values for the constants of ObservedSupervisor that a .cfg cannot write. *)
EXTENDS ObservedSupervisor, TLC

CONSTANTS ann, bob

Both == {ann, bob}
BothSpecs == <<ann, bob>>
Names == {ann, bob, Root}
BothPermanent == (ann :> "Permanent") @@ (bob :> "Transient")
Nobody == {}

SomePredicates ==
    {EHasRuntimeName(Root), WorkerFailed,
     OrP(<<EIsFailure, AndP(<<EHasRuntimeName(ann), ENot(EIsWorkerFailure)>>)>>)}
=============================================================================
