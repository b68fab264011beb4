---------------------------- MODULE MCSupervisor ----------------------------
(* Values for the constants of Supervisor that a .cfg cannot write down.   *)
EXTENDS Supervisor, TLC

CONSTANTS ann, bob, cleo

Two == {ann, bob}
Three == {ann, bob, cleo}
TwoSpecs == <<ann, bob>>
ThreeSpecs == <<ann, bob, cleo>>

\* One child of each restart kind, and two that always or mostly restart.
EachKind == (ann :> "Permanent") @@ (bob :> "Transient") @@ (cleo :> "Temporary")
PermanentTransient == (ann :> "Permanent") @@ (bob :> "Transient")

OnlyA == {ann}
OnlyB == {bob}
Nobody == {}
=============================================================================
