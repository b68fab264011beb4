--------------------------- MODULE MCDynSupervisor ---------------------------
(* Values for the constants of DynSupervisor that a .cfg cannot write down. *)
EXTENDS DynSupervisor, TLC

CONSTANTS ann, bob, k1, k2

Two == {ann, bob}
OnlyA == {ann}
OnlyB == {bob}
Nobody == {}
NoSpecs == << >>
PermanentTemporary == (ann :> "Permanent") @@ (bob :> "Temporary")

ClientSymmetry == Permutations(Client)
=============================================================================
