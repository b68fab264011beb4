-------------------------- MODULE MCSupervisionTree --------------------------
(* Values for the constants of SupervisionTree that a .cfg cannot write     *)
(* down: a worker and a sub-tree of two workers.                            *)
EXTENDS SupervisionTree, TLC

CONSTANTS ann, tree, bob, cleo

Two == {ann, tree}
TwoSpecs == <<ann, tree>>
BothTransient == (ann :> "Transient") @@ (tree :> "Transient")
Workers == {bob, cleo}
WorkerSpecs == <<bob, cleo>>
PermanentTemporary == (bob :> "Permanent") @@ (cleo :> "Temporary")
OnlyTree == {tree}
Nobody == {}
=============================================================================
