------------------------------ MODULE MCEngine ------------------------------
(***************************************************************************)
(* Instances of Engine for TLC: which operations the definition has.       *)
(***************************************************************************)
EXTENDS Engine, TLC

\* encode on a worker, then publish-configure in core.
WorkerThenInline == (0 :> "worker") @@ (1 :> "inline")

\* encode, snapshot in core, then one of the four undecided operations.
WorkerInlineUnclear == (0 :> "worker") @@ (1 :> "inline") @@ (2 :> "unclear")

OneWorkerOp == (0 :> "worker")

Symmetry == Permutations(Replicas) \cup Permutations(Workers)
=============================================================================
