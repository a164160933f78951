------------------------------ MODULE MCFanout ------------------------------
(***************************************************************************)
(* Instances of Fanout for TLC: workflows of one encode each, competing    *)
(* for a worker.                                                           *)
(***************************************************************************)
EXTENDS Fanout, TLC

CONSTANTS w1, w2

Encode == (0 :> "worker")

SpecOf(cpu, memory, gpu) == [d \in Dims |->
  CASE d = "cpu" -> cpu [] d = "memory" -> memory [] d = "gpu" -> gpu]

\* The first task states a cpu cost of 1 and nothing else, the second leaves
\* cpu to the default of 2 and states memory.
TwoSpecs == (<<w1, 0>> :> SpecOf(1, 0, 0)) @@ (<<w2, 0>> :> SpecOf(0, 1, 0))
DefaultTwo == SpecOf(2, 0, 0)

\* Room for either task and not for both; memory is unconstrained.
RoomForOne == SpecOf(2, 0, 0)
=============================================================================
