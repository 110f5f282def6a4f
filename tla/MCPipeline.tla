----------------------------- MODULE MCPipeline -----------------------------
(* Pipeline on small instances: batches named 1.., with what the gate       *)
(* judges of them.                                                          *)
EXTENDS Pipeline, Gate

CONSTANTS kills, ios, torns, powers, misreads, faults, c1, c2

MCBudget == [kill |-> kills, io |-> ios, torn |-> torns, power |-> powers,
             misread |-> misreads, all |-> faults]

Shot(dets) == [detectors |-> dets, outcomes |-> dets]

(* Two batches of a noisy surface code and one of random circuits.  The     *)
(* second never has two patterns of detectors, and is useless.              *)
MCContents == <<
  [type |-> "surface_code_memory", noisy |-> TRUE,
   shots |-> << Shot(<<1, 0, 0, 0>>), Shot(<<0, 0, 0, 0>>), Shot(<<0, 0, 0, 1>>) >>],
  [type |-> "surface_code_memory", noisy |-> TRUE,
   shots |-> << Shot(<<1, 0, 0, 0>>), Shot(<<0, 0, 0, 0>>), Shot(<<1, 0, 0, 0>>) >>],
  [type |-> "random_clifford", noisy |-> TRUE,
   shots |-> << Shot(<<1, 1, 0, 0>>), Shot(<<1, 1, 1, 1>>) >>] >>

UsefulBatches == {b \in Batches : IsUseful(MCContents[b])}

MCUseful == UsefulBatches

OneCircuit == {c1}
TwoCircuits == {c1, c2}
=============================================================================
