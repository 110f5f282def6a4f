-------------------------------- MODULE Gate --------------------------------
(***************************************************************************)
(* The usefulness gate of the pipeline: evaluate_gate and its GatePolicy   *)
(* (cpp/src/pipeline.cpp, cpp/include/pipeline.h).                         *)
(*                                                                         *)
(* A batch is a circuit type, whether its noise configuration has any      *)
(* noise, and a sequence of shots; a shot has its detectors and its        *)
(* outcomes, as sequences of bits.  The rate is compared as a fraction,    *)
(* where the code divides doubles.                                         *)
(***************************************************************************)
EXTENDS Integers, FiniteSets, Sequences, FiniteSetsExt

(* The defaults of GatePolicy; the rate's ceiling is a quarter. *)
Policy == [minFlips |-> 1, ceiling |-> [num |-> 1, den |-> 4],
           minSyndromes |-> 2, minOutcomes |-> 2]

Ones(bits) == Cardinality({i \in DOMAIN bits : bits[i] = 1})

DetectorTotal(shots) == MapThenSumSet(LAMBDA k : Len(shots[k].detectors), DOMAIN shots)

DetectorFlips(shots) == MapThenSumSet(LAMBDA k : Ones(shots[k].detectors), DOMAIN shots)

(* The distinct detector patterns of the shots in which any fired. *)
Syndromes(shots) ==
  {shots[k].detectors : k \in {l \in DOMAIN shots : Ones(shots[l].detectors) > 0}}

Outcomes(shots) == {shots[k].outcomes : k \in DOMAIN shots}

(* random_clifford: the outcomes are not all the same. *)
VariedOutcomes(shots) == Cardinality(Outcomes(shots)) >= Policy.minOutcomes

(* surface_code_memory with noise: detectors fire, not too many of them,    *)
(* and not always the same.                                                 *)
PlausibleNoise(shots) ==
  /\ DetectorFlips(shots) >= Policy.minFlips
  /\ DetectorFlips(shots) * Policy.ceiling.den <= DetectorTotal(shots) * Policy.ceiling.num
  /\ Cardinality(Syndromes(shots)) >= Policy.minSyndromes

(* The verdict of evaluate_gate. *)
IsUseful(batch) ==
  IF batch.type = "random_clifford" THEN VariedOutcomes(batch.shots)
  ELSE batch.noisy => PlausibleNoise(batch.shots)
=============================================================================
