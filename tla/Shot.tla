-------------------------------- MODULE Shot --------------------------------
(***************************************************************************)
(* One shot of the surface code memory (run_shot of cpp/src/shot.cpp): the   *)
(* program of Circuit on the rows of Tableau, with errors drawn behind each  *)
(* instruction.  What the PRNG draws is open: any outcome of a random        *)
(* measurement and any error, up to the bounds.  RESET, which no circuit of  *)
(* circuit.cpp has, is left out here.                                        *)
(***************************************************************************)
EXTENDS Tableau, Circuit

CONSTANTS
  Distance,      \* CircuitConfig::d
  Rounds,        \* CircuitConfig::rounds
  MaxErrors,     \* bound of the model: the errors of a shot
  MaxOnes        \* bound of the model: the random outcomes that are 1

ASSUME ShotAssumption == /\ Distance \in {3, 5} /\ Rounds \in 1 .. 32
                         /\ MaxErrors \in Nat /\ MaxOnes \in Nat

VARIABLES
  rows,          \* the tableau
  pc,            \* the instruction that comes next
  outcomes,      \* rec.outcomes, in the order of the measurements
  errors,        \* the length of rec.err_instr
  ones           \* history: the random outcomes that were 1

vars == <<rows, pc, outcomes, errors, ones>>

Instrs == Program(Distance, Rounds)
Nq     == NumQubitsOf(Distance)

(* build_circuit throws when the self-check fails. *)
Init == /\ SelfCheck(Distance)
        /\ rows = Zeros(Nq)
        /\ pc = 1
        /\ outcomes = << >>
        /\ errors = 0 /\ ones = 0

(* A Pauli error, or none. *)
Errors == {"none", "X", "Y", "Z"}
Count(e) == IF e = "none" THEN 0 ELSE 1

(* Y is X, then Z. *)
ApplyPauli(rs, q, e) ==
  CASE e = "X" -> Apply(rs, Op("X", q))
    [] e = "Y" -> Apply(Apply(rs, Op("X", q)), Op("Z", q))
    [] e = "Z" -> Apply(rs, Op("Z", q))
    [] OTHER   -> rs

Fetch(gates) == pc <= Len(Instrs) /\ Instrs[pc].gate \in gates /\ pc' = pc + 1

Draw(n) == errors' = errors + n /\ errors' <= MaxErrors

OneQubit ==
  /\ Fetch(Gates)
  /\ \E e \in Errors :
       /\ Draw(Count(e))
       /\ rows' = ApplyPauli(Apply(rows, Instrs[pc]), Instrs[pc].a, e)
  /\ UNCHANGED <<outcomes, ones>>

TwoQubits ==
  /\ Fetch({"CNOT"})
  /\ \E e, f \in Errors :
       /\ Draw(Count(e) + Count(f))
       /\ rows' = ApplyPauli(ApplyPauli(Apply(rows, Instrs[pc]), Instrs[pc].a, e),
                             Instrs[pc].b, f)
  /\ UNCHANGED <<outcomes, ones>>

(* The outcome m of the measurement, which an error may flip in the record. *)
Recorded(m) ==
  /\ rows' = m[2]
  /\ ones' = IF HasRandomBit(rows, Instrs[pc].a) THEN ones + m[1] ELSE ones
  /\ ones' <= MaxOnes
  /\ \E flip \in {0, 1} :
       /\ Draw(flip)
       /\ outcomes' = Append(outcomes, (m[1] + flip) % 2)

MeasureReset == Fetch({"MR"}) /\ \E m \in Mr(rows, Instrs[pc].a) : Recorded(m)

Measure == Fetch({"MZ"}) /\ \E m \in Mz(rows, Instrs[pc].a) : Recorded(m)

Next == OneQubit \/ TwoQubits \/ MeasureReset \/ Measure

Spec == Init /\ [][Next]_vars
-----------------------------------------------------------------------------
(* compute_detectors_observables *)

Parity(ms) == Cardinality({i \in ms : outcomes[i] = 1}) % 2
Made(ms)   == \A i \in ms : i <= Len(outcomes)
Done       == pc > Len(Instrs)

AllDetectors == Detectors(Distance, Rounds)
Logical      == Observable(Distance, Rounds)

(* Properties. *)

(* Without errors every detector and the observable are 0, whatever the      *)
(* random outcomes were: tableau.h:42 calls a detector's parity deterministic.  *)
QuietWithoutErrors ==
  errors = 0 => \A ms \in AllDetectors \cup {Logical} : Made(ms) => Parity(ms) = 0

(* One error never changes the logical outcome in silence: where the         *)
(* observable is 1, some detector is, too.  The order of the CNOTs of a      *)
(* check and the choice of the logical row matter for it.                    *)
NoSilentError ==
  Done /\ errors <= 1 /\ Parity(Logical) = 1 => \E ms \in AllDetectors : Parity(ms) = 1
=============================================================================
