----------------------------- MODULE Stabilizer -----------------------------
(***************************************************************************)
(* A Tableau (cpp/src/tableau.cpp) under any sequence of gates and           *)
(* measurements, as the shot runner drives it for a random Clifford circuit, *)
(* beside the exact state: the stabilizer group of Pauli.                    *)
(***************************************************************************)
EXTENDS Tableau, Pauli

CONSTANT NumQubits     \* num_qubits

ASSUME StabilizerAssumption == NumQubits \in Nat \ {0}

VARIABLES
  rows,     \* rows_
  last,     \* history: what the last step measured, and the value that it left there
  group     \* history: the stabilizer group of the exact state

vars == <<rows, last, group>>

Qubits == 0 .. NumQubits - 1
Nothing == [q |-> NumQubits, value |-> 0]

(* What the circuits of circuit.h have on one and on two qubits. *)
Instrs == [gate : Gates, a : Qubits]
            \cup {in \in [gate : {"CNOT"}, a : Qubits, b : Qubits] : in.a # in.b}

Init == /\ rows = Zeros(NumQubits)
        /\ last = Nothing
        /\ group = ZeroGroup(NumQubits)

ApplyGate(in) ==
  /\ rows' = Apply(rows, in)
  /\ last' = Nothing
  /\ group' = Conjugate(group, in)

(* The exact outcome is the tableau's where it is random. *)
Exact(q, o) == IF Determined(group, q) THEN CHOOSE b \in {0, 1} : Outcome(q, b) \in group
               ELSE o

Measured(q, o) == IF Determined(group, q) THEN group ELSE Project(group, q, o)

Measure(q) ==
  \E m \in Mz(rows, q) :
    /\ rows' = m[2]
    /\ last' = [q |-> q, value |-> m[1]]
    /\ group' = Measured(q, m[1])

MeasureReset(q) ==
  \E m \in Mr(rows, q) :
    /\ rows' = m[2]
    /\ last' = [q |-> q, value |-> 0]
    /\ group' = IF Exact(q, m[1]) = 1
                THEN Conjugate(Measured(q, m[1]), [gate |-> "X", a |-> q])
                ELSE Measured(q, m[1])

Next == \/ \E in \in Instrs : ApplyGate(in)
        \/ \E q \in Qubits : Measure(q) \/ MeasureReset(q)

Spec == Init /\ [][Next]_vars
-----------------------------------------------------------------------------
(* Properties. *)

Unsigned(Ops) == {<<op.x, op.z>> : op \in Ops}

(* The products of some rows. *)
Products ==
  LET first[i \in 0 .. NumQubits] ==
        IF i = 0 THEN {Row({}, {}, 0)}
        ELSE first[i - 1] \cup {XorRow(t, rows[i]) : t \in first[i - 1]}
  IN first[NumQubits]

(* Up to signs the rows generate the stabilizer group of the exact state:    *)
(* the gates and the update behind a random measurement are group-correct.   *)
RowsGenerate == Unsigned(Products) = Unsigned(group)

(* A measurement that draws no random bit has an answer: Z of the qubit is a *)
(* product of rows, so that the elimination ends at zero and the invalid     *)
(* state that solve_deterministic guards against is not reached.             *)
Solvable ==
  \A q \in Qubits : ~ HasRandomBit(rows, q) => Residue(rows, q).x = {} /\ Residue(rows, q).z = {}

(* A random bit is drawn exactly when quantum mechanics leaves the outcome   *)
(* open: the order of the draws is part of the proof of a batch.  Where it   *)
(* does not, the elimination has an answer.                                  *)
RandomWhenOpen ==
  /\ \A q \in Qubits : HasRandomBit(rows, q) <=> ~ Determined(group, q)
  /\ Solvable

(* A qubit that was measured has the value of its outcome, and one that was  *)
(* reset is 0.                                                               *)
Repeatable ==
  last # Nothing => /\ ~ HasRandomBit(rows, last.q)
                    /\ SolveDeterministic(rows, last.q) = last.value

(* The gates are exact and the update is group-correct, signs included: a    *)
(* deterministic outcome is the one of the exact state.                      *)
OutcomesExact ==
  \A q \in Qubits : ~ HasRandomBit(rows, q)
                      => Outcome(q, SolveDeterministic(rows, q)) \in group
=============================================================================
