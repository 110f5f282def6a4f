-------------------------------- MODULE Pauli --------------------------------
(***************************************************************************)
(* Reference definitions: the Pauli operators on qubits numbered from 0 and  *)
(* what the Clifford gates and the measurements of Z do to a stabilizer      *)
(* group, with exact phases.  Tableau is checked against them.               *)
(*                                                                           *)
(* [x, z, p] is the operator  i^p * (X on each q in x) * (Z on each q in z). *)
(* A stabilizer group is the set of the operators in it.                     *)
(***************************************************************************)
EXTENDS Integers, SequencesExt

PauliX(q) == [x |-> {q}, z |-> {}, p |-> 0]
PauliZ(q) == [x |-> {}, z |-> {q}, p |-> 0]
One       == [x |-> {}, z |-> {}, p |-> 0]

(* X and Z on one qubit anticommute: Z X = - X Z. *)
Mul(P, Q) == [x |-> SymDiff(P.x, Q.x), z |-> SymDiff(P.z, Q.z),
              p |-> (P.p + Q.p + 2 * Cardinality(P.z \cap Q.x)) % 4]

Phase(k, P) == [P EXCEPT !.p = (@ + k) % 4]
Neg(P)      == Phase(2, P)
PauliY(q)   == Phase(1, Mul(PauliX(q), PauliZ(q)))

(* Where a gate takes X and Z of one qubit. *)
ImageX(in, q) ==
  CASE in.gate = "H" /\ q = in.a    -> PauliZ(q)
    [] in.gate = "S" /\ q = in.a    -> PauliY(q)
    [] in.gate = "SDG" /\ q = in.a  -> Neg(PauliY(q))
    [] in.gate = "Z" /\ q = in.a    -> Neg(PauliX(q))
    [] in.gate = "CNOT" /\ q = in.a -> Mul(PauliX(q), PauliX(in.b))
    [] OTHER                        -> PauliX(q)

ImageZ(in, q) ==
  CASE in.gate = "H" /\ q = in.a    -> PauliX(q)
    [] in.gate = "X" /\ q = in.a    -> Neg(PauliZ(q))
    [] in.gate = "CNOT" /\ q = in.b -> Mul(PauliZ(in.a), PauliZ(q))
    [] OTHER                        -> PauliZ(q)

(* A gate takes a product to the product of the images, and nothing but its *)
(* own qubits is changed by it.                                             *)
Without(P, qs) == [P EXCEPT !.x = @ \ qs, !.z = @ \ qs]

Image(in, P) ==
  LET times(op, q) == Mul(Mul(op, IF q \in P.x THEN ImageX(in, q) ELSE One),
                          IF q \in P.z THEN ImageZ(in, q) ELSE One)
  IN IF in.gate = "CNOT" THEN times(times(Without(P, {in.a, in.b}), in.a), in.b)
     ELSE times(Without(P, {in.a}), in.a)

Conjugate(G, in) == {Image(in, P) : P \in G}

(* The operator whose eigenvalue a measurement of q with this outcome makes 1. *)
Outcome(q, o) == Phase(2 * o, PauliZ(q))

Determined(G, q) == \E o \in {0, 1} : Outcome(q, o) \in G

(* What commutes with Z of q stays, and the outcome joins it. *)
Project(G, q, o) ==
  LET keep == {P \in G : q \notin P.x} IN keep \cup {Mul(P, Outcome(q, o)) : P \in keep}

(* The group of the state |0...0> of n qubits. *)
ZeroGroup(n) == {[x |-> {}, z |-> s, p |-> 0] : s \in SUBSET (0 .. n - 1)}
=============================================================================
