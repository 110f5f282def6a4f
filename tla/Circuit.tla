------------------------------- MODULE Circuit -------------------------------
(***************************************************************************)
(* The surface code memory circuit of cpp/src/circuit.cpp: its checks, the   *)
(* self-check of the builder, the program, and the detectors.  A check is    *)
(* the sequence of its data qubits; measurements are numbered from 1, in the *)
(* order of the program; a detector is the set of its measurements.          *)
(***************************************************************************)
EXTENDS Integers, SequencesExt

(* Data qubits: d rows of d. *)
DataId(d, r, c) == r * d + c

(* The corners of the inner face k, counted row by row. *)
Face(d, k) ==
  LET a == (k - 1) \div (d - 1)
      b == (k - 1) % (d - 1)
  IN <<DataId(d, a, b), DataId(d, a + 1, b), DataId(d, a, b + 1), DataId(d, a + 1, b + 1)>>

IsX(d, k) == ((k - 1) \div (d - 1) + ((k - 1) % (d - 1))) % 2 = 0

(* Rows of faces have even length and the types alternate in them, so that  *)
(* one of the faces 2 * i - 1 and 2 * i is of each type.                     *)
FacesOf(d, isX) ==
  [i \in 1 .. ((d - 1) * (d - 1)) \div 2 |->
     Face(d, IF IsX(d, 2 * i - 1) <=> isX THEN 2 * i - 1 ELSE 2 * i)]

(* Behind the faces: a stub at the top for each odd c, at the bottom for the *)
(* even ones (c here is the column of its second qubit).                      *)
XChecks(d) ==
  FacesOf(d, TRUE)
    \o [c \in 1 .. d - 1 |-> LET r == IF c % 2 = 0 THEN 0 ELSE d - 1
                             IN <<DataId(d, r, c - 1), DataId(d, r, c)>>]

(* A stub at the left for each even r, at the right for the odd ones. *)
ZChecks(d) ==
  FacesOf(d, FALSE)
    \o [r \in 1 .. d - 1 |-> LET c == IF r % 2 = 1 THEN 0 ELSE d - 1
                             IN <<DataId(d, r - 1, c), DataId(d, r, c)>>]

LogicalRow0(d) == {DataId(d, 0, c) : c \in 0 .. d - 1}

-----------------------------------------------------------------------------
(* The self-check of the builder. *)

Even(s) == Cardinality(s) % 2 = 0

(* The sum over GF(2) of the checks with these indices. *)
SumOf(checks, I) == FoldLeft(LAMBDA s, i : SymDiff(s, ToSet(checks[i])), {}, SetToSeq(I))

Span(checks)        == {SumOf(checks, I) : I \in SUBSET DOMAIN checks}
Independent(checks) == \A I \in SUBSET DOMAIN checks : I # {} => SumOf(checks, I) # {}

SelfCheck(d) ==
  LET xs == XChecks(d)
      zs == ZChecks(d)
  IN /\ Len(xs) = (d * d - 1) \div 2 /\ Len(zs) = (d * d - 1) \div 2
     /\ \A i \in DOMAIN xs, j \in DOMAIN zs : Even(ToSet(xs[i]) \cap ToSet(zs[j]))
     /\ Independent(xs) /\ Independent(zs)
     /\ \A i \in DOMAIN xs : Even(ToSet(xs[i]) \cap LogicalRow0(d))
     /\ LogicalRow0(d) \notin Span(zs)

-----------------------------------------------------------------------------
(* The program. *)

Op(gate, a)  == [gate |-> gate, a |-> a]
CnotOp(c, t) == [gate |-> "CNOT", a |-> c, b |-> t]

XAnc(d, i) == d * d + i - 1
ZAnc(d, i) == d * d + Len(XChecks(d)) + i - 1

NumQubitsOf(d) == d * d + Len(XChecks(d)) + Len(ZChecks(d))

Sorted(check) == CHOOSE t \in [DOMAIN check -> ToSet(check)] :
                   \A j, k \in DOMAIN check : j < k => t[j] < t[k]

MeasureX(d, i) ==
  LET a == XAnc(d, i)
      t == Sorted(XChecks(d)[i])
  IN <<Op("H", a)>> \o [j \in DOMAIN t |-> CnotOp(a, t[j])] \o <<Op("H", a), Op("MR", a)>>

MeasureZ(d, i) ==
  LET a == ZAnc(d, i)
      t == Sorted(ZChecks(d)[i])
  IN [j \in DOMAIN t |-> CnotOp(t[j], a)] \o <<Op("MR", a)>>

Round(d) == FlattenSeq([i \in DOMAIN XChecks(d) |-> MeasureX(d, i)])
              \o FlattenSeq([i \in DOMAIN ZChecks(d) |-> MeasureZ(d, i)])

Program(d, rounds) ==
  FlattenSeq([r \in 1 .. rounds |-> Round(d)]) \o [q \in 1 .. d * d |-> Op("MZ", q - 1)]

-----------------------------------------------------------------------------
(* Detectors and the observable. *)

(* The measurement of check i (the X checks first) in round r, and of a data *)
(* qubit at the end: anc_meas and data_meas.                                  *)
AncMeas(d, i, r)       == (r - 1) * (d * d - 1) + i
DataMeas(d, rounds, q) == rounds * (d * d - 1) + q + 1

Overlaps(d, rounds) ==
  {{AncMeas(d, i, r - 1), AncMeas(d, i, r)} : i \in 1 .. d * d - 1, r \in 2 .. rounds}

(* Mutant: the last round is not compared with the data. *)
Detectors_NoFinal(d, rounds) ==
  Overlaps(d, rounds) \cup {{AncMeas(d, Len(XChecks(d)) + i, 1)} : i \in DOMAIN ZChecks(d)}

Detectors(d, rounds) ==
  LET z(i) == Len(XChecks(d)) + i
  IN Overlaps(d, rounds)
       \cup {{AncMeas(d, z(i), 1)} : i \in DOMAIN ZChecks(d)}
       \cup {{AncMeas(d, z(i), rounds)}
               \cup {DataMeas(d, rounds, q) : q \in ToSet(ZChecks(d)[i])} : i \in DOMAIN ZChecks(d)}

Observable(d, rounds) == {DataMeas(d, rounds, q) : q \in LogicalRow0(d)}
=============================================================================
