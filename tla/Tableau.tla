------------------------------- MODULE Tableau -------------------------------
(***************************************************************************)
(* The stabilizer tableau (cpp/src/tableau.cpp, cpp/include/tableau.h) as    *)
(* operators on its rows.  A row [x, z, r] has the bits of its two masks as  *)
(* sets of qubits, numbered from 0, and its sign bit.  The rows of n qubits  *)
(* are a sequence of n; the code counts them from 0, which only names them.  *)
(***************************************************************************)
EXTENDS Integers, SequencesExt

Row(x, z, r) == [x |-> x, z |-> z, r |-> r]

(* Tableau(nq): |0...0>. *)
Zeros(n) == [i \in 1 .. n |-> Row({}, {i - 1}, 0)]

Bit(mask, q) == IF q \in mask THEN 1 ELSE 0

(* mask with the bit of q xored with b. *)
XorBit(mask, q, b) == IF b = 1 THEN SymDiff(mask, {q}) ELSE mask

Flip(row, b) == [row EXCEPT !.r = (@ + b) % 2]

(* The product of two rows as the code computes it: three XORs. *)
XorRow(row, src) == Row(SymDiff(row.x, src.x), SymDiff(row.z, src.z), (row.r + src.r) % 2)

-----------------------------------------------------------------------------
(* The gates: in is an instruction, and each operator is the body of the loop *)
(* over the rows.                                                             *)

H(row, a) ==
  [Flip(row, Bit(row.x \cap row.z, a)) EXCEPT
     !.x = (row.x \ {a}) \cup (row.z \cap {a}),
     !.z = (row.z \ {a}) \cup (row.x \cap {a})]

S(row, a) ==
  [Flip(row, Bit(row.x \cap row.z, a)) EXCEPT !.z = XorBit(row.z, a, Bit(row.x, a))]

Sdg(row, a) ==
  [Flip(row, Bit(row.x \ row.z, a)) EXCEPT !.z = XorBit(row.z, a, Bit(row.x, a))]

Px(row, a) == Flip(row, Bit(row.z, a))
Pz(row, a) == Flip(row, Bit(row.x, a))

(* Mutant: the z bit goes from the control to the target. *)
Cnot_OneWay(row, c, t) ==
  Row(XorBit(row.x, t, Bit(row.x, c)), XorBit(row.z, t, Bit(row.z, c)), row.r)

Cnot(row, c, t) ==
  Row(XorBit(row.x, t, Bit(row.x, c)), XorBit(row.z, c, Bit(row.z, t)), row.r)

Gates == {"H", "S", "SDG", "X", "Z"}

Gate(row, in) == CASE in.gate = "H"    -> H(row, in.a)
                   [] in.gate = "S"    -> S(row, in.a)
                   [] in.gate = "SDG"  -> Sdg(row, in.a)
                   [] in.gate = "X"    -> Px(row, in.a)
                   [] in.gate = "Z"    -> Pz(row, in.a)
                   [] in.gate = "CNOT" -> Cnot(row, in.a, in.b)

Apply(rows, in) == [i \in DOMAIN rows |-> Gate(rows[i], in)]

-----------------------------------------------------------------------------
(* The measurement of Z. *)

(* Mutant: only the row that began as the qubit's own is looked at. *)
HasRandomBit_OwnRow(rows, a) == a \in rows[a + 1].x

HasRandomBit(rows, a) == \E i \in DOMAIN rows : a \in rows[i].x

(* The random branch. *)
Collapse(rows, a, o) ==
  LET p == Min({i \in DOMAIN rows : a \in rows[i].x})
  IN [i \in DOMAIN rows |->
        IF i = p THEN Row({}, {a}, o)
        ELSE IF a \in rows[i].x THEN XorRow(rows[i], rows[p]) ELSE rows[i]]

(* The columns of the elimination: the x bits, then the z bits. *)
Columns(n) ==
  [c \in 1 .. 2 * n |-> IF c <= n THEN [mask |-> "x", q |-> c - 1]
                                  ELSE [mask |-> "z", q |-> c - n - 1]]

HasBit(row, col) == col.q \in row[col.mask]

(* Phase 1: one column, with a pivot among the rows that are still free; the *)
(* rows are independent, and any order of the pivots gives the same.          *)
Reduce(e, col) ==
  LET p        == CHOOSE row \in e.free : HasBit(row, col)
      clear(row) == IF HasBit(row, col) THEN XorRow(row, p) ELSE row
  IN IF \A row \in e.free : ~ HasBit(row, col) THEN e
     ELSE [free   |-> {clear(row) : row \in e.free \ {p}},
           pivots |-> {[v EXCEPT !.row = clear(@)] : v \in e.pivots}
                        \cup {[col |-> col, row |-> p]}]

(* What the first c columns leave of the rows. *)
Reduced(rows) ==
  LET n == Len(rows)
      e[c \in 0 .. 2 * n] == IF c = 0 THEN [free |-> ToSet(rows), pivots |-> {}]
                             ELSE Reduce(e[c - 1], Columns(n)[c])
  IN e

Rref(rows) == Reduced(rows)[2 * Len(rows)]

(* Phase 2: what a column leaves of a target, and the first c columns. *)
Take(pivots, t, col) ==
  IF HasBit(t, col) /\ \E v \in pivots : v.col = col
  THEN XorRow(t, (CHOOSE v \in pivots : v.col = col).row) ELSE t

Taken(pivots, target, n) ==
  LET t[c \in 0 .. 2 * n] == IF c = 0 THEN target ELSE Take(pivots, t[c - 1], Columns(n)[c])
  IN t

(* What is left of Z of a, with the sign of what was taken from it. *)
Residue(rows, a) == Taken(Rref(rows).pivots, Row({}, {a}, 0), Len(rows))[2 * Len(rows)]

SolveDeterministic(rows, a) ==
  LET t == Residue(rows, a) IN IF t.x # {} \/ t.z # {} THEN 0 ELSE t.r

(* The pairs of an outcome of mz and the rows behind it. *)
Mz(rows, a) ==
  IF HasRandomBit(rows, a) THEN {<<o, Collapse(rows, a, o)>> : o \in {0, 1}}
  ELSE {<<SolveDeterministic(rows, a), rows>>}

(* Mutant: the reset is forgotten. *)
Mr_NoReset(rows, a) == Mz(rows, a)

(* mr and reset: a measured 1 is flipped. *)
Mr(rows, a) ==
  {<<m[1], IF m[1] = 1 THEN Apply(m[2], [gate |-> "X", a |-> a]) ELSE m[2]>> : m \in Mz(rows, a)}
=============================================================================
