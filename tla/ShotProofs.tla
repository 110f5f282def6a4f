----------------------------- MODULE ShotProofs -----------------------------
(***************************************************************************)
(* The surface code memory of run_shot and build_circuit, for both distances *)
(* and any number of rounds, errors and random outcomes: without errors all  *)
(* detectors and the observable are even, and one error never flips the      *)
(* observable in silence.  IInv follows the program: between two             *)
(* instructions the tableau implies one signed product for each Z check, for *)
(* the logical row, for each ancilla and for each X check measured, and the  *)
(* outcomes so far agree with the signs.                                     *)
(***************************************************************************)
EXTENDS Shot, FiniteSetTheorems, SequenceTheorems, TLAPS

(* Of the stabilizer engine's proofs only those about rows are used, which  *)
(* do not speak of its history variables.                                   *)
E == INSTANCE StabilizerProofs WITH NumQubits <- Nq, last <- 0, group <- {}

LEMMA NqNat == E!StabilizerAssumption
BY ShotAssumption DEF E!StabilizerAssumption, Nq, NumQubitsOf

LEMMA SameGate == \A row, in : E!Gate(row, in) = Gate(row, in)
BY DEF E!Gate, Gate, E!H, H, E!S, S, E!Sdg, Sdg, E!Px, Px, E!Pz, Pz, E!Cnot, Cnot, E!Flip, Flip,
       E!Bit, Bit, E!XorBit, XorBit, E!Row, Row, E!SymDiff, SymDiff, E!Min, Min, E!ToSet, ToSet

LEMMA SameXorRow == \A u, v : E!XorRow(u, v) = XorRow(u, v)
BY DEF E!XorRow, XorRow, E!Row, Row, E!SymDiff, SymDiff, E!Min, Min, E!ToSet, ToSet

LEMMA SameCollapse == \A rs, a, o : E!Collapse(rs, a, o) = Collapse(rs, a, o)
BY DEF E!XorRow, XorRow, E!Row, Row, E!Collapse, Collapse, E!SymDiff, SymDiff, E!Min, Min

LEMMA SameReduced == \A rs : E!Reduced(rs) = Reduced(rs)
BY Zenon DEF E!Reduced, Reduced, E!Reduce, Reduce, E!Columns, Columns, E!HasBit, HasBit, E!XorRow, XorRow,
  E!Row, Row, E!SymDiff, SymDiff, E!ToSet, ToSet

LEMMA SameTaken == \A ps, t, n : E!Taken(ps, t, n) = Taken(ps, t, n)
BY Zenon DEF E!Taken, Taken, E!Take, Take, E!Columns, Columns, E!HasBit, HasBit, E!XorRow, XorRow,
  E!Row, Row, E!SymDiff, SymDiff

LEMMA SameSolve == \A rs, a : E!SolveDeterministic(rs, a) = SolveDeterministic(rs, a)
BY SameReduced, SameTaken DEF E!SolveDeterministic, SolveDeterministic, E!Residue, Residue, E!Rref, Rref, E!Row, Row

LEMMA SameApply == \A rs, in : E!Apply(rs, in) = Apply(rs, in)
BY SameGate DEF E!Apply, Apply

LEMMA SameMz == \A rs, a : E!Mz(rs, a) = Mz(rs, a) /\ (E!HasRandomBit(rs, a) <=> HasRandomBit(rs, a))
BY SameCollapse, SameSolve DEF E!Mz, Mz, E!HasRandomBit, HasRandomBit

-----------------------------------------------------------------------------
(* The engine's facts, in the words of Shot.                                *)

Qubits    == 0 .. Nq - 1
Lines     == 1 .. Nq
RowSet    == [x : SUBSET Qubits, z : SUBSET Qubits, r : {0, 1}]
Tab(rs)     == E!Tab(rs)
Says(rs, w) == E!Says(rs, w)

LEMMA Same ==
  /\ E!Qubits = Qubits /\ E!Lines = Lines /\ E!RowSet = RowSet
  /\ \A x, z, r : E!Row(x, z, r) = Row(x, z, r)
BY DEF E!Qubits, E!Lines, E!RowSet, Qubits, Lines, RowSet, E!Row, Row

LEMMA TabRows == \A rs : Tab(rs) => rs \in [Lines -> RowSet]
BY Same DEF Tab, E!Tab

LEMMA SaysFacts ==
  ASSUME NEW rs, Tab(rs)
  PROVE  /\ \A w : Says(rs, w) => w \in RowSet
         /\ \A u, v : Says(rs, u) /\ Says(rs, v) => Says(rs, XorRow(u, v))
         /\ Says(rs, Row({}, {}, 0))
<1>1. rs \in [E!Lines -> E!RowSet]
  BY DEF Tab, E!Tab
<1> QED BY <1>1, E!SaysFacts, NqNat, Same, SameXorRow DEF Says

LEMMA SaysOnce ==
  ASSUME NEW rs, Tab(rs), NEW x, NEW z, NEW s \in {0, 1}, NEW t \in {0, 1},
         Says(rs, Row(x, z, s)), Says(rs, Row(x, z, t))
  PROVE  s = t
<1>1. CASE s = 0 /\ t = 1
  BY <1>1, E!SaysOnce, NqNat, Same DEF Tab, Says
<1>2. CASE s = 1 /\ t = 0
  BY <1>2, E!SaysOnce, NqNat, Same DEF Tab, Says
<1> QED BY <1>1, <1>2

LEMMA Instructions ==
  /\ \A q \in Qubits : Op("H", q) \in E!Instrs /\ Op("X", q) \in E!Instrs /\ Op("Z", q) \in E!Instrs
  /\ \A c, t \in Qubits : c # t => CnotOp(c, t) \in E!Instrs
<1>1. E!Gates = {"H", "S", "SDG", "X", "Z"}
  BY DEF E!Gates
<1> QED BY <1>1, Same DEF E!Instrs, Op, CnotOp

LEMMA TabZeros ==
  /\ Tab(Zeros(Nq))
  /\ \A Z \in SUBSET Qubits : Says(Zeros(Nq), Row({}, Z, 0))
<1>1. E!Zeros(Nq) = Zeros(Nq)
  BY Same DEF E!Zeros, Zeros
<1> QED BY <1>1, E!SaysZeros, NqNat, Same DEF Tab, Says

(* Where the state has Z of q, no row has X of it. *)
LEMMA SaysCommutes ==
  ASSUME NEW rs, Tab(rs), NEW q \in Qubits, NEW o \in {0, 1}, Says(rs, Row({}, {q}, o))
  PROVE  \A i \in Lines : q \notin rs[i].x
BY E!SaysCommutes, NqNat, Same DEF Tab, Says

(* The rows of rt are the images of those of rs under a gate. *)
LEMMA ApplyRows ==
  ASSUME NEW rs, Tab(rs), NEW in \in E!Instrs
  PROVE  /\ Tab(Apply(rs, in))
         /\ \A i \in Lines : Apply(rs, in)[i] = Gate(rs[i], in)
<1>1. rs \in [Lines -> RowSet] /\ DOMAIN rs = Lines
  BY TabRows
<1>2. E!Tab(E!Apply(rs, in))
  BY E!TabGate, NqNat DEF Tab
<1> QED BY <1>1, <1>2, SameApply DEF Tab, Apply

LEMMA ApplySays ==
  ASSUME NEW rs, Tab(rs), NEW in \in E!Instrs, in.gate \in {"X", "Z", "CNOT"},
         NEW w, Says(rs, w)
  PROVE  Says(Apply(rs, in), Gate(w, in))
<1>1. E!Says(E!Apply(rs, in), E!Gate(w, in))
  BY E!SaysGate, NqNat DEF Tab, Says
<1> QED BY <1>1, SameApply, SameGate DEF Says

(* The gates on the masks and on the sign of a row. *)
LEMMA GateIs ==
  /\ \A u, q : Gate(u, Op("X", q)) = Px(u, q)
  /\ \A u, q : Gate(u, Op("Z", q)) = Pz(u, q)
  /\ \A u, q : Gate(u, Op("H", q)) = H(u, q)
  /\ \A u, c, t : Gate(u, CnotOp(c, t)) = Cnot(u, c, t)
  /\ \A q : Op("X", q).gate = "X" /\ Op("Z", q).gate = "Z"
  /\ \A c, t : CnotOp(c, t).gate = "CNOT"
BY DEF Gate, Op, CnotOp

LEMMA GateRow ==
  /\ \A u, q : Gate(u, Op("X", q)).x = u.x /\ Gate(u, Op("X", q)).z = u.z
  /\ \A u, q : Gate(u, Op("Z", q)).x = u.x /\ Gate(u, Op("Z", q)).z = u.z
  /\ \A u, q : /\ Gate(u, Op("H", q)).x = (u.x \ {q}) \cup (u.z \cap {q})
               /\ Gate(u, Op("H", q)).z = (u.z \ {q}) \cup (u.x \cap {q})
  /\ \A u, c, t : /\ Gate(u, CnotOp(c, t)).x = XorBit(u.x, t, Bit(u.x, c))
                  /\ Gate(u, CnotOp(c, t)).z = XorBit(u.z, c, Bit(u.z, t))
  /\ \A x, z, s, q : Gate(Row(x, z, s), Op("X", q)) = Row(x, z, (s + Bit(z, q)) % 2)
  /\ \A x, z, s, q : Gate(Row(x, z, s), Op("Z", q)) = Row(x, z, (s + Bit(x, q)) % 2)
  /\ \A x, z, s, c, t : Gate(Row(x, z, s), CnotOp(c, t)) = Row(XorBit(x, t, Bit(x, c)), XorBit(z, c, Bit(z, t)), s)
<1>0. ASSUME NEW u, NEW q
      PROVE  /\ Px(u, q).x = u.x /\ Px(u, q).z = u.z
             /\ Pz(u, q).x = u.x /\ Pz(u, q).z = u.z
             /\ H(u, q).x = (u.x \ {q}) \cup (u.z \cap {q}) /\ H(u, q).z = (u.z \ {q}) \cup (u.x \cap {q})
  BY DEF Px, Pz, H, Flip
<1>1. \A u, q : Gate(u, Op("X", q)).x = u.x /\ Gate(u, Op("X", q)).z = u.z
  BY <1>0, GateIs
<1>2. \A u, q : Gate(u, Op("Z", q)).x = u.x /\ Gate(u, Op("Z", q)).z = u.z
  BY <1>0, GateIs
<1>3. \A u, q : /\ Gate(u, Op("H", q)).x = (u.x \ {q}) \cup (u.z \cap {q})
                /\ Gate(u, Op("H", q)).z = (u.z \ {q}) \cup (u.x \cap {q})
  BY <1>0, GateIs
<1>4. \A u, c, t : /\ Gate(u, CnotOp(c, t)).x = XorBit(u.x, t, Bit(u.x, c))
                   /\ Gate(u, CnotOp(c, t)).z = XorBit(u.z, c, Bit(u.z, t))
  BY GateIs DEF Cnot, Row
<1>5. \A x, z, s, q : Gate(Row(x, z, s), Op("X", q)) = Row(x, z, (s + Bit(z, q)) % 2)
  BY GateIs DEF Px, Flip, Row
<1>6. \A x, z, s, q : Gate(Row(x, z, s), Op("Z", q)) = Row(x, z, (s + Bit(x, q)) % 2)
  BY GateIs DEF Pz, Flip, Row
<1>7. \A x, z, s, c, t : Gate(Row(x, z, s), CnotOp(c, t)) = Row(XorBit(x, t, Bit(x, c)), XorBit(z, c, Bit(z, t)), s)
  BY GateIs DEF Cnot, Row
<1> QED BY <1>1, <1>2, <1>3, <1>4, <1>5, <1>6, <1>7

(* H of a qubit that no row has both X and Z of. *)
LEMMA ApplyH ==
  ASSUME NEW rs, Tab(rs), NEW a \in Qubits, \A i \in Lines : a \notin rs[i].x \/ a \notin rs[i].z,
         NEW x, NEW z, NEW s, Says(rs, Row(x, z, s)), a \notin x \/ a \notin z
  PROVE  Says(Apply(rs, Op("H", a)), Row((x \ {a}) \cup (z \cap {a}), (z \ {a}) \cup (x \cap {a}), s))
<1> DEFINE in == [gate |-> "H", a |-> a]
           w  == Row(x, z, s)
<1>1. w.x = x /\ w.z = z /\ w.r = s
  BY DEF Row
<1>2. w \in RowSet
  BY SaysFacts
<1>3. E!Says(E!Apply(rs, in), E!Gate(w, in))
  BY <1>1, E!SaysH, NqNat, Same DEF Tab, Says
<1>4. Gate(w, in) = Row((x \ {a}) \cup (z \cap {a}), (z \ {a}) \cup (x \cap {a}), s)
  <2>1. Gate(w, in) = H(w, a)
    BY GateIs DEF Op
  <2>2. s \in {0, 1} /\ Bit(x \cap z, a) = 0 /\ (s + 0) % 2 = s
    BY <1>1, <1>2 DEF RowSet, Bit
  <2>3. Flip(w, Bit(w.x \cap w.z, a)) = [x |-> x, z |-> z, r |-> s]
    BY <1>1, <2>2 DEF Flip, Row
  <2>4. H(w, a) = [x |-> (x \ {a}) \cup (z \cap {a}), z |-> (z \ {a}) \cup (x \cap {a}), r |-> s]
    <3> DEFINE f == Flip(w, Bit(w.x \cap w.z, a))
    <3>1. H(w, a) = [f EXCEPT !.x = (w.x \ {a}) \cup (w.z \cap {a}), !.z = (w.z \ {a}) \cup (w.x \cap {a})]
      BY DEF H
    <3>2. f = [x |-> x, z |-> z, r |-> s]
      BY <2>3
    <3> HIDE DEF f, w
    <3> QED BY <1>1, <3>1, <3>2
  <2> QED BY <2>1, <2>4 DEF Row
<1> QED BY <1>3, <1>4, SameApply, SameGate DEF Says, Op

(* A measurement.  Where it is open, one row takes the outcome's place and   *)
(* those that have X of the qubit are multiplied by it.                      *)
Taking(p, rs, rc, q, o) ==
  /\ q \in rs[p].x
  /\ \A i \in Lines : rc[i] = IF i = p THEN Row({}, {q}, o)
                              ELSE IF q \in rs[i].x THEN XorRow(rs[i], rs[p]) ELSE rs[i]

LEMMA SaysMz ==
  ASSUME NEW rs, Tab(rs), NEW q \in Qubits, NEW m \in Mz(rs, q)
  PROVE  /\ Tab(m[2]) /\ m[1] \in {0, 1}
         /\ Says(m[2], Row({}, {q}, m[1]))
         /\ \A w : Says(rs, w) /\ q \notin w.x => Says(m[2], w)
         /\ \/ ~ HasRandomBit(rs, q) /\ m[2] = rs
            \/ \E p \in Lines : Taking(p, rs, m[2], q, m[1])
<1>1. m \in E!Mz(rs, q)
  BY SameMz
<1>2. \A p, rc, o : E!Taking(p, rs, rc, q, o) <=> Taking(p, rs, rc, q, o)
  BY Same, SameXorRow DEF E!Taking, Taking
<1> QED BY <1>1, <1>2, E!SaysMz, NqNat, Same, SameMz DEF Tab, Says

-----------------------------------------------------------------------------
(* Parities. *)

Par(A) == Cardinality(A) % 2

LEMMA SameFinite ==
  /\ \A A : E!Cardinality(A) = Cardinality(A)
  /\ \A A : E!IsFiniteSet(A) <=> IsFiniteSet(A)
<1>1. ASSUME NEW A PROVE E!Cardinality(A) = Cardinality(A)
  BY Zenon DEF E!Cardinality, Cardinality
<1>2. ASSUME NEW A PROVE E!IsFiniteSet(A) <=> IsFiniteSet(A)
  BY Zenon DEF E!IsFiniteSet, IsFiniteSet
<1> QED BY <1>1, <1>2

LEMMA SameParity ==
  /\ \A A : E!Par(A) = Par(A)
  /\ \A A, B : E!SymDiff(A, B) = SymDiff(A, B)
  /\ \A A, q : E!Bit(A, q) = Bit(A, q)
<1>1. \A A : E!Par(A) = Par(A)
  BY SameFinite DEF E!Par, Par
<1>2. \A A, B : E!SymDiff(A, B) = SymDiff(A, B)
  BY DEF E!SymDiff, SymDiff
<1>3. \A A, q : E!Bit(A, q) = Bit(A, q)
  BY DEF E!Bit, Bit
<1> QED BY <1>1, <1>2, <1>3

LEMMA ParTypes == \A A : IsFiniteSet(A) => Par(A) \in {0, 1}
BY E!ParTypes, NqNat, SameParity, SameFinite

LEMMA ParSmall == Par({}) = 0 /\ \A a : Par({a}) = 1
BY E!ParSmall, NqNat, SameParity, SameFinite

LEMMA ParSum ==
  ASSUME NEW A, IsFiniteSet(A), NEW B, IsFiniteSet(B)
  PROVE  IsFiniteSet(SymDiff(A, B)) /\ Par(SymDiff(A, B)) = (Par(A) + Par(B)) % 2
BY E!ParSum, NqNat, SameParity, SameFinite

LEMMA ParAdd ==
  ASSUME NEW A, IsFiniteSet(A), NEW a, a \notin A
  PROVE  IsFiniteSet(A \cup {a}) /\ Par(A \cup {a}) = 1 - Par(A)
<1>1. IsFiniteSet({a}) /\ Par({a}) = 1
  BY ParSmall, FS_Singleton
<1>2. SymDiff(A, {a}) = A \cup {a}
  BY DEF SymDiff
<1>3. Par(A \cup {a}) = (Par(A) + 1) % 2 /\ IsFiniteSet(A \cup {a})
  BY <1>1, <1>2, ParSum
<1>4. Par(A) \in {0, 1}
  BY ParTypes
<1> QED BY <1>3, <1>4

(* A prefix that grows by t. *)
LEMMA ParGrow ==
  ASSUME NEW T, IsFiniteSet(T), NEW t, t \notin T, NEW z
  PROVE  /\ Par(T \cap z) \in {0, 1}
         /\ Par((T \cup {t}) \cap z) = IF t \in z THEN 1 - Par(T \cap z) ELSE Par(T \cap z)
<1>1. IsFiniteSet(T \cap z)
  BY FS_Intersection
<1>2. CASE t \in z
  <2>1. (T \cup {t}) \cap z = (T \cap z) \cup {t} /\ t \notin T \cap z
    BY <1>2
  <2> DEFINE A == T \cap z
  <2> HIDE DEF A
  <2>2. Par(A \cup {t}) = 1 - Par(A)
    BY <1>1, <2>1, ParAdd DEF A
  <2> QED BY <1>1, <1>2, <2>1, <2>2, ParTypes DEF A
<1>3. CASE t \notin z
  <2>1. (T \cup {t}) \cap z = T \cap z
    BY <1>3
  <2> QED BY <1>1, <1>3, <2>1, ParTypes
<1> QED BY <1>2, <1>3

-----------------------------------------------------------------------------
(* The checks.                                                              *)

d      == Distance
K      == d * d - 1
NX     == Len(XChecks(d))
Data   == 0 .. d * d - 1
Row0   == LogicalRow0(d)
Check(i) == IF i <= NX THEN XChecks(d)[i] ELSE ZChecks(d)[i - NX]
Supp(i)  == ToSet(Check(i))
Anc(i)   == d * d + i - 1

LEMMA Params == d \in {3, 5} /\ Rounds \in Nat \ {0} /\ K = d * d - 1 /\ K \in {8, 24}
BY ShotAssumption DEF d, K

(* The four corners of a face, or a pair beside or below each other. *)
Corners(c) == \E n \in Data : /\ c = <<n, n + d, n + 1, n + d + 1>>
                              /\ n + d + 1 \in Data /\ n % d # d - 1
Beside(c)  == \E n \in Data : c = <<n, n + 1>> /\ n + 1 \in Data /\ n % d # d - 1
Below(c)   == \E n \in Data : c = <<n, n + d>> /\ n + d \in Data

LEMMA FacesAre ==
  ASSUME NEW isX \in BOOLEAN
  PROVE  /\ FacesOf(d, isX) \in Seq(Seq(Int)) /\ Len(FacesOf(d, isX)) = ((d - 1) * (d - 1)) \div 2
         /\ \A i \in 1 .. ((d - 1) * (d - 1)) \div 2 : Corners(FacesOf(d, isX)[i])
<1> DEFINE F == ((d - 1) * (d - 1)) \div 2
           k(i) == IF IsX(d, 2 * i - 1) <=> isX THEN 2 * i - 1 ELSE 2 * i
<1>1. F \in Nat /\ \A i \in 1 .. F : k(i) \in 1 .. (d - 1) * (d - 1)
  BY Params
<1>2. \A j \in 1 .. (d - 1) * (d - 1) : Corners(Face(d, j)) /\ Face(d, j) \in Seq(Int)
  <2> SUFFICES ASSUME NEW j \in 1 .. (d - 1) * (d - 1) PROVE Corners(Face(d, j)) /\ Face(d, j) \in Seq(Int)
    OBVIOUS
  <2> DEFINE n == (((j - 1) \div (d - 1)) * d) + ((j - 1) % (d - 1))
  <2>1. n \in Data /\ n + d + 1 \in Data /\ n % d # d - 1
    <3>1. CASE d = 3
      BY <3>1 DEF Data
    <3>2. CASE d = 5
      BY <3>2 DEF Data
    <3> QED BY <3>1, <3>2, Params
  <2>2. Face(d, j) = <<n, n + d, n + 1, n + d + 1>>
    <3> DEFINE a == (j - 1) \div (d - 1)
               b == (j - 1) % (d - 1)
    <3>1. a \in Int /\ b \in Int
      BY Params
    <3>2. Face(d, j) = <<a * d + b, (a + 1) * d + b, a * d + (b + 1), (a + 1) * d + (b + 1)>>
      BY DEF Face, DataId
    <3> HIDE DEF a, b
    <3>3. (a + 1) * d + b = a * d + b + d /\ a * d + (b + 1) = a * d + b + 1
          /\ (a + 1) * d + (b + 1) = a * d + b + d + 1
      <4>1. CASE d = 3
        BY <3>1, <4>1
      <4>2. CASE d = 5
        BY <3>1, <4>2
      <4> QED BY <4>1, <4>2, Params
    <3>4. n = a * d + b
      BY DEF a, b
    <3> HIDE DEF n
    <3> QED BY <3>2, <3>3, <3>4
  <2>3. n \in Int
    BY <2>1 DEF Data
  <2> HIDE DEF n
  <2> QED BY <2>1, <2>2, <2>3, Params DEF Corners
<1>3. FacesOf(d, isX) = [i \in 1 .. F |-> Face(d, k(i))]
  BY DEF FacesOf
<1> HIDE DEF F, k
<1>4. \A i \in 1 .. F : Corners(Face(d, k(i))) /\ Face(d, k(i)) \in Seq(Int)
  BY <1>1, <1>2
<1>5. FacesOf(d, isX) \in Seq(Seq(Int)) /\ Len(FacesOf(d, isX)) = F /\ \A i \in 1 .. F : Corners(FacesOf(d, isX)[i])
  BY <1>1, <1>3, <1>4
<1> QED BY <1>5 DEF F

LEMMA ChecksAre ==
  /\ NX = K \div 2 /\ Len(ZChecks(d)) = K \div 2 /\ Nq = d * d + K /\ NX \in Nat
  /\ DOMAIN XChecks(d) = 1 .. NX /\ DOMAIN ZChecks(d) = 1 .. NX
  /\ \A i \in 1 .. NX : Corners(XChecks(d)[i]) \/ Beside(XChecks(d)[i])
  /\ \A i \in 1 .. NX : Corners(ZChecks(d)[i]) \/ Below(ZChecks(d)[i])
  /\ \A i \in 1 .. ((d - 1) * (d - 1)) \div 2 : ZChecks(d)[i] = FacesOf(d, FALSE)[i]
  /\ ZChecks(d)[((d - 1) * (d - 1)) \div 2 + 1] = <<DataId(d, 0, 0), DataId(d, 1, 0)>>
<1> DEFINE F == ((d - 1) * (d - 1)) \div 2
           xcol(c) == LET r == IF c % 2 = 0 THEN 0 ELSE d - 1
                      IN <<DataId(d, r, c - 1), DataId(d, r, c)>>
           zrow(r) == LET c == IF r % 2 = 1 THEN 0 ELSE d - 1
                      IN <<DataId(d, r - 1, c), DataId(d, r, c)>>
           xs == [c \in 1 .. d - 1 |-> xcol(c)]
           zs == [r \in 1 .. d - 1 |-> zrow(r)]
<1>1. F \in Nat /\ F + (d - 1) = K \div 2
  BY Params
<1>2. XChecks(d) = FacesOf(d, TRUE) \o xs /\ ZChecks(d) = FacesOf(d, FALSE) \o zs
  BY DEF XChecks, ZChecks
<1>3. \A c \in 1 .. d - 1 : Beside(xcol(c)) /\ xcol(c) \in Seq(Int)
  <2> SUFFICES ASSUME NEW c \in 1 .. d - 1 PROVE Beside(xcol(c)) /\ xcol(c) \in Seq(Int)
    OBVIOUS
  <2> DEFINE r == IF c % 2 = 0 THEN 0 ELSE d - 1
             n == r * d + c - 1
  <2>1. n \in Data /\ n + 1 \in Data /\ n % d # d - 1 /\ xcol(c) = <<n, n + 1>>
    <3>1. CASE d = 3
      BY <3>1 DEF Data, DataId
    <3>2. CASE d = 5
      BY <3>2 DEF Data, DataId
    <3> QED BY <3>1, <3>2, Params
  <2> HIDE DEF n, xcol
  <2>2. n \in Int
    BY <2>1 DEF Data
  <2> QED BY <2>1, <2>2 DEF Beside
<1>4. \A r \in 1 .. d - 1 : Below(zrow(r)) /\ zrow(r) \in Seq(Int)
  <2> SUFFICES ASSUME NEW r \in 1 .. d - 1 PROVE Below(zrow(r)) /\ zrow(r) \in Seq(Int)
    OBVIOUS
  <2> DEFINE c == IF r % 2 = 1 THEN 0 ELSE d - 1
             n == (r - 1) * d + c
  <2>1. n \in Data /\ n + d \in Data /\ zrow(r) = <<n, n + d>>
    <3>1. CASE d = 3
      BY <3>1 DEF Data, DataId
    <3>2. CASE d = 5
      BY <3>2 DEF Data, DataId
    <3> QED BY <3>1, <3>2, Params
  <2> HIDE DEF n, zrow
  <2>2. n \in Int
    BY <2>1 DEF Data
  <2> QED BY <2>1, <2>2, Params DEF Below
<1> HIDE DEF xcol, zrow
<1>5. /\ xs \in Seq(Seq(Int)) /\ zs \in Seq(Seq(Int)) /\ Len(xs) = d - 1 /\ Len(zs) = d - 1
      /\ \A c \in 1 .. d - 1 : xs[c] = xcol(c) /\ zs[c] = zrow(c)
  BY <1>3, <1>4, Params
<1> HIDE DEF xs, zs, F
<1>6. ASSUME NEW fs \in Seq(Seq(Int)), Len(fs) = F, NEW ss \in Seq(Seq(Int)), Len(ss) = d - 1
      PROVE  /\ Len(fs \o ss) = K \div 2 /\ DOMAIN (fs \o ss) = 1 .. K \div 2
             /\ \A i \in 1 .. K \div 2 : \/ i \in 1 .. F /\ (fs \o ss)[i] = fs[i]
                                         \/ i - F \in 1 .. d - 1 /\ (fs \o ss)[i] = ss[i - F]
  BY <1>1, <1>6, Params
<1>7. /\ FacesOf(d, TRUE) \in Seq(Seq(Int)) /\ Len(FacesOf(d, TRUE)) = F
      /\ FacesOf(d, FALSE) \in Seq(Seq(Int)) /\ Len(FacesOf(d, FALSE)) = F
      /\ \A i \in 1 .. F : Corners(FacesOf(d, TRUE)[i]) /\ Corners(FacesOf(d, FALSE)[i])
  BY FacesAre DEF F
<1>8. /\ Len(XChecks(d)) = K \div 2 /\ DOMAIN XChecks(d) = 1 .. K \div 2
      /\ \A i \in 1 .. K \div 2 : Corners(XChecks(d)[i]) \/ Beside(XChecks(d)[i])
  <2> DEFINE fs == FacesOf(d, TRUE)
  <2>1. fs \in Seq(Seq(Int)) /\ Len(fs) = F /\ \A i \in 1 .. F : Corners(fs[i])
    BY <1>7
  <2> HIDE DEF fs
  <2>2. /\ Len(fs \o xs) = K \div 2 /\ DOMAIN (fs \o xs) = 1 .. K \div 2
        /\ \A i \in 1 .. K \div 2 : \/ i \in 1 .. F /\ (fs \o xs)[i] = fs[i]
                                    \/ i - F \in 1 .. d - 1 /\ (fs \o xs)[i] = xs[i - F]
    BY <1>5, <1>6, <2>1
  <2>3. \A i \in 1 .. K \div 2 : Corners((fs \o xs)[i]) \/ Beside((fs \o xs)[i])
    BY <1>3, <1>5, <2>1, <2>2
  <2>4. XChecks(d) = fs \o xs
    BY <1>2 DEF fs
  <2> QED BY <2>2, <2>3, <2>4
<1>9. /\ Len(ZChecks(d)) = K \div 2 /\ DOMAIN ZChecks(d) = 1 .. K \div 2
      /\ \A i \in 1 .. K \div 2 : Corners(ZChecks(d)[i]) \/ Below(ZChecks(d)[i])
  <2> DEFINE fs == FacesOf(d, FALSE)
  <2>1. fs \in Seq(Seq(Int)) /\ Len(fs) = F /\ \A i \in 1 .. F : Corners(fs[i])
    BY <1>7
  <2> HIDE DEF fs
  <2>2. /\ Len(fs \o zs) = K \div 2 /\ DOMAIN (fs \o zs) = 1 .. K \div 2
        /\ \A i \in 1 .. K \div 2 : \/ i \in 1 .. F /\ (fs \o zs)[i] = fs[i]
                                    \/ i - F \in 1 .. d - 1 /\ (fs \o zs)[i] = zs[i - F]
    BY <1>5, <1>6, <2>1
  <2>3. \A i \in 1 .. K \div 2 : Corners((fs \o zs)[i]) \/ Below((fs \o zs)[i])
    BY <1>4, <1>5, <2>1, <2>2
  <2>4. ZChecks(d) = fs \o zs
    BY <1>2 DEF fs
  <2> QED BY <2>2, <2>3, <2>4
<1>10. NX = K \div 2 /\ NX \in Nat
  BY <1>8, Params DEF NX
<1>11. Nq = d * d + K
  <2>1. K \div 2 + K \div 2 = K
    BY Params
  <2>2. Nq = d * d + Len(XChecks(d)) + Len(ZChecks(d))
    BY DEF Nq, NumQubitsOf, d
  <2> QED BY <1>8, <1>9, <2>1, <2>2, Params
<1>12. ZChecks(d)[F + 1] = <<DataId(d, 0, 0), DataId(d, 1, 0)>> /\ \A i \in 1 .. F : ZChecks(d)[i] = FacesOf(d, FALSE)[i]
  <2> DEFINE fs == FacesOf(d, FALSE)
  <2>1. fs \in Seq(Seq(Int)) /\ Len(fs) = F
    BY <1>7
  <2> HIDE DEF fs
  <2>2. F + 1 \in 1 .. F + (d - 1) /\ 1 \in 1 .. d - 1
    BY <1>1, Params
  <2>3. (fs \o zs)[F + 1] = zs[1] /\ \A i \in 1 .. F : (fs \o zs)[i] = fs[i]
    <3>2. \A i \in 1 .. F + (d - 1) : (fs \o zs)[i] = IF i <= F THEN fs[i] ELSE zs[i - F]
      <4>1. \A i \in 1 .. Len(fs) + Len(zs) : (fs \o zs)[i] = IF i <= Len(fs) THEN fs[i] ELSE zs[i - Len(fs)]
        BY <1>5, <2>1, ConcatProperties
      <4>2. Len(fs) = F /\ Len(zs) = d - 1
        BY <1>5, <2>1
      <4> QED BY <4>1, <4>2
    <3>3. ~ (F + 1 <= F) /\ (F + 1) - F = 1 /\ \A i \in 1 .. F : i \in 1 .. F + (d - 1) /\ i <= F
      BY <1>1, <2>2, Params
    <3> QED BY <2>2, <3>2, <3>3
  <2>4. zs[1] = zrow(1)
    BY <1>5, <2>2
  <2>5. zrow(1) = <<DataId(d, 0, 0), DataId(d, 1, 0)>>
    BY DEF zrow
  <2> QED BY <1>2, <2>3, <2>4, <2>5 DEF fs
<1> QED BY <1>8, <1>9, <1>10, <1>11, <1>12 DEF F

LEMMA Sizes ==
  /\ NX \in Nat /\ K = 2 * NX /\ K \in Nat \ {0} /\ Nq = d * d + K /\ d * d = K + 1
  /\ \A i \in 1 .. K : \/ i \in 1 .. NX /\ Check(i) = XChecks(d)[i]
                       \/ i - NX \in 1 .. NX /\ i \notin 1 .. NX /\ Check(i) = ZChecks(d)[i - NX]
  /\ \A i \in 1 .. K : Corners(Check(i)) \/ (i <= NX /\ Beside(Check(i))) \/ (i > NX /\ Below(Check(i)))
<1>1. NX \in Nat /\ K = 2 * NX /\ K \in Nat \ {0} /\ Nq = d * d + K /\ d * d = K + 1
  BY ChecksAre, Params
<1>2. \A i \in 1 .. K : \/ i \in 1 .. NX /\ Check(i) = XChecks(d)[i]
                        \/ i - NX \in 1 .. NX /\ i \notin 1 .. NX /\ Check(i) = ZChecks(d)[i - NX]
  <2> SUFFICES ASSUME NEW i \in 1 .. K
               PROVE  \/ i \in 1 .. NX /\ Check(i) = XChecks(d)[i]
                      \/ i - NX \in 1 .. NX /\ i \notin 1 .. NX /\ Check(i) = ZChecks(d)[i - NX]
    OBVIOUS
  <2>1. CASE i <= NX
    BY <1>1, <2>1 DEF Check
  <2>2. CASE i > NX
    <3>1. i - NX \in 1 .. NX /\ i \notin 1 .. NX /\ ~ (i <= NX)
      BY <1>1, <2>2
    <3> QED BY <3>1 DEF Check
  <2> QED BY <1>1, <2>1, <2>2
<1>3. ASSUME NEW i \in 1 .. K
      PROVE  Corners(Check(i)) \/ (i <= NX /\ Beside(Check(i))) \/ (i > NX /\ Below(Check(i)))
  <2>1. CASE i \in 1 .. NX /\ Check(i) = XChecks(d)[i]
    <3>1. Corners(XChecks(d)[i]) \/ Beside(XChecks(d)[i])
      BY <2>1, ChecksAre
    <3> QED BY <2>1, <3>1
  <2>2. CASE i - NX \in 1 .. NX /\ i \notin 1 .. NX /\ Check(i) = ZChecks(d)[i - NX]
    <3>1. Corners(ZChecks(d)[i - NX]) \/ Below(ZChecks(d)[i - NX])
      BY <2>2, ChecksAre
    <3>2. i > NX
      BY <1>1, <2>2
    <3> QED BY <2>2, <3>1, <3>2
  <2> QED BY <1>2, <2>1, <2>2
<1> QED BY <1>1, <1>2, <1>3

(* The order of the CNOTs. *)
Order(i)     == Sorted(Check(i))
Width(i)     == Len(Check(i))
Prefix(i, n) == {Order(i)[j] : j \in 1 .. n}

LEMMA SortedIs ==
  ASSUME NEW n \in Data
  PROVE  /\ Sorted(<<n, n + d, n + 1, n + d + 1>>) = <<n, n + 1, n + d, n + d + 1>>
         /\ ToSet(<<n, n + d, n + 1, n + d + 1>>) = {n, n + 1, n + d, n + d + 1}
         /\ Sorted(<<n, n + 1>>) = <<n, n + 1>> /\ ToSet(<<n, n + 1>>) = {n, n + 1}
         /\ Sorted(<<n, n + d>>) = <<n, n + d>> /\ ToSet(<<n, n + d>>) = {n, n + d}
<1> DEFINE Up(t, D) == \A j, k \in D : j < k => t[j] < t[k]
<1>1. n \in Nat /\ d \in Nat /\ d >= 3
  BY Params DEF Data
<1>2. ASSUME NEW a \in Nat, NEW b \in Nat, a < b
      PROVE  Sorted(<<a, b>>) = <<a, b>> /\ ToSet(<<a, b>>) = {a, b}
  <2> DEFINE c == <<a, b>>
  <2>1. DOMAIN c = 1 .. 2 /\ c[1] = a /\ c[2] = b
    OBVIOUS
  <2> HIDE DEF c
  <2>2. ToSet(c) = {a, b}
    BY <2>1 DEF ToSet
  <2>3. c \in [1 .. 2 -> {a, b}] /\ Up(c, 1 .. 2)
    <3>1. <<a, b>> \in [1 .. 2 -> {a, b}]
      OBVIOUS
    <3> QED BY <1>2, <2>1, <3>1 DEF c
  <2>4. \A t \in [1 .. 2 -> {a, b}] : Up(t, 1 .. 2) => t = c
    <3> SUFFICES ASSUME NEW t \in [1 .. 2 -> {a, b}], Up(t, 1 .. 2) PROVE t = c
      OBVIOUS
    <3>1. t[1] \in {a, b} /\ t[2] \in {a, b} /\ t[1] < t[2]
      OBVIOUS
    <3>2. t[1] = c[1] /\ t[2] = c[2]
      BY <1>2, <2>1, <3>1
    <3>3. \A j \in 1 .. 2 : t[j] = c[j]
      BY <3>2
    <3> QED BY <2>3, <3>3
  <2>5. Sorted(c) = CHOOSE t \in [1 .. 2 -> {a, b}] : Up(t, 1 .. 2)
    BY <2>1, <2>2 DEF Sorted
  <2> HIDE DEF Up
  <2>6. Sorted(c) \in [1 .. 2 -> {a, b}] /\ Up(Sorted(c), 1 .. 2)
    BY <2>3, <2>5
  <2> QED BY <2>2, <2>4, <2>6 DEF c
<1>3. Sorted(<<n, n + d, n + 1, n + d + 1>>) = <<n, n + 1, n + d, n + d + 1>>
      /\ ToSet(<<n, n + d, n + 1, n + d + 1>>) = {n, n + 1, n + d, n + d + 1}
  <2> DEFINE c == <<n, n + d, n + 1, n + d + 1>>
             u == <<n, n + 1, n + d, n + d + 1>>
             S4 == {n, n + 1, n + d, n + d + 1}
  <2>1. /\ DOMAIN c = 1 .. 4 /\ c[1] = n /\ c[2] = n + d /\ c[3] = n + 1 /\ c[4] = n + d + 1
        /\ DOMAIN u = 1 .. 4 /\ u[1] = n /\ u[2] = n + 1 /\ u[3] = n + d /\ u[4] = n + d + 1
    OBVIOUS
  <2>2. u \in [1 .. 4 -> S4]
    OBVIOUS
  <2>3. ToSet(c) = S4
    <3> HIDE DEF c
    <3> QED BY <2>1 DEF ToSet
  <2> HIDE DEF c, u
  <2>4. Up(u, 1 .. 4)
    BY <1>1, <2>1
  <2>5. \A t \in [1 .. 4 -> S4] : Up(t, 1 .. 4) => t = u
    <3> SUFFICES ASSUME NEW t \in [1 .. 4 -> S4], Up(t, 1 .. 4) PROVE t = u
      OBVIOUS
    <3>1. /\ t[1] \in S4 /\ t[2] \in S4 /\ t[3] \in S4 /\ t[4] \in S4
          /\ t[1] < t[2] /\ t[2] < t[3] /\ t[3] < t[4]
      OBVIOUS
    <3>2. t[1] = u[1] /\ t[2] = u[2] /\ t[3] = u[3] /\ t[4] = u[4]
      BY <1>1, <2>1, <3>1
    <3>3. \A j \in 1 .. 4 : t[j] = u[j]
      BY <3>2
    <3> QED BY <2>2, <3>3
  <2>6. Sorted(c) = CHOOSE t \in [1 .. 4 -> S4] : Up(t, 1 .. 4)
    BY <2>1, <2>3 DEF Sorted
  <2> HIDE DEF Up, S4
  <2>7. Sorted(c) \in [1 .. 4 -> S4] /\ Up(Sorted(c), 1 .. 4)
    BY <2>2, <2>4, <2>6
  <2> QED BY <2>3, <2>5, <2>7 DEF c, u, S4
<1>4. n < n + 1 /\ n < n + d /\ n + 1 \in Nat /\ n + d \in Nat
  BY <1>1
<1> QED BY <1>1, <1>2, <1>3, <1>4

LEMMA PrefixStep ==
  \A i : /\ Prefix(i, 0) = {}
         /\ \A n \in Nat : Prefix(i, n + 1) = Prefix(i, n) \cup {Order(i)[n + 1]}
BY DEF Prefix

LEMMA Orders ==
  ASSUME NEW i \in 1 .. K
  PROVE  /\ Width(i) \in {2, 4} /\ DOMAIN Check(i) = 1 .. Width(i)
         /\ DOMAIN Order(i) = 1 .. Width(i) /\ Order(i) \in [1 .. Width(i) -> Data]
         /\ Supp(i) = Prefix(i, Width(i)) /\ Supp(i) \subseteq Data
         /\ \A j, k \in 1 .. Width(i) : j < k => Order(i)[j] < Order(i)[k]
<1> DEFINE Fits(c) == LET t == Sorted(c)
                      IN /\ Len(c) \in {2, 4} /\ DOMAIN c = 1 .. Len(c)
                         /\ DOMAIN t = 1 .. Len(c) /\ t \in [1 .. Len(c) -> Data]
                         /\ ToSet(c) = {t[j] : j \in 1 .. Len(c)} /\ ToSet(c) \subseteq Data
                         /\ \A j, k \in 1 .. Len(c) : j < k => t[j] < t[k]
<1>1. d \in Nat /\ d >= 3
  BY Params
<1>2. ASSUME NEW a \in Data, NEW b \in Data, a < b, Sorted(<<a, b>>) = <<a, b>>, ToSet(<<a, b>>) = {a, b}
      PROVE  Fits(<<a, b>>)
  <2> DEFINE c == <<a, b>>
  <2>1. c[1] = a /\ c[2] = b /\ Len(c) = 2 /\ DOMAIN c = 1 .. 2 /\ c \in [1 .. 2 -> Data]
    BY DEF Data
  <2>2. Sorted(c) = c /\ ToSet(c) = {a, b}
    BY <1>2
  <2> HIDE DEF c
  <2>3. {a, b} = {c[j] : j \in 1 .. 2}
    BY <2>1
  <2>4. \A j, k \in 1 .. 2 : j < k => c[j] < c[k]
    BY <1>2, <2>1
  <2>5. Fits(c)
    BY <2>1, <2>2, <2>3, <2>4
  <2> QED BY <2>5 DEF c
<1>3. CASE Corners(Check(i))
  <2>1. PICK n \in Data : Check(i) = <<n, n + d, n + 1, n + d + 1>> /\ n + d + 1 \in Data
    BY <1>3 DEF Corners
  <2> DEFINE c == <<n, n + d, n + 1, n + d + 1>>
             u == <<n, n + 1, n + d, n + d + 1>>
  <2>2. n \in Nat /\ n + 1 \in Data /\ n + d \in Data /\ n + d + 1 \in Data
    BY <1>1, <2>1 DEF Data
  <2>3. Sorted(c) = u /\ ToSet(c) = {n, n + 1, n + d, n + d + 1}
    BY SortedIs
  <2>4. Len(c) = 4 /\ DOMAIN c = 1 .. 4
    OBVIOUS
  <2>5. DOMAIN u = 1 .. 4 /\ u[1] = n /\ u[2] = n + 1 /\ u[3] = n + d /\ u[4] = n + d + 1
    OBVIOUS
  <2>6. u \in [1 .. 4 -> Data]
    BY <2>2
  <2> HIDE DEF c, u
  <2>7. {n, n + 1, n + d, n + d + 1} = {u[j] : j \in 1 .. 4}
    BY <2>5
  <2>8. \A j, k \in 1 .. 4 : j < k => u[j] < u[k]
    BY <1>1, <2>2, <2>5
  <2>9. ToSet(c) \subseteq Data
    BY <2>2, <2>3
  <2>10. Fits(c)
    BY <2>3, <2>4, <2>5, <2>6, <2>7, <2>8, <2>9
  <2>11. Fits(Check(i))
    BY <2>1, <2>10 DEF c
  <2> QED BY <2>11 DEF Order, Width, Supp, Prefix
<1>4. CASE Beside(Check(i))
  <2>1. PICK n \in Data : Check(i) = <<n, n + 1>> /\ n + 1 \in Data
    BY <1>4 DEF Beside
  <2>2. n < n + 1
    BY DEF Data
  <2>3. Fits(<<n, n + 1>>)
    BY <1>2, <2>1, <2>2, SortedIs
  <2>4. Fits(Check(i))
    BY <2>1, <2>3
  <2> QED BY <2>4 DEF Order, Width, Supp, Prefix
<1>5. CASE Below(Check(i))
  <2>1. PICK n \in Data : Check(i) = <<n, n + d>> /\ n + d \in Data
    BY <1>5 DEF Below
  <2>2. n < n + d
    BY <1>1 DEF Data
  <2>3. Fits(<<n, n + d>>)
    BY <1>2, <2>1, <2>2, SortedIs
  <2>4. Fits(Check(i))
    BY <2>1, <2>3
  <2> QED BY <2>4 DEF Order, Width, Supp, Prefix
<1> QED BY <1>3, <1>4, <1>5, Sizes

LEMMA PrefixFacts ==
  ASSUME NEW i \in 1 .. K
  PROVE  /\ \A n \in 0 .. Width(i) : Prefix(i, n) \subseteq Data /\ Prefix(i, n) \subseteq Supp(i)
         /\ \A n \in 1 .. Width(i) : Order(i)[n] \in Data /\ Order(i)[n] \notin Prefix(i, n - 1)
                                     /\ Prefix(i, n) = Prefix(i, n - 1) \cup {Order(i)[n]}
<1>1. ASSUME NEW n \in 0 .. Width(i)
      PROVE  Prefix(i, n) \subseteq Data /\ Prefix(i, n) \subseteq Supp(i)
  <2>1. 1 .. n \subseteq 1 .. Width(i)
    BY Orders
  <2> QED BY <2>1, Orders DEF Prefix
<1>2. ASSUME NEW n \in 1 .. Width(i)
      PROVE  /\ Order(i)[n] \in Data /\ Order(i)[n] \notin Prefix(i, n - 1)
             /\ Prefix(i, n) = Prefix(i, n - 1) \cup {Order(i)[n]}
  <2>1. Order(i)[n] \in Data
    BY Orders
  <2>2. \A j \in 1 .. n - 1 : Order(i)[j] < Order(i)[n] /\ Order(i)[j] \in Data
    BY Orders
  <2>3. Order(i)[n] \notin Prefix(i, n - 1)
    BY <2>1, <2>2 DEF Prefix, Data
  <2>4. n - 1 \in Nat /\ (n - 1) + 1 = n
    BY Orders
  <2> QED BY <2>1, <2>3, <2>4, PrefixStep
<1> QED BY <1>1, <1>2

LEMMA Row0Is == Row0 = 0 .. d - 1 /\ Row0 \subseteq Data
<1>1. \A c \in 0 .. d - 1 : DataId(d, 0, c) = c
  BY Params DEF DataId
<1>2. Row0 = 0 .. d - 1
  BY <1>1 DEF Row0, LogicalRow0
<1>3. d - 1 <= d * d - 1
  BY Params
<1> QED BY <1>2, <1>3, Params DEF Data

(* Every qubit of the logical row is in a Z check. *)
LEMMA RowChecked ==
  ASSUME NEW q \in Row0
  PROVE  \E i \in NX + 1 .. K : q \in Supp(i)
<1> DEFINE F == ((d - 1) * (d - 1)) \div 2
<1>1. q \in 0 .. d - 1
  BY Row0Is
<1>2. \A j \in 1 .. NX : NX + j \in NX + 1 .. K /\ Check(NX + j) = ZChecks(d)[j]
  <2>1. \A j \in 1 .. NX : NX + j \in NX + 1 .. K /\ ~ (NX + j <= NX) /\ (NX + j) - NX = j
    BY Sizes
  <2> QED BY <2>1 DEF Check
<1>3. \A j \in 1 .. NX, k \in 1 .. 2 : ZChecks(d)[j][k] = q /\ k \in DOMAIN ZChecks(d)[j] => \E i \in NX + 1 .. K : q \in Supp(i)
  <2> SUFFICES ASSUME NEW j \in 1 .. NX, NEW k \in 1 .. 2, ZChecks(d)[j][k] = q, k \in DOMAIN ZChecks(d)[j]
               PROVE  \E i \in NX + 1 .. K : q \in Supp(i)
    OBVIOUS
  <2>1. q \in Supp(NX + j)
    BY <1>2 DEF Supp, ToSet
  <2> QED BY <1>2, <2>1
<1>4. CASE q = 0
  <2>1. F + 1 \in 1 .. NX
    BY ChecksAre, Params
  <2>2. ZChecks(d)[F + 1][1] = 0 /\ 1 \in DOMAIN ZChecks(d)[F + 1]
    <3>1. DataId(d, 0, 0) = 0
      BY Params DEF DataId
    <3>2. \A a, b : <<a, b>>[1] = a /\ 1 \in DOMAIN <<a, b>>
      OBVIOUS
    <3> QED BY <3>1, <3>2, ChecksAre
  <2> HIDE DEF F
  <2> QED BY <1>3, <1>4, <2>1, <2>2
<1>5. CASE q # 0
  <2> DEFINE j == (q + 1) \div 2
  <2>1. j \in 1 .. F /\ j \in 1 .. NX /\ 2 * j - 1 \in 1 .. d - 1 /\ q \in {2 * j - 1, 2 * j}
    <3>1. CASE d = 3
      BY <1>1, <1>5, <3>1, ChecksAre, Params
    <3>2. CASE d = 5
      BY <1>1, <1>5, <3>2, ChecksAre, Params
    <3> QED BY <3>1, <3>2, Params
  <2>2. IsX(d, 2 * j - 1)
    <3>1. CASE d = 3
      BY <2>1, <3>1 DEF IsX
    <3>2. CASE d = 5
      <4>1. IsX(5, 1) /\ IsX(5, 3)
        BY DEF IsX
      <4>2. 2 * j - 1 \in {1, 3}
        BY <2>1, <3>2
      <4> HIDE DEF j
      <4> QED BY <3>2, <4>1, <4>2
    <3> QED BY <3>1, <3>2, Params
  <2>3. FacesOf(d, FALSE)[j] = Face(d, 2 * j)
    BY <2>1, <2>2 DEF FacesOf
  <2>4. Face(d, 2 * j)[1] = 2 * j - 1 /\ Face(d, 2 * j)[3] = 2 * j /\ DOMAIN Face(d, 2 * j) = 1 .. 4
    <3>1. (2 * j - 1) \div (d - 1) = 0 /\ (2 * j - 1) % (d - 1) = 2 * j - 1
      <4> DEFINE b == 2 * j - 1
      <4>1. b \in Int /\ b % 2 = 1 /\ b \in 1 .. d - 1
        BY <2>1
      <4> HIDE DEF b
      <4>2. b \in 1 .. d - 2
        BY <4>1, Params
      <4>3. b \div (d - 1) = 0 /\ b % (d - 1) = b
        <5>1. CASE d = 3
          BY <4>2, <5>1
        <5>2. CASE d = 5
          BY <4>2, <5>2
        <5> QED BY <5>1, <5>2, Params
      <4> QED BY <4>3 DEF b
    <3> HIDE DEF j
    <3>2. Face(d, 2 * j) = <<DataId(d, 0, 2 * j - 1), DataId(d, 1, 2 * j - 1), DataId(d, 0, 2 * j), DataId(d, 1, 2 * j)>>
      BY <2>1, <3>1 DEF Face
    <3>3. DataId(d, 0, 2 * j - 1) = 2 * j - 1 /\ DataId(d, 0, 2 * j) = 2 * j
      BY <2>1, Params DEF DataId
    <3> QED BY <3>2, <3>3
  <2>5. ZChecks(d)[j] = Face(d, 2 * j)
    BY <2>1, <2>3, ChecksAre
  <2>6. PICK k \in {1, 3} : Face(d, 2 * j)[k] = q
    BY <2>1, <2>4
  <2>7. q \in Supp(NX + j) /\ NX + j \in NX + 1 .. K
    BY <1>2, <2>1, <2>4, <2>5, <2>6 DEF Supp, ToSet
  <2> QED BY <2>7
<1> QED BY <1>4, <1>5

(* The order in which an X check takes its qubits keeps the logical row     *)
(* together: it is met by one of them after the first CNOT alone.           *)
LEMMA RowTogether ==
  ASSUME NEW i \in 1 .. NX, NEW n \in 0 .. Width(i), Par(Prefix(i, n) \cap Row0) = 1
  PROVE  \E q \in Row0 : Prefix(i, n) = {q}
<1>1. i \in 1 .. K /\ i <= NX /\ ~ (i > NX)
  BY Sizes
<1>2. d \in Nat /\ d >= 3
  BY Params
<1>3. IsFiniteSet(Prefix(i, 1)) /\ Width(i) \in {2, 4}
  <2>1. Width(i) \in {2, 4}
    BY <1>1, Orders
  <2>2. Prefix(i, 1) \subseteq Data
    <3>1. 1 \in 0 .. Width(i)
      BY <2>1
    <3> QED BY <1>1, <3>1, PrefixFacts
  <2>3. IsFiniteSet(Data)
    BY Params, FS_Interval DEF Data
  <2> QED BY <2>1, <2>2, <2>3, FS_Subset
<1>4. PICK m \in Data : /\ m % d # d - 1
                        /\ \/ Order(i) = <<m, m + 1, m + d, m + d + 1>> /\ Width(i) = 4
                           \/ Order(i) = <<m, m + 1>> /\ Width(i) = 2
  <2>1. CASE Corners(Check(i))
    BY <2>1, SortedIs DEF Corners, Order, Width
  <2>2. CASE Beside(Check(i))
    BY <2>2, SortedIs DEF Beside, Order, Width
  <2> QED BY <1>1, <2>1, <2>2, Sizes
<1>5. m \in Nat /\ (m \in Row0 <=> m + 1 \in Row0) /\ m + d \notin Row0 /\ m + d + 1 \notin Row0
  <2>1. m \in Nat
    BY DEF Data
  <2>2. m < d => m % d = m
    BY <1>2, <2>1
  <2> QED BY <1>2, <1>4, <2>1, <2>2, Row0Is
<1>6. Order(i)[1] = m /\ Order(i)[2] = m + 1
  BY <1>4
<1>7. n # 0
  <2>1. Prefix(i, 0) \cap Row0 = {}
    BY PrefixStep
  <2> QED BY <2>1, ParSmall
<1>8. CASE n = 1
  <2>1. Prefix(i, 1) = {m}
    BY <1>6 DEF Prefix
  <2>2. m \in Row0
    <3>1. CASE m \notin Row0
      <4>1. {m} \cap Row0 = {}
        BY <3>1
      <4> QED BY <1>8, <2>1, <4>1, ParSmall
    <3> QED BY <3>1
  <2> QED BY <1>8, <2>1, <2>2
<1>9. CASE n > 1
  <2>1. Prefix(i, n) \cap Row0 = {m, m + 1} \cap Row0
    <3>1. \A j \in 1 .. n : Order(i)[j] \in {m, m + 1, m + d, m + d + 1}
      BY <1>4, <1>9
    <3>2. 1 \in 1 .. n /\ 2 \in 1 .. n
      BY <1>9
    <3>3. m \in Prefix(i, n) /\ m + 1 \in Prefix(i, n)
      BY <1>6, <3>2 DEF Prefix
    <3> QED BY <1>5, <3>1, <3>3 DEF Prefix
  <2>2. CASE m \in Row0
    <3>1. {m, m + 1} \cap Row0 = {m} \cup {m + 1} /\ m + 1 \notin {m}
      BY <1>5, <2>2
    <3>2. Par({m} \cup {m + 1}) = 1 - Par({m})
      BY <3>1, ParAdd, FS_Singleton
    <3>3. Par({m}) = 1
      BY ParSmall
    <3>4. Par(Prefix(i, n) \cap Row0) = 0
      BY <2>1, <3>1, <3>2, <3>3
    <3> QED BY <3>4
  <2>3. CASE m \notin Row0
    <3>1. {m, m + 1} \cap Row0 = {}
      BY <1>5, <2>3
    <3> QED BY <2>1, <3>1, ParSmall
  <2> QED BY <2>2, <2>3
<1> QED BY <1>3, <1>7, <1>8, <1>9

(* What the self-check of the builder gives. *)
LEMMA EvenOverlaps ==
  ASSUME SelfCheck(d), NEW i \in 1 .. NX
  PROVE  /\ \A j \in NX + 1 .. K : Par(Supp(i) \cap Supp(j)) = 0
         /\ Par(Supp(i) \cap Row0) = 0
<1>1. i \in DOMAIN XChecks(d) /\ Supp(i) = ToSet(XChecks(d)[i])
  BY ChecksAre, Sizes DEF Supp, Check
<1>2. ASSUME NEW j \in NX + 1 .. K PROVE Par(Supp(i) \cap Supp(j)) = 0
  <2>1. j - NX \in DOMAIN ZChecks(d) /\ ~ (j <= NX)
    BY ChecksAre, Sizes
  <2>2. Supp(j) = ToSet(ZChecks(d)[j - NX])
    BY <2>1 DEF Supp, Check
  <2>3. Even(ToSet(XChecks(d)[i]) \cap ToSet(ZChecks(d)[j - NX]))
    BY <1>1, <2>1 DEF SelfCheck
  <2> QED BY <1>1, <2>2, <2>3 DEF Even, Par
<1>3. Par(Supp(i) \cap Row0) = 0
  BY <1>1 DEF SelfCheck, Even, Par, Row0
<1> QED BY <1>2, <1>3

-----------------------------------------------------------------------------
(* The program. *)

LEMMA Upwards ==
  ASSUME NEW N \in Nat, NEW T, 0 \in T, \A i \in 1 .. N : i - 1 \in T => i \in T
  PROVE  0 .. N \subseteq T
BY E!Upwards, NqNat

(* The parts of a flattened sequence, one behind the other. *)
Parts(flat, seqs, off) ==
  /\ off \in [1 .. Len(seqs) + 1 -> Nat]
  /\ off[1] = 0 /\ Len(flat) = off[Len(seqs) + 1]
  /\ \A i \in 1 .. Len(seqs) : off[i + 1] = off[i] + Len(seqs[i])
  /\ \A i \in 1 .. Len(seqs) : \A j \in 1 .. Len(seqs[i]) :
       off[i] + j \in DOMAIN flat /\ flat[off[i] + j] = seqs[i][j]

LEMMA Flat ==
  ASSUME NEW U, NEW seqs \in Seq(Seq(U)), Len(seqs) > 0
  PROVE  FlattenSeq(seqs) \in Seq(U) /\ \E off : Parts(FlattenSeq(seqs), seqs, off)
<1> DEFINE N == Len(seqs)
           V == Seq(U)
           F == [i \in 1 .. N |-> [s \in V |-> s \o seqs[i]]]
           G(h) == [i \in 1 .. N |-> IF i = 1 THEN seqs[i] ELSE h[i - 1] \o seqs[i]]
<1>1. N \in Nat /\ N > 0 /\ \A i \in 1 .. N : seqs[i] \in V
  OBVIOUS
<1>2. \A s, t \in V : s \o t \in V
  OBVIOUS
<1>3. F \in [1 .. N -> [V -> V]] /\ \A i \in 1 .. N, s \in V : F[i][s] = s \o seqs[i]
  <2> HIDE DEF V
  <2> QED BY <1>1, <1>2
<1>4. << >> \in V
  OBVIOUS
<1> HIDE DEF F, V
<1>5. PICK g \in [0 .. N -> V] : g[0] = << >> /\ \A i \in 1 .. N : g[i] = F[i][g[i - 1]]
  <2>1. E!Computes(N, V, << >>)
    BY <1>1, <1>4, E!Iterates, NqNat
  <2> HIDE DEF N
  <2> QED BY <1>3, <2>1 DEF E!Computes
<1> HIDE DEF N
<1>6. \A i \in 1 .. N : g[i] = g[i - 1] \o seqs[i] /\ g[i - 1] \in V /\ g[i] \in V
  <2>1. \A i \in 1 .. N : i - 1 \in 0 .. N /\ i \in 0 .. N
    BY <1>1
  <2> QED BY <1>3, <1>5, <2>1
<1>7. g[1] = seqs[1]
  <2>1. 1 \in 1 .. N /\ 1 - 1 = 0
    BY <1>1
  <2>2. g[1] = << >> \o seqs[1]
    <3>1. g[1] = g[1 - 1] \o seqs[1]
      BY <1>6, <2>1
    <3> QED BY <1>5, <2>1, <3>1
  <2> QED BY <1>1, <2>1, <2>2 DEF V
<1> DEFINE f == [i \in 1 .. N |-> g[i]]
           h == CHOOSE k : k = G(k)
<1>8. f = G(f)
  <2>1. ASSUME NEW i \in 1 .. N PROVE f[i] = IF i = 1 THEN seqs[i] ELSE f[i - 1] \o seqs[i]
    <3>1. CASE i = 1
      BY <1>7, <3>1
    <3>2. CASE i # 1
      <4>1. i - 1 \in 1 .. N
        BY <1>1, <3>2
      <4> QED BY <1>6, <3>2, <4>1
    <3> QED BY <3>1, <3>2
  <2> HIDE DEF f
  <2>2. f = [i \in 1 .. N |-> f[i]]
    BY DEF f
  <2> QED BY <2>1, <2>2
<1>9. h = G(h)
  <2> HIDE DEF G, f
  <2> QED BY <1>8
<1>10. FlattenSeq(seqs) = h[N]
  <2>1. ~ (N = 0)
    BY <1>1
  <2> QED BY <2>1 DEF FlattenSeq, N
<1> HIDE DEF h, f
<1>11. \A i \in 1 .. N : h[i] = IF i = 1 THEN seqs[i] ELSE h[i - 1] \o seqs[i]
  BY <1>9
<1>12. h[N] = g[N]
  <2> DEFINE T == {i \in 0 .. N : i = 0 \/ h[i] = g[i]}
  <2>1. 0 \in T
    BY <1>1
  <2>2. ASSUME NEW i \in 1 .. N, i - 1 \in T PROVE i \in T
    <3>1. CASE i = 1
      BY <1>1, <1>7, <1>11, <3>1
    <3>2. CASE i # 1
      <4>1. h[i - 1] = g[i - 1]
        BY <2>2, <3>2
      <4>2. h[i] = g[i]
        BY <1>6, <1>11, <3>2, <4>1
      <4> QED BY <4>2
    <3> QED BY <3>1, <3>2
  <2> HIDE DEF T
  <2>3. 0 .. N \subseteq T
    BY <1>1, <2>1, <2>2, Upwards
  <2>4. N \in T
    BY <1>1, <2>3
  <2> QED BY <1>1, <2>4 DEF T
<1> DEFINE off == [i \in 1 .. N + 1 |-> Len(g[i - 1])]
<1>13. \A i \in 0 .. N : g[i] \in Seq(U)
  BY <1>5 DEF V
<1>14. off \in [1 .. N + 1 -> Nat] /\ \A i \in 1 .. N + 1 : off[i] = Len(g[i - 1])
  <2>1. \A i \in 1 .. N + 1 : i - 1 \in 0 .. N
    BY <1>1
  <2> QED BY <1>13, <2>1
<1> HIDE DEF off
<1>15. off[1] = 0
  <2>1. 1 \in 1 .. N + 1 /\ 1 - 1 = 0
    BY <1>1
  <2> QED BY <1>5, <1>14, <2>1
<1>16. \A i \in 1 .. N : i \in 1 .. N + 1 /\ i + 1 \in 1 .. N + 1 /\ (i + 1) - 1 = i
  BY <1>1
<1>17. \A i \in 1 .. N : /\ Len(g[i]) = Len(g[i - 1]) + Len(seqs[i])
                         /\ \A j \in 1 .. Len(g[i - 1]) : g[i][j] = g[i - 1][j]
                         /\ \A j \in 1 .. Len(seqs[i]) : g[i][Len(g[i - 1]) + j] = seqs[i][j]
  <2> SUFFICES ASSUME NEW i \in 1 .. N
               PROVE  /\ Len(g[i]) = Len(g[i - 1]) + Len(seqs[i])
                      /\ \A j \in 1 .. Len(g[i - 1]) : g[i][j] = g[i - 1][j]
                      /\ \A j \in 1 .. Len(seqs[i]) : g[i][Len(g[i - 1]) + j] = seqs[i][j]
    OBVIOUS
  <2> DEFINE s == g[i - 1]
             t == seqs[i]
  <2>1. g[i] = s \o t /\ s \in Seq(U) /\ t \in Seq(U)
    BY <1>1, <1>6 DEF V
  <2> HIDE DEF s, t
  <2>2. /\ Len(s \o t) = Len(s) + Len(t)
        /\ \A j \in 1 .. Len(s) + Len(t) : (s \o t)[j] = IF j <= Len(s) THEN s[j] ELSE t[j - Len(s)]
    BY <2>1, ConcatProperties
  <2>3. Len(s) \in Nat /\ Len(t) \in Nat
    BY <2>1
  <2>4. \A j \in 1 .. Len(s) : j \in 1 .. Len(s) + Len(t) /\ j <= Len(s)
    BY <2>3
  <2>5. \A j \in 1 .. Len(t) : /\ Len(s) + j \in 1 .. Len(s) + Len(t) /\ ~ (Len(s) + j <= Len(s))
                               /\ (Len(s) + j) - Len(s) = j
    BY <2>3
  <2>6. /\ Len(g[i]) = Len(s) + Len(t)
        /\ \A j \in 1 .. Len(s) : g[i][j] = s[j]
        /\ \A j \in 1 .. Len(t) : g[i][Len(s) + j] = t[j]
    BY <2>1, <2>2, <2>4, <2>5
  <2> QED BY <2>6 DEF s, t
<1>18. \A i \in 1 .. N : off[i + 1] = off[i] + Len(seqs[i])
  <2> SUFFICES ASSUME NEW i \in 1 .. N PROVE off[i + 1] = off[i] + Len(seqs[i])
    OBVIOUS
  <2>1. off[i] = Len(g[i - 1]) /\ off[i + 1] = Len(g[(i + 1) - 1]) /\ (i + 1) - 1 = i
    BY <1>14, <1>16
  <2>2. Len(g[i]) = Len(g[i - 1]) + Len(seqs[i])
    BY <1>17
  <2> QED BY <2>1, <2>2
<1> DEFINE Fits(n) == \A i \in 1 .. n : \A j \in 1 .. Len(seqs[i]) :
                        off[i] + j \in 1 .. Len(g[n]) /\ g[n][off[i] + j] = seqs[i][j]
           T == {n \in 0 .. N : Fits(n)}
<1>19. 0 \in T
  BY <1>1
<1>20. ASSUME NEW n \in 1 .. N, n - 1 \in T PROVE n \in T
  <2>1. ASSUME NEW i \in 1 .. n, NEW j \in 1 .. Len(seqs[i])
        PROVE  off[i] + j \in 1 .. Len(g[n]) /\ g[n][off[i] + j] = seqs[i][j]
    <3>1. /\ Len(g[n]) = Len(g[n - 1]) + Len(seqs[n]) /\ Len(seqs[n]) \in Nat /\ Len(g[n - 1]) \in Nat
          /\ n - 1 \in 0 .. N
      <4>1. n - 1 \in 0 .. N
        BY <1>1
      <4>2. g[n - 1] \in Seq(U) /\ seqs[n] \in Seq(U)
        BY <1>1, <1>13, <4>1 DEF V
      <4>3. Len(g[n - 1]) \in Nat /\ Len(seqs[n]) \in Nat
        BY <4>2
      <4> QED BY <1>17, <4>1, <4>3
    <3>2. CASE i = n
      <4>1. off[i] = Len(g[n - 1]) /\ j \in 1 .. Len(seqs[n])
        BY <1>14, <1>16, <3>2
      <4>2. g[n][Len(g[n - 1]) + j] = seqs[n][j]
        BY <1>17, <4>1
      <4> QED BY <3>1, <3>2, <4>1, <4>2
    <3>3. CASE i # n
      <4>1. i \in 1 .. n - 1
        BY <3>3
      <4>2. off[i] + j \in 1 .. Len(g[n - 1]) /\ g[n - 1][off[i] + j] = seqs[i][j]
        BY <1>20, <4>1
      <4>3. g[n][off[i] + j] = g[n - 1][off[i] + j]
        BY <1>17, <4>2
      <4>4. off[i] + j \in 1 .. Len(g[n])
        <5> DEFINE k == off[i] + j
                   a == Len(g[n - 1])
                   b == Len(seqs[n])
                   c == Len(g[n])
        <5>1. k \in 1 .. a /\ a \in Nat /\ b \in Nat /\ c = a + b
          BY <3>1, <4>2
        <5> HIDE DEF k, a, b, c
        <5>2. k \in 1 .. c
          BY <5>1
        <5> QED BY <5>2 DEF k, c
      <4> QED BY <4>2, <4>3, <4>4
    <3> QED BY <3>2, <3>3
  <2> QED BY <2>1
<1>21. Fits(N)
  <2> HIDE DEF Fits
  <2>1. N \in T
    <3> HIDE DEF T
    <3>1. 0 .. N \subseteq T
      BY <1>1, <1>19, <1>20, Upwards
    <3> QED BY <1>1, <3>1
  <2> QED BY <2>1
<1>22. FlattenSeq(seqs) = g[N] /\ g[N] \in Seq(U) /\ DOMAIN g[N] = 1 .. Len(g[N]) /\ Len(g[N]) = off[N + 1]
  <2>1. N \in 0 .. N /\ N + 1 \in 1 .. N + 1 /\ (N + 1) - 1 = N
    BY <1>1
  <2> QED BY <1>10, <1>12, <1>13, <1>14, <2>1
<1>23. Parts(g[N], seqs, off)
  BY <1>14, <1>15, <1>18, <1>21, <1>22 DEF Parts, N
<1> QED BY <1>22, <1>23

LEMMA PartsJoin ==
  ASSUME NEW U, NEW f \in Seq(U), NEW g \in Seq(U), NEW ss \in Seq(Seq(U)), NEW ts \in Seq(Seq(U)),
         NEW o, Parts(f, ss, o), NEW p, Parts(g, ts, p)
  PROVE  \E q : Parts(f \o g, ss \o ts, q)
<1> DEFINE M == Len(ss)
           N == Len(ts)
           A == Len(f)
           B == Len(g)
           us == ss \o ts
           q == [i \in 1 .. M + N + 1 |-> IF i <= M THEN o[i] ELSE A + p[i - M]]
<1>1. M \in Nat /\ N \in Nat /\ A \in Nat /\ B \in Nat
  OBVIOUS
<1>2. /\ o \in [1 .. M + 1 -> Nat] /\ o[1] = 0 /\ A = o[M + 1]
      /\ p \in [1 .. N + 1 -> Nat] /\ p[1] = 0 /\ B = p[N + 1]
  BY DEF Parts
<1>3. /\ \A i \in 1 .. M : o[i + 1] = o[i] + Len(ss[i])
      /\ \A i \in 1 .. N : p[i + 1] = p[i] + Len(ts[i])
      /\ \A i \in 1 .. M : \A j \in 1 .. Len(ss[i]) : o[i] + j \in 1 .. A /\ f[o[i] + j] = ss[i][j]
      /\ \A i \in 1 .. N : \A j \in 1 .. Len(ts[i]) : p[i] + j \in 1 .. B /\ g[p[i] + j] = ts[i][j]
  <2>1. DOMAIN f = 1 .. A /\ DOMAIN g = 1 .. B
    OBVIOUS
  <2>2. \A i \in 1 .. M : o[i + 1] = o[i] + Len(ss[i])
    BY DEF Parts
  <2>3. \A i \in 1 .. N : p[i + 1] = p[i] + Len(ts[i])
    BY DEF Parts
  <2>4. \A i \in 1 .. M : \A j \in 1 .. Len(ss[i]) : o[i] + j \in DOMAIN f /\ f[o[i] + j] = ss[i][j]
    BY DEF Parts
  <2>5. \A i \in 1 .. N : \A j \in 1 .. Len(ts[i]) : p[i] + j \in DOMAIN g /\ g[p[i] + j] = ts[i][j]
    BY DEF Parts
  <2> QED BY <2>1, <2>2, <2>3, <2>4, <2>5
<1>4. /\ Len(us) = M + N
      /\ \A i \in 1 .. M + N : us[i] = IF i <= M THEN ss[i] ELSE ts[i - M]
  BY ConcatProperties
<1>5. /\ Len(f \o g) = A + B /\ DOMAIN (f \o g) = 1 .. A + B
      /\ \A i \in 1 .. A + B : (f \o g)[i] = IF i <= A THEN f[i] ELSE g[i - A]
  <2>1. f \o g \in Seq(U)
    OBVIOUS
  <2> QED BY <2>1, ConcatProperties
<1> HIDE DEF M, N, A, B, us
<1>6. q \in [1 .. M + N + 1 -> Nat]
  <2>1. \A i \in 1 .. M + N + 1 : IF i <= M THEN i \in 1 .. M + 1 ELSE i - M \in 1 .. N + 1
    BY <1>1
  <2> QED BY <1>1, <1>2, <2>1
<1>7. \A i \in 1 .. M + N + 1 : q[i] = IF i <= M THEN o[i] ELSE A + p[i - M]
  OBVIOUS
<1>8. \A i \in 1 .. M + 1 : q[i] = o[i]
  <2> SUFFICES ASSUME NEW i \in 1 .. M + 1 PROVE q[i] = o[i]
    OBVIOUS
  <2>1. CASE i = M + 1
    <3>1. i \in 1 .. M + N + 1 /\ ~ (i <= M) /\ i - M = 1
      BY <1>1, <2>1
    <3> QED BY <1>1, <1>2, <1>7, <2>1, <3>1
  <2>2. CASE i # M + 1
    <3>1. i \in 1 .. M + N + 1 /\ i <= M
      BY <1>1, <2>2
    <3> QED BY <1>7, <3>1
  <2> QED BY <2>1, <2>2
<1>9. \A i \in 1 .. N + 1 : q[M + i] = A + p[i]
  <2> SUFFICES ASSUME NEW i \in 1 .. N + 1 PROVE q[M + i] = A + p[i]
    OBVIOUS
  <2>1. M + i \in 1 .. M + N + 1 /\ ~ (M + i <= M) /\ (M + i) - M = i
    BY <1>1
  <2> QED BY <1>7, <2>1
<1> HIDE DEF q
<1>10. q[1] = 0 /\ q[M + N + 1] = A + B
  <2>1. 1 \in 1 .. M + 1 /\ N + 1 \in 1 .. N + 1 /\ M + (N + 1) = M + N + 1
    BY <1>1
  <2> QED BY <1>2, <1>8, <1>9, <2>1
<1>11. ASSUME NEW i \in 1 .. M + N
       PROVE  /\ q[i + 1] = q[i] + Len(us[i])
              /\ \A j \in 1 .. Len(us[i]) : q[i] + j \in 1 .. A + B /\ (f \o g)[q[i] + j] = us[i][j]
  <2>1. CASE i <= M
    <3>1. i \in 1 .. M /\ i \in 1 .. M + 1 /\ i + 1 \in 1 .. M + 1 /\ us[i] = ss[i]
      BY <1>1, <1>4, <2>1
    <3>2. q[i] = o[i] /\ q[i + 1] = o[i + 1]
      BY <1>8, <3>1
    <3>3. ASSUME NEW j \in 1 .. Len(ss[i]) PROVE o[i] + j \in 1 .. A + B /\ (f \o g)[o[i] + j] = ss[i][j]
      <4>1. o[i] + j \in 1 .. A /\ f[o[i] + j] = ss[i][j]
        BY <1>3, <3>1
      <4> DEFINE k == o[i] + j
      <4> HIDE DEF k
      <4>2. k \in 1 .. A + B /\ k <= A
        BY <1>1, <4>1 DEF k
      <4>3. (f \o g)[k] = f[k]
        BY <1>5, <4>2
      <4> QED BY <4>1, <4>2, <4>3 DEF k
    <3> QED BY <1>3, <3>1, <3>2, <3>3
  <2>2. CASE i > M
    <3> DEFINE n == i - M
    <3>1. n \in 1 .. N /\ n \in 1 .. N + 1 /\ n + 1 \in 1 .. N + 1 /\ us[i] = ts[n] /\ M + n = i /\ M + (n + 1) = i + 1
      <4>1. ~ (i <= M)
        BY <1>1, <2>2
      <4> QED BY <1>1, <1>4, <2>2, <4>1
    <3> HIDE DEF n
    <3>2. q[i] = A + p[n] /\ q[i + 1] = A + p[n + 1]
      BY <1>9, <3>1
    <3>3. p[n] \in Nat /\ p[n + 1] = p[n] + Len(ts[n]) /\ Len(ts[n]) \in Nat
      <4>1. ts[n] \in Seq(U)
        BY <3>1 DEF N
      <4>2. Len(ts[n]) \in Nat
        BY <4>1
      <4>3. p[n] \in Nat /\ p[n + 1] = p[n] + Len(ts[n])
        BY <1>2, <1>3, <3>1
      <4> QED BY <4>2, <4>3
    <3>4. q[i + 1] = q[i] + Len(us[i])
      <4> DEFINE k == p[n]
                 l == Len(ts[n])
      <4>1. k \in Nat /\ l \in Nat /\ q[i + 1] = A + (k + l) /\ q[i] = A + k
        BY <3>2, <3>3
      <4> HIDE DEF k, l
      <4>2. A + (k + l) = (A + k) + l
        BY <1>1, <4>1
      <4> QED BY <3>1, <4>1, <4>2 DEF l
    <3>5. ASSUME NEW j \in 1 .. Len(ts[n]) PROVE q[i] + j \in 1 .. A + B /\ (f \o g)[q[i] + j] = ts[n][j]
      <4> DEFINE k == p[n] + j
      <4>1. k \in 1 .. B /\ g[k] = ts[n][j]
        BY <1>3, <3>1
      <4>2. q[i] + j = A + k
        BY <1>1, <3>2, <3>3
      <4> HIDE DEF k
      <4>3. A + k \in 1 .. A + B /\ ~ (A + k <= A) /\ (A + k) - A = k
        BY <1>1, <4>1
      <4> QED BY <1>5, <4>1, <4>2, <4>3
    <3>6. us[i] = ts[n]
      BY <3>1
    <3> DEFINE y == us[i]
    <3>7. \A j \in 1 .. Len(y) : q[i] + j \in 1 .. A + B /\ (f \o g)[q[i] + j] = y[j]
      <4>1. y = ts[n]
        BY <3>6
      <4> HIDE DEF y
      <4> QED BY <3>5, <4>1
    <3> QED BY <3>4, <3>7
  <2>3. i <= M \/ i > M
    BY <1>1
  <2> QED BY Zenon, <2>1, <2>2, <2>3
<1>12. Parts(f \o g, us, q)
  BY <1>4, <1>5, <1>6, <1>10, <1>11 DEF Parts
<1> QED BY <1>12 DEF us

(* The instructions, and those of one check. *)
Ins == {Op(g, a) : g \in {"H", "MR", "MZ"}, a \in Int} \cup {CnotOp(c, t) : c \in Int, t \in Int}

Block(i) == IF i <= NX THEN MeasureX(d, i) ELSE MeasureZ(d, i - NX)
Size(i)  == IF i <= NX THEN Width(i) + 3 ELSE Width(i) + 1

LEMMA InsOps ==
  \A a, b \in Int : Op("H", a) \in Ins /\ Op("MR", a) \in Ins /\ Op("MZ", a) \in Ins /\ CnotOp(a, b) \in Ins
BY DEF Ins

LEMMA BlockX ==
  ASSUME NEW i \in 1 .. NX
  PROVE  /\ MeasureX(d, i) \in Seq(Ins) /\ Len(MeasureX(d, i)) = Width(i) + 3
         /\ MeasureX(d, i)[1] = Op("H", Anc(i))
         /\ \A j \in 1 .. Width(i) : MeasureX(d, i)[j + 1] = CnotOp(Anc(i), Order(i)[j])
         /\ MeasureX(d, i)[Width(i) + 2] = Op("H", Anc(i))
         /\ MeasureX(d, i)[Width(i) + 3] = Op("MR", Anc(i))
<1> DEFINE a == Anc(i)
           t == Order(i)
           w == Width(i)
           c == [j \in DOMAIN t |-> CnotOp(a, t[j])]
           s1 == <<Op("H", a)>>
           s3 == <<Op("H", a), Op("MR", a)>>
<1>1. i \in 1 .. K /\ i <= NX /\ Check(i) = XChecks(d)[i]
  <2>1. i \in 1 .. K /\ i <= NX
    BY Sizes
  <2> QED BY <2>1 DEF Check
<1>2. w \in Nat /\ DOMAIN t = 1 .. w /\ \A j \in 1 .. w : t[j] \in Int
  <2>1. w \in {2, 4} /\ DOMAIN t = 1 .. w /\ t \in [1 .. w -> Data]
    BY <1>1, Orders
  <2> QED BY <2>1 DEF Data
<1>3. a \in Int
  BY Params DEF Anc
<1>4. MeasureX(d, i) = s1 \o c \o s3
  BY <1>1 DEF MeasureX, Order, Anc, XAnc
<1> HIDE DEF a, t, w
<1>5. c \in Seq(Ins) /\ Len(c) = w /\ \A j \in 1 .. w : c[j] = CnotOp(a, t[j])
  <2>1. \A j \in 1 .. w : CnotOp(a, t[j]) \in Ins
    BY <1>2, <1>3, InsOps
  <2> QED BY <1>2, <2>1
<1>6. s1 \in Seq(Ins) /\ Len(s1) = 1 /\ s1[1] = Op("H", a)
  BY <1>3, InsOps
<1>7. s3 \in Seq(Ins) /\ Len(s3) = 2 /\ s3[1] = Op("H", a) /\ s3[2] = Op("MR", a)
  BY <1>3, InsOps
<1> HIDE DEF c, s1, s3
<1>8. /\ s1 \o c \in Seq(Ins) /\ Len(s1 \o c) = w + 1
      /\ \A j \in 1 .. w + 1 : (s1 \o c)[j] = IF j <= 1 THEN s1[j] ELSE c[j - 1]
  <2>1. \A j \in 1 .. Len(s1) + Len(c) : (s1 \o c)[j] = IF j <= Len(s1) THEN s1[j] ELSE c[j - Len(s1)]
    BY <1>5, <1>6, ConcatProperties
  <2>2. s1 \o c \in Seq(Ins) /\ Len(s1 \o c) = Len(s1) + Len(c)
    BY <1>5, <1>6, ConcatProperties
  <2>3. Len(s1) + Len(c) = w + 1
    BY <1>2, <1>5, <1>6
  <2> QED BY <1>6, <2>1, <2>2, <2>3
<1> DEFINE s2 == s1 \o c
           m  == s2 \o s3
<1> HIDE DEF s2
<1>9. /\ m \in Seq(Ins) /\ Len(m) = w + 3
      /\ \A j \in 1 .. w + 3 : m[j] = IF j <= w + 1 THEN s2[j] ELSE s3[j - (w + 1)]
  <2>0. s2 \in Seq(Ins) /\ Len(s2) = w + 1
    BY <1>8 DEF s2
  <2>1. \A j \in 1 .. Len(s2) + Len(s3) : (s2 \o s3)[j] = IF j <= Len(s2) THEN s2[j] ELSE s3[j - Len(s2)]
    BY <1>7, <2>0, ConcatProperties
  <2>2. s2 \o s3 \in Seq(Ins) /\ Len(s2 \o s3) = Len(s2) + Len(s3)
    BY <1>7, <2>0, ConcatProperties
  <2>3. Len(s2) + Len(s3) = w + 3
    BY <1>2, <1>7, <2>0
  <2> QED BY <2>0, <2>1, <2>2, <2>3
<1> HIDE DEF m
<1>10. m[1] = Op("H", a)
  <2>1. 1 \in 1 .. w + 3 /\ 1 <= w + 1 /\ 1 \in 1 .. w + 1 /\ 1 <= 1
    BY <1>2
  <2> QED BY <1>6, <1>8, <1>9, <2>1 DEF s2
<1>11. \A j \in 1 .. w : m[j + 1] = CnotOp(a, t[j])
  <2> SUFFICES ASSUME NEW j \in 1 .. w PROVE m[j + 1] = CnotOp(a, t[j])
    OBVIOUS
  <2>1. /\ j + 1 \in 1 .. w + 3 /\ j + 1 <= w + 1 /\ j + 1 \in 1 .. w + 1
        /\ ~ (j + 1 <= 1) /\ (j + 1) - 1 = j
    BY <1>2
  <2>2. m[j + 1] = s2[j + 1]
    BY <1>9, <2>1
  <2>3. s2[j + 1] = c[j]
    BY <1>8, <2>1 DEF s2
  <2> QED BY <1>5, <2>2, <2>3
<1>12. m[w + 2] = Op("H", a) /\ m[w + 3] = Op("MR", a)
  <2>1. /\ w + 2 \in 1 .. w + 3 /\ ~ (w + 2 <= w + 1) /\ (w + 2) - (w + 1) = 1
        /\ w + 3 \in 1 .. w + 3 /\ ~ (w + 3 <= w + 1) /\ (w + 3) - (w + 1) = 2
    BY <1>2
  <2> QED BY <1>7, <1>9, <2>1
<1>13. MeasureX(d, i) = m
  BY <1>4 DEF m, s2
<1> QED BY <1>9, <1>10, <1>11, <1>12, <1>13 DEF a, t, w

LEMMA BlockZ ==
  ASSUME NEW i \in NX + 1 .. K
  PROVE  /\ MeasureZ(d, i - NX) \in Seq(Ins) /\ Len(MeasureZ(d, i - NX)) = Width(i) + 1
         /\ \A j \in 1 .. Width(i) : MeasureZ(d, i - NX)[j] = CnotOp(Order(i)[j], Anc(i))
         /\ MeasureZ(d, i - NX)[Width(i) + 1] = Op("MR", Anc(i))
<1> DEFINE a == Anc(i)
           t == Order(i)
           w == Width(i)
           c == [j \in DOMAIN t |-> CnotOp(t[j], a)]
           s1 == <<Op("MR", a)>>
<1>1. i \in 1 .. K /\ ~ (i <= NX) /\ Check(i) = ZChecks(d)[i - NX]
  <2>1. i \in 1 .. K /\ ~ (i <= NX)
    BY Sizes
  <2> QED BY <2>1 DEF Check
<1>2. w \in Nat /\ DOMAIN t = 1 .. w /\ \A j \in 1 .. w : t[j] \in Int
  <2>1. w \in {2, 4} /\ DOMAIN t = 1 .. w /\ t \in [1 .. w -> Data]
    BY <1>1, Orders
  <2> QED BY <2>1 DEF Data
<1>3. a \in Int /\ ZAnc(d, i - NX) = a
  <2>1. ZAnc(d, i - NX) = d * d + NX + (i - NX) - 1
    BY DEF ZAnc, NX
  <2>2. d * d \in Int /\ NX \in Int /\ i \in Int
    BY Params, Sizes
  <2>3. \A x, y \in Int : x + y + (i - y) - 1 = x + i - 1
    BY <2>2
  <2> QED BY <2>1, <2>2, <2>3 DEF Anc
<1>4. MeasureZ(d, i - NX) = c \o s1
  BY <1>1, <1>3 DEF MeasureZ, Order
<1> HIDE DEF a, t, w
<1>5. c \in Seq(Ins) /\ Len(c) = w /\ \A j \in 1 .. w : c[j] = CnotOp(t[j], a)
  <2>1. \A j \in 1 .. w : CnotOp(t[j], a) \in Ins
    BY <1>2, <1>3, InsOps
  <2> QED BY <1>2, <2>1
<1>6. s1 \in Seq(Ins) /\ Len(s1) = 1 /\ s1[1] = Op("MR", a)
  BY <1>3, InsOps
<1> HIDE DEF c, s1
<1> DEFINE m == c \o s1
<1>8. /\ m \in Seq(Ins) /\ Len(m) = w + 1
      /\ \A j \in 1 .. w + 1 : m[j] = IF j <= w THEN c[j] ELSE s1[j - w]
  <2>1. \A j \in 1 .. Len(c) + Len(s1) : (c \o s1)[j] = IF j <= Len(c) THEN c[j] ELSE s1[j - Len(c)]
    BY <1>5, <1>6, ConcatProperties
  <2>2. c \o s1 \in Seq(Ins) /\ Len(c \o s1) = Len(c) + Len(s1)
    BY <1>5, <1>6, ConcatProperties
  <2>3. Len(c) + Len(s1) = w + 1
    BY <1>2, <1>5, <1>6
  <2> QED BY <1>5, <2>1, <2>2, <2>3
<1> HIDE DEF m
<1>9. \A j \in 1 .. w : m[j] = CnotOp(t[j], a)
  <2>1. \A j \in 1 .. w : j \in 1 .. w + 1 /\ j <= w
    BY <1>2
  <2> QED BY <1>5, <1>8, <2>1
<1>10. m[w + 1] = Op("MR", a)
  <2>1. w + 1 \in 1 .. w + 1 /\ ~ (w + 1 <= w) /\ (w + 1) - w = 1
    BY <1>2
  <2> QED BY <1>6, <1>8, <2>1
<1>11. MeasureZ(d, i - NX) = m
  BY <1>4 DEF m
<1> QED BY <1>8, <1>9, <1>10, <1>11 DEF a, t, w

LEMMA Blocks ==
  ASSUME NEW i \in 1 .. K
  PROVE  Block(i) \in Seq(Ins) /\ Len(Block(i)) = Size(i) /\ Size(i) \in Nat \ {0}
<1>1. Width(i) \in Nat
  BY Orders
<1>2. CASE i \in 1 .. NX
  <2>1. i <= NX
    BY <1>2, Sizes
  <2> QED BY <1>1, <1>2, <2>1, BlockX DEF Block, Size
<1>3. CASE i \in NX + 1 .. K
  <2>1. ~ (i <= NX)
    BY <1>3, Sizes
  <2> QED BY <1>1, <1>3, <2>1, BlockZ DEF Block, Size
<1> QED BY <1>2, <1>3, Sizes

LEMMA RoundIs ==
  /\ Round(d) \in Seq(Ins)
  /\ \E off : Parts(Round(d), [i \in 1 .. K |-> Block(i)], off)
<1> DEFINE xs == [i \in 1 .. NX |-> MeasureX(d, i)]
           zs == [i \in 1 .. NX |-> MeasureZ(d, i)]
<1>1. NX \in Nat /\ NX > 0 /\ K = NX + NX
  BY Sizes, Params
<1>2. \A i \in 1 .. NX : MeasureX(d, i) \in Seq(Ins) /\ MeasureZ(d, i) \in Seq(Ins)
  <2> SUFFICES ASSUME NEW i \in 1 .. NX PROVE MeasureX(d, i) \in Seq(Ins) /\ MeasureZ(d, i) \in Seq(Ins)
    OBVIOUS
  <2>1. NX + i \in NX + 1 .. K /\ (NX + i) - NX = i
    BY <1>1
  <2>2. MeasureZ(d, (NX + i) - NX) \in Seq(Ins)
    BY <2>1, BlockZ
  <2> QED BY <2>1, <2>2, BlockX
<1>3. Round(d) = FlattenSeq(xs) \o FlattenSeq(zs)
  BY ChecksAre DEF Round
<1>4. xs \in Seq(Seq(Ins)) /\ zs \in Seq(Seq(Ins)) /\ Len(xs) = NX /\ Len(zs) = NX
  BY <1>1, <1>2
<1>5. [i \in 1 .. K |-> Block(i)] = xs \o zs
  <2>1. xs \o zs = [i \in 1 .. K |-> (xs \o zs)[i]]
    BY <1>1, <1>4
  <2>2. ASSUME NEW i \in 1 .. K PROVE (xs \o zs)[i] = Block(i)
    <3>1. (xs \o zs)[i] = IF i <= NX THEN xs[i] ELSE zs[i - NX]
      <4>1. \A j \in 1 .. Len(xs) + Len(zs) : (xs \o zs)[j] = IF j <= Len(xs) THEN xs[j] ELSE zs[j - Len(xs)]
        BY <1>4, ConcatProperties
      <4> QED BY <1>1, <1>4, <4>1
    <3>2. CASE i <= NX
      <4>1. i \in 1 .. NX
        BY <1>1, <3>2
      <4> QED BY <3>1, <3>2, <4>1 DEF Block
    <3>3. CASE ~ (i <= NX)
      <4>1. i - NX \in 1 .. NX
        BY <1>1, <3>3
      <4> QED BY <3>1, <3>3, <4>1 DEF Block
    <3> QED BY <3>2, <3>3
  <2> HIDE DEF xs, zs
  <2> QED BY <2>1, <2>2
<1> HIDE DEF xs, zs
<1>6. FlattenSeq(xs) \in Seq(Ins) /\ \E o : Parts(FlattenSeq(xs), xs, o)
  BY <1>1, <1>4, Flat
<1>7. FlattenSeq(zs) \in Seq(Ins) /\ \E o : Parts(FlattenSeq(zs), zs, o)
  BY <1>1, <1>4, Flat
<1>8. \E off : Parts(FlattenSeq(xs) \o FlattenSeq(zs), xs \o zs, off)
  BY <1>4, <1>6, <1>7, PartsJoin
<1>9. FlattenSeq(xs) \o FlattenSeq(zs) \in Seq(Ins)
  BY <1>6, <1>7
<1> QED BY <1>3, <1>5, <1>8, <1>9

(* Where the block of each check begins in each round. *)
Layout(s) ==
  /\ s \in [(1 .. Rounds) \X (1 .. K + 1) -> Nat]
  /\ s[<<1, 1>>] = 0
  /\ \A r \in 1 .. Rounds, i \in 1 .. K : s[<<r, i + 1>>] = s[<<r, i>>] + Size(i)
  /\ \A r \in 1 .. Rounds : r < Rounds => s[<<r + 1, 1>>] = s[<<r, K + 1>>]
  /\ \A r \in 1 .. Rounds, i \in 1 .. K : \A j \in 1 .. Size(i) :
       s[<<r, i>>] + j \in DOMAIN Instrs /\ Instrs[s[<<r, i>>] + j] = Block(i)[j]
  /\ Len(Instrs) = s[<<Rounds, K + 1>>] + d * d
  /\ \A q \in Data : Instrs[s[<<Rounds, K + 1>>] + q + 1] = Op("MZ", q)

LEMMA LayoutExists == \E s : Layout(s)
<1> DEFINE R == [r \in 1 .. Rounds |-> Round(d)]
           Z == [q \in 1 .. d * d |-> Op("MZ", q - 1)]
           bs == [i \in 1 .. K |-> Block(i)]
           A == FlattenSeq(R)
<1>1. Rounds \in Nat /\ Rounds > 0 /\ K \in Nat /\ K > 0 /\ d * d = K + 1
  BY Params
<1>2. Round(d) \in Seq(Ins)
  BY RoundIs
<1>3. R \in Seq(Seq(Ins)) /\ Len(R) = Rounds
  BY <1>1, <1>2
<1>4. Z \in Seq(Ins) /\ Len(Z) = d * d
  <2>1. \A q \in 1 .. d * d : Op("MZ", q - 1) \in Ins
    BY <1>1, InsOps
  <2> QED BY <1>1, <2>1
<1>5. A \in Seq(Ins) /\ \E o : Parts(A, R, o)
  <2> HIDE DEF R
  <2> QED BY <1>1, <1>3, Flat
<1>6. Instrs = A \o Z
  BY DEF Instrs, Program, d
<1>7. PICK o : Parts(A, R, o)
  BY <1>5
<1>8. PICK p : Parts(Round(d), bs, p)
  BY RoundIs
<1>9. \A r \in 1 .. Rounds : R[r] = Round(d)
  OBVIOUS
<1>10. /\ Len(bs) = K
       /\ \A i \in 1 .. K : bs[i] = Block(i) /\ Len(bs[i]) = Size(i) /\ Block(i) \in Seq(Ins)
  BY <1>1, Blocks
<1>11. \A q \in Data : q + 1 \in 1 .. d * d /\ Z[q + 1] = Op("MZ", q)
  BY <1>1 DEF Data
<1> HIDE DEF R, Z, bs, A
<1>12. /\ o \in [1 .. Rounds + 1 -> Nat] /\ o[1] = 0 /\ Len(A) = o[Rounds + 1]
       /\ \A r \in 1 .. Rounds : o[r + 1] = o[r] + Len(Round(d))
       /\ \A r \in 1 .. Rounds : \A j \in 1 .. Len(Round(d)) :
            o[r] + j \in 1 .. Len(A) /\ A[o[r] + j] = Round(d)[j]
  <2>1. DOMAIN A = 1 .. Len(A)
    BY <1>5
  <2>2. /\ o \in [1 .. Rounds + 1 -> Nat] /\ o[1] = 0 /\ Len(A) = o[Rounds + 1]
        /\ \A r \in 1 .. Rounds : o[r + 1] = o[r] + Len(R[r])
    BY <1>3, <1>7 DEF Parts
  <2>3. \A r \in 1 .. Rounds : \A j \in 1 .. Len(R[r]) : o[r] + j \in DOMAIN A /\ A[o[r] + j] = R[r][j]
    BY <1>3, <1>7 DEF Parts
  <2> QED BY <1>9, <2>1, <2>2, <2>3
<1>13. /\ p \in [1 .. K + 1 -> Nat] /\ p[1] = 0 /\ Len(Round(d)) = p[K + 1]
       /\ \A i \in 1 .. K : p[i + 1] = p[i] + Size(i)
       /\ \A i \in 1 .. K : \A j \in 1 .. Size(i) :
            p[i] + j \in 1 .. Len(Round(d)) /\ Round(d)[p[i] + j] = Block(i)[j]
  <2>1. DOMAIN Round(d) = 1 .. Len(Round(d))
    BY <1>2
  <2>2. /\ p \in [1 .. K + 1 -> Nat] /\ p[1] = 0 /\ Len(Round(d)) = p[K + 1]
        /\ \A i \in 1 .. K : p[i + 1] = p[i] + Len(bs[i])
    BY <1>8, <1>10 DEF Parts
  <2>3. \A i \in 1 .. K : \A j \in 1 .. Len(bs[i]) : p[i] + j \in DOMAIN Round(d) /\ Round(d)[p[i] + j] = bs[i][j]
    BY <1>8, <1>10 DEF Parts
  <2> QED BY <1>10, <2>1, <2>2, <2>3
<1> DEFINE s == [k \in (1 .. Rounds) \X (1 .. K + 1) |-> o[k[1]] + p[k[2]]]
<1>14. \A r \in 1 .. Rounds, i \in 1 .. K + 1 : s[<<r, i>>] = o[r] + p[i] /\ o[r] \in Nat /\ p[i] \in Nat
  <2>1. \A r \in 1 .. Rounds, i \in 1 .. K + 1 : s[<<r, i>>] = o[r] + p[i]
    OBVIOUS
  <2>2. \A r \in 1 .. Rounds : r \in 1 .. Rounds + 1
    BY <1>1
  <2> HIDE DEF s
  <2> QED BY <1>12, <1>13, <2>1, <2>2
<1>15. s \in [(1 .. Rounds) \X (1 .. K + 1) -> Nat]
  <2>1. \A k \in (1 .. Rounds) \X (1 .. K + 1) : k[1] \in 1 .. Rounds + 1 /\ k[2] \in 1 .. K + 1
    BY <1>1
  <2>2. \A k \in (1 .. Rounds) \X (1 .. K + 1) : o[k[1]] + p[k[2]] \in Nat
    BY <1>12, <1>13, <2>1
  <2> QED BY <2>2
<1> HIDE DEF s
<1>16. s[<<1, 1>>] = 0
  <2>1. 1 \in 1 .. Rounds /\ 1 \in 1 .. K + 1
    BY <1>1
  <2> QED BY <1>12, <1>13, <1>14, <2>1
<1>17. \A r \in 1 .. Rounds, i \in 1 .. K : s[<<r, i + 1>>] = s[<<r, i>>] + Size(i)
  <2> SUFFICES ASSUME NEW r \in 1 .. Rounds, NEW i \in 1 .. K PROVE s[<<r, i + 1>>] = s[<<r, i>>] + Size(i)
    OBVIOUS
  <2>1. i \in 1 .. K + 1 /\ i + 1 \in 1 .. K + 1
    BY <1>1
  <2>2. s[<<r, i>>] = o[r] + p[i] /\ s[<<r, i + 1>>] = o[r] + p[i + 1] /\ p[i + 1] = p[i] + Size(i)
        /\ o[r] \in Nat /\ p[i] \in Nat /\ Size(i) \in Nat
    BY <1>13, <1>14, <2>1, Blocks
  <2> QED BY <2>2
<1>18. \A r \in 1 .. Rounds : r < Rounds => s[<<r + 1, 1>>] = s[<<r, K + 1>>]
  <2> SUFFICES ASSUME NEW r \in 1 .. Rounds, r < Rounds PROVE s[<<r + 1, 1>>] = s[<<r, K + 1>>]
    OBVIOUS
  <2>1. r + 1 \in 1 .. Rounds /\ 1 \in 1 .. K + 1 /\ K + 1 \in 1 .. K + 1
    BY <1>1
  <2>2. s[<<r + 1, 1>>] = o[r + 1] + p[1] /\ s[<<r, K + 1>>] = o[r] + p[K + 1]
        /\ o[r + 1] = o[r] + p[K + 1] /\ p[1] = 0 /\ o[r + 1] \in Nat
    BY <1>12, <1>13, <1>14, <2>1
  <2> QED BY <2>2
<1>19. /\ Len(Instrs) = Len(A) + d * d /\ DOMAIN Instrs = 1 .. Len(A) + d * d /\ Len(A) \in Nat
       /\ \A k \in 1 .. Len(A) + d * d : Instrs[k] = IF k <= Len(A) THEN A[k] ELSE Z[k - Len(A)]
  <2>1. A \o Z \in Seq(Ins) /\ Len(A) \in Nat
    BY <1>4, <1>5
  <2>2. /\ Len(A \o Z) = Len(A) + Len(Z)
        /\ \A k \in 1 .. Len(A) + Len(Z) : (A \o Z)[k] = IF k <= Len(A) THEN A[k] ELSE Z[k - Len(A)]
    BY <1>4, <1>5, ConcatProperties
  <2>3. DOMAIN (A \o Z) = 1 .. Len(A \o Z)
    BY <2>1
  <2> QED BY <1>4, <1>6, <2>1, <2>2, <2>3
<1>20. \A r \in 1 .. Rounds, i \in 1 .. K : \A j \in 1 .. Size(i) :
         s[<<r, i>>] + j \in DOMAIN Instrs /\ Instrs[s[<<r, i>>] + j] = Block(i)[j]
  <2> SUFFICES ASSUME NEW r \in 1 .. Rounds, NEW i \in 1 .. K, NEW j \in 1 .. Size(i)
               PROVE  s[<<r, i>>] + j \in DOMAIN Instrs /\ Instrs[s[<<r, i>>] + j] = Block(i)[j]
    OBVIOUS
  <2> DEFINE k == p[i] + j
             l == o[r] + k
  <2>1. k \in 1 .. Len(Round(d)) /\ Round(d)[k] = Block(i)[j]
    BY <1>13
  <2>2. i \in 1 .. K + 1 /\ Size(i) \in Nat
    BY <1>1, Blocks
  <2>3. s[<<r, i>>] + j = l
    BY <1>14, <2>2
  <2> HIDE DEF k
  <2>4. l \in 1 .. Len(A) /\ A[l] = Round(d)[k]
    BY <1>12, <2>1
  <2> HIDE DEF l
  <2>5. l \in 1 .. Len(A) + d * d /\ l <= Len(A)
    BY <1>1, <1>19, <2>4
  <2> QED BY <1>19, <2>1, <2>3, <2>4, <2>5
<1>21. s[<<Rounds, K + 1>>] = Len(A)
  <2>1. Rounds \in 1 .. Rounds /\ K + 1 \in 1 .. K + 1
    BY <1>1
  <2>2. s[<<Rounds, K + 1>>] = o[Rounds] + p[K + 1] /\ o[Rounds + 1] = o[Rounds] + p[K + 1]
    BY <1>12, <1>13, <1>14, <2>1
  <2> QED BY <1>12, <2>2
<1>22. \A q \in Data : Instrs[s[<<Rounds, K + 1>>] + q + 1] = Op("MZ", q)
  <2> SUFFICES ASSUME NEW q \in Data PROVE Instrs[s[<<Rounds, K + 1>>] + q + 1] = Op("MZ", q)
    OBVIOUS
  <2> DEFINE m == Len(A)
  <2>1. m \in Nat /\ q + 1 \in 1 .. d * d /\ q \in Int
    BY <1>11, <1>19 DEF Data
  <2> HIDE DEF m
  <2>2. m + q + 1 \in 1 .. m + d * d /\ ~ (m + q + 1 <= m) /\ (m + q + 1) - m = q + 1
    BY <1>1, <2>1
  <2>3. Instrs[m + q + 1] = Z[q + 1]
    BY <1>19, <2>2 DEF m
  <2> QED BY <1>11, <1>21, <2>3 DEF m
<1>23. Layout(s)
  BY <1>15, <1>16, <1>17, <1>18, <1>19, <1>20, <1>21, <1>22 DEF Layout
<1> QED BY <1>23

-----------------------------------------------------------------------------
(* The invariant between two instructions of the rounds.                    *)

XAncs == {Anc(i) : i \in 1 .. NX}
Ancs  == {Anc(i) : i \in 1 .. K}
ZSets == {Supp(j) : j \in NX + 1 .. K} \cup {Row0}

(* A stage of the measurement of a check with the ancilla a, whose CNOTs    *)
(* with the qubits of T are done: "z" is one of a Z check or, with T empty, *)
(* the state between two checks; "x" is one of an X check behind its first  *)
(* H, and "h" the one behind its last H.  The masks z and c of the state    *)
(* between the checks have become these.                                    *)
ImZ(k, a, T, z) == IF k = "x" /\ Par(T \cap z) = 1 THEN z \cup {a} ELSE z
ImX(k, a, T, c) == IF k = "z" /\ Par(T \cap c) = 1 THEN c \cup {a} ELSE c

(* What Z of a has become. *)
Own(k, a, T, s) == CASE k = "z" -> Row({}, {a} \cup T, s)
                     [] k = "x" -> Row({a} \cup T, {}, s)
                     [] k = "h" -> Row(T, {a}, s)

(* No row has both X and Z of an ancilla when an H of it comes.             *)
Shape(k, a, row) ==
  CASE k = "z" -> row.z \subseteq XAncs \/ row.z \cap XAncs = {}
    [] k = "x" -> row.z \subseteq XAncs \ {a} \/ (a \notin row.x /\ row.z \cap XAncs \subseteq {a})
    [] k = "h" -> (row.z \subseteq XAncs /\ a \notin row.x) \/ row.z \cap XAncs = {}

(* The signs of the masks: zs of the Z checks and the logical row, as of    *)
(* the ancillas, xs of those X checks, in C, whose sign an outcome showed.  *)
State(rs, k, a, T, C, zs, as, xs) ==
  /\ Tab(rs)
  /\ \A l \in Lines : Shape(k, a, rs[l])
  /\ \A z \in ZSets : Says(rs, Row({}, ImZ(k, a, T, z), zs[z]))
  /\ \A b \in Ancs \ {a} : Says(rs, Row({}, {b}, as[b]))
  /\ Says(rs, Own(k, a, T, as[a]))
  /\ \A c \in C : Says(rs, Row(ImX(k, a, T, Supp(c)), {}, xs[c]))

LEMMA Places ==
  /\ Data \subseteq Qubits /\ Ancs \subseteq Qubits /\ XAncs \subseteq Ancs /\ Ancs \cap Data = {}
  /\ \A i \in 1 .. K : Anc(i) \in Ancs /\ Anc(i) \in Qubits /\ Anc(i) \notin Data
                       /\ Supp(i) \subseteq Data
  /\ \A i \in 1 .. NX : i \in 1 .. K /\ Anc(i) \in XAncs
  /\ \A i \in NX + 1 .. K : i \in 1 .. K /\ Anc(i) \notin XAncs
  /\ \A z \in ZSets : z \subseteq Data
  /\ \A T : T \subseteq Data => IsFiniteSet(T)
<1>1. \A i \in 1 .. K : Anc(i) \in Qubits /\ Anc(i) \notin Data
  BY Params, Sizes DEF Anc, Data, Qubits
<1>2. Data \subseteq Qubits
  BY Params, Sizes DEF Data, Qubits
<1>3. \A i \in 1 .. K : Supp(i) \subseteq Data
  BY Orders
<1>4. \A i \in 1 .. NX : i \in 1 .. K
  BY Sizes
<1>5. \A i \in NX + 1 .. K : i \in 1 .. K
  BY Sizes
<1>6. \A i \in NX + 1 .. K : Anc(i) \notin XAncs
  BY Params, Sizes DEF XAncs, Anc
<1>7. IsFiniteSet(Data)
  BY Params, FS_Interval DEF Data
<1>8. \A T : T \subseteq Data => IsFiniteSet(T)
  BY <1>7, FS_Subset
<1>9. \A z \in ZSets : z \subseteq Data
  BY <1>3, <1>5, Row0Is DEF ZSets
<1> QED BY <1>1, <1>2, <1>3, <1>4, <1>5, <1>6, <1>8, <1>9 DEF XAncs, Ancs

LEMMA CnotSays ==
  ASSUME NEW rs, Tab(rs), NEW c \in Qubits, NEW t \in Qubits, c # t
  PROVE  /\ Tab(Apply(rs, CnotOp(c, t)))
         /\ \A l \in Lines :
              /\ Apply(rs, CnotOp(c, t))[l].x = IF c \in rs[l].x THEN SymDiff(rs[l].x, {t}) ELSE rs[l].x
              /\ Apply(rs, CnotOp(c, t))[l].z = IF t \in rs[l].z THEN SymDiff(rs[l].z, {c}) ELSE rs[l].z
         /\ \A x, z, s : Says(rs, Row(x, z, s)) =>
              Says(Apply(rs, CnotOp(c, t)), Row(IF c \in x THEN SymDiff(x, {t}) ELSE x,
                                                IF t \in z THEN SymDiff(z, {c}) ELSE z, s))
<1>1. CnotOp(c, t) \in E!Instrs /\ CnotOp(c, t).gate = "CNOT"
  BY Instructions, GateIs
<1>2. \A m, p, q : XorBit(m, p, Bit(m, q)) = IF q \in m THEN SymDiff(m, {p}) ELSE m
  BY DEF XorBit, Bit
<1>3. Tab(Apply(rs, CnotOp(c, t))) /\ \A l \in Lines : Apply(rs, CnotOp(c, t))[l] = Gate(rs[l], CnotOp(c, t))
  BY <1>1, ApplyRows
<1>4. \A x, z, s : Says(rs, Row(x, z, s)) => Says(Apply(rs, CnotOp(c, t)), Gate(Row(x, z, s), CnotOp(c, t)))
  BY <1>1, ApplySays
<1>5. \A l \in Lines :
        /\ Apply(rs, CnotOp(c, t))[l].x = IF c \in rs[l].x THEN SymDiff(rs[l].x, {t}) ELSE rs[l].x
        /\ Apply(rs, CnotOp(c, t))[l].z = IF t \in rs[l].z THEN SymDiff(rs[l].z, {c}) ELSE rs[l].z
  <2> SUFFICES ASSUME NEW l \in Lines
               PROVE  /\ Gate(rs[l], CnotOp(c, t)).x = IF c \in rs[l].x THEN SymDiff(rs[l].x, {t}) ELSE rs[l].x
                      /\ Gate(rs[l], CnotOp(c, t)).z = IF t \in rs[l].z THEN SymDiff(rs[l].z, {c}) ELSE rs[l].z
    BY <1>3
  <2>1. /\ Gate(rs[l], CnotOp(c, t)).x = XorBit(rs[l].x, t, Bit(rs[l].x, c))
        /\ Gate(rs[l], CnotOp(c, t)).z = XorBit(rs[l].z, c, Bit(rs[l].z, t))
    BY GateRow
  <2>2. /\ XorBit(rs[l].x, t, Bit(rs[l].x, c)) = IF c \in rs[l].x THEN SymDiff(rs[l].x, {t}) ELSE rs[l].x
        /\ XorBit(rs[l].z, c, Bit(rs[l].z, t)) = IF t \in rs[l].z THEN SymDiff(rs[l].z, {c}) ELSE rs[l].z
    BY DEF XorBit, Bit
  <2> QED BY Zenon, <2>1, <2>2
<1>6. ASSUME NEW x, NEW z, NEW s, Says(rs, Row(x, z, s))
      PROVE  Says(Apply(rs, CnotOp(c, t)), Row(IF c \in x THEN SymDiff(x, {t}) ELSE x,
                                               IF t \in z THEN SymDiff(z, {c}) ELSE z, s))
  <2>1. Gate(Row(x, z, s), CnotOp(c, t)) = Row(XorBit(x, t, Bit(x, c)), XorBit(z, c, Bit(z, t)), s)
    BY GateRow
  <2>2. Says(Apply(rs, CnotOp(c, t)), Row(XorBit(x, t, Bit(x, c)), XorBit(z, c, Bit(z, t)), s))
    BY <1>4, <1>6, <2>1
  <2> QED BY <1>2, <2>2
<1> QED BY Zenon, <1>3, <1>5, <1>6

(* A CNOT of an X check. *)
LEMMA CnotOfX ==
  ASSUME NEW a \in XAncs, NEW T \in SUBSET Data, NEW t \in Data \ T,
         NEW rs, NEW C \in SUBSET (1 .. NX), NEW zs, NEW as, NEW xs, State(rs, "x", a, T, C, zs, as, xs)
  PROVE  State(Apply(rs, CnotOp(a, t)), "x", a, T \cup {t}, C, zs, as, xs)
<1> DEFINE rt == Apply(rs, CnotOp(a, t))
<1>1. a \in Qubits /\ t \in Qubits /\ a # t /\ a \notin Data /\ t \notin Ancs /\ t \notin XAncs
  BY Places
<1>2. Tab(rs)
  BY DEF State
<1>3. /\ Tab(rt)
      /\ \A l \in Lines : /\ rt[l].x = IF a \in rs[l].x THEN SymDiff(rs[l].x, {t}) ELSE rs[l].x
                          /\ rt[l].z = IF t \in rs[l].z THEN SymDiff(rs[l].z, {a}) ELSE rs[l].z
      /\ \A x, z, s : Says(rs, Row(x, z, s)) =>
           Says(rt, Row(IF a \in x THEN SymDiff(x, {t}) ELSE x, IF t \in z THEN SymDiff(z, {a}) ELSE z, s))
  BY <1>1, <1>2, CnotSays
<1> HIDE DEF rt
<1>4. ASSUME NEW l \in Lines PROVE Shape("x", a, rt[l])
  <2>1. Shape("x", a, rs[l])
    BY DEF State
  <2> QED BY <1>1, <1>3, <2>1 DEF Shape, SymDiff
<1>5. ASSUME NEW z \in ZSets PROVE Says(rt, Row({}, ImZ("x", a, T \cup {t}, z), zs[z]))
  <2> DEFINE m == ImZ("x", a, T, z)
  <2>1. Says(rs, Row({}, m, zs[z]))
    BY DEF State
  <2>2. z \subseteq Data /\ IsFiniteSet(T)
    BY Places
  <2>3. Par(T \cap z) \in {0, 1} /\ Par((T \cup {t}) \cap z) = IF t \in z THEN 1 - Par(T \cap z) ELSE Par(T \cap z)
    BY <2>2, ParGrow
  <2>4. ImZ("x", a, T \cup {t}, z) = IF t \in m THEN SymDiff(m, {a}) ELSE m
    <3>1. t \in m <=> t \in z
      BY <1>1 DEF ImZ
    <3>2. a \notin z
      BY <1>1, <2>2
    <3>3. CASE t \notin z
      BY <2>3, <3>1, <3>3 DEF ImZ
    <3>4. CASE t \in z /\ Par(T \cap z) = 1
      <4>1. ImZ("x", a, T \cup {t}, z) = z /\ m = z \cup {a}
        BY <2>3, <3>4 DEF ImZ
      <4> QED BY <3>1, <3>2, <3>4, <4>1 DEF SymDiff
    <3>5. CASE t \in z /\ Par(T \cap z) = 0
      <4>1. ImZ("x", a, T \cup {t}, z) = z \cup {a} /\ m = z
        BY <2>3, <3>5 DEF ImZ
      <4> QED BY <3>1, <3>2, <3>5, <4>1 DEF SymDiff
    <3> QED BY <2>3, <3>3, <3>4, <3>5
  <2> HIDE DEF m
  <2>5. Says(rt, Row({}, IF t \in m THEN SymDiff(m, {a}) ELSE m, zs[z]))
    <3>1. (IF a \in {} THEN SymDiff({}, {t}) ELSE {}) = {}
      OBVIOUS
    <3> QED BY <1>3, <2>1, <3>1
  <2> QED BY <2>4, <2>5
<1>6. ASSUME NEW b \in Ancs \ {a} PROVE Says(rt, Row({}, {b}, as[b]))
  <2>1. Says(rs, Row({}, {b}, as[b]))
    BY DEF State
  <2>2. (IF a \in {} THEN SymDiff({}, {t}) ELSE {}) = {} /\ (IF t \in {b} THEN SymDiff({b}, {a}) ELSE {b}) = {b}
    BY <1>1
  <2> QED BY <1>3, <2>1, <2>2
<1>7. Says(rt, Own("x", a, T \cup {t}, as[a]))
  <2>1. Says(rs, Row({a} \cup T, {}, as[a]))
    BY DEF State, Own
  <2>2. (IF a \in {a} \cup T THEN SymDiff({a} \cup T, {t}) ELSE {a} \cup T) = {a} \cup (T \cup {t})
    BY <1>1 DEF SymDiff
  <2>3. (IF t \in {} THEN SymDiff({}, {a}) ELSE {}) = {}
    OBVIOUS
  <2>4. Says(rt, Row({a} \cup (T \cup {t}), {}, as[a]))
    BY <1>3, <2>1, <2>2, <2>3
  <2> QED BY <2>4 DEF Own
<1>8. ASSUME NEW c \in C PROVE Says(rt, Row(ImX("x", a, T \cup {t}, Supp(c)), {}, xs[c]))
  <2>1. Says(rs, Row(Supp(c), {}, xs[c]))
    BY DEF State, ImX
  <2>2. a \notin Supp(c)
    BY <1>1, Places
  <2>3. (IF a \in Supp(c) THEN SymDiff(Supp(c), {t}) ELSE Supp(c)) = Supp(c) /\ (IF t \in {} THEN SymDiff({}, {a}) ELSE {}) = {}
    BY <2>2
  <2>4. Says(rt, Row(Supp(c), {}, xs[c]))
    BY <1>3, <2>1, <2>3
  <2> QED BY <2>4 DEF ImX
<1> QED BY <1>3, <1>4, <1>5, <1>6, <1>7, <1>8 DEF State, rt

LEMMA SignsAre ==
  ASSUME NEW rs, Tab(rs)
  PROVE  \A x, z, s : Says(rs, Row(x, z, s)) => /\ x \in SUBSET Qubits /\ z \in SUBSET Qubits
                                                /\ s \in {0, 1}
<1>1. \A x, z, s : Row(x, z, s).x = x /\ Row(x, z, s).z = z /\ Row(x, z, s).r = s
  BY DEF Row
<1>2. \A w \in RowSet : w.x \in SUBSET Qubits /\ w.z \in SUBSET Qubits /\ w.r \in {0, 1}
  BY DEF RowSet
<1>3. \A w : Says(rs, w) => w \in RowSet
  BY SaysFacts
<1> QED BY <1>1, <1>2, <1>3

LEMMA Products ==
  ASSUME NEW rs, Tab(rs), NEW x, NEW z, NEW s, NEW y, NEW v, NEW t,
         Says(rs, Row(x, z, s)), Says(rs, Row(y, v, t))
  PROVE  Says(rs, Row(SymDiff(x, y), SymDiff(z, v), (s + t) % 2))
<1>1. Says(rs, XorRow(Row(x, z, s), Row(y, v, t)))
  BY SaysFacts
<1>2. XorRow(Row(x, z, s), Row(y, v, t)) = Row(SymDiff(x, y), SymDiff(z, v), (s + t) % 2)
  BY DEF XorRow, Row
<1> QED BY <1>1, <1>2

(* Between two checks there is none whose turn it is. *)
LEMMA Between ==
  ASSUME NEW a \in Ancs, NEW b \in Ancs, NEW rs, NEW C, NEW zs, NEW as, NEW xs,
         State(rs, "z", a, {}, C, zs, as, xs)
  PROVE  State(rs, "z", b, {}, C, zs, as, xs)
<1>1. \A c \in Ancs : Says(rs, Row({}, {c}, as[c]))
  <2>1. Says(rs, Row({}, {a} \cup {}, as[a]))
    BY DEF State, Own
  <2>2. {a} \cup {} = {a}
    OBVIOUS
  <2> QED BY <2>1, <2>2 DEF State
<1>2. Says(rs, Own("z", b, {}, as[b]))
  <2>1. {b} \cup {} = {b}
    OBVIOUS
  <2> QED BY <1>1, <2>1 DEF Own
<1>3. \A z : ImZ("z", b, {}, z) = ImZ("z", a, {}, z)
  BY DEF ImZ
<1>4. \A c : ImX("z", b, {}, c) = ImX("z", a, {}, c)
  <2>1. \A c : {} \cap c = {}
    OBVIOUS
  <2> QED BY <2>1, ParSmall DEF ImX
<1>5. \A row : Shape("z", b, row) <=> Shape("z", a, row)
  BY DEF Shape
<1> QED BY <1>1, <1>2, <1>3, <1>4, <1>5 DEF State

LEMMA FirstH ==
  ASSUME NEW a \in XAncs, NEW rs, NEW C \in SUBSET (1 .. NX), NEW zs, NEW as, NEW xs,
         State(rs, "z", a, {}, C, zs, as, xs)
  PROVE  State(Apply(rs, Op("H", a)), "x", a, {}, C, zs, as, xs)
<1> DEFINE rt == Apply(rs, Op("H", a))
<1>1. a \in Qubits /\ a \notin Data /\ a \in Ancs
  BY Places
<1>2. Tab(rs) /\ Says(rs, Row({}, {a}, as[a]))
  <2>1. {a} \cup {} = {a}
    OBVIOUS
  <2> QED BY <2>1 DEF State, Own
<1>3. \A l \in Lines : a \notin rs[l].x
  BY <1>1, <1>2, SignsAre, SaysCommutes
<1>4. \A x, z, s : Says(rs, Row(x, z, s)) /\ (a \notin x \/ a \notin z) =>
        Says(rt, Row((x \ {a}) \cup (z \cap {a}), (z \ {a}) \cup (x \cap {a}), s))
  BY <1>1, <1>2, <1>3, ApplyH
<1>5. Tab(rt) /\ \A l \in Lines : /\ rt[l].x = (rs[l].x \ {a}) \cup (rs[l].z \cap {a})
                                  /\ rt[l].z = (rs[l].z \ {a}) \cup (rs[l].x \cap {a})
  BY <1>1, <1>2, Instructions, ApplyRows, GateRow
<1> HIDE DEF rt
<1>6. ASSUME NEW l \in Lines PROVE Shape("x", a, rt[l])
  <2>1. Shape("z", a, rs[l])
    BY DEF State
  <2> QED BY <1>3, <1>5, <2>1 DEF Shape
<1>7. \A z : {} \cap z = {} /\ Par({} \cap z) = 0
  <2>1. \A z : {} \cap z = {}
    OBVIOUS
  <2> QED BY <2>1, ParSmall
<1>8. ASSUME NEW z, a \notin z, NEW s, Says(rs, Row({}, z, s)) PROVE Says(rt, Row({}, z, s))
  <2>1. ({} \ {a}) \cup (z \cap {a}) = {} /\ (z \ {a}) \cup ({} \cap {a}) = z
    BY <1>8
  <2> QED BY <1>4, <1>8, <2>1
<1>9. ASSUME NEW z \in ZSets PROVE Says(rt, Row({}, ImZ("x", a, {}, z), zs[z]))
  <2>1. Says(rs, Row({}, z, zs[z]))
    BY DEF State, ImZ
  <2>2. a \notin z
    BY <1>1, Places
  <2> QED BY <1>7, <1>8, <2>1, <2>2 DEF ImZ
<1>10. ASSUME NEW b \in Ancs \ {a} PROVE Says(rt, Row({}, {b}, as[b]))
  <2>1. Says(rs, Row({}, {b}, as[b])) /\ a \notin {b}
    BY DEF State
  <2> QED BY <1>8, <2>1
<1>11. Says(rt, Own("x", a, {}, as[a]))
  <2>1. ({} \ {a}) \cup ({a} \cap {a}) = {a} \cup {} /\ ({a} \ {a}) \cup ({} \cap {a}) = {} /\ a \notin {}
    OBVIOUS
  <2>2. Says(rt, Row({a} \cup {}, {}, as[a]))
    BY <1>2, <1>4, <2>1
  <2> QED BY <2>2 DEF Own
<1>12. ASSUME NEW c \in C PROVE Says(rt, Row(ImX("x", a, {}, Supp(c)), {}, xs[c]))
  <2>0. ImX("z", a, {}, Supp(c)) = Supp(c)
    BY <1>7 DEF ImX
  <2>1. Says(rs, Row(Supp(c), {}, xs[c]))
    BY <2>0 DEF State
  <2>2. a \notin Supp(c)
    BY <1>1, Places
  <2>3. (Supp(c) \ {a}) \cup ({} \cap {a}) = Supp(c) /\ ({} \ {a}) \cup (Supp(c) \cap {a}) = {}
    BY <2>2
  <2>4. Says(rt, Row(Supp(c), {}, xs[c]))
    BY <1>4, <2>1, <2>2, <2>3
  <2> QED BY <2>4 DEF ImX
<1> QED BY <1>5, <1>6, <1>9, <1>10, <1>11, <1>12 DEF State, rt

(* The checks commute with the other checks and with the logical row.       *)
LEMMA Commuting ==
  ASSUME SelfCheck(d), NEW i \in 1 .. NX, NEW z \in ZSets
  PROVE  Par(Supp(i) \cap z) = 0
BY EvenOverlaps DEF ZSets

LEMMA LastH ==
  ASSUME SelfCheck(d), NEW i \in 1 .. NX, NEW rs, NEW C \in SUBSET (1 .. NX), NEW zs, NEW as, NEW xs,
         State(rs, "x", Anc(i), Supp(i), C, zs, as, xs)
  PROVE  State(Apply(rs, Op("H", Anc(i))), "h", Anc(i), Supp(i), C, zs, as, xs)
<1> DEFINE a  == Anc(i)
           rt == Apply(rs, Op("H", a))
<1>1. a \in Qubits /\ a \notin Data /\ a \in Ancs /\ a \in XAncs /\ Supp(i) \subseteq Data
  BY Places
<1> HIDE DEF a
<1>2. State(rs, "x", a, Supp(i), C, zs, as, xs)
  BY DEF a
<1>3. Tab(rs) /\ \A l \in Lines : a \notin rs[l].x \/ a \notin rs[l].z
  BY <1>2 DEF State, Shape
<1>4. \A x, z, s : Says(rs, Row(x, z, s)) /\ (a \notin x \/ a \notin z) =>
        Says(rt, Row((x \ {a}) \cup (z \cap {a}), (z \ {a}) \cup (x \cap {a}), s))
  BY <1>1, <1>3, ApplyH
<1>5. Tab(rt) /\ \A l \in Lines : /\ rt[l].x = (rs[l].x \ {a}) \cup (rs[l].z \cap {a})
                                  /\ rt[l].z = (rs[l].z \ {a}) \cup (rs[l].x \cap {a})
  BY <1>1, <1>3, Instructions, ApplyRows, GateRow
<1> HIDE DEF rt
<1>6. ASSUME NEW l \in Lines PROVE Shape("h", a, rt[l])
  <2>1. Shape("x", a, rs[l])
    BY <1>2 DEF State
  <2>2. CASE rs[l].z \subseteq XAncs \ {a}
    BY <1>1, <1>5, <2>2 DEF Shape
  <2>3. CASE a \notin rs[l].x /\ rs[l].z \cap XAncs \subseteq {a}
    BY <1>1, <1>5, <2>3 DEF Shape
  <2> QED BY <2>1, <2>2, <2>3 DEF Shape
<1>8. ASSUME NEW z, a \notin z, NEW s, Says(rs, Row({}, z, s)) PROVE Says(rt, Row({}, z, s))
  <2>1. ({} \ {a}) \cup (z \cap {a}) = {} /\ (z \ {a}) \cup ({} \cap {a}) = z
    BY <1>8
  <2> QED BY <1>4, <1>8, <2>1
<1>9. ASSUME NEW z \in ZSets PROVE Says(rt, Row({}, ImZ("h", a, Supp(i), z), zs[z]))
  <2>1. Par(Supp(i) \cap z) = 0
    BY Commuting
  <2>2. Says(rs, Row({}, z, zs[z]))
    <3>1. ImZ("x", a, Supp(i), z) = z
      BY <2>1 DEF ImZ
    <3> QED BY <1>2, <3>1 DEF State
  <2>3. a \notin z
    BY <1>1, Places
  <2> QED BY <1>8, <2>2, <2>3 DEF ImZ
<1>10. ASSUME NEW b \in Ancs \ {a} PROVE Says(rt, Row({}, {b}, as[b]))
  <2>1. Says(rs, Row({}, {b}, as[b])) /\ a \notin {b}
    BY <1>2 DEF State
  <2> QED BY <1>8, <2>1
<1>11. Says(rt, Own("h", a, Supp(i), as[a]))
  <2>1. Says(rs, Row({a} \cup Supp(i), {}, as[a])) /\ a \notin Supp(i)
    BY <1>1, <1>2 DEF State, Own
  <2>2. /\ (({a} \cup Supp(i)) \ {a}) \cup ({} \cap {a}) = Supp(i)
        /\ ({} \ {a}) \cup (({a} \cup Supp(i)) \cap {a}) = {a} /\ a \notin {}
    BY <2>1
  <2>3. Says(rt, Row(Supp(i), {a}, as[a]))
    BY <1>4, <2>1, <2>2
  <2> QED BY <2>3 DEF Own
<1>12. ASSUME NEW c \in C PROVE Says(rt, Row(ImX("h", a, Supp(i), Supp(c)), {}, xs[c]))
  <2>1. Says(rs, Row(Supp(c), {}, xs[c]))
    BY <1>2 DEF State, ImX
  <2>2. a \notin Supp(c)
    BY <1>1, Places
  <2>3. (Supp(c) \ {a}) \cup ({} \cap {a}) = Supp(c) /\ ({} \ {a}) \cup (Supp(c) \cap {a}) = {}
    BY <2>2
  <2>4. Says(rt, Row(Supp(c), {}, xs[c]))
    BY <1>4, <2>1, <2>2, <2>3
  <2> QED BY <2>4 DEF ImX
<1> QED BY <1>5, <1>6, <1>9, <1>10, <1>11, <1>12 DEF State, rt, a

(* A CNOT of a Z check. *)
LEMMA CnotOfZ ==
  ASSUME NEW a \in Ancs \ XAncs, NEW T \in SUBSET Data, NEW t \in Data \ T,
         NEW rs, NEW C \in SUBSET (1 .. NX), NEW zs, NEW as, NEW xs, State(rs, "z", a, T, C, zs, as, xs)
  PROVE  State(Apply(rs, CnotOp(t, a)), "z", a, T \cup {t}, C, zs, as, xs)
<1> DEFINE rt == Apply(rs, CnotOp(t, a))
<1>1. a \in Qubits /\ t \in Qubits /\ a # t /\ a \notin Data /\ t \notin Ancs /\ t \notin XAncs
  BY Places
<1>2. Tab(rs)
  BY DEF State
<1>3. /\ Tab(rt)
      /\ \A l \in Lines : /\ rt[l].x = IF t \in rs[l].x THEN SymDiff(rs[l].x, {a}) ELSE rs[l].x
                          /\ rt[l].z = IF a \in rs[l].z THEN SymDiff(rs[l].z, {t}) ELSE rs[l].z
      /\ \A x, z, s : Says(rs, Row(x, z, s)) =>
           Says(rt, Row(IF t \in x THEN SymDiff(x, {a}) ELSE x, IF a \in z THEN SymDiff(z, {t}) ELSE z, s))
  BY <1>1, <1>2, CnotSays
<1> HIDE DEF rt
<1>4. ASSUME NEW l \in Lines PROVE Shape("z", a, rt[l])
  <2>1. Shape("z", a, rs[l])
    BY DEF State
  <2> QED BY <1>1, <1>3, <2>1 DEF Shape, SymDiff
<1>5. ASSUME NEW z, a \notin z, NEW s, Says(rs, Row({}, z, s)) PROVE Says(rt, Row({}, z, s))
  <2>1. (IF t \in {} THEN SymDiff({}, {a}) ELSE {}) = {} /\ (IF a \in z THEN SymDiff(z, {t}) ELSE z) = z
    BY <1>5
  <2> QED BY <1>3, <1>5, <2>1
<1>6. ASSUME NEW z \in ZSets PROVE Says(rt, Row({}, ImZ("z", a, T \cup {t}, z), zs[z]))
  <2>1. Says(rs, Row({}, z, zs[z]))
    BY DEF State, ImZ
  <2>2. a \notin z
    BY <1>1, Places
  <2> QED BY <1>5, <2>1, <2>2 DEF ImZ
<1>7. ASSUME NEW b \in Ancs \ {a} PROVE Says(rt, Row({}, {b}, as[b]))
  <2>1. Says(rs, Row({}, {b}, as[b])) /\ a \notin {b}
    BY DEF State
  <2> QED BY <1>5, <2>1
<1>8. Says(rt, Own("z", a, T \cup {t}, as[a]))
  <2>1. Says(rs, Row({}, {a} \cup T, as[a]))
    BY DEF State, Own
  <2>2. (IF a \in {a} \cup T THEN SymDiff({a} \cup T, {t}) ELSE {a} \cup T) = {a} \cup (T \cup {t})
    BY <1>1 DEF SymDiff
  <2>3. (IF t \in {} THEN SymDiff({}, {a}) ELSE {}) = {}
    OBVIOUS
  <2>4. Says(rt, Row({}, {a} \cup (T \cup {t}), as[a]))
    BY <1>3, <2>1, <2>2, <2>3
  <2> QED BY <2>4 DEF Own
<1>9. ASSUME NEW c \in C PROVE Says(rt, Row(ImX("z", a, T \cup {t}, Supp(c)), {}, xs[c]))
  <2> DEFINE z == Supp(c)
             m == ImX("z", a, T, z)
  <2>1. Says(rs, Row(m, {}, xs[c]))
    BY DEF State
  <2>2. z \subseteq Data /\ IsFiniteSet(T)
    BY Places
  <2> HIDE DEF z
  <2>3. Par(T \cap z) \in {0, 1} /\ Par((T \cup {t}) \cap z) = IF t \in z THEN 1 - Par(T \cap z) ELSE Par(T \cap z)
    BY <2>2, ParGrow
  <2>4. ImX("z", a, T \cup {t}, z) = IF t \in m THEN SymDiff(m, {a}) ELSE m
    <3>1. t \in m <=> t \in z
      BY <1>1 DEF ImX
    <3>2. a \notin z
      BY <1>1, <2>2
    <3>3. CASE t \notin z
      BY <2>3, <3>1, <3>3 DEF ImX
    <3>4. CASE t \in z /\ Par(T \cap z) = 1
      <4>1. ImX("z", a, T \cup {t}, z) = z /\ m = z \cup {a}
        BY <2>3, <3>4 DEF ImX
      <4> QED BY <3>1, <3>2, <3>4, <4>1 DEF SymDiff
    <3>5. CASE t \in z /\ Par(T \cap z) = 0
      <4>1. ImX("z", a, T \cup {t}, z) = z \cup {a} /\ m = z
        BY <2>3, <3>5 DEF ImX
      <4> QED BY <3>1, <3>2, <3>5, <4>1 DEF SymDiff
    <3> QED BY <2>3, <3>3, <3>4, <3>5
  <2> HIDE DEF m
  <2>5. Says(rt, Row(IF t \in m THEN SymDiff(m, {a}) ELSE m, {}, xs[c]))
    <3>1. (IF a \in {} THEN SymDiff({}, {t}) ELSE {}) = {}
      OBVIOUS
    <3> QED BY <1>3, <2>1, <3>1
  <2> QED BY <2>4, <2>5 DEF z
<1> QED BY <1>3, <1>4, <1>6, <1>7, <1>8, <1>9 DEF State, rt

(* A measurement with a reset: the sign that the outcome gives a mask.      *)
Resets(rs, q, rt, o) ==
  /\ Tab(rt) /\ o \in {0, 1} /\ Says(rt, Row({}, {q}, 0))
  /\ \A x, z, s : Says(rs, Row(x, z, s)) /\ q \notin x /\ q \notin z => Says(rt, Row(x, z, s))
  /\ \A x, z, s : Says(rs, Row(x, z, s)) /\ q \notin x /\ q \in z
                    => Says(rt, Row(x, z \ {q}, (s + o) % 2))
  /\ \/ \A l \in Lines : rt[l].x = rs[l].x /\ rt[l].z = rs[l].z
     \/ \E p \in Lines :
          /\ q \in rs[p].x
          /\ \A l \in Lines :
               rt[l].z = IF l = p THEN {q}
                         ELSE IF q \in rs[l].x THEN SymDiff(rs[l].z, rs[p].z) ELSE rs[l].z
  /\ \A s : Says(rs, Row({}, {q}, s)) => o = s

LEMMA MrSays ==
  ASSUME NEW rs, Tab(rs), NEW q \in Qubits, NEW m \in Mr(rs, q)
  PROVE  Resets(rs, q, m[2], m[1])
<1> DEFINE in == Op("X", q)
<1>1. PICK n \in Mz(rs, q) : m = <<n[1], IF n[1] = 1 THEN Apply(n[2], in) ELSE n[2]>>
  BY DEF Mr, Op
<1>2. /\ Tab(n[2]) /\ n[1] \in {0, 1} /\ Says(n[2], Row({}, {q}, n[1]))
      /\ \A w : Says(rs, w) /\ q \notin w.x => Says(n[2], w)
      /\ \/ ~ HasRandomBit(rs, q) /\ n[2] = rs
         \/ \E p \in Lines : Taking(p, rs, n[2], q, n[1])
  BY SaysMz
<1> DEFINE rt == n[2]
           o  == n[1]
           ru == m[2]
<1> HIDE DEF rt, ru, o
<1>3. m[1] = o /\ ru = IF o = 1 THEN Apply(rt, in) ELSE rt
  BY <1>1 DEF rt, ru, o
<1>4. Tab(rt) /\ o \in {0, 1} /\ in \in E!Instrs /\ in.gate = "X"
  BY <1>2, Instructions, GateIs DEF rt, o
<1>5. Tab(ru) /\ \A l \in Lines : ru[l].x = rt[l].x /\ ru[l].z = rt[l].z
  <2>1. Tab(Apply(rt, in)) /\ \A l \in Lines : Apply(rt, in)[l] = Gate(rt[l], in)
    BY <1>4, ApplyRows
  <2>2. \A l \in Lines : Apply(rt, in)[l].x = rt[l].x /\ Apply(rt, in)[l].z = rt[l].z
    BY <2>1, GateRow
  <2> QED BY <1>3, <1>4, <2>1, <2>2
<1>6. ASSUME NEW x, NEW z, NEW s, Says(rt, Row(x, z, s))
      PROVE  Says(ru, Row(x, z, IF q \in z THEN (s + o) % 2 ELSE s))
  <2>1. s \in {0, 1}
    BY <1>4, <1>6, SignsAre
  <2>2. CASE o = 1
    <3>1. Says(ru, Gate(Row(x, z, s), in))
      BY <1>3, <1>4, <1>6, <2>2, ApplySays
    <3>2. Gate(Row(x, z, s), in) = Row(x, z, (s + Bit(z, q)) % 2)
      BY GateRow
    <3>3. (s + Bit(z, q)) % 2 = IF q \in z THEN (s + o) % 2 ELSE s
      BY <2>1, <2>2 DEF Bit
    <3> QED BY <3>1, <3>2, <3>3
  <2>3. CASE o = 0
    <3>1. s = IF q \in z THEN (s + o) % 2 ELSE s
      BY <2>1, <2>3
    <3> QED BY <1>3, <1>6, <2>3, <3>1
  <2> QED BY <1>4, <2>2, <2>3
<1>7. ASSUME NEW x, NEW z, NEW s, Says(rs, Row(x, z, s)), q \notin x
      PROVE  Says(rt, Row(x, z, s))
  <2>1. Row(x, z, s).x = x
    BY DEF Row
  <2> QED BY <1>2, <1>7, <2>1 DEF rt
<1>8. Says(rt, Row({}, {q}, o))
  BY <1>2 DEF rt, o
<1>9. Says(ru, Row({}, {q}, 0))
  <2>1. (IF q \in {q} THEN (o + o) % 2 ELSE o) = 0
    BY <1>4
  <2> QED BY <1>6, <1>8, <2>1
<1>10. ASSUME NEW x, NEW z, NEW s, Says(rs, Row(x, z, s)), q \notin x, q \notin z
       PROVE  Says(ru, Row(x, z, s))
  <2>1. (IF q \in z THEN (s + o) % 2 ELSE s) = s
    BY <1>10
  <2> QED BY <1>6, <1>7, <1>10, <2>1
<1>11. ASSUME NEW x, NEW z, NEW s, Says(rs, Row(x, z, s)), q \notin x, q \in z
       PROVE  Says(ru, Row(x, z \ {q}, (s + o) % 2))
  <2>1. Says(rt, Row(x, z, s))
    BY <1>7, <1>11
  <2>2. Says(rt, Row(SymDiff(x, {}), SymDiff(z, {q}), (s + o) % 2))
    BY <1>4, <1>8, <2>1, Products
  <2>3. SymDiff(x, {}) = x /\ SymDiff(z, {q}) = z \ {q}
    BY <1>11 DEF SymDiff
  <2>4. Says(rt, Row(x, z \ {q}, (s + o) % 2))
    BY <2>2, <2>3
  <2>5. (IF q \in z \ {q} THEN (((s + o) % 2) + o) % 2 ELSE (s + o) % 2) = (s + o) % 2
    OBVIOUS
  <2> QED BY <1>6, <2>4, <2>5
<1>12. \/ \A l \in Lines : ru[l].x = rs[l].x /\ ru[l].z = rs[l].z
       \/ \E p \in Lines :
            /\ q \in rs[p].x
            /\ \A l \in Lines :
                 ru[l].z = IF l = p THEN {q}
                           ELSE IF q \in rs[l].x THEN SymDiff(rs[l].z, rs[p].z) ELSE rs[l].z
  <2>1. CASE rt = rs
    BY <1>5, <2>1
  <2>2. ASSUME NEW p \in Lines, Taking(p, rs, rt, q, o)
        PROVE  /\ q \in rs[p].x
               /\ \A l \in Lines :
                    ru[l].z = IF l = p THEN {q}
                              ELSE IF q \in rs[l].x THEN SymDiff(rs[l].z, rs[p].z) ELSE rs[l].z
    <3>1. Row({}, {q}, o).z = {q} /\ \A u, v : XorRow(u, v).z = SymDiff(u.z, v.z)
      BY DEF Row, XorRow
    <3>2. \A l \in Lines : rt[l].z = IF l = p THEN {q}
                              ELSE IF q \in rs[l].x THEN SymDiff(rs[l].z, rs[p].z) ELSE rs[l].z
      <4> SUFFICES ASSUME NEW l \in Lines
                   PROVE  rt[l].z = IF l = p THEN {q}
                              ELSE IF q \in rs[l].x THEN SymDiff(rs[l].z, rs[p].z) ELSE rs[l].z
        OBVIOUS
      <4>1. rt[l] = IF l = p THEN Row({}, {q}, o)
                    ELSE IF q \in rs[l].x THEN XorRow(rs[l], rs[p]) ELSE rs[l]
        BY <2>2 DEF Taking
      <4> HIDE DEF rt, o
      <4>2. CASE l = p
        BY <3>1, <4>1, <4>2
      <4>3. CASE l # p /\ q \in rs[l].x
        BY <3>1, <4>1, <4>3
      <4>4. CASE l # p /\ q \notin rs[l].x
        BY <4>1, <4>4
      <4> QED BY <4>2, <4>3, <4>4
    <3> QED BY <1>5, <2>2, <3>2 DEF Taking
  <2>3. rt = rs \/ \E p \in Lines : Taking(p, rs, rt, q, o)
    BY <1>2 DEF rt, o
  <2> QED BY <2>1, <2>2, <2>3
<1>13. ASSUME NEW s, Says(rs, Row({}, {q}, s)) PROVE o = s
  <2>1. s \in {0, 1} /\ q \notin {}
    BY <1>13, SignsAre
  <2>2. Says(rt, Row({}, {q}, s))
    BY <1>7, <1>13, <2>1
  <2> QED BY <1>4, <1>8, <2>1, <2>2, SaysOnce
<1>14. m[1] = o /\ m[2] = ru
  BY <1>3 DEF ru
<1> QED BY <1>4, <1>5, <1>9, <1>10, <1>11, <1>12, <1>13, <1>14 DEF Resets

(* The end of an X check: its outcome is the sign of its mask, up to that   *)
(* of the ancilla, whatever it was drawn to be.                             *)
LEMMA EndOfX ==
  ASSUME NEW i \in 1 .. NX, NEW rs, NEW C \in SUBSET (1 .. NX), NEW zs, NEW as \in [Ancs -> {0, 1}], NEW xs,
         State(rs, "h", Anc(i), Supp(i), C, zs, as, xs), NEW m \in Mr(rs, Anc(i))
  PROVE  /\ m[1] \in {0, 1}
         /\ State(m[2], "z", Anc(i), {}, C, zs, [as EXCEPT ![Anc(i)] = 0], xs)
         /\ Says(m[2], Row(Supp(i), {}, (as[Anc(i)] + m[1]) % 2))
<1> DEFINE a  == Anc(i)
           rt == m[2]
           at == [as EXCEPT ![a] = 0]
<1>1. a \in Qubits /\ a \notin Data /\ a \in Ancs /\ a \in XAncs /\ Supp(i) \subseteq Data
  BY Places
<1>2. State(rs, "h", a, Supp(i), C, zs, as, xs) /\ m \in Mr(rs, a)
  OBVIOUS
<1>3. at[a] = 0 /\ \A b \in Ancs \ {a} : at[b] = as[b]
  BY <1>1
<1> HIDE DEF a, at
<1>4. Tab(rs)
  BY <1>2 DEF State
<1>5. /\ Tab(rt) /\ m[1] \in {0, 1} /\ Says(rt, Row({}, {a}, 0))
      /\ \A x, z, s : Says(rs, Row(x, z, s)) /\ a \notin x /\ a \notin z => Says(rt, Row(x, z, s))
      /\ \A x, z, s : Says(rs, Row(x, z, s)) /\ a \notin x /\ a \in z
                        => Says(rt, Row(x, z \ {a}, (s + m[1]) % 2))
      /\ \/ \A l \in Lines : rt[l].x = rs[l].x /\ rt[l].z = rs[l].z
         \/ \E p \in Lines :
              /\ a \in rs[p].x
              /\ \A l \in Lines :
                   rt[l].z = IF l = p THEN {a}
                             ELSE IF a \in rs[l].x THEN SymDiff(rs[l].z, rs[p].z) ELSE rs[l].z
  <2>1. Resets(rs, a, rt, m[1])
    BY <1>1, <1>2, <1>4, MrSays
  <2> HIDE DEF rt
  <2> QED BY <2>1 DEF Resets
<1> HIDE DEF rt
<1>6. ASSUME NEW l \in Lines PROVE Shape("z", a, rt[l])
  <2>1. \A j \in Lines : Shape("h", a, rs[j])
    BY <1>2 DEF State
  <2>2. CASE rt[l].z = rs[l].z
    BY <2>1, <2>2 DEF Shape
  <2>3. ASSUME NEW p \in Lines, a \in rs[p].x,
               rt[l].z = IF l = p THEN {a}
                         ELSE IF a \in rs[l].x THEN SymDiff(rs[l].z, rs[p].z) ELSE rs[l].z
        PROVE  Shape("z", a, rt[l])
    <3>1. rs[p].z \cap XAncs = {}
      BY <2>1, <2>3 DEF Shape
    <3>2. CASE a \in rs[l].x
      <4>1. rs[l].z \cap XAncs = {}
        BY <2>1, <3>2 DEF Shape
      <4>2. rt[l].z = {a} \/ rt[l].z \cap XAncs = {}
        BY <2>3, <3>1, <3>2, <4>1 DEF SymDiff
      <4> QED BY <1>1, <4>2 DEF Shape
    <3>3. CASE a \notin rs[l].x
      <4>1. rt[l].z = {a} \/ rt[l].z = rs[l].z
        BY <2>3, <3>3
      <4> QED BY <1>1, <2>1, <4>1 DEF Shape
    <3> QED BY <3>2, <3>3
  <2> QED BY <1>5, <2>2, <2>3
<1>7. \A z : ImZ("z", a, {}, z) = z /\ ImZ("h", a, Supp(i), z) = z
  BY DEF ImZ
<1>8. \A c : ImX("z", a, {}, c) = c /\ ImX("h", a, Supp(i), c) = c
  <2>1. \A c : {} \cap c = {}
    OBVIOUS
  <2> QED BY <2>1, ParSmall DEF ImX
<1>9. ASSUME NEW z \in ZSets PROVE Says(rt, Row({}, ImZ("z", a, {}, z), zs[z]))
  <2>1. Says(rs, Row({}, z, zs[z])) /\ a \notin z /\ a \notin {}
    BY <1>1, <1>2, <1>7, Places DEF State
  <2> QED BY <1>5, <1>7, <2>1
<1>10. ASSUME NEW b \in Ancs \ {a} PROVE Says(rt, Row({}, {b}, at[b]))
  <2>1. Says(rs, Row({}, {b}, as[b])) /\ a \notin {b} /\ a \notin {}
    BY <1>2 DEF State
  <2> QED BY <1>3, <1>5, <2>1
<1>11. Says(rt, Own("z", a, {}, at[a]))
  <2>1. {a} \cup {} = {a}
    OBVIOUS
  <2> QED BY <1>3, <1>5, <2>1 DEF Own
<1>12. ASSUME NEW c \in C PROVE Says(rt, Row(ImX("z", a, {}, Supp(c)), {}, xs[c]))
  <2>1. Says(rs, Row(Supp(c), {}, xs[c])) /\ a \notin {}
    BY <1>2, <1>8 DEF State
  <2>2. a \notin Supp(c)
    BY <1>1, Places
  <2> QED BY <1>5, <1>8, <2>1, <2>2
<1>13. Says(rt, Row(Supp(i), {}, (as[a] + m[1]) % 2))
  <2>1. Says(rs, Row(Supp(i), {a}, as[a]))
    BY <1>2 DEF State, Own
  <2>2. a \notin Supp(i) /\ a \in {a} /\ {a} \ {a} = {}
    BY <1>1
  <2> QED BY <1>5, <2>1, <2>2
<1>14. State(rt, "z", a, {}, C, zs, at, xs)
  BY <1>5, <1>6, <1>9, <1>10, <1>11, <1>12 DEF State
<1> QED BY <1>5, <1>13, <1>14 DEF rt, at, a

(* The end of a Z check: its outcome is the sign of its mask, up to that of *)
(* the ancilla, and is not drawn.                                           *)
LEMMA EndOfZ ==
  ASSUME SelfCheck(d), NEW i \in NX + 1 .. K, NEW rs, NEW C \in SUBSET (1 .. NX), NEW zs,
         NEW as \in [Ancs -> {0, 1}], NEW xs,
         State(rs, "z", Anc(i), Supp(i), C, zs, as, xs), NEW m \in Mr(rs, Anc(i))
  PROVE  /\ m[1] = (as[Anc(i)] + zs[Supp(i)]) % 2
         /\ State(m[2], "z", Anc(i), {}, C, zs, [as EXCEPT ![Anc(i)] = 0], xs)
<1> DEFINE a  == Anc(i)
           D  == Supp(i)
           rt == m[2]
           at == [as EXCEPT ![a] = 0]
<1>1. a \in Qubits /\ a \notin Data /\ a \in Ancs /\ a \notin XAncs /\ D \subseteq Data /\ D \in ZSets
  BY Places DEF ZSets
<1>2. State(rs, "z", a, D, C, zs, as, xs) /\ m \in Mr(rs, a)
  OBVIOUS
<1>3. at[a] = 0 /\ \A b \in Ancs \ {a} : at[b] = as[b]
  BY <1>1
<1>4. \A c \in C : Par(D \cap Supp(c)) = 0
  <2>1. \A c \in C : Par(Supp(c) \cap D) = 0 /\ Supp(c) \cap D = D \cap Supp(c)
    BY <1>1, Commuting
  <2> QED BY <2>1
<1> HIDE DEF a, at, D
<1>5. Tab(rs)
  BY <1>2 DEF State
<1>6. /\ Tab(rt) /\ m[1] \in {0, 1} /\ Says(rt, Row({}, {a}, 0))
      /\ \A x, z, s : Says(rs, Row(x, z, s)) /\ a \notin x /\ a \notin z => Says(rt, Row(x, z, s))
      /\ \/ \A l \in Lines : rt[l].x = rs[l].x /\ rt[l].z = rs[l].z
         \/ \E p \in Lines : a \in rs[p].x
      /\ \A s : Says(rs, Row({}, {a}, s)) => m[1] = s
  <2>1. Resets(rs, a, rt, m[1])
    BY <1>1, <1>2, <1>5, MrSays
  <2> HIDE DEF rt
  <2> QED BY <2>1 DEF Resets
<1> HIDE DEF rt
<1>7. Says(rs, Row({}, {a}, (as[a] + zs[D]) % 2))
  <2>1. Says(rs, Row({}, {a} \cup D, as[a])) /\ Says(rs, Row({}, D, zs[D]))
    BY <1>1, <1>2 DEF State, Own, ImZ
  <2>2. Says(rs, Row(SymDiff({}, {}), SymDiff({a} \cup D, D), (as[a] + zs[D]) % 2))
    BY <1>5, <2>1, Products
  <2>3. SymDiff({}, {}) = {} /\ SymDiff({a} \cup D, D) = {a}
    BY <1>1 DEF SymDiff
  <2> QED BY <2>2, <2>3
<1>8. \A l \in Lines : a \notin rs[l].x
  <2>1. (as[a] + zs[D]) % 2 \in {0, 1}
    BY <1>5, <1>7, SignsAre
  <2> QED BY <1>1, <1>5, <1>7, <2>1, SaysCommutes
<1>9. \A l \in Lines : Shape("z", a, rt[l])
  <2>1. \A l \in Lines : Shape("z", a, rs[l])
    BY <1>2 DEF State
  <2> QED BY <1>6, <1>8, <2>1 DEF Shape
<1>10. ASSUME NEW z \in ZSets PROVE Says(rt, Row({}, ImZ("z", a, {}, z), zs[z]))
  <2>1. Says(rs, Row({}, z, zs[z])) /\ a \notin z /\ a \notin {}
    BY <1>1, <1>2, Places DEF State, ImZ
  <2> QED BY <1>6, <2>1 DEF ImZ
<1>11. ASSUME NEW b \in Ancs \ {a} PROVE Says(rt, Row({}, {b}, at[b]))
  <2>1. Says(rs, Row({}, {b}, as[b])) /\ a \notin {b} /\ a \notin {}
    BY <1>2 DEF State
  <2> QED BY <1>3, <1>6, <2>1
<1>12. Says(rt, Own("z", a, {}, at[a]))
  <2>1. {a} \cup {} = {a}
    OBVIOUS
  <2> QED BY <1>3, <1>6, <2>1 DEF Own
<1>13. ASSUME NEW c \in C PROVE Says(rt, Row(ImX("z", a, {}, Supp(c)), {}, xs[c]))
  <2>1. ImX("z", a, D, Supp(c)) = Supp(c) /\ ImX("z", a, {}, Supp(c)) = Supp(c)
    <3>1. {} \cap Supp(c) = {}
      OBVIOUS
    <3>2. Par({} \cap Supp(c)) = 0 /\ Par(D \cap Supp(c)) = 0
      BY <1>4, <3>1, ParSmall
    <3> QED BY <3>2 DEF ImX
  <2>2. Says(rs, Row(Supp(c), {}, xs[c])) /\ a \notin {}
    BY <1>2, <2>1 DEF State
  <2>3. a \notin Supp(c)
    BY <1>1, Places
  <2> QED BY <1>6, <2>1, <2>2, <2>3
<1>14. State(rt, "z", a, {}, C, zs, at, xs)
  BY <1>6, <1>9, <1>10, <1>11, <1>12, <1>13 DEF State
<1> QED BY <1>6, <1>7, <1>14 DEF rt, at, a, D

-----------------------------------------------------------------------------
(* The record beside the signs.  The outcomes are in os, and n errors have  *)
(* happened: without one all signs are 0 but those of the X checks, whose   *)
(* outcomes repeat; with one that flipped the logical row, a detector shows *)
(* it or will, as the sign of a Z check is flipped whose outcomes are 0.    *)
Odd(os, ms)   == Par({i \in ms : os[i] = 1}) = 1
Fired(os)     == \E ms \in AllDetectors : (\A i \in ms : i \in 1 .. Len(os)) /\ Odd(os, ms)
ZeroLog(os, i) == \A r \in 1 .. Rounds : AncMeas(d, i, r) <= Len(os) => os[AncMeas(d, i, r)] = 0

Quiet(os, C, zs, as, xs) ==
  /\ \A z \in ZSets : zs[z] = 0
  /\ \A b \in Ancs : as[b] = 0
  /\ \A i \in NX + 1 .. K : ZeroLog(os, i)
  /\ \A i \in 1 .. NX, r \in 1 .. Rounds :
       AncMeas(d, i, r) <= Len(os) => i \in C /\ os[AncMeas(d, i, r)] = xs[i]

Watched(os, zs) == Fired(os) \/ \E i \in NX + 1 .. K : zs[Supp(i)] = 1 /\ ZeroLog(os, i)

Log(os, n, C, zs, as, xs) ==
  /\ os \in Seq({0, 1}) /\ n \in Nat
  /\ C \in SUBSET (1 .. NX)
  /\ zs \in [ZSets -> {0, 1}] /\ as \in [Ancs -> {0, 1}] /\ xs \in [1 .. NX -> {0, 1}]
  /\ n = 0 => Quiet(os, C, zs, as, xs)
  /\ n <= 1 /\ zs[Row0] = 1 => Watched(os, zs)

Good(rs, os, n, k, a, T) ==
  \E C, zs, as, xs : Log(os, n, C, zs, as, xs) /\ State(rs, k, a, T, C, zs, as, xs)

Stage(k, a, T) ==
  /\ T \in SUBSET Data /\ a \in Ancs /\ k \in {"z", "x", "h"}
  /\ k = "x" => \E i \in 1 .. NX : \E n \in 0 .. Width(i) : T = Prefix(i, n)

(* What flips the logical row flips a Z check.                              *)
LEMMA HitChecked ==
  ASSUME NEW k, NEW a, NEW T, Stage(k, a, T), NEW q, q \in ImZ(k, a, T, Row0)
  PROVE  \E j \in NX + 1 .. K : q \in ImZ(k, a, T, Supp(j))
<1>1. CASE q \in Row0
  <2>1. PICK j \in NX + 1 .. K : q \in Supp(j)
    BY <1>1, RowChecked
  <2> QED BY <2>1 DEF ImZ
<1>2. CASE q \notin Row0
  <2>1. q = a /\ k = "x" /\ Par(T \cap Row0) = 1
    BY <1>2 DEF ImZ
  <2>2. PICK p \in Row0 : T = {p}
    BY <2>1, RowTogether DEF Stage
  <2>3. PICK j \in NX + 1 .. K : p \in Supp(j)
    BY RowChecked
  <2>4. T \cap Supp(j) = {p}
    BY <2>2, <2>3
  <2>5. Par(T \cap Supp(j)) = 1
    BY <2>4, ParSmall
  <2> QED BY <2>1, <2>5 DEF ImZ
<1> QED BY <1>1, <1>2

(* An error in the record of the signs.                                     *)
LEMMA Hit ==
  ASSUME NEW os, NEW n, NEW C, NEW zs, NEW as, NEW xs, Log(os, n, C, zs, as, xs),
         NEW hit \in [ZSets -> {0, 1}], hit[Row0] = 1 => \E j \in NX + 1 .. K : hit[Supp(j)] = 1,
         NEW at \in [Ancs -> {0, 1}]
  PROVE  Log(os, n + 1, {}, [z \in ZSets |-> (zs[z] + hit[z]) % 2], at, xs)
<1> DEFINE zt == [z \in ZSets |-> (zs[z] + hit[z]) % 2]
<1>1. zs \in [ZSets -> {0, 1}] /\ n \in Nat
  BY DEF Log
<1>2. zt \in [ZSets -> {0, 1}] /\ \A z \in ZSets : zt[z] = (zs[z] + hit[z]) % 2
  <2>1. \A z \in ZSets : (zs[z] + hit[z]) % 2 \in {0, 1}
    BY <1>1
  <2> QED BY <2>1
<1> HIDE DEF zt
<1>3. n + 1 \in Nat /\ n + 1 # 0
  BY <1>1
<1>4. ASSUME n + 1 <= 1, zt[Row0] = 1 PROVE Watched(os, zt)
  <2>1. n = 0
    BY <1>1, <1>4
  <2>2. Quiet(os, C, zs, as, xs)
    BY <2>1 DEF Log
  <2>3. \A z \in ZSets : zt[z] = hit[z]
    BY <1>2, <2>2 DEF Quiet
  <2>4. Row0 \in ZSets /\ \A j \in NX + 1 .. K : Supp(j) \in ZSets
    BY DEF ZSets
  <2>5. PICK j \in NX + 1 .. K : hit[Supp(j)] = 1
    BY <1>4, <2>3, <2>4
  <2>6. zt[Supp(j)] = 1 /\ ZeroLog(os, j)
    BY <2>2, <2>3, <2>4, <2>5 DEF Quiet
  <2> QED BY <2>6 DEF Watched
<1> QED BY <1>2, <1>3, <1>4 DEF Log, zt

(* A Pauli gate, and what it does to the signs.                             *)
LEMMA Flips ==
  ASSUME NEW rs, NEW k, NEW a, NEW T, Stage(k, a, T), NEW C, NEW zs, NEW as, NEW xs,
         State(rs, k, a, T, C, zs, as, xs), NEW g \in {"X", "Z"}, NEW q \in Qubits,
         NEW zt, \A z \in ZSets : zt[z] = IF g = "X" THEN (zs[z] + Bit(ImZ(k, a, T, z), q)) % 2 ELSE zs[z]
  PROVE  \E at \in [Ancs -> {0, 1}] : State(Apply(rs, Op(g, q)), k, a, T, {}, zt, at, xs)
<1> DEFINE rt == Apply(rs, Op(g, q))
<1>1. Tab(rs)
  BY DEF State
<1>2. Op(g, q) \in E!Instrs /\ Op(g, q).gate \in {"X", "Z", "CNOT"}
  BY Instructions, GateIs
<1>3. Tab(rt) /\ \A l \in Lines : rt[l].x = rs[l].x /\ rt[l].z = rs[l].z
  <2>1. Tab(rt) /\ \A l \in Lines : rt[l] = Gate(rs[l], Op(g, q))
    BY <1>1, <1>2, ApplyRows
  <2>2. \A u : Gate(u, Op(g, q)).x = u.x /\ Gate(u, Op(g, q)).z = u.z
    <3>1. CASE g = "X"
      BY <3>1, GateRow
    <3>2. CASE g = "Z"
      BY <3>2, GateRow
    <3> QED BY <3>1, <3>2
  <2> QED BY <2>1, <2>2
<1>4. ASSUME NEW x, NEW z, NEW s, Says(rs, Row(x, z, s))
      PROVE  /\ Says(rt, Row(x, z, IF g = "X" THEN (s + Bit(z, q)) % 2 ELSE (s + Bit(x, q)) % 2))
             /\ s \in {0, 1}
  <2>1. Says(rt, Gate(Row(x, z, s), Op(g, q)))
    BY <1>1, <1>2, <1>4, ApplySays
  <2>2. Gate(Row(x, z, s), Op(g, q)) = Row(x, z, IF g = "X" THEN (s + Bit(z, q)) % 2 ELSE (s + Bit(x, q)) % 2)
    <3>1. CASE g = "X"
      BY <3>1, GateRow
    <3>2. CASE g = "Z"
      BY <3>2, GateRow
    <3> QED BY <3>1, <3>2
  <2> QED BY <1>1, <1>4, <2>1, <2>2, SignsAre
<1> HIDE DEF rt
<1>5. ASSUME NEW x, NEW z, NEW s, Says(rs, Row(x, z, s)) PROVE \E t \in {0, 1} : Says(rt, Row(x, z, t))
  <2>1. (s + Bit(z, q)) % 2 \in {0, 1} /\ (s + Bit(x, q)) % 2 \in {0, 1}
    BY <1>4, <1>5 DEF Bit
  <2> QED BY <1>4, <1>5, <2>1
<1>6. ASSUME NEW b \in Ancs PROVE \E t \in {0, 1} : Says(rt, IF b = a THEN Own(k, a, T, t) ELSE Row({}, {b}, t))
  <2>1. CASE b # a
    <3>1. Says(rs, Row({}, {b}, as[b]))
      BY <2>1 DEF State
    <3>2. PICK t \in {0, 1} : Says(rt, Row({}, {b}, t))
      BY <1>5, <3>1
    <3> QED BY <2>1, <3>2
  <2>2. CASE b = a
    <3>1. PICK x, z : \A s : Own(k, a, T, s) = Row(x, z, s)
      BY DEF Stage, Own
    <3>2. Says(rs, Row(x, z, as[a]))
      BY <3>1 DEF State
    <3>3. PICK t \in {0, 1} : Says(rt, Row(x, z, t))
      BY <1>5, <3>2
    <3> QED BY <2>2, <3>1, <3>3
  <2> QED BY <2>1, <2>2
<1> DEFINE at == [b \in Ancs |-> CHOOSE t \in {0, 1} : Says(rt, IF b = a THEN Own(k, a, T, t) ELSE Row({}, {b}, t))]
<1>7. at \in [Ancs -> {0, 1}] /\ \A b \in Ancs : Says(rt, IF b = a THEN Own(k, a, T, at[b]) ELSE Row({}, {b}, at[b]))
  BY <1>6
<1> HIDE DEF at
<1>8. Says(rt, Own(k, a, T, at[a])) /\ \A b \in Ancs \ {a} : Says(rt, Row({}, {b}, at[b]))
  BY <1>7 DEF Stage
<1>9. ASSUME NEW z \in ZSets PROVE Says(rt, Row({}, ImZ(k, a, T, z), zt[z]))
  <2> DEFINE m == ImZ(k, a, T, z)
  <2>1. Says(rs, Row({}, m, zs[z]))
    BY DEF State
  <2>2. Says(rt, Row({}, m, IF g = "X" THEN (zs[z] + Bit(m, q)) % 2 ELSE (zs[z] + Bit({}, q)) % 2)) /\ zs[z] \in {0, 1}
    BY <1>4, <2>1
  <2>3. (zs[z] + Bit({}, q)) % 2 = zs[z]
    BY <2>2 DEF Bit
  <2>4. zt[z] = IF g = "X" THEN (zs[z] + Bit(m, q)) % 2 ELSE zs[z]
    OBVIOUS
  <2> HIDE DEF m
  <2> QED BY <2>2, <2>3, <2>4 DEF m
<1>10. \A l \in Lines : Shape(k, a, rt[l])
  <2>1. \A l \in Lines : Shape(k, a, rs[l])
    BY DEF State
  <2>2. \A l \in Lines : Shape(k, a, rs[l]) => Shape(k, a, rt[l])
    BY <1>3 DEF Shape
  <2> QED BY <2>1, <2>2
<1>11. State(rt, k, a, T, {}, zt, at, xs)
  BY <1>3, <1>8, <1>9, <1>10 DEF State
<1> QED BY <1>7, <1>11 DEF rt

(* An error behind an instruction. *)
LEMMA ErrorKeeps ==
  ASSUME NEW k, NEW a, NEW T, Stage(k, a, T), NEW rs, NEW os, NEW n, Good(rs, os, n, k, a, T),
         NEW q \in Qubits, NEW e \in Errors
  PROVE  Good(ApplyPauli(rs, q, e), os, n + Count(e), k, a, T)
<1>1. PICK C, zs, as, xs : Log(os, n, C, zs, as, xs) /\ State(rs, k, a, T, C, zs, as, xs)
  BY DEF Good
<1>2. n \in Nat /\ zs \in [ZSets -> {0, 1}]
  BY <1>1 DEF Log
<1> DEFINE hit == [z \in ZSets |-> Bit(ImZ(k, a, T, z), q)]
           none == [z \in ZSets |-> 0]
           zt == [z \in ZSets |-> (zs[z] + hit[z]) % 2]
<1>3. hit \in [ZSets -> {0, 1}] /\ (hit[Row0] = 1 => \E j \in NX + 1 .. K : hit[Supp(j)] = 1)
  <2>1. Row0 \in ZSets /\ \A j \in NX + 1 .. K : Supp(j) \in ZSets
    BY DEF ZSets
  <2>2. \A z \in ZSets : hit[z] \in {0, 1} /\ (hit[z] = 1 <=> q \in ImZ(k, a, T, z))
    BY DEF Bit
  <2>3. hit \in [ZSets -> {0, 1}]
    BY DEF Bit
  <2> HIDE DEF hit
  <2> QED BY <2>1, <2>2, <2>3, HitChecked
<1>4. none \in [ZSets -> {0, 1}] /\ none[Row0] # 1
  BY DEF ZSets
<1>5. [z \in ZSets |-> (zs[z] + none[z]) % 2] = zs
  <2>1. \A z \in ZSets : (zs[z] + 0) % 2 = zs[z]
    BY <1>2
  <2> QED BY <1>2, <2>1
<1>6. \A at \in [Ancs -> {0, 1}] : Log(os, n + 1, {}, zt, at, xs)
  <2> HIDE DEF hit
  <2> QED BY <1>1, <1>3, Hit
<1>7. \A at \in [Ancs -> {0, 1}] : Log(os, n + 1, {}, zs, at, xs)
  <2> HIDE DEF none
  <2>1. \A at \in [Ancs -> {0, 1}] : Log(os, n + 1, {}, [z \in ZSets |-> (zs[z] + none[z]) % 2], at, xs)
    BY <1>1, <1>4, Hit
  <2> QED BY <1>5, <2>1
<1>8. \E at \in [Ancs -> {0, 1}] : State(Apply(rs, Op("X", q)), k, a, T, {}, zt, at, xs)
  <2>1. \A z \in ZSets : zt[z] = IF "X" = "X" THEN (zs[z] + Bit(ImZ(k, a, T, z), q)) % 2 ELSE zs[z]
    OBVIOUS
  <2> HIDE DEF zt
  <2> QED BY <1>1, <2>1, Flips
<1> HIDE DEF zt, hit, none
<1>9. ASSUME NEW rr, NEW D, NEW vs, NEW bs, State(rr, k, a, T, D, vs, bs, xs)
      PROVE  \E at \in [Ancs -> {0, 1}] : State(Apply(rr, Op("Z", q)), k, a, T, {}, vs, at, xs)
  <2>1. \A z \in ZSets : vs[z] = IF "Z" = "X" THEN (vs[z] + Bit(ImZ(k, a, T, z), q)) % 2 ELSE vs[z]
    OBVIOUS
  <2> QED BY <1>9, <2>1, Flips
<1>10. CASE e = "none"
  <2>1. ApplyPauli(rs, q, e) = rs /\ n + Count(e) = n
    BY <1>2, <1>10 DEF ApplyPauli, Count
  <2> QED BY <2>1
<1>11. CASE e = "X"
  <2>1. ApplyPauli(rs, q, e) = Apply(rs, Op("X", q)) /\ n + Count(e) = n + 1
    BY <1>11 DEF ApplyPauli, Count
  <2> QED BY <1>6, <1>8, <2>1 DEF Good
<1>12. CASE e = "Z"
  <2>1. ApplyPauli(rs, q, e) = Apply(rs, Op("Z", q)) /\ n + Count(e) = n + 1
    BY <1>12 DEF ApplyPauli, Count
  <2> QED BY <1>1, <1>7, <1>9, <2>1 DEF Good
<1>13. CASE e = "Y"
  <2>1. ApplyPauli(rs, q, e) = Apply(Apply(rs, Op("X", q)), Op("Z", q)) /\ n + Count(e) = n + 1
    BY <1>13 DEF ApplyPauli, Count
  <2>2. PICK bs \in [Ancs -> {0, 1}] : State(Apply(rs, Op("X", q)), k, a, T, {}, zt, bs, xs)
    BY <1>8
  <2>3. \E at \in [Ancs -> {0, 1}] : State(Apply(Apply(rs, Op("X", q)), Op("Z", q)), k, a, T, {}, zt, at, xs)
    BY <1>9, <2>2
  <2> QED BY <1>6, <2>1, <2>3 DEF Good
<1> QED BY <1>10, <1>11, <1>12, <1>13 DEF Errors

-----------------------------------------------------------------------------
(* The outcome of a check.                                                  *)

LEMMA AncIs ==
  ASSUME NEW i \in 1 .. K, NEW r \in 1 .. Rounds
  PROVE  /\ AncMeas(d, i, r) = (r - 1) * K + i /\ AncMeas(d, i, r) \in Nat \ {0}
         /\ AncMeas(d, i, r) <= Rounds * K
         /\ \A j \in 1 .. K, t \in 1 .. Rounds : AncMeas(d, j, t) = AncMeas(d, i, r) => j = i /\ t = r
         /\ r > 1 => /\ r - 1 \in 1 .. Rounds /\ r \in 2 .. Rounds
                     /\ AncMeas(d, i, r - 1) \in 1 .. AncMeas(d, i, r) - 1
<1>1. d * d - 1 = K /\ Rounds \in Nat
  BY Params
<1>2. \A j, t : AncMeas(d, j, t) = (t - 1) * K + j
  BY <1>1 DEF AncMeas
<1>3. CASE K = 8
  BY <1>1, <1>2, <1>3
<1>4. CASE K = 24
  BY <1>1, <1>2, <1>4
<1> QED BY <1>3, <1>4, Params

LEMMA AppendIs ==
  ASSUME NEW os \in Seq({0, 1}), NEW v \in {0, 1}
  PROVE  /\ Append(os, v) \in Seq({0, 1}) /\ Len(os) \in Nat /\ Len(Append(os, v)) = Len(os) + 1
         /\ \A i \in 1 .. Len(os) : Append(os, v)[i] = os[i]
         /\ Append(os, v)[Len(os) + 1] = v
OBVIOUS

LEMMA ZeroAppend ==
  ASSUME NEW os \in Seq({0, 1}), NEW v \in {0, 1}, NEW j \in 1 .. K, ZeroLog(os, j),
         v = 0 \/ \A r \in 1 .. Rounds : AncMeas(d, j, r) # Len(os) + 1
  PROVE  ZeroLog(Append(os, v), j)
<1> SUFFICES ASSUME NEW r \in 1 .. Rounds, AncMeas(d, j, r) <= Len(Append(os, v))
             PROVE  Append(os, v)[AncMeas(d, j, r)] = 0
  BY DEF ZeroLog
<1> DEFINE p == AncMeas(d, j, r)
           N == Len(os)
           ot == Append(os, v)
<1>1. p \in Nat \ {0}
  BY AncIs
<1>2. N \in Nat /\ Len(ot) = N + 1 /\ (\A i \in 1 .. N : ot[i] = os[i]) /\ ot[N + 1] = v
  BY AppendIs
<1>3. p <= N + 1 /\ (p <= N => os[p] = 0) /\ (v = 0 \/ p # N + 1)
  BY <1>2 DEF ZeroLog
<1> HIDE DEF p, N, ot
<1>4. p \in 1 .. N \/ p = N + 1
  BY <1>1, <1>2, <1>3
<1>7. ot[p] = 0
  <2>1. CASE p \in 1 .. N
    BY <1>2, <1>3, <2>1
  <2>2. CASE p = N + 1
    BY <1>2, <1>3, <2>2
  <2> QED BY <1>4, <2>1, <2>2
<1> QED BY <1>7 DEF ot, p

LEMMA FiredAppend ==
  ASSUME NEW os \in Seq({0, 1}), NEW v \in {0, 1}, Fired(os)
  PROVE  Fired(Append(os, v))
<1>1. PICK ms \in AllDetectors : (\A i \in ms : i \in 1 .. Len(os)) /\ Odd(os, ms)
  BY DEF Fired
<1> DEFINE ot == Append(os, v)
<1>2. Len(os) \in Nat /\ Len(ot) = Len(os) + 1 /\ \A i \in 1 .. Len(os) : ot[i] = os[i]
  BY AppendIs
<1> HIDE DEF ot
<1>3. \A i \in ms : i \in 1 .. Len(ot) /\ ot[i] = os[i]
  <2> DEFINE N == Len(os)
             M == Len(ot)
  <2>1. N \in Nat /\ M = N + 1 /\ (\A i \in ms : i \in 1 .. N) /\ \A i \in 1 .. N : ot[i] = os[i]
    BY <1>1, <1>2
  <2> HIDE DEF N, M
  <2>2. \A i \in ms : i \in 1 .. M /\ ot[i] = os[i]
    BY <2>1
  <2> QED BY <2>2 DEF M
<1>4. {i \in ms : ot[i] = 1} = {i \in ms : os[i] = 1}
  BY <1>3
<1> QED BY <1>1, <1>3, <1>4 DEF Fired, Odd, ot

LEMMA DetectorsAre ==
  /\ \A i \in 1 .. K, r \in 2 .. Rounds : {AncMeas(d, i, r - 1), AncMeas(d, i, r)} \in AllDetectors
  /\ \A i \in NX + 1 .. K : {AncMeas(d, i, 1)} \in AllDetectors
  /\ \A i \in NX + 1 .. K :
       {AncMeas(d, i, Rounds)} \cup {DataMeas(d, Rounds, q) : q \in Supp(i)} \in AllDetectors
  /\ \A ms \in AllDetectors :
       \/ \E i \in 1 .. K, r \in 2 .. Rounds : ms = {AncMeas(d, i, r - 1), AncMeas(d, i, r)}
       \/ \E i \in NX + 1 .. K : ms = {AncMeas(d, i, 1)}
       \/ \E i \in NX + 1 .. K :
            ms = {AncMeas(d, i, Rounds)} \cup {DataMeas(d, Rounds, q) : q \in Supp(i)}
<1> DEFINE Z(i) == {AncMeas(d, Len(XChecks(d)) + i, 1)}
           L(i) == {AncMeas(d, Len(XChecks(d)) + i, Rounds)}
                     \cup {DataMeas(d, Rounds, q) : q \in ToSet(ZChecks(d)[i])}
           O == {{AncMeas(d, i, r - 1), AncMeas(d, i, r)} : i \in 1 .. d * d - 1, r \in 2 .. Rounds}
<1>1. AllDetectors = O \cup {Z(i) : i \in 1 .. NX} \cup {L(i) : i \in 1 .. NX}
  <2>1. DOMAIN ZChecks(d) = 1 .. NX
    BY ChecksAre
  <2>2. AllDetectors = Overlaps(d, Rounds) \cup {Z(i) : i \in DOMAIN ZChecks(d)}
                                           \cup {L(i) : i \in DOMAIN ZChecks(d)}
    BY DEF AllDetectors, Detectors, d
  <2>3. Overlaps(d, Rounds) = O
    BY DEF Overlaps
  <2> HIDE DEF O, Z, L
  <2> QED BY <2>1, <2>2, <2>3
<1>2. \A i \in NX + 1 .. K : i - NX \in 1 .. NX /\ NX + (i - NX) = i /\ ~ (i <= NX)
  BY Sizes
<1>3. \A i \in 1 .. NX : NX + i \in NX + 1 .. K /\ (NX + i) - NX = i /\ ~ (NX + i <= NX)
  BY Sizes
<1>4. \A i \in 1 .. NX : Supp(NX + i) = ToSet(ZChecks(d)[i])
  BY <1>3 DEF Supp, Check
<1>5. \A i \in 1 .. NX : /\ Z(i) = {AncMeas(d, NX + i, 1)}
                         /\ L(i) = {AncMeas(d, NX + i, Rounds)} \cup {DataMeas(d, Rounds, q) : q \in Supp(NX + i)}
  BY <1>4 DEF NX
<1>6. d * d - 1 = K
  BY Params
<1> HIDE DEF Z, L
<1>7. \A i \in 1 .. K, r \in 2 .. Rounds : {AncMeas(d, i, r - 1), AncMeas(d, i, r)} \in AllDetectors
  BY <1>1, <1>6
<1>8. ASSUME NEW i \in NX + 1 .. K PROVE {AncMeas(d, i, 1)} \in AllDetectors
  <2>1. Z(i - NX) = {AncMeas(d, i, 1)} /\ i - NX \in 1 .. NX
    BY <1>2, <1>5
  <2> QED BY <1>1, <2>1
<1>9. ASSUME NEW i \in NX + 1 .. K
      PROVE  {AncMeas(d, i, Rounds)} \cup {DataMeas(d, Rounds, q) : q \in Supp(i)} \in AllDetectors
  <2>1. L(i - NX) = {AncMeas(d, i, Rounds)} \cup {DataMeas(d, Rounds, q) : q \in Supp(i)} /\ i - NX \in 1 .. NX
    BY <1>2, <1>5
  <2> QED BY <1>1, <2>1
<1>10. ASSUME NEW ms \in AllDetectors
       PROVE  \/ \E i \in 1 .. K, r \in 2 .. Rounds : ms = {AncMeas(d, i, r - 1), AncMeas(d, i, r)}
              \/ \E i \in NX + 1 .. K : ms = {AncMeas(d, i, 1)}
              \/ \E i \in NX + 1 .. K :
                   ms = {AncMeas(d, i, Rounds)} \cup {DataMeas(d, Rounds, q) : q \in Supp(i)}
  <2>1. CASE ms \in O
    BY <1>6, <2>1
  <2>2. ASSUME NEW i \in 1 .. NX, ms = Z(i) PROVE \E j \in NX + 1 .. K : ms = {AncMeas(d, j, 1)}
    BY <1>3, <1>5, <2>2
  <2>3. ASSUME NEW i \in 1 .. NX, ms = L(i)
        PROVE  \E j \in NX + 1 .. K :
                 ms = {AncMeas(d, j, Rounds)} \cup {DataMeas(d, Rounds, q) : q \in Supp(j)}
    BY <1>3, <1>5, <2>3
  <2> QED BY <1>1, <2>1, <2>2, <2>3
<1> QED BY <1>7, <1>8, <1>9, <1>10

(* A Z check that differs from its outcome before.                          *)
LEMMA Differs ==
  ASSUME NEW os \in Seq({0, 1}), NEW j \in NX + 1 .. K, NEW r \in 1 .. Rounds,
         AncMeas(d, j, r) = Len(os) + 1, ZeroLog(os, j)
  PROVE  Fired(Append(os, 1))
<1> DEFINE p == AncMeas(d, j, r)
           N == Len(os)
           ot == Append(os, 1)
<1>1. /\ N \in Nat /\ Len(ot) = N + 1 /\ ot[N + 1] = 1 /\ p = N + 1
      /\ \A i \in 1 .. N : ot[i] = os[i]
  BY AppendIs
<1>2. j \in 1 .. K
  BY Places
<1> HIDE DEF ot
<1>3. CASE r = 1
  <2>1. {p} \in AllDetectors
    BY <1>3, DetectorsAre
  <2> HIDE DEF p, N
  <2>2. {i \in {p} : ot[i] = 1} = {p}
    BY <1>1
  <2>3. p \in 1 .. Len(ot)
    BY <1>1
  <2>4. Odd(ot, {p})
    BY <2>2, ParSmall DEF Odd
  <2> QED BY <2>1, <2>3, <2>4 DEF Fired, ot
<1>4. CASE r > 1
  <2> DEFINE b == AncMeas(d, j, r - 1)
  <2>1. r \in 2 .. Rounds /\ r - 1 \in 1 .. Rounds /\ b \in 1 .. p - 1
    BY <1>2, <1>4, AncIs
  <2>2. {b, p} \in AllDetectors
    BY <1>2, <2>1, DetectorsAre
  <2>3. b <= N => os[b] = 0
    BY <2>1 DEF ZeroLog
  <2> HIDE DEF p, N, b
  <2>4. b \in 1 .. N /\ p \in 1 .. Len(ot) /\ b \in 1 .. Len(ot)
    BY <1>1, <2>1
  <2>5. ot[b] = 0 /\ ot[p] = 1
    BY <1>1, <2>3, <2>4
  <2>6. {i \in {b, p} : ot[i] = 1} = {p}
    BY <2>5
  <2>7. Odd(ot, {b, p})
    BY <2>6, ParSmall DEF Odd
  <2> QED BY <2>2, <2>4, <2>7 DEF Fired, ot
<1> QED BY <1>3, <1>4

(* The record of a check, and the state behind it. *)
LEMMA XOutcome ==
  ASSUME NEW i \in 1 .. NX, NEW r \in 1 .. Rounds, NEW rs, NEW os, NEW n,
         Good(rs, os, n, "h", Anc(i), Supp(i)), AncMeas(d, i, r) = Len(os) + 1,
         NEW m \in Mr(rs, Anc(i)), NEW f \in {0, 1}
  PROVE  Good(m[2], Append(os, (m[1] + f) % 2), n + f, "z", Anc(i), {})
<1>1. PICK C, zs, as, xs : Log(os, n, C, zs, as, xs) /\ State(rs, "h", Anc(i), Supp(i), C, zs, as, xs)
  BY DEF Good
<1>2. /\ os \in Seq({0, 1}) /\ n \in Nat /\ C \in SUBSET (1 .. NX)
      /\ zs \in [ZSets -> {0, 1}] /\ as \in [Ancs -> {0, 1}] /\ xs \in [1 .. NX -> {0, 1}]
      /\ n = 0 => Quiet(os, C, zs, as, xs)
      /\ n <= 1 /\ zs[Row0] = 1 => Watched(os, zs)
  BY <1>1 DEF Log
<1> DEFINE a  == Anc(i)
           rt == m[2]
           o  == m[1]
           v  == (o + f) % 2
           ot == Append(os, v)
           at == [as EXCEPT ![a] = 0]
           D  == IF n + f = 0 THEN C \cup {i} ELSE {}
           xt == [xs EXCEPT ![i] = o]
           N  == Len(os)
<1>3. o \in {0, 1} /\ State(rt, "z", a, {}, C, zs, at, xs) /\ Says(rt, Row(Supp(i), {}, (as[a] + o) % 2))
  BY <1>1, <1>2, EndOfX
<1>4. a \in Ancs /\ i \in 1 .. K
  BY Places
<1>5. at \in [Ancs -> {0, 1}] /\ (\A b \in Ancs : at[b] = IF b = a THEN 0 ELSE as[b])
  BY <1>2, <1>4
<1>6. xt \in [1 .. NX -> {0, 1}] /\ xt[i] = o /\ \A c \in 1 .. NX : c # i => xt[c] = xs[c]
  BY <1>2, <1>3
<1>7. v \in {0, 1} /\ (f = 0 => v = o)
  BY <1>3
<1> HIDE DEF a, rt, o, v, at, xt
<1>8. /\ ot \in Seq({0, 1}) /\ N \in Nat /\ Len(ot) = N + 1
      /\ (\A j \in 1 .. N : ot[j] = os[j]) /\ ot[N + 1] = v
  BY <1>2, <1>7, AppendIs
<1>9. \A j \in 1 .. K, t \in 1 .. Rounds : AncMeas(d, j, t) = N + 1 => j = i /\ t = r
  BY <1>4, AncIs
<1>10. \A c \in NX + 1 .. K : ZeroLog(os, c) => ZeroLog(ot, c)
  <2> SUFFICES ASSUME NEW c \in NX + 1 .. K, ZeroLog(os, c) PROVE ZeroLog(ot, c)
    OBVIOUS
  <2>1. c \in 1 .. K /\ c # i
    BY Sizes
  <2>2. \A t \in 1 .. Rounds : AncMeas(d, c, t) # Len(os) + 1
    BY <1>9, <2>1
  <2> QED BY <1>2, <1>7, <2>1, <2>2, ZeroAppend
<1>11. \A x, z, s, t : /\ Says(rt, Row(x, z, s)) /\ Says(rt, Row(x, z, t)) => s = t
  <2>1. Tab(rt)
    BY <1>3 DEF State
  <2> QED BY <2>1, SignsAre, SaysOnce
<1>12. ImX("z", a, {}, Supp(i)) = Supp(i)
  <2>1. {} \cap Supp(i) = {}
    OBVIOUS
  <2> QED BY <2>1, ParSmall DEF ImX
<1>13. i \in C /\ n = 0 => xs[i] = o
  <2> SUFFICES ASSUME i \in C, n = 0 PROVE xs[i] = o
    OBVIOUS
  <2>1. Says(rt, Row(Supp(i), {}, xs[i]))
    BY <1>3, <1>12 DEF State
  <2>2. (as[a] + o) % 2 = o
    <3>1. as[a] = 0
      BY <1>2, <1>4 DEF Quiet
    <3> QED BY <1>3, <3>1
  <2> QED BY <1>3, <1>11, <2>1, <2>2
<1>14. State(rt, "z", a, {}, D, zs, at, xt)
  <2>1. ASSUME NEW c \in D PROVE Says(rt, Row(ImX("z", a, {}, Supp(c)), {}, xt[c]))
    <3>1. n = 0 /\ c \in C \cup {i}
      BY <1>2, <2>1
    <3>2. CASE c = i
      <4>1. (as[a] + o) % 2 = o
        <5>1. as[a] = 0
          BY <1>2, <1>4, <3>1 DEF Quiet
        <5> QED BY <1>3, <5>1
      <4> QED BY <1>3, <1>6, <1>12, <3>2, <4>1
    <3>3. CASE c # i
      <4>1. c \in C /\ xt[c] = xs[c]
        BY <1>2, <1>6, <3>1, <3>3
      <4> QED BY <1>3, <4>1 DEF State
    <3> QED BY <3>2, <3>3
  <2> HIDE DEF D
  <2> QED BY <1>3, <2>1 DEF State
<1>15. ASSUME n + f = 0 PROVE Quiet(ot, D, zs, at, xt)
  <2>1. n = 0 /\ f = 0 /\ D = C \cup {i} /\ v = o
    BY <1>2, <1>7, <1>15
  <2>2. Quiet(os, C, zs, as, xs)
    BY <1>2, <2>1
  <2>3. ASSUME NEW c \in 1 .. NX, NEW t \in 1 .. Rounds, AncMeas(d, c, t) <= Len(ot)
        PROVE  c \in D /\ ot[AncMeas(d, c, t)] = xt[c]
    <3> DEFINE p == AncMeas(d, c, t)
    <3>1. c \in 1 .. K
      BY Places
    <3>2. p \in Nat \ {0} /\ p <= N + 1
      BY <1>8, <2>3, <3>1, AncIs
    <3>3. CASE p = N + 1
      <4>1. c = i
        BY <1>9, <3>1, <3>3
      <4> QED BY <1>6, <1>8, <2>1, <3>3, <4>1
    <3>4. CASE p <= N
      <4>1. c \in C /\ os[p] = xs[c]
        BY <2>2, <3>4 DEF Quiet
      <4>2. xt[c] = xs[c]
        BY <1>6, <1>13, <2>1, <4>1
      <4>3. p \in 1 .. N
        BY <1>8, <3>2, <3>4
      <4> HIDE DEF p, N
      <4> QED BY <1>8, <2>1, <4>1, <4>2, <4>3 DEF p
    <3>5. p = N + 1 \/ p <= N
      <4> HIDE DEF p, N
      <4> QED BY <1>8, <3>2
    <3> QED BY <3>3, <3>4, <3>5
  <2>4. \A c \in NX + 1 .. K : ZeroLog(ot, c)
    BY <1>10, <2>2 DEF Quiet
  <2>5. \A z \in ZSets : zs[z] = 0
    BY <2>2 DEF Quiet
  <2>6. \A b \in Ancs : at[b] = 0
    BY <1>5, <2>2 DEF Quiet
  <2> HIDE DEF D, ot
  <2> QED BY <2>3, <2>4, <2>5, <2>6 DEF Quiet
<1>16. ASSUME n + f <= 1, zs[Row0] = 1 PROVE Watched(ot, zs)
  <2>1. n <= 1
    BY <1>2, <1>16
  <2>2. Watched(os, zs)
    BY <1>2, <1>16, <2>1
  <2>3. Fired(os) => Fired(ot)
    BY <1>2, <1>7, FiredAppend
  <2> QED BY <1>10, <2>2, <2>3 DEF Watched
<1>17. Log(ot, n + f, D, zs, at, xt)
  <2>1. D \in SUBSET (1 .. NX) /\ n + f \in Nat
    BY <1>2
  <2> HIDE DEF D, ot
  <2> QED BY <1>2, <1>5, <1>6, <1>8, <1>15, <1>16, <2>1 DEF Log
<1> HIDE DEF D, ot
<1>18. Good(rt, ot, n + f, "z", a, {})
  BY <1>14, <1>17 DEF Good
<1> QED BY <1>18 DEF rt, ot, v, o, a

LEMMA ZOutcome ==
  ASSUME SelfCheck(d), NEW i \in NX + 1 .. K, NEW r \in 1 .. Rounds, NEW rs, NEW os, NEW n,
         Good(rs, os, n, "z", Anc(i), Supp(i)), AncMeas(d, i, r) = Len(os) + 1,
         NEW m \in Mr(rs, Anc(i)), NEW f \in {0, 1}
  PROVE  Good(m[2], Append(os, (m[1] + f) % 2), n + f, "z", Anc(i), {})
<1>1. PICK C, zs, as, xs : Log(os, n, C, zs, as, xs) /\ State(rs, "z", Anc(i), Supp(i), C, zs, as, xs)
  BY DEF Good
<1>2. /\ os \in Seq({0, 1}) /\ n \in Nat /\ C \in SUBSET (1 .. NX)
      /\ zs \in [ZSets -> {0, 1}] /\ as \in [Ancs -> {0, 1}] /\ xs \in [1 .. NX -> {0, 1}]
      /\ n = 0 => Quiet(os, C, zs, as, xs)
      /\ n <= 1 /\ zs[Row0] = 1 => Watched(os, zs)
  BY <1>1 DEF Log
<1> DEFINE a  == Anc(i)
           rt == m[2]
           o  == m[1]
           v  == (o + f) % 2
           ot == Append(os, v)
           at == [as EXCEPT ![a] = 0]
           N  == Len(os)
<1>3. o = (as[a] + zs[Supp(i)]) % 2 /\ State(rt, "z", a, {}, C, zs, at, xs)
  BY <1>1, <1>2, EndOfZ
<1>4. a \in Ancs /\ i \in 1 .. K /\ Supp(i) \in ZSets
  BY Places DEF ZSets
<1>5. at \in [Ancs -> {0, 1}] /\ (\A b \in Ancs : at[b] = IF b = a THEN 0 ELSE as[b])
  BY <1>2, <1>4
<1>6. v \in {0, 1} /\ (n + f = 0 => v = 0)
  <2> DEFINE s == as[a]
             t == zs[Supp(i)]
  <2>1. s \in {0, 1} /\ t \in {0, 1} /\ o = (s + t) % 2
    BY <1>2, <1>3, <1>4
  <2>2. n + f = 0 => n = 0 /\ f = 0
    BY <1>2
  <2>3. n = 0 => s = 0 /\ t = 0
    BY <1>2, <1>4 DEF Quiet
  <2> HIDE DEF o, a, s, t
  <2>4. o \in {0, 1}
    BY <2>1
  <2>5. v \in {0, 1}
    BY <2>4
  <2>6. n + f = 0 => v = 0
    BY <2>1, <2>2, <2>3
  <2> QED BY <2>5, <2>6
<1> HIDE DEF a, rt, o, v, at
<1>7. /\ ot \in Seq({0, 1}) /\ N \in Nat /\ Len(ot) = N + 1
      /\ (\A j \in 1 .. N : ot[j] = os[j]) /\ ot[N + 1] = v
  BY <1>2, <1>6, AppendIs
<1>8. \A j \in 1 .. K, t \in 1 .. Rounds : AncMeas(d, j, t) = N + 1 => j = i /\ t = r
  BY <1>4, AncIs
<1>9. \A c \in NX + 1 .. K : ZeroLog(os, c) /\ (c # i \/ v = 0) => ZeroLog(ot, c)
  <2> SUFFICES ASSUME NEW c \in NX + 1 .. K, ZeroLog(os, c), c # i \/ v = 0 PROVE ZeroLog(ot, c)
    OBVIOUS
  <2>1. c \in 1 .. K
    BY Places
  <2>2. v = 0 \/ \A t \in 1 .. Rounds : AncMeas(d, c, t) # Len(os) + 1
    BY <1>8, <2>1
  <2> QED BY <1>2, <1>6, <2>1, <2>2, ZeroAppend
<1>10. ASSUME n + f = 0 PROVE Quiet(ot, C, zs, at, xs)
  <2>1. n = 0 /\ f = 0 /\ v = 0
    BY <1>2, <1>6, <1>10
  <2>2. Quiet(os, C, zs, as, xs)
    BY <1>2, <2>1
  <2>3. ASSUME NEW c \in 1 .. NX, NEW t \in 1 .. Rounds, AncMeas(d, c, t) <= Len(ot)
        PROVE  c \in C /\ ot[AncMeas(d, c, t)] = xs[c]
    <3> DEFINE p == AncMeas(d, c, t)
    <3>1. c \in 1 .. K /\ c # i
      BY Sizes
    <3>2. p \in Nat \ {0} /\ p <= N + 1 /\ p # N + 1
      BY <1>7, <1>8, <2>3, <3>1, AncIs
    <3>3. p <= N /\ p \in 1 .. N
      <4> HIDE DEF p, N
      <4> QED BY <1>7, <3>2
    <3>4. c \in C /\ os[p] = xs[c]
      BY <2>2, <3>3 DEF Quiet
    <3> HIDE DEF p, N
    <3> QED BY <1>7, <3>3, <3>4 DEF p
  <2>4. \A c \in NX + 1 .. K : ZeroLog(ot, c)
    BY <1>9, <2>1, <2>2 DEF Quiet
  <2>5. \A z \in ZSets : zs[z] = 0
    BY <2>2 DEF Quiet
  <2>6. \A b \in Ancs : at[b] = 0
    BY <1>5, <2>2 DEF Quiet
  <2> HIDE DEF ot
  <2> QED BY <2>3, <2>4, <2>5, <2>6 DEF Quiet
<1>11. ASSUME n + f <= 1, zs[Row0] = 1 PROVE Watched(ot, zs)
  <2>1. n <= 1
    BY <1>2, <1>11
  <2>2. Watched(os, zs)
    BY <1>2, <1>11, <2>1
  <2>3. CASE Fired(os)
    <3>1. Fired(ot)
      BY <1>2, <1>6, <2>3, FiredAppend
    <3> QED BY <3>1 DEF Watched
  <2>4. ASSUME NEW c \in NX + 1 .. K, zs[Supp(c)] = 1, ZeroLog(os, c) PROVE Watched(ot, zs)
    <3>1. CASE c # i \/ v = 0
      BY <1>9, <2>4, <3>1 DEF Watched
    <3>2. CASE c = i /\ v = 1
      <4>1. Fired(Append(os, 1))
        BY <1>2, <2>4, <3>2, Differs
      <4> QED BY <3>2, <4>1 DEF Watched
    <3> QED BY <1>6, <3>1, <3>2
  <2> QED BY <2>2, <2>3, <2>4 DEF Watched
<1>12. Log(ot, n + f, C, zs, at, xs)
  <2>1. n + f \in Nat
    BY <1>2
  <2> HIDE DEF ot
  <2> QED BY <1>2, <1>5, <1>7, <1>10, <1>11, <2>1 DEF Log
<1> HIDE DEF ot
<1>13. Good(rt, ot, n + f, "z", a, {})
  BY <1>3, <1>12 DEF Good
<1> QED BY <1>13 DEF rt, ot, v, o, a

-----------------------------------------------------------------------------
(* The data qubits are measured, the first q of them so far: Z of a set of  *)
(* them has the sign of its outcomes, but for those in F that an error      *)
(* flipped in the record.  Such an error counts as one of the qubit itself. *)
Meas(z)     == {DataMeas(d, Rounds, p) : p \in z}
Ones(os, q) == {p \in 0 .. q - 1 : os[DataMeas(d, Rounds, p)] = 1}

Reading(rs, os, q, F, zs) ==
  /\ Tab(rs) /\ F \in SUBSET (0 .. q - 1)
  /\ \A W \in SUBSET (0 .. q - 1) : Says(rs, Row({}, W, (Par(Ones(os, q) \cap W) + Par(F \cap W)) % 2))
  /\ \A z \in ZSets : Says(rs, Row({}, z, (zs[z] + Par(F \cap z)) % 2))

Read(rs, os, n, q) ==
  \E C, zs, as, xs, F : Log(os, n, C, zs, as, xs) /\ Reading(rs, os, q, F, zs)

LEMMA ReadStart ==
  ASSUME NEW rs, NEW os, NEW n, NEW a, Good(rs, os, n, "z", a, {})
  PROVE  Read(rs, os, n, 0)
<1>1. PICK C, zs, as, xs : Log(os, n, C, zs, as, xs) /\ State(rs, "z", a, {}, C, zs, as, xs)
  BY DEF Good
<1>2. Tab(rs) /\ 0 .. 0 - 1 = {} /\ {} \in SUBSET (0 .. 0 - 1)
  BY <1>1 DEF State
<1>3. \A A : {} \cap A = {} /\ A \cap {} = {}
  OBVIOUS
<1>4. ASSUME NEW W \in SUBSET (0 .. 0 - 1)
      PROVE  Says(rs, Row({}, W, (Par(Ones(os, 0) \cap W) + Par({} \cap W)) % 2))
  <2>1. W = {}
    BY <1>2
  <2>2. (Par(Ones(os, 0) \cap W) + Par({} \cap W)) % 2 = 0
    BY <1>3, <2>1, ParSmall
  <2> QED BY <1>2, <2>1, <2>2, SaysFacts
<1>5. ASSUME NEW z \in ZSets PROVE Says(rs, Row({}, z, (zs[z] + Par({} \cap z)) % 2))
  <2>1. Says(rs, Row({}, z, zs[z]))
    BY <1>1 DEF State, ImZ
  <2>2. zs[z] \in {0, 1} /\ Par({} \cap z) = 0
    BY <1>2, <1>3, <2>1, ParSmall, SignsAre
  <2>3. (zs[z] + Par({} \cap z)) % 2 = zs[z]
    BY <2>2
  <2> QED BY <2>1, <2>3
<1>6. Reading(rs, os, 0, {}, zs)
  BY <1>2, <1>4, <1>5 DEF Reading
<1> QED BY <1>1, <1>6 DEF Read

(* The outcomes of the checks are not touched. *)
LEMMA LogAppend ==
  ASSUME NEW os, NEW n, NEW C, NEW zs, NEW as, NEW xs, Log(os, n, C, zs, as, xs),
         Len(os) >= Rounds * K, NEW v \in {0, 1}
  PROVE  Log(Append(os, v), n, C, zs, as, xs)
<1> DEFINE N == Len(os)
           ot == Append(os, v)
<1>1. /\ os \in Seq({0, 1}) /\ n \in Nat /\ C \in SUBSET (1 .. NX)
      /\ zs \in [ZSets -> {0, 1}] /\ as \in [Ancs -> {0, 1}] /\ xs \in [1 .. NX -> {0, 1}]
      /\ n = 0 => Quiet(os, C, zs, as, xs)
      /\ n <= 1 /\ zs[Row0] = 1 => Watched(os, zs)
  BY DEF Log
<1>2. /\ ot \in Seq({0, 1}) /\ N \in Nat /\ Len(ot) = N + 1
      /\ \A j \in 1 .. N : ot[j] = os[j]
  BY <1>1, AppendIs
<1>3. \A i \in 1 .. K, r \in 1 .. Rounds : AncMeas(d, i, r) \in 1 .. N
  <2> SUFFICES ASSUME NEW i \in 1 .. K, NEW r \in 1 .. Rounds PROVE AncMeas(d, i, r) \in 1 .. N
    OBVIOUS
  <2> DEFINE p == AncMeas(d, i, r)
             M == Rounds * K
  <2>1. p \in Nat \ {0} /\ p <= M /\ N >= M /\ M \in Nat
    BY AncIs, Params
  <2> HIDE DEF p, M, N
  <2>2. p \in 1 .. N
    BY <1>2, <2>1
  <2> QED BY <2>2 DEF p
<1>4. \A i \in NX + 1 .. K : i \in 1 .. K
  BY Places
<1>5. ASSUME NEW i \in NX + 1 .. K, ZeroLog(os, i) PROVE ZeroLog(ot, i)
  <2>1. \A r \in 1 .. Rounds : AncMeas(d, i, r) \in 1 .. N
    BY <1>3, <1>4
  <2>2. \A r \in 1 .. Rounds : AncMeas(d, i, r) <= N
    <3> HIDE DEF N
    <3> QED BY <1>2, <2>1
  <2> HIDE DEF ot
  <2> QED BY <1>2, <1>5, <2>1, <2>2 DEF ZeroLog
<1>6. ASSUME n = 0 PROVE Quiet(ot, C, zs, as, xs)
  <2>1. Quiet(os, C, zs, as, xs)
    BY <1>1, <1>6
  <2>2. \A i \in 1 .. NX : i \in 1 .. K
    BY Places
  <2>3. \A i \in 1 .. NX, r \in 1 .. Rounds : AncMeas(d, i, r) \in 1 .. N /\ AncMeas(d, i, r) <= N
    <3>1. \A i \in 1 .. NX, r \in 1 .. Rounds : AncMeas(d, i, r) \in 1 .. N
      BY <1>3, <2>2
    <3> HIDE DEF N
    <3> QED BY <1>2, <3>1
  <2>4. \A i \in 1 .. NX, r \in 1 .. Rounds : i \in C /\ ot[AncMeas(d, i, r)] = xs[i]
    <3> HIDE DEF ot
    <3> QED BY <1>2, <2>1, <2>3 DEF Quiet
  <2>5. \A i \in NX + 1 .. K : ZeroLog(ot, i)
    BY <1>5, <2>1 DEF Quiet
  <2> HIDE DEF ot
  <2> QED BY <2>1, <2>4, <2>5 DEF Quiet
<1>7. Watched(os, zs) => Watched(ot, zs)
  <2>1. Fired(os) => Fired(ot)
    BY <1>1, FiredAppend
  <2> QED BY <1>5, <2>1 DEF Watched
<1> HIDE DEF ot
<1>8. Log(ot, n, C, zs, as, xs)
  BY <1>1, <1>2, <1>6, <1>7 DEF Log
<1> QED BY <1>8 DEF ot

LEMMA ReadStep ==
  ASSUME NEW q \in Data, NEW rs, NEW os, NEW n, Read(rs, os, n, q), Len(os) = Rounds * K + q,
         NEW m \in Mz(rs, q), NEW f \in {0, 1}
  PROVE  Read(m[2], Append(os, (m[1] + f) % 2), n + f, q + 1)
<1>1. PICK C, zs, as, xs, F : Log(os, n, C, zs, as, xs) /\ Reading(rs, os, q, F, zs)
  BY DEF Read
<1>2. os \in Seq({0, 1}) /\ n \in Nat /\ zs \in [ZSets -> {0, 1}] /\ as \in [Ancs -> {0, 1}]
  BY <1>1 DEF Log
<1>3. Tab(rs) /\ F \in SUBSET (0 .. q - 1)
  BY <1>1 DEF Reading
<1>4. q \in Nat /\ q \in Qubits /\ 0 .. (q + 1) - 1 = 0 .. q /\ q \notin 0 .. q - 1 /\ 0 .. q - 1 \subseteq Data
  <2>1. q \in Nat /\ q <= d * d - 1 /\ d * d - 1 \in Nat
    BY Params DEF Data
  <2>2. 0 .. q - 1 \subseteq Data
    BY <2>1 DEF Data
  <2> QED BY <2>1, <2>2, Places
<1> DEFINE rt == m[2]
           o  == m[1]
           v  == (o + f) % 2
           ot == Append(os, v)
           G  == IF f = 1 THEN F \cup {q} ELSE F
           A  == Ones(os, q)
           B  == Ones(ot, q + 1)
<1>5. /\ Tab(rt) /\ o \in {0, 1} /\ Says(rt, Row({}, {q}, o))
      /\ \A z, s : Says(rs, Row({}, z, s)) => Says(rt, Row({}, z, s))
  <2>1. Tab(rt) /\ o \in {0, 1} /\ Says(rt, Row({}, {q}, o))
        /\ \A w : Says(rs, w) /\ q \notin w.x => Says(rt, w)
    BY <1>3, <1>4, SaysMz
  <2>2. \A z, s : q \notin Row({}, z, s).x
    BY DEF Row
  <2> QED BY <2>1, <2>2
<1> HIDE DEF rt, o
<1>6. v \in {0, 1}
  BY <1>5
<1>7. B = A \cup (IF v = 1 THEN {q} ELSE {})
  <2> DEFINE N == Rounds * K
  <2>1. \A p : DataMeas(d, Rounds, p) = N + p + 1
    BY Params DEF DataMeas
  <2>2. N \in Nat /\ Len(os) = N + q
    BY Params
  <2> HIDE DEF N, v
  <2>3. (\A j \in 1 .. N + q : ot[j] = os[j]) /\ ot[N + q + 1] = v
    BY <1>2, <1>6, <2>2, AppendIs
  <2> HIDE DEF ot
  <2>4. \A p \in 0 .. q - 1 : N + p + 1 \in 1 .. N + q
    BY <1>4, <2>2
  <2>5. \A p \in 0 .. q - 1 : ot[DataMeas(d, Rounds, p)] = os[DataMeas(d, Rounds, p)]
    BY <2>1, <2>3, <2>4
  <2>6. ot[DataMeas(d, Rounds, q)] = v
    BY <2>1, <2>3
  <2>7. 0 .. q = (0 .. q - 1) \cup {q}
    BY <1>4
  <2> QED BY <1>4, <2>5, <2>6, <2>7 DEF Ones
<1>8. G \in SUBSET (0 .. q) /\ A \subseteq 0 .. q - 1 /\ q \notin A /\ q \notin F
  BY <1>3, <1>4 DEF Ones
<1>9. IsFiniteSet(A) /\ IsFiniteSet(F)
  <2>1. A \subseteq Data /\ F \subseteq Data
    BY <1>3, <1>4, <1>8
  <2> QED BY <2>1, Places
<1> HIDE DEF v, ot, A, B
<1>10. \A W : /\ Par(A \cap W) \in {0, 1}
              /\ Par(B \cap W) = IF v = 1 /\ q \in W THEN 1 - Par(A \cap W) ELSE Par(A \cap W)
  <2> SUFFICES ASSUME NEW W
               PROVE  /\ Par(A \cap W) \in {0, 1}
                      /\ Par(B \cap W) = IF v = 1 /\ q \in W THEN 1 - Par(A \cap W) ELSE Par(A \cap W)
    OBVIOUS
  <2>1. /\ Par(A \cap W) \in {0, 1}
        /\ Par((A \cup {q}) \cap W) = IF q \in W THEN 1 - Par(A \cap W) ELSE Par(A \cap W)
    BY <1>8, <1>9, ParGrow
  <2>2. CASE v = 1
    BY <1>7, <2>1, <2>2
  <2>3. CASE v # 1
    <3>1. B = A
      BY <1>7, <2>3
    <3> QED BY <2>1, <2>3, <3>1
  <2> QED BY <2>2, <2>3
<1>11. \A W : /\ Par(F \cap W) \in {0, 1}
              /\ Par(G \cap W) = IF f = 1 /\ q \in W THEN 1 - Par(F \cap W) ELSE Par(F \cap W)
  <2> SUFFICES ASSUME NEW W
               PROVE  /\ Par(F \cap W) \in {0, 1}
                      /\ Par(G \cap W) = IF f = 1 /\ q \in W THEN 1 - Par(F \cap W) ELSE Par(F \cap W)
    OBVIOUS
  <2>1. /\ Par(F \cap W) \in {0, 1}
        /\ Par((F \cup {q}) \cap W) = IF q \in W THEN 1 - Par(F \cap W) ELSE Par(F \cap W)
    BY <1>8, <1>9, ParGrow
  <2>2. CASE f = 1
    BY <2>1, <2>2
  <2>3. CASE f # 1
    <3>1. G = F
      BY <2>3
    <3> QED BY <2>1, <2>3, <3>1
  <2> QED BY <2>2, <2>3
<1> HIDE DEF G
<1>12. ASSUME NEW W \in SUBSET (0 .. q)
       PROVE  Says(rt, Row({}, W, (Par(B \cap W) + Par(G \cap W)) % 2))
  <2> DEFINE T == W \ {q}
             s == Par(A \cap T)
             t == Par(F \cap T)
  <2>1. T \in SUBSET (0 .. q - 1) /\ q \notin T
    BY <1>4
  <2>2. Says(rt, Row({}, T, (s + t) % 2)) /\ s \in {0, 1} /\ t \in {0, 1}
    BY <1>1, <1>5, <1>10, <1>11, <2>1 DEF Reading, A
  <2>3. A \cap W = A \cap T /\ F \cap W = F \cap T
    BY <1>8
  <2>4. Par(B \cap W) = (IF v = 1 /\ q \in W THEN 1 - s ELSE s) /\ Par(G \cap W) = IF f = 1 /\ q \in W THEN 1 - t ELSE t
    BY <1>10, <1>11, <2>3
  <2> HIDE DEF s, t
  <2>5. CASE q \notin W
    <3>1. T = W
      BY <2>5
    <3>2. Par(B \cap W) = s /\ Par(G \cap W) = t
      BY <2>4, <2>5
    <3> HIDE DEF T
    <3> QED BY <2>2, <3>1, <3>2
  <2>6. CASE q \in W
    <3>1. Says(rt, Row(SymDiff({}, {}), SymDiff(T, {q}), (((s + t) % 2) + o) % 2))
      BY <1>5, <2>2, Products
    <3>2. SymDiff({}, {}) = {} /\ SymDiff(T, {q}) = W
      BY <2>6 DEF SymDiff
    <3>3. (((s + t) % 2) + o) % 2 = (Par(B \cap W) + Par(G \cap W)) % 2
      <4>1. v = (o + f) % 2
        BY DEF v
      <4>2. Par(B \cap W) = (IF v = 1 THEN 1 - s ELSE s) /\ Par(G \cap W) = IF f = 1 THEN 1 - t ELSE t
        BY <2>4, <2>6
      <4>3. CASE f = 0
        <5>1. v = o /\ Par(G \cap W) = t
          BY <1>5, <4>1, <4>2, <4>3
        <5> QED BY <1>5, <2>2, <4>2, <5>1
      <4>4. CASE f = 1
        <5>1. v = 1 - o /\ Par(G \cap W) = 1 - t
          BY <1>5, <4>1, <4>2, <4>4
        <5> QED BY <1>5, <2>2, <4>2, <5>1
      <4> QED BY <4>3, <4>4
    <3> QED BY <3>1, <3>2, <3>3
  <2> QED BY <2>5, <2>6
<1> DEFINE hit == [z \in ZSets |-> Bit(z, q)]
           zt  == IF f = 1 THEN [z \in ZSets |-> (zs[z] + hit[z]) % 2] ELSE zs
<1>13. \E D : Log(ot, n + f, D, zt, as, xs)
  <2>1. Len(os) >= Rounds * K
    <3> DEFINE N == Rounds * K
    <3>1. N \in Nat
      BY Params
    <3> HIDE DEF N
    <3>2. N + q >= N
      BY <1>4, <3>1
    <3> QED BY <3>2 DEF N
  <2>2. Log(ot, n, C, zs, as, xs)
    BY <1>1, <1>6, <2>1, LogAppend DEF ot
  <2>3. CASE f = 0
    <3>1. n + f = n /\ zt = zs
      BY <1>2, <2>3
    <3> QED BY <2>2, <3>1
  <2>4. CASE f = 1
    <3>1. hit \in [ZSets -> {0, 1}]
      BY DEF Bit
    <3>2. hit[Row0] = 1 => \E j \in NX + 1 .. K : hit[Supp(j)] = 1
      <4>1. Row0 \in ZSets /\ \A j \in NX + 1 .. K : Supp(j) \in ZSets
        BY DEF ZSets
      <4>2. \A z \in ZSets : hit[z] = 1 <=> q \in z
        BY DEF Bit
      <4> HIDE DEF hit
      <4> QED BY <4>1, <4>2, RowChecked
    <3> HIDE DEF hit
    <3>3. Log(ot, n + 1, {}, [z \in ZSets |-> (zs[z] + hit[z]) % 2], as, xs)
      BY <1>2, <2>2, <3>1, <3>2, Hit
    <3> QED BY <2>4, <3>3
  <2> QED BY <2>3, <2>4
<1>14. ASSUME NEW z \in ZSets PROVE Says(rt, Row({}, z, (zt[z] + Par(G \cap z)) % 2))
  <2> DEFINE s == zs[z]
             t == Par(F \cap z)
  <2>1. Says(rt, Row({}, z, (s + t) % 2)) /\ s \in {0, 1} /\ t \in {0, 1}
    BY <1>1, <1>2, <1>5, <1>11 DEF Reading
  <2>2. zt[z] = (IF f = 1 THEN (s + Bit(z, q)) % 2 ELSE s) /\ Par(G \cap z) = IF f = 1 /\ q \in z THEN 1 - t ELSE t
    BY <1>11
  <2> HIDE DEF s, t, zt
  <2>3. (zt[z] + Par(G \cap z)) % 2 = (s + t) % 2
    BY <2>1, <2>2 DEF Bit
  <2> QED BY <2>1, <2>3
<1> HIDE DEF zt
<1>15. Reading(rt, ot, q + 1, G, zt)
  BY <1>4, <1>5, <1>8, <1>12, <1>14 DEF Reading, B
<1>16. Read(rt, ot, n + f, q + 1)
  BY <1>13, <1>15 DEF Read
<1> QED BY <1>16 DEF rt, ot, v, o

-----------------------------------------------------------------------------
(* The instructions, one by one.  Instruction j of the block of check i     *)
(* finds the state at this stage, with the qubits of Met(i, j) met.         *)
Start == CHOOSE s : Layout(s)

Kind(i, j) == IF i > NX \/ j = 1 THEN "z" ELSE IF j <= Width(i) + 2 THEN "x" ELSE "h"
Met(i, j)  == IF i > NX THEN Prefix(i, j - 1)
              ELSE IF j = 1 THEN {}
              ELSE IF j <= Width(i) + 2 THEN Prefix(i, j - 2) ELSE Supp(i)

InBlock(p, rs, os, n) ==
  \E r \in 1 .. Rounds, i \in 1 .. K : \E j \in 1 .. Size(i) :
    /\ p = Start[<<r, i>>] + j /\ Len(os) = (r - 1) * K + i - 1
    /\ Good(rs, os, n, Kind(i, j), Anc(i), Met(i, j))

InEnd(p, rs, os, n) ==
  \E q \in 0 .. d * d :
    /\ p = Start[<<Rounds, K + 1>>] + q + 1 /\ Len(os) = Rounds * K + q
    /\ Read(rs, os, n, q)

LEMMA Started == Layout(Start)
BY LayoutExists DEF Start

LEMMA BlockIs ==
  ASSUME NEW i \in 1 .. K, NEW j \in 1 .. Size(i)
  PROVE  \/ i \in 1 .. NX /\ j = 1 /\ Block(i)[j] = Op("H", Anc(i))
         \/ i \in 1 .. NX /\ j - 1 \in 1 .. Width(i) /\ Block(i)[j] = CnotOp(Anc(i), Order(i)[j - 1])
         \/ i \in 1 .. NX /\ j = Width(i) + 2 /\ Block(i)[j] = Op("H", Anc(i))
         \/ i \in 1 .. NX /\ j = Width(i) + 3 /\ Block(i)[j] = Op("MR", Anc(i))
         \/ i \in NX + 1 .. K /\ j \in 1 .. Width(i) /\ Block(i)[j] = CnotOp(Order(i)[j], Anc(i))
         \/ i \in NX + 1 .. K /\ j = Width(i) + 1 /\ Block(i)[j] = Op("MR", Anc(i))
<1> DEFINE w == Width(i)
<1>1. w \in Nat
  BY Orders
<1> HIDE DEF w
<1>2. CASE i \in 1 .. NX
  <2>1. i <= NX
    BY <1>2, Sizes
  <2>2. Block(i) = MeasureX(d, i) /\ Size(i) = w + 3
    BY <2>1 DEF Block, Size, w
  <2>3. /\ Block(i)[1] = Op("H", Anc(i)) /\ Block(i)[w + 2] = Op("H", Anc(i)) /\ Block(i)[w + 3] = Op("MR", Anc(i))
        /\ \A l \in 1 .. w : Block(i)[l + 1] = CnotOp(Anc(i), Order(i)[l])
    BY <1>2, <2>2, BlockX DEF w
  <2>4. j = 1 \/ (j - 1 \in 1 .. w /\ (j - 1) + 1 = j) \/ j = w + 2 \/ j = w + 3
    BY <1>1, <2>2
  <2>5. CASE j - 1 \in 1 .. w /\ (j - 1) + 1 = j
    <3>1. Block(i)[j] = CnotOp(Anc(i), Order(i)[j - 1])
      BY <2>3, <2>5
    <3> QED BY <1>2, <2>5, <3>1 DEF w
  <2>6. CASE j = 1 \/ j = w + 2 \/ j = w + 3
    BY <1>2, <2>3, <2>6 DEF w
  <2> QED BY <2>4, <2>5, <2>6
<1>3. CASE i \in NX + 1 .. K
  <2>1. ~ (i <= NX)
    BY <1>3, Sizes
  <2>2. Block(i) = MeasureZ(d, i - NX) /\ Size(i) = w + 1
    BY <2>1 DEF Block, Size, w
  <2>3. /\ Block(i)[w + 1] = Op("MR", Anc(i))
        /\ \A l \in 1 .. w : Block(i)[l] = CnotOp(Order(i)[l], Anc(i))
    BY <1>3, <2>2, BlockZ DEF w
  <2>4. j \in 1 .. w \/ j = w + 1
    BY <1>1, <2>2
  <2> QED BY <1>3, <2>3, <2>4 DEF w
<1> QED BY <1>2, <1>3, Sizes

(* A gate takes a block to its next stage. *)
LEMMA GateStep ==
  ASSUME SelfCheck(d), NEW i \in 1 .. K, NEW j \in 1 .. Size(i), NEW rs, NEW os, NEW n,
         Good(rs, os, n, Kind(i, j), Anc(i), Met(i, j)), Block(i)[j].gate # "MR"
  PROVE  /\ j + 1 \in 1 .. Size(i)
         /\ Good(Apply(rs, Block(i)[j]), os, n, Kind(i, j + 1), Anc(i), Met(i, j + 1))
         /\ Stage(Kind(i, j + 1), Anc(i), Met(i, j + 1))
         /\ Block(i)[j].a \in Qubits /\ (Block(i)[j].gate = "CNOT" => Block(i)[j].b \in Qubits)
<1> DEFINE a == Anc(i)
           w == Width(i)
           in == Block(i)[j]
<1>1. w \in Nat /\ w > 0 /\ a \in Ancs /\ a \in Qubits /\ j \in Nat \ {0}
  BY Orders, Places, Blocks
<1>2. PICK C, zs, as, xs : Log(os, n, C, zs, as, xs) /\ State(rs, Kind(i, j), a, Met(i, j), C, zs, as, xs)
  BY DEF Good
<1>3. C \in SUBSET (1 .. NX)
  BY <1>2 DEF Log
<1>4. Op("H", a).gate = "H" /\ Op("H", a).a = a /\ Op("MR", a).gate = "MR"
      /\ \A c, t : CnotOp(c, t).gate = "CNOT" /\ CnotOp(c, t).a = c /\ CnotOp(c, t).b = t
  BY DEF Op, CnotOp
<1> SUFFICES /\ j + 1 \in 1 .. Size(i)
             /\ State(Apply(rs, in), Kind(i, j + 1), a, Met(i, j + 1), C, zs, as, xs)
             /\ Stage(Kind(i, j + 1), a, Met(i, j + 1))
             /\ in.a \in Qubits /\ (in.gate = "CNOT" => in.b \in Qubits)
  BY <1>2 DEF Good
<1> HIDE DEF a, w, in
<1>5. i \in 1 .. NX => ~ (i > NX) /\ Size(i) = w + 3
  BY Sizes DEF Size, w
<1>6. i \in NX + 1 .. K => i > NX /\ Size(i) = w + 1
  BY Sizes DEF Size, w
<1>7. CASE i \in 1 .. NX /\ j = 1 /\ in = Op("H", a)
  <2>1. j + 1 \in 1 .. Size(i) /\ Kind(i, j) = "z" /\ Met(i, j) = {} /\ Kind(i, j + 1) = "x"
        /\ Met(i, j + 1) = Prefix(i, 0)
    BY <1>1, <1>5, <1>7 DEF Kind, Met, w
  <2>2. Prefix(i, 0) = {} /\ 0 \in 0 .. Width(i)
    BY <1>1, PrefixStep DEF w
  <2>3. State(Apply(rs, Op("H", a)), "x", a, {}, C, zs, as, xs)
    BY <1>2, <1>3, <1>7, <2>1, Places, FirstH DEF a
  <2>4. Stage("x", a, {})
    BY <1>1, <1>7, <2>2 DEF Stage
  <2> QED BY <1>1, <1>4, <1>7, <2>1, <2>2, <2>3, <2>4
<1>8. CASE i \in 1 .. NX /\ j - 1 \in 1 .. w /\ in = CnotOp(a, Order(i)[j - 1])
  <2> DEFINE l == j - 1
             t == Order(i)[l]
             T == Prefix(i, l - 1)
  <2>1. j + 1 \in 1 .. Size(i) /\ Kind(i, j) = "x" /\ Met(i, j) = T /\ Kind(i, j + 1) = "x"
        /\ Met(i, j + 1) = Prefix(i, l)
    <3>1. j # 1 /\ j <= w + 2 /\ j + 1 # 1 /\ j + 1 <= w + 2 /\ j + 1 \in 1 .. w + 3
          /\ j - 2 = l - 1 /\ (j + 1) - 2 = l
      BY <1>1, <1>8
    <3> HIDE DEF l
    <3> QED BY <1>5, <1>8, <3>1 DEF Kind, Met, w
  <2>2. /\ t \in Data \ T /\ Prefix(i, l) = T \cup {t} /\ T \in SUBSET Data /\ Prefix(i, l) \in SUBSET Data
        /\ l \in 0 .. Width(i)
    <3>1. l \in 1 .. Width(i) /\ l \in 0 .. Width(i) /\ l - 1 \in 0 .. Width(i)
      BY <1>1, <1>8 DEF w
    <3> HIDE DEF l
    <3> QED BY <3>1, PrefixFacts
  <2> HIDE DEF t, T
  <2>3. State(Apply(rs, CnotOp(a, t)), "x", a, T \cup {t}, C, zs, as, xs)
    <3>1. State(rs, "x", a, T, C, zs, as, xs) /\ a \in XAncs
      BY <1>2, <1>8, <2>1, Places DEF a
    <3> QED BY <1>3, <2>2, <3>1, CnotOfX
  <2>4. Stage("x", a, Prefix(i, l))
    <3> HIDE DEF l
    <3> QED BY <1>1, <1>8, <2>2 DEF Stage
  <2>5. in = CnotOp(a, t) /\ t \in Qubits
    BY <1>8, <2>2, Places DEF t
  <2>6. in.a \in Qubits /\ (in.gate = "CNOT" => in.b \in Qubits)
    BY <1>1, <1>4, <2>5
  <2> QED BY <2>1, <2>2, <2>3, <2>4, <2>5, <2>6
<1>9. CASE i \in 1 .. NX /\ j = w + 2 /\ in = Op("H", a)
  <2>1. j + 1 \in 1 .. Size(i) /\ Kind(i, j) = "x" /\ Met(i, j) = Prefix(i, w) /\ Kind(i, j + 1) = "h"
        /\ Met(i, j + 1) = Supp(i)
    <3>1. j # 1 /\ j <= w + 2 /\ j + 1 # 1 /\ ~ (j + 1 <= w + 2) /\ j + 1 \in 1 .. w + 3 /\ j - 2 = w
      BY <1>1, <1>9
    <3> QED BY <1>5, <1>9, <3>1 DEF Kind, Met, w
  <2>2. Prefix(i, w) = Supp(i) /\ Supp(i) \subseteq Data
    BY Orders DEF w
  <2>3. State(Apply(rs, Op("H", a)), "h", a, Supp(i), C, zs, as, xs)
    BY <1>2, <1>3, <1>9, <2>1, <2>2, LastH DEF a
  <2>4. Stage("h", a, Supp(i))
    BY <1>1, <2>2 DEF Stage
  <2> QED BY <1>1, <1>4, <1>9, <2>1, <2>3, <2>4
<1>10. CASE i \in NX + 1 .. K /\ j \in 1 .. w /\ in = CnotOp(Order(i)[j], a)
  <2> DEFINE t == Order(i)[j]
             T == Prefix(i, j - 1)
  <2>1. j + 1 \in 1 .. Size(i) /\ Kind(i, j) = "z" /\ Met(i, j) = T /\ Kind(i, j + 1) = "z"
        /\ Met(i, j + 1) = Prefix(i, j)
    <3>1. j + 1 \in 1 .. w + 1 /\ (j + 1) - 1 = j
      BY <1>1, <1>10
    <3> QED BY <1>6, <1>10, <3>1 DEF Kind, Met
  <2>2. t \in Data \ T /\ Prefix(i, j) = T \cup {t} /\ T \in SUBSET Data /\ Prefix(i, j) \in SUBSET Data
    <3>1. j \in 1 .. Width(i) /\ j \in 0 .. Width(i) /\ j - 1 \in 0 .. Width(i)
      BY <1>1, <1>10 DEF w
    <3> QED BY <3>1, PrefixFacts
  <2> HIDE DEF t, T
  <2>3. State(Apply(rs, CnotOp(t, a)), "z", a, T \cup {t}, C, zs, as, xs)
    <3>1. State(rs, "z", a, T, C, zs, as, xs) /\ a \in Ancs \ XAncs
      BY <1>1, <1>2, <1>10, <2>1, Places DEF a
    <3> QED BY <1>3, <2>2, <3>1, CnotOfZ
  <2>4. Stage("z", a, Prefix(i, j))
    BY <1>1, <2>2 DEF Stage
  <2>5. in = CnotOp(t, a) /\ t \in Qubits
    BY <1>10, <2>2, Places DEF t
  <2>6. in.a \in Qubits /\ (in.gate = "CNOT" => in.b \in Qubits)
    BY <1>1, <1>4, <2>5
  <2> QED BY <2>1, <2>2, <2>3, <2>4, <2>5, <2>6
<1>11. in.gate # "MR"
  BY DEF in
<1> QED BY <1>4, <1>7, <1>8, <1>9, <1>10, <1>11, BlockIs DEF a, w, in

(* A measurement ends a block, and is where the next one begins. *)
LEMMA MeasureStep ==
  ASSUME SelfCheck(d), NEW r \in 1 .. Rounds, NEW i \in 1 .. K, NEW j \in 1 .. Size(i),
         NEW rs, NEW os, NEW n, Len(os) = (r - 1) * K + i - 1,
         Good(rs, os, n, Kind(i, j), Anc(i), Met(i, j)), Block(i)[j].gate = "MR",
         NEW m \in Mr(rs, Block(i)[j].a), NEW f \in {0, 1}
  PROVE  /\ j = Size(i)
         /\ Good(m[2], Append(os, (m[1] + f) % 2), n + f, "z", Anc(i), {})
         /\ Len(Append(os, (m[1] + f) % 2)) = (r - 1) * K + i
<1> DEFINE a == Anc(i)
           w == Width(i)
           in == Block(i)[j]
           ot == Append(os, (m[1] + f) % 2)
<1>1. w \in Nat /\ w > 0
  BY Orders
<1>2. Op("H", a).gate = "H" /\ Op("MR", a).a = a /\ \A c, t : CnotOp(c, t).gate = "CNOT"
  BY DEF Op, CnotOp
<1>3. os \in Seq({0, 1})
  BY DEF Good, Log
<1>4. AncMeas(d, i, r) = Len(os) + 1 /\ Len(ot) = (r - 1) * K + i
  <2> DEFINE N == (r - 1) * K
             L == Len(os)
  <2>1. N \in Int /\ L \in Nat /\ L = N + i - 1 /\ Len(ot) = L + 1 /\ AncMeas(d, i, r) = N + i
    BY <1>3, Params, AncIs
  <2> HIDE DEF N, L, ot
  <2>2. N + i = L + 1
    BY <2>1
  <2> QED BY <2>1, <2>2 DEF N, L
<1> HIDE DEF ot
<1>5. in.gate = "MR" /\ m \in Mr(rs, in.a)
  OBVIOUS
<1> HIDE DEF a, w, in
<1>6. CASE i \in 1 .. NX /\ j = w + 3 /\ in = Op("MR", a)
  <2>1. ~ (i > NX) /\ i <= NX /\ Size(i) = w + 3
    BY <1>6, Sizes DEF Size, w
  <2>2. Kind(i, j) = "h" /\ Met(i, j) = Supp(i)
    <3>1. j # 1 /\ ~ (j <= w + 2)
      BY <1>1, <1>6
    <3> QED BY <2>1, <3>1 DEF Kind, Met, w
  <2>3. Good(rs, os, n, "h", Anc(i), Supp(i)) /\ m \in Mr(rs, Anc(i))
    BY <1>2, <1>5, <1>6, <2>2 DEF a
  <2>4. Good(m[2], ot, n + f, "z", Anc(i), {})
    BY <1>4, <1>6, <2>3, XOutcome DEF ot
  <2> QED BY <1>4, <1>6, <2>1, <2>4 DEF ot
<1>7. CASE i \in NX + 1 .. K /\ j = w + 1 /\ in = Op("MR", a)
  <2>1. i > NX /\ ~ (i <= NX) /\ Size(i) = w + 1
    BY <1>7, Sizes DEF Size, w
  <2>2. Kind(i, j) = "z" /\ Met(i, j) = Supp(i)
    <3>1. j - 1 = w
      BY <1>1, <1>7
    <3> QED BY <2>1, <3>1, Orders DEF Kind, Met, w
  <2>3. Good(rs, os, n, "z", Anc(i), Supp(i)) /\ m \in Mr(rs, Anc(i))
    BY <1>2, <1>5, <1>7, <2>2 DEF a
  <2>4. Good(m[2], ot, n + f, "z", Anc(i), {})
    BY <1>4, <1>7, <2>3, ZOutcome DEF ot
  <2> QED BY <1>4, <1>7, <2>1, <2>4 DEF ot
<1> QED BY <1>2, <1>5, <1>6, <1>7, BlockIs DEF a, w, in

LEMMA FirstOf ==
  ASSUME NEW i \in 1 .. K
  PROVE  1 \in 1 .. Size(i) /\ Kind(i, 1) = "z" /\ Met(i, 1) = {}
<1>1. 1 \in 1 .. Size(i)
  BY Blocks
<1>2. Prefix(i, 1 - 1) = {}
  BY PrefixStep
<1> QED BY <1>1, <1>2 DEF Kind, Met

LEMMA Turn ==
  ASSUME NEW r \in 1 .. Rounds, NEW i \in 1 .. K, NEW rs, NEW os, NEW n,
         Good(rs, os, n, "z", Anc(i), {}), Len(os) = (r - 1) * K + i,
         NEW p, p = Start[<<r, i>>] + Size(i) + 1
  PROVE  InBlock(p, rs, os, n) \/ InEnd(p, rs, os, n)
<1>1. \A b \in 1 .. K : Good(rs, os, n, "z", Anc(b), {})
  BY Places, Between DEF Good
<1>2. Start[<<r, i + 1>>] = Start[<<r, i>>] + Size(i)
  BY Started DEF Layout
<1>3. K \in Nat /\ K > 0 /\ Rounds \in Nat /\ Rounds > 0 /\ r \in Int /\ i \in Int
  BY Params
<1>4. CASE i < K
  <2>1. i + 1 \in 1 .. K /\ (r - 1) * K + (i + 1) - 1 = (r - 1) * K + i
    <3> DEFINE N == (r - 1) * K
    <3>1. N \in Int
      BY <1>3
    <3> HIDE DEF N
    <3>2. i + 1 \in 1 .. K /\ N + (i + 1) - 1 = N + i
      BY <1>3, <1>4, <3>1
    <3> QED BY <3>2 DEF N
  <2>2. Good(rs, os, n, Kind(i + 1, 1), Anc(i + 1), Met(i + 1, 1)) /\ 1 \in 1 .. Size(i + 1)
    BY <1>1, <2>1, FirstOf
  <2>3. p = Start[<<r, i + 1>>] + 1 /\ Len(os) = (r - 1) * K + (i + 1) - 1
    BY <1>2, <2>1
  <2>4. InBlock(p, rs, os, n)
    BY <2>1, <2>2, <2>3 DEF InBlock
  <2> QED BY <2>4
<1>5. CASE i = K /\ r < Rounds
  <2>1. r + 1 \in 1 .. Rounds /\ 1 \in 1 .. K /\ ((r + 1) - 1) * K + 1 - 1 = (r - 1) * K + i
    <3>1. r + 1 \in 1 .. Rounds /\ 1 \in 1 .. K
      BY <1>3, <1>5
    <3>2. ((r + 1) - 1) * K + 1 - 1 = (r - 1) * K + K
      <4>1. CASE K = 8
        BY <1>3, <4>1
      <4>2. CASE K = 24
        BY <1>3, <4>2
      <4> QED BY <4>1, <4>2, Params
    <3> QED BY <1>5, <3>1, <3>2
  <2>2. Good(rs, os, n, Kind(1, 1), Anc(1), Met(1, 1)) /\ 1 \in 1 .. Size(1)
    BY <1>1, <2>1, FirstOf
  <2>3. Start[<<r + 1, 1>>] = Start[<<r, K + 1>>]
    BY <1>5, Started DEF Layout
  <2>4. p = Start[<<r + 1, 1>>] + 1 /\ Len(os) = ((r + 1) - 1) * K + 1 - 1
    BY <1>2, <1>5, <2>1, <2>3
  <2>5. InBlock(p, rs, os, n)
    BY <2>1, <2>2, <2>4 DEF InBlock
  <2> QED BY <2>5
<1>6. CASE i = K /\ r = Rounds
  <2>1. Read(rs, os, n, 0)
    BY ReadStart
  <2>2. Len(os) = Rounds * K + 0
    <3>1. (Rounds - 1) * K + K = Rounds * K + 0
      <4>1. CASE K = 8
        BY <1>3, <4>1
      <4>2. CASE K = 24
        BY <1>3, <4>2
      <4> QED BY <4>1, <4>2, Params
    <3> QED BY <1>6, <3>1
  <2>3. p = Start[<<Rounds, K + 1>>] + 0 + 1
    <3>1. Start[<<Rounds, K + 1>>] \in Nat
      <4>1. <<Rounds, K + 1>> \in (1 .. Rounds) \X (1 .. K + 1)
        BY <1>3
      <4> QED BY <4>1, Started DEF Layout
    <3>2. p = Start[<<Rounds, K + 1>>] + 1
      BY <1>2, <1>6
    <3> QED BY <3>1, <3>2
  <2>4. 0 \in 0 .. d * d
    BY Params
  <2>5. InEnd(p, rs, os, n)
    BY <2>1, <2>2, <2>3, <2>4 DEF InEnd
  <2> QED BY <2>5
<1>7. i < K \/ (i = K /\ r < Rounds) \/ (i = K /\ r = Rounds)
  BY <1>3
<1> QED BY Zenon, <1>4, <1>5, <1>6, <1>7

-----------------------------------------------------------------------------
(* The inductive invariant. *)

IInv == /\ SelfCheck(Distance)
        /\ InBlock(pc, rows, outcomes, errors) \/ InEnd(pc, rows, outcomes, errors)

LEMMA InitIInv == Init => IInv
<1> SUFFICES ASSUME Init PROVE IInv
  OBVIOUS
<1>1. /\ SelfCheck(Distance) /\ rows = Zeros(Nq) /\ pc = 1 /\ outcomes = << >> /\ errors = 0
  BY DEF Init
<1> DEFINE rs == Zeros(Nq)
           a  == Anc(1)
           zs == [z \in ZSets |-> 0]
           as == [b \in Ancs |-> 0]
           xs == [c \in 1 .. NX |-> 0]
<1>2. 1 \in 1 .. K /\ 1 \in 1 .. Rounds /\ a \in Ancs
  BY Params, Places, Sizes
<1> HIDE DEF rs, a
<1>3. Tab(rs) /\ (\A Z \in SUBSET Qubits : Says(rs, Row({}, Z, 0))) /\ \A l \in Lines : rs[l].z = {l - 1}
  <2>1. \A l \in Lines : Zeros(Nq)[l] = Row({}, {l - 1}, 0)
    BY DEF Zeros, Lines
  <2>2. \A l \in Lines : Zeros(Nq)[l].z = {l - 1}
    <3>1. \A x, z, s : Row(x, z, s).z = z
      BY DEF Row
    <3> SUFFICES ASSUME NEW l \in Lines PROVE Zeros(Nq)[l].z = {l - 1}
      OBVIOUS
    <3>2. Zeros(Nq)[l] = Row({}, {l - 1}, 0)
      BY <2>1
    <3>3. Row({}, {l - 1}, 0).z = {l - 1}
      BY <3>1
    <3> QED BY Zenon, <3>2, <3>3
  <2> QED BY <2>2, TabZeros DEF rs
<1>4. State(rs, "z", a, {}, {}, zs, as, xs)
  <2>1. \A l \in Lines : Shape("z", a, rs[l])
    BY <1>3 DEF Shape
  <2>2. \A z \in ZSets : Says(rs, Row({}, ImZ("z", a, {}, z), zs[z]))
    <3>1. \A z \in ZSets : z \in SUBSET Qubits /\ zs[z] = 0 /\ ImZ("z", a, {}, z) = z
      BY Places DEF ImZ
    <3> HIDE DEF zs
    <3> QED BY <1>3, <3>1
  <2>3. \A b \in Ancs : Says(rs, Row({}, {b}, as[b]))
    BY <1>3, Places
  <2>4. Says(rs, Own("z", a, {}, as[a]))
    <3>1. {a} \cup {} = {a}
      OBVIOUS
    <3> QED BY <1>2, <2>3, <3>1 DEF Own
  <2> HIDE DEF zs, as, xs
  <2> QED BY <1>3, <2>1, <2>2, <2>3, <2>4 DEF State
<1>5. Log(<< >>, 0, {}, zs, as, xs)
  <2> DEFINE os == << >>
  <2>1. zs \in [ZSets -> {0, 1}] /\ as \in [Ancs -> {0, 1}] /\ xs \in [1 .. NX -> {0, 1}]
    OBVIOUS
  <2>2. os \in Seq({0, 1}) /\ Len(os) = 0
    OBVIOUS
  <2>3. (\A z \in ZSets : zs[z] = 0) /\ (\A b \in Ancs : as[b] = 0) /\ Row0 \in ZSets
    BY DEF ZSets
  <2> HIDE DEF os, zs, as, xs
  <2>4. \A i \in 1 .. K, r \in 1 .. Rounds : ~ (AncMeas(d, i, r) <= Len(os))
    BY <2>2, AncIs
  <2>5. \A i \in NX + 1 .. K : ZeroLog(os, i)
    BY <2>4, Places DEF ZeroLog
  <2>6. Quiet(os, {}, zs, as, xs)
    <3>1. \A i \in 1 .. NX, r \in 1 .. Rounds : ~ (AncMeas(d, i, r) <= Len(os))
      BY <2>4, Places
    <3> QED BY <2>3, <2>5, <3>1 DEF Quiet
  <2>7. zs[Row0] # 1
    BY <2>3
  <2>8. Log(os, 0, {}, zs, as, xs)
    BY <2>1, <2>2, <2>6, <2>7 DEF Log
  <2> QED BY <2>8 DEF os
<1> HIDE DEF zs, as, xs
<1>6. Good(rs, << >>, 0, Kind(1, 1), Anc(1), Met(1, 1)) /\ 1 \in 1 .. Size(1)
  BY <1>2, <1>4, <1>5, FirstOf DEF Good, a
<1>7. Start[<<1, 1>>] = 0
  BY Started DEF Layout
<1>8. Len(<< >>) = (1 - 1) * K + 1 - 1
  BY Params
<1>9. InBlock(1, rs, << >>, 0)
  <2>1. 1 = Start[<<1, 1>>] + 1
    BY <1>7
  <2> QED BY <1>2, <1>6, <1>8, <2>1 DEF InBlock
<1> QED BY <1>1, <1>9 DEF IInv, rs

LEMMA BlockNext ==
  ASSUME SelfCheck(Distance), InBlock(pc, rows, outcomes, errors), Next
  PROVE  InBlock(pc', rows', outcomes', errors') \/ InEnd(pc', rows', outcomes', errors')
<1>1. PICK r \in 1 .. Rounds, i \in 1 .. K : \E j \in 1 .. Size(i) :
        /\ pc = Start[<<r, i>>] + j /\ Len(outcomes) = (r - 1) * K + i - 1
        /\ Good(rows, outcomes, errors, Kind(i, j), Anc(i), Met(i, j))
  BY DEF InBlock
<1>2. PICK j \in 1 .. Size(i) :
        /\ pc = Start[<<r, i>>] + j /\ Len(outcomes) = (r - 1) * K + i - 1
        /\ Good(rows, outcomes, errors, Kind(i, j), Anc(i), Met(i, j))
  BY <1>1
<1> DEFINE in == Block(i)[j]
<1>3. Instrs[pc] = in
  BY <1>2, Started DEF Layout
<1>4. SelfCheck(d)
  BY DEF d
<1>5. errors \in Nat
  BY <1>2 DEF Good, Log
<1>6. Start[<<r, i>>] \in Nat /\ j \in Nat
  <2>1. <<r, i>> \in (1 .. Rounds) \X (1 .. K + 1)
    BY Params
  <2> QED BY <2>1, Started DEF Layout
<1>7. ASSUME in.gate # "MR"
      PROVE  /\ j + 1 \in 1 .. Size(i)
             /\ Good(Apply(rows, in), outcomes, errors, Kind(i, j + 1), Anc(i), Met(i, j + 1))
             /\ Stage(Kind(i, j + 1), Anc(i), Met(i, j + 1))
             /\ in.a \in Qubits /\ (in.gate = "CNOT" => in.b \in Qubits)
  BY <1>2, <1>4, <1>7, GateStep
<1>8. in.gate # "MZ"
  <2>1. Op("H", Anc(i)).gate = "H" /\ Op("MR", Anc(i)).gate = "MR" /\ \A c, t : CnotOp(c, t).gate = "CNOT"
    BY DEF Op, CnotOp
  <2> QED BY <2>1, BlockIs
<1> HIDE DEF in
<1>9. ASSUME NEW n, pc' = pc + 1, outcomes' = outcomes, errors' = n, in.gate # "MR",
             Good(rows', outcomes, n, Kind(i, j + 1), Anc(i), Met(i, j + 1))
      PROVE  InBlock(pc', rows', outcomes', errors')
  <2>1. pc' = Start[<<r, i>>] + (j + 1)
    <3> DEFINE N == Start[<<r, i>>]
    <3>1. N \in Nat /\ j \in Nat /\ pc = N + j
      BY <1>2, <1>6
    <3>2. pc' = pc + 1
      BY <1>9
    <3> HIDE DEF N
    <3>3. pc' = N + (j + 1)
      BY <3>1, <3>2
    <3> QED BY <3>3 DEF N
  <2>2. j + 1 \in 1 .. Size(i)
    BY <1>7, <1>9
  <2>3. Len(outcomes') = (r - 1) * K + i - 1
    BY <1>2, <1>9
  <2>4. Good(rows', outcomes', errors', Kind(i, j + 1), Anc(i), Met(i, j + 1))
    BY <1>9
  <2> QED BY Zenon, <2>1, <2>2, <2>3, <2>4 DEF InBlock
<1>10. CASE OneQubit
  <2>1. in.gate # "MR" /\ pc' = pc + 1 /\ outcomes' = outcomes
    BY <1>3, <1>10 DEF OneQubit, Fetch, Gates
  <2>2. PICK e \in Errors : errors' = errors + Count(e) /\ rows' = ApplyPauli(Apply(rows, in), in.a, e)
    BY <1>3, <1>10 DEF OneQubit, Draw
  <2>3. Good(rows', outcomes, errors', Kind(i, j + 1), Anc(i), Met(i, j + 1))
    BY <1>7, <2>1, <2>2, ErrorKeeps
  <2> QED BY <1>9, <2>1, <2>3
<1>11. CASE TwoQubits
  <2>1. in.gate = "CNOT" /\ in.gate # "MR" /\ pc' = pc + 1 /\ outcomes' = outcomes
    BY <1>3, <1>11 DEF TwoQubits, Fetch
  <2>2. PICK e \in Errors, f \in Errors :
          /\ errors' = errors + (Count(e) + Count(f))
          /\ rows' = ApplyPauli(ApplyPauli(Apply(rows, in), in.a, e), in.b, f)
    BY <1>3, <1>11 DEF TwoQubits, Draw
  <2>3. Good(ApplyPauli(Apply(rows, in), in.a, e), outcomes, errors + Count(e), Kind(i, j + 1), Anc(i), Met(i, j + 1))
    BY <1>7, <2>1, ErrorKeeps
  <2>4. Good(rows', outcomes, (errors + Count(e)) + Count(f), Kind(i, j + 1), Anc(i), Met(i, j + 1))
    BY <1>7, <2>1, <2>2, <2>3, ErrorKeeps
  <2>5. errors' = (errors + Count(e)) + Count(f)
    BY <1>5, <2>2 DEF Count
  <2> QED BY <1>9, <2>1, <2>4, <2>5
<1>12. CASE MeasureReset
  <2>1. PICK m \in Mr(rows, in.a) : Recorded(m)
    BY <1>3, <1>12 DEF MeasureReset
  <2>2. in.gate = "MR" /\ pc' = pc + 1 /\ rows' = m[2]
    BY <1>3, <1>12, <2>1 DEF MeasureReset, Fetch, Recorded
  <2>3. PICK f \in {0, 1} : errors' = errors + f /\ outcomes' = Append(outcomes, (m[1] + f) % 2)
    BY <2>1 DEF Recorded, Draw
  <2>4. /\ j = Size(i)
        /\ Good(m[2], Append(outcomes, (m[1] + f) % 2), errors + f, "z", Anc(i), {})
        /\ Len(Append(outcomes, (m[1] + f) % 2)) = (r - 1) * K + i
    BY <1>2, <1>4, <2>1, <2>2, MeasureStep DEF in
  <2>5. pc' = Start[<<r, i>>] + Size(i) + 1
    BY <1>2, <1>6, <2>2, <2>4
  <2>6. Good(rows', outcomes', errors', "z", Anc(i), {}) /\ Len(outcomes') = (r - 1) * K + i
    BY <2>2, <2>3, <2>4
  <2> QED BY <2>5, <2>6, Turn
<1>13. CASE Measure
  BY <1>3, <1>8, <1>13 DEF Measure, Fetch
<1> QED BY <1>10, <1>11, <1>12, <1>13 DEF Next

LEMMA EndNext ==
  ASSUME InEnd(pc, rows, outcomes, errors), Next
  PROVE  InEnd(pc', rows', outcomes', errors')
<1>1. PICK q \in 0 .. d * d :
        /\ pc = Start[<<Rounds, K + 1>>] + q + 1 /\ Len(outcomes) = Rounds * K + q
        /\ Read(rows, outcomes, errors, q)
  BY DEF InEnd
<1> DEFINE N == Start[<<Rounds, K + 1>>]
<1>2. N \in Nat /\ Len(Instrs) = N + d * d /\ d * d \in Nat
  <2>1. <<Rounds, K + 1>> \in (1 .. Rounds) \X (1 .. K + 1) /\ d * d \in Nat
    BY Params
  <2> QED BY <2>1, Started DEF Layout
<1>3. \A q1 \in Data : Instrs[N + q1 + 1] = Op("MZ", q1)
  BY Started DEF Layout
<1> HIDE DEF N
<1>4. pc = N + q + 1
  BY <1>1 DEF N
<1>5. q \in Data /\ Instrs[pc] = Op("MZ", q)
  <2>1. pc <= Len(Instrs)
    BY DEF Next, OneQubit, TwoQubits, MeasureReset, Measure, Fetch
  <2>2. q \in Data
    BY <1>2, <1>4, <2>1 DEF Data
  <2> QED BY <1>3, <1>4, <2>2
<1>6. Op("MZ", q).gate = "MZ" /\ Op("MZ", q).a = q
  BY DEF Op
<1>7. Measure
  BY <1>5, <1>6 DEF Next, OneQubit, TwoQubits, MeasureReset, Fetch, Gates
<1>8. PICK m \in Mz(rows, q) : Recorded(m)
  BY <1>5, <1>6, <1>7 DEF Measure
<1>9. pc' = pc + 1 /\ rows' = m[2]
  BY <1>7, <1>8 DEF Measure, Fetch, Recorded
<1>10. PICK f \in {0, 1} : errors' = errors + f /\ outcomes' = Append(outcomes, (m[1] + f) % 2)
  BY <1>8 DEF Recorded, Draw
<1>11. Read(rows', outcomes', errors', q + 1)
  BY <1>1, <1>5, <1>9, <1>10, ReadStep
<1>12. q + 1 \in 0 .. d * d /\ pc' = N + (q + 1) + 1
  BY <1>2, <1>4, <1>5, <1>9 DEF Data
<1>13. Len(outcomes') = Rounds * K + (q + 1)
  <2> DEFINE M == Rounds * K
             v == (m[1] + f) % 2
  <2>1. M \in Nat
    BY Params
  <2>2. outcomes \in Seq({0, 1})
    BY <1>1 DEF Read, Log
  <2> HIDE DEF M, v
  <2>3. Len(Append(outcomes, v)) = Len(outcomes) + 1
    BY <2>2
  <2>4. Len(outcomes) = M + q /\ q \in Nat
    BY <1>1, <1>2 DEF M
  <2>5. Len(outcomes') = M + (q + 1)
    BY <1>10, <2>1, <2>3, <2>4 DEF v
  <2> QED BY <2>5 DEF M
<1> QED BY <1>11, <1>12, <1>13 DEF InEnd, N

LEMMA NextIInv == IInv /\ [Next]_vars => IInv'
<1> SUFFICES ASSUME IInv, [Next]_vars PROVE IInv'
  OBVIOUS
<1>1. CASE Next
  BY <1>1, BlockNext, EndNext DEF IInv
<1>2. CASE UNCHANGED vars
  BY <1>2 DEF vars, IInv, InBlock, InEnd
<1> QED BY <1>1, <1>2

LEMMA Invariance == Spec => []IInv
BY InitIInv, NextIInv, PTL DEF Spec

-----------------------------------------------------------------------------
(* What the properties say of the record follows.                           *)

(* The outcomes that are 1 among those of a set of data qubits.             *)
LEMMA OnesMeas ==
  ASSUME NEW q \in 0 .. d * d, NEW z, z \subseteq 0 .. q - 1, NEW os
  PROVE  /\ Par({i \in Meas(z) : os[i] = 1}) = Par(Ones(os, q) \cap z)
         /\ Par(Ones(os, q) \cap z) \in {0, 1}
<1> DEFINE A == Ones(os, q) \cap z
           B == {i \in Meas(z) : os[i] = 1}
           D(p) == DataMeas(d, Rounds, p)
           f == [p \in A |-> D(p)]
<1>1. A = {p \in z : os[D(p)] = 1}
  BY DEF Ones
<1>2. \A p \in z : p \in Int /\ p \in Data
  <2>1. d * d \in Nat /\ q \in 0 .. d * d
    BY Params
  <2> DEFINE N == d * d
  <2>2. N \in Nat /\ q \in 0 .. N
    BY <2>1
  <2> HIDE DEF N
  <2>3. \A p \in z : p \in Int /\ p \in 0 .. N - 1
    BY <2>2
  <2> QED BY <2>3 DEF N, Data
<1>3. \A p1, p2 \in z : D(p1) = D(p2) => p1 = p2
  <2> DEFINE M == Rounds * (d * d - 1)
  <2>1. M \in Int
    BY Params
  <2>2. \A p \in z : D(p) = M + p + 1
    BY DEF DataMeas
  <2> HIDE DEF M, D
  <2> QED BY <1>2, <2>1, <2>2
<1>4. B = {D(p) : p \in A}
  <2>1. Meas(z) = {D(p) : p \in z}
    BY DEF Meas
  <2> HIDE DEF D
  <2>2. ASSUME NEW b PROVE b \in B <=> b \in {D(p) : p \in {p \in z : os[D(p)] = 1}}
    BY <2>1
  <2> QED BY <1>1, <2>2
<1>5. IsFiniteSet(A)
  <2>1. A \subseteq Data
    BY <1>1, <1>2
  <2> QED BY <2>1, Places
<1> HIDE DEF A, B, D
<1>6. f \in Bijection(A, B)
  <2>1. \A p \in A : p \in z
    BY <1>1
  <2>2. f \in [A -> B] /\ \A b \in B : \E p \in A : f[p] = b
    BY <1>4
  <2>3. \A p1, p2 \in A : f[p1] = f[p2] => p1 = p2
    BY <1>3, <2>1
  <2> QED BY <2>2, <2>3 DEF Bijection, Injection, Surjection, IsInjective
<1>7. ExistsBijection(A, B)
  BY <1>6 DEF ExistsBijection
<1>8. Cardinality(B) = Cardinality(A)
  BY <1>5, <1>7, FS_Bijection
<1>9. Par(B) = Par(A)
  BY <1>8 DEF Par
<1>10. Par(A) \in {0, 1}
  BY <1>5, ParTypes
<1> QED BY <1>9, <1>10 DEF A, B

(* Once its qubits are read, a Z check has the sign of their outcomes.      *)
LogOf(os, n, q) ==
  \E C, zs, as, xs :
    /\ Log(os, n, C, zs, as, xs)
    /\ \A z \in ZSets : z \subseteq 0 .. q - 1 => Par({i \in Meas(z) : os[i] = 1}) = zs[z]

LEMMA Signed ==
  ASSUME NEW rs, NEW os, NEW n, NEW q \in 0 .. d * d, Read(rs, os, n, q)
  PROVE  LogOf(os, n, q)
<1>1. PICK C, zs, as, xs, F : Log(os, n, C, zs, as, xs) /\ Reading(rs, os, q, F, zs)
  BY DEF Read
<1>2. ASSUME NEW z \in ZSets, z \subseteq 0 .. q - 1
      PROVE  Par({i \in Meas(z) : os[i] = 1}) = zs[z]
  <2> DEFINE u == Par(Ones(os, q) \cap z)
             g == Par(F \cap z)
             w == zs[z]
  <2>1. Par({i \in Meas(z) : os[i] = 1}) = u /\ u \in {0, 1}
    BY <1>2, OnesMeas
  <2>2. w \in {0, 1}
    BY <1>1 DEF Log
  <2>3. IsFiniteSet(F \cap z)
    <3>1. F \cap z \subseteq Data
      BY Places
    <3> QED BY <3>1, Places
  <2>4. g \in {0, 1}
    BY <2>3, ParTypes
  <2>5. Tab(rs) /\ Says(rs, Row({}, z, (u + g) % 2)) /\ Says(rs, Row({}, z, (w + g) % 2))
    BY <1>1, <1>2 DEF Reading
  <2> HIDE DEF u, g, w
  <2>6. (u + g) % 2 \in {0, 1} /\ (w + g) % 2 \in {0, 1}
    BY <2>1, <2>2, <2>4
  <2>7. (u + g) % 2 = (w + g) % 2
    BY <2>5, <2>6, SaysOnce
  <2>8. u = w
    BY <2>1, <2>2, <2>4, <2>7
  <2> QED BY <2>1, <2>8 DEF w
<1> QED BY <1>1, <1>2 DEF LogOf

(* The data qubits come behind the rounds.                                  *)
LEMMA MeasAfter ==
  ASSUME NEW z \in ZSets, NEW os, \A i \in Meas(z) : i <= Len(os), Len(os) \in Nat
  PROVE  /\ Len(os) > Rounds * K
         /\ \A q \in 0 .. d * d : Len(os) = Rounds * K + q => z \subseteq 0 .. q - 1
<1> DEFINE N == Rounds * K
           L == Len(os)
<1>1. N \in Nat /\ L \in Nat
  BY Params
<1>2. \A p \in z : DataMeas(d, Rounds, p) = N + p + 1
  BY Params DEF DataMeas
<1>3. \A p \in z : p \in Nat
  BY Places, Params DEF Data
<1>4. \A p \in z : N + p + 1 <= L
  BY <1>2 DEF Meas
<1>5. \E p : p \in z
  <2>1. 0 \in Row0
    BY Row0Is, Params
  <2>2. ASSUME NEW i \in NX + 1 .. K PROVE \E p : p \in Supp(i)
    <3>1. i \in 1 .. K
      BY Places
    <3>2. Supp(i) = Prefix(i, Width(i)) /\ Width(i) \in {2, 4}
      BY <3>1, Orders
    <3>3. 1 \in 1 .. Width(i)
      BY <3>2
    <3>4. Order(i)[1] \in Prefix(i, Width(i))
      BY <3>3 DEF Prefix
    <3> QED BY <3>2, <3>4
  <2> QED BY <2>1, <2>2 DEF ZSets
<1> HIDE DEF N, L
<1>6. L > N
  BY <1>1, <1>3, <1>4, <1>5
<1>7. \A q \in Int : L = N + q => \A p \in z : p \in 0 .. q - 1
  BY <1>1, <1>3, <1>4
<1>8. \A q \in 0 .. d * d : q \in Int
  BY Params
<1> QED BY <1>6, <1>7, <1>8 DEF N, L

(* The parity of the detector that compares the last round with the data.   *)
LEMMA LastParity ==
  ASSUME NEW i \in NX + 1 .. K, NEW os, ZeroLog(os, i), AncMeas(d, i, Rounds) <= Len(os)
  PROVE  {b \in {AncMeas(d, i, Rounds)} \cup Meas(Supp(i)) : os[b] = 1} = {b \in Meas(Supp(i)) : os[b] = 1}
<1>1. Rounds \in 1 .. Rounds
  BY Params
<1>2. os[AncMeas(d, i, Rounds)] = 0
  BY <1>1 DEF ZeroLog
<1> QED BY <1>2

(* Each sign of a Z check or of the logical row is that of its outcomes.    *)
Shown(os, C, zs, as, xs) ==
  \A z \in ZSets : (\A b \in Meas(z) : b <= Len(os)) => Par({b \in Meas(z) : os[b] = 1}) = zs[z]

LEMMA Showing ==
  ASSUME IInv
  PROVE  \E C, zs, as, xs : Log(outcomes, errors, C, zs, as, xs) /\ Shown(outcomes, C, zs, as, xs)
<1>1. CASE InBlock(pc, rows, outcomes, errors)
  <2>1. PICK r \in 1 .. Rounds, i \in 1 .. K : \E j \in 1 .. Size(i) :
          /\ Len(outcomes) = (r - 1) * K + i - 1
          /\ Good(rows, outcomes, errors, Kind(i, j), Anc(i), Met(i, j))
    BY <1>1 DEF InBlock
  <2>2. PICK C, zs, as, xs : Log(outcomes, errors, C, zs, as, xs)
    BY <2>1 DEF Good
  <2>3. Len(outcomes) \in Nat
    BY <2>2 DEF Log
  <2>4. ~ (Len(outcomes) > Rounds * K)
    <3>1. AncMeas(d, i, r) <= Rounds * K /\ AncMeas(d, i, r) = (r - 1) * K + i
      BY AncIs
    <3> DEFINE N == (r - 1) * K
               M == Rounds * K
               L == Len(outcomes)
    <3>2. N \in Int /\ M \in Int /\ L \in Nat /\ i \in Int /\ N + i <= M /\ L = N + i - 1
      BY <2>1, <2>3, <3>1, Params
    <3> HIDE DEF N, M, L
    <3>3. ~ (L > M)
      BY <3>2
    <3> QED BY <3>3 DEF L, M
  <2>5. Shown(outcomes, C, zs, as, xs)
    BY <2>3, <2>4, MeasAfter DEF Shown
  <2> QED BY <2>2, <2>5
<1>2. CASE InEnd(pc, rows, outcomes, errors)
  <2>1. PICK q \in 0 .. d * d : Len(outcomes) = Rounds * K + q /\ Read(rows, outcomes, errors, q)
    BY <1>2 DEF InEnd
  <2>2. PICK C, zs, as, xs :
          /\ Log(outcomes, errors, C, zs, as, xs)
          /\ \A z \in ZSets : z \subseteq 0 .. q - 1 => Par({i \in Meas(z) : outcomes[i] = 1}) = zs[z]
    <3>1. LogOf(outcomes, errors, q)
      BY <2>1, Signed
    <3> QED BY <3>1 DEF LogOf
  <2>3. Len(outcomes) \in Nat
    BY <2>2 DEF Log
  <2>4. Shown(outcomes, C, zs, as, xs)
    BY <2>1, <2>2, <2>3, MeasAfter DEF Shown
  <2> QED BY <2>2, <2>4
<1> QED BY <1>1, <1>2 DEF IInv

LEMMA LogicalIs == Logical = Meas(Row0) /\ Row0 \in ZSets /\ \A i \in NX + 1 .. K : Supp(i) \in ZSets
BY DEF Logical, Observable, Meas, Row0, ZSets, d

LEMMA ParityIs == \A ms : Parity(ms) = Par({i \in ms : outcomes[i] = 1})
BY DEF Parity, Par

(* Two equal outcomes of one check. *)
LEMMA ParPair ==
  ASSUME NEW a, NEW b, a # b, NEW os, os[a] = os[b]
  PROVE  Par({i \in {a, b} : os[i] = 1}) = 0
<1>1. CASE os[a] = 1
  <2>1. {i \in {a, b} : os[i] = 1} = {a} \cup {b}
    BY <1>1
  <2>2. Par({a} \cup {b}) = 1 - Par({a})
    BY ParAdd, FS_Singleton
  <2>3. Par({a}) = 1
    BY ParSmall
  <2>4. Par({a} \cup {b}) = 0
    <3> DEFINE u == Par({a})
               v == Par({a} \cup {b})
    <3>1. v = 1 - u /\ u = 1
      BY <2>2, <2>3
    <3> HIDE DEF u, v
    <3>2. v = 0
      BY <3>1
    <3> QED BY <3>2 DEF v
  <2> QED BY Zenon, <2>1, <2>4
<1>2. CASE os[a] # 1
  <2>1. {i \in {a, b} : os[i] = 1} = {}
    BY <1>2
  <2> QED BY <2>1, ParSmall
<1> QED BY <1>1, <1>2

LEMMA IInvQuiet == IInv => QuietWithoutErrors
<1> SUFFICES ASSUME IInv, errors = 0, NEW ms \in AllDetectors \cup {Logical}, Made(ms)
             PROVE  Par({i \in ms : outcomes[i] = 1}) = 0
  BY ParityIs DEF QuietWithoutErrors
<1>1. PICK C, zs, as, xs : Log(outcomes, errors, C, zs, as, xs) /\ Shown(outcomes, C, zs, as, xs)
  BY Showing
<1>2. Quiet(outcomes, C, zs, as, xs)
  BY <1>1 DEF Log
<1>3. \A b \in ms : b <= Len(outcomes)
  BY DEF Made
<1>4. CASE ms = Logical
  <2>1. ms = Meas(Row0) /\ Row0 \in ZSets
    BY <1>4, LogicalIs
  <2> QED BY <1>1, <1>2, <1>3, <2>1 DEF Shown, Quiet
<1>5. ASSUME NEW i \in 1 .. K, NEW r \in 2 .. Rounds, ms = {AncMeas(d, i, r - 1), AncMeas(d, i, r)}
      PROVE  Par({b \in ms : outcomes[b] = 1}) = 0
  <2>1. r \in 1 .. Rounds /\ r - 1 \in 1 .. Rounds /\ r - 1 # r
    BY Params
  <2> DEFINE a == AncMeas(d, i, r - 1)
             b == AncMeas(d, i, r)
  <2>2. a # b
    BY <2>1, AncIs
  <2>3. a <= Len(outcomes) /\ b <= Len(outcomes)
    BY <1>3, <1>5
  <2>4. outcomes[a] = outcomes[b]
    <3>1. CASE i \in 1 .. NX
      BY <1>2, <2>1, <2>3, <3>1 DEF Quiet
    <3>2. CASE i \in NX + 1 .. K
      <4>1. ZeroLog(outcomes, i)
        BY <1>2, <3>2 DEF Quiet
      <4> QED BY <2>1, <2>3, <4>1 DEF ZeroLog
    <3>3. i \in 1 .. NX \/ i \in NX + 1 .. K
      BY Sizes
    <3> QED BY <3>1, <3>2, <3>3
  <2> HIDE DEF a, b
  <2>5. Par({c \in {a, b} : outcomes[c] = 1}) = 0
    BY <2>2, <2>4, ParPair
  <2> QED BY <1>5, <2>5 DEF a, b
<1>6. ASSUME NEW i \in NX + 1 .. K, ms = {AncMeas(d, i, 1)}
      PROVE  Par({b \in ms : outcomes[b] = 1}) = 0
  <2>1. ZeroLog(outcomes, i) /\ AncMeas(d, i, 1) <= Len(outcomes) /\ 1 \in 1 .. Rounds
    BY <1>2, <1>3, <1>6, Params DEF Quiet
  <2>2. outcomes[AncMeas(d, i, 1)] = 0
    BY <2>1 DEF ZeroLog
  <2>3. {b \in ms : outcomes[b] = 1} = {}
    BY <1>6, <2>2
  <2> QED BY <2>3, ParSmall
<1>7. ASSUME NEW i \in NX + 1 .. K,
             ms = {AncMeas(d, i, Rounds)} \cup {DataMeas(d, Rounds, q) : q \in Supp(i)}
      PROVE  Par({b \in ms : outcomes[b] = 1}) = 0
  <2>1. ms = {AncMeas(d, i, Rounds)} \cup Meas(Supp(i))
    BY <1>7 DEF Meas
  <2>2. ZeroLog(outcomes, i) /\ zs[Supp(i)] = 0 /\ Supp(i) \in ZSets
    BY <1>2, LogicalIs DEF Quiet
  <2>3. AncMeas(d, i, Rounds) <= Len(outcomes) /\ \A b \in Meas(Supp(i)) : b <= Len(outcomes)
    BY <1>3, <2>1
  <2>4. Par({b \in Meas(Supp(i)) : outcomes[b] = 1}) = 0
    BY <1>1, <2>2, <2>3 DEF Shown
  <2> QED BY <2>1, <2>2, <2>3, <2>4, LastParity
<1> QED BY <1>4, <1>5, <1>6, <1>7, DetectorsAre

LEMMA IInvSilent == IInv => NoSilentError
<1> SUFFICES ASSUME IInv, Done, errors <= 1, Parity(Logical) = 1
             PROVE  \E ms \in AllDetectors : Par({b \in ms : outcomes[b] = 1}) = 1
  BY ParityIs DEF NoSilentError
<1>1. PICK C, zs, as, xs : Log(outcomes, errors, C, zs, as, xs) /\ Shown(outcomes, C, zs, as, xs)
  BY Showing
<1>2. Len(outcomes) = Rounds * K + d * d
  <2>1. ~ InBlock(pc, rows, outcomes, errors)
    <3>1. \A r \in 1 .. Rounds, i \in 1 .. K : \A j \in 1 .. Size(i) :
            Start[<<r, i>>] + j \in DOMAIN Instrs
      BY Started DEF Layout
    <3>2. pc \notin DOMAIN Instrs
      BY DEF Done
    <3> QED BY <3>1, <3>2 DEF InBlock
  <2>2. PICK q \in 0 .. d * d : pc = Start[<<Rounds, K + 1>>] + q + 1 /\ Len(outcomes) = Rounds * K + q
    BY <2>1 DEF IInv, InEnd
  <2> DEFINE N == Start[<<Rounds, K + 1>>]
             D == d * d
  <2>3. N \in Nat /\ Len(Instrs) = N + D /\ D \in Nat
    <3>1. <<Rounds, K + 1>> \in (1 .. Rounds) \X (1 .. K + 1) /\ D \in Nat
      BY Params
    <3> QED BY <3>1, Started DEF Layout
  <2>4. pc = N + q + 1 /\ pc > Len(Instrs) /\ q \in 0 .. D
    BY <2>2 DEF Done
  <2> HIDE DEF N, D
  <2>5. q = D
    BY <2>3, <2>4
  <2> QED BY <2>2, <2>5 DEF D
<1>3. ASSUME NEW z \in ZSets PROVE Par({b \in Meas(z) : outcomes[b] = 1}) = zs[z]
  <2> DEFINE N == Rounds * K
             D == d * d
             L == Len(outcomes)
  <2>1. N \in Nat /\ D \in Nat /\ L = N + D
    BY <1>2, Params
  <2>2. \A p \in z : DataMeas(d, Rounds, p) = N + p + 1 /\ p \in 0 .. D - 1
    BY Places, Params DEF DataMeas, Data
  <2> HIDE DEF N, D, L
  <2>3. \A p \in z : DataMeas(d, Rounds, p) <= L
    BY <2>1, <2>2
  <2>4. \A b \in Meas(z) : b <= L
    BY <2>3 DEF Meas
  <2> QED BY <1>1, <2>4 DEF Shown, L
<1>4. zs[Row0] = 1
  <2>1. Par({b \in Meas(Row0) : outcomes[b] = 1}) = 1
    BY LogicalIs, ParityIs
  <2> QED BY <1>3, <2>1, LogicalIs
<1>5. Watched(outcomes, zs)
  BY <1>1, <1>4 DEF Log
<1>6. CASE Fired(outcomes)
  BY <1>6 DEF Fired, Odd
<1>7. ASSUME NEW i \in NX + 1 .. K, zs[Supp(i)] = 1, ZeroLog(outcomes, i)
      PROVE  \E ms \in AllDetectors : Par({b \in ms : outcomes[b] = 1}) = 1
  <2> DEFINE ms == {AncMeas(d, i, Rounds)} \cup Meas(Supp(i))
  <2>1. ms \in AllDetectors
    BY DetectorsAre DEF Meas
  <2>2. AncMeas(d, i, Rounds) <= Len(outcomes)
    <3>1. i \in 1 .. K /\ Rounds \in 1 .. Rounds
      BY Places, Params
    <3>2. AncMeas(d, i, Rounds) \in Nat /\ AncMeas(d, i, Rounds) <= Rounds * K
      BY <3>1, AncIs
    <3> DEFINE N == Rounds * K
               D == d * d
    <3>3. N \in Nat /\ D \in Nat
      BY Params
    <3>4. Len(outcomes) = N + D /\ AncMeas(d, i, Rounds) <= N
      BY <1>2, <3>2
    <3> HIDE DEF N, D
    <3> QED BY <3>2, <3>3, <3>4
  <2>3. Par({b \in Meas(Supp(i)) : outcomes[b] = 1}) = 1
    BY <1>3, <1>7, LogicalIs
  <2>4. {b \in ms : outcomes[b] = 1} = {b \in Meas(Supp(i)) : outcomes[b] = 1}
    BY <1>7, <2>2, LastParity
  <2> HIDE DEF ms
  <2> QED BY <2>1, <2>3, <2>4
<1> QED BY <1>5, <1>6, <1>7 DEF Watched

(* Whatever a random measurement gives, a shot without errors has detectors *)
(* and an observable of even parity (run_shot, and tableau.h:42).           *)
THEOREM ShotQuietWithoutErrors == Spec => []QuietWithoutErrors
BY Invariance, IInvQuiet, PTL

(* A shot of one error, anywhere in the program, does not change the        *)
(* logical outcome unless a detector shows it (run_shot, and the order of   *)
(* the CNOTs that build_circuit gives to each check).                       *)
THEOREM ShotNoSilentError == Spec => []NoSilentError
BY Invariance, IInvSilent, PTL
=============================================================================
