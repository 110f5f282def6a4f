-------------------------- MODULE StabilizerProofs --------------------------
(***************************************************************************)
(* Proofs about Stabilizer for every number of qubits and any sequence of  *)
(* gates and measurements.                                                 *)
(***************************************************************************)
EXTENDS Stabilizer, FiniteSetTheorems, WellFoundedInduction, TLAPS

RowSet == [x : SUBSET Qubits, z : SUBSET Qubits, r : {0, 1}]
Lines  == 1 .. NumQubits

(* The parity of a finite set.  Two rows anticommute when they clash an odd *)
(* number of times.                                                         *)
Par(A)     == Cardinality(A) % 2
Anti(u, v) == (Par(u.x \cap v.z) + Par(u.z \cap v.x)) % 2
Blank(u)   == u.x = {} /\ u.z = {}

(* The rows commute, and beside them are partners: one for each row, which *)
(* anticommutes with that row alone.  Together they leave nothing out.      *)
Partners(rs, d) ==
  /\ d \in [Lines -> RowSet]
  /\ \A i, j \in Lines : Anti(rs[i], rs[j]) = 0
  /\ \A i, j \in Lines : Anti(d[i], rs[j]) = IF i = j THEN 1 ELSE 0
  /\ \A w \in RowSet : (\A i \in Lines : Anti(w, rs[i]) = 0 /\ Anti(w, d[i]) = 0) => Blank(w)

StabilizerIInv ==
  /\ rows \in [Lines -> RowSet]
  /\ last \in {Nothing} \cup [q : Qubits, value : {0, 1}]
  /\ \E d : Partners(rows, d)

-----------------------------------------------------------------------------
(* Numbers. *)

(* The least number of a set. *)
LEMMA LeastExists ==
  ASSUME NEW T, T \subseteq Nat, T # {}
  PROVE  \E x \in T : \A y \in T : x <= y
<1> DEFINE F == {1 .. i : i \in T}
<1>1. F \subseteq FiniteSubsetsOf(Nat) /\ F # {}
  <2>1. \A i \in T : 1 .. i \subseteq Nat /\ IsFiniteSet(1 .. i)
    BY FS_Interval
  <2> QED BY <2>1 DEF FiniteSubsetsOf
<1>2. \E X \in F : \A Y \in F : ~ (<<Y, X>> \in StrictSubsetOrdering(Nat))
  BY <1>1, WFMin, FS_StrictSubsetOrderingWellFounded
<1>3. PICK x \in T : \A y \in T : ~ (<<1 .. y, 1 .. x>> \in StrictSubsetOrdering(Nat))
  BY <1>2
<1>4. ASSUME NEW y \in T, y < x PROVE FALSE
  <2>1. x \in 1 .. x /\ x \notin 1 .. y
    BY <1>4
  <2>2. 1 .. y \subseteq 1 .. x /\ 1 .. x \subseteq Nat /\ 1 .. y \subseteq Nat
    BY <1>4
  <2>3. <<1 .. y, 1 .. x>> \in StrictSubsetOrdering(Nat)
    BY <2>1, <2>2 DEF StrictSubsetOrdering
  <2> QED BY <1>3, <2>3
<1> QED BY <1>3, <1>4

(* Induction along the columns. *)
LEMMA Upwards ==
  ASSUME NEW N \in Nat, NEW T, 0 \in T, \A i \in 1 .. N : i - 1 \in T => i \in T
  PROVE  0 .. N \subseteq T
<1> DEFINE Missed == {i \in 0 .. N : i \notin T}
<1>1. ASSUME NEW x \in Missed, \A y \in Missed : x <= y PROVE FALSE
  <2>1. x \in 1 .. N /\ x - 1 \in 0 .. N /\ x - 1 \notin Missed
    BY <1>1
  <2> QED BY <2>1
<1>2. Missed \subseteq Nat
  OBVIOUS
<1>3. Missed = {}
  <2> HIDE DEF Missed
  <2> QED BY <1>1, <1>2, LeastExists
<1> QED BY <1>3

-----------------------------------------------------------------------------
(* Parities. *)

LEMMA ParTypes == \A A : IsFiniteSet(A) => Par(A) \in {0, 1}
<1>1. \A A : IsFiniteSet(A) => Cardinality(A) \in Nat
  BY FS_CardinalityType
<1>2. \A k \in Nat : k % 2 \in {0, 1}
  OBVIOUS
<1> QED BY <1>1, <1>2 DEF Par

LEMMA ParSmall == Par({}) = 0 /\ \A a : Par({a}) = 1 /\ IsFiniteSet({a})
<1>1. Cardinality({}) = 0
  BY FS_EmptySet
<1>2. \A a : Cardinality({a}) = 1 /\ IsFiniteSet({a})
  BY FS_Singleton
<1>3. 0 % 2 = 0 /\ 1 % 2 = 1
  OBVIOUS
<1> QED BY <1>1, <1>2, <1>3 DEF Par

(* The parity of a symmetric difference is the sum of the parities. *)
LEMMA ParSum ==
  ASSUME NEW A, IsFiniteSet(A), NEW B, IsFiniteSet(B)
  PROVE  IsFiniteSet(SymDiff(A, B)) /\ Par(SymDiff(A, B)) = (Par(A) + Par(B)) % 2
<1> DEFINE D == SymDiff(A, B)
           I == A \cap B
<1>1. /\ IsFiniteSet(A \cup B) /\ IsFiniteSet(I)
      /\ Cardinality(A \cup B) = Cardinality(A) + Cardinality(B) - Cardinality(I)
  BY FS_Union, FS_Intersection
<1>2. D = (A \cup B) \ I /\ (A \cup B) \cap I = I
  BY DEF SymDiff
<1>3. IsFiniteSet(D) /\ Cardinality(D) = Cardinality(A \cup B) - Cardinality(I)
  <2> DEFINE V == A \cup B
  <2>1. IsFiniteSet(V) /\ D = V \ I /\ V \cap I = I
    BY <1>1, <1>2
  <2> HIDE DEF V, D, I
  <2>2. IsFiniteSet(V \ I) /\ Cardinality(V \ I) = Cardinality(V) - Cardinality(V \cap I)
    BY <2>1, FS_Difference
  <2> QED BY <2>1, <2>2 DEF V
<1>4. /\ Cardinality(A) \in Nat /\ Cardinality(B) \in Nat /\ Cardinality(I) \in Nat
      /\ Cardinality(D) \in Nat
  BY <1>1, <1>3, FS_CardinalityType
<1>5. \A a, b, i, k \in Nat : k = a + b - 2 * i => k % 2 = ((a % 2) + (b % 2)) % 2
  OBVIOUS
<1>6. Cardinality(D) = Cardinality(A) + Cardinality(B) - 2 * Cardinality(I)
  BY <1>1, <1>3, <1>4
<1> HIDE DEF D, I
<1>7. Cardinality(D) % 2 = ((Cardinality(A) % 2) + (Cardinality(B) % 2)) % 2
  BY <1>4, <1>5, <1>6
<1> QED BY <1>3, <1>7 DEF Par, D

(* Every set of qubits is finite. *)
LEMMA QubitsFinite == \A A, B : A \subseteq Qubits => IsFiniteSet(A) /\ IsFiniteSet(A \cap B) /\ IsFiniteSet(B \cap A)
<1>1. IsFiniteSet(Qubits)
  BY StabilizerAssumption, FS_Interval DEF Qubits
<1>2. \A A : A \subseteq Qubits => IsFiniteSet(A)
  BY <1>1, FS_Subset
<1> QED BY <1>2, FS_Intersection

-----------------------------------------------------------------------------
(* Rows under XOR. *)

LEMMA XorFields ==
  \A u, v : /\ XorRow(u, v).x = SymDiff(u.x, v.x)
            /\ XorRow(u, v).z = SymDiff(u.z, v.z)
            /\ XorRow(u, v).r = (u.r + v.r) % 2
BY DEF XorRow, Row

LEMMA XorTypes == \A u, v \in RowSet : XorRow(u, v) \in RowSet
<1>1. \A a, b \in {0, 1} : (a + b) % 2 \in {0, 1}
  OBVIOUS
<1>2. \A A, B : A \subseteq Qubits /\ B \subseteq Qubits => SymDiff(A, B) \subseteq Qubits
  BY DEF SymDiff
<1>3. \A u \in RowSet : u.x \subseteq Qubits /\ u.z \subseteq Qubits /\ u.r \in {0, 1}
  BY DEF RowSet
<1>4. \A x, z, r : x \subseteq Qubits /\ z \subseteq Qubits /\ r \in {0, 1} => [x |-> x, z |-> z, r |-> r] \in RowSet
  BY DEF RowSet
<1> QED BY <1>1, <1>2, <1>3, <1>4 DEF XorRow, Row

(* XOR is commutative and associative, and a row undoes itself. *)
LEMMA XorLaws ==
  \A u, v, w \in RowSet :
    /\ XorRow(u, v) = XorRow(v, u)
    /\ XorRow(XorRow(u, v), w) = XorRow(u, XorRow(v, w))
    /\ XorRow(XorRow(u, v), v) = u
    /\ XorRow(u, u) = Row({}, {}, 0)
    /\ XorRow(u, Row({}, {}, 0)) = u
<1> SUFFICES ASSUME NEW u \in RowSet, NEW v \in RowSet, NEW w \in RowSet
             PROVE  /\ XorRow(u, v) = XorRow(v, u)
                    /\ XorRow(XorRow(u, v), w) = XorRow(u, XorRow(v, w))
                    /\ XorRow(XorRow(u, v), v) = u
                    /\ XorRow(u, u) = Row({}, {}, 0)
                    /\ XorRow(u, Row({}, {}, 0)) = u
  OBVIOUS
<1>1. \A a, b, c \in {0, 1} : /\ (a + b) % 2 = (b + a) % 2
                              /\ (((a + b) % 2) + c) % 2 = (a + ((b + c) % 2)) % 2
                              /\ (((a + b) % 2) + b) % 2 = a
                              /\ (a + a) % 2 = 0 /\ (a + 0) % 2 = a
  OBVIOUS
<1>2. \A A, B, C : /\ SymDiff(A, B) = SymDiff(B, A)
                   /\ SymDiff(SymDiff(A, B), C) = SymDiff(A, SymDiff(B, C))
                   /\ SymDiff(SymDiff(A, B), B) = A
                   /\ SymDiff(A, A) = {} /\ SymDiff(A, {}) = A
  BY DEF SymDiff
<1>3. /\ u = [x |-> u.x, z |-> u.z, r |-> u.r]
      /\ u.r \in {0, 1} /\ v.r \in {0, 1} /\ w.r \in {0, 1}
  BY DEF RowSet
<1>4. \A a, b : XorRow(a, b) = [x |-> SymDiff(a.x, b.x), z |-> SymDiff(a.z, b.z), r |-> (a.r + b.r) % 2]
  BY DEF XorRow, Row
<1>5. XorRow(u, v) = XorRow(v, u)
  BY <1>1, <1>2, <1>3, <1>4
<1>6. XorRow(XorRow(u, v), w) = XorRow(u, XorRow(v, w))
  <2>1. XorRow(XorRow(u, v), w) = [x |-> SymDiff(SymDiff(u.x, v.x), w.x),
                                   z |-> SymDiff(SymDiff(u.z, v.z), w.z),
                                   r |-> (((u.r + v.r) % 2) + w.r) % 2]
    BY <1>4
  <2>2. XorRow(u, XorRow(v, w)) = [x |-> SymDiff(u.x, SymDiff(v.x, w.x)),
                                   z |-> SymDiff(u.z, SymDiff(v.z, w.z)),
                                   r |-> (u.r + ((v.r + w.r) % 2)) % 2]
    BY <1>4
  <2> QED BY <1>1, <1>2, <1>3, <2>1, <2>2
<1>7. XorRow(XorRow(u, v), v) = u
  <2>1. XorRow(XorRow(u, v), v) = [x |-> SymDiff(SymDiff(u.x, v.x), v.x),
                                   z |-> SymDiff(SymDiff(u.z, v.z), v.z),
                                   r |-> (((u.r + v.r) % 2) + v.r) % 2]
    BY <1>4
  <2> QED BY <1>1, <1>2, <1>3, <2>1
<1>8. XorRow(u, u) = Row({}, {}, 0)
  BY <1>1, <1>2, <1>3, <1>4 DEF Row
<1>9. XorRow(u, Row({}, {}, 0)) = u
  BY <1>1, <1>2, <1>3, <1>4 DEF Row
<1> QED BY <1>5, <1>6, <1>7, <1>8, <1>9

LEMMA AntiTypes == \A u, v \in RowSet : Anti(u, v) \in {0, 1}
<1>1. \A u, v \in RowSet : Par(u.x \cap v.z) \in {0, 1} /\ Par(u.z \cap v.x) \in {0, 1}
  BY QubitsFinite, ParTypes DEF RowSet
<1>2. \A a, b \in {0, 1} : (a + b) % 2 \in {0, 1}
  OBVIOUS
<1> QED BY <1>1, <1>2 DEF Anti

LEMMA AntiSym == \A u, v \in RowSet : Anti(u, v) = Anti(v, u)
<1>1. \A A, B : A \cap B = B \cap A
  OBVIOUS
<1>2. \A u, v \in RowSet : Par(u.x \cap v.z) \in {0, 1} /\ Par(u.z \cap v.x) \in {0, 1}
  BY QubitsFinite, ParTypes DEF RowSet
<1>3. \A a, b \in {0, 1} : (a + b) % 2 = (b + a) % 2
  OBVIOUS
<1> SUFFICES ASSUME NEW u \in RowSet, NEW v \in RowSet PROVE Anti(u, v) = Anti(v, u)
  OBVIOUS
<1>4. u.x \cap v.z = v.z \cap u.x /\ u.z \cap v.x = v.x \cap u.z
  BY <1>1
<1> DEFINE a == Par(u.x \cap v.z)
           b == Par(u.z \cap v.x)
<1>5. Anti(u, v) = (a + b) % 2 /\ Anti(v, u) = (b + a) % 2
  BY <1>4 DEF Anti
<1>6. a \in {0, 1} /\ b \in {0, 1}
  BY <1>2
<1> HIDE DEF a, b
<1> QED BY <1>3, <1>5, <1>6

LEMMA AntiSum ==
  \A u, v, w \in RowSet : /\ Anti(XorRow(u, v), w) = (Anti(u, w) + Anti(v, w)) % 2
                          /\ Anti(w, XorRow(u, v)) = (Anti(w, u) + Anti(w, v)) % 2
<1>1. ASSUME NEW u \in RowSet, NEW v \in RowSet, NEW w \in RowSet
      PROVE  Anti(XorRow(u, v), w) = (Anti(u, w) + Anti(v, w)) % 2
  <2>2. /\ IsFiniteSet(u.x \cap w.z) /\ IsFiniteSet(v.x \cap w.z)
        /\ IsFiniteSet(u.z \cap w.x) /\ IsFiniteSet(v.z \cap w.x)
    BY QubitsFinite DEF RowSet
  <2> DEFINE a == Par(u.x \cap w.z)
             b == Par(v.x \cap w.z)
             c == Par(u.z \cap w.x)
             e == Par(v.z \cap w.x)
  <2>3. a \in {0, 1} /\ b \in {0, 1} /\ c \in {0, 1} /\ e \in {0, 1}
    BY <2>2, ParTypes
  <2>4. /\ Par(SymDiff(u.x \cap w.z, v.x \cap w.z)) = (a + b) % 2
        /\ Par(SymDiff(u.z \cap w.x, v.z \cap w.x)) = (c + e) % 2
    BY <2>2, ParSum
  <2>5. Anti(XorRow(u, v), w) = (((a + b) % 2) + ((c + e) % 2)) % 2
    <3>1. /\ XorRow(u, v).x \cap w.z = SymDiff(u.x \cap w.z, v.x \cap w.z)
          /\ XorRow(u, v).z \cap w.x = SymDiff(u.z \cap w.x, v.z \cap w.x)
      <4>1. XorRow(u, v).x = SymDiff(u.x, v.x) /\ XorRow(u, v).z = SymDiff(u.z, v.z)
        BY XorFields
      <4>2. /\ SymDiff(u.x, v.x) \cap w.z = SymDiff(u.x \cap w.z, v.x \cap w.z)
            /\ SymDiff(u.z, v.z) \cap w.x = SymDiff(u.z \cap w.x, v.z \cap w.x)
        BY DEF SymDiff
      <4> QED BY <4>1, <4>2
    <3> QED BY <2>4, <3>1 DEF Anti
  <2>6. Anti(u, w) = (a + c) % 2 /\ Anti(v, w) = (b + e) % 2
    BY DEF Anti
  <2> HIDE DEF a, b, c, e
  <2>7. (((a + b) % 2) + ((c + e) % 2)) % 2 = (((a + c) % 2) + ((b + e) % 2)) % 2
    BY <2>3
  <2> QED BY <2>5, <2>6, <2>7
<1>2. \A u, v \in RowSet : XorRow(u, v) \in RowSet
  BY XorTypes
<1> QED BY <1>1, <1>2, AntiSym

LEMMA AntiBlank == \A u, v \in RowSet : Blank(u) => Anti(u, v) = 0 /\ Anti(v, u) = 0
<1>1. \A A : {} \cap A = {}
  OBVIOUS
<1>2. (0 + 0) % 2 = 0
  OBVIOUS
<1> QED BY <1>1, <1>2, ParSmall, AntiSym DEF Anti, Blank

-----------------------------------------------------------------------------
(* The gates keep which rows commute.  Without its sign each undoes itself.  *)

LEMMA ParSplit ==
  ASSUME NEW W, IsFiniteSet(W), NEW a
  PROVE  /\ IsFiniteSet(W \ {a}) /\ Par(W \ {a}) \in {0, 1}
         /\ Par(W) = (Par(W \ {a}) + Bit(W, a)) % 2
<1>1. IsFiniteSet(W \ {a}) /\ IsFiniteSet(W \cap {a})
  BY FS_Difference, FS_Intersection
<1>2. W = SymDiff(W \ {a}, W \cap {a})
  BY DEF SymDiff
<1>3. Par(W) = (Par(W \ {a}) + Par(W \cap {a})) % 2
  <2> DEFINE A == W \ {a}
             B == W \cap {a}
  <2> HIDE DEF A, B
  <2>1. Par(SymDiff(A, B)) = (Par(A) + Par(B)) % 2
    BY <1>1, ParSum DEF A, B
  <2> QED BY <1>2, <2>1 DEF A, B
<1>4. Par(W \cap {a}) = Bit(W, a)
  <2>1. CASE a \in W
    <3>1. W \cap {a} = {a}
      BY <2>1
    <3> QED BY <2>1, <3>1, ParSmall DEF Bit
  <2>2. CASE a \notin W
    <3>1. W \cap {a} = {}
      BY <2>2
    <3> QED BY <2>2, <3>1, ParSmall DEF Bit
  <2> QED BY <2>1, <2>2
<1> QED BY <1>1, <1>3, <1>4, ParTypes

(* A change at one place, and at two. *)
LEMMA ParAt ==
  ASSUME NEW V, IsFiniteSet(V), NEW W, IsFiniteSet(W), NEW a, V \ {a} = W \ {a}
  PROVE  /\ Par(V \ {a}) \in {0, 1}
         /\ Par(V) = (Par(V \ {a}) + Bit(V, a)) % 2
         /\ Par(W) = (Par(V \ {a}) + Bit(W, a)) % 2
BY ParSplit

LEMMA ParAtTwo ==
  ASSUME NEW V, IsFiniteSet(V), NEW W, IsFiniteSet(W), NEW a, NEW b, a # b,
         (V \ {a}) \ {b} = (W \ {a}) \ {b},
         (Bit(V, a) + Bit(V, b)) % 2 = (Bit(W, a) + Bit(W, b)) % 2
  PROVE  Par(V) = Par(W)
<1> DEFINE k == Par((V \ {a}) \ {b})
<1>1. ASSUME NEW U, IsFiniteSet(U)
      PROVE  /\ Par((U \ {a}) \ {b}) \in {0, 1}
             /\ Par(U) = (((Par((U \ {a}) \ {b}) + Bit(U, b)) % 2) + Bit(U, a)) % 2
  <2>1. IsFiniteSet(U \ {a}) /\ Par(U) = (Par(U \ {a}) + Bit(U, a)) % 2
    BY <1>1, ParSplit
  <2>2. /\ Par((U \ {a}) \ {b}) \in {0, 1}
        /\ Par(U \ {a}) = (Par((U \ {a}) \ {b}) + Bit(U \ {a}, b)) % 2
    <3> DEFINE B == U \ {a}
    <3> HIDE DEF B
    <3>1. IsFiniteSet(B)
      BY <2>1 DEF B
    <3>2. Par(B \ {b}) \in {0, 1} /\ Par(B) = (Par(B \ {b}) + Bit(B, b)) % 2
      BY <3>1, ParSplit
    <3> QED BY <3>2 DEF B
  <2>3. Bit(U \ {a}, b) = Bit(U, b)
    BY DEF Bit
  <2> QED BY <2>1, <2>2, <2>3
<1>2. /\ k \in {0, 1}
      /\ Par(V) = (((k + Bit(V, b)) % 2) + Bit(V, a)) % 2
      /\ Par(W) = (((k + Bit(W, b)) % 2) + Bit(W, a)) % 2
  BY <1>1
<1>3. /\ Bit(V, a) \in {0, 1} /\ Bit(V, b) \in {0, 1}
      /\ Bit(W, a) \in {0, 1} /\ Bit(W, b) \in {0, 1}
  BY DEF Bit
<1> HIDE DEF k
<1>4. \A i, m, n, p, q \in {0, 1} : (m + n) % 2 = (p + q) % 2 =>
         (((i + n) % 2) + m) % 2 = (((i + q) % 2) + p) % 2
  OBVIOUS
<1> QED BY <1>2, <1>3, <1>4

LEMMA HAnti ==
  ASSUME NEW a, NEW u, NEW v,
         IsFiniteSet(u.x), IsFiniteSet(u.z), IsFiniteSet(v.x), IsFiniteSet(v.z)
  PROVE  Anti(H(u, a), H(v, a)) = Anti(u, v)
<1> DEFINE V  == H(u, a).x \cap H(v, a).z
           W  == H(u, a).z \cap H(v, a).x
           V0 == u.x \cap v.z
           W0 == u.z \cap v.x
<1>1. /\ H(u, a).x = (u.x \ {a}) \cup (u.z \cap {a}) /\ H(u, a).z = (u.z \ {a}) \cup (u.x \cap {a})
      /\ H(v, a).x = (v.x \ {a}) \cup (v.z \cap {a}) /\ H(v, a).z = (v.z \ {a}) \cup (v.x \cap {a})
  BY DEF H, Flip
<1>2. V \ {a} = V0 \ {a} /\ W \ {a} = W0 \ {a}
  BY <1>1
<1>3. Bit(V, a) = Bit(W0, a) /\ Bit(W, a) = Bit(V0, a)
  <2>1. a \in V <=> a \in W0
    BY <1>1
  <2>2. a \in W <=> a \in V0
    BY <1>1
  <2> QED BY <2>1, <2>2 DEF Bit
<1>4. /\ IsFiniteSet(V0) /\ IsFiniteSet(W0)
      /\ IsFiniteSet(V) /\ IsFiniteSet(W)
  <2>1. \A A, B : IsFiniteSet(A) => IsFiniteSet(A \cap B) /\ IsFiniteSet(B \cap A) /\ IsFiniteSet(A \ B)
    BY FS_Intersection, FS_Difference
  <2>2. \A A, B : IsFiniteSet(A) /\ IsFiniteSet(B) => IsFiniteSet(A \cup B)
    BY FS_Union
  <2>3. IsFiniteSet(H(u, a).x) /\ IsFiniteSet(H(u, a).z)
    <3>1. /\ IsFiniteSet(u.x \ {a}) /\ IsFiniteSet(u.z \cap {a})
          /\ IsFiniteSet(u.z \ {a}) /\ IsFiniteSet(u.x \cap {a})
      BY <2>1
    <3> QED BY <1>1, <2>2, <3>1
  <2> QED BY <2>1, <2>3
<1> HIDE DEF V, W, V0, W0
<1>5. /\ Par(V \ {a}) \in {0, 1}
      /\ Par(V) = (Par(V \ {a}) + Bit(W0, a)) % 2
      /\ Par(V0) = (Par(V \ {a}) + Bit(V0, a)) % 2
  BY <1>2, <1>3, <1>4, ParAt
<1>6. /\ Par(W \ {a}) \in {0, 1}
      /\ Par(W) = (Par(W \ {a}) + Bit(V0, a)) % 2
      /\ Par(W0) = (Par(W \ {a}) + Bit(W0, a)) % 2
  BY <1>2, <1>3, <1>4, ParAt
<1>7. Bit(V0, a) \in {0, 1} /\ Bit(W0, a) \in {0, 1}
  BY DEF Bit
<1>8. \A i, k, m, n \in {0, 1} : (((i + m) % 2) + ((k + n) % 2)) % 2 = (((i + n) % 2) + ((k + m) % 2)) % 2
  OBVIOUS
<1>9. (Par(V) + Par(W)) % 2 = (Par(V0) + Par(W0)) % 2
  BY <1>5, <1>6, <1>7, <1>8
<1> QED BY <1>9 DEF Anti, V, W, V0, W0

(* S and its inverse differ in the sign. *)
LEMMA SAnti ==
  ASSUME NEW a, NEW u, NEW v, NEW s, NEW t,
         IsFiniteSet(u.x), IsFiniteSet(u.z), IsFiniteSet(v.x), IsFiniteSet(v.z),
         s.x = u.x, s.z = XorBit(u.z, a, Bit(u.x, a)),
         t.x = v.x, t.z = XorBit(v.z, a, Bit(v.x, a))
  PROVE  Anti(s, t) = Anti(u, v)
<1> DEFINE V  == s.x \cap t.z
           W  == s.z \cap t.x
           V0 == u.x \cap v.z
           W0 == u.z \cap v.x
<1>1. V \ {a} = V0 \ {a} /\ W \ {a} = W0 \ {a}
  BY DEF XorBit, SymDiff
<1>2. /\ (a \in V) <=> (a \in u.x /\ ((a \in v.x /\ a \notin v.z) \/ (a \notin v.x /\ a \in v.z)))
      /\ (a \in W) <=> (a \in v.x /\ ((a \in u.x /\ a \notin u.z) \/ (a \notin u.x /\ a \in u.z)))
      /\ (a \in V0) <=> (a \in u.x /\ a \in v.z)
      /\ (a \in W0) <=> (a \in u.z /\ a \in v.x)
  BY DEF XorBit, SymDiff, Bit
<1>3. /\ IsFiniteSet(V0) /\ IsFiniteSet(W0) /\ IsFiniteSet(V) /\ IsFiniteSet(W)
  BY FS_Intersection
<1>4. (Bit(V, a) + Bit(W, a)) % 2 = (Bit(V0, a) + Bit(W0, a)) % 2
  BY <1>2 DEF Bit
<1>5. /\ Bit(V0, a) \in {0, 1} /\ Bit(W0, a) \in {0, 1}
      /\ Bit(V, a) \in {0, 1} /\ Bit(W, a) \in {0, 1}
  BY DEF Bit
<1> HIDE DEF V, W, V0, W0
<1>6. /\ Par(V \ {a}) \in {0, 1}
      /\ Par(V) = (Par(V \ {a}) + Bit(V, a)) % 2
      /\ Par(V0) = (Par(V \ {a}) + Bit(V0, a)) % 2
  BY <1>1, <1>3, ParAt
<1>7. /\ Par(W \ {a}) \in {0, 1}
      /\ Par(W) = (Par(W \ {a}) + Bit(W, a)) % 2
      /\ Par(W0) = (Par(W \ {a}) + Bit(W0, a)) % 2
  BY <1>1, <1>3, ParAt
<1>8. \A i, k, m, n, p, q \in {0, 1} : (m + n) % 2 = (p + q) % 2 =>
        (((i + m) % 2) + ((k + n) % 2)) % 2 = (((i + p) % 2) + ((k + q) % 2)) % 2
  OBVIOUS
<1>9. (Par(V) + Par(W)) % 2 = (Par(V0) + Par(W0)) % 2
  BY <1>4, <1>5, <1>6, <1>7, <1>8
<1> QED BY <1>9 DEF Anti, V, W, V0, W0

LEMMA CnotPar ==
  ASSUME NEW c, NEW t, c # t, NEW A, IsFiniteSet(A), NEW B, IsFiniteSet(B)
  PROVE  Par(XorBit(A, t, Bit(A, c)) \cap XorBit(B, c, Bit(B, t))) = Par(A \cap B)
<1> DEFINE V == XorBit(A, t, Bit(A, c)) \cap XorBit(B, c, Bit(B, t))
           W == A \cap B
<1>1. (V \ {c}) \ {t} = (W \ {c}) \ {t}
  BY DEF XorBit, SymDiff
<1>2. /\ (c \in V) <=> (c \in A /\ ((c \in B /\ t \notin B) \/ (c \notin B /\ t \in B)))
      /\ (t \in V) <=> (t \in B /\ ((c \in A /\ t \notin A) \/ (c \notin A /\ t \in A)))
  BY DEF XorBit, SymDiff, Bit
<1>3. (Bit(V, c) + Bit(V, t)) % 2 = (Bit(W, c) + Bit(W, t)) % 2
  BY <1>2 DEF Bit
<1>4. IsFiniteSet(V) /\ IsFiniteSet(W)
  <2>1. IsFiniteSet(XorBit(A, t, Bit(A, c)))
    BY ParSum, ParSmall DEF XorBit
  <2> QED BY <2>1, FS_Intersection
<1> HIDE DEF V, W
<1>5. Par(V) = Par(W)
  BY <1>1, <1>3, <1>4, ParAtTwo
<1> QED BY <1>5 DEF V, W

LEMMA CnotAnti ==
  ASSUME NEW c, NEW t, c # t, NEW u, NEW v,
         IsFiniteSet(u.x), IsFiniteSet(u.z), IsFiniteSet(v.x), IsFiniteSet(v.z)
  PROVE  Anti(Cnot(u, c, t), Cnot(v, c, t)) = Anti(u, v)
<1> DEFINE half(A, B) == XorBit(A, t, Bit(A, c)) \cap XorBit(B, c, Bit(B, t))
<1>1. \A A, B : IsFiniteSet(A) /\ IsFiniteSet(B) => Par(half(A, B)) = Par(A \cap B)
  BY CnotPar
<1>2. /\ Cnot(u, c, t).x \cap Cnot(v, c, t).z = half(u.x, v.z)
      /\ Cnot(u, c, t).z \cap Cnot(v, c, t).x = half(v.x, u.z)
  BY DEF Cnot, Row
<1>3. u.z \cap v.x = v.x \cap u.z
  OBVIOUS
<1> HIDE DEF half
<1>4. Par(half(u.x, v.z)) = Par(u.x \cap v.z) /\ Par(half(v.x, u.z)) = Par(v.x \cap u.z)
  BY <1>1
<1> QED BY <1>2, <1>3, <1>4 DEF Anti

LEMMA GateFields ==
  ASSUME NEW u
  PROVE  /\ \A a : /\ H(u, a).x = (u.x \ {a}) \cup (u.z \cap {a})
                   /\ H(u, a).z = (u.z \ {a}) \cup (u.x \cap {a})
         /\ \A a : S(u, a).x = u.x /\ S(u, a).z = XorBit(u.z, a, Bit(u.x, a))
         /\ \A a : Sdg(u, a).x = u.x /\ Sdg(u, a).z = XorBit(u.z, a, Bit(u.x, a))
         /\ \A a : Px(u, a).x = u.x /\ Px(u, a).z = u.z
         /\ \A a : Pz(u, a).x = u.x /\ Pz(u, a).z = u.z
         /\ \A c, t : /\ Cnot(u, c, t).x = XorBit(u.x, t, Bit(u.x, c))
                      /\ Cnot(u, c, t).z = XorBit(u.z, c, Bit(u.z, t))
BY DEF H, S, Sdg, Px, Pz, Cnot, Row, Flip

(* A gate is one of six. *)
LEMMA GateCases ==
  ASSUME NEW in \in Instrs
  PROVE  \/ in.a \in Qubits /\ \A u : Gate(u, in) = H(u, in.a)
         \/ in.a \in Qubits /\ \A u : Gate(u, in) = S(u, in.a)
         \/ in.a \in Qubits /\ \A u : Gate(u, in) = Sdg(u, in.a)
         \/ in.a \in Qubits /\ \A u : Gate(u, in) = Px(u, in.a)
         \/ in.a \in Qubits /\ \A u : Gate(u, in) = Pz(u, in.a)
         \/ /\ in.a \in Qubits /\ in.b \in Qubits /\ in.a # in.b
            /\ \A u : Gate(u, in) = Cnot(u, in.a, in.b)
<1>1. CASE in \in [gate : Gates, a : Qubits]
  <2>1. in.gate \in {"H", "S", "SDG", "X", "Z"} /\ in.a \in Qubits
    BY <1>1 DEF Gates
  <2> QED BY <2>1 DEF Gate
<1>2. CASE in \in {i \in [gate : {"CNOT"}, a : Qubits, b : Qubits] : i.a # i.b}
  <2>1. in.gate = "CNOT" /\ in.a \in Qubits /\ in.b \in Qubits /\ in.a # in.b
    BY <1>2
  <2> QED BY <2>1 DEF Gate
<1> QED BY <1>1, <1>2 DEF Instrs

LEMMA GateTypes == \A in \in Instrs, u \in RowSet : Gate(u, in) \in RowSet
<1> SUFFICES ASSUME NEW in \in Instrs, NEW u \in RowSet PROVE Gate(u, in) \in RowSet
  OBVIOUS
<1>1. u.x \subseteq Qubits /\ u.z \subseteq Qubits /\ u.r \in {0, 1}
  BY DEF RowSet
<1>2. \A A, a : Bit(A, a) \in {0, 1}
  BY DEF Bit
<1>3. \A k, b \in {0, 1} : (k + b) % 2 \in {0, 1}
  OBVIOUS
<1>4. \A b \in {0, 1} : Flip(u, b) = [x |-> u.x, z |-> u.z, r |-> (u.r + b) % 2]
  BY DEF Flip, RowSet
<1>5. \A A, q, b : A \subseteq Qubits /\ q \in Qubits => XorBit(A, q, b) \subseteq Qubits
  BY DEF XorBit, SymDiff
<1>6. \A x, z, r : x \subseteq Qubits /\ z \subseteq Qubits /\ r \in {0, 1} => [x |-> x, z |-> z, r |-> r] \in RowSet
  BY DEF RowSet
<1>7. \A A, a : Flip(u, Bit(A, a)) = [x |-> u.x, z |-> u.z, r |-> (u.r + Bit(A, a)) % 2]
                /\ (u.r + Bit(A, a)) % 2 \in {0, 1}
  BY <1>1, <1>2, <1>3, <1>4
<1>8. CASE in.a \in Qubits /\ \A w : Gate(w, in) = H(w, in.a)
  <2>1. H(u, in.a) = [x |-> (u.x \ {in.a}) \cup (u.z \cap {in.a}),
                      z |-> (u.z \ {in.a}) \cup (u.x \cap {in.a}),
                      r |-> (u.r + Bit(u.x \cap u.z, in.a)) % 2]
    <3> DEFINE f == Flip(u, Bit(u.x \cap u.z, in.a))
    <3>1. H(u, in.a) = [f EXCEPT !.x = (u.x \ {in.a}) \cup (u.z \cap {in.a}),
                                !.z = (u.z \ {in.a}) \cup (u.x \cap {in.a})]
      BY DEF H
    <3>2. f = [x |-> u.x, z |-> u.z, r |-> (u.r + Bit(u.x \cap u.z, in.a)) % 2]
      BY <1>7
    <3> HIDE DEF f
    <3> QED BY <3>1, <3>2
  <2> QED BY <1>1, <1>6, <1>7, <1>8, <2>1
<1>9. CASE in.a \in Qubits /\ \A w : Gate(w, in) = S(w, in.a)
  <2>1. S(u, in.a) = [x |-> u.x, z |-> XorBit(u.z, in.a, Bit(u.x, in.a)),
                      r |-> (u.r + Bit(u.x \cap u.z, in.a)) % 2]
    <3> DEFINE f == Flip(u, Bit(u.x \cap u.z, in.a))
    <3>1. S(u, in.a) = [f EXCEPT !.z = XorBit(u.z, in.a, Bit(u.x, in.a))]
      BY DEF S
    <3>2. f = [x |-> u.x, z |-> u.z, r |-> (u.r + Bit(u.x \cap u.z, in.a)) % 2]
      BY <1>7
    <3> HIDE DEF f
    <3> QED BY <3>1, <3>2
  <2> QED BY <1>1, <1>5, <1>6, <1>7, <1>9, <2>1
<1>10. CASE in.a \in Qubits /\ \A w : Gate(w, in) = Sdg(w, in.a)
  <2>1. Sdg(u, in.a) = [x |-> u.x, z |-> XorBit(u.z, in.a, Bit(u.x, in.a)),
                        r |-> (u.r + Bit(u.x \ u.z, in.a)) % 2]
    <3> DEFINE f == Flip(u, Bit(u.x \ u.z, in.a))
    <3>1. Sdg(u, in.a) = [f EXCEPT !.z = XorBit(u.z, in.a, Bit(u.x, in.a))]
      BY DEF Sdg
    <3>2. f = [x |-> u.x, z |-> u.z, r |-> (u.r + Bit(u.x \ u.z, in.a)) % 2]
      BY <1>7
    <3> HIDE DEF f
    <3> QED BY <3>1, <3>2
  <2> QED BY <1>1, <1>5, <1>6, <1>7, <1>10, <2>1
<1>11. CASE in.a \in Qubits /\ \A w : Gate(w, in) = Px(w, in.a)
  BY <1>1, <1>6, <1>7, <1>11 DEF Px
<1>12. CASE in.a \in Qubits /\ \A w : Gate(w, in) = Pz(w, in.a)
  BY <1>1, <1>6, <1>7, <1>12 DEF Pz
<1>13. CASE /\ in.a \in Qubits /\ in.b \in Qubits /\ in.a # in.b
            /\ \A w : Gate(w, in) = Cnot(w, in.a, in.b)
  <2>1. Cnot(u, in.a, in.b) = [x |-> XorBit(u.x, in.b, Bit(u.x, in.a)),
                               z |-> XorBit(u.z, in.a, Bit(u.z, in.b)), r |-> u.r]
    BY DEF Cnot, Row
  <2> QED BY <1>1, <1>5, <1>6, <1>13, <2>1
<1> QED BY <1>8, <1>9, <1>10, <1>11, <1>12, <1>13, GateCases

LEMMA GateAnti == \A in \in Instrs, u, v \in RowSet : Anti(Gate(u, in), Gate(v, in)) = Anti(u, v)
<1> SUFFICES ASSUME NEW in \in Instrs, NEW u \in RowSet, NEW v \in RowSet
             PROVE  Anti(Gate(u, in), Gate(v, in)) = Anti(u, v)
  OBVIOUS
<1>1. IsFiniteSet(u.x) /\ IsFiniteSet(u.z) /\ IsFiniteSet(v.x) /\ IsFiniteSet(v.z)
  BY QubitsFinite DEF RowSet
<1>2. \A a : Anti(H(u, a), H(v, a)) = Anti(u, v)
  BY <1>1, HAnti
<1>3. \A s, t, a : (/\ s.x = u.x /\ s.z = XorBit(u.z, a, Bit(u.x, a))
                    /\ t.x = v.x /\ t.z = XorBit(v.z, a, Bit(v.x, a))) => Anti(s, t) = Anti(u, v)
  <2> SUFFICES ASSUME NEW s, NEW t, NEW a,
                      s.x = u.x, s.z = XorBit(u.z, a, Bit(u.x, a)),
                      t.x = v.x, t.z = XorBit(v.z, a, Bit(v.x, a))
               PROVE  Anti(s, t) = Anti(u, v)
    OBVIOUS
  <2> QED BY <1>1, SAnti
<1>4. \A c, t : c # t => Anti(Cnot(u, c, t), Cnot(v, c, t)) = Anti(u, v)
  BY <1>1, CnotAnti
<1>5. \A a : Anti(S(u, a), S(v, a)) = Anti(u, v) /\ Anti(Sdg(u, a), Sdg(v, a)) = Anti(u, v)
  BY <1>3, GateFields
<1>6. \A a : Anti(Px(u, a), Px(v, a)) = Anti(u, v) /\ Anti(Pz(u, a), Pz(v, a)) = Anti(u, v)
  BY GateFields DEF Anti
<1> QED BY <1>2, <1>4, <1>5, <1>6, GateCases

LEMMA GateTwice ==
  \A in \in Instrs, u \in RowSet : /\ Gate(Gate(u, in), in).x = u.x
                                   /\ Gate(Gate(u, in), in).z = u.z
<1> SUFFICES ASSUME NEW in \in Instrs, NEW u \in RowSet
             PROVE  Gate(Gate(u, in), in).x = u.x /\ Gate(Gate(u, in), in).z = u.z
  OBVIOUS
<1>1. \A a : H(H(u, a), a).x = u.x /\ H(H(u, a), a).z = u.z
  <2> SUFFICES ASSUME NEW a PROVE H(H(u, a), a).x = u.x /\ H(H(u, a), a).z = u.z
    OBVIOUS
  <2> DEFINE w == H(u, a)
  <2>1. w.x = (u.x \ {a}) \cup (u.z \cap {a}) /\ w.z = (u.z \ {a}) \cup (u.x \cap {a})
    BY GateFields
  <2>2. H(w, a).x = (w.x \ {a}) \cup (w.z \cap {a}) /\ H(w, a).z = (w.z \ {a}) \cup (w.x \cap {a})
    BY GateFields
  <2> HIDE DEF w
  <2>3. H(w, a).x = u.x /\ H(w, a).z = u.z
    BY <2>1, <2>2
  <2> QED BY <2>3 DEF w
<1>2. \A A, a, b : XorBit(XorBit(A, a, b), a, b) = A
  BY DEF XorBit, SymDiff
<1>3. \A a : /\ S(S(u, a), a).x = u.x /\ S(S(u, a), a).z = u.z
             /\ Sdg(Sdg(u, a), a).x = u.x /\ Sdg(Sdg(u, a), a).z = u.z
  BY <1>2, GateFields
<1>4. \A a : /\ Px(Px(u, a), a).x = u.x /\ Px(Px(u, a), a).z = u.z
             /\ Pz(Pz(u, a), a).x = u.x /\ Pz(Pz(u, a), a).z = u.z
  BY GateFields
<1>5. ASSUME NEW c, NEW t, c # t
      PROVE  Cnot(Cnot(u, c, t), c, t).x = u.x /\ Cnot(Cnot(u, c, t), c, t).z = u.z
  <2>1. \A A, b : Bit(XorBit(A, t, b), c) = Bit(A, c) /\ Bit(XorBit(A, c, b), t) = Bit(A, t)
    BY <1>5 DEF XorBit, SymDiff, Bit
  <2> DEFINE w == Cnot(u, c, t)
  <2>2. w.x = XorBit(u.x, t, Bit(u.x, c)) /\ w.z = XorBit(u.z, c, Bit(u.z, t))
    BY GateFields
  <2>3. Cnot(w, c, t).x = XorBit(w.x, t, Bit(w.x, c)) /\ Cnot(w, c, t).z = XorBit(w.z, c, Bit(w.z, t))
    BY GateFields
  <2> HIDE DEF w
  <2>4. Bit(w.x, c) = Bit(u.x, c) /\ Bit(w.z, t) = Bit(u.z, t)
    BY <2>1, <2>2
  <2>5. Cnot(w, c, t).x = u.x /\ Cnot(w, c, t).z = u.z
    BY <1>2, <2>2, <2>3, <2>4
  <2> QED BY <2>5 DEF w
<1> QED BY <1>1, <1>3, <1>4, <1>5, GateCases

LEMMA GateBlank == \A in \in Instrs, u \in RowSet : Blank(u) => Blank(Gate(u, in))
<1> SUFFICES ASSUME NEW in \in Instrs, NEW u \in RowSet, u.x = {}, u.z = {}
             PROVE  Gate(u, in).x = {} /\ Gate(u, in).z = {}
  BY DEF Blank
<1>1. \A a : H(u, a).x = {} /\ H(u, a).z = {}
  <2>1. \A a : ({} \ {a}) \cup ({} \cap {a}) = {}
    OBVIOUS
  <2> QED BY <2>1, GateFields
<1>2. \A a, b : XorBit(u.z, a, Bit(u.x, b)) = {} /\ XorBit(u.x, a, Bit(u.z, b)) = {}
  BY DEF XorBit, Bit
<1>3. \A a, b : XorBit(u.z, a, Bit(u.z, b)) = {} /\ XorBit(u.x, a, Bit(u.x, b)) = {}
  BY DEF XorBit, Bit
<1>4. \A a : S(u, a).x = {} /\ S(u, a).z = {} /\ Sdg(u, a).x = {} /\ Sdg(u, a).z = {}
  <2> SUFFICES ASSUME NEW a PROVE S(u, a).x = {} /\ S(u, a).z = {} /\ Sdg(u, a).x = {} /\ Sdg(u, a).z = {}
    OBVIOUS
  <2>1. /\ S(u, a).x = u.x /\ S(u, a).z = XorBit(u.z, a, Bit(u.x, a))
        /\ Sdg(u, a).x = u.x /\ Sdg(u, a).z = XorBit(u.z, a, Bit(u.x, a))
    BY DEF S, Sdg, Flip
  <2>2. XorBit(u.z, a, Bit(u.x, a)) = {}
    BY <1>2
  <2> QED BY <2>1, <2>2
<1>5. \A a : Px(u, a).x = {} /\ Px(u, a).z = {} /\ Pz(u, a).x = {} /\ Pz(u, a).z = {}
  BY GateFields
<1>6. \A c, t : Cnot(u, c, t).x = {} /\ Cnot(u, c, t).z = {}
  <2> SUFFICES ASSUME NEW c, NEW t PROVE Cnot(u, c, t).x = {} /\ Cnot(u, c, t).z = {}
    OBVIOUS
  <2>1. /\ Cnot(u, c, t).x = XorBit(u.x, t, Bit(u.x, c))
        /\ Cnot(u, c, t).z = XorBit(u.z, c, Bit(u.z, t))
    BY DEF Cnot, Row
  <2>2. XorBit(u.x, t, Bit(u.x, c)) = {} /\ XorBit(u.z, c, Bit(u.z, t)) = {}
    BY <1>3
  <2> QED BY <2>1, <2>2
<1> QED BY <1>1, <1>4, <1>5, <1>6, GateCases

(* Behind a gate, the images of the partners are partners. *)
LEMMA GatePartners ==
  ASSUME NEW rs \in [Lines -> RowSet], NEW d, Partners(rs, d), NEW in \in Instrs
  PROVE  /\ Apply(rs, in) \in [Lines -> RowSet]
         /\ Partners(Apply(rs, in), [i \in Lines |-> Gate(d[i], in)])
<1> DEFINE ra == Apply(rs, in)
           da == [i \in Lines |-> Gate(d[i], in)]
<1>1. d \in [Lines -> RowSet]
  BY DEF Partners
<1>2. \A i \in Lines : ra[i] = Gate(rs[i], in) /\ da[i] = Gate(d[i], in)
  BY DEF Apply
<1>3. ra \in [Lines -> RowSet] /\ da \in [Lines -> RowSet]
  BY <1>1, GateTypes DEF Apply
<1> HIDE DEF ra, da
<1>4. \A i, j \in Lines : Anti(ra[i], ra[j]) = 0 /\ Anti(da[i], ra[j]) = IF i = j THEN 1 ELSE 0
  BY <1>1, <1>2, GateAnti DEF Partners
<1>5. ASSUME NEW w \in RowSet, \A i \in Lines : Anti(w, ra[i]) = 0 /\ Anti(w, da[i]) = 0
      PROVE  Blank(w)
  <2> DEFINE v == Gate(w, in)
             y == Gate(v, in)
  <2>1. v \in RowSet /\ y.x = w.x /\ y.z = w.z /\ y \in RowSet
    BY GateTypes, GateTwice
  <2>2. ASSUME NEW u \in RowSet, Anti(w, Gate(u, in)) = 0 PROVE Anti(v, u) = 0
    <3>1. Anti(y, Gate(u, in)) = Anti(v, u)
      BY <2>1, GateAnti
    <3>2. Anti(y, Gate(u, in)) = Anti(w, Gate(u, in))
      BY <2>1 DEF Anti
    <3> QED BY <2>2, <3>1, <3>2
  <2> HIDE DEF v
  <2>3. \A i \in Lines : Anti(v, rs[i]) = 0 /\ Anti(v, d[i]) = 0
    BY <1>1, <1>2, <1>5, <2>2
  <2>4. Blank(v)
    BY <2>1, <2>3 DEF Partners
  <2>5. Blank(y)
    BY <2>1, <2>4, GateBlank
  <2> QED BY <2>1, <2>5 DEF Blank
<1>6. Partners(ra, da)
  BY <1>3, <1>4, <1>5 DEF Partners
<1> QED BY <1>3, <1>6 DEF ra, da

-----------------------------------------------------------------------------
(* The first rows, and the random branch. *)

LEMMA PauliRows ==
  \A q \in Qubits, o \in {0, 1} :
     /\ Row({}, {q}, o) \in RowSet /\ Row({q}, {}, o) \in RowSet
     /\ \A v \in RowSet : /\ Anti(Row({}, {q}, o), v) = Bit(v.x, q)
                          /\ Anti(v, Row({}, {q}, o)) = Bit(v.x, q)
                          /\ Anti(Row({q}, {}, o), v) = Bit(v.z, q)
                          /\ Anti(v, Row({q}, {}, o)) = Bit(v.z, q)
<1> SUFFICES ASSUME NEW q \in Qubits, NEW o \in {0, 1}
             PROVE  /\ Row({}, {q}, o) \in RowSet /\ Row({q}, {}, o) \in RowSet
                    /\ \A v \in RowSet : /\ Anti(Row({}, {q}, o), v) = Bit(v.x, q)
                                         /\ Anti(v, Row({}, {q}, o)) = Bit(v.x, q)
                                         /\ Anti(Row({q}, {}, o), v) = Bit(v.z, q)
                                         /\ Anti(v, Row({q}, {}, o)) = Bit(v.z, q)
  OBVIOUS
<1>1. Row({}, {q}, o) \in RowSet /\ Row({q}, {}, o) \in RowSet
  BY DEF Row, RowSet
<1>2. \A A : Par({} \cap A) = 0 /\ Par({q} \cap A) = Bit(A, q)
  <2> SUFFICES ASSUME NEW A PROVE Par({} \cap A) = 0 /\ Par({q} \cap A) = Bit(A, q)
    OBVIOUS
  <2>1. {} \cap A = {}
    OBVIOUS
  <2>2. CASE q \in A
    <3>1. {q} \cap A = {q}
      BY <2>2
    <3> QED BY <2>1, <2>2, <3>1, ParSmall DEF Bit
  <2>3. CASE q \notin A
    <3>1. {q} \cap A = {}
      BY <2>3
    <3> QED BY <2>1, <2>3, <3>1, ParSmall DEF Bit
  <2> QED BY <2>2, <2>3
<1>3. \A A : (0 + Bit(A, q)) % 2 = Bit(A, q) /\ (Bit(A, q) + 0) % 2 = Bit(A, q)
  BY DEF Bit
<1>4. ASSUME NEW v \in RowSet
      PROVE  /\ Anti(Row({}, {q}, o), v) = Bit(v.x, q)
             /\ Anti(Row({q}, {}, o), v) = Bit(v.z, q)
  <2>1. /\ Row({}, {q}, o).x = {} /\ Row({}, {q}, o).z = {q}
        /\ Row({q}, {}, o).x = {q} /\ Row({q}, {}, o).z = {}
    BY DEF Row
  <2>2. /\ Par({} \cap v.z) = 0 /\ Par({q} \cap v.x) = Bit(v.x, q)
        /\ Par({q} \cap v.z) = Bit(v.z, q) /\ Par({} \cap v.x) = 0
    BY <1>2
  <2>3. /\ Anti(Row({}, {q}, o), v) = (Par({} \cap v.z) + Par({q} \cap v.x)) % 2
        /\ Anti(Row({q}, {}, o), v) = (Par({q} \cap v.z) + Par({} \cap v.x)) % 2
    BY <2>1 DEF Anti
  <2>4. /\ Anti(Row({}, {q}, o), v) = (0 + Bit(v.x, q)) % 2
        /\ Anti(Row({q}, {}, o), v) = (Bit(v.z, q) + 0) % 2
    BY <2>2, <2>3
  <2> QED BY <1>3, <2>4
<1> QED BY <1>1, <1>4, AntiSym

LEMMA ZerosPartners ==
  Zeros(NumQubits) \in [Lines -> RowSet] /\ \E d : Partners(Zeros(NumQubits), d)
<1> DEFINE rs == Zeros(NumQubits)
           d  == [i \in Lines |-> Row({i - 1}, {}, 0)]
<1>1. \A i \in Lines : i - 1 \in Qubits /\ \A j \in Lines : i - 1 = j - 1 <=> i = j
  BY StabilizerAssumption DEF Lines, Qubits
<1>2. \A i \in Lines : rs[i] = Row({}, {i - 1}, 0) /\ d[i] = Row({i - 1}, {}, 0)
  BY DEF Zeros, Lines
<1>3. rs \in [Lines -> RowSet]
  <2>1. rs = [i \in Lines |-> Row({}, {i - 1}, 0)]
    BY DEF Zeros, Lines
  <2> QED BY <1>1, <2>1, PauliRows
<1>4. d \in [Lines -> RowSet]
  BY <1>1, PauliRows
<1> HIDE DEF d, rs
<1>5. \A i, j \in Lines : /\ Anti(rs[i], rs[j]) = Bit({}, i - 1)
                          /\ Anti(d[i], rs[j]) = Bit({j - 1}, i - 1)
  <2> SUFFICES ASSUME NEW i \in Lines, NEW j \in Lines
               PROVE  /\ Anti(rs[i], rs[j]) = Bit({}, i - 1)
                      /\ Anti(d[i], rs[j]) = Bit({j - 1}, i - 1)
    OBVIOUS
  <2>1. rs[j] \in RowSet /\ rs[j].x = {} /\ rs[j].z = {j - 1}
    <3>1. rs[j] = [x |-> {}, z |-> {j - 1}, r |-> 0]
      BY <1>2 DEF Row
    <3> QED BY <1>3, <3>1
  <2>2. Anti(rs[i], rs[j]) = Bit(rs[j].x, i - 1) /\ Anti(d[i], rs[j]) = Bit(rs[j].z, i - 1)
    <3> DEFINE q == i - 1
               v == rs[j]
    <3>1. q \in Qubits /\ v \in RowSet /\ rs[i] = Row({}, {q}, 0) /\ d[i] = Row({q}, {}, 0)
      BY <1>1, <1>2, <2>1
    <3> HIDE DEF q, v
    <3>2. Anti(Row({}, {q}, 0), v) = Bit(v.x, q) /\ Anti(Row({q}, {}, 0), v) = Bit(v.z, q)
      BY <3>1, PauliRows
    <3> QED BY <3>1, <3>2 DEF q, v
  <2> QED BY <2>1, <2>2
<1>6. \A i, j \in Lines : Anti(rs[i], rs[j]) = 0 /\ Anti(d[i], rs[j]) = IF i = j THEN 1 ELSE 0
  BY <1>1, <1>5 DEF Bit
<1>7. ASSUME NEW w \in RowSet, \A i \in Lines : Anti(w, rs[i]) = 0 /\ Anti(w, d[i]) = 0
      PROVE  Blank(w)
  <2>1. w.x \subseteq Qubits /\ w.z \subseteq Qubits
    BY DEF RowSet
  <2>2. \A i \in Lines : Bit(w.x, i - 1) = 0 /\ Bit(w.z, i - 1) = 0
    <3> SUFFICES ASSUME NEW i \in Lines PROVE Bit(w.x, i - 1) = 0 /\ Bit(w.z, i - 1) = 0
      OBVIOUS
    <3> DEFINE q == i - 1
    <3>1. /\ q \in Qubits /\ rs[i] = Row({}, {q}, 0) /\ d[i] = Row({q}, {}, 0)
          /\ Anti(w, rs[i]) = 0 /\ Anti(w, d[i]) = 0
      BY <1>1, <1>2, <1>7
    <3> HIDE DEF q
    <3>2. Anti(w, Row({}, {q}, 0)) = Bit(w.x, q) /\ Anti(w, Row({q}, {}, 0)) = Bit(w.z, q)
      BY <3>1, PauliRows
    <3> QED BY <3>1, <3>2 DEF q
  <2>3. \A q \in Qubits : q + 1 \in Lines /\ (q + 1) - 1 = q
    BY StabilizerAssumption DEF Lines, Qubits
  <2>4. \A q \in Qubits : q \notin w.x /\ q \notin w.z
    BY <2>2, <2>3 DEF Bit
  <2> QED BY <2>1, <2>4 DEF Blank
<1>8. Partners(rs, d)
  BY <1>4, <1>6, <1>7 DEF Partners
<1> QED BY <1>3, <1>8 DEF rs

LEMMA InitPartners == Init => StabilizerIInv
BY ZerosPartners DEF StabilizerIInv, Init

(* The random branch with the row p taken, which anticommutes with Z of q. *)
Taking(p, rs, rc, q, o) ==
  /\ q \in rs[p].x
  /\ \A i \in Lines : rc[i] = IF i = p THEN Row({}, {q}, o)
                              ELSE IF q \in rs[i].x THEN XorRow(rs[i], rs[p]) ELSE rs[i]

LEMMA CollapsePivot ==
  ASSUME NEW rs \in [Lines -> RowSet], NEW q, HasRandomBit(rs, q),
         NEW o, Row({}, {q}, o) \in RowSet
  PROVE  /\ Collapse(rs, q, o) \in [Lines -> RowSet]
         /\ \E p \in Lines : Taking(p, rs, Collapse(rs, q, o), q, o)
<1> DEFINE T == {i \in DOMAIN rs : q \in rs[i].x}
           p == Min(T)
<1>1. DOMAIN rs = Lines /\ T \subseteq Lines /\ T \subseteq Nat /\ T # {}
  BY DEF HasRandomBit, Lines
<1>2. p \in T
  <2> HIDE DEF T
  <2> QED BY <1>1, LeastExists DEF Min
<1>3. Collapse(rs, q, o) = [i \in DOMAIN rs |->
          IF i = p THEN Row({}, {q}, o)
          ELSE IF q \in rs[i].x THEN XorRow(rs[i], rs[p]) ELSE rs[i]]
  BY DEF Collapse
<1>4. q \in rs[p].x /\ p \in Lines
  BY <1>1, <1>2
<1> HIDE DEF p, T
<1> DEFINE row(i) == IF i = p THEN Row({}, {q}, o)
                     ELSE IF q \in rs[i].x THEN XorRow(rs[i], rs[p]) ELSE rs[i]
<1>5. \A i \in Lines : row(i) \in RowSet
  BY <1>4, XorTypes
<1>6. Collapse(rs, q, o) = [i \in Lines |-> row(i)]
  BY <1>1, <1>3
<1> HIDE DEF row
<1>7. Collapse(rs, q, o) \in [Lines -> RowSet] /\ \A i \in Lines : Collapse(rs, q, o)[i] = row(i)
  BY <1>5, <1>6
<1> QED BY <1>4, <1>7 DEF row, Taking

(* Behind the random branch the row that left is the partner of Z. *)
LEMMA CollapsePartners ==
  ASSUME NEW rs \in [Lines -> RowSet], NEW d, Partners(rs, d),
         NEW q \in Qubits, HasRandomBit(rs, q), NEW o \in {0, 1}
  PROVE  /\ Collapse(rs, q, o) \in [Lines -> RowSet]
         /\ \E dc : Partners(Collapse(rs, q, o), dc)
         /\ ~ HasRandomBit(Collapse(rs, q, o), q)
         /\ \E i \in Lines : Collapse(rs, q, o)[i] = Row({}, {q}, o)
<1>1. PICK p \in Lines : Taking(p, rs, Collapse(rs, q, o), q, o)
  <2>1. Row({}, {q}, o) \in RowSet
    BY PauliRows
  <2> QED BY <2>1, CollapsePivot
<1> DEFINE z  == Row({}, {q}, o)
           y  == rs[p]
           rc == Collapse(rs, q, o)
           dc == [i \in Lines |-> IF i = p THEN y ELSE IF q \in d[i].x THEN XorRow(d[i], y) ELSE d[i]]
<1>2. /\ d \in [Lines -> RowSet] /\ \A i \in Lines : rs[i] \in RowSet /\ d[i] \in RowSet
      /\ y \in RowSet /\ z \in RowSet
  BY PauliRows DEF Partners
<1>3. \A i \in Lines : rc[i] = IF i = p THEN z ELSE IF q \in rs[i].x THEN XorRow(rs[i], y) ELSE rs[i]
  BY <1>1 DEF Taking
<1>4. \A i \in Lines : dc[i] = IF i = p THEN y ELSE IF q \in d[i].x THEN XorRow(d[i], y) ELSE d[i]
  OBVIOUS
<1>5. rc \in [Lines -> RowSet]
  BY <1>2, CollapsePivot
<1>6. dc \in [Lines -> RowSet]
  BY <1>2, XorTypes
<1>7. \A v \in RowSet : /\ Anti(z, v) = Bit(v.x, q) /\ Anti(v, z) = Bit(v.x, q)
  BY PauliRows
<1>8. /\ \A i \in Lines : Anti(y, rs[i]) = 0 /\ Anti(rs[i], y) = 0
      /\ \A i \in Lines : Anti(d[i], y) = IF i = p THEN 1 ELSE 0
      /\ \A i \in Lines : Anti(y, d[i]) = IF i = p THEN 1 ELSE 0
      /\ Anti(y, y) = 0
  BY <1>2, AntiSym DEF Partners
<1>9. \A u, v \in RowSet : (q \in XorRow(u, v).x) <=> (q \in u.x <=> q \notin v.x)
  BY XorFields DEF SymDiff
<1>10. q \in y.x /\ q \notin z.x
  BY <1>1 DEF Row, Taking
<1> HIDE DEF z, y, rc, dc
<1>11. \A i \in Lines : q \notin rc[i].x
  BY <1>2, <1>3, <1>9, <1>10
<1>12. \A i \in Lines : i # p => q \notin dc[i].x
  BY <1>2, <1>4, <1>9, <1>10
<1>13. \A a, b \in {0, 1} : a = 0 /\ b = 0 => (a + b) % 2 = 0
  OBVIOUS
<1>14. \A a, b \in {0, 1} : b = 0 => (a + b) % 2 = a
  OBVIOUS
(* A row keeps to a side of the taken row, whose XOR changes nothing else. *)
<1>15. ASSUME NEW u \in RowSet, Anti(u, y) = 0, NEW i \in Lines, i # p
       PROVE  Anti(u, rc[i]) = Anti(u, rs[i])
  <2>1. CASE q \in rs[i].x
    <3>1. rc[i] = XorRow(rs[i], y)
      BY <1>3, <1>15, <2>1
    <3>2. Anti(u, rc[i]) = (Anti(u, rs[i]) + Anti(u, y)) % 2
      BY <1>2, <3>1, AntiSum
    <3> QED BY <1>2, <1>14, <1>15, <3>2, AntiTypes
  <2>2. CASE q \notin rs[i].x
    BY <1>3, <1>15, <2>2
  <2> QED BY <2>1, <2>2
<1>16. ASSUME NEW u \in RowSet, Anti(u, y) = 0, NEW i \in Lines, i # p
       PROVE  Anti(u, dc[i]) = Anti(u, d[i])
  <2>1. CASE q \in d[i].x
    <3>1. dc[i] = XorRow(d[i], y)
      BY <1>4, <1>16, <2>1
    <3>2. Anti(u, dc[i]) = (Anti(u, d[i]) + Anti(u, y)) % 2
      BY <1>2, <3>1, AntiSum
    <3> QED BY <1>2, <1>14, <1>16, <3>2, AntiTypes
  <2>2. CASE q \notin d[i].x
    BY <1>4, <1>16, <2>2
  <2> QED BY <2>1, <2>2
<1>17. \A i \in Lines : i # p => Anti(rc[i], y) = 0
  <2> SUFFICES ASSUME NEW i \in Lines, i # p PROVE Anti(rc[i], y) = 0
    OBVIOUS
  <2>1. Anti(y, rc[i]) = Anti(y, rs[i]) /\ rc[i] \in RowSet
    BY <1>2, <1>5, <1>8, <1>15
  <2> QED BY <1>2, <1>8, <2>1, AntiSym
<1>18. \A i, j \in Lines : Anti(rc[i], rc[j]) = 0
  <2> SUFFICES ASSUME NEW i \in Lines, NEW j \in Lines PROVE Anti(rc[i], rc[j]) = 0
    OBVIOUS
  <2>1. \A k \in Lines : rc[k] \in RowSet
    BY <1>5
  <2>2. CASE i = p
    BY <1>3, <1>7, <1>11, <2>1, <2>2 DEF Bit
  <2>3. CASE j = p
    BY <1>3, <1>7, <1>11, <2>1, <2>3 DEF Bit
  <2>4. CASE i # p /\ j # p
    <3>1. Anti(rc[i], rc[j]) = Anti(rc[i], rs[j])
      BY <1>15, <1>17, <2>1, <2>4
    <3>2. Anti(rs[j], rc[i]) = Anti(rs[j], rs[i])
      BY <1>2, <1>8, <1>15, <2>4
    <3> QED BY <1>2, <2>1, <3>1, <3>2, AntiSym DEF Partners
  <2> QED BY <2>2, <2>3, <2>4
<1>19. \A i, j \in Lines : Anti(dc[i], rc[j]) = IF i = j THEN 1 ELSE 0
  <2> SUFFICES ASSUME NEW i \in Lines, NEW j \in Lines
               PROVE  Anti(dc[i], rc[j]) = IF i = j THEN 1 ELSE 0
    OBVIOUS
  <2>1. \A k \in Lines : rc[k] \in RowSet /\ dc[k] \in RowSet
    BY <1>5, <1>6
  <2>2. CASE i = p /\ j = p
    BY <1>2, <1>3, <1>4, <1>7, <1>10, <2>2 DEF Bit
  <2>3. CASE i = p /\ j # p
    <3>1. Anti(y, rc[j]) = 0
      BY <1>2, <1>17, <2>1, <2>3, AntiSym
    <3> QED BY <1>4, <2>3, <3>1
  <2>4. CASE i # p /\ j = p
    <3>1. Anti(dc[i], z) = Bit(dc[i].x, q)
      BY <1>7, <2>1
    <3> QED BY <1>3, <1>12, <2>4, <3>1 DEF Bit
  <2>5. CASE i # p /\ j # p
    <3>1. Anti(rc[j], dc[i]) = Anti(rc[j], d[i])
      BY <1>16, <1>17, <2>1, <2>5
    <3>2. Anti(d[i], rc[j]) = Anti(d[i], rs[j])
      BY <1>2, <1>8, <1>15, <2>5
    <3> QED BY <1>2, <2>1, <2>5, <3>1, <3>2, AntiSym DEF Partners
  <2> QED BY <2>2, <2>3, <2>4, <2>5
<1>20. ASSUME NEW w \in RowSet, \A i \in Lines : Anti(w, rc[i]) = 0 /\ Anti(w, dc[i]) = 0
       PROVE  Blank(w)
  <2>1. Anti(w, y) = 0 /\ Anti(w, z) = 0
    BY <1>3, <1>4, <1>20
  <2>2. \A i \in Lines : i # p => Anti(w, rs[i]) = 0 /\ Anti(w, d[i]) = 0
    BY <1>15, <1>16, <1>20, <2>1
  <2>3. \A i \in Lines : Anti(w, rs[i]) = 0
    BY <2>1, <2>2 DEF y
  <2>4. ASSUME Anti(w, d[p]) # 0 PROVE FALSE
    <3>1. Anti(w, d[p]) = 1
      BY <1>2, <2>4, AntiTypes
    <3> DEFINE v == XorRow(w, y)
    <3>2. v \in RowSet
      BY <1>2, XorTypes
    <3>3. \A u \in RowSet : Anti(v, u) = (Anti(w, u) + Anti(y, u)) % 2
      BY <1>2, AntiSum
    <3>4. (0 + 0) % 2 = 0 /\ (1 + 1) % 2 = 0
      OBVIOUS
    <3>5. q \in v.x <=> q \notin w.x
      BY <1>2, <1>9, <1>10
    <3> HIDE DEF v
    <3>6. \A i \in Lines : Anti(v, rs[i]) = 0
      BY <1>2, <1>8, <2>3, <3>3, <3>4
    <3>7. \A i \in Lines : Anti(v, d[i]) = 0
      BY <1>2, <1>8, <2>2, <3>1, <3>3, <3>4
    <3>8. Blank(v)
      BY <3>2, <3>6, <3>7 DEF Partners
    <3>9. q \in w.x
      BY <3>5, <3>8 DEF Blank
    <3> QED BY <1>7, <2>1, <3>9 DEF Bit
  <2> QED BY <2>2, <2>3, <2>4 DEF Partners
<1>21. Partners(rc, dc)
  BY <1>6, <1>18, <1>19, <1>20 DEF Partners
<1>22. DOMAIN rc = Lines
  BY <1>5
<1> QED BY <1>3, <1>5, <1>11, <1>21, <1>22 DEF rc, z, HasRandomBit

-----------------------------------------------------------------------------
(* Sets of rows closed under XOR. *)

Closed(K)      == K \subseteq RowSet /\ \A u, v \in K : XorRow(u, v) \in K
HasRows(K, rs) == \A i \in Lines : rs[i] \in K

(* The rows lie in a closed set that has no row of a sign alone: no product *)
(* of rows has both signs.                                                  *)
LEMMA SignsAgree ==
  ASSUME NEW rs \in [Lines -> RowSet], NEW d, Partners(rs, d)
  PROVE  \E K : Closed(K) /\ HasRows(K, rs) /\ Row({}, {}, 1) \notin K
<1> DEFINE I(v) == {i \in Lines : rs[i].r = 1 /\ Anti(d[i], v) = 1}
           K    == {v \in RowSet : v.r = Par(I(v))}
<1>1. \A i \in Lines : d[i] \in RowSet /\ rs[i] \in RowSet
  BY DEF Partners
<1>2. \A v : IsFiniteSet(I(v))
  <2>1. IsFiniteSet(Lines)
    BY StabilizerAssumption, FS_Interval DEF Lines
  <2>2. \A v : I(v) \subseteq Lines
    OBVIOUS
  <2> HIDE DEF I
  <2> QED BY <2>1, <2>2, FS_Subset
<1>3. ASSUME NEW u \in RowSet, NEW v \in RowSet
      PROVE  I(XorRow(u, v)) = SymDiff(I(u), I(v))
  <2>1. ASSUME NEW i \in Lines
        PROVE  Anti(d[i], XorRow(u, v)) = 1 <=> (Anti(d[i], u) = 1 <=> Anti(d[i], v) # 1)
    <3>1. Anti(d[i], XorRow(u, v)) = (Anti(d[i], u) + Anti(d[i], v)) % 2
      BY <1>1, AntiSum
    <3>2. Anti(d[i], u) \in {0, 1} /\ Anti(d[i], v) \in {0, 1}
      BY <1>1, AntiTypes
    <3>3. \A a, b \in {0, 1} : (a + b) % 2 = 1 <=> (a = 1 <=> b # 1)
      OBVIOUS
    <3> QED BY <3>1, <3>2, <3>3
  <2> QED BY <2>1 DEF SymDiff
<1> HIDE DEF I
<1>4. Closed(K)
  <2>1. ASSUME NEW u \in K, NEW v \in K PROVE XorRow(u, v) \in K
    <3>1. u \in RowSet /\ v \in RowSet /\ u.r = Par(I(u)) /\ v.r = Par(I(v))
      OBVIOUS
    <3>2. Par(SymDiff(I(u), I(v))) = (Par(I(u)) + Par(I(v))) % 2
      BY <1>2, ParSum
    <3>3. XorRow(u, v).r = Par(I(XorRow(u, v)))
      BY <1>3, <3>1, <3>2, XorFields
    <3> QED BY <3>1, <3>3, XorTypes
  <2> QED BY <2>1 DEF Closed
<1>5. HasRows(K, rs)
  <2>1. ASSUME NEW j \in Lines PROVE rs[j].r = Par(I(rs[j]))
    <3>1. \A i \in Lines : Anti(d[i], rs[j]) = IF i = j THEN 1 ELSE 0
      BY DEF Partners
    <3>2. rs[j].r \in {0, 1}
      BY <1>1 DEF RowSet
    <3>3. CASE rs[j].r = 1
      <4>1. I(rs[j]) = {j}
        BY <3>1, <3>3 DEF I
      <4> QED BY <3>3, <4>1, ParSmall
    <3>4. CASE rs[j].r = 0
      <4>1. I(rs[j]) = {}
        BY <3>1, <3>4 DEF I
      <4> QED BY <3>4, <4>1, ParSmall
    <3> QED BY <3>2, <3>3, <3>4
  <2> QED BY <1>1, <2>1 DEF HasRows
<1>6. Row({}, {}, 1) \notin K
  <2>1. Row({}, {}, 1) \in RowSet /\ Blank(Row({}, {}, 1)) /\ Row({}, {}, 1).r = 1
    BY DEF Row, RowSet, Blank
  <2>2. I(Row({}, {}, 1)) = {}
    BY <1>1, <2>1, AntiBlank DEF I
  <2> QED BY <2>1, <2>2, ParSmall
<1> HIDE DEF K
<1> QED BY <1>4, <1>5, <1>6

(* What commutes with every row is, up to its sign, a product of rows. *)
LEMMA CommutantIsSpanned ==
  ASSUME NEW rs \in [Lines -> RowSet], NEW d, Partners(rs, d),
         NEW K, Closed(K), HasRows(K, rs), Row({}, {}, 0) \in K, Row({}, {}, 1) \in K,
         NEW v \in RowSet, \A i \in Lines : Anti(v, rs[i]) = 0
  PROVE  v \in K
<1> DEFINE J == {k \in K : \A i \in Lines : Anti(k, rs[i]) = 0}
           T == {m \in 0 .. NumQubits : \E k \in J : \A i \in 1 .. m : Anti(XorRow(v, k), d[i]) = 0}
<1>1. /\ \A i \in Lines : d[i] \in RowSet /\ rs[i] \in RowSet /\ rs[i] \in J
      /\ J \subseteq K /\ J \subseteq RowSet
  BY DEF Partners, Closed, HasRows
<1>2. ASSUME NEW k \in J, NEW i \in Lines PROVE XorRow(k, rs[i]) \in J
  <2>1. XorRow(k, rs[i]) \in K
    BY <1>1 DEF Closed
  <2>2. \A j \in Lines : Anti(XorRow(k, rs[i]), rs[j]) = (Anti(k, rs[j]) + Anti(rs[i], rs[j])) % 2
    BY <1>1, AntiSum
  <2>3. (0 + 0) % 2 = 0
    OBVIOUS
  <2> QED BY <2>1, <2>2, <2>3 DEF Partners
<1>3. 0 \in T
  <2>1. Row({}, {}, 0) \in J
    <3>1. Row({}, {}, 0) \in RowSet /\ Blank(Row({}, {}, 0))
      BY DEF Row, RowSet, Blank
    <3> QED BY <1>1, <3>1, AntiBlank
  <2> HIDE DEF J
  <2> QED BY <2>1, StabilizerAssumption
<1>4. ASSUME NEW m \in 1 .. NumQubits, m - 1 \in T PROVE m \in T
  <2>1. PICK k \in J : \A i \in 1 .. m - 1 : Anti(XorRow(v, k), d[i]) = 0
    BY <1>4
  <2>2. m \in Lines /\ \A i \in 1 .. m : i \in Lines /\ (i = m \/ i \in 1 .. m - 1)
    BY StabilizerAssumption DEF Lines
  <2>3. k \in RowSet /\ XorRow(v, k) \in RowSet
    BY <1>1, XorTypes
  <2>4. CASE Anti(XorRow(v, k), d[m]) = 0
    <3>1. \A i \in 1 .. m : Anti(XorRow(v, k), d[i]) = 0
      BY <2>1, <2>2, <2>4
    <3> QED BY <3>1, StabilizerAssumption
  <2>5. CASE Anti(XorRow(v, k), d[m]) = 1
    <3>1. XorRow(v, XorRow(k, rs[m])) = XorRow(XorRow(v, k), rs[m])
      BY <1>1, <2>2, <2>3, XorLaws
    <3>2. \A i \in Lines : Anti(XorRow(v, XorRow(k, rs[m])), d[i])
                             = (Anti(XorRow(v, k), d[i]) + Anti(rs[m], d[i])) % 2
      BY <1>1, <2>2, <2>3, <3>1, AntiSum
    <3>3. \A i \in Lines : Anti(rs[m], d[i]) = IF i = m THEN 1 ELSE 0
      BY <1>1, <2>2, AntiSym DEF Partners
    <3>4. (0 + 0) % 2 = 0 /\ (1 + 1) % 2 = 0
      OBVIOUS
    <3>5. \A i \in 1 .. m : Anti(XorRow(v, XorRow(k, rs[m])), d[i]) = 0
      BY <2>1, <2>2, <2>5, <3>2, <3>3, <3>4
    <3>6. XorRow(k, rs[m]) \in J
      BY <1>2, <2>2
    <3> HIDE DEF J
    <3> QED BY <3>5, <3>6, StabilizerAssumption
  <2> QED BY <1>1, <2>2, <2>3, <2>4, <2>5, AntiTypes
<1>5. NumQubits \in T
  <2> HIDE DEF T
  <2>1. 0 .. NumQubits \subseteq T
    BY <1>3, <1>4, StabilizerAssumption, Upwards
  <2> QED BY <2>1, StabilizerAssumption
<1>6. PICK k \in J : \A i \in Lines : Anti(XorRow(v, k), d[i]) = 0
  BY <1>5 DEF Lines
<1>7. k \in RowSet /\ XorRow(v, k) \in RowSet
  BY <1>1, XorTypes
<1>8. \A i \in Lines : Anti(XorRow(v, k), rs[i]) = 0
  <2>1. \A i \in Lines : Anti(XorRow(v, k), rs[i]) = (Anti(v, rs[i]) + Anti(k, rs[i])) % 2
    BY <1>1, <1>7, AntiSum
  <2>2. (0 + 0) % 2 = 0
    OBVIOUS
  <2> QED BY <2>1, <2>2
<1>9. Blank(XorRow(v, k))
  BY <1>6, <1>7, <1>8 DEF Partners
<1>10. XorRow(v, k) \in K
  <2>1. \A w \in RowSet : Blank(w) => w = Row({}, {}, 0) \/ w = Row({}, {}, 1)
    BY DEF RowSet, Blank, Row
  <2> QED BY <1>7, <1>9, <2>1
<1>11. v = XorRow(XorRow(v, k), k)
  BY <1>7, XorLaws
<1> QED BY <1>1, <1>10, <1>11 DEF Closed

-----------------------------------------------------------------------------
(* What is computed column by column exists. *)
Computes(N, V, first) ==
  \A F \in [1 .. N -> [V -> V]] : \E g \in [0 .. N -> V] :
     g[0] = first /\ \A i \in 1 .. N : g[i] = F[i][g[i - 1]]

LEMMA Iterates == \A N \in Nat : \A V : \A first \in V : Computes(N, V, first)
<1> SUFFICES ASSUME NEW N \in Nat, NEW V, NEW first \in V, NEW F \in [1 .. N -> [V -> V]]
             PROVE  \E g \in [0 .. N -> V] :
                      g[0] = first /\ \A i \in 1 .. N : g[i] = F[i][g[i - 1]]
  BY DEF Computes
<1> DEFINE Q(k, g) == /\ g \in [0 .. k -> V]
                      /\ g[0] = first
                      /\ \A i \in 1 .. k : g[i] = F[i][g[i - 1]]
           T == {k \in 0 .. N : \E g : Q(k, g)}
<1>1. 0 \in T
  <2>1. Q(0, [i \in 0 .. 0 |-> first])
    OBVIOUS
  <2> HIDE DEF Q
  <2> QED BY <2>1
<1>2. ASSUME NEW k \in 1 .. N, k - 1 \in T PROVE k \in T
  <2>1. PICK g : Q(k - 1, g)
    BY <1>2
  <2> DEFINE h == [i \in 0 .. k |-> IF i = k THEN F[k][g[k - 1]] ELSE g[i]]
  <2>2. g[k - 1] \in V /\ F[k][g[k - 1]] \in V
    BY <2>1
  <2>3. h \in [0 .. k -> V]
    <3>1. \A i \in 0 .. k : i = k \/ i \in 0 .. k - 1
      OBVIOUS
    <3>2. \A i \in 0 .. k - 1 : g[i] \in V
      BY <2>1
    <3> QED BY <2>2, <3>1, <3>2
  <2>4. h[0] = first
    BY <2>1
  <2>5. h[k] = F[k][g[k - 1]] /\ \A i \in 0 .. k - 1 : h[i] = g[i]
    OBVIOUS
  <2> HIDE DEF h
  <2>6. ASSUME NEW i \in 1 .. k PROVE h[i] = F[i][h[i - 1]]
    <3>1. i - 1 \in 0 .. k - 1
      OBVIOUS
    <3>2. h[i - 1] = g[i - 1]
      BY <2>5, <3>1
    <3>3. CASE i = k
      BY <2>5, <3>2, <3>3
    <3>4. CASE i # k
      <4>1. i \in 0 .. k - 1 /\ i \in 1 .. k - 1
        BY <3>4
      <4> QED BY <2>1, <2>5, <3>2, <4>1
    <3> QED BY <3>3, <3>4
  <2>7. Q(k, h)
    BY <2>3, <2>4, <2>6
  <2> HIDE DEF Q
  <2> QED BY <2>7
<1>3. N \in T
  <2> HIDE DEF T
  <2>1. 0 .. N \subseteq T
    BY <1>1, <1>2, Upwards
  <2> QED BY <2>1
<1> QED BY <1>3

-----------------------------------------------------------------------------
(* The elimination. *)

ColSet == [mask : {"x", "z"}, q : Qubits]
Width   == 2 * NumQubits
Col(c) == Columns(NumQubits)[c]
States == [free : SUBSET RowSet, pivots : SUBSET [col : ColSet, row : RowSet]]

LEMMA ColumnFacts ==
  /\ Width \in Nat
  /\ \A c \in 1 .. Width : Col(c) \in ColSet
  /\ \A c, e \in 1 .. Width : Col(c) = Col(e) => c = e
  /\ \A col \in ColSet : \E c \in 1 .. Width : Col(c) = col
<1>1. Width \in Nat /\ NumQubits \in Nat
  BY StabilizerAssumption DEF Width
<1>2. \A c \in 1 .. Width : Col(c) = IF c <= NumQubits THEN [mask |-> "x", q |-> c - 1]
                                    ELSE [mask |-> "z", q |-> c - NumQubits - 1]
  BY DEF Col, Columns, Width
<1>3. \A c \in 1 .. Width : IF c <= NumQubits THEN c - 1 \in Qubits ELSE c - NumQubits - 1 \in Qubits
  BY <1>1 DEF Qubits, Width
<1>4. \A c \in 1 .. Width : Col(c) \in ColSet
  BY <1>2, <1>3 DEF ColSet
<1>5. \A c, e \in 1 .. Width : Col(c) = Col(e) => c = e
  BY <1>1, <1>2
<1>6. ASSUME NEW col \in ColSet PROVE \E c \in 1 .. Width : Col(c) = col
  <2>1. col = [mask |-> col.mask, q |-> col.q] /\ col.mask \in {"x", "z"} /\ col.q \in Qubits
    BY DEF ColSet
  <2>2. /\ col.q + 1 \in 1 .. Width /\ col.q + 1 <= NumQubits /\ (col.q + 1) - 1 = col.q
        /\ col.q + NumQubits + 1 \in 1 .. Width /\ ~ (col.q + NumQubits + 1 <= NumQubits)
        /\ (col.q + NumQubits + 1) - NumQubits - 1 = col.q
    BY <1>1, <2>1 DEF Qubits, Width
  <2>3. CASE col.mask = "x"
    <3>1. Col(col.q + 1) = [mask |-> "x", q |-> col.q]
      BY <1>2, <2>2
    <3> QED BY <2>1, <2>2, <2>3, <3>1
  <2>4. CASE col.mask = "z"
    <3>1. Col(col.q + NumQubits + 1) = [mask |-> "z", q |-> col.q]
      BY <1>2, <2>2
    <3> QED BY <2>1, <2>2, <2>4, <3>1
  <2> QED BY <2>1, <2>3, <2>4
<1> QED BY <1>1, <1>4, <1>5, <1>6

(* The bits of a row are its masks, and XOR adds them. *)
LEMMA BitFacts ==
  /\ \A u \in RowSet : (\A col \in ColSet : ~ HasBit(u, col)) <=> Blank(u)
  /\ \A u, v \in RowSet, col \in ColSet :
        HasBit(XorRow(u, v), col) <=> (HasBit(u, col) <=> ~ HasBit(v, col))
<1>1. \A u, col : col \in ColSet =>
         HasBit(u, col) <=> ((col.mask = "x" /\ col.q \in u.x) \/ (col.mask = "z" /\ col.q \in u.z))
  <2> SUFFICES ASSUME NEW u, NEW col \in ColSet
               PROVE  HasBit(u, col) <=> ((col.mask = "x" /\ col.q \in u.x) \/ (col.mask = "z" /\ col.q \in u.z))
    OBVIOUS
  <2>1. col.mask = "x" \/ col.mask = "z"
    BY DEF ColSet
  <2> QED BY <2>1 DEF HasBit
<1>2. ASSUME NEW u \in RowSet PROVE (\A col \in ColSet : ~ HasBit(u, col)) <=> Blank(u)
  <2>1. u.x \subseteq Qubits /\ u.z \subseteq Qubits
    BY DEF RowSet
  <2>2. Blank(u) => \A col \in ColSet : ~ HasBit(u, col)
    BY <1>1 DEF Blank
  <2>3. ASSUME \A col \in ColSet : ~ HasBit(u, col), NEW q \in Qubits PROVE q \notin u.x /\ q \notin u.z
    <3>1. [mask |-> "x", q |-> q] \in ColSet /\ [mask |-> "z", q |-> q] \in ColSet
      BY DEF ColSet
    <3> QED BY <1>1, <2>3, <3>1
  <2> QED BY <2>1, <2>2, <2>3 DEF Blank
<1>3. \A A, B, q : q \in SymDiff(A, B) <=> (q \in A <=> q \notin B)
  BY DEF SymDiff
<1>4. ASSUME NEW u \in RowSet, NEW v \in RowSet, NEW col \in ColSet
      PROVE  HasBit(XorRow(u, v), col) <=> (HasBit(u, col) <=> ~ HasBit(v, col))
  <2>1. col.mask = "x" \/ col.mask = "z"
    BY DEF ColSet
  <2> QED BY <1>1, <1>3, <2>1, XorFields
<1> QED BY <1>2, <1>4

(* What is true of the rows that the first c columns leave. *)
Independent(ps) == /\ ps \subseteq [col : ColSet, row : RowSet]
                   /\ \A v \in ps : HasBit(v.row, v.col)
                   /\ \A v, w \in ps : v # w => ~ HasBit(w.row, v.col)

Eliminated(e, c, rs) ==
  /\ e \in States
  /\ Independent(e.pivots)
  /\ \A f \in e.free, v \in e.pivots : ~ HasBit(f, v.col)
  /\ \A f \in e.free, k \in 1 .. c : ~ HasBit(f, Col(k))
  /\ \A K : Closed(K) =>
       (((\A f \in e.free : f \in K) /\ (\A v \in e.pivots : v.row \in K)) <=> HasRows(K, rs))

(* One column, as the row that is taken and the rows that it clears. *)
LEMMA ReduceCases ==
  ASSUME NEW e \in States, NEW col \in ColSet
  PROVE  \/ Reduce(e, col) = e /\ \A f \in e.free : ~ HasBit(f, col)
         \/ \E p \in e.free, clear \in [RowSet -> RowSet] :
              /\ HasBit(p, col)
              /\ \A w \in RowSet : clear[w] = IF HasBit(w, col) THEN XorRow(w, p) ELSE w
              /\ Reduce(e, col) \in States
              /\ Reduce(e, col).free = {clear[f] : f \in e.free \ {p}}
              /\ Reduce(e, col).pivots = {[col |-> v.col, row |-> clear[v.row]] : v \in e.pivots}
                                           \cup {[col |-> col, row |-> p]}
<1>1. CASE \A f \in e.free : ~ HasBit(f, col)
  BY <1>1 DEF Reduce
<1>2. CASE ~ \A f \in e.free : ~ HasBit(f, col)
  <2> DEFINE p == CHOOSE f \in e.free : HasBit(f, col)
             clear == [w \in RowSet |-> IF HasBit(w, col) THEN XorRow(w, p) ELSE w]
             free == {IF HasBit(f, col) THEN XorRow(f, p) ELSE f : f \in e.free \ {p}}
             pivots == {[v EXCEPT !.row = IF HasBit(v.row, col) THEN XorRow(v.row, p) ELSE v.row] : v \in e.pivots}
                          \cup {[col |-> col, row |-> p]}
  <2>1. p \in e.free /\ HasBit(p, col)
    BY <1>2
  <2>2. Reduce(e, col) = [free |-> free, pivots |-> pivots]
    BY <1>2 DEF Reduce
  <2> HIDE DEF p
  <2>3. e.free \subseteq RowSet /\ e.pivots \subseteq [col : ColSet, row : RowSet] /\ p \in RowSet
    BY <2>1 DEF States
  <2>4. clear \in [RowSet -> RowSet]
    BY <2>3, XorTypes
  <2>5. \A w \in RowSet : clear[w] = IF HasBit(w, col) THEN XorRow(w, p) ELSE w
    OBVIOUS
  <2> HIDE DEF clear
  <2>6. free = {clear[f] : f \in e.free \ {p}}
    BY <2>3, <2>5
  <2>7. pivots = {[col |-> v.col, row |-> clear[v.row]] : v \in e.pivots} \cup {[col |-> col, row |-> p]}
    <3>1. ASSUME NEW v \in e.pivots
          PROVE  [v EXCEPT !.row = IF HasBit(v.row, col) THEN XorRow(v.row, p) ELSE v.row]
                   = [col |-> v.col, row |-> clear[v.row]]
      BY <2>3, <2>5
    <3>2. {[v EXCEPT !.row = IF HasBit(v.row, col) THEN XorRow(v.row, p) ELSE v.row] : v \in e.pivots}
            = {[col |-> v.col, row |-> clear[v.row]] : v \in e.pivots}
      <4> DEFINE old(v) == [v EXCEPT !.row = IF HasBit(v.row, col) THEN XorRow(v.row, p) ELSE v.row]
                 new(v) == [col |-> v.col, row |-> clear[v.row]]
      <4>1. \A v \in e.pivots : old(v) = new(v)
        BY <3>1
      <4> HIDE DEF old, new
      <4>2. {old(v) : v \in e.pivots} = {new(v) : v \in e.pivots}
        BY <4>1
      <4> QED BY <4>2 DEF old, new
    <3> QED BY <3>2
  <2> HIDE DEF free, pivots
  <2>8. \A f \in free : f \in RowSet
    BY <2>3, <2>4, <2>6
  <2>9. \A v \in pivots : v \in [col : ColSet, row : RowSet]
    BY <2>3, <2>4, <2>7
  <2>10. Reduce(e, col) \in States
    BY <2>2, <2>8, <2>9 DEF States
  <2>11. Reduce(e, col).free = free /\ Reduce(e, col).pivots = pivots
    BY <2>2
  <2> QED BY <2>1, <2>4, <2>5, <2>6, <2>7, <2>10, <2>11
<1> QED BY <1>1, <1>2

LEMMA ReduceTypes == \A e \in States, col \in ColSet : Reduce(e, col) \in States
BY ReduceCases

LEMMA ReduceStep ==
  ASSUME NEW rs, NEW e, NEW c \in 1 .. Width, Eliminated(e, c - 1, rs)
  PROVE  Eliminated(Reduce(e, Col(c)), c, rs)
<1> DEFINE col == Col(c)
           g == Reduce(e, col)
<1>1. col \in ColSet /\ e \in States /\ \A k \in 1 .. c : k = c \/ k \in 1 .. c - 1
  BY ColumnFacts DEF Eliminated
<1>2. \A k \in 1 .. c : Col(k) \in ColSet
  BY ColumnFacts
<1>3. ASSUME g = e, \A f \in e.free : ~ HasBit(f, col)
      PROVE  Eliminated(g, c, rs)
  <2>1. \A f \in e.free, k \in 1 .. c : ~ HasBit(f, Col(k))
    BY <1>1, <1>3 DEF Eliminated
  <2> QED BY <1>3, <2>1 DEF Eliminated
<1>4. ASSUME NEW p \in e.free, NEW clear \in [RowSet -> RowSet],
             HasBit(p, col),
             \A w \in RowSet : clear[w] = IF HasBit(w, col) THEN XorRow(w, p) ELSE w,
             g \in States,
             g.free = {clear[f] : f \in e.free \ {p}},
             g.pivots = {[col |-> v.col, row |-> clear[v.row]] : v \in e.pivots}
                          \cup {[col |-> col, row |-> p]}
      PROVE  Eliminated(g, c, rs)
  <2> HIDE DEF col, g
  <2>1. /\ p \in RowSet /\ \A f \in e.free : f \in RowSet
        /\ \A v \in e.pivots : v.row \in RowSet /\ v.col \in ColSet
               /\ v = [col |-> v.col, row |-> v.row]
    BY <1>1 DEF States
  <2>2. \A w \in RowSet : ~ HasBit(clear[w], col)
    BY <1>1, <1>4, <2>1, BitFacts
  <2>3. \A w \in RowSet, at \in ColSet : ~ HasBit(p, at) => HasBit(clear[w], at) <=> HasBit(w, at)
    BY <1>4, <2>1, BitFacts
  <2>4. /\ \A v \in e.pivots : HasBit(v.row, v.col) /\ ~ HasBit(p, v.col)
        /\ \A v, w \in e.pivots : v # w => ~ HasBit(w.row, v.col)
        /\ \A f \in e.free, v \in e.pivots : ~ HasBit(f, v.col)
        /\ \A f \in e.free, k \in 1 .. c - 1 : ~ HasBit(f, Col(k))
    BY DEF Eliminated, Independent
  <2>5. ASSUME NEW v \in g.pivots
        PROVE  \/ v = [col |-> col, row |-> p]
               \/ \E w \in e.pivots : v = [col |-> w.col, row |-> clear[w.row]]
    BY <1>4
  <2>6. \A v \in g.pivots : HasBit(v.row, v.col)
    BY <1>4, <2>1, <2>3, <2>4, <2>5
  <2>7. ASSUME NEW v \in g.pivots, NEW w \in g.pivots, v # w PROVE ~ HasBit(w.row, v.col)
    <3>1. CASE v = [col |-> col, row |-> p]
      <4>1. PICK w0 \in e.pivots : w = [col |-> w0.col, row |-> clear[w0.row]]
        BY <2>5, <2>7, <3>1
      <4> QED BY <2>1, <2>2, <3>1, <4>1
    <3>2. ASSUME NEW v0 \in e.pivots, v = [col |-> v0.col, row |-> clear[v0.row]]
          PROVE  ~ HasBit(w.row, v.col)
      <4>1. CASE w = [col |-> col, row |-> p]
        BY <2>4, <3>2, <4>1
      <4>2. ASSUME NEW w0 \in e.pivots, w = [col |-> w0.col, row |-> clear[w0.row]]
            PROVE  ~ HasBit(w.row, v.col)
        <5>1. v0 # w0
          BY <2>7, <3>2, <4>2
        <5> QED BY <2>1, <2>3, <2>4, <3>2, <4>2, <5>1
      <4> QED BY <2>5, <4>1, <4>2
    <3> QED BY <2>5, <3>1, <3>2
  <2>8. Independent(g.pivots)
    <3>1. g.pivots \subseteq [col : ColSet, row : RowSet]
      BY <1>4 DEF States
    <3> QED BY <2>6, <2>7, <3>1 DEF Independent
  <2>9. ASSUME NEW f \in g.free, NEW v \in g.pivots PROVE ~ HasBit(f, v.col)
    <3>1. PICK f0 \in e.free : f = clear[f0]
      BY <1>4
    <3>2. CASE v = [col |-> col, row |-> p]
      BY <2>1, <2>2, <3>1, <3>2
    <3>3. ASSUME NEW v0 \in e.pivots, v = [col |-> v0.col, row |-> clear[v0.row]]
          PROVE  ~ HasBit(f, v.col)
      BY <2>1, <2>3, <2>4, <3>1, <3>3
    <3> QED BY <2>5, <3>2, <3>3
  <2>10. ASSUME NEW f \in g.free, NEW k \in 1 .. c PROVE ~ HasBit(f, Col(k))
    <3>1. PICK f0 \in e.free : f = clear[f0]
      BY <1>4
    <3>2. CASE k = c
      BY <2>1, <2>2, <3>1, <3>2 DEF col
    <3>3. CASE k \in 1 .. c - 1
      BY <1>2, <2>1, <2>3, <2>4, <3>1, <3>3
    <3> QED BY <1>1, <3>2, <3>3
  <2>11. ASSUME NEW K, Closed(K)
         PROVE  (((\A f \in g.free : f \in K) /\ (\A v \in g.pivots : v.row \in K))
                   <=> ((\A f \in e.free : f \in K) /\ (\A v \in e.pivots : v.row \in K)))
    <3>1. \A w \in RowSet : p \in K => (clear[w] \in K <=> w \in K)
      <4>1. \A w \in RowSet : XorRow(XorRow(w, p), p) = w
        BY <2>1, XorLaws
      <4>2. \A u, v \in K : XorRow(u, v) \in K
        BY <2>11 DEF Closed
      <4> QED BY <1>4, <4>1, <4>2
    <3>2. [col |-> col, row |-> p] \in g.pivots
      BY <1>4
    <3>3. (\A v \in g.pivots : v.row \in K) => p \in K
      BY <3>2
    <3>4. ASSUME p \in K PROVE (\A f \in g.free : f \in K) <=> (\A f \in e.free : f \in K)
      <4>1. ASSUME \A f \in g.free : f \in K, NEW f \in e.free PROVE f \in K
        <5>1. CASE f = p
          BY <3>4, <5>1
        <5>2. CASE f # p
          <6>1. clear[f] \in g.free
            BY <1>4, <5>2
          <6> QED BY <2>1, <3>1, <3>4, <4>1, <6>1
        <5> QED BY <5>1, <5>2
      <4>2. ASSUME \A f \in e.free : f \in K, NEW f \in g.free PROVE f \in K
        <5>1. PICK f0 \in e.free : f = clear[f0]
          BY <1>4
        <5> QED BY <2>1, <3>1, <3>4, <4>2, <5>1
      <4> QED BY <4>1, <4>2
    <3>5. ASSUME p \in K PROVE (\A v \in g.pivots : v.row \in K) <=> (\A v \in e.pivots : v.row \in K)
      <4>1. ASSUME \A v \in g.pivots : v.row \in K, NEW v \in e.pivots PROVE v.row \in K
        <5>1. [col |-> v.col, row |-> clear[v.row]] \in g.pivots
          BY <1>4
        <5>2. clear[v.row] \in K
          BY <4>1, <5>1
        <5> QED BY <2>1, <3>1, <3>5, <5>2
      <4>2. ASSUME \A v \in e.pivots : v.row \in K, NEW v \in g.pivots PROVE v.row \in K
        <5>1. CASE v = [col |-> col, row |-> p]
          BY <3>5, <5>1
        <5>2. ASSUME NEW w \in e.pivots, v = [col |-> w.col, row |-> clear[w.row]] PROVE v.row \in K
          BY <2>1, <3>1, <3>5, <4>2, <5>2
        <5> QED BY <2>5, <5>1, <5>2
      <4> QED BY <4>1, <4>2
    <3>6. (\A f \in e.free : f \in K) => p \in K
      OBVIOUS
    <3> QED BY <3>3, <3>4, <3>5, <3>6
  <2>12. \A K : Closed(K) =>
           (((\A f \in g.free : f \in K) /\ (\A v \in g.pivots : v.row \in K)) <=> HasRows(K, rs))
    BY <2>11 DEF Eliminated
  <2> QED BY <1>4, <2>8, <2>9, <2>10, <2>12 DEF Eliminated
<1> HIDE DEF g, col
<1>5. \/ g = e /\ \A f \in e.free : ~ HasBit(f, col)
      \/ \E p \in e.free, clear \in [RowSet -> RowSet] :
           /\ HasBit(p, col)
           /\ \A w \in RowSet : clear[w] = IF HasBit(w, col) THEN XorRow(w, p) ELSE w
           /\ g \in States
           /\ g.free = {clear[f] : f \in e.free \ {p}}
           /\ g.pivots = {[col |-> v.col, row |-> clear[v.row]] : v \in e.pivots}
                           \cup {[col |-> col, row |-> p]}
  BY <1>1, ReduceCases DEF g
<1>6. Eliminated(g, c, rs)
  <2>1. CASE g = e /\ \A f \in e.free : ~ HasBit(f, col)
    BY <1>3, <2>1
  <2>2. CASE ~ (g = e /\ \A f \in e.free : ~ HasBit(f, col))
    <3>1. PICK p \in e.free, clear \in [RowSet -> RowSet] :
           /\ HasBit(p, col)
           /\ \A w \in RowSet : clear[w] = IF HasBit(w, col) THEN XorRow(w, p) ELSE w
           /\ g \in States
           /\ g.free = {clear[f] : f \in e.free \ {p}}
           /\ g.pivots = {[col |-> v.col, row |-> clear[v.row]] : v \in e.pivots}
                           \cup {[col |-> col, row |-> p]}
      BY <1>5, <2>2
    <3> QED BY <1>4, <3>1
  <2> QED BY <2>1, <2>2
<1> QED BY <1>6 DEF g, col

(* What the columns leave is what the loop leaves of them one by one. *)
LEMMA ReducedEq ==
  ASSUME NEW rs \in [Lines -> RowSet]
  PROVE  /\ Len(rs) = NumQubits
         /\ Reduced(rs)[0] = [free |-> ToSet(rs), pivots |-> {}]
         /\ \A c \in 1 .. Width : Reduced(rs)[c] = Reduce(Reduced(rs)[c - 1], Col(c))
<1> DEFINE e0 == [free |-> ToSet(rs), pivots |-> {}]
           F == [c \in 1 .. Width |-> [e \in States |-> Reduce(e, Col(c))]]
           G(g) == [c \in 0 .. 2 * Len(rs) |->
                      IF c = 0 THEN [free |-> ToSet(rs), pivots |-> {}]
                      ELSE Reduce(g[c - 1], Columns(Len(rs))[c])]
<1>1. Len(rs) = NumQubits /\ Width = 2 * Len(rs)
  <2>1. rs \in Seq(RowSet)
    BY StabilizerAssumption DEF Lines
  <2>2. Len(rs) = NumQubits
    BY <2>1, StabilizerAssumption DEF Lines
  <2> QED BY <2>2 DEF Width
<1>2. e0 \in States
  <2>1. ToSet(rs) \subseteq RowSet
    BY DEF ToSet
  <2> QED BY <2>1 DEF States
<1>3. F \in [1 .. Width -> [States -> States]]
  BY ColumnFacts, ReduceTypes
<1>4. PICK g \in [0 .. Width -> States] : g[0] = e0 /\ \A c \in 1 .. Width : g[c] = F[c][g[c - 1]]
  <2> HIDE DEF F, e0
  <2>1. Width \in Nat
    BY ColumnFacts
  <2>2. Computes(Width, States, e0)
    BY <1>2, <2>1, Iterates
  <2> QED BY <1>3, <2>2 DEF Computes
<1>5. \A c \in 1 .. Width : g[c] = Reduce(g[c - 1], Columns(Len(rs))[c])
  <2> SUFFICES ASSUME NEW c \in 1 .. Width PROVE g[c] = Reduce(g[c - 1], Columns(Len(rs))[c])
    OBVIOUS
  <2>1. c - 1 \in 0 .. Width
    BY ColumnFacts
  <2>2. g[c - 1] \in States
    BY <2>1
  <2>3. F[c][g[c - 1]] = Reduce(g[c - 1], Col(c))
    BY <2>2
  <2>4. Col(c) = Columns(Len(rs))[c]
    BY <1>1 DEF Col
  <2> HIDE DEF F
  <2> QED BY <1>4, <2>3, <2>4
<1>6. g = G(g)
  <2>1. \A c \in 0 .. 2 * Len(rs) : c = 0 \/ c \in 1 .. Width
    BY <1>1, ColumnFacts
  <2>2. g \in [0 .. 2 * Len(rs) -> States]
    BY <1>1
  <2> HIDE DEF F
  <2> QED BY <1>4, <1>5, <2>1, <2>2
<1>7. Reduced(rs) = CHOOSE h : h = G(h)
  BY DEF Reduced
<1>8. Reduced(rs) = G(Reduced(rs))
  <2> HIDE DEF G
  <2> QED BY <1>6, <1>7
<1> DEFINE h == Reduced(rs)
<1> HIDE DEF h
<1>9. h = [c \in 0 .. 2 * Len(rs) |->
             IF c = 0 THEN [free |-> ToSet(rs), pivots |-> {}]
             ELSE Reduce(h[c - 1], Columns(Len(rs))[c])]
  BY <1>8 DEF h
<1>10. 0 \in 0 .. 2 * Len(rs) /\ \A c \in 1 .. Width : c \in 0 .. 2 * Len(rs) /\ c # 0
  BY <1>1, ColumnFacts
<1>11. h[0] = [free |-> ToSet(rs), pivots |-> {}]
  BY <1>9, <1>10
<1>12. ASSUME NEW c \in 1 .. Width PROVE h[c] = Reduce(h[c - 1], Col(c))
  <2>1. h[c] = Reduce(h[c - 1], Columns(Len(rs))[c])
    BY <1>9, <1>10
  <2> QED BY <1>1, <2>1 DEF Col
<1> QED BY <1>1, <1>11, <1>12 DEF h

LEMMA RrefEliminated ==
  ASSUME NEW rs \in [Lines -> RowSet]
  PROVE  Eliminated(Rref(rs), Width, rs)
<1> DEFINE e(c) == Reduced(rs)[c]
           T == {c \in 0 .. Width : Eliminated(e(c), c, rs)}
<1>1. 0 \in T
  <2>1. e(0) = [free |-> ToSet(rs), pivots |-> {}]
    BY ReducedEq
  <2>2. ToSet(rs) = {rs[i] : i \in Lines}
    BY DEF ToSet
  <2>3. ToSet(rs) \subseteq RowSet
    BY <2>2
  <2>4. e(0).free = ToSet(rs) /\ e(0).pivots = {} /\ e(0) \in States
    BY <2>1, <2>3 DEF States
  <2> HIDE DEF e
  <2>5. Independent(e(0).pivots)
    BY <2>4 DEF Independent
  <2>6. \A K : (\A f \in e(0).free : f \in K) <=> HasRows(K, rs)
    BY <2>2, <2>4 DEF HasRows
  <2>7. Eliminated(e(0), 0, rs)
    BY <2>4, <2>5, <2>6 DEF Eliminated
  <2> QED BY <2>7, ColumnFacts
<1>2. ASSUME NEW c \in 1 .. Width, c - 1 \in T PROVE c \in T
  <2>1. Eliminated(e(c - 1), c - 1, rs)
    BY <1>2
  <2>2. e(c) = Reduce(e(c - 1), Col(c))
    BY ReducedEq
  <2> HIDE DEF e
  <2>3. Eliminated(Reduce(e(c - 1), Col(c)), c, rs)
    BY <2>1, ReduceStep
  <2> QED BY <2>2, <2>3, ColumnFacts
<1>3. Width \in T
  <2> HIDE DEF T
  <2>1. 0 .. Width \subseteq T
    BY <1>1, <1>2, ColumnFacts, Upwards
  <2> QED BY <2>1, ColumnFacts
<1>4. Rref(rs) = e(Width)
  BY ReducedEq DEF Rref, Width
<1> HIDE DEF e
<1> QED BY <1>3, <1>4

-----------------------------------------------------------------------------
(* What the elimination takes from a target. *)

LEMMA TakeFacts ==
  ASSUME NEW ps, Independent(ps), NEW col \in ColSet
  PROVE  \/ /\ \A v \in ps : v.col # col
            /\ \A t : Take(ps, t, col) = t
         \/ \E w \in ps : /\ w.col = col /\ w.row \in RowSet
                          /\ \A v \in ps : v.col = col => v = w
                          /\ \A t : Take(ps, t, col) = IF HasBit(t, col) THEN XorRow(t, w.row) ELSE t
<1>1. CASE \A v \in ps : v.col # col
  BY <1>1 DEF Take
<1>2. CASE ~ \A v \in ps : v.col # col
  <2> DEFINE w == CHOOSE v \in ps : v.col = col
  <2>1. w \in ps /\ w.col = col
    BY <1>2
  <2>2. \A t : Take(ps, t, col) = IF HasBit(t, col) THEN XorRow(t, w.row) ELSE t
    BY <1>2 DEF Take
  <2> HIDE DEF w
  <2>3. w.row \in RowSet
    BY <2>1 DEF Independent
  <2>4. \A v \in ps : v.col = col => v = w
    BY <2>1 DEF Independent
  <2> QED BY <2>1, <2>2, <2>3, <2>4
<1> QED BY <1>1, <1>2

LEMMA TakeTypes ==
  ASSUME NEW ps, Independent(ps), NEW col \in ColSet, NEW t \in RowSet
  PROVE  Take(ps, t, col) \in RowSet
BY TakeFacts, XorTypes

LEMMA TakeSum ==
  ASSUME NEW ps, Independent(ps), NEW col \in ColSet, NEW t \in RowSet, NEW u \in RowSet
  PROVE  Take(ps, XorRow(t, u), col) = XorRow(Take(ps, t, col), Take(ps, u, col))
<1>1. CASE \A v : Take(ps, v, col) = v
  BY <1>1
<1>2. ASSUME NEW p \in RowSet, \A v : Take(ps, v, col) = IF HasBit(v, col) THEN XorRow(v, p) ELSE v
      PROVE  Take(ps, XorRow(t, u), col) = XorRow(Take(ps, t, col), Take(ps, u, col))
  <2>1. HasBit(XorRow(t, u), col) <=> (HasBit(t, col) <=> ~ HasBit(u, col))
    BY BitFacts
  <2>2. /\ XorRow(t, u) \in RowSet /\ XorRow(t, p) \in RowSet /\ XorRow(u, p) \in RowSet
        /\ XorRow(XorRow(t, u), p) \in RowSet
    BY <1>2, XorTypes
  <2>3. XorRow(XorRow(t, u), p) = XorRow(t, XorRow(u, p))
    BY <1>2, XorLaws
  <2>4. XorRow(XorRow(t, u), p) = XorRow(XorRow(t, p), u)
    <3>1. XorRow(t, XorRow(u, p)) = XorRow(t, XorRow(p, u)) /\ XorRow(t, XorRow(p, u)) = XorRow(XorRow(t, p), u)
      BY <1>2, XorLaws
    <3> QED BY <2>3, <3>1
  <2>5. XorRow(XorRow(t, p), XorRow(u, p)) = XorRow(t, u)
    <3>1. XorRow(XorRow(t, p), XorRow(u, p)) = XorRow(XorRow(XorRow(t, p), u), p)
      BY <1>2, <2>2, XorLaws
    <3>2. XorRow(XorRow(XorRow(t, u), p), p) = XorRow(t, u)
      BY <1>2, <2>2, XorLaws
    <3> QED BY <2>4, <3>1, <3>2
  <2>6. CASE HasBit(t, col) /\ HasBit(u, col)
    BY <1>2, <2>1, <2>5, <2>6
  <2>7. CASE HasBit(t, col) /\ ~ HasBit(u, col)
    BY <1>2, <2>1, <2>4, <2>7
  <2>8. CASE ~ HasBit(t, col) /\ HasBit(u, col)
    BY <1>2, <2>1, <2>3, <2>8
  <2>9. CASE ~ HasBit(t, col) /\ ~ HasBit(u, col)
    BY <1>2, <2>1, <2>9
  <2> QED BY <2>6, <2>7, <2>8, <2>9
<1>3. \/ \A v : Take(ps, v, col) = v
      \/ \E p \in RowSet : \A v : Take(ps, v, col) = IF HasBit(v, col) THEN XorRow(v, p) ELSE v
  BY TakeFacts
<1> QED BY <1>1, <1>2, <1>3

LEMMA TakenEq ==
  ASSUME NEW ps, Independent(ps), NEW t \in RowSet
  PROVE  /\ Taken(ps, t, NumQubits)[0] = t
         /\ \A c \in 0 .. Width : Taken(ps, t, NumQubits)[c] \in RowSet
         /\ \A c \in 1 .. Width :
              Taken(ps, t, NumQubits)[c] = Take(ps, Taken(ps, t, NumQubits)[c - 1], Col(c))
<1> DEFINE F == [c \in 1 .. Width |-> [u \in RowSet |-> Take(ps, u, Col(c))]]
           G(g) == [c \in 0 .. 2 * NumQubits |->
                      IF c = 0 THEN t ELSE Take(ps, g[c - 1], Columns(NumQubits)[c])]
           h == Taken(ps, t, NumQubits)
<1>1. F \in [1 .. Width -> [RowSet -> RowSet]]
  BY ColumnFacts, TakeTypes
<1>2. PICK g \in [0 .. Width -> RowSet] : g[0] = t /\ \A c \in 1 .. Width : g[c] = F[c][g[c - 1]]
  <2> HIDE DEF F
  <2>1. Width \in Nat
    BY ColumnFacts
  <2>2. Computes(Width, RowSet, t)
    BY <2>1, Iterates
  <2> QED BY <1>1, <2>2 DEF Computes
<1>3. \A c \in 1 .. Width : c - 1 \in 0 .. Width /\ c \in 0 .. Width /\ c # 0
  BY ColumnFacts
<1>4. \A c \in 1 .. Width : g[c] = Take(ps, g[c - 1], Columns(NumQubits)[c])
  <2> SUFFICES ASSUME NEW c \in 1 .. Width PROVE g[c] = Take(ps, g[c - 1], Columns(NumQubits)[c])
    OBVIOUS
  <2>1. g[c - 1] \in RowSet
    BY <1>3
  <2>2. F[c][g[c - 1]] = Take(ps, g[c - 1], Col(c))
    BY <2>1
  <2> HIDE DEF F
  <2> QED BY <1>2, <2>2 DEF Col
<1>5. g = G(g)
  <2>1. \A c \in 0 .. 2 * NumQubits : c = 0 \/ c \in 1 .. Width
    BY ColumnFacts DEF Width
  <2>2. g \in [0 .. 2 * NumQubits -> RowSet]
    BY DEF Width
  <2> HIDE DEF F
  <2> QED BY <1>2, <1>4, <2>1, <2>2
<1>6. h = CHOOSE k : k = G(k)
  BY DEF Taken
<1>7. h = G(h)
  <2> HIDE DEF G, h
  <2> QED BY <1>5, <1>6
<1> HIDE DEF h
<1>8. h[0] = t
  BY <1>7, ColumnFacts DEF Width
<1>9. ASSUME NEW c \in 1 .. Width PROVE h[c] = Take(ps, h[c - 1], Col(c))
  <2>1. c \in 0 .. 2 * NumQubits /\ c # 0
    BY <1>3 DEF Width
  <2> QED BY <1>7, <2>1 DEF Col
<1> DEFINE T == {c \in 0 .. Width : h[c] \in RowSet}
<1>10. 0 \in T
  BY <1>8, ColumnFacts
<1>11. ASSUME NEW c \in 1 .. Width, c - 1 \in T PROVE c \in T
  BY <1>3, <1>9, <1>11, ColumnFacts, TakeTypes
<1>12. 0 .. Width \subseteq T
  <2> HIDE DEF T
  <2> QED BY <1>10, <1>11, ColumnFacts, Upwards
<1> QED BY <1>8, <1>9, <1>12 DEF h

Left(ps, t) == Taken(ps, t, NumQubits)[Width]

(* The elimination of a target is linear in the target. *)
LEMMA LeftSum ==
  ASSUME NEW ps, Independent(ps), NEW t \in RowSet, NEW u \in RowSet
  PROVE  /\ Left(ps, t) \in RowSet
         /\ Left(ps, XorRow(t, u)) = XorRow(Left(ps, t), Left(ps, u))
<1> DEFINE f(c) == Taken(ps, t, NumQubits)[c]
           g(c) == Taken(ps, u, NumQubits)[c]
           h(c) == Taken(ps, XorRow(t, u), NumQubits)[c]
           T == {c \in 0 .. Width : h(c) = XorRow(f(c), g(c))}
<1>1. XorRow(t, u) \in RowSet
  BY XorTypes
<1>2. /\ f(0) = t /\ g(0) = u /\ h(0) = XorRow(t, u)
      /\ \A c \in 0 .. Width : f(c) \in RowSet /\ g(c) \in RowSet
  BY <1>1, TakenEq
<1>3. \A c \in 1 .. Width : /\ f(c) = Take(ps, f(c - 1), Col(c))
                            /\ g(c) = Take(ps, g(c - 1), Col(c))
                            /\ h(c) = Take(ps, h(c - 1), Col(c))
  BY <1>1, TakenEq
<1> HIDE DEF f, g, h
<1>4. 0 \in T
  BY <1>2, ColumnFacts
<1>5. ASSUME NEW c \in 1 .. Width, c - 1 \in T PROVE c \in T
  <2>1. c - 1 \in 0 .. Width /\ c \in 0 .. Width
    BY ColumnFacts
  <2>2. h(c - 1) = XorRow(f(c - 1), g(c - 1)) /\ f(c - 1) \in RowSet /\ g(c - 1) \in RowSet
    BY <1>2, <1>5, <2>1
  <2>3. Take(ps, XorRow(f(c - 1), g(c - 1)), Col(c)) = XorRow(Take(ps, f(c - 1), Col(c)), Take(ps, g(c - 1), Col(c)))
    BY <2>2, ColumnFacts, TakeSum
  <2> QED BY <1>3, <2>1, <2>2, <2>3
<1>6. Width \in T
  <2> HIDE DEF T
  <2>1. 0 .. Width \subseteq T
    BY <1>4, <1>5, ColumnFacts, Upwards
  <2> QED BY <2>1, ColumnFacts
<1>7. Width \in 0 .. Width
  BY ColumnFacts
<1> QED BY <1>2, <1>6, <1>7 DEF Left, f, g, h

(* Nothing is left of a pivot's row, nor of a row without bits. *)
LEMMA LeftBlank ==
  ASSUME NEW ps, Independent(ps), NEW t \in RowSet, Blank(t)
  PROVE  Left(ps, t) = t
<1> DEFINE f(c) == Taken(ps, t, NumQubits)[c]
           T == {c \in 0 .. Width : f(c) = t}
<1>1. f(0) = t /\ \A c \in 1 .. Width : f(c) = Take(ps, f(c - 1), Col(c))
  BY TakenEq
<1> HIDE DEF f
<1>2. \A col \in ColSet : Take(ps, t, col) = t
  BY BitFacts DEF Take
<1>3. 0 \in T
  BY <1>1, ColumnFacts
<1>4. ASSUME NEW c \in 1 .. Width, c - 1 \in T PROVE c \in T
  BY <1>1, <1>2, <1>4, ColumnFacts
<1>5. Width \in T
  <2> HIDE DEF T
  <2>1. 0 .. Width \subseteq T
    BY <1>3, <1>4, ColumnFacts, Upwards
  <2> QED BY <2>1, ColumnFacts
<1> QED BY <1>5 DEF Left, f

LEMMA LeftPivot ==
  ASSUME NEW ps, Independent(ps), NEW w \in ps
  PROVE  Blank(Left(ps, w.row))
<1> DEFINE t == w.row
           f(c) == Taken(ps, t, NumQubits)[c]
<1>1. t \in RowSet /\ w.col \in ColSet /\ HasBit(t, w.col)
  BY DEF Independent
<1>2. PICK k \in 1 .. Width : Col(k) = w.col
  BY <1>1, ColumnFacts
<1>3. /\ f(0) = t /\ \A c \in 1 .. Width : f(c) = Take(ps, f(c - 1), Col(c))
      /\ \A c \in 0 .. Width : f(c) \in RowSet
  BY <1>1, TakenEq
<1> HIDE DEF f
<1> DEFINE T == {c \in 0 .. Width : (c < k /\ f(c) = t) \/ (c >= k /\ Blank(f(c)))}
<1>4. 0 \in T
  BY <1>3, ColumnFacts
<1>5. ASSUME NEW c \in 1 .. Width, c - 1 \in T PROVE c \in T
  <2>1. c \in 0 .. Width /\ c - 1 \in 0 .. Width /\ Col(c) \in ColSet
    BY ColumnFacts
  <2>2. CASE c < k
    <3>1. f(c - 1) = t
      BY <1>5, <2>2, ColumnFacts
    <3>2. Col(c) # w.col
      BY <1>2, <2>2, ColumnFacts
    <3>3. \A v \in ps : v.col = Col(c) => ~ HasBit(t, Col(c))
      BY <3>2 DEF Independent
    <3>4. Take(ps, t, Col(c)) = t
      BY <3>3 DEF Take
    <3> QED BY <1>3, <2>1, <2>2, <3>1, <3>4
  <2>3. CASE c = k
    <3>1. f(c - 1) = t
      BY <1>5, <2>3, ColumnFacts
    <3>2. \E v \in ps : /\ v.col = w.col
                        /\ \A y \in ps : y.col = w.col => y = v
                        /\ Take(ps, t, w.col) = IF HasBit(t, w.col) THEN XorRow(t, v.row) ELSE t
      BY <1>1, TakeFacts
    <3>3. Take(ps, t, w.col) = XorRow(t, t)
      BY <1>1, <3>2
    <3>4. XorRow(t, t) = Row({}, {}, 0)
      BY <1>1, XorLaws
    <3>5. Blank(f(c))
      BY <1>2, <1>3, <2>3, <3>1, <3>3, <3>4 DEF Blank, Row
    <3> QED BY <2>1, <2>3, <3>5
  <2>4. CASE c > k
    <3>1. Blank(f(c - 1)) /\ f(c - 1) \in RowSet
      BY <1>3, <1>5, <2>1, <2>4, ColumnFacts
    <3>2. Take(ps, f(c - 1), Col(c)) = f(c - 1)
      BY <2>1, <3>1, BitFacts DEF Take
    <3> QED BY <1>3, <2>1, <2>4, <3>1, <3>2
  <2> QED BY <2>1, <2>2, <2>3, <2>4, ColumnFacts
<1>6. Width \in T
  <2> HIDE DEF T
  <2>1. 0 .. Width \subseteq T
    BY <1>4, <1>5, ColumnFacts, Upwards
  <2> QED BY <2>1, ColumnFacts
<1>7. Blank(f(Width))
  BY <1>6, ColumnFacts
<1> QED BY <1>7 DEF Left, f

(* What is taken from a target is a product of rows, with its sign. *)
LEMMA LeftWithin ==
  ASSUME NEW ps, Independent(ps), NEW t \in RowSet, NEW K, Closed(K), Row({}, {}, 0) \in K,
         \A v \in ps : v.row \in K
  PROVE  XorRow(Left(ps, t), t) \in K
<1> DEFINE f(c) == Taken(ps, t, NumQubits)[c]
           T == {c \in 0 .. Width : XorRow(f(c), t) \in K}
<1>1. /\ f(0) = t /\ \A c \in 1 .. Width : f(c) = Take(ps, f(c - 1), Col(c))
      /\ \A c \in 0 .. Width : f(c) \in RowSet
  BY TakenEq
<1> HIDE DEF f
<1>2. 0 \in T
  <2>1. XorRow(t, t) \in K
    BY XorLaws
  <2> QED BY <1>1, <2>1, ColumnFacts
<1>3. ASSUME NEW c \in 1 .. Width, c - 1 \in T PROVE c \in T
  <2>1. c \in 0 .. Width /\ c - 1 \in 0 .. Width /\ Col(c) \in ColSet
    BY ColumnFacts
  <2>2. f(c - 1) \in RowSet /\ XorRow(f(c - 1), t) \in K
    BY <1>1, <1>3, <2>1
  <2>3. CASE f(c) = f(c - 1)
    BY <2>1, <2>2, <2>3
  <2>4. ASSUME NEW w \in ps, w.row \in RowSet, f(c) = XorRow(f(c - 1), w.row) PROVE c \in T
    <3>1. w.row \in K
      OBVIOUS
    <3>2. XorRow(f(c), t) = XorRow(XorRow(f(c - 1), t), w.row)
      <4>1. XorRow(XorRow(f(c - 1), w.row), t) = XorRow(f(c - 1), XorRow(w.row, t))
        BY <2>2, <2>4, XorLaws
      <4>2. XorRow(w.row, t) = XorRow(t, w.row)
        BY <2>4, XorLaws
      <4>3. XorRow(f(c - 1), XorRow(t, w.row)) = XorRow(XorRow(f(c - 1), t), w.row)
        BY <2>2, <2>4, XorLaws
      <4> QED BY <2>4, <4>1, <4>2, <4>3
    <3>3. XorRow(XorRow(f(c - 1), t), w.row) \in K
      BY <2>2, <3>1 DEF Closed
    <3> QED BY <2>1, <3>2, <3>3
  <2>5. \/ f(c) = f(c - 1)
        \/ \E w \in ps : w.row \in RowSet /\ f(c) = XorRow(f(c - 1), w.row)
    <3>1. f(c) = Take(ps, f(c - 1), Col(c))
      BY <1>1
    <3> QED BY <2>1, <3>1, TakeFacts
  <2> QED BY <2>3, <2>4, <2>5
<1>4. Width \in T
  <2> HIDE DEF T
  <2>1. 0 .. Width \subseteq T
    BY <1>2, <1>3, ColumnFacts, Upwards
  <2> QED BY <2>1, ColumnFacts
<1> QED BY <1>4 DEF Left, f

-----------------------------------------------------------------------------
(* What solve_deterministic answers. *)

LEMMA ResidueIs ==
  ASSUME NEW rs \in [Lines -> RowSet], NEW q \in Qubits
  PROVE  /\ Residue(rs, q) = Left(Rref(rs).pivots, Row({}, {q}, 0))
         /\ Residue(rs, q) \in RowSet
         /\ SolveDeterministic(rs, q) \in {0, 1}
<1>1. Residue(rs, q) = Left(Rref(rs).pivots, Row({}, {q}, 0))
  BY ReducedEq DEF Residue, Left, Width
<1>2. Row({}, {q}, 0) \in RowSet
  BY PauliRows
<1>3. Independent(Rref(rs).pivots)
  BY RrefEliminated DEF Eliminated
<1>4. Left(Rref(rs).pivots, Row({}, {q}, 0)) \in RowSet
  BY <1>2, <1>3, LeftSum
<1>5. Residue(rs, q).r \in {0, 1}
  BY <1>1, <1>4 DEF RowSet
<1> QED BY <1>1, <1>4, <1>5 DEF SolveDeterministic

(* Where no row anticommutes with Z of q, the elimination ends at zero. *)
LEMMA NothingLeft ==
  ASSUME NEW rs \in [Lines -> RowSet], NEW d, Partners(rs, d),
         NEW q \in Qubits, ~ HasRandomBit(rs, q)
  PROVE  Blank(Residue(rs, q))
<1> DEFINE e == Rref(rs)
           ps == e.pivots
           K == {t \in RowSet : Blank(Left(ps, t))}
           z == Row({}, {q}, 0)
<1>1. Eliminated(e, Width, rs) /\ Independent(ps)
  BY RrefEliminated DEF Eliminated
<1>2. \A f \in e.free : f \in RowSet /\ Blank(f)
  <2>1. \A f \in e.free, col \in ColSet : f \in RowSet /\ ~ HasBit(f, col)
    BY <1>1, ColumnFacts DEF Eliminated, States
  <2>2. \A f \in e.free : f \in RowSet
    BY <1>1 DEF Eliminated, States
  <2> HIDE DEF e
  <2> QED BY <2>1, <2>2, BitFacts
<1> HIDE DEF e
<1>3. \A v \in ps : v.row \in RowSet
  BY <1>1 DEF Independent
<1> HIDE DEF ps
<1>4. Closed(K)
  <2>1. ASSUME NEW t \in K, NEW u \in K PROVE XorRow(t, u) \in K
    <3>1. /\ t \in RowSet /\ u \in RowSet /\ Blank(Left(ps, t)) /\ Blank(Left(ps, u))
      OBVIOUS
    <3>2. Left(ps, XorRow(t, u)) = XorRow(Left(ps, t), Left(ps, u)) /\ XorRow(t, u) \in RowSet
      BY <1>1, <3>1, LeftSum, XorTypes
    <3>3. SymDiff({}, {}) = {}
      BY DEF SymDiff
    <3>4. Blank(XorRow(Left(ps, t), Left(ps, u)))
      <4> DEFINE l == Left(ps, t)
                 k == Left(ps, u)
      <4>1. l.x = {} /\ l.z = {} /\ k.x = {} /\ k.z = {}
        BY <3>1 DEF Blank
      <4> HIDE DEF l, k
      <4>2. XorRow(l, k).x = SymDiff(l.x, k.x) /\ XorRow(l, k).z = SymDiff(l.z, k.z)
        BY XorFields
      <4> QED BY <3>3, <4>1, <4>2 DEF Blank, l, k
    <3> QED BY <3>2, <3>4
  <2> QED BY <2>1 DEF Closed
<1>5. \A f \in e.free : f \in K
  BY <1>1, <1>2, LeftBlank
<1>6. \A v \in ps : v.row \in K
  BY <1>1, <1>3, LeftPivot
<1>7. Row({}, {}, 0) \in K /\ Row({}, {}, 1) \in K
  <2>1. /\ Row({}, {}, 0) \in RowSet /\ Blank(Row({}, {}, 0))
        /\ Row({}, {}, 1) \in RowSet /\ Blank(Row({}, {}, 1))
    BY DEF Row, RowSet, Blank
  <2> QED BY <1>1, <2>1, LeftBlank
<1> HIDE DEF K
<1>8. HasRows(K, rs)
  BY <1>1, <1>4, <1>5, <1>6 DEF Eliminated, ps
<1>9. z \in RowSet /\ \A i \in Lines : Anti(z, rs[i]) = 0
  <2>1. \A i \in Lines : rs[i] \in RowSet /\ q \notin rs[i].x
    BY DEF HasRandomBit
  <2>2. \A i \in Lines : Anti(z, rs[i]) = Bit(rs[i].x, q)
    BY <2>1, PauliRows
  <2> QED BY <2>1, <2>2, PauliRows DEF Bit
<1> HIDE DEF z
<1>10. z \in K
  BY <1>4, <1>7, <1>8, <1>9, CommutantIsSpanned
<1> QED BY <1>10, ResidueIs DEF K, z, ps, e

(* Where the elimination ends at zero, Z of q with the answer's sign is a   *)
(* product of the rows.                                                     *)
LEMMA AnswerIsProduct ==
  ASSUME NEW rs \in [Lines -> RowSet], NEW q \in Qubits, NEW K, Closed(K), HasRows(K, rs),
         Blank(Residue(rs, q))
  PROVE  Row({}, {q}, SolveDeterministic(rs, q)) \in K
<1> DEFINE e == Rref(rs)
           t == Residue(rs, q)
           z == Row({}, {q}, 0)
<1>1. Independent(e.pivots) /\ \A v \in e.pivots : v.row \in K
  BY RrefEliminated DEF Eliminated
<1>2. Row({}, {}, 0) \in K
  <2>1. 1 \in Lines
    BY StabilizerAssumption DEF Lines
  <2>2. rs[1] \in K /\ rs[1] \in RowSet
    BY <2>1 DEF HasRows
  <2>3. XorRow(rs[1], rs[1]) \in K /\ XorRow(rs[1], rs[1]) = Row({}, {}, 0)
    BY <2>2, XorLaws DEF Closed
  <2> QED BY <2>3
<1>3. z \in RowSet
  BY PauliRows
<1>4. t = Left(e.pivots, z) /\ t \in RowSet
  BY ResidueIs
<1> HIDE DEF e
<1>5. XorRow(Left(e.pivots, z), z) \in K
  <2> HIDE DEF z
  <2> QED BY <1>1, <1>2, <1>3, LeftWithin
<1>6. XorRow(t, z) = Row({}, {q}, t.r)
  <2>1. t.x = {} /\ t.z = {} /\ t.r \in {0, 1}
    BY <1>4 DEF Blank, RowSet
  <2>2. SymDiff({}, {}) = {} /\ SymDiff({}, {q}) = {q}
    BY DEF SymDiff
  <2>3. \A k \in {0, 1} : (k + 0) % 2 = k
    OBVIOUS
  <2> HIDE DEF t
  <2> QED BY <2>1, <2>2, <2>3 DEF XorRow, Row
<1>7. SolveDeterministic(rs, q) = t.r
  BY DEF SolveDeterministic, Blank
<1> QED BY <1>4, <1>5, <1>6, <1>7

(* The sign that the rows have for Z of q is the answer. *)
LEMMA AnswerIs ==
  ASSUME NEW rs \in [Lines -> RowSet], NEW d, Partners(rs, d),
         NEW q \in Qubits, ~ HasRandomBit(rs, q),
         NEW K, Closed(K), HasRows(K, rs), Row({}, {}, 1) \notin K,
         NEW o \in {0, 1}, Row({}, {q}, o) \in K
  PROVE  SolveDeterministic(rs, q) = o
<1> DEFINE s == SolveDeterministic(rs, q)
<1>1. s \in {0, 1} /\ Row({}, {q}, s) \in K
  BY NothingLeft, AnswerIsProduct, ResidueIs
<1>2. XorRow(Row({}, {q}, s), Row({}, {q}, o)) \in K
  BY <1>1 DEF Closed
<1>3. XorRow(Row({}, {q}, s), Row({}, {q}, o)) = Row({}, {}, (s + o) % 2)
  <2>1. \A A : SymDiff(A, A) = {}
    BY DEF SymDiff
  <2> HIDE DEF s
  <2> QED BY <2>1 DEF XorRow, Row
<1> HIDE DEF s
<1>4. \A a, b \in {0, 1} : a # b => (a + b) % 2 = 1
  OBVIOUS
<1>5. s = o
  BY <1>1, <1>2, <1>3, <1>4
<1> QED BY <1>5 DEF s

-----------------------------------------------------------------------------
(* Measurements. *)

Reads(rs, q, o) == ~ HasRandomBit(rs, q) /\ SolveDeterministic(rs, q) = o

(* What a measurement leaves reads the same again. *)
LEMMA MzReads ==
  ASSUME NEW rs \in [Lines -> RowSet], NEW d, Partners(rs, d),
         NEW q \in Qubits, NEW m \in Mz(rs, q)
  PROVE  /\ m[1] \in {0, 1} /\ m[2] \in [Lines -> RowSet]
         /\ \E dm : Partners(m[2], dm)
         /\ Reads(m[2], q, m[1])
<1>1. CASE HasRandomBit(rs, q)
  <2>1. PICK o \in {0, 1} : m = <<o, Collapse(rs, q, o)>>
    BY <1>1 DEF Mz
  <2> DEFINE rc == Collapse(rs, q, o)
  <2>2. /\ rc \in [Lines -> RowSet] /\ \E dc : Partners(rc, dc)
        /\ ~ HasRandomBit(rc, q) /\ \E i \in Lines : rc[i] = Row({}, {q}, o)
    BY <1>1, CollapsePartners
  <2>3. m[1] = o /\ m[2] = rc
    BY <2>1
  <2> HIDE DEF rc
  <2>4. PICK dc : Partners(rc, dc)
    BY <2>2
  <2>5. PICK K : Closed(K) /\ HasRows(K, rc) /\ Row({}, {}, 1) \notin K
    BY <2>2, <2>4, SignsAgree
  <2>6. Row({}, {q}, o) \in K
    BY <2>2, <2>5 DEF HasRows
  <2>7. SolveDeterministic(rc, q) = o
    BY <2>2, <2>4, <2>5, <2>6, AnswerIs
  <2> QED BY <2>2, <2>3, <2>4, <2>7 DEF Reads
<1>2. CASE ~ HasRandomBit(rs, q)
  <2>1. m = <<SolveDeterministic(rs, q), rs>>
    BY <1>2 DEF Mz
  <2>2. m[1] = SolveDeterministic(rs, q) /\ m[2] = rs
    BY <2>1
  <2> QED BY <1>2, <2>2, ResidueIs DEF Reads
<1> QED BY <1>1, <1>2

(* X turns a qubit that reads 1 into one that reads 0. *)
LEMMA FlipReads ==
  ASSUME NEW rs \in [Lines -> RowSet], NEW d, Partners(rs, d),
         NEW q \in Qubits, Reads(rs, q, 1)
  PROVE  LET rx == Apply(rs, [gate |-> "X", a |-> q])
         IN  rx \in [Lines -> RowSet] /\ (\E dx : Partners(rx, dx)) /\ Reads(rx, q, 0)
<1> DEFINE in == [gate |-> "X", a |-> q]
           rx == Apply(rs, in)
<1>1. in \in Instrs
  BY DEF Instrs, Gates
<1>2. \A u : Gate(u, in) = Px(u, q)
  BY DEF Gate
<1>3. rx = [i \in Lines |-> Px(rs[i], q)]
  BY <1>2 DEF Apply
<1>4. \A u \in RowSet : Px(u, q) \in RowSet
  BY <1>1, <1>2, GateTypes
<1>5. rx \in [Lines -> RowSet] /\ \E dx : Partners(rx, dx)
  <2> HIDE DEF in
  <2> QED BY <1>1, GatePartners
<1>6. PICK dx : Partners(rx, dx)
  BY <1>5
<1> HIDE DEF in, rx
<1>7. ~ HasRandomBit(rx, q)
  <2>1. \A i \in Lines : q \notin rs[i].x
    BY DEF Reads, HasRandomBit
  <2>2. \A i \in Lines : rx[i] = Px(rs[i], q)
    BY <1>3
  <2>3. \A i \in Lines : rx[i].x = rs[i].x
    BY <2>2, GateFields
  <2> QED BY <1>5, <2>1, <2>3 DEF HasRandomBit
<1>8. PICK K : Closed(K) /\ HasRows(K, rs) /\ Row({}, {}, 1) \notin K
  BY SignsAgree
<1>9. Row({}, {q}, 1) \in K
  <2>1. ~ HasRandomBit(rs, q) /\ SolveDeterministic(rs, q) = 1
    BY DEF Reads
  <2>2. Blank(Residue(rs, q))
    BY <2>1, NothingLeft
  <2>3. Row({}, {q}, SolveDeterministic(rs, q)) \in K
    BY <1>8, <2>2, AnswerIsProduct
  <2> QED BY <2>1, <2>3
<1> DEFINE KX == {Px(u, q) : u \in K}
<1>10. \A u \in RowSet : Px(u, q) = Row(u.x, u.z, (u.r + Bit(u.z, q)) % 2)
  <2> SUFFICES ASSUME NEW u \in RowSet PROVE Px(u, q) = Row(u.x, u.z, (u.r + Bit(u.z, q)) % 2)
    OBVIOUS
  <2> DEFINE x == u.x
             z == u.z
             r == u.r
             b == Bit(u.z, q)
  <2>1. u = [x |-> x, z |-> z, r |-> r]
    BY DEF RowSet
  <2>2. Px(u, q) = [u EXCEPT !.r = (u.r + b) % 2]
    BY DEF Px, Flip
  <2>3. [u EXCEPT !.r = (u.r + b) % 2] = [x |-> x, z |-> z, r |-> (r + b) % 2]
    BY DEF RowSet
  <2> QED BY <2>2, <2>3 DEF Row
<1>11. \A u, v \in RowSet : XorRow(Px(u, q), Px(v, q)) = Px(XorRow(u, v), q)
  <2> SUFFICES ASSUME NEW u \in RowSet, NEW v \in RowSet
               PROVE  XorRow(Px(u, q), Px(v, q)) = Px(XorRow(u, v), q)
    OBVIOUS
  <2>1. Px(u, q) = Row(u.x, u.z, (u.r + Bit(u.z, q)) % 2) /\ Px(v, q) = Row(v.x, v.z, (v.r + Bit(v.z, q)) % 2)
    BY <1>10
  <2>2. XorRow(u, v) \in RowSet
    BY XorTypes
  <2>3. Px(XorRow(u, v), q) = Row(SymDiff(u.x, v.x), SymDiff(u.z, v.z),
                                  (((u.r + v.r) % 2) + Bit(SymDiff(u.z, v.z), q)) % 2)
    BY <1>10, <2>2, XorFields
  <2>4. XorRow(Px(u, q), Px(v, q)) = Row(SymDiff(u.x, v.x), SymDiff(u.z, v.z),
                   (((u.r + Bit(u.z, q)) % 2) + ((v.r + Bit(v.z, q)) % 2)) % 2)
    BY <2>1 DEF XorRow, Row
  <2>5. Bit(SymDiff(u.z, v.z), q) = (Bit(u.z, q) + Bit(v.z, q)) % 2
    BY DEF SymDiff, Bit
  <2>6. u.r \in {0, 1} /\ v.r \in {0, 1} /\ Bit(u.z, q) \in {0, 1} /\ Bit(v.z, q) \in {0, 1}
    BY DEF RowSet, Bit
  <2>7. \A a, b, c, e \in {0, 1} : (((a + b) % 2) + ((c + e) % 2)) % 2 = (((a + c) % 2) + ((b + e) % 2)) % 2
    OBVIOUS
  <2>8. (((u.r + Bit(u.z, q)) % 2) + ((v.r + Bit(v.z, q)) % 2)) % 2
           = (((u.r + v.r) % 2) + ((Bit(u.z, q) + Bit(v.z, q)) % 2)) % 2
    BY <2>6, <2>7
  <2> QED BY <2>3, <2>4, <2>5, <2>8
<1>12. Closed(KX)
  <2>1. K \subseteq RowSet /\ \A u, v \in K : XorRow(u, v) \in K
    BY <1>8 DEF Closed
  <2>2. KX \subseteq RowSet
    BY <1>4, <2>1
  <2>3. ASSUME NEW s \in KX, NEW t \in KX PROVE XorRow(s, t) \in KX
    <3>1. PICK u \in K, v \in K : s = Px(u, q) /\ t = Px(v, q)
      OBVIOUS
    <3>2. XorRow(s, t) = Px(XorRow(u, v), q) /\ XorRow(u, v) \in K
      BY <1>11, <2>1, <3>1
    <3> QED BY <3>2
  <2> HIDE DEF KX
  <2> QED BY <2>2, <2>3 DEF Closed
<1>13. HasRows(KX, rx)
  <2>1. \A i \in Lines : rx[i] = Px(rs[i], q) /\ rs[i] \in K
    BY <1>3, <1>8 DEF HasRows
  <2> QED BY <2>1 DEF HasRows
<1>14. Row({}, {}, 1) \notin KX
  <2> SUFFICES ASSUME NEW u \in K, Px(u, q) = Row({}, {}, 1) PROVE FALSE
    OBVIOUS
  <2>1. u \in RowSet
    BY <1>8 DEF Closed
  <2>2. Row(u.x, u.z, (u.r + Bit(u.z, q)) % 2) = Row({}, {}, 1)
    BY <1>10, <2>1
  <2>3. u.x = {} /\ u.z = {} /\ (u.r + Bit(u.z, q)) % 2 = 1
    BY <2>2 DEF Row
  <2>4. u.r \in {0, 1} /\ Bit({}, q) = 0
    BY <2>1 DEF RowSet, Bit
  <2>5. u.r = 1
    BY <2>3, <2>4
  <2>6. u = Row({}, {}, 1)
    BY <2>1, <2>3, <2>5 DEF RowSet, Row
  <2> QED BY <1>8, <2>6
<1>15. Row({}, {q}, 0) \in KX
  <2>1. Px(Row({}, {q}, 1), q) = Row({}, {q}, (1 + Bit({q}, q)) % 2)
    <3>1. Row({}, {q}, 1) \in RowSet
      BY PauliRows
    <3> QED BY <1>10, <3>1 DEF Row
  <2>2. (1 + Bit({q}, q)) % 2 = 0
    BY DEF Bit
  <2> QED BY <1>9, <2>1, <2>2
<1> HIDE DEF KX
<1>16. SolveDeterministic(rx, q) = 0
  BY <1>5, <1>6, <1>7, <1>12, <1>13, <1>14, <1>15, AnswerIs
<1> QED BY <1>5, <1>7, <1>16 DEF Reads, rx, in

LEMMA MrReads ==
  ASSUME NEW rs \in [Lines -> RowSet], NEW d, Partners(rs, d),
         NEW q \in Qubits, NEW m \in Mr(rs, q)
  PROVE  /\ m[2] \in [Lines -> RowSet]
         /\ \E dm : Partners(m[2], dm)
         /\ Reads(m[2], q, 0)
<1>1. PICK k \in Mz(rs, q) :
        m = <<k[1], IF k[1] = 1 THEN Apply(k[2], [gate |-> "X", a |-> q]) ELSE k[2]>>
  BY DEF Mr
<1>2. /\ k[1] \in {0, 1} /\ k[2] \in [Lines -> RowSet]
      /\ \E dk : Partners(k[2], dk)
      /\ Reads(k[2], q, k[1])
  BY MzReads
<1>3. m[2] = IF k[1] = 1 THEN Apply(k[2], [gate |-> "X", a |-> q]) ELSE k[2]
  BY <1>1
<1>4. CASE k[1] = 0
  BY <1>2, <1>3, <1>4
<1>5. CASE k[1] = 1
  <2> DEFINE rk == k[2]
             rx == Apply(rk, [gate |-> "X", a |-> q])
  <2>1. rk \in [Lines -> RowSet] /\ (\E dk : Partners(rk, dk)) /\ Reads(rk, q, 1)
    BY <1>2, <1>5
  <2> HIDE DEF rk
  <2>2. rx \in [Lines -> RowSet] /\ (\E dx : Partners(rx, dx)) /\ Reads(rx, q, 0)
    BY <2>1, FlipReads
  <2>3. m[2] = rx
    BY <1>3, <1>5 DEF rk
  <2> QED BY <2>2, <2>3
<1> QED BY <1>2, <1>4, <1>5

-----------------------------------------------------------------------------
(* Every step. *)

LEMMA StabilizerNext ==
  ASSUME StabilizerIInv, Repeatable, [Next]_vars
  PROVE  StabilizerIInv' /\ Repeatable'
<1>1. PICK d : Partners(rows, d)
  BY DEF StabilizerIInv
<1>2. rows \in [Lines -> RowSet] /\ last \in {Nothing} \cup [q : Qubits, value : {0, 1}]
  BY DEF StabilizerIInv
<1>3. ASSUME NEW in \in Instrs, ApplyGate(in) PROVE StabilizerIInv' /\ Repeatable'
  <2>1. rows' = Apply(rows, in) /\ last' = Nothing
    BY <1>3 DEF ApplyGate
  <2>2. rows' \in [Lines -> RowSet] /\ \E dg : Partners(rows', dg)
    BY <1>1, <1>2, <2>1, GatePartners
  <2> QED BY <2>1, <2>2 DEF StabilizerIInv, Repeatable
<1>4. ASSUME NEW q \in Qubits, NEW o \in {0, 1}, last' = [q |-> q, value |-> o],
             rows' \in [Lines -> RowSet], \E dm : Partners(rows', dm), Reads(rows', q, o)
      PROVE  StabilizerIInv' /\ Repeatable'
  <2>1. last'.q = q /\ last'.value = o /\ last' \in [q : Qubits, value : {0, 1}]
    BY <1>4
  <2>2. Repeatable'
    BY <1>4, <2>1 DEF Repeatable, Reads
  <2> QED BY <1>4, <2>1, <2>2 DEF StabilizerIInv
<1>5. ASSUME NEW q \in Qubits, Measure(q) PROVE StabilizerIInv' /\ Repeatable'
  <2>1. PICK m \in Mz(rows, q) : rows' = m[2] /\ last' = [q |-> q, value |-> m[1]]
    BY <1>5 DEF Measure
  <2>2. /\ m[1] \in {0, 1} /\ m[2] \in [Lines -> RowSet]
        /\ \E dm : Partners(m[2], dm)
        /\ Reads(m[2], q, m[1])
    BY <1>1, <1>2, MzReads
  <2> QED BY <1>4, <2>1, <2>2
<1>6. ASSUME NEW q \in Qubits, MeasureReset(q) PROVE StabilizerIInv' /\ Repeatable'
  <2>1. PICK m \in Mr(rows, q) : rows' = m[2] /\ last' = [q |-> q, value |-> 0]
    BY <1>6 DEF MeasureReset
  <2>2. /\ m[2] \in [Lines -> RowSet]
        /\ \E dm : Partners(m[2], dm)
        /\ Reads(m[2], q, 0)
    BY <1>1, <1>2, MrReads
  <2> QED BY <1>4, <2>1, <2>2
<1>7. CASE UNCHANGED vars
  <2>1. rows' = rows /\ last' = last
    BY <1>7 DEF vars
  <2> QED BY <2>1 DEF StabilizerIInv, Repeatable
<1> QED BY <1>3, <1>5, <1>6, <1>7 DEF Next

LEMMA StabilizerIInvHolds == Spec => [](StabilizerIInv /\ Repeatable)
<1>1. Init => StabilizerIInv /\ Repeatable
  <2>1. Init => Repeatable
    BY DEF Init, Repeatable
  <2> QED BY <2>1, InitPartners
<1>2. (StabilizerIInv /\ Repeatable) /\ [Next]_vars => (StabilizerIInv /\ Repeatable)'
  BY StabilizerNext
<1> QED BY <1>1, <1>2, PTL DEF Spec

(* What a measurement or a reset leaves in a qubit is what the next         *)
(* measurement of it reads, without a random bit, for every number of       *)
(* qubits and every circuit before it.                                      *)
THEOREM MeasurementsRepeat == Spec => []Repeatable
BY StabilizerIInvHolds, PTL

(* A measurement that draws no random bit has an answer: the "invalid       *)
(* state" of solve_deterministic, in which something of the target is left, *)
(* is never reached, whichever row the elimination takes for a pivot.       *)
LEMMA AlwaysSolvable == Spec => []Solvable
<1>1. StabilizerIInv => Solvable
  <2> SUFFICES ASSUME StabilizerIInv, NEW q \in Qubits, ~ HasRandomBit(rows, q)
               PROVE  Residue(rows, q).x = {} /\ Residue(rows, q).z = {}
    BY DEF Solvable
  <2>1. PICK d : Partners(rows, d)
    BY DEF StabilizerIInv
  <2>2. Blank(Residue(rows, q))
    BY <2>1, NothingLeft DEF StabilizerIInv
  <2> QED BY <2>2 DEF Blank
<1> QED BY <1>1, StabilizerIInvHolds, PTL

-----------------------------------------------------------------------------
(* The exact state.  Its group is, up to signs, what commutes with every row; *)
(* a Pauli operator in it is its own inverse (Odd is 0), so that its phase is  *)
(* a sign.                                                                     *)

OpSet    == [x : SUBSET Qubits, z : SUBSET Qubits, p : 0 .. 3]
Odd(op)  == (op.p + Par(op.x \cap op.z)) % 2
Has(G, w) == \E op \in G : op.x = w.x /\ op.z = w.z

StateOf(G, rs) ==
  /\ G \subseteq OpSet /\ \A op \in G : Odd(op) = 0
  /\ \A w \in RowSet : (\A i \in Lines : Anti(w, rs[i]) = 0) <=> Has(G, w)

GroupIInv == StateOf(group, rows)

LEMMA MulFields ==
  ASSUME NEW A, NEW B, A.p \in 0 .. 3, B.p \in 0 .. 3, IsFiniteSet(A.z)
  PROVE  /\ Mul(A, B).x = SymDiff(A.x, B.x) /\ Mul(A, B).z = SymDiff(A.z, B.z)
         /\ Mul(A, B).p \in 0 .. 3 /\ Mul(A, B).p % 2 = (A.p + B.p) % 2
         /\ Mul(A, B) = [x |-> SymDiff(A.x, B.x), z |-> SymDiff(A.z, B.z), p |-> Mul(A, B).p]
<1> DEFINE k == Cardinality(A.z \cap B.x)
<1>1. k \in Nat
  BY FS_Intersection, FS_CardinalityType
<1>2. Mul(A, B) = [x |-> SymDiff(A.x, B.x), z |-> SymDiff(A.z, B.z), p |-> (A.p + B.p + 2 * k) % 4]
  BY DEF Mul
<1> HIDE DEF k
<1>3. \A a, b \in 0 .. 3, n \in Nat : (a + b + 2 * n) % 4 \in 0 .. 3 /\ ((a + b + 2 * n) % 4) % 2 = (a + b) % 2
  OBVIOUS
<1> QED BY <1>1, <1>2, <1>3

(* The factors of the images: every one has its masks and an even phase, but *)
(* for Y.                                                                    *)
LEMMA Factors ==
  /\ One = [x |-> {}, z |-> {}, p |-> 0]
  /\ \A q : /\ PauliX(q) = [x |-> {q}, z |-> {}, p |-> 0]
            /\ PauliZ(q) = [x |-> {}, z |-> {q}, p |-> 0]
            /\ Neg(PauliX(q)) = [x |-> {q}, z |-> {}, p |-> 2]
            /\ Neg(PauliZ(q)) = [x |-> {}, z |-> {q}, p |-> 2]
            /\ PauliY(q) = [x |-> {q}, z |-> {q}, p |-> 1]
            /\ Neg(PauliY(q)) = [x |-> {q}, z |-> {q}, p |-> 3]
  /\ \A c, t : c # t =>
       /\ Mul(PauliX(c), PauliX(t)) = [x |-> {c, t}, z |-> {}, p |-> 0]
       /\ Mul(PauliZ(c), PauliZ(t)) = [x |-> {}, z |-> {c, t}, p |-> 0]
<1>1. One = [x |-> {}, z |-> {}, p |-> 0]
  BY DEF One
<1>2. \A q : /\ PauliX(q) = [x |-> {q}, z |-> {}, p |-> 0]
             /\ PauliZ(q) = [x |-> {}, z |-> {q}, p |-> 0]
  BY DEF PauliX, PauliZ
<1>3. \A k, x, z, p : Phase(k, [x |-> x, z |-> z, p |-> p]) = [x |-> x, z |-> z, p |-> (p + k) % 4]
  BY DEF Phase
<1>4. Cardinality({}) = 0
  BY FS_EmptySet
<1>5. (0 + 0 + 2 * 0) % 4 = 0 /\ (0 + 2) % 4 = 2 /\ (0 + 1) % 4 = 1 /\ (1 + 2) % 4 = 3
  OBVIOUS
<1>6. \A A, x, z : {} \cap A = {} /\ A \cap {} = {} /\ SymDiff(A, {}) = A /\ SymDiff({}, A) = A
  BY DEF SymDiff
<1>7. \A x, z : /\ Phase(2, [x |-> x, z |-> z, p |-> 0]) = [x |-> x, z |-> z, p |-> 2]
                /\ Phase(1, [x |-> x, z |-> z, p |-> 0]) = [x |-> x, z |-> z, p |-> 1]
                /\ Phase(2, [x |-> x, z |-> z, p |-> 1]) = [x |-> x, z |-> z, p |-> 3]
  BY <1>3, <1>5
<1>13. \A q : /\ Neg(PauliX(q)) = [x |-> {q}, z |-> {}, p |-> 2]
              /\ Neg(PauliZ(q)) = [x |-> {}, z |-> {q}, p |-> 2]
  BY <1>2, <1>7 DEF Neg
<1>8. \A A, B : /\ Mul([x |-> A, z |-> {}, p |-> 0], [x |-> B, z |-> {}, p |-> 0])
                     = [x |-> SymDiff(A, B), z |-> {}, p |-> 0]
                /\ Mul([x |-> {}, z |-> A, p |-> 0], [x |-> {}, z |-> B, p |-> 0])
                     = [x |-> {}, z |-> SymDiff(A, B), p |-> 0]
                /\ Mul([x |-> A, z |-> {}, p |-> 0], [x |-> {}, z |-> B, p |-> 0])
                     = [x |-> A, z |-> B, p |-> 0]
  BY <1>4, <1>5, <1>6 DEF Mul
<1>9. \A q : PauliY(q) = [x |-> {q}, z |-> {q}, p |-> 1]
  <2> SUFFICES ASSUME NEW q PROVE PauliY(q) = [x |-> {q}, z |-> {q}, p |-> 1]
    OBVIOUS
  <2>1. Mul(PauliX(q), PauliZ(q)) = [x |-> {q}, z |-> {q}, p |-> 0]
    BY <1>2, <1>8
  <2> QED BY <1>7, <2>1 DEF PauliY
<1>10. \A q : Neg(PauliY(q)) = [x |-> {q}, z |-> {q}, p |-> 3]
  BY <1>7, <1>9 DEF Neg
<1>11. \A c, t : c # t => SymDiff({c}, {t}) = {c, t}
  BY DEF SymDiff
<1>12. \A c, t : c # t =>
         /\ Mul(PauliX(c), PauliX(t)) = [x |-> {c, t}, z |-> {}, p |-> 0]
         /\ Mul(PauliZ(c), PauliZ(t)) = [x |-> {}, z |-> {c, t}, p |-> 0]
  <2> SUFFICES ASSUME NEW c, NEW t, c # t
               PROVE  /\ Mul(PauliX(c), PauliX(t)) = [x |-> {c, t}, z |-> {}, p |-> 0]
                      /\ Mul(PauliZ(c), PauliZ(t)) = [x |-> {}, z |-> {c, t}, p |-> 0]
    OBVIOUS
  <2>1. /\ Mul(PauliX(c), PauliX(t)) = [x |-> SymDiff({c}, {t}), z |-> {}, p |-> 0]
        /\ Mul(PauliZ(c), PauliZ(t)) = [x |-> {}, z |-> SymDiff({c}, {t}), p |-> 0]
    BY <1>2, <1>8
  <2>2. SymDiff({c}, {t}) = {c, t}
    BY <1>11
  <2> QED BY <2>1, <2>2
<1> QED BY <1>1, <1>2, <1>9, <1>13, <1>10, <1>12

LEMMA MulTwice ==
  ASSUME NEW A, NEW B, NEW C, A.p \in 0 .. 3, B.p \in 0 .. 3, C.p \in 0 .. 3,
         IsFiniteSet(A.z), IsFiniteSet(B.z)
  PROVE  /\ Mul(Mul(A, B), C).x = SymDiff(SymDiff(A.x, B.x), C.x)
         /\ Mul(Mul(A, B), C).z = SymDiff(SymDiff(A.z, B.z), C.z)
         /\ Mul(Mul(A, B), C).p \in 0 .. 3
         /\ Mul(Mul(A, B), C).p % 2 = (((A.p + B.p) % 2) + C.p) % 2
         /\ Mul(Mul(A, B), C) = [x |-> SymDiff(SymDiff(A.x, B.x), C.x),
                                 z |-> SymDiff(SymDiff(A.z, B.z), C.z),
                                 p |-> Mul(Mul(A, B), C).p]
<1> DEFINE M == Mul(A, B)
<1>1. /\ M.x = SymDiff(A.x, B.x) /\ M.z = SymDiff(A.z, B.z)
      /\ M.p \in 0 .. 3 /\ M.p % 2 = (A.p + B.p) % 2
  BY MulFields
<1>2. IsFiniteSet(M.z)
  BY <1>1, ParSum
<1> HIDE DEF M
<1>3. /\ Mul(M, C).x = SymDiff(M.x, C.x) /\ Mul(M, C).z = SymDiff(M.z, C.z)
      /\ Mul(M, C).p \in 0 .. 3 /\ Mul(M, C).p % 2 = (M.p + C.p) % 2
      /\ Mul(M, C) = [x |-> SymDiff(M.x, C.x), z |-> SymDiff(M.z, C.z), p |-> Mul(M, C).p]
  BY <1>1, <1>2, MulFields
<1>4. \A m, c \in 0 .. 3 : (m + c) % 2 = ((m % 2) + c) % 2
  OBVIOUS
<1>5. Mul(M, C).p % 2 = (((A.p + B.p) % 2) + C.p) % 2
  BY <1>1, <1>3, <1>4
<1> QED BY <1>1, <1>3, <1>5 DEF M

(* A product with factors on one qubit. *)
SamePhase(op, B, C, m, a) ==
  ((((((op.p % 2) + B.p) % 2) + C.p) % 2) + Bit(m.x \cap m.z, a)) % 2
    = ((op.p % 2) + Bit(op.x \cap op.z, a)) % 2

OnQubit(B, a) == B.x \subseteq {a} /\ B.z \subseteq {a} /\ B.p \in 0 .. 3

WithFactors(op, B, C, m, a) ==
  /\ m.x = SymDiff(SymDiff(op.x \ {a}, B.x), C.x)
  /\ m.z = SymDiff(SymDiff(op.z \ {a}, B.z), C.z)
  /\ m \in OpSet
  /\ SamePhase(op, B, C, m, a) => Odd(m) = Odd(op)

LEMMA SoleImage ==
  \A op \in OpSet, a \in Qubits : \A B, C :
     OnQubit(B, a) /\ OnQubit(C, a)
       => WithFactors(op, B, C, Mul(Mul(Without(op, {a}), B), C), a)
<1> SUFFICES ASSUME NEW op \in OpSet, NEW a \in Qubits, NEW B, NEW C,
                    OnQubit(B, a), OnQubit(C, a),
                    NEW m, m = Mul(Mul(Without(op, {a}), B), C)
             PROVE  WithFactors(op, B, C, m, a)
  OBVIOUS
<1> USE DEF OnQubit
<1> DEFINE A == Without(op, {a})
<1>1. /\ op = [x |-> op.x, z |-> op.z, p |-> op.p]
      /\ op.x \subseteq Qubits /\ op.z \subseteq Qubits /\ op.p \in 0 .. 3
  BY DEF OpSet
<1>2. A.x = op.x \ {a} /\ A.z = op.z \ {a} /\ A.p = op.p
  BY <1>1 DEF Without
<1>3. IsFiniteSet(A.z) /\ IsFiniteSet(B.z) /\ A.p \in 0 .. 3
  <2>1. A.z \subseteq Qubits /\ B.z \subseteq Qubits
    BY <1>1, <1>2
  <2> QED BY <1>1, <1>2, <2>1, QubitsFinite
<1> HIDE DEF A
<1>4. /\ Mul(Mul(A, B), C).x = SymDiff(SymDiff(A.x, B.x), C.x)
      /\ Mul(Mul(A, B), C).z = SymDiff(SymDiff(A.z, B.z), C.z)
      /\ Mul(Mul(A, B), C).p \in 0 .. 3
      /\ Mul(Mul(A, B), C).p % 2 = (((A.p + B.p) % 2) + C.p) % 2
      /\ Mul(Mul(A, B), C) = [x |-> SymDiff(SymDiff(A.x, B.x), C.x),
                              z |-> SymDiff(SymDiff(A.z, B.z), C.z),
                              p |-> Mul(Mul(A, B), C).p]
  BY <1>3, MulTwice
<1>5. m = Mul(Mul(A, B), C)
  BY DEF A
<1>6. /\ m.x = SymDiff(SymDiff(op.x \ {a}, B.x), C.x)
      /\ m.z = SymDiff(SymDiff(op.z \ {a}, B.z), C.z)
      /\ m.p \in 0 .. 3 /\ m.p % 2 = (((op.p + B.p) % 2) + C.p) % 2
      /\ m = [x |-> m.x, z |-> m.z, p |-> m.p]
  BY <1>2, <1>4, <1>5
<1>7. m.x \subseteq Qubits /\ m.z \subseteq Qubits
  <2>1. {a} \subseteq Qubits
    OBVIOUS
  <2> QED BY <1>1, <1>6, <2>1 DEF SymDiff
<1>8. m \in OpSet
  BY <1>6, <1>7 DEF OpSet
<1> DEFINE V == m.x \cap m.z
           W == op.x \cap op.z
<1>9. V \ {a} = W \ {a}
  BY <1>6 DEF SymDiff
<1>10. IsFiniteSet(V) /\ IsFiniteSet(W)
  BY <1>1, <1>7, QubitsFinite
<1>11. Odd(m) = (m.p + Par(V)) % 2 /\ Odd(op) = (op.p + Par(W)) % 2
  BY DEF Odd
<1> HIDE DEF V, W
<1>12. /\ Par(V \ {a}) \in {0, 1}
       /\ Par(V) = (Par(V \ {a}) + Bit(V, a)) % 2
       /\ Par(W) = (Par(V \ {a}) + Bit(W, a)) % 2
  BY <1>9, <1>10, ParAt
<1>13. Bit(V, a) \in {0, 1} /\ Bit(W, a) \in {0, 1}
  BY DEF Bit
<1>14. \A k, v, w \in {0, 1}, p, b, c, o \in 0 .. 3 :
          /\ o % 2 = (((p + b) % 2) + c) % 2
          /\ ((((((p % 2) + b) % 2) + c) % 2) + v) % 2 = ((p % 2) + w) % 2
          => (o + ((k + v) % 2)) % 2 = (p + ((k + w) % 2)) % 2
  OBVIOUS
<1>15. ((((((op.p % 2) + B.p) % 2) + C.p) % 2) + Bit(V, a)) % 2 = ((op.p % 2) + Bit(W, a)) % 2
         => Odd(m) = Odd(op)
  BY <1>1, <1>6, <1>11, <1>12, <1>13, <1>14
<1>16. SamePhase(op, B, C, m, a) => Odd(m) = Odd(op)
  BY <1>15 DEF SamePhase, V, W
<1> QED BY <1>6, <1>8, <1>16 DEF WithFactors

Masks(op) == Row(op.x, op.z, 0)

(* The image of a product under a gate on one qubit, by the images of X and  *)
(* Z: what is left to show of a gate is arithmetic at that qubit.            *)
ActsAs(X, Z, a, op, g) ==
  /\ OnQubit(X, a) /\ OnQubit(Z, a)
  /\ g.x \ {a} = op.x \ {a} /\ g.z \ {a} = op.z \ {a}
  /\ (a \in g.x) <=> ((a \in op.x /\ a \in X.x) <=> ~ (a \in op.z /\ a \in Z.x))
  /\ (a \in g.z) <=> ((a \in op.x /\ a \in X.z) <=> ~ (a \in op.z /\ a \in Z.z))
  /\ ((IF a \in op.x THEN X.p ELSE 0) + (IF a \in op.z THEN Z.p ELSE 0) + Bit(g.x \cap g.z, a)) % 2
       = Bit(op.x \cap op.z, a)

Kept(m, op, g) == m.x = g.x /\ m.z = g.z /\ m \in OpSet /\ Odd(m) = Odd(op)

LEMMA SoleKeeps ==
  \A op \in OpSet : \A in, g :
     in.gate # "CNOT" /\ in.a \in Qubits /\ ActsAs(ImageX(in, in.a), ImageZ(in, in.a), in.a, op, g)
       => Kept(Image(in, op), op, g)
<1> SUFFICES ASSUME NEW op \in OpSet, NEW in, NEW g, in.gate # "CNOT", in.a \in Qubits,
                    NEW X, NEW Z, X = ImageX(in, in.a), Z = ImageZ(in, in.a),
                    ActsAs(X, Z, in.a, op, g)
             PROVE  Kept(Image(in, op), op, g)
  OBVIOUS
<1> DEFINE a == in.a
           B == IF a \in op.x THEN ImageX(in, a) ELSE One
           C == IF a \in op.z THEN ImageZ(in, a) ELSE One
           m == Mul(Mul(Without(op, {a}), B), C)
<1>1. Image(in, op) = m
  BY DEF Image
<1>2. B = IF a \in op.x THEN X ELSE One
  OBVIOUS
<1>3. C = IF a \in op.z THEN Z ELSE One
  OBVIOUS
<1>4. One.x = {} /\ One.z = {} /\ One.p = 0
  BY Factors
<1>5. /\ B.x = (IF a \in op.x THEN X.x ELSE {}) /\ B.z = (IF a \in op.x THEN X.z ELSE {}) /\ B.p = (IF a \in op.x THEN X.p ELSE 0)
      /\ C.x = (IF a \in op.z THEN Z.x ELSE {}) /\ C.z = (IF a \in op.z THEN Z.z ELSE {}) /\ C.p = (IF a \in op.z THEN Z.p ELSE 0)
  BY <1>2, <1>3, <1>4
<1> HIDE DEF B, C, m
<1>6. /\ B.x \subseteq {a} /\ B.z \subseteq {a} /\ C.x \subseteq {a} /\ C.z \subseteq {a}
      /\ B.p \in 0 .. 3 /\ C.p \in 0 .. 3 /\ a \in Qubits
  BY <1>5 DEF ActsAs, OnQubit
<1>7. /\ m.x = SymDiff(SymDiff(op.x \ {a}, B.x), C.x)
      /\ m.z = SymDiff(SymDiff(op.z \ {a}, B.z), C.z)
      /\ m \in OpSet
      /\ SamePhase(op, B, C, m, a) => Odd(m) = Odd(op)
  <2>1. OnQubit(B, a) /\ OnQubit(C, a)
    BY <1>6 DEF OnQubit
  <2>2. WithFactors(op, B, C, m, a)
    BY <2>1, SoleImage DEF m
  <2> QED BY <2>2 DEF WithFactors
<1>8. \A i : i # a => /\ (i \in m.x <=> i \in op.x) /\ (i \in m.z <=> i \in op.z)
  BY <1>6, <1>7 DEF SymDiff
<1>9. /\ (a \in m.x <=> (a \in B.x <=> a \notin C.x))
      /\ (a \in m.z <=> (a \in B.z <=> a \notin C.z))
  BY <1>7 DEF SymDiff
<1>10. m.x = g.x /\ m.z = g.z
  <2>1. (a \in m.x <=> a \in g.x) /\ (a \in m.z <=> a \in g.z)
    BY <1>5, <1>9 DEF ActsAs
  <2>2. \A i : i # a => (i \in g.x <=> i \in op.x) /\ (i \in g.z <=> i \in op.z)
    BY DEF ActsAs
  <2>3. \A i : (i \in m.x <=> i \in g.x) /\ (i \in m.z <=> i \in g.z)
    BY <1>8, <2>1, <2>2
  <2>4. m.x = (m.x \cap g.x) /\ g.x = (m.x \cap g.x) /\ m.z = (m.z \cap g.z) /\ g.z = (m.z \cap g.z)
    BY <2>3
  <2> QED BY <2>4
<1>11. op.p % 2 \in {0, 1}
  BY DEF OpSet
<1>13. Odd(m) = Odd(op)
  <2>1. (B.p + C.p + Bit(m.x \cap m.z, a)) % 2 = Bit(op.x \cap op.z, a)
    BY <1>5, <1>10 DEF ActsAs
  <2>2. Bit(m.x \cap m.z, a) \in {0, 1}
    BY DEF Bit
  <2>3. \A p, v \in {0, 1}, b, c \in 0 .. 3 :
          (((((p + b) % 2) + c) % 2) + v) % 2 = (p + ((b + c + v) % 2)) % 2
    OBVIOUS
  <2>4. SamePhase(op, B, C, m, a)
    BY <1>6, <1>11, <2>1, <2>2, <2>3 DEF SamePhase
  <2> QED BY <1>7, <2>4
<1> QED BY <1>1, <1>7, <1>10, <1>13 DEF Kept

(* What a gate on one qubit does to X and Z is what it does to the masks. *)
LEMMA SoleActs ==
  ASSUME NEW in \in [gate : Gates, a : Qubits], NEW op \in OpSet
  PROVE  ActsAs(ImageX(in, in.a), ImageZ(in, in.a), in.a, op, Gate(Masks(op), in))
<1> DEFINE a == in.a
           u == Masks(op)
           g == Gate(u, in)
<1>1. u.x = op.x /\ u.z = op.z
  BY DEF Masks, Row
<1>2. in.gate \in {"H", "S", "SDG", "X", "Z"} /\ a \in Qubits
  BY DEF Gates
<1>3. \A A : (Bit(A, a) = 1) <=> (a \in A)
  BY DEF Bit
<1>4. \A A, b : XorBit(A, a, b) \ {a} = A \ {a}
  BY DEF XorBit, SymDiff
<1>5. \A A, B : (a \in XorBit(A, a, Bit(B, a))) <=> (a \in A <=> a \notin B)
  BY <1>3 DEF XorBit, SymDiff
<1>11. /\ Bit(op.x \cap op.z, a) = IF a \in op.x /\ a \in op.z THEN 1 ELSE 0
       /\ (0 + 0 + 0) % 2 = 0 /\ (0 + 0 + 1) % 2 = 1 /\ (1 + 0 + 1) % 2 = 0 /\ (1 + 0 + 0) % 2 = 1
       /\ (3 + 0 + 1) % 2 = 0 /\ (3 + 0 + 0) % 2 = 1 /\ (0 + 2 + 0) % 2 = 0 /\ (0 + 2 + 1) % 2 = 1
       /\ (2 + 0 + 0) % 2 = 0 /\ (2 + 0 + 1) % 2 = 1
  BY DEF Bit
<1>6. CASE in.gate = "H"
  <2>1. ImageX(in, a) = [x |-> {}, z |-> {a}, p |-> 0] /\ ImageZ(in, a) = [x |-> {a}, z |-> {}, p |-> 0]
    BY <1>6, Factors DEF ImageX, ImageZ
  <2>2. g.x = (op.x \ {a}) \cup (op.z \cap {a}) /\ g.z = (op.z \ {a}) \cup (op.x \cap {a})
    BY <1>1, <1>6, GateFields DEF Gate
  <2> HIDE DEF g
  <2>4. Bit(g.x \cap g.z, a) = Bit(op.x \cap op.z, a)
    BY <2>2 DEF Bit
  <2> DEFINE X == ImageX(in, a)
             Z == ImageZ(in, a)
  <2>5. OnQubit(X, a) /\ OnQubit(Z, a)
    BY <2>1 DEF OnQubit
  <2>6. /\ g.x \ {a} = op.x \ {a} /\ g.z \ {a} = op.z \ {a}
        /\ (a \in g.x) <=> ((a \in op.x /\ a \in X.x) <=> ~ (a \in op.z /\ a \in Z.x))
        /\ (a \in g.z) <=> ((a \in op.x /\ a \in X.z) <=> ~ (a \in op.z /\ a \in Z.z))
    BY <2>1, <2>2
  <2>7. ((IF a \in op.x THEN X.p ELSE 0) + (IF a \in op.z THEN Z.p ELSE 0) + Bit(g.x \cap g.z, a)) % 2
          = Bit(op.x \cap op.z, a)
    BY <1>11, <2>1, <2>4
  <2> HIDE DEF X, Z
  <2> QED BY <2>5, <2>6, <2>7 DEF ActsAs, g, X, Z
<1>7. CASE in.gate = "S"
  <2>1. ImageX(in, a) = [x |-> {a}, z |-> {a}, p |-> 1] /\ ImageZ(in, a) = [x |-> {}, z |-> {a}, p |-> 0]
    BY <1>7, Factors DEF ImageX, ImageZ
  <2>2. g.x = op.x /\ g.z = XorBit(op.z, a, Bit(op.x, a))
    BY <1>1, <1>7, GateFields DEF Gate
  <2> HIDE DEF g
  <2>3. g.z \ {a} = op.z \ {a} /\ ((a \in g.z) <=> (a \in op.z <=> a \notin op.x))
    BY <1>4, <1>5, <2>2
  <2>4. Bit(g.x \cap g.z, a) = IF a \in op.x /\ a \notin op.z THEN 1 ELSE 0
    BY <2>2, <2>3 DEF Bit
  <2> DEFINE X == ImageX(in, a)
             Z == ImageZ(in, a)
  <2>5. OnQubit(X, a) /\ OnQubit(Z, a)
    BY <2>1 DEF OnQubit
  <2>6. /\ g.x \ {a} = op.x \ {a} /\ g.z \ {a} = op.z \ {a}
        /\ (a \in g.x) <=> ((a \in op.x /\ a \in X.x) <=> ~ (a \in op.z /\ a \in Z.x))
        /\ (a \in g.z) <=> ((a \in op.x /\ a \in X.z) <=> ~ (a \in op.z /\ a \in Z.z))
    BY <2>1, <2>2, <2>3
  <2>7. ((IF a \in op.x THEN X.p ELSE 0) + (IF a \in op.z THEN Z.p ELSE 0) + Bit(g.x \cap g.z, a)) % 2
          = Bit(op.x \cap op.z, a)
    BY <1>11, <2>1, <2>4
  <2> HIDE DEF X, Z
  <2> QED BY <2>5, <2>6, <2>7 DEF ActsAs, g, X, Z
<1>8. CASE in.gate = "SDG"
  <2>1. ImageX(in, a) = [x |-> {a}, z |-> {a}, p |-> 3] /\ ImageZ(in, a) = [x |-> {}, z |-> {a}, p |-> 0]
    BY <1>8, Factors DEF ImageX, ImageZ
  <2>2. g.x = op.x /\ g.z = XorBit(op.z, a, Bit(op.x, a))
    BY <1>1, <1>8, GateFields DEF Gate
  <2> HIDE DEF g
  <2>3. g.z \ {a} = op.z \ {a} /\ ((a \in g.z) <=> (a \in op.z <=> a \notin op.x))
    BY <1>4, <1>5, <2>2
  <2>4. Bit(g.x \cap g.z, a) = IF a \in op.x /\ a \notin op.z THEN 1 ELSE 0
    BY <2>2, <2>3 DEF Bit
  <2> DEFINE X == ImageX(in, a)
             Z == ImageZ(in, a)
  <2>5. OnQubit(X, a) /\ OnQubit(Z, a)
    BY <2>1 DEF OnQubit
  <2>6. /\ g.x \ {a} = op.x \ {a} /\ g.z \ {a} = op.z \ {a}
        /\ (a \in g.x) <=> ((a \in op.x /\ a \in X.x) <=> ~ (a \in op.z /\ a \in Z.x))
        /\ (a \in g.z) <=> ((a \in op.x /\ a \in X.z) <=> ~ (a \in op.z /\ a \in Z.z))
    BY <2>1, <2>2, <2>3
  <2>7. ((IF a \in op.x THEN X.p ELSE 0) + (IF a \in op.z THEN Z.p ELSE 0) + Bit(g.x \cap g.z, a)) % 2
          = Bit(op.x \cap op.z, a)
    BY <1>11, <2>1, <2>4
  <2> HIDE DEF X, Z
  <2> QED BY <2>5, <2>6, <2>7 DEF ActsAs, g, X, Z
<1>9. CASE in.gate = "X"
  <2>1. ImageX(in, a) = [x |-> {a}, z |-> {}, p |-> 0] /\ ImageZ(in, a) = [x |-> {}, z |-> {a}, p |-> 2]
    BY <1>9, Factors DEF ImageX, ImageZ
  <2>2. g.x = op.x /\ g.z = op.z
    BY <1>1, <1>9, GateFields DEF Gate
  <2> HIDE DEF g
  <2>4. Bit(g.x \cap g.z, a) = Bit(op.x \cap op.z, a)
    BY <2>2 DEF Bit
  <2> DEFINE X == ImageX(in, a)
             Z == ImageZ(in, a)
  <2>5. OnQubit(X, a) /\ OnQubit(Z, a)
    BY <2>1 DEF OnQubit
  <2>6. /\ g.x \ {a} = op.x \ {a} /\ g.z \ {a} = op.z \ {a}
        /\ (a \in g.x) <=> ((a \in op.x /\ a \in X.x) <=> ~ (a \in op.z /\ a \in Z.x))
        /\ (a \in g.z) <=> ((a \in op.x /\ a \in X.z) <=> ~ (a \in op.z /\ a \in Z.z))
    BY <2>1, <2>2
  <2>7. ((IF a \in op.x THEN X.p ELSE 0) + (IF a \in op.z THEN Z.p ELSE 0) + Bit(g.x \cap g.z, a)) % 2
          = Bit(op.x \cap op.z, a)
    BY <1>11, <2>1, <2>4
  <2> HIDE DEF X, Z
  <2> QED BY <2>5, <2>6, <2>7 DEF ActsAs, g, X, Z
<1>10. CASE in.gate = "Z"
  <2>1. ImageX(in, a) = [x |-> {a}, z |-> {}, p |-> 2] /\ ImageZ(in, a) = [x |-> {}, z |-> {a}, p |-> 0]
    BY <1>10, Factors DEF ImageX, ImageZ
  <2>2. g.x = op.x /\ g.z = op.z
    BY <1>1, <1>10, GateFields DEF Gate
  <2> HIDE DEF g
  <2>4. Bit(g.x \cap g.z, a) = Bit(op.x \cap op.z, a)
    BY <2>2 DEF Bit
  <2> DEFINE X == ImageX(in, a)
             Z == ImageZ(in, a)
  <2>5. OnQubit(X, a) /\ OnQubit(Z, a)
    BY <2>1 DEF OnQubit
  <2>6. /\ g.x \ {a} = op.x \ {a} /\ g.z \ {a} = op.z \ {a}
        /\ (a \in g.x) <=> ((a \in op.x /\ a \in X.x) <=> ~ (a \in op.z /\ a \in Z.x))
        /\ (a \in g.z) <=> ((a \in op.x /\ a \in X.z) <=> ~ (a \in op.z /\ a \in Z.z))
    BY <2>1, <2>2
  <2>7. ((IF a \in op.x THEN X.p ELSE 0) + (IF a \in op.z THEN Z.p ELSE 0) + Bit(g.x \cap g.z, a)) % 2
          = Bit(op.x \cap op.z, a)
    BY <1>11, <2>1, <2>4
  <2> HIDE DEF X, Z
  <2> QED BY <2>5, <2>6, <2>7 DEF ActsAs, g, X, Z
<1> QED BY <1>2, <1>6, <1>7, <1>8, <1>9, <1>10

(* CNOT moves no phase, and keeps the parity of the places with X and Z. *)
LEMMA CnotKeeps ==
  ASSUME NEW in \in [gate : {"CNOT"}, a : Qubits, b : Qubits], in.a # in.b, NEW op \in OpSet
  PROVE  Kept(Image(in, op), op, Gate(Masks(op), in))
<1> DEFINE c == in.a
           t == in.b
           A == Without(op, {c, t})
           B == IF c \in op.x THEN ImageX(in, c) ELSE One
           C == IF c \in op.z THEN ImageZ(in, c) ELSE One
           D == IF t \in op.x THEN ImageX(in, t) ELSE One
           F == IF t \in op.z THEN ImageZ(in, t) ELSE One
           l == Mul(Mul(A, B), C)
           m == Mul(Mul(l, D), F)
           g == Gate(Masks(op), in)
<1>1. in.gate = "CNOT" /\ c \in Qubits /\ t \in Qubits /\ c # t
  OBVIOUS
<1>2. Image(in, op) = m
  BY <1>1 DEF Image
<1>3. /\ op.x \subseteq Qubits /\ op.z \subseteq Qubits /\ op.p \in 0 .. 3
      /\ op = [x |-> op.x, z |-> op.z, p |-> op.p]
  BY DEF OpSet
<1>4. A.x = op.x \ {c, t} /\ A.z = op.z \ {c, t} /\ A.p = op.p
  BY <1>3 DEF Without
<1>5. /\ ImageX(in, c) = [x |-> {c, t}, z |-> {}, p |-> 0]
      /\ ImageZ(in, c) = [x |-> {}, z |-> {c}, p |-> 0]
      /\ ImageX(in, t) = [x |-> {t}, z |-> {}, p |-> 0]
      /\ ImageZ(in, t) = [x |-> {}, z |-> {c, t}, p |-> 0]
      /\ One = [x |-> {}, z |-> {}, p |-> 0]
  BY <1>1, Factors DEF ImageX, ImageZ
<1>6. /\ B.x = (IF c \in op.x THEN {c, t} ELSE {}) /\ B.z = {} /\ B.p = 0
      /\ C.x = {} /\ C.z = (IF c \in op.z THEN {c} ELSE {}) /\ C.p = 0
      /\ D.x = (IF t \in op.x THEN {t} ELSE {}) /\ D.z = {} /\ D.p = 0
      /\ F.x = {} /\ F.z = (IF t \in op.z THEN {c, t} ELSE {}) /\ F.p = 0
  BY <1>5
<1>7. /\ g.x = XorBit(op.x, t, Bit(op.x, c)) /\ g.z = XorBit(op.z, c, Bit(op.z, t))
  <2>1. Masks(op).x = op.x /\ Masks(op).z = op.z
    BY DEF Masks, Row
  <2> QED BY <1>1, <2>1, GateFields DEF Gate
<1> HIDE DEF A, B, C, D, F, g
<1>8. IsFiniteSet(A.z) /\ IsFiniteSet(B.z) /\ IsFiniteSet(D.z)
  <2>1. A.z \subseteq Qubits /\ {} \subseteq Qubits
    BY <1>3, <1>4
  <2> QED BY <1>6, <2>1, QubitsFinite
<1>9. /\ l.x = SymDiff(SymDiff(A.x, B.x), C.x) /\ l.z = SymDiff(SymDiff(A.z, B.z), C.z)
      /\ l.p \in 0 .. 3 /\ l.p % 2 = (((A.p + B.p) % 2) + C.p) % 2
  <2>1. A.p \in 0 .. 3 /\ B.p \in 0 .. 3 /\ C.p \in 0 .. 3
    BY <1>3, <1>4, <1>6
  <2> QED BY <1>8, <2>1, MulTwice
<1>10. IsFiniteSet(l.z)
  <2>1. l.z \subseteq Qubits
    BY <1>1, <1>3, <1>4, <1>6, <1>9 DEF SymDiff
  <2> QED BY <2>1, QubitsFinite
<1> HIDE DEF l
<1>11. /\ m.x = SymDiff(SymDiff(l.x, D.x), F.x) /\ m.z = SymDiff(SymDiff(l.z, D.z), F.z)
       /\ m.p \in 0 .. 3 /\ m.p % 2 = (((l.p + D.p) % 2) + F.p) % 2
       /\ m = [x |-> SymDiff(SymDiff(l.x, D.x), F.x), z |-> SymDiff(SymDiff(l.z, D.z), F.z), p |-> m.p]
  <2>1. D.p \in 0 .. 3 /\ F.p \in 0 .. 3
    BY <1>6
  <2> QED BY <1>8, <1>9, <1>10, <2>1, MulTwice
<1> HIDE DEF m, c, t
<1>12. m.p % 2 = op.p % 2
  <2>1. \A p, k \in 0 .. 3 : k % 2 = (((p + 0) % 2) + 0) % 2 => (((k + 0) % 2) + 0) % 2 = p % 2
    OBVIOUS
  <2> QED BY <1>3, <1>4, <1>6, <1>9, <1>11, <2>1
<1>13. m.x = g.x
  <2>1. m.x = SymDiff(SymDiff(op.x \ {c, t}, B.x), D.x)
    BY <1>4, <1>6, <1>9, <1>11 DEF SymDiff
  <2>2. \A i : i \in m.x <=> i \in g.x
    BY <1>1, <1>6, <1>7, <2>1 DEF SymDiff, XorBit, Bit
  <2>3. m.x = m.x \cap g.x /\ g.x = m.x \cap g.x
    BY <1>7, <2>1, <2>2 DEF SymDiff, XorBit
  <2> QED BY <2>3
<1>14. m.z = g.z
  <2>1. m.z = SymDiff(SymDiff(op.z \ {c, t}, C.z), F.z)
    BY <1>4, <1>6, <1>9, <1>11 DEF SymDiff
  <2>2. \A i : i \in m.z <=> i \in g.z
    BY <1>1, <1>6, <1>7, <2>1 DEF SymDiff, XorBit, Bit
  <2>3. m.z = m.z \cap g.z /\ g.z = m.z \cap g.z
    BY <1>7, <2>1, <2>2 DEF SymDiff, XorBit
  <2> QED BY <2>3
<1>15. m \in OpSet
  <2>1. g.x \subseteq Qubits /\ g.z \subseteq Qubits
    BY <1>1, <1>3, <1>7 DEF XorBit, SymDiff
  <2>2. m = [x |-> m.x, z |-> m.z, p |-> m.p]
    BY <1>11
  <2> QED BY <1>11, <1>13, <1>14, <2>1, <2>2 DEF OpSet
<1>16. Odd(m) = Odd(op)
  <2> DEFINE v == Par(m.x \cap m.z)
             w == Par(op.x \cap op.z)
  <2>1. v = w
    <3>1. IsFiniteSet(op.x) /\ IsFiniteSet(op.z)
      BY <1>3, QubitsFinite
    <3> QED BY <1>1, <1>7, <1>13, <1>14, <3>1, CnotPar
  <2>2. w \in {0, 1}
    BY <1>3, QubitsFinite, ParTypes
  <2>3. Odd(m) = (m.p + v) % 2 /\ Odd(op) = (op.p + w) % 2
    BY DEF Odd
  <2> HIDE DEF v, w
  <2>4. \A p, k \in 0 .. 3, b \in {0, 1} : k % 2 = p % 2 => (k + b) % 2 = (p + b) % 2
    OBVIOUS
  <2> QED BY <1>3, <1>11, <1>12, <2>1, <2>2, <2>3, <2>4
<1> QED BY <1>2, <1>13, <1>14, <1>15, <1>16 DEF Kept, g

LEMMA ImageKeeps == \A in \in Instrs, op \in OpSet : Kept(Image(in, op), op, Gate(Masks(op), in))
<1> SUFFICES ASSUME NEW in \in Instrs, NEW op \in OpSet
             PROVE  Kept(Image(in, op), op, Gate(Masks(op), in))
  OBVIOUS
<1>1. CASE in \in [gate : Gates, a : Qubits]
  <2>1. in.gate # "CNOT" /\ in.a \in Qubits
    BY <1>1 DEF Gates
  <2>2. ActsAs(ImageX(in, in.a), ImageZ(in, in.a), in.a, op, Gate(Masks(op), in))
    BY <1>1, SoleActs
  <2> QED BY <2>1, <2>2, SoleKeeps
<1>2. CASE in \in {i \in [gate : {"CNOT"}, a : Qubits, b : Qubits] : i.a # i.b}
  BY <1>2, CnotKeeps
<1> QED BY <1>1, <1>2 DEF Instrs

(* Rows with the same masks have the same state. *)
LEMMA SameState ==
  ASSUME NEW G, NEW rs, NEW rt, \A i \in Lines : rs[i].x = rt[i].x /\ rs[i].z = rt[i].z,
         StateOf(G, rs)
  PROVE  StateOf(G, rt)
<1>1. \A w : \A i \in Lines : Anti(w, rs[i]) = Anti(w, rt[i])
  BY DEF Anti
<1>2. ASSUME NEW w \in RowSet PROVE (\A i \in Lines : Anti(w, rt[i]) = 0) <=> Has(G, w)
  <2>1. (\A i \in Lines : Anti(w, rs[i]) = 0) <=> Has(G, w)
    BY DEF StateOf
  <2> QED BY <1>1, <2>1
<1> QED BY <1>2 DEF StateOf

LEMMA MasksFacts ==
  \A op \in OpSet : Masks(op) \in RowSet /\ Masks(op).x = op.x /\ Masks(op).z = op.z
BY DEF Masks, Row, RowSet, OpSet

(* A gate takes the masks of a row to those of its image: the sign aside. *)
LEMMA GateMasks ==
  \A in \in Instrs, u, v \in RowSet :
     u.x = v.x /\ u.z = v.z => Gate(u, in).x = Gate(v, in).x /\ Gate(u, in).z = Gate(v, in).z
<1> SUFFICES ASSUME NEW in \in Instrs, NEW u \in RowSet, NEW v \in RowSet, u.x = v.x, u.z = v.z
             PROVE  Gate(u, in).x = Gate(v, in).x /\ Gate(u, in).z = Gate(v, in).z
  OBVIOUS
<1>1. \A a : H(u, a).x = H(v, a).x /\ H(u, a).z = H(v, a).z
  <2> SUFFICES ASSUME NEW a PROVE H(u, a).x = H(v, a).x /\ H(u, a).z = H(v, a).z
    OBVIOUS
  <2>1. /\ H(u, a).x = (u.x \ {a}) \cup (u.z \cap {a}) /\ H(u, a).z = (u.z \ {a}) \cup (u.x \cap {a})
        /\ H(v, a).x = (v.x \ {a}) \cup (v.z \cap {a}) /\ H(v, a).z = (v.z \ {a}) \cup (v.x \cap {a})
    BY DEF H, Flip
  <2> QED BY <2>1
<1>3. \A a : /\ S(u, a).x = S(v, a).x /\ S(u, a).z = S(v, a).z
             /\ Sdg(u, a).x = Sdg(v, a).x /\ Sdg(u, a).z = Sdg(v, a).z
  BY GateFields
<1>4. \A a : /\ Px(u, a).x = Px(v, a).x /\ Px(u, a).z = Px(v, a).z
             /\ Pz(u, a).x = Pz(v, a).x /\ Pz(u, a).z = Pz(v, a).z
  BY GateFields
<1>2. \A c, t : Cnot(u, c, t).x = Cnot(v, c, t).x /\ Cnot(u, c, t).z = Cnot(v, c, t).z
  BY GateFields
<1> QED BY <1>1, <1>2, <1>3, <1>4, GateCases

LEMMA GateState ==
  ASSUME NEW rs \in [Lines -> RowSet], NEW G, StateOf(G, rs), NEW in \in Instrs
  PROVE  StateOf(Conjugate(G, in), Apply(rs, in))
<1> DEFINE ra == Apply(rs, in)
           Gi == Conjugate(G, in)
<1>1. G \subseteq OpSet /\ \A op \in G : Odd(op) = 0
  BY DEF StateOf
<1>2. \A op \in G : /\ Image(in, op).x = Gate(Masks(op), in).x
                    /\ Image(in, op).z = Gate(Masks(op), in).z
                    /\ Image(in, op) \in OpSet /\ Odd(Image(in, op)) = 0
  BY <1>1, ImageKeeps DEF Kept
<1>3. Gi = {Image(in, op) : op \in G}
  BY DEF Conjugate
<1>4. \A i \in Lines : ra[i] = Gate(rs[i], in)
  BY DEF Apply
<1> HIDE DEF ra, Gi
<1>5. Gi \subseteq OpSet /\ \A op \in Gi : Odd(op) = 0
  BY <1>2, <1>3
<1>6. ASSUME NEW w \in RowSet PROVE (\A i \in Lines : Anti(w, ra[i]) = 0) <=> Has(Gi, w)
  <2> DEFINE v == Gate(w, in)
             y == Gate(v, in)
  <2>1. v \in RowSet /\ y \in RowSet /\ y.x = w.x /\ y.z = w.z
    BY GateTypes, GateTwice
  <2>2. \A i \in Lines : Anti(w, ra[i]) = Anti(v, rs[i])
    <3> SUFFICES ASSUME NEW i \in Lines PROVE Anti(w, ra[i]) = Anti(v, rs[i])
      OBVIOUS
    <3>1. Anti(y, Gate(rs[i], in)) = Anti(v, rs[i])
      BY <2>1, GateAnti
    <3>2. Anti(y, ra[i]) = Anti(w, ra[i])
      BY <2>1 DEF Anti
    <3> QED BY <1>4, <3>1, <3>2
  <2>3. (\A i \in Lines : Anti(v, rs[i]) = 0) <=> Has(G, v)
    BY <2>1 DEF StateOf
  <2>4. Has(G, v) => Has(Gi, w)
    <3> SUFFICES ASSUME NEW op \in G, op.x = v.x, op.z = v.z PROVE Has(Gi, w)
      BY DEF Has
    <3>1. Masks(op) \in RowSet /\ Masks(op).x = v.x /\ Masks(op).z = v.z
      BY <1>1, MasksFacts
    <3>2. Gate(Masks(op), in).x = w.x /\ Gate(Masks(op), in).z = w.z
      BY <2>1, <3>1, GateMasks
    <3> QED BY <1>2, <1>3, <3>2 DEF Has
  <2>5. Has(Gi, w) => Has(G, v)
    <3> SUFFICES ASSUME NEW op \in G, Image(in, op).x = w.x, Image(in, op).z = w.z PROVE Has(G, v)
      BY <1>3 DEF Has
    <3> DEFINE u == Gate(Masks(op), in)
    <3>1. u \in RowSet /\ u.x = w.x /\ u.z = w.z
      BY <1>1, <1>2, MasksFacts, GateTypes
    <3>2. Gate(u, in).x = op.x /\ Gate(u, in).z = op.z
      BY <1>1, MasksFacts, GateTwice
    <3>3. Gate(u, in).x = v.x /\ Gate(u, in).z = v.z
      <4> HIDE DEF u
      <4> QED BY <3>1, GateMasks
    <3> QED BY <3>2, <3>3 DEF Has
  <2> QED BY <2>2, <2>3, <2>4, <2>5
<1> QED BY <1>5, <1>6 DEF StateOf, ra, Gi

LEMMA InitState == Init => GroupIInv
<1> SUFFICES ASSUME Init PROVE StateOf(group, rows)
  BY DEF GroupIInv
<1>1. group = {[x |-> {}, z |-> s, p |-> 0] : s \in SUBSET Qubits}
  BY DEF Init, ZeroGroup, Qubits
<1>2. \A op \in group : op \in OpSet /\ op.x = {} /\ Odd(op) = 0
  <2>1. \A s \in SUBSET Qubits : [x |-> {}, z |-> s, p |-> 0] \in OpSet
    BY DEF OpSet
  <2>2. \A s : {} \cap s = {}
    OBVIOUS
  <2>3. (0 + 0) % 2 = 0
    OBVIOUS
  <2>4. \A s : Odd([x |-> {}, z |-> s, p |-> 0]) = 0
    BY <2>2, <2>3, ParSmall DEF Odd
  <2> QED BY <1>1, <2>1, <2>4
<1>3. ASSUME NEW w \in RowSet PROVE (\A i \in Lines : Anti(w, rows[i]) = 0) <=> Has(group, w)
  <2>1. w.x \subseteq Qubits /\ w.z \subseteq Qubits
    BY DEF RowSet
  <2>2. \A i \in Lines : i - 1 \in Qubits /\ rows[i] = Row({}, {i - 1}, 0)
    BY StabilizerAssumption DEF Init, Zeros, Lines, Qubits
  <2>3. \A q \in Qubits : Anti(w, Row({}, {q}, 0)) = Bit(w.x, q)
    BY PauliRows
  <2>4. \A q \in Qubits : q + 1 \in Lines /\ (q + 1) - 1 = q
    BY StabilizerAssumption DEF Lines, Qubits
  <2>5. \A i \in Lines : Anti(w, rows[i]) = Bit(w.x, i - 1)
    BY <2>2, <2>3
  <2>6. (\A i \in Lines : Anti(w, rows[i]) = 0) <=> w.x = {}
    <3>1. (\A i \in Lines : Bit(w.x, i - 1) = 0) <=> \A q \in Qubits : q \notin w.x
      <4>1. ASSUME \A i \in Lines : Bit(w.x, i - 1) = 0, NEW q \in Qubits PROVE q \notin w.x
        <5>1. Bit(w.x, q) = 0
          BY <2>4, <4>1
        <5> QED BY <5>1 DEF Bit
      <4>2. ASSUME \A q \in Qubits : q \notin w.x, NEW i \in Lines PROVE Bit(w.x, i - 1) = 0
        BY <2>2, <4>2 DEF Bit
      <4> QED BY <4>1, <4>2
    <3> QED BY <2>1, <2>5, <3>1
  <2>7. Has(group, w) <=> w.x = {}
    <3>1. w.x = {} => Has(group, w)
      <4> DEFINE op == [x |-> {}, z |-> w.z, p |-> 0]
      <4>1. op \in group /\ op.x = {} /\ op.z = w.z
        BY <1>1, <2>1
      <4> HIDE DEF op
      <4> QED BY <4>1 DEF Has
    <3> QED BY <1>2, <3>1 DEF Has
  <2> QED BY <2>6, <2>7
<1> QED BY <1>2, <1>3 DEF StateOf

(* A random bit is drawn exactly when neither outcome is in the group. *)
LEMMA OutcomeIs ==
  \A q, o : o \in {0, 1} => Outcome(q, o) = [x |-> {}, z |-> {q}, p |-> 2 * o]
<1>1. (0 + 2 * 0) % 4 = 2 * 0 /\ (0 + 2 * 1) % 4 = 2 * 1
  OBVIOUS
<1>2. \A k, x, z, p : Phase(k, [x |-> x, z |-> z, p |-> p]) = [x |-> x, z |-> z, p |-> (p + k) % 4]
  BY DEF Phase
<1>3. \A q, o : Outcome(q, o) = [x |-> {}, z |-> {q}, p |-> (0 + 2 * o) % 4]
  <2> SUFFICES ASSUME NEW q, NEW o PROVE Outcome(q, o) = [x |-> {}, z |-> {q}, p |-> (0 + 2 * o) % 4]
    OBVIOUS
  <2>1. PauliZ(q) = [x |-> {}, z |-> {q}, p |-> 0]
    BY Factors
  <2>2. Outcome(q, o) = Phase(2 * o, [x |-> {}, z |-> {q}, p |-> 0])
    BY <2>1 DEF Outcome
  <2> QED BY <1>2, <2>2
<1> QED BY <1>1, <1>3

LEMMA OpenIs ==
  ASSUME NEW rs \in [Lines -> RowSet], NEW G, StateOf(G, rs), NEW q \in Qubits
  PROVE  HasRandomBit(rs, q) <=> ~ Determined(G, q)
<1> DEFINE z == Row({}, {q}, 0)
<1>1. z \in RowSet /\ z.x = {} /\ z.z = {q} /\ \A v \in RowSet : Anti(z, v) = Bit(v.x, q)
  BY PauliRows DEF Row
<1> HIDE DEF z
<1>2. ~ HasRandomBit(rs, q) <=> \A i \in Lines : Anti(z, rs[i]) = 0
  <2>1. DOMAIN rs = Lines /\ \A i \in Lines : Anti(z, rs[i]) = Bit(rs[i].x, q)
    BY <1>1
  <2> QED BY <2>1 DEF HasRandomBit, Bit
<1>3. ~ HasRandomBit(rs, q) <=> \E op \in G : op.x = {} /\ op.z = {q}
  BY <1>1, <1>2 DEF StateOf, Has
<1>4. (\E op \in G : op.x = {} /\ op.z = {q}) => Determined(G, q)
  <2> SUFFICES ASSUME NEW op \in G, op.x = {}, op.z = {q} PROVE Determined(G, q)
    OBVIOUS
  <2>1. op = [x |-> {}, z |-> {q}, p |-> op.p] /\ op.p \in 0 .. 3 /\ Odd(op) = 0
    BY DEF StateOf, OpSet
  <2>2. op.x \cap op.z = {}
    OBVIOUS
  <2>3. (op.p + 0) % 2 = 0
    BY <2>1, <2>2, ParSmall DEF Odd
  <2>4. op.p = 2 * 0 \/ op.p = 2 * 1
    BY <2>1, <2>3
  <2>5. op = Outcome(q, 0) \/ op = Outcome(q, 1)
    BY <2>1, <2>4, OutcomeIs
  <2> QED BY <2>5 DEF Determined
<1>5. Determined(G, q) => \E op \in G : op.x = {} /\ op.z = {q}
  <2>1. \A o \in {0, 1} : Outcome(q, o).x = {} /\ Outcome(q, o).z = {q}
    BY OutcomeIs
  <2> QED BY <2>1 DEF Determined
<1> QED BY <1>3, <1>4, <1>5

(* A random measurement, whatever the two say of its outcome. *)
LEMMA ProjectState ==
  ASSUME NEW rs \in [Lines -> RowSet], NEW G, StateOf(G, rs),
         NEW q \in Qubits, HasRandomBit(rs, q), NEW o \in {0, 1}, NEW b \in {0, 1}
  PROVE  StateOf(Project(G, q, b), Collapse(rs, q, o))
<1> DEFINE z  == Row({}, {q}, o)
           Z  == Outcome(q, b)
           rc == Collapse(rs, q, o)
           keep == {op \in G : q \notin op.x}
           Gp == Project(G, q, b)
<1>1. z \in RowSet /\ z.x = {} /\ z.z = {q} /\ \A v \in RowSet : Anti(z, v) = Bit(v.x, q) /\ Anti(v, z) = Bit(v.x, q)
  BY PauliRows DEF Row
<1>2. PICK p \in Lines : Taking(p, rs, rc, q, o)
  BY <1>1, CollapsePivot
<1> DEFINE y == rs[p]
<1>3. /\ y \in RowSet /\ q \in y.x
      /\ \A i \in Lines : rs[i] \in RowSet
      /\ \A i \in Lines : rc[i] = IF i = p THEN z ELSE IF q \in rs[i].x THEN XorRow(rs[i], y) ELSE rs[i]
  BY <1>2 DEF Taking
<1>4. Gp = keep \cup {Mul(op, Z) : op \in keep}
  BY DEF Project
<1>5. Z = [x |-> {}, z |-> {q}, p |-> 2 * b] /\ 2 * b \in 0 .. 3 /\ \A k \in 0 .. 3 : (k + 2 * b) % 2 = k % 2
  BY OutcomeIs
<1>6. /\ \A op \in G : op \in OpSet /\ Odd(op) = 0
      /\ \A w \in RowSet : (\A i \in Lines : Anti(w, rs[i]) = 0) <=> Has(G, w)
  BY DEF StateOf
<1> HIDE DEF z, Z, rc, y, Gp
<1>7. ASSUME NEW op \in keep
      PROVE  /\ Mul(op, Z).x = op.x /\ Mul(op, Z).z = SymDiff(op.z, {q})
             /\ Mul(op, Z) \in OpSet /\ Odd(Mul(op, Z)) = 0
  <2>1. /\ op \in OpSet /\ op.x \subseteq Qubits /\ op.z \subseteq Qubits /\ op.p \in 0 .. 3
        /\ q \notin op.x /\ IsFiniteSet(op.z) /\ Odd(op) = 0
    BY <1>6, QubitsFinite DEF OpSet
  <2>2. Z.p \in 0 .. 3 /\ Z.x = {} /\ Z.z = {q} /\ (op.p + Z.p) % 2 = op.p % 2
    BY <1>5, <2>1
  <2> DEFINE m == Mul(op, Z)
  <2>3. /\ m.x = SymDiff(op.x, Z.x) /\ m.z = SymDiff(op.z, Z.z)
        /\ m.p \in 0 .. 3 /\ m.p % 2 = (op.p + Z.p) % 2
        /\ m = [x |-> SymDiff(op.x, Z.x), z |-> SymDiff(op.z, Z.z), p |-> m.p]
    BY <2>1, <2>2, MulFields
  <2> HIDE DEF m
  <2>4. m.x = op.x /\ m.z = SymDiff(op.z, {q})
    BY <2>2, <2>3 DEF SymDiff
  <2>5. m \in OpSet
    <3>1. m.z \subseteq Qubits
      BY <2>1, <2>4 DEF SymDiff
    <3>2. m = [x |-> m.x, z |-> m.z, p |-> m.p]
      BY <2>3
    <3> QED BY <2>1, <2>3, <2>4, <3>1, <3>2 DEF OpSet
  <2>6. m.x \cap m.z = op.x \cap op.z
    BY <2>1, <2>4 DEF SymDiff
  <2>7. Par(op.x \cap op.z) \in {0, 1}
    BY <2>1, QubitsFinite, ParTypes
  <2>8. \A k, l \in 0 .. 3, c \in {0, 1} : k % 2 = l % 2 => (k + c) % 2 = (l + c) % 2
    OBVIOUS
  <2>9. Odd(m) = 0
    <3> DEFINE c == Par(op.x \cap op.z)
    <3>1. Odd(m) = (m.p + c) % 2 /\ Odd(op) = (op.p + c) % 2
      BY <2>6 DEF Odd
    <3>2. c \in {0, 1} /\ m.p \in 0 .. 3 /\ op.p \in 0 .. 3 /\ m.p % 2 = op.p % 2
      BY <2>1, <2>2, <2>3, <2>7
    <3> HIDE DEF c
    <3>3. Odd(m) = Odd(op)
      BY <2>8, <3>1, <3>2
    <3> QED BY <2>1, <3>3
  <2> QED BY <2>4, <2>5, <2>9 DEF m
<1>8. Gp \subseteq OpSet /\ \A op \in Gp : Odd(op) = 0
  BY <1>4, <1>6, <1>7
(* What commutes with Z of q commutes with a row as with the one before it. *)
<1>9. ASSUME NEW w \in RowSet, q \notin w.x, NEW i \in Lines
      PROVE  Anti(w, rc[i]) = IF i = p THEN 0
                              ELSE IF q \in rs[i].x THEN (Anti(w, rs[i]) + Anti(w, y)) % 2 ELSE Anti(w, rs[i])
  <2>1. Anti(w, z) = 0
    BY <1>1, <1>9 DEF Bit
  <2>2. Anti(w, XorRow(rs[i], y)) = (Anti(w, rs[i]) + Anti(w, y)) % 2
    BY <1>3, AntiSum
  <2> QED BY <1>3, <2>1, <2>2
<1>10. \A v \in RowSet : /\ XorRow(v, z) \in RowSet /\ XorRow(v, z).x = v.x
                         /\ XorRow(v, z).z = SymDiff(v.z, {q})
                         /\ \A i \in Lines : Anti(XorRow(v, z), rs[i]) = (Anti(v, rs[i]) + Bit(rs[i].x, q)) % 2
  <2> SUFFICES ASSUME NEW v \in RowSet
               PROVE  /\ XorRow(v, z) \in RowSet /\ XorRow(v, z).x = v.x
                      /\ XorRow(v, z).z = SymDiff(v.z, {q})
                      /\ \A i \in Lines : Anti(XorRow(v, z), rs[i]) = (Anti(v, rs[i]) + Bit(rs[i].x, q)) % 2
    OBVIOUS
  <2>1. SymDiff(v.x, {}) = v.x
    BY DEF SymDiff
  <2>2. XorRow(v, z).x = SymDiff(v.x, z.x) /\ XorRow(v, z).z = SymDiff(v.z, z.z)
    BY XorFields
  <2>3. XorRow(v, z) \in RowSet
    BY <1>1, XorTypes
  <2>4. ASSUME NEW i \in Lines
        PROVE  Anti(XorRow(v, z), rs[i]) = (Anti(v, rs[i]) + Bit(rs[i].x, q)) % 2
    <3>1. Anti(XorRow(v, z), rs[i]) = (Anti(v, rs[i]) + Anti(z, rs[i])) % 2
      BY <1>1, <1>3, AntiSum
    <3> QED BY <1>1, <1>3, <3>1
  <2> QED BY <1>1, <2>1, <2>2, <2>3, <2>4
<1>11. \A A : SymDiff(SymDiff(A, {q}), {q}) = A
  BY DEF SymDiff
<1>12. (0 + 0) % 2 = 0 /\ (1 + 1) % 2 = 0 /\ (0 + 1) % 2 = 1 /\ (1 + 0) % 2 = 1
  OBVIOUS
<1>13. \A w \in RowSet : \A i \in Lines : Anti(w, rs[i]) \in {0, 1} /\ Anti(w, y) \in {0, 1}
  BY <1>3, AntiTypes
<1>14. ASSUME NEW w \in RowSet, \A i \in Lines : Anti(w, rc[i]) = 0 PROVE Has(Gp, w)
  <2>1. Anti(w, z) = 0
    BY <1>3, <1>14
  <2>2. q \notin w.x
    BY <1>1, <2>1 DEF Bit
  <2>3. CASE Anti(w, y) = 0
    <3>1. \A i \in Lines : Anti(w, rs[i]) = 0
      BY <1>9, <1>12, <1>13, <1>14, <2>2, <2>3 DEF y
    <3>2. PICK op \in G : op.x = w.x /\ op.z = w.z
      BY <1>6, <3>1 DEF Has
    <3> QED BY <1>4, <2>2, <3>2 DEF Has
  <2>4. CASE Anti(w, y) # 0
    <3> DEFINE v == XorRow(w, z)
    <3>1. Anti(w, y) = 1
      BY <1>2, <1>13, <2>4
    <3>2. \A i \in Lines : Anti(w, rs[i]) = Bit(rs[i].x, q)
      <4> SUFFICES ASSUME NEW i \in Lines PROVE Anti(w, rs[i]) = Bit(rs[i].x, q)
        OBVIOUS
      <4>1. CASE i = p
        BY <1>3, <3>1, <4>1 DEF y, Bit
      <4>2. CASE i # p /\ q \in rs[i].x
        BY <1>9, <1>12, <1>13, <1>14, <2>2, <3>1, <4>2 DEF Bit
      <4>3. CASE i # p /\ q \notin rs[i].x
        BY <1>9, <1>14, <2>2, <4>3 DEF Bit
      <4> QED BY <4>1, <4>2, <4>3
    <3>3. v \in RowSet /\ v.x = w.x /\ v.z = SymDiff(w.z, {q}) /\ \A i \in Lines : Anti(v, rs[i]) = 0
      BY <1>10, <1>12, <3>2 DEF Bit
    <3> HIDE DEF v
    <3>4. PICK op \in G : op.x = v.x /\ op.z = v.z
      BY <1>6, <3>3 DEF Has
    <3>5. op \in keep
      BY <2>2, <3>3, <3>4
    <3>6. Mul(op, Z).x = w.x /\ Mul(op, Z).z = w.z
      BY <1>7, <1>11, <3>3, <3>4, <3>5
    <3>7. Mul(op, Z) \in Gp
      BY <1>4, <3>5
    <3> QED BY <3>6, <3>7 DEF Has
  <2> QED BY <2>3, <2>4
<1>15. ASSUME NEW w \in RowSet, Has(Gp, w) PROVE \A i \in Lines : Anti(w, rc[i]) = 0
  <2>1. ASSUME NEW op \in keep, op.x = w.x, op.z = w.z PROVE \A i \in Lines : Anti(w, rc[i]) = 0
    <3>1. q \notin w.x /\ Has(G, w)
      BY <2>1 DEF Has
    <3>2. \A i \in Lines : Anti(w, rs[i]) = 0
      BY <1>6, <3>1
    <3> QED BY <1>2, <1>9, <1>12, <3>1, <3>2 DEF y
  <2>2. ASSUME NEW op \in keep, Mul(op, Z).x = w.x, Mul(op, Z).z = w.z
        PROVE  \A i \in Lines : Anti(w, rc[i]) = 0
    <3> DEFINE v == XorRow(w, z)
    <3>1. q \notin w.x /\ op.x = w.x /\ op.z = SymDiff(w.z, {q}) /\ op \in G
      BY <1>7, <1>11, <2>2
    <3>2. /\ v \in RowSet /\ v.x = w.x /\ v.z = SymDiff(w.z, {q})
          /\ \A i \in Lines : Anti(v, rs[i]) = (Anti(w, rs[i]) + Bit(rs[i].x, q)) % 2
      BY <1>10
    <3> HIDE DEF v
    <3>3. \A i \in Lines : (Anti(w, rs[i]) + Bit(rs[i].x, q)) % 2 = 0
      <4>1. Has(G, v)
        BY <3>1, <3>2 DEF Has
      <4> QED BY <1>6, <3>2, <4>1
    <3>4. \A i \in Lines : Anti(w, rs[i]) = Bit(rs[i].x, q)
      BY <1>12, <1>13, <3>3 DEF Bit
    <3>5. Anti(w, y) = 1
      BY <1>3, <3>4 DEF y, Bit
    <3> QED BY <1>9, <1>12, <3>1, <3>4, <3>5 DEF Bit
  <2> QED BY <1>4, <1>15, <2>1, <2>2 DEF Has
<1> QED BY <1>8, <1>14, <1>15 DEF StateOf, rc, Gp

LEMMA GroupNext ==
  ASSUME StabilizerIInv, GroupIInv, [Next]_vars
  PROVE  GroupIInv'
<1> DEFINE flip(q) == [gate |-> "X", a |-> q]
<1>1. rows \in [Lines -> RowSet] /\ StateOf(group, rows)
  BY DEF StabilizerIInv, GroupIInv
<1>2. ASSUME NEW in \in Instrs, ApplyGate(in) PROVE GroupIInv'
  <2>1. rows' = Apply(rows, in) /\ group' = Conjugate(group, in)
    BY <1>2 DEF ApplyGate
  <2>2. StateOf(group', rows')
    BY <1>1, <2>1, GateState
  <2> QED BY <2>2 DEF GroupIInv, StateOf
<1>3. ASSUME NEW q \in Qubits, NEW m \in Mz(rows, q)
      PROVE  m[2] \in [Lines -> RowSet] /\ StateOf(Measured(q, m[1]), m[2])
  <2>1. CASE HasRandomBit(rows, q)
    <3>1. PICK o \in {0, 1} : m = <<o, Collapse(rows, q, o)>>
      BY <2>1 DEF Mz
    <3>2. m[1] = o /\ m[2] = Collapse(rows, q, o)
      BY <3>1
    <3>3. Measured(q, o) = Project(group, q, o)
      BY <1>1, <2>1, OpenIs DEF Measured
    <3>4. StateOf(Project(group, q, o), Collapse(rows, q, o))
      BY <1>1, <2>1, ProjectState
    <3>5. Collapse(rows, q, o) \in [Lines -> RowSet]
      BY <1>1, <2>1, PauliRows, CollapsePivot
    <3> QED BY <3>2, <3>3, <3>4, <3>5
  <2>2. CASE ~ HasRandomBit(rows, q)
    <3>1. m = <<SolveDeterministic(rows, q), rows>>
      BY <2>2 DEF Mz
    <3>2. m[2] = rows
      BY <3>1
    <3>3. Measured(q, m[1]) = group
      BY <1>1, <2>2, OpenIs DEF Measured
    <3> QED BY <1>1, <3>2, <3>3
  <2> QED BY <2>1, <2>2
<1>4. ASSUME NEW q \in Qubits, Measure(q) PROVE GroupIInv'
  <2>1. PICK m \in Mz(rows, q) : rows' = m[2] /\ group' = Measured(q, m[1])
    BY <1>4 DEF Measure
  <2>2. StateOf(group', rows')
    BY <1>3, <2>1
  <2> QED BY <2>2 DEF GroupIInv, StateOf
(* The flip behind a reset changes no mask, whoever takes it for needed. *)
<1>5. ASSUME NEW q \in Qubits, NEW rs \in [Lines -> RowSet], NEW G, StateOf(G, rs)
      PROVE  /\ StateOf(G, Apply(rs, flip(q)))
             /\ StateOf(Conjugate(G, flip(q)), rs) /\ StateOf(Conjugate(G, flip(q)), Apply(rs, flip(q)))
  <2> DEFINE rx == Apply(rs, flip(q))
             Gx == Conjugate(G, flip(q))
  <2>1. flip(q) \in Instrs
    BY DEF Instrs, Gates
  <2>2. \A i \in Lines : rx[i].x = rs[i].x /\ rx[i].z = rs[i].z
    <3> SUFFICES ASSUME NEW i \in Lines PROVE rx[i].x = rs[i].x /\ rx[i].z = rs[i].z
      OBVIOUS
    <3>1. rx[i] = Px(rs[i], q)
      BY DEF Apply, Gate
    <3> QED BY <3>1, GateFields
  <2>3. StateOf(Gx, rx)
    BY <1>5, <2>1, GateState
  <2> HIDE DEF rx, Gx
  <2>4. StateOf(G, rx)
    BY <1>5, <2>2, SameState
  <2>5. StateOf(Gx, rs)
    BY <2>2, <2>3, SameState
  <2> QED BY <2>3, <2>4, <2>5 DEF rx, Gx
<1>6. ASSUME NEW q \in Qubits, MeasureReset(q) PROVE GroupIInv'
  <2>1. PICK m \in Mr(rows, q) :
          /\ rows' = m[2]
          /\ group' = IF Exact(q, m[1]) = 1 THEN Conjugate(Measured(q, m[1]), flip(q))
                      ELSE Measured(q, m[1])
    BY <1>6 DEF MeasureReset
  <2>2. PICK k \in Mz(rows, q) : m = <<k[1], IF k[1] = 1 THEN Apply(k[2], flip(q)) ELSE k[2]>>
    BY DEF Mr
  <2>3. m[1] = k[1] /\ m[2] = IF k[1] = 1 THEN Apply(k[2], flip(q)) ELSE k[2]
    BY <2>2
  <2> DEFINE G == Measured(q, k[1])
             rk == k[2]
  <2>4. rk \in [Lines -> RowSet] /\ StateOf(G, rk)
    BY <1>3
  <2>5. rows' = rk \/ rows' = Apply(rk, flip(q))
    BY <2>1, <2>3
  <2>6. group' = G \/ group' = Conjugate(G, flip(q))
    BY <2>1, <2>3
  <2> HIDE DEF G, rk, flip
  <2>7. /\ StateOf(G, Apply(rk, flip(q)))
        /\ StateOf(Conjugate(G, flip(q)), rk) /\ StateOf(Conjugate(G, flip(q)), Apply(rk, flip(q)))
    BY <1>5, <2>4
  <2>8. StateOf(group', rows')
    BY <2>4, <2>5, <2>6, <2>7
  <2> QED BY <2>8 DEF GroupIInv, StateOf
<1>7. CASE UNCHANGED vars
  BY <1>1, <1>7 DEF vars, GroupIInv, StateOf
<1> QED BY <1>2, <1>4, <1>6, <1>7 DEF Next

LEMMA GroupIInvHolds == Spec => [](StabilizerIInv /\ GroupIInv)
<1>1. Init => GroupIInv
  BY InitState
<1>2. StabilizerIInv /\ GroupIInv /\ [Next]_vars => GroupIInv'
  BY GroupNext
<1> QED BY <1>1, <1>2, StabilizerIInvHolds, PTL DEF Spec

(* A random bit is drawn exactly when the exact state leaves the outcome    *)
(* open, and where it does not, the elimination has an answer: for every    *)
(* number of qubits, after any gates, measurements and resets.              *)
THEOREM DrawsWhenOpen == Spec => []RandomWhenOpen
<1>1. StabilizerIInv /\ GroupIInv => \A q \in Qubits : HasRandomBit(rows, q) <=> ~ Determined(group, q)
  BY OpenIs DEF StabilizerIInv, GroupIInv
<1>2. StabilizerIInv /\ GroupIInv /\ Solvable => RandomWhenOpen
  BY <1>1 DEF RandomWhenOpen
<1> QED BY <1>2, GroupIInvHolds, AlwaysSolvable, PTL

-----------------------------------------------------------------------------
(* The products of the rows. *)

(* f lists the products of the first rows. *)
FirstProducts(f, rs) ==
  /\ f \in [0 .. NumQubits -> SUBSET RowSet]
  /\ f[0] = {Row({}, {}, 0)}
  /\ \A i \in Lines : f[i] = f[i - 1] \cup {XorRow(t, rs[i]) : t \in f[i - 1]}

LEMMA ProductsEq ==
  ASSUME rows \in [Lines -> RowSet]
  PROVE  \E f : FirstProducts(f, rows) /\ Products = f[NumQubits]
<1> DEFINE V == SUBSET RowSet
           F == [i \in 1 .. NumQubits |-> [K \in V |-> K \cup {XorRow(t, rows[i]) : t \in K}]]
           G(g) == [i \in 0 .. NumQubits |->
                      IF i = 0 THEN {Row({}, {}, 0)}
                      ELSE g[i - 1] \cup {XorRow(t, rows[i]) : t \in g[i - 1]}]
<1>1. {Row({}, {}, 0)} \in V
  BY DEF Row, RowSet
<1>2. F \in [1 .. NumQubits -> [V -> V]]
  <2>1. \A i \in 1 .. NumQubits : rows[i] \in RowSet
    BY DEF Lines
  <2>2. \A i \in 1 .. NumQubits, K \in V : K \cup {XorRow(t, rows[i]) : t \in K} \in V
    BY <2>1, XorTypes
  <2> QED BY <2>2
<1>3. PICK g \in [0 .. NumQubits -> V] :
        g[0] = {Row({}, {}, 0)} /\ \A i \in 1 .. NumQubits : g[i] = F[i][g[i - 1]]
  <2> DEFINE e0 == {Row({}, {}, 0)}
  <2> HIDE DEF F, V, e0
  <2>1. Computes(NumQubits, V, e0)
    BY <1>1, StabilizerAssumption, Iterates DEF e0
  <2> QED BY <1>2, <2>1 DEF Computes, e0
<1>4. \A i \in 1 .. NumQubits : g[i] = g[i - 1] \cup {XorRow(t, rows[i]) : t \in g[i - 1]}
  <2> SUFFICES ASSUME NEW i \in 1 .. NumQubits
               PROVE  g[i] = g[i - 1] \cup {XorRow(t, rows[i]) : t \in g[i - 1]}
    OBVIOUS
  <2>1. i - 1 \in 0 .. NumQubits
    BY StabilizerAssumption
  <2>2. g[i - 1] \in V
    BY <2>1
  <2>3. F[i][g[i - 1]] = g[i - 1] \cup {XorRow(t, rows[i]) : t \in g[i - 1]}
    BY <2>2
  <2> HIDE DEF F
  <2> QED BY <1>3, <2>3
<1>5. g = G(g)
  <2>1. \A i \in 0 .. NumQubits : i = 0 \/ i \in 1 .. NumQubits
    BY StabilizerAssumption
  <2> HIDE DEF F
  <2> QED BY <1>3, <1>4, <2>1
<1>6. Products = (CHOOSE h : h = G(h))[NumQubits]
  BY DEF Products
<1> DEFINE h == CHOOSE f : f = G(f)
<1>7. h = G(h)
  <2> HIDE DEF G
  <2> QED BY <1>5
<1> HIDE DEF h, F, V
<1>8. /\ h[0] = {Row({}, {}, 0)}
      /\ \A i \in 1 .. NumQubits : h[i] = h[i - 1] \cup {XorRow(t, rows[i]) : t \in h[i - 1]}
  <2>1. h = [i \in 0 .. NumQubits |->
               IF i = 0 THEN {Row({}, {}, 0)}
               ELSE h[i - 1] \cup {XorRow(t, rows[i]) : t \in h[i - 1]}]
    BY <1>7
  <2>2. 0 \in 0 .. NumQubits /\ \A i \in 1 .. NumQubits : i \in 0 .. NumQubits /\ i # 0
    BY StabilizerAssumption
  <2> HIDE DEF G
  <2>3. h[0] = {Row({}, {}, 0)}
    BY <2>1, <2>2
  <2>4. \A i \in 1 .. NumQubits : h[i] = h[i - 1] \cup {XorRow(t, rows[i]) : t \in h[i - 1]}
    BY <2>1, <2>2
  <2> QED BY <2>3, <2>4
<1> HIDE DEF G
<1>9. \A i \in 0 .. NumQubits : h[i] = g[i]
  <2> DEFINE T == {i \in 0 .. NumQubits : h[i] = g[i]}
  <2>1. 0 \in T
    <3>1. h[0] = g[0]
      BY <1>3, <1>8
    <3>2. 0 \in 0 .. NumQubits
      BY StabilizerAssumption
    <3> QED BY <3>1, <3>2
  <2>2. ASSUME NEW i \in 1 .. NumQubits, i - 1 \in T PROVE i \in T
    <3>1. h[i - 1] = g[i - 1] /\ i \in 0 .. NumQubits
      BY <2>2, StabilizerAssumption
    <3>2. h[i] = g[i]
      BY <1>4, <1>8, <3>1
    <3> QED BY <3>1, <3>2
  <2> HIDE DEF T
  <2>3. 0 .. NumQubits \subseteq T
    BY <2>1, <2>2, StabilizerAssumption, Upwards
  <2> QED BY <2>3 DEF T
<1>10. Products = g[NumQubits]
  <2>1. Products = h[NumQubits] /\ NumQubits \in 0 .. NumQubits
    BY <1>6, StabilizerAssumption DEF h
  <2> QED BY <1>9, <2>1
<1>11. FirstProducts(g, rows)
  BY <1>3, <1>4 DEF FirstProducts, Lines, V
<1> QED BY <1>10, <1>11

(* They are closed, have the rows, and commute with each of them. *)
ProductsOf(K, rs, m) ==
  /\ Closed(K) /\ Row({}, {}, 0) \in K
  /\ \A i \in 1 .. m : rs[i] \in K
  /\ \A t \in K : \A j \in Lines : Anti(t, rs[j]) = 0

LEMMA ProductsStep ==
  ASSUME NEW rs \in [Lines -> RowSet], NEW d, Partners(rs, d),
         NEW m \in Lines, NEW K, ProductsOf(K, rs, m - 1)
  PROVE  ProductsOf(K \cup {XorRow(t, rs[m]) : t \in K}, rs, m)
<1> DEFINE r == rs[m]
           L == K \cup {XorRow(t, r) : t \in K}
<1>1. /\ K \subseteq RowSet /\ (\A u, v \in K : XorRow(u, v) \in K) /\ Row({}, {}, 0) \in K
      /\ \A t \in K : \A j \in Lines : Anti(t, rs[j]) = 0
      /\ r \in RowSet /\ \A j \in Lines : rs[j] \in RowSet /\ Anti(r, rs[j]) = 0
  BY DEF ProductsOf, Closed, Partners
<1>2. \A i \in 1 .. m - 1 : rs[i] \in K
  BY DEF ProductsOf
<1> HIDE DEF r
<1>3. L \subseteq RowSet
  BY <1>1, XorTypes
<1>4. ASSUME NEW t \in K, NEW u \in K
      PROVE  /\ XorRow(XorRow(t, r), u) = XorRow(XorRow(t, u), r)
             /\ XorRow(t, XorRow(u, r)) = XorRow(XorRow(t, u), r)
             /\ XorRow(XorRow(t, r), XorRow(u, r)) = XorRow(t, u)
  <2>1. t \in RowSet /\ u \in RowSet /\ r \in RowSet /\ XorRow(t, r) \in RowSet /\ XorRow(u, r) \in RowSet
    BY <1>1, XorTypes
  <2>2. XorRow(t, XorRow(u, r)) = XorRow(XorRow(t, u), r)
    BY <2>1, XorLaws
  <2>3. XorRow(XorRow(t, r), u) = XorRow(XorRow(t, u), r)
    <3>1. XorRow(XorRow(t, r), u) = XorRow(t, XorRow(r, u)) /\ XorRow(r, u) = XorRow(u, r)
      BY <2>1, XorLaws
    <3> QED BY <2>2, <3>1
  <2>4. XorRow(XorRow(t, r), XorRow(u, r)) = XorRow(t, u)
    <3>1. XorRow(XorRow(XorRow(t, r), u), r) = XorRow(XorRow(t, r), XorRow(u, r))
      BY <2>1, XorLaws
    <3>2. XorRow(t, u) \in RowSet
      BY <2>1, XorTypes
    <3>3. XorRow(XorRow(XorRow(t, u), r), r) = XorRow(t, u)
      BY <2>1, <3>2, XorLaws
    <3> QED BY <2>3, <3>1, <3>3
  <2> QED BY <2>2, <2>3, <2>4
<1>5. ASSUME NEW u \in L, NEW v \in L PROVE XorRow(u, v) \in L
  <2>1. PICK t \in K : u = t \/ u = XorRow(t, r)
    OBVIOUS
  <2>2. PICK s \in K : v = s \/ v = XorRow(s, r)
    OBVIOUS
  <2>3. XorRow(t, s) \in L /\ XorRow(XorRow(t, s), r) \in L
    BY <1>1
  <2> HIDE DEF L
  <2> QED BY <1>4, <2>1, <2>2, <2>3
<1>6. Row({}, {}, 0) \in L /\ r \in L
  <2>1. XorRow(Row({}, {}, 0), r) = r
    <3>1. XorRow(r, Row({}, {}, 0)) = r /\ XorRow(r, Row({}, {}, 0)) = XorRow(Row({}, {}, 0), r)
      BY <1>1, XorLaws
    <3> QED BY <3>1
  <2> QED BY <1>1, <2>1
<1>7. \A i \in 1 .. m : rs[i] \in L
  <2>1. \A i \in 1 .. m : i = m \/ i \in 1 .. m - 1
    BY DEF Lines
  <2> QED BY <1>2, <1>6, <2>1 DEF r
<1>8. ASSUME NEW t \in K, NEW j \in Lines PROVE Anti(XorRow(t, r), rs[j]) = 0
  <2>1. Anti(XorRow(t, r), rs[j]) = (Anti(t, rs[j]) + Anti(r, rs[j])) % 2
    BY <1>1, AntiSum
  <2>2. (0 + 0) % 2 = 0
    OBVIOUS
  <2> QED BY <1>1, <2>1, <2>2
<1>9. \A t \in L : \A j \in Lines : Anti(t, rs[j]) = 0
  BY <1>1, <1>8
<1> QED BY <1>3, <1>5, <1>6, <1>7, <1>9 DEF ProductsOf, Closed, r

LEMMA ProductsFacts ==
  ASSUME rows \in [Lines -> RowSet], NEW d, Partners(rows, d)
  PROVE  ProductsOf(Products, rows, NumQubits)
<1>1. PICK f : FirstProducts(f, rows) /\ Products = f[NumQubits]
  BY ProductsEq
<1> DEFINE T == {m \in 0 .. NumQubits : ProductsOf(f[m], rows, m)}
<1>2. 0 \in T
  <2> DEFINE o == Row({}, {}, 0)
  <2>1. o \in RowSet /\ XorRow(o, o) = o /\ Blank(o)
    <3>1. o \in RowSet /\ Blank(o)
      BY DEF Row, RowSet, Blank
    <3> QED BY <3>1, XorLaws
  <2>2. \A j \in Lines : Anti(o, rows[j]) = 0
    BY <2>1, AntiBlank
  <2>3. f[0] = {o} /\ 0 \in 0 .. NumQubits
    BY <1>1, StabilizerAssumption DEF FirstProducts
  <2> HIDE DEF o
  <2>4. ProductsOf({o}, rows, 0)
    BY <2>1, <2>2 DEF ProductsOf, Closed, o
  <2> QED BY <2>3, <2>4
<1>3. ASSUME NEW m \in 1 .. NumQubits, m - 1 \in T PROVE m \in T
  <2>1. f[m] = f[m - 1] \cup {XorRow(t, rows[m]) : t \in f[m - 1]} /\ m \in Lines
    BY <1>1 DEF FirstProducts, Lines
  <2>2. ProductsOf(f[m - 1], rows, m - 1)
    BY <1>3
  <2>3. ProductsOf(f[m], rows, m)
    BY <2>1, <2>2, ProductsStep
  <2> QED BY <2>3
<1> HIDE DEF T
<1>4. 0 .. NumQubits \subseteq T
  BY <1>2, <1>3, StabilizerAssumption, Upwards
<1>5. NumQubits \in T
  BY <1>4, StabilizerAssumption
<1> QED BY <1>1, <1>5 DEF T

(* The rows generate the exact state up to signs: for every number of       *)
(* qubits, after any gates, measurements and resets, the products of the    *)
(* rows have the masks of the group's operators and no others.              *)
THEOREM RowsAlwaysGenerate == Spec => []RowsGenerate
<1>1. StabilizerIInv /\ GroupIInv => RowsGenerate
  <2> SUFFICES ASSUME StabilizerIInv, GroupIInv PROVE Unsigned(Products) = Unsigned(group)
    BY DEF RowsGenerate
  <2>1. PICK d : Partners(rows, d)
    BY DEF StabilizerIInv
  <2>2. rows \in [Lines -> RowSet] /\ StateOf(group, rows)
    BY DEF StabilizerIInv, GroupIInv
  <2>3. ProductsOf(Products, rows, NumQubits)
    BY <2>1, <2>2, ProductsFacts
  <2>4. ASSUME NEW t \in Products PROVE <<t.x, t.z>> \in Unsigned(group)
    <3>1. t \in RowSet /\ \A i \in Lines : Anti(t, rows[i]) = 0
      BY <2>3 DEF ProductsOf, Closed
    <3>2. Has(group, t)
      BY <2>2, <3>1 DEF StateOf
    <3> QED BY <3>2 DEF Has, Unsigned
  <2>5. ASSUME NEW op \in group PROVE <<op.x, op.z>> \in Unsigned(Products)
    <3> DEFINE K == {u \in RowSet : \E t \in Products : t.x = u.x /\ t.z = u.z}
               w == Masks(op)
    <3>1. w \in RowSet /\ w.x = op.x /\ w.z = op.z
      BY <2>2, MasksFacts DEF StateOf
    <3>2. \A i \in Lines : Anti(w, rows[i]) = 0
      BY <2>2, <3>1 DEF StateOf, Has
    <3>3. Closed(K)
      <4>1. ASSUME NEW u \in K, NEW v \in K PROVE XorRow(u, v) \in K
        <5>1. PICK s \in Products, t \in Products : s.x = u.x /\ s.z = u.z /\ t.x = v.x /\ t.z = v.z
          OBVIOUS
        <5>2. XorRow(s, t) \in Products
          BY <2>3 DEF ProductsOf, Closed
        <5>3. XorRow(s, t).x = XorRow(u, v).x /\ XorRow(s, t).z = XorRow(u, v).z
          BY <5>1, XorFields
        <5>4. XorRow(u, v) \in RowSet
          BY XorTypes
        <5> QED BY <5>2, <5>3, <5>4
      <4> QED BY <4>1 DEF Closed
    <3>4. Row({}, {}, 0) \in K /\ Row({}, {}, 1) \in K
      BY <2>3 DEF ProductsOf, Row, RowSet
    <3>5. HasRows(K, rows)
      BY <2>2, <2>3 DEF HasRows, ProductsOf, Lines
    <3> HIDE DEF K, w
    <3>6. w \in K
      BY <2>1, <2>2, <3>1, <3>2, <3>3, <3>4, <3>5, CommutantIsSpanned
    <3>7. PICK t \in Products : t.x = w.x /\ t.z = w.z
      BY <3>6 DEF K
    <3> QED BY <3>1, <3>7 DEF Unsigned
  <2> QED BY <2>4, <2>5 DEF Unsigned
<1> QED BY <1>1, GroupIInvHolds, PTL

-----------------------------------------------------------------------------
(* What the rows say of the state, signs included: the products of rows are  *)
(* what every closed set with the rows has.                                  *)

Tab(rs)     == rs \in [Lines -> RowSet] /\ \E d : Partners(rs, d)
Says(rs, w) == \A K : Closed(K) /\ HasRows(K, rs) => w \in K

LEMMA SaysFacts ==
  ASSUME NEW rs \in [Lines -> RowSet]
  PROVE  /\ \A w : Says(rs, w) => w \in RowSet
         /\ \A i \in Lines : Says(rs, rs[i])
         /\ \A u, v : Says(rs, u) /\ Says(rs, v) => Says(rs, XorRow(u, v))
         /\ Says(rs, Row({}, {}, 0))
<1>1. Closed(RowSet) /\ HasRows(RowSet, rs)
  BY XorTypes DEF Closed, HasRows
<1>2. \A w : Says(rs, w) => w \in RowSet
  BY <1>1 DEF Says
<1>3. \A i \in Lines : Says(rs, rs[i])
  BY DEF Says, HasRows
<1>4. \A u, v : Says(rs, u) /\ Says(rs, v) => Says(rs, XorRow(u, v))
  BY DEF Says, Closed
<1>5. Says(rs, Row({}, {}, 0))
  <2>1. 1 \in Lines
    BY StabilizerAssumption DEF Lines
  <2>2. XorRow(rs[1], rs[1]) = Row({}, {}, 0)
    BY <2>1, XorLaws
  <2> QED BY <1>3, <1>4, <2>1, <2>2
<1> QED BY <1>2, <1>3, <1>4, <1>5

(* No operator has both signs. *)
LEMMA SaysOnce ==
  ASSUME NEW rs, Tab(rs), NEW x, NEW z, Says(rs, Row(x, z, 0)), Says(rs, Row(x, z, 1))
  PROVE  FALSE
<1>1. PICK d : Partners(rs, d)
  BY DEF Tab
<1>2. PICK K : Closed(K) /\ HasRows(K, rs) /\ Row({}, {}, 1) \notin K
  BY <1>1, SignsAgree DEF Tab
<1>3. Row(x, z, 0) \in K /\ Row(x, z, 1) \in K
  BY <1>2 DEF Says
<1>4. XorRow(Row(x, z, 0), Row(x, z, 1)) = Row({}, {}, 1)
  BY DEF XorRow, Row, SymDiff
<1> QED BY <1>2, <1>3, <1>4 DEF Closed

(* A gate that flips no sign, or flips signs as XOR does. *)
LEMMA SaysLinear ==
  ASSUME NEW rs \in [Lines -> RowSet], NEW rt \in [Lines -> RowSet], NEW g \in [RowSet -> RowSet],
         \A i \in Lines : rt[i] = g[rs[i]],
         \A u, v \in RowSet : g[XorRow(u, v)] = XorRow(g[u], g[v]),
         NEW w, Says(rs, w)
  PROVE  Says(rt, g[w])
<1> SUFFICES ASSUME NEW K, Closed(K), HasRows(K, rt) PROVE g[w] \in K
  BY DEF Says
<1> DEFINE J == {v \in RowSet : g[v] \in K}
<1>1. Closed(J)
  <2>1. \A u, v \in J : XorRow(u, v) \in RowSet /\ XorRow(g[u], g[v]) \in K
    BY XorTypes DEF Closed
  <2> QED BY <2>1 DEF Closed
<1>2. HasRows(J, rs)
  BY DEF HasRows
<1>3. w \in J
  BY <1>1, <1>2 DEF Says
<1> QED BY <1>3

LEMMA SaysGate ==
  ASSUME NEW rs, Tab(rs), NEW in \in Instrs, in.gate \in {"X", "Z", "CNOT"},
         NEW w, Says(rs, w)
  PROVE  Says(Apply(rs, in), Gate(w, in))
<1> DEFINE g == [u \in RowSet |-> Gate(u, in)]
<1>1. rs \in [Lines -> RowSet] /\ w \in RowSet
  BY SaysFacts DEF Tab
<1>2. g \in [RowSet -> RowSet] /\ \A u \in RowSet : g[u] = Gate(u, in)
  BY GateTypes
<1>3. Apply(rs, in) \in [Lines -> RowSet] /\ \A i \in Lines : Apply(rs, in)[i] = Gate(rs[i], in)
  BY <1>1, GateTypes DEF Apply
<1>4. \A u, v \in RowSet : Gate(XorRow(u, v), in) = XorRow(Gate(u, in), Gate(v, in))
  <2> SUFFICES ASSUME NEW u \in RowSet, NEW v \in RowSet
               PROVE  Gate(XorRow(u, v), in) = XorRow(Gate(u, in), Gate(v, in))
    OBVIOUS
  <2> DEFINE a == in.a
             b == in.b
             f(n, m) == (n + m) % 2
  <2>1. XorRow(u, v) = Row(SymDiff(u.x, v.x), SymDiff(u.z, v.z), f(u.r, v.r))
    BY DEF XorRow
  <2>2. \A m, n, c : Bit(SymDiff(m, n), c) = f(Bit(m, c), Bit(n, c)) /\ Bit(m, c) \in {0, 1}
    BY DEF Bit, SymDiff
  <2>3. u.r \in {0, 1} /\ v.r \in {0, 1} /\ u = Row(u.x, u.z, u.r) /\ v = Row(v.x, v.z, v.r)
    BY DEF RowSet, Row
  <2>4. \A k, l, m, n \in {0, 1} : f(f(k, l), f(m, n)) = f(f(k, m), f(l, n))
    OBVIOUS
  <2>5. \A x, z, r, c : /\ Px(Row(x, z, r), c) = Row(x, z, f(r, Bit(z, c)))
                        /\ Pz(Row(x, z, r), c) = Row(x, z, f(r, Bit(x, c)))
    BY DEF Px, Pz, Flip, Row
  <2>6. \A x, z, r, y, t, s : XorRow(Row(x, z, r), Row(y, t, s)) = Row(SymDiff(x, y), SymDiff(z, t), f(r, s))
    BY DEF XorRow, Row
  <2>7. CASE in.gate = "X"
    <3>1. \A q : Gate(q, in) = Px(q, a)
      BY <2>7 DEF Gate
    <3>2. f(f(u.r, v.r), Bit(SymDiff(u.z, v.z), a)) = f(f(u.r, Bit(u.z, a)), f(v.r, Bit(v.z, a)))
      BY <2>2, <2>3, <2>4
    <3> HIDE DEF f, a
    <3>3. Px(XorRow(u, v), a) = XorRow(Px(u, a), Px(v, a))
      BY <2>1, <2>3, <2>5, <2>6, <3>2
    <3> QED BY <3>1, <3>3
  <2>8. CASE in.gate = "Z"
    <3>1. \A q : Gate(q, in) = Pz(q, a)
      BY <2>8 DEF Gate
    <3>2. f(f(u.r, v.r), Bit(SymDiff(u.x, v.x), a)) = f(f(u.r, Bit(u.x, a)), f(v.r, Bit(v.x, a)))
      BY <2>2, <2>3, <2>4
    <3> HIDE DEF f, a
    <3>3. Pz(XorRow(u, v), a) = XorRow(Pz(u, a), Pz(v, a))
      BY <2>1, <2>3, <2>5, <2>6, <3>2
    <3> QED BY <3>1, <3>3
  <2>9. CASE in.gate = "CNOT"
    <3>1. \A q : Gate(q, in) = Cnot(q, a, b)
      BY <2>9 DEF Gate
    <3>2. \A m, n, c, e : XorBit(SymDiff(m, n), c, Bit(SymDiff(m, n), e))
                            = SymDiff(XorBit(m, c, Bit(m, e)), XorBit(n, c, Bit(n, e)))
      <4> SUFFICES ASSUME NEW m, NEW n, NEW c, NEW e
                   PROVE  XorBit(SymDiff(m, n), c, Bit(SymDiff(m, n), e))
                            = SymDiff(XorBit(m, c, Bit(m, e)), XorBit(n, c, Bit(n, e)))
        OBVIOUS
      <4>1. CASE e \in m /\ e \in n
        BY <4>1 DEF XorBit, Bit, SymDiff
      <4>2. CASE e \in m /\ e \notin n
        BY <4>2 DEF XorBit, Bit, SymDiff
      <4>3. CASE e \notin m /\ e \in n
        BY <4>3 DEF XorBit, Bit, SymDiff
      <4>4. CASE e \notin m /\ e \notin n
        BY <4>4 DEF XorBit, Bit, SymDiff
      <4> QED BY <4>1, <4>2, <4>3, <4>4
    <3>3. \A x, z, r : Cnot(Row(x, z, r), a, b) = Row(XorBit(x, b, Bit(x, a)), XorBit(z, a, Bit(z, b)), r)
      BY DEF Cnot, Row
    <3> HIDE DEF f, a, b
    <3>4. Cnot(XorRow(u, v), a, b) = XorRow(Cnot(u, a, b), Cnot(v, a, b))
      BY <2>1, <2>3, <2>6, <3>2, <3>3
    <3> QED BY <3>1, <3>4
  <2> QED BY <2>7, <2>8, <2>9
<1>5. \A u, v \in RowSet : g[XorRow(u, v)] = XorRow(g[u], g[v])
  BY <1>2, <1>4, XorTypes
<1> HIDE DEF g
<1>6. Says(Apply(rs, in), g[w])
  BY <1>1, <1>2, <1>3, <1>5, SaysLinear
<1> QED BY <1>1, <1>2, <1>6

(* Where no row has X and Z of a qubit, H of it flips no sign. *)
LEMMA SaysH ==
  ASSUME NEW rs, Tab(rs), NEW a \in Qubits,
         \A i \in Lines : a \notin rs[i].x \/ a \notin rs[i].z,
         NEW w, Says(rs, w), a \notin w.x \/ a \notin w.z
  PROVE  Says(Apply(rs, [gate |-> "H", a |-> a]), Gate(w, [gate |-> "H", a |-> a]))
<1> DEFINE in == [gate |-> "H", a |-> a]
           turn(m, n) == (m \ {a}) \cup (n \cap {a})
           g == [u \in RowSet |-> Row(turn(u.x, u.z), turn(u.z, u.x), u.r)]
<1>1. rs \in [Lines -> RowSet] /\ w \in RowSet
  BY SaysFacts DEF Tab
<1>2. \A u : Gate(u, in) = H(u, a)
  BY DEF Gate
<1>3. \A u \in RowSet : g[u] = Row(turn(u.x, u.z), turn(u.z, u.x), u.r) /\ g[u] \in RowSet
  BY DEF Row, RowSet
<1>4. ASSUME NEW u \in RowSet, a \notin u.x \/ a \notin u.z PROVE H(u, a) = g[u]
  <2>1. u = [x |-> u.x, z |-> u.z, r |-> u.r] /\ u.r \in {0, 1}
    BY DEF RowSet
  <2>2. Bit(u.x \cap u.z, a) = 0 /\ (u.r + 0) % 2 = u.r
    BY <1>4, <2>1 DEF Bit
  <2>3. Flip(u, Bit(u.x \cap u.z, a)) = [x |-> u.x, z |-> u.z, r |-> u.r]
    BY <2>1, <2>2 DEF Flip
  <2>4. H(u, a) = [x |-> (u.x \ {a}) \cup (u.z \cap {a}), z |-> (u.z \ {a}) \cup (u.x \cap {a}), r |-> u.r]
    <3> DEFINE f == Flip(u, Bit(u.x \cap u.z, a))
    <3>1. H(u, a) = [f EXCEPT !.x = (u.x \ {a}) \cup (u.z \cap {a}), !.z = (u.z \ {a}) \cup (u.x \cap {a})]
      BY DEF H
    <3>2. f = [x |-> u.x, z |-> u.z, r |-> u.r]
      BY <2>3
    <3> HIDE DEF f, g
    <3> QED BY <3>1, <3>2
  <2> QED BY <1>3, <2>4 DEF Row
<1>5. \A m, n, k, l : turn(SymDiff(m, n), SymDiff(k, l)) = SymDiff(turn(m, k), turn(n, l))
  BY DEF SymDiff
<1>6. ASSUME NEW u \in RowSet, NEW v \in RowSet
      PROVE  g[XorRow(u, v)] = XorRow(g[u], g[v])
  <2>1. XorRow(u, v) \in RowSet
    BY XorTypes
  <2>2. g[XorRow(u, v)] = Row(turn(SymDiff(u.x, v.x), SymDiff(u.z, v.z)),
                              turn(SymDiff(u.z, v.z), SymDiff(u.x, v.x)), (u.r + v.r) % 2)
    BY <1>3, <2>1, XorFields
  <2>3. XorRow(g[u], g[v]) = Row(SymDiff(turn(u.x, u.z), turn(v.x, v.z)),
                                 SymDiff(turn(u.z, u.x), turn(v.z, v.x)), (u.r + v.r) % 2)
    BY <1>3 DEF XorRow, Row
  <2> HIDE DEF g, turn
  <2> QED BY <1>5, <2>2, <2>3
<1>7. g \in [RowSet -> RowSet]
  BY <1>3
<1>8. Apply(rs, in) \in [Lines -> RowSet] /\ \A i \in Lines : Apply(rs, in)[i] = g[rs[i]]
  <2>1. Apply(rs, in) = [i \in Lines |-> H(rs[i], a)]
    BY <1>1, <1>2 DEF Apply
  <2>2. \A i \in Lines : H(rs[i], a) = g[rs[i]] /\ g[rs[i]] \in RowSet
    BY <1>1, <1>3, <1>4
  <2> HIDE DEF g
  <2> QED BY <2>1, <2>2
<1> HIDE DEF g
<1>9. Says(Apply(rs, in), g[w])
  BY <1>1, <1>6, <1>7, <1>8, SaysLinear
<1> QED BY <1>1, <1>2, <1>4, <1>9

LEMMA TabGate ==
  ASSUME NEW rs, Tab(rs), NEW in \in Instrs
  PROVE  Tab(Apply(rs, in))
BY GatePartners DEF Tab

(* A measurement adds what it read to what commutes with it. *)
LEMMA SaysMz ==
  ASSUME NEW rs, Tab(rs), NEW q \in Qubits, NEW m \in Mz(rs, q)
  PROVE  /\ Tab(m[2]) /\ m[1] \in {0, 1}
         /\ Says(m[2], Row({}, {q}, m[1]))
         /\ \A w : Says(rs, w) /\ q \notin w.x => Says(m[2], w)
         /\ \/ ~ HasRandomBit(rs, q) /\ m[2] = rs
            \/ \E p \in Lines : Taking(p, rs, m[2], q, m[1])
<1>1. rs \in [Lines -> RowSet]
  BY DEF Tab
<1>2. PICK d : Partners(rs, d)
  BY DEF Tab
<1>3. CASE HasRandomBit(rs, q)
  <2>1. PICK o \in {0, 1} : m = <<o, Collapse(rs, q, o)>>
    BY <1>3 DEF Mz
  <2> DEFINE rc == Collapse(rs, q, o)
  <2>2. m[1] = o /\ m[2] = rc
    BY <2>1
  <2>3. Row({}, {q}, o) \in RowSet
    BY PauliRows
  <2>4. rc \in [Lines -> RowSet] /\ (\E dc : Partners(rc, dc)) /\ \E i \in Lines : rc[i] = Row({}, {q}, o)
    BY <1>1, <1>2, <1>3, CollapsePartners
  <2>5. PICK p \in Lines : Taking(p, rs, rc, q, o)
    BY <1>1, <1>3, <2>3, CollapsePivot
  <2> HIDE DEF rc
  <2>6. Tab(rc) /\ Says(rc, Row({}, {q}, o))
    BY <2>4, SaysFacts DEF Tab
  <2>7. ASSUME NEW w, Says(rs, w), q \notin w.x PROVE Says(rc, w)
    <3> SUFFICES ASSUME NEW K, Closed(K), HasRows(K, rc) PROVE w \in K
      BY DEF Says
    <3> DEFINE v == rs[p]
               J == {u \in RowSet : IF q \in u.x THEN XorRow(u, v) \in K ELSE u \in K}
    <3>1. v \in RowSet /\ q \in v.x
      BY <1>1, <2>5 DEF Taking
    <3>2. Row({}, {}, 0) \in K
      BY <2>4, SaysFacts DEF Says
    <3>3. XorRow(v, v) = Row({}, {}, 0)
      BY <3>1, XorLaws
    <3>4. HasRows(J, rs)
      <4>1. ASSUME NEW i \in Lines PROVE rs[i] \in J
        <5>1. rs[i] \in RowSet /\ rc[i] \in K
          BY <1>1 DEF HasRows
        <5>2. CASE i = p
          BY <3>1, <3>2, <3>3, <5>2
        <5>3. CASE i # p
          <6>1. rc[i] = IF q \in rs[i].x THEN XorRow(rs[i], v) ELSE rs[i]
            BY <2>5, <5>3 DEF Taking
          <6> QED BY <5>1, <6>1
        <5> QED BY <5>2, <5>3
      <4> HIDE DEF J
      <4> QED BY <4>1 DEF HasRows
    <3>5. Closed(J)
      <4>1. ASSUME NEW t \in J, NEW u \in J PROVE XorRow(t, u) \in J
        <5>1. t \in RowSet /\ u \in RowSet /\ XorRow(t, u) \in RowSet
          BY XorTypes
        <5>2. q \in XorRow(t, u).x <=> (q \in t.x <=> q \notin u.x)
          BY XorFields DEF SymDiff
        <5>3. /\ XorRow(XorRow(t, u), v) = XorRow(t, XorRow(u, v))
              /\ XorRow(XorRow(t, u), v) = XorRow(XorRow(t, v), u)
              /\ XorRow(XorRow(t, v), XorRow(u, v)) = XorRow(t, u)
          <6>1. /\ XorRow(XorRow(t, u), v) = XorRow(t, XorRow(u, v))
                /\ XorRow(u, v) = XorRow(v, u) /\ XorRow(u, v) \in RowSet /\ XorRow(t, v) \in RowSet
            BY <3>1, <5>1, XorLaws, XorTypes
          <6>2. XorRow(t, XorRow(v, u)) = XorRow(XorRow(t, v), u)
            BY <3>1, <5>1, XorLaws
          <6>3. XorRow(XorRow(t, v), XorRow(v, u)) = XorRow(XorRow(XorRow(t, v), v), u)
            BY <3>1, <5>1, <6>1, XorLaws
          <6>4. XorRow(XorRow(t, v), v) = t
            BY <3>1, <5>1, XorLaws
          <6> QED BY <6>1, <6>2, <6>3, <6>4
        <5>4. \A k, l \in K : XorRow(k, l) \in K
          BY DEF Closed
        <5>5. CASE q \in t.x /\ q \in u.x
          BY <5>1, <5>2, <5>3, <5>4, <5>5
        <5>6. CASE q \in t.x /\ q \notin u.x
          BY <5>1, <5>2, <5>3, <5>4, <5>6
        <5>7. CASE q \notin t.x /\ q \in u.x
          BY <5>1, <5>2, <5>3, <5>4, <5>7
        <5>8. CASE q \notin t.x /\ q \notin u.x
          BY <5>1, <5>2, <5>3, <5>4, <5>8
        <5> QED BY <5>5, <5>6, <5>7, <5>8
      <4> QED BY <4>1 DEF Closed
    <3>6. w \in J
      <4> HIDE DEF J
      <4> QED BY <2>7, <3>4, <3>5 DEF Says
    <3> QED BY <2>7, <3>6
  <2> QED BY <2>2, <2>5, <2>6, <2>7
<1>4. CASE ~ HasRandomBit(rs, q)
  <2>1. m = <<SolveDeterministic(rs, q), rs>>
    BY <1>4 DEF Mz
  <2>2. m[1] = SolveDeterministic(rs, q) /\ m[2] = rs
    BY <2>1
  <2>3. Blank(Residue(rs, q))
    BY <1>1, <1>2, <1>4, NothingLeft
  <2>4. Says(rs, Row({}, {q}, SolveDeterministic(rs, q)))
    BY <1>1, <2>3, AnswerIsProduct DEF Says
  <2> QED BY <1>1, <1>4, <2>2, <2>4, ResidueIs
<1> QED BY <1>3, <1>4

(* |0...0> has Z of every set of qubits. *)
LEMMA SaysZeros ==
  /\ Tab(Zeros(NumQubits))
  /\ \A Z \in SUBSET Qubits : Says(Zeros(NumQubits), Row({}, Z, 0))
<1> DEFINE rs == Zeros(NumQubits)
           Below(n) == {q \in Qubits : q < n}
           T == {n \in 0 .. NumQubits : \A Z \in SUBSET Below(n) : Says(rs, Row({}, Z, 0))}
<1>1. Tab(rs)
  BY ZerosPartners DEF Tab
<1>2. rs \in [Lines -> RowSet] /\ \A i \in Lines : rs[i] = Row({}, {i - 1}, 0)
  BY ZerosPartners DEF Zeros, Lines
<1> HIDE DEF rs
<1>3. 0 \in T
  <2>1. \A Z \in SUBSET Below(0) : Z = {}
    BY StabilizerAssumption DEF Qubits
  <2>2. Says(rs, Row({}, {}, 0))
    BY <1>2, SaysFacts
  <2>3. 0 \in 0 .. NumQubits
    BY StabilizerAssumption
  <2> QED BY <2>1, <2>2, <2>3
<1>4. ASSUME NEW n \in 1 .. NumQubits, n - 1 \in T PROVE n \in T
  <2>1. ASSUME NEW Z \in SUBSET Below(n) PROVE Says(rs, Row({}, Z, 0))
    <3> DEFINE q == n - 1
               Y == Z \ {q}
    <3>1. Y \in SUBSET Below(n - 1)
      BY StabilizerAssumption DEF Qubits
    <3>2. Says(rs, Row({}, Y, 0))
      BY <1>4, <3>1
    <3>3. n \in Lines /\ Says(rs, Row({}, {q}, 0))
      BY <1>2, SaysFacts DEF Lines
    <3>4. CASE q \in Z
      <4>1. XorRow(Row({}, Y, 0), Row({}, {q}, 0)) = Row({}, Z, 0)
        <5>1. SymDiff({}, {}) = {} /\ SymDiff(Y, {q}) = Z /\ (0 + 0) % 2 = 0
          BY <3>4 DEF SymDiff
        <5> HIDE DEF Y, q
        <5> QED BY <5>1 DEF XorRow, Row
      <4> QED BY <1>2, <3>2, <3>3, <4>1, SaysFacts
    <3>5. CASE q \notin Z
      <4>1. Y = Z
        BY <3>5
      <4> QED BY <3>2, <4>1
    <3> QED BY <3>4, <3>5
  <2> HIDE DEF Below
  <2> QED BY <2>1
<1>5. NumQubits \in T
  <2>1. 0 .. NumQubits \subseteq T
    <3> HIDE DEF T
    <3> QED BY <1>3, <1>4, StabilizerAssumption, Upwards
  <2> QED BY <2>1, StabilizerAssumption
<1>6. SUBSET Qubits \subseteq SUBSET Below(NumQubits)
  BY StabilizerAssumption DEF Qubits
<1> QED BY <1>1, <1>5, <1>6 DEF rs

(* Where the state has Z of q, no row has X of it. *)
LEMMA SaysCommutes ==
  ASSUME NEW rs, Tab(rs), NEW q \in Qubits, NEW o \in {0, 1}, Says(rs, Row({}, {q}, o))
  PROVE  \A i \in Lines : q \notin rs[i].x
<1> DEFINE K == {w \in RowSet : \A i \in Lines : Anti(w, rs[i]) = 0}
<1>1. rs \in [Lines -> RowSet] /\ \A i, j \in Lines : Anti(rs[i], rs[j]) = 0
  BY DEF Tab, Partners
<1>2. HasRows(K, rs)
  BY <1>1 DEF HasRows
<1>3. Closed(K)
  <2>1. ASSUME NEW u \in K, NEW v \in K PROVE XorRow(u, v) \in K
    <3>1. u \in RowSet /\ v \in RowSet /\ XorRow(u, v) \in RowSet
      BY XorTypes
    <3>2. \A i \in Lines : Anti(XorRow(u, v), rs[i]) = (Anti(u, rs[i]) + Anti(v, rs[i])) % 2
      BY <1>1, <3>1, AntiSum
    <3>3. \A i \in Lines : Anti(u, rs[i]) = 0 /\ Anti(v, rs[i]) = 0
      OBVIOUS
    <3>4. (0 + 0) % 2 = 0
      OBVIOUS
    <3> QED BY <3>1, <3>2, <3>3, <3>4
  <2> HIDE DEF K
  <2>2. K \subseteq RowSet
    BY DEF K
  <2> QED BY <2>1, <2>2 DEF Closed
<1>4. Row({}, {q}, o) \in K
  <2> HIDE DEF K
  <2> QED BY <1>2, <1>3 DEF Says
<1>5. \A i \in Lines : Anti(Row({}, {q}, o), rs[i]) = 0
  BY <1>4
<1>6. ASSUME NEW i \in Lines PROVE Bit(rs[i].x, q) = 0
  <2>1. rs[i] \in RowSet
    BY <1>1
  <2>2. Anti(Row({}, {q}, o), rs[i]) = Bit(rs[i].x, q)
    BY <2>1, PauliRows
  <2> QED BY <1>5, <2>2
<1> QED BY <1>6 DEF Bit
=============================================================================
