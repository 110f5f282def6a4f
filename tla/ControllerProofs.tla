-------------------------- MODULE ControllerProofs --------------------------
(***************************************************************************)
(* Proofs about Controller for every configuration of the bounds, the      *)
(* windows, the widths and the environment.                                *)
(***************************************************************************)
EXTENDS Controller, FiniteSetTheorems, WellFoundedInduction, TLAPS

(* The least number of a set, and the two operators taken from it. *)
LEMMA LeastExists ==
  ASSUME NEW T, T \subseteq Nat, T # {}
  PROVE  \E x \in T : \A y \in T : x <= y
<1> DEFINE F == {1 .. i : i \in T}
<1>1. F \subseteq FiniteSubsetsOf(Nat) /\ F # {}
  <2>1. \A i \in T : 1 .. i \subseteq Nat /\ IsFiniteSet(1 .. i)
    BY FS_Interval
  <2> QED BY <2>1 DEF FiniteSubsetsOf
<1>2. \E X \in F : \A Y \in F : ~ (<<Y, X>> \in StrictSubsetOrdering(Nat))
  BY <1>1, WFMin, FS_StrictSubsetOrderingWellFounded
<1>3. PICK x \in T : \A y \in T : ~ (<<1 .. y, 1 .. x>> \in StrictSubsetOrdering(Nat))
  BY <1>2
<1>4. ASSUME NEW y \in T, y < x PROVE FALSE
  <2>1. /\ 1 .. y \subseteq 1 .. x /\ 1 .. y # 1 .. x
        /\ 1 .. x \subseteq Nat /\ 1 .. y \subseteq Nat
    <3>1. x \in 1 .. x /\ x \notin 1 .. y
      BY <1>4
    <3> QED BY <1>4, <3>1
  <2>2. <<1 .. y, 1 .. x>> \in StrictSubsetOrdering(Nat)
    BY <2>1 DEF StrictSubsetOrdering
  <2> QED BY <1>3, <2>2
<1> QED BY <1>3, <1>4

LEMMA MinOfNats ==
  ASSUME NEW S, S \subseteq Nat, S # {}
  PROVE  Min(S) \in S /\ \A y \in S : Min(S) <= y
BY LeastExists DEF Min

LEMMA MinOfTwo ==
  ASSUME NEW a \in Int, NEW b \in Int
  PROVE  Min({a, b}) \in {a, b} /\ Min({a, b}) <= a /\ Min({a, b}) <= b
BY DEF Min

LEMMA MaxOfTwo ==
  ASSUME NEW a \in Int, NEW b \in Int
  PROVE  Max({a, b}) \in {a, b} /\ Max({a, b}) >= a /\ Max({a, b}) >= b
BY DEF Max

LEMMA MaxZero == \A a \in Nat : Max({0, a}) = a
<1> SUFFICES ASSUME NEW a \in Nat PROVE Max({0, a}) = a
  OBVIOUS
<1>1. Max({0, a}) \in {0, a} /\ Max({0, a}) >= a /\ Max({0, a}) >= 0
  BY MaxOfTwo
<1> QED BY <1>1

LEMMA AtLeastZero == \A a \in Int : Max({a, 0}) \in Nat
<1> SUFFICES ASSUME NEW a \in Int PROVE Max({a, 0}) \in Nat
  OBVIOUS
<1>1. Max({a, 0}) \in {a, 0} /\ Max({a, 0}) >= 0
  BY MaxOfTwo
<1> QED BY <1>1

LEMMA QuotientIsNat == \A a \in Nat, b \in Nat \ {0} : a \div b \in Nat
OBVIOUS

-----------------------------------------------------------------------------
(* Induction over places, up and down. *)
LEMMA Upwards ==
  ASSUME NEW N \in Nat, NEW T, 0 \in T, \A i \in 1 .. N : i - 1 \in T => i \in T
  PROVE  0 .. N \subseteq T
<1> DEFINE Missed == {i \in 0 .. N : i \notin T}
<1>1. ASSUME NEW x \in Missed, \A y \in Missed : x <= y PROVE FALSE
  <2>1. x \in 1 .. N /\ x - 1 \in 0 .. N /\ x - 1 \notin Missed
    BY <1>1
  <2> QED BY <2>1
<1>2. Missed \subseteq Nat
  OBVIOUS
<1>3. Missed = {}
  <2> HIDE DEF Missed
  <2> QED BY <1>1, <1>2, LeastExists
<1> QED BY <1>3

LEMMA Downwards ==
  ASSUME NEW N \in Nat, NEW T, N \in T, \A i \in 0 .. N - 1 : i + 1 \in T => i \in T
  PROVE  0 .. N \subseteq T
<1> DEFINE M == {i \in 0 .. N : N - i \in T}
<1>1. 0 \in M
  OBVIOUS
<1>2. ASSUME NEW i \in 1 .. N, i - 1 \in M PROVE i \in M
  <2>1. N - i \in 0 .. N - 1 /\ (N - i) + 1 = N - (i - 1) /\ i \in 0 .. N
    OBVIOUS
  <2>2. (N - i) + 1 \in T
    BY <1>2, <2>1
  <2> QED BY <2>1, <2>2
<1>3. 0 .. N \subseteq M
  <2> HIDE DEF M
  <2> QED BY <1>1, <1>2, Upwards
<1>4. ASSUME NEW j \in 0 .. N PROVE j \in T
  <2>1. N - j \in 0 .. N /\ N - (N - j) = j
    OBVIOUS
  <2>2. N - j \in M
    BY <1>3, <2>1
  <2> QED BY <2>1, <2>2
<1> QED BY <1>4

(* What is computed step by step along the places exists. *)
LEMMA Iterates ==
  ASSUME NEW N \in Nat
  PROVE  \A s \in Nat, F \in [1 .. N -> [Nat -> Nat]] : \E g \in [0 .. N -> Nat] :
            g[0] = s /\ \A i \in 1 .. N : g[i] = F[i][g[i - 1]]
<1> SUFFICES ASSUME NEW s \in Nat, NEW F \in [1 .. N -> [Nat -> Nat]]
             PROVE  \E g \in [0 .. N -> Nat] :
                      g[0] = s /\ \A i \in 1 .. N : g[i] = F[i][g[i - 1]]
  OBVIOUS
<1> DEFINE Q(k, g) == /\ g \in [0 .. k -> Nat]
                      /\ g[0] = s
                      /\ \A i \in 1 .. k : g[i] = F[i][g[i - 1]]
           T == {k \in 0 .. N : \E g : Q(k, g)}
<1>1. 0 \in T
  <2>1. Q(0, [i \in 0 .. 0 |-> s])
    OBVIOUS
  <2> HIDE DEF Q
  <2> QED BY <2>1
<1>2. ASSUME NEW k \in 1 .. N, k - 1 \in T PROVE k \in T
  <2>1. PICK g : Q(k - 1, g)
    BY <1>2
  <2> DEFINE h == [i \in 0 .. k |-> IF i = k THEN F[k][g[k - 1]] ELSE g[i]]
  <2>2. g[k - 1] \in Nat /\ F[k][g[k - 1]] \in Nat
    BY <2>1
  <2>3. h \in [0 .. k -> Nat]
    <3>1. \A i \in 0 .. k : i = k \/ i \in 0 .. k - 1
      OBVIOUS
    <3>2. \A i \in 0 .. k - 1 : g[i] \in Nat
      BY <2>1
    <3> QED BY <2>2, <3>1, <3>2
  <2>4. h[0] = s
    BY <2>1
  <2>5. /\ h[k] = F[k][g[k - 1]]
        /\ \A i \in 0 .. k - 1 : h[i] = g[i]
    OBVIOUS
  <2> HIDE DEF h
  <2>6. ASSUME NEW i \in 1 .. k PROVE h[i] = F[i][h[i - 1]]
    <3>1. i - 1 \in 0 .. k - 1
      OBVIOUS
    <3>2. h[i - 1] = g[i - 1]
      BY <2>5, <3>1
    <3>3. CASE i = k
      BY <2>5, <3>2, <3>3
    <3>4. CASE i # k
      <4>1. i \in 0 .. k - 1 /\ i \in 1 .. k - 1
        BY <3>4
      <4> QED BY <2>1, <2>5, <3>2, <4>1
    <3> QED BY <3>3, <3>4
  <2>7. Q(k, h)
    BY <2>3, <2>4, <2>6
  <2> HIDE DEF Q
  <2> QED BY <2>7
<1>3. N \in T
  <2> HIDE DEF T
  <2>1. 0 .. N \subseteq T
    BY <1>1, <1>2, Upwards
  <2> QED BY <2>1
<1> QED BY <1>3

(* The same from the highest place down. *)
LEMMA IteratesDown ==
  ASSUME NEW N \in Nat
  PROVE  \A F \in [0 .. N - 1 -> [Nat -> Nat]] : \E g \in [0 .. N -> Nat] :
            g[N] = 0 /\ \A i \in 0 .. N - 1 : g[i] = F[i][g[i + 1]]
<1> SUFFICES ASSUME NEW F \in [0 .. N - 1 -> [Nat -> Nat]]
             PROVE  \E g \in [0 .. N -> Nat] :
                      g[N] = 0 /\ \A i \in 0 .. N - 1 : g[i] = F[i][g[i + 1]]
  OBVIOUS
<1> DEFINE E == [i \in 1 .. N |-> F[N - i]]
<1>1. E \in [1 .. N -> [Nat -> Nat]]
  OBVIOUS
<1>2. PICK h \in [0 .. N -> Nat] : h[0] = 0 /\ \A i \in 1 .. N : h[i] = E[i][h[i - 1]]
  <2>1. \A s \in Nat, D \in [1 .. N -> [Nat -> Nat]] : \E h \in [0 .. N -> Nat] :
          h[0] = s /\ \A i \in 1 .. N : h[i] = D[i][h[i - 1]]
    BY Iterates
  <2>2. 0 \in Nat
    OBVIOUS
  <2> HIDE DEF E
  <2> QED BY ONLY <1>1, <2>1, <2>2
<1> DEFINE g == [i \in 0 .. N |-> h[N - i]]
<1>3. g \in [0 .. N -> Nat]
  OBVIOUS
<1>4. g[N] = 0
  BY <1>2
<1>5. ASSUME NEW i \in 0 .. N - 1 PROVE g[i] = F[i][g[i + 1]]
  <2>1. N - i \in 1 .. N /\ N - (i + 1) = (N - i) - 1 /\ N - (N - i) = i /\ i + 1 \in 0 .. N
    OBVIOUS
  <2>2. h[N - i] = E[N - i][h[(N - i) - 1]]
    BY <1>2, <2>1
  <2>3. E[N - i] = F[i]
    BY <2>1
  <2>4. g[i] = h[N - i] /\ g[i + 1] = h[(N - i) - 1]
    BY <2>1
  <2> QED BY <2>2, <2>3, <2>4
<1> QED BY <1>3, <1>4, <1>5

(* The powers of b. *)
LEMMA PowersEq ==
  ASSUME NEW b \in Nat \ {0}, NEW N \in Nat
  PROVE  /\ Powers(b, N) \in [0 .. N -> Nat \ {0}]
         /\ Powers(b, N)[0] = 1
         /\ \A i \in 1 .. N : Powers(b, N)[i] = b * Powers(b, N)[i - 1]
<1> DEFINE F == [i \in 1 .. N |-> [v \in Nat |-> b * v]]
           G(g) == [i \in 0 .. N |-> IF i = 0 THEN 1 ELSE b * g[i - 1]]
           p == Powers(b, N)
<1>1. \A v \in Nat : b * v \in Nat
  OBVIOUS
<1>2. F \in [1 .. N -> [Nat -> Nat]]
  BY <1>1
<1>3. PICK g \in [0 .. N -> Nat] : g[0] = 1 /\ \A i \in 1 .. N : g[i] = F[i][g[i - 1]]
  <2> HIDE DEF F
  <2>1. 1 \in Nat
    OBVIOUS
  <2> QED BY <1>2, <2>1, Iterates
<1>4. g = G(g)
  <2>1. \A i \in 1 .. N : i - 1 \in 0 .. N /\ g[i - 1] \in Nat
    OBVIOUS
  <2>2. \A i \in 1 .. N : g[i] = b * g[i - 1]
    BY <1>3, <2>1
  <2> HIDE DEF F
  <2>3. \A i \in 0 .. N : i = 0 \/ i \in 1 .. N
    OBVIOUS
  <2> QED BY <1>3, <2>2, <2>3
<1>5. p = CHOOSE h : h = G(h)
  BY DEF Powers
<1>6. p = G(p)
  <2> HIDE DEF G, p
  <2> QED BY <1>4, <1>5
<1> HIDE DEF p
<1>7. p[0] = 1 /\ \A i \in 1 .. N : p[i] = b * p[i - 1]
  <2>1. 0 \in 0 .. N /\ \A i \in 1 .. N : i \in 0 .. N /\ i # 0
    OBVIOUS
  <2>2. p[0] = 1
    BY <1>6, <2>1
  <2>3. ASSUME NEW i \in 1 .. N PROVE p[i] = b * p[i - 1]
    BY <1>6, <2>1
  <2> QED BY <2>2, <2>3
<1> DEFINE T == {i \in 0 .. N : p[i] \in Nat \ {0}}
<1>8. 0 \in T
  BY <1>7
<1>9. ASSUME NEW i \in 1 .. N, i - 1 \in T PROVE i \in T
  <2>1. \A v \in Nat \ {0} : b * v \in Nat \ {0}
    OBVIOUS
  <2>2. p[i - 1] \in Nat \ {0} /\ p[i] = b * p[i - 1] /\ i \in 0 .. N
    BY <1>7, <1>9
  <2> QED BY <2>1, <2>2
<1>10. 0 .. N \subseteq T
  <2> HIDE DEF T
  <2> QED BY <1>8, <1>9, Upwards
<1>11. p \in [0 .. N -> Nat \ {0}]
  BY <1>6, <1>10
<1> QED BY <1>7, <1>11 DEF p

LEMMA PowersAdd ==
  ASSUME NEW b \in Nat \ {0}, NEW N \in Nat, NEW i \in 0 .. N, NEW j \in 0 .. N - i
  PROVE  Powers(b, N)[i + j] = Powers(b, N)[i] * Powers(b, N)[j]
<1> DEFINE p == Powers(b, N)
           M == N - i
           T == {k \in 0 .. M : p[i + k] = p[i] * p[k]}
<1>1. /\ p \in [0 .. N -> Nat \ {0}] /\ p[0] = 1
      /\ \A k \in 1 .. N : p[k] = b * p[k - 1]
  BY PowersEq
<1> HIDE DEF p
<1>2. p[i] \in Nat /\ M \in Nat
  BY <1>1
<1>3. 0 \in T
  <2>1. i + 0 = i /\ p[i] * 1 = p[i]
    BY <1>2
  <2> QED BY <1>1, <1>2, <2>1
<1>4. ASSUME NEW k \in 1 .. M, k - 1 \in T PROVE k \in T
  <2>1. i + k \in 1 .. N /\ (i + k) - 1 = i + (k - 1) /\ k \in 1 .. N /\ k - 1 \in 0 .. N /\ k \in 0 .. M
    OBVIOUS
  <2>2. p[i + k] = b * p[i + (k - 1)] /\ p[k] = b * p[k - 1] /\ p[i + (k - 1)] = p[i] * p[k - 1]
    BY <1>1, <1>4, <2>1
  <2>3. \A u, v \in Nat : b * (u * v) = u * (b * v)
    OBVIOUS
  <2>4. p[k - 1] \in Nat
    BY <1>1, <2>1
  <2>5. b * (p[i] * p[k - 1]) = p[i] * (b * p[k - 1])
    BY <1>2, <2>3, <2>4
  <2> QED BY <2>1, <2>2, <2>5
<1>5. 0 .. M \subseteq T
  <2> HIDE DEF T, M
  <2> QED BY <1>2, <1>3, <1>4, Upwards
<1>6. p[i + j] = p[i] * p[j]
  BY <1>5
<1> QED BY <1>6 DEF p

-----------------------------------------------------------------------------
(* Difficulties, their texts and their size. *)

Difficulty == [num : Nat, den : Nat \ {0}]

LEMMA TenPowers ==
  /\ Precision + Longest \in Nat /\ Ten \in [0 .. Precision + Longest -> Nat \ {0}] /\ Ten[0] = 1
  /\ \A i, j \in 0 .. Precision : i + j <= Precision => Ten[i + j] = Ten[i] * Ten[j]
<1>1. Precision \in Nat /\ Longest \in Nat /\ Precision + Longest \in Nat /\ 10 \in Nat \ {0}
  BY DiffRatAssumption
<1>2. Ten \in [0 .. Precision + Longest -> Nat \ {0}] /\ Ten[0] = 1
  BY <1>1, PowersEq DEF Ten
<1>3. ASSUME NEW i \in 0 .. Precision, NEW j \in 0 .. Precision, i + j <= Precision
      PROVE  Ten[i + j] = Ten[i] * Ten[j]
  <2>1. i \in 0 .. Precision + Longest /\ j \in 0 .. (Precision + Longest) - i
    BY <1>1, <1>3
  <2> QED BY <1>1, <2>1, PowersAdd DEF Ten
<1> QED BY <1>1, <1>2, <1>3

LEMMA TenSplit ==
  \A k \in 0 .. Precision : \A m \in 0 .. k : Ten[k] = Ten[m] * Ten[k - m]
<1> SUFFICES ASSUME NEW k \in 0 .. Precision, NEW m \in 0 .. k
             PROVE  Ten[k] = Ten[m] * Ten[k - m]
  OBVIOUS
<1> DEFINE j == k - m
<1>1. j \in 0 .. Precision /\ m \in 0 .. Precision /\ m + j = k /\ m + j <= Precision
  BY DiffRatAssumption
<1> HIDE DEF j
<1>2. Ten[m + j] = Ten[m] * Ten[j]
  BY <1>1, TenPowers
<1> QED BY <1>1, <1>2 DEF j

LEMMA PowerIsNat ==
  /\ \A i \in 0 .. Precision : Ten[i] \in Nat \ {0}
  /\ \A i \in 0 .. Longest : Ten[i] \in Nat \ {0}
  /\ Unit \in Nat \ {0}
<1>1. Precision \in Nat /\ Longest \in Nat
  BY DiffRatAssumption
<1>2. /\ \A i \in 0 .. Precision : i \in 0 .. Precision + Longest
      /\ \A i \in 0 .. Longest : i \in 0 .. Precision + Longest
      /\ Precision \in 0 .. Precision
  BY <1>1
<1> QED BY <1>2, TenPowers DEF Unit

LEMMA ToDoubleIsNat == \A d \in Difficulty : ToDouble(d) \in Nat
<1> SUFFICES ASSUME NEW d \in Difficulty PROVE ToDouble(d) \in Nat
  OBVIOUS
<1>1. d.num * Unit \in Nat /\ d.den \in Nat \ {0}
  BY PowerIsNat DEF Difficulty
<1> QED BY <1>1, QuotientIsNat DEF ToDouble

LEMMA ParseTypes == \A t \in Texts : Parse(t) \in Difficulty
<1> SUFFICES ASSUME NEW t \in Texts PROVE Parse(t) \in Difficulty
  OBVIOUS
<1> DEFINE kept == Min({t.decimals, MaxDecimals})
           n == t.digits \div Ten[t.decimals - kept]
<1>1. t.decimals \in 0 .. Precision /\ MaxDecimals \in Nat /\ t.digits \in Nat /\ Precision \in Nat
  BY DiffRatAssumption DEF Texts
<1>2. kept \in 0 .. Precision /\ t.decimals - kept \in 0 .. Precision
  <2>1. t.decimals \in Int /\ MaxDecimals \in Int
    BY <1>1
  <2>2. kept \in {t.decimals, MaxDecimals} /\ kept <= t.decimals
    BY <2>1, MinOfTwo
  <2> HIDE DEF kept
  <2> QED BY <1>1, <2>2
<1>3. Ten[kept] \in Nat \ {0} /\ Ten[t.decimals - kept] \in Nat \ {0}
  BY <1>2, PowerIsNat
<1>4. n \in Nat
  BY <1>1, <1>3, QuotientIsNat
<1>5. Default \in Difficulty
  BY DiffRatAssumption DEF Default, Rat, Difficulty
<1>6. Rat(0, 1) \in Difficulty /\ Rat(n, Ten[kept]) \in Difficulty
  BY <1>3, <1>4 DEF Rat, Difficulty
<1> HIDE DEF kept, n
<1>7. Parse(t) \in {Default, Rat(0, 1), Rat(n, Ten[kept])}
  BY DEF Parse, kept, n
<1> QED BY <1>5, <1>6, <1>7

LEMMA PlainTypes == \A v \in Nat, sci \in BOOLEAN : Plain(v, sci) \in Texts
<1> SUFFICES ASSUME NEW v \in Nat, NEW sci \in BOOLEAN PROVE Plain(v, sci) \in Texts
  OBVIOUS
<1> DEFINE S == {i \in 0 .. Precision : (v * Ten[i]) % Unit = 0}
           k == Min(S)
<1>1. Precision \in Nat /\ Unit \in Nat \ {0}
  BY DiffRatAssumption, PowerIsNat
<1>2. (v * Unit) % Unit = 0
  BY <1>1
<1>3. Precision \in S /\ S \subseteq Nat
  BY <1>1, <1>2 DEF Unit
<1>4. k \in 0 .. Precision
  BY <1>3, MinOfNats
<1> HIDE DEF k
<1>5. v * Ten[k] \in Nat
  <2>1. Ten[k] \in Nat \ {0}
    BY <1>4, PowerIsNat
  <2> QED BY <2>1
<1>6. (v * Ten[k]) \div Unit \in Nat
  BY <1>1, <1>5, QuotientIsNat
<1>7. Text((v * Ten[k]) \div Unit, k, sci) \in Texts
  BY <1>4, <1>6 DEF Text, Texts
<1> QED BY <1>7 DEF Plain, k

LEMMA PrintedTypes == \A v \in Nat : Printed(v) \in Texts
<1> SUFFICES ASSUME NEW v \in Nat PROVE Printed(v) \in Texts
  OBVIOUS
<1>1. ASSUME NEW w \in Nat PROVE Length(w) \in 1 .. Longest
  <2> DEFINE S == {i \in 1 .. Longest : w < Ten[i]} \cup {Longest}
  <2>1. S \subseteq 1 .. Longest /\ S \subseteq Nat /\ S # {}
    BY DiffRatAssumption
  <2> QED BY <2>1, MinOfNats DEF Length
<1>2. Rounded(v) \in Nat
  <2> DEFINE drop == Ten[Length(v) - Min({Length(v), SigDigits})]
  <2>1. SigDigits \in Nat /\ Longest \in Nat
    BY DiffRatAssumption
  <2>2. Length(v) - Min({Length(v), SigDigits}) \in 0 .. Longest
    <3> DEFINE l == Length(v)
               m == Min({l, SigDigits})
    <3>1. l \in 1 .. Longest /\ SigDigits \in Int
      BY <1>1, <2>1
    <3> HIDE DEF l
    <3>2. m \in {l, SigDigits} /\ m <= l
      BY <3>1, MinOfTwo
    <3> HIDE DEF m
    <3>3. l - m \in 0 .. Longest
      BY <2>1, <3>1, <3>2
    <3> QED BY <3>3 DEF l, m
  <2>3. drop \in Nat \ {0}
    BY <2>2, PowerIsNat
  <2> HIDE DEF drop
  <2>4. drop \div 2 \in Nat
    BY <2>3
  <2>5. (v + drop \div 2) \div drop \in Nat
    BY <2>3, <2>4, QuotientIsNat
  <2>6. ((v + drop \div 2) \div drop) * drop \in Nat
    BY <2>3, <2>5
  <2> QED BY <2>6 DEF Rounded, drop
<1> DEFINE e == Length(Rounded(v)) - 1 - Precision
<1>3. (e < FixedFrom \/ e >= SigDigits) \in BOOLEAN
  OBVIOUS
<1> QED BY <1>2, <1>3, PlainTypes DEF Printed

-----------------------------------------------------------------------------
(* The bounds of the difficulty, and what the tick does to one. *)

LEMMA BoundsTypes ==
  /\ MinDiff \in Difficulty /\ MaxDiff \in Difficulty /\ Parse(InitText) \in Difficulty
  /\ ToDouble(MinDiff) \in Nat \ {0} /\ ToDouble(MaxDiff) \in Nat
  /\ ToDouble(Parse(InitText)) \in ToDouble(MinDiff) .. ToDouble(MaxDiff)
<1>1. MinDiff \in Difficulty /\ MaxDiff \in Difficulty /\ Parse(InitText) \in Difficulty
  BY ControllerAssumption, ParseTypes DEF MinDiff, MaxDiff
<1>2. ToDouble(MinDiff) \in Nat /\ ToDouble(MaxDiff) \in Nat /\ ToDouble(Parse(InitText)) \in Nat
  BY <1>1, ToDoubleIsNat
<1>3. /\ ToDouble(MinDiff) \in 1 .. ToDouble(Parse(InitText))
      /\ ToDouble(Parse(InitText)) <= ToDouble(MaxDiff)
  BY ControllerAssumption DEF MinDiff, MaxDiff
<1> QED BY <1>1, <1>2, <1>3

WithinBounds(d) ==
  d \in Difficulty /\ ToDouble(d) \in ToDouble(MinDiff) .. ToDouble(MaxDiff)

LEMMA ClampedWithin == \A d \in Difficulty : WithinBounds(Clamped(d))
<1> SUFFICES ASSUME NEW d \in Difficulty PROVE WithinBounds(Clamped(d))
  OBVIOUS
<1>1. ToDouble(d) \in Nat
  BY ToDoubleIsNat
<1>2. ToDouble(MinDiff) <= ToDouble(MaxDiff)
  BY BoundsTypes
<1> QED BY <1>1, <1>2, BoundsTypes DEF Clamped, WithinBounds

LEMMA RaisedTypes == \A d \in Difficulty : Raised(d) \in Difficulty
<1>1. \A a \in Nat, b \in Nat \ {0} : a % b \in Nat
  OBVIOUS
<1>2. Word \in Nat \ {0}
  BY DiffRatAssumption
<1> QED BY <1>1, <1>2 DEF Raised, Rat, Difficulty

LEMMA BoundedWithin ==
  \A x \in Nat : Bounded(x) \in ToDouble(MinDiff) .. ToDouble(MaxDiff)
<1> SUFFICES ASSUME NEW x \in Nat
             PROVE  Bounded(x) \in ToDouble(MinDiff) .. ToDouble(MaxDiff)
  OBVIOUS
<1> DEFINE lo == ToDouble(MinDiff)
           hi == ToDouble(MaxDiff)
           m == Min({hi, x})
<1>1. lo \in Nat /\ hi \in Nat /\ lo <= hi
  BY BoundsTypes
<1> HIDE DEF lo, hi
<1>2. m \in Int /\ m <= hi
  BY <1>1, MinOfTwo
<1> HIDE DEF m
<1>3. Max({lo, m}) \in {lo, m} /\ Max({lo, m}) >= lo
  BY <1>1, <1>2, MaxOfTwo
<1> QED BY <1>1, <1>2, <1>3 DEF Bounded, lo, hi, m

-----------------------------------------------------------------------------
(* Type correctness, and the bounds.  The adaptation clamps what it reads   *)
(* back, the benchmark does not: its result stays within the bounds if they *)
(* are such that printing a number between them cannot leave them.          *)

ControllerIInv == TypeOK /\ diff \in Difficulty

LEMMA NowTypes ==
  ASSUME ControllerIInv
  PROVE  Now \in Nat \ {0} /\ WithinBounds(diff) /\ ToDouble(told) = Now
<1>1. Now \in ToDouble(MinDiff) .. ToDouble(MaxDiff) /\ told = diff /\ diff \in Difficulty
  BY DEF ControllerIInv, TypeOK
<1> QED BY <1>1, BoundsTypes DEF WithinBounds, Now

LEMMA FoundTypes ==
  ASSUME ControllerIInv, NEW dt \in Elapses, NEW n \in Found(dt)
  PROVE  n \in Nat
<1>1. dt \in Nat /\ MaxFound \in Nat
  BY ControllerAssumption
<1>2. ASSUME NEW a \in Nat PROVE Yield(a) \in Nat
  <2>1. hashRate * a \in Nat
    BY DEF ControllerIInv, TypeOK
  <2> QED BY <2>1, NowTypes, QuotientIsNat DEF Yield
<1>3. CASE hashRate = 0
  BY <1>1, <1>3 DEF Found
<1>4. CASE hashRate # 0
  <2> DEFINE age == IF benchmarking THEN benchAge ELSE windowAge
             seen == IF benchmarking THEN benchShares ELSE windowShares
             since == Max({age, 0}) + dt
             due == Yield(since) - seen
  <2>1. age \in Int /\ seen \in Int
    BY DEF ControllerIInv, TypeOK, Never
  <2>2. n \in {Max({due, 0}), Max({due + 1, 0})}
    BY <1>4 DEF Found
  <2> HIDE DEF age, seen
  <2>3. Max({age, 0}) \in Nat
    BY <2>1, AtLeastZero
  <2>4. since \in Nat
    BY <1>1, <2>3
  <2> HIDE DEF since
  <2>5. due \in Int /\ due + 1 \in Int
    BY <1>2, <2>1, <2>4
  <2> HIDE DEF due
  <2>6. Max({due, 0}) \in Nat /\ Max({due + 1, 0}) \in Nat
    BY <2>5, AtLeastZero
  <2> QED BY <2>2, <2>6
<1> QED BY <1>3, <1>4

LEMMA AgedTypes ==
  ASSUME ControllerIInv, NEW dt \in Elapses PROVE Aged(dt) \in 0 .. Gap + 1
<1>1. changeAge + dt \in Nat /\ Gap + 1 \in Nat
  BY ControllerAssumption DEF ControllerIInv, TypeOK
<1> DEFINE a == changeAge + dt
           g == Gap + 1
<1> HIDE DEF a, g
<1>2. a \in Nat /\ g \in Nat
  BY <1>1 DEF a, g
<1>3. Min({a, g}) \in {a, g} /\ Min({a, g}) <= g
  BY <1>2, MinOfTwo
<1>4. Min({a, g}) \in 0 .. g
  BY <1>2, <1>3
<1> QED BY <1>4 DEF Aged, a, g

(* The estimates. *)
LEMMA EstimateTypes ==
  ASSUME ControllerIInv
  PROVE  /\ \A n \in Nat, t \in Nat \ {0} : Observed(n, t) \in Nat
         /\ \A h \in Nat : Smoothed(h) \in Nat /\ Desired(h) \in Nat
<1>1. est \in Nat /\ Rate \in Nat \ {0}
  BY ControllerAssumption DEF ControllerIInv, TypeOK
<1>2. ASSUME NEW n \in Nat, NEW t \in Nat \ {0} PROVE Observed(n, t) \in Nat
  <2>1. n * Now \in Nat
    BY NowTypes
  <2> QED BY <2>1, QuotientIsNat DEF Observed
<1>3. ASSUME NEW h \in Nat PROVE Smoothed(h) \in Nat
  <2>1. 7 * est + 3 * h \in Nat
    BY <1>1
  <2>2. (7 * est + 3 * h) \div 10 \in Nat
    BY <2>1, QuotientIsNat
  <2> QED BY <2>2 DEF Smoothed
<1>4. ASSUME NEW h \in Nat PROVE Desired(h) \in Nat
  BY <1>1, QuotientIsNat DEF Desired
<1> QED BY <1>2, <1>3, <1>4

(* What a tick does to the difficulty keeps it within the bounds. *)
LEMMA FollowTypes ==
  ASSUME ControllerIInv, NEW dt \in Elapses, NEW x \in Nat, Follow(x, dt)
  PROVE  WithinBounds(diff') /\ told' = diff' /\ changeAge' \in 0 .. Gap + 1
<1>1. Parse(Printed(x)) \in Difficulty
  BY PrintedTypes, ParseTypes
<1>2. WithinBounds(Clamped(Parse(Printed(x))))
  BY <1>1, ClampedWithin
<1>3. WithinBounds(diff) /\ told = diff
  BY NowTypes DEF ControllerIInv, TypeOK
<1>4. Aged(dt) \in 0 .. Gap + 1 /\ 0 \in 0 .. Gap + 1
  BY AgedTypes, ControllerAssumption
<1>5. \/ Announce(Clamped(Parse(Printed(x)))) /\ changeAge' = 0
      \/ UNCHANGED <<diff, told>> /\ changeAge' = Aged(dt)
  BY DEF Follow
<1> QED BY <1>2, <1>3, <1>4, <1>5 DEF Announce

LEMMA MeasureTypes ==
  ASSUME PrintsWithinBounds, ControllerIInv, NEW h \in Nat, Measure(h)
  PROVE  WithinBounds(diff') /\ told' = diff' /\ est' \in Nat
<1>1. Bounded(Desired(h)) \in ToDouble(MinDiff) .. ToDouble(MaxDiff)
  BY EstimateTypes, BoundedWithin
<1> DEFINE x == Bounded(Desired(h))
<1> HIDE DEF x
<1>2. x \in ToDouble(MinDiff) .. ToDouble(MaxDiff) /\ x \in Nat
  BY <1>1, BoundsTypes DEF x
<1>3. Parse(Printed(x)) \in Difficulty
  BY <1>2, PrintedTypes, ParseTypes
<1>4. WithinBounds(Parse(Printed(x)))
  BY <1>2, <1>3 DEF PrintsWithinBounds, WithinBounds
<1>5. Announce(Parse(Printed(x))) /\ est' = h
  BY DEF Measure, x
<1> QED BY <1>4, <1>5 DEF Announce

LEMMA TickTypes ==
  ASSUME PrintsWithinBounds, ControllerIInv,
         NEW dt \in Elapses, NEW b \in BOOLEAN, NEW n \in Found(dt), Tick(dt, n, b)
  PROVE  ControllerIInv'
<1>1. /\ n \in Nat /\ dt \in Nat \ {0} /\ Aged(dt) \in 0 .. Gap + 1 /\ 0 \in 0 .. Gap + 1
      /\ Bench \in Nat /\ Window \in Nat
  BY FoundTypes, AgedTypes, ControllerAssumption
<1>2. /\ benchmarking \in BOOLEAN
      /\ benchAge \in Nat \cup {Never} /\ windowAge \in Nat \cup {Never}
      /\ benchShares \in Nat /\ windowShares \in Nat /\ est \in Nat
      /\ told = diff /\ WithinBounds(diff)
  BY NowTypes DEF ControllerIInv, TypeOK
<1>3. behind' \in BOOLEAN /\ hashRate' \in Nat
  BY ControllerAssumption DEF Tick, Pass, ControllerIInv, TypeOK
<1>4. Counted(n) => windowShares' \in Nat /\ benchShares' \in Nat
  BY <1>1, <1>2 DEF Counted
<1> SUFFICES /\ benchmarking' \in BOOLEAN
             /\ benchAge' \in Nat \cup {Never} /\ windowAge' \in Nat \cup {Never}
             /\ benchShares' \in Nat /\ windowShares' \in Nat /\ est' \in Nat
             /\ changeAge' \in 0 .. Gap + 1
             /\ told' = diff' /\ WithinBounds(diff')
  BY <1>3 DEF ControllerIInv, TypeOK, WithinBounds, Now
<1>5. CASE StartBenchmark(dt, n)
  BY <1>1, <1>2, <1>4, <1>5 DEF StartBenchmark
<1>6. CASE AwaitBenchmark(dt, n)
  <2>1. benchAge' \in Nat
    BY <1>1, <1>2, <1>6 DEF AwaitBenchmark
  <2> QED BY <1>1, <1>2, <1>4, <1>6, <2>1 DEF AwaitBenchmark
<1>7. CASE EndBenchmark(dt, n)
  <2>1. benchShares + n \in Nat /\ benchAge + dt \in Nat \ {0}
    BY <1>1, <1>2, <1>7 DEF EndBenchmark
  <2>2. Observed(benchShares + n, benchAge + dt) \in Nat
    BY <2>1, EstimateTypes
  <2>3. WithinBounds(diff') /\ told' = diff' /\ est' \in Nat
    <3>1. CASE Measure(Observed(benchShares + n, benchAge + dt))
      BY <2>2, <3>1, MeasureTypes
    <3>2. CASE Announce(Parse(InitText)) /\ UNCHANGED est
      BY <1>2, <3>2, BoundsTypes DEF Announce, WithinBounds
    <3> QED BY <1>7, <3>1, <3>2 DEF EndBenchmark
  <2> QED BY <1>1, <1>7, <2>3 DEF EndBenchmark
<1>8. CASE StartWindow(dt, n)
  BY <1>1, <1>2, <1>4, <1>8 DEF StartWindow
<1>9. CASE AwaitWindow(dt, n)
  <2>1. windowAge' \in Nat
    BY <1>1, <1>2, <1>9 DEF AwaitWindow
  <2> QED BY <1>1, <1>2, <1>4, <1>9, <2>1 DEF AwaitWindow
<1>10. CASE Raise(dt, b)
  <2>1. WithinBounds(Clamped(Raised(diff)))
    BY <1>2, RaisedTypes, ClampedWithin DEF WithinBounds
  <2> QED BY <1>1, <1>2, <1>10, <2>1 DEF Raise, Announce, NewWindow, benchVars
<1>11. CASE Evaluate(dt, n, b)
  <2>1. windowAge' = 0 /\ windowShares' = 0 /\ UNCHANGED <<benchmarking, benchAge, benchShares>>
    BY <1>11 DEF Evaluate, NewWindow, benchVars
  <2>2. WithinBounds(diff') /\ told' = diff' /\ est' \in Nat /\ changeAge' \in 0 .. Gap + 1
    <3>1. CASE changeAge' = Aged(dt) /\ UNCHANGED <<est, diff, told>>
      BY <1>1, <1>2, <3>1
    <3>2. ASSUME NEW h \in {Smoothed(Observed(windowShares + n, windowAge + dt))},
                 est' = h, Follow(Desired(h), dt)
          PROVE  WithinBounds(diff') /\ told' = diff' /\ est' \in Nat
                 /\ changeAge' \in 0 .. Gap + 1
      <4>1. windowShares + n \in Nat /\ windowAge + dt \in Nat \ {0}
        BY <1>1, <1>2, <1>11 DEF Evaluate, WindowOver
      <4>2. h \in Nat /\ Desired(h) \in Nat
        BY <3>2, <4>1, EstimateTypes
      <4> QED BY <3>2, <4>2, FollowTypes
    <3> QED BY <1>11, <3>1, <3>2 DEF Evaluate
  <2> QED BY <1>2, <2>1, <2>2
<1> QED BY <1>5, <1>6, <1>7, <1>8, <1>9, <1>10, <1>11 DEF Tick

LEMMA ControllerInit == Init => ControllerIInv
<1> SUFFICES ASSUME Init PROVE ControllerIInv
  OBVIOUS
<1>1. WithinBounds(diff) /\ told = diff
  BY BoundsTypes DEF Init, WithinBounds
<1>2. changeAge \in 0 .. Gap + 1
  BY ControllerAssumption DEF Init
<1>3. {benchAge, windowAge} \subseteq Nat \cup {Never}
  BY DEF Init
<1>4. {benchShares, windowShares, est, hashRate} \subseteq Nat
  BY DEF Init
<1>5. benchmarking \in BOOLEAN /\ behind \in BOOLEAN
  BY DEF Init
<1> QED BY <1>1, <1>2, <1>3, <1>4, <1>5 DEF ControllerIInv, TypeOK, WithinBounds, Now

LEMMA ControllerNext ==
  ASSUME PrintsWithinBounds PROVE ControllerIInv /\ [Next]_vars => ControllerIInv'
<1> SUFFICES ASSUME ControllerIInv, [Next]_vars PROVE ControllerIInv'
  OBVIOUS
<1>1. CASE Next
  BY <1>1, TickTypes DEF Next
<1>2. CASE UNCHANGED vars
  BY <1>2 DEF ControllerIInv, TypeOK, Now, vars, benchVars, windowVars, diffVars
<1> QED BY <1>1, <1>2

(* Whatever the farms find and however often the host falls behind, the     *)
(* difficulty that is announced is the current one and stays within the     *)
(* configured bounds, if these survive being printed: only the result of    *)
(* the benchmark depends on that.                                           *)
THEOREM StaysWithinBounds == ASSUME PrintsWithinBounds PROVE Spec => []TypeOK
<1>1. ControllerIInv => TypeOK
  BY DEF ControllerIInv
<1> QED BY <1>1, ControllerInit, ControllerNext, PTL DEF Spec

-----------------------------------------------------------------------------
(* Backlog.  Eight times a numerator that fits makes more than the          *)
(* difficulty, so that the emergency changes it unless it is at its bound.  *)

LEMMA RaisedIsMore ==
  ASSUME NEW d \in Difficulty, ToDouble(d) > 0, ~ Wraps(d)
  PROVE  ToDouble(Raised(d)) > ToDouble(d)
<1>1. /\ d.num \in Nat /\ d.den \in Nat \ {0} /\ Unit \in Nat \ {0} /\ Word \in Nat \ {0}
      /\ d.num * 8 < Word
  BY PowerIsNat, DiffRatAssumption DEF Difficulty, Wraps
<1>2. (d.num * 8) % Word = d.num * 8
  BY <1>1
<1>3. ToDouble(Raised(d)) = ((d.num * 8) * Unit) \div d.den
  BY <1>2 DEF ToDouble, Raised, Rat
<1>4. d.num * Unit \in Nat /\ (d.num * 8) * Unit = 8 * (d.num * Unit)
  BY <1>1
<1>5. \A v \in Nat, c \in Nat \ {0} : v \div c > 0 => (8 * v) \div c > v \div c
  OBVIOUS
<1> QED BY <1>1, <1>3, <1>4, <1>5 DEF ToDouble

(* At the end of a window in which the host is behind the difficulty rises, *)
(* or it is the highest, or eight times its numerator does not fit.         *)
THEOREM BacklogAlwaysRaises == ASSUME PrintsWithinBounds PROVE Spec => BacklogRaises
<1> DEFINE Answered == behind' /\ ~ benchmarking /\ windowAge > 0 /\ windowAge' = 0
                         => Now' > Now \/ Now = ToDouble(MaxDiff) \/ Wraps(diff)
<1>1. ASSUME ControllerIInv, [Next]_vars PROVE Answered
  <2> SUFFICES ASSUME behind', ~ benchmarking, windowAge > 0, windowAge' = 0, ~ Wraps(diff)
               PROVE  Now' > Now \/ Now = ToDouble(MaxDiff)
    OBVIOUS
  <2>1. PICK dt \in Elapses, b \in BOOLEAN : \E n \in Found(dt) : Tick(dt, n, b)
    <3>1. windowAge' # windowAge
      BY <1>1 DEF ControllerIInv, TypeOK
    <3> QED BY <1>1, <3>1 DEF Next, vars, windowVars
  <2>2. PICK n \in Found(dt) : Tick(dt, n, b)
    BY <2>1
  <2>3. b
    BY <2>2 DEF Tick, Pass
  <2>4. /\ Now \in Nat \ {0} /\ diff \in Difficulty
        /\ Now \in ToDouble(MinDiff) .. ToDouble(MaxDiff)
        /\ ToDouble(MinDiff) \in Nat /\ ToDouble(MaxDiff) \in Nat
    BY <1>1, NowTypes, BoundsTypes DEF WithinBounds, ControllerIInv, TypeOK
  <2>5. ToDouble(Raised(diff)) > Now /\ ToDouble(Raised(diff)) \in Nat
    BY <2>4, RaisedIsMore, RaisedTypes, ToDoubleIsNat DEF Now
  <2>6. \/ Clamped(Raised(diff)) = MaxDiff
        \/ Clamped(Raised(diff)) = Raised(diff)
    BY <2>4, <2>5 DEF Clamped
  <2>7. ToDouble(Clamped(Raised(diff))) > Now \/ Now = ToDouble(MaxDiff)
    BY <2>4, <2>5, <2>6
  <2>8. CASE Raise(dt, b)
    <3>1. Now' = ToDouble(Clamped(Raised(diff))) /\ ToDouble(Clamped(Raised(diff))) # Now
      BY <2>8 DEF Raise, Announce, Emergency, Now
    <3> QED BY <2>7, <3>1
  <2>9. CASE Evaluate(dt, n, b)
    <3>1. ToDouble(Clamped(Raised(diff))) = Now
      BY <2>3, <2>9 DEF Evaluate, Emergency
    <3> QED BY <2>4, <2>7, <3>1
  <2>10. CASE AwaitWindow(dt, n)
    <3>1. windowAge' = windowAge + dt /\ dt \in Nat \ {0} /\ windowAge \in Nat
      BY <1>1, <2>10, ControllerAssumption DEF AwaitWindow, ControllerIInv, TypeOK, Never
    <3> QED BY <3>1
  <2>11. windowAge # Never
    BY DEF Never
  <2> QED BY <2>2, <2>8, <2>9, <2>10, <2>11
          DEF Tick, StartBenchmark, AwaitBenchmark, EndBenchmark, StartWindow
<1>2. ControllerIInv /\ [Next]_vars => [Answered]_vars
  BY <1>1
<1> QED BY <1>2, ControllerInit, ControllerNext, PTL DEF Spec, BacklogRaises

-----------------------------------------------------------------------------
(* The limbs.  A recursive function over the places is what its equation     *)
(* says, because a function that satisfies it exists.                        *)

LEMMA BaseTypes == Base \in Nat \ {0, 1} /\ Limbs \in Nat \ {0, 1} /\ DoubleLimb \in Nat \ {0}
<1>1. HalfLimb \in Nat \ {0, 1} /\ Limbs \in Nat \ {0, 1}
  BY U256Assumption
<1>2. \A h \in Nat \ {0, 1} : h * h \in Nat \ {0, 1}
  <2> SUFFICES ASSUME NEW h \in Nat \ {0, 1} PROVE h * h \in Nat \ {0, 1}
    OBVIOUS
  <2>1. h * h >= 2 * h
    OBVIOUS
  <2> QED BY <2>1
<1>3. HalfLimb * HalfLimb \in Nat \ {0, 1}
  BY <1>1, <1>2
<1>4. Base \in Nat \ {0, 1}
  BY <1>3 DEF Base
<1>5. Base * Base \in Nat \ {0}
  BY <1>2, <1>4
<1> QED BY <1>1, <1>4, <1>5 DEF DoubleLimb

(* The number above each place is its limb and what is above that. *)
LEMMA UpperEq ==
  ASSUME NEW x \in U
  PROVE  /\ Upper(x) \in [0 .. Limbs -> Nat]
         /\ Upper(x)[Limbs] = 0
         /\ \A i \in Places : Upper(x)[i] = Upper(x)[i + 1] * Base + x[i]
<1> DEFINE F == [i \in 0 .. Limbs - 1 |-> [v \in Nat |-> v * Base + x[i]]]
           G(g) == [i \in 0 .. Limbs |-> IF i = Limbs THEN 0 ELSE g[i + 1] * Base + x[i]]
<1>1. \A i \in 0 .. Limbs - 1 : x[i] \in Nat
  BY BaseTypes DEF U, Places
<1>2. \A v \in Nat, i \in 0 .. Limbs - 1 : v * Base + x[i] \in Nat
  BY <1>1, BaseTypes
<1>3. F \in [0 .. Limbs - 1 -> [Nat -> Nat]]
  BY <1>2
<1>4. PICK g \in [0 .. Limbs -> Nat] :
        g[Limbs] = 0 /\ \A i \in 0 .. Limbs - 1 : g[i] = F[i][g[i + 1]]
  <2>1. Limbs \in Nat /\ 0 \in Nat
    BY BaseTypes
  <2>2. \A H \in [0 .. Limbs - 1 -> [Nat -> Nat]] : \E g \in [0 .. Limbs -> Nat] :
            g[Limbs] = 0 /\ \A i \in 0 .. Limbs - 1 : g[i] = H[i][g[i + 1]]
    BY <2>1, IteratesDown
  <2> HIDE DEF F
  <2> QED BY <1>3, <2>2
<1>5. g = G(g)
  <2>1. \A i \in 0 .. Limbs - 1 : i + 1 \in 0 .. Limbs
    BY BaseTypes
  <2>2. \A i \in 0 .. Limbs - 1 : g[i] = g[i + 1] * Base + x[i]
    BY <1>4, <2>1
  <2> HIDE DEF F
  <2>3. \A i \in 0 .. Limbs : i = Limbs \/ i \in 0 .. Limbs - 1
    BY BaseTypes
  <2> QED BY <1>4, <2>2, <2>3
<1>6. Upper(x) = CHOOSE h : h = G(h)
  BY DEF Upper
<1>7. Upper(x) = G(Upper(x))
  <2> HIDE DEF G
  <2> QED BY <1>5, <1>6
<1>8. /\ Upper(x)[Limbs] = 0
      /\ \A i \in Places : Upper(x)[i] = Upper(x)[i + 1] * Base + x[i]
  <2>1. Limbs \in 0 .. Limbs /\ \A i \in Places : i \in 0 .. Limbs /\ i # Limbs
    BY BaseTypes DEF Places
  <2> DEFINE u == Upper(x)
  <2> HIDE DEF u
  <2>2. u = [i \in 0 .. Limbs |-> IF i = Limbs THEN 0 ELSE u[i + 1] * Base + x[i]]
    BY <1>7 DEF u
  <2>3. u[Limbs] = 0
    BY <2>1, <2>2
  <2>4. ASSUME NEW i \in Places PROVE u[i] = u[i + 1] * Base + x[i]
    BY <2>1, <2>2
  <2> QED BY <2>3, <2>4 DEF u
<1>9. \A i \in 0 .. Limbs : Upper(x)[i] \in Nat
  <2> DEFINE T == {i \in 0 .. Limbs : Upper(x)[i] \in Nat}
  <2>1. Limbs \in Nat
    BY BaseTypes
  <2>2. Limbs \in T
    BY <1>8, <2>1
  <2>3. ASSUME NEW i \in 0 .. Limbs - 1, i + 1 \in T PROVE i \in T
    <3>1. i \in Places /\ i \in 0 .. Limbs
      BY <2>1 DEF Places
    <3>2. Upper(x)[i] = Upper(x)[i + 1] * Base + x[i] /\ Upper(x)[i + 1] \in Nat
      BY <1>8, <2>3, <3>1
    <3>3. x[i] \in Nat
      BY <1>1
    <3>4. Upper(x)[i + 1] * Base \in Nat
      BY <3>2, BaseTypes
    <3>5. Upper(x)[i] \in Nat
      BY <3>2, <3>3, <3>4
    <3> QED BY <3>1, <3>5
  <2> HIDE DEF T
  <2>4. 0 .. Limbs \subseteq T
    BY <2>1, <2>2, <2>3, Downwards
  <2> QED BY <2>4 DEF T
<1>10. Upper(x) = [i \in 0 .. Limbs |-> Upper(x)[i]]
  BY <1>7
<1> QED BY <1>8, <1>9, <1>10

(* A number in double limbs, as its two limbs. *)
LEMMA Halves ==
  \A n \in Nat, b \in Nat \ {0} :
    /\ n % b \in 0 .. b - 1 /\ n \div b \in Nat
    /\ n = (n \div b) * b + (n % b)
<1> SUFFICES ASSUME NEW n \in Nat, NEW b \in Nat \ {0}
             PROVE  /\ n % b \in 0 .. b - 1 /\ n \div b \in Nat
                    /\ n = (n \div b) * b + (n % b)
  OBVIOUS
<1>1. n % b \in 0 .. b - 1 /\ n \div b \in Nat
  OBVIOUS
<1>2. n = b * (n \div b) + (n % b)
  OBVIOUS
<1>3. (n \div b) * b = b * (n \div b)
  BY <1>1
<1> QED BY <1>1, <1>2, <1>3

LEMMA DoubleLimbHolds == \A n \in Nat : n < Base * Base => n % DoubleLimb = n
BY BaseTypes DEF DoubleLimb

(* A quotient's bound. *)
LEMMA QuotientBelow ==
  \A n \in Nat, d \in Nat \ {0}, b \in Nat : n < d * b => n \div d < b
<1> SUFFICES ASSUME NEW n \in Nat, NEW d \in Nat \ {0}, NEW b \in Nat, n < d * b
             PROVE  n \div d < b
  OBVIOUS
<1> DEFINE q == n \div d
<1>1. q \in Nat /\ q * d <= n
  OBVIOUS
<1> HIDE DEF q
<1>2. ASSUME q >= b PROVE FALSE
  <2>1. d * b <= d * q
    BY <1>1, <1>2
  <2>2. d * b \in Nat /\ d * q \in Nat /\ d * q = q * d
    BY <1>1
  <2> QED BY <1>1, <2>1, <2>2
<1>3. q < b
  BY <1>1, <1>2
<1> QED BY <1>3 DEF q

(* mul_small: the carries fit a limb, and no product wraps in double limbs. *)
LEMMA CarriesEq ==
  ASSUME NEW x \in U, NEW m \in 0 .. Base - 1
  PROVE  /\ Carries(x, m)[0] = 0
         /\ \A i \in 0 .. Limbs : Carries(x, m)[i] \in 0 .. Base - 1
         /\ \A i \in Places : Carries(x, m)[i + 1] = (x[i] * m + Carries(x, m)[i]) \div Base
<1> DEFINE F == [i \in 1 .. Limbs |-> [v \in Nat |-> ((x[i - 1] * m + v) % DoubleLimb) \div Base]]
           G(g) == [i \in 0 .. Limbs |->
                      IF i = 0 THEN 0 ELSE ((x[i - 1] * m + g[i - 1]) % DoubleLimb) \div Base]
           c == Carries(x, m)
<1>1. \A i \in 1 .. Limbs : i - 1 \in Places /\ x[i - 1] \in 0 .. Base - 1
  BY BaseTypes DEF U, Places
<1>2. \A i \in 1 .. Limbs, v \in Nat : ((x[i - 1] * m + v) % DoubleLimb) \div Base \in Nat
  <2> SUFFICES ASSUME NEW i \in 1 .. Limbs, NEW v \in Nat
               PROVE  ((x[i - 1] * m + v) % DoubleLimb) \div Base \in Nat
    OBVIOUS
  <2>1. x[i - 1] * m + v \in Nat
    BY <1>1, BaseTypes
  <2>2. (x[i - 1] * m + v) % DoubleLimb \in Nat
    BY <2>1, BaseTypes
  <2> QED BY <2>2, BaseTypes, Halves
<1>3. F \in [1 .. Limbs -> [Nat -> Nat]]
  BY <1>2
<1>4. PICK g \in [0 .. Limbs -> Nat] : g[0] = 0 /\ \A i \in 1 .. Limbs : g[i] = F[i][g[i - 1]]
  <2>1. Limbs \in Nat
    BY BaseTypes
  <2> HIDE DEF F
  <2> QED BY <1>3, <2>1, Iterates
<1>5. g = G(g)
  <2>1. \A i \in 1 .. Limbs : i - 1 \in 0 .. Limbs
    BY BaseTypes
  <2>2. \A i \in 1 .. Limbs : g[i] = ((x[i - 1] * m + g[i - 1]) % DoubleLimb) \div Base
    BY <1>4, <2>1
  <2> HIDE DEF F
  <2>3. \A i \in 0 .. Limbs : i = 0 \/ i \in 1 .. Limbs
    BY BaseTypes
  <2> QED BY <1>4, <2>2, <2>3
<1>6. c = CHOOSE h : h = G(h)
  BY DEF Carries
<1>7. c = G(c)
  <2> HIDE DEF G, c
  <2> QED BY <1>5, <1>6
<1> HIDE DEF c
<1>8. /\ c[0] = 0
      /\ \A i \in 1 .. Limbs : c[i] = ((x[i - 1] * m + c[i - 1]) % DoubleLimb) \div Base
  <2>1. 0 \in 0 .. Limbs /\ \A i \in 1 .. Limbs : i \in 0 .. Limbs /\ i # 0
    BY BaseTypes
  <2>2. c[0] = 0
    BY <1>7, <2>1
  <2>3. ASSUME NEW i \in 1 .. Limbs
        PROVE  c[i] = ((x[i - 1] * m + c[i - 1]) % DoubleLimb) \div Base
    BY <1>7, <2>1
  <2> QED BY <2>2, <2>3
<1> DEFINE T == {i \in 0 .. Limbs : c[i] \in 0 .. Base - 1}
<1>9. ASSUME NEW i \in 1 .. Limbs, c[i - 1] \in 0 .. Base - 1
      PROVE  /\ c[i] \in 0 .. Base - 1
             /\ c[i] = (x[i - 1] * m + c[i - 1]) \div Base
  <2> DEFINE y == x[i - 1]
             n == y * m + c[i - 1]
  <2>1. y \in 0 .. Base - 1
    BY <1>1
  <2>2. n \in Nat /\ n < Base * Base
    <3> HIDE DEF y
    <3>1. y * m <= (Base - 1) * (Base - 1)
      BY <2>1, BaseTypes
    <3>2. y * m \in Nat
      BY <2>1, BaseTypes
    <3>3. (Base - 1) * (Base - 1) + (Base - 1) < Base * Base
      BY BaseTypes
    <3> QED BY <1>9, <3>1, <3>2, <3>3, BaseTypes
  <2>3. c[i] = (n % DoubleLimb) \div Base
    BY <1>8
  <2> HIDE DEF n
  <2>4. c[i] = n \div Base
    BY <2>2, <2>3, DoubleLimbHolds
  <2>5. n \div Base \in Nat /\ n \div Base < Base
    BY <2>2, BaseTypes, QuotientBelow, Halves
  <2> QED BY <2>4, <2>5, BaseTypes DEF n
<1>10. 0 .. Limbs \subseteq T
  <2>1. 0 \in T
    BY <1>8, BaseTypes
  <2>2. \A i \in 1 .. Limbs : i - 1 \in T => i \in T
    BY <1>9
  <2> HIDE DEF T
  <2> QED BY <2>1, <2>2, BaseTypes, Upwards
<1>11. ASSUME NEW i \in Places PROVE c[i + 1] = (x[i] * m + c[i]) \div Base
  <2>1. i + 1 \in 1 .. Limbs /\ (i + 1) - 1 = i /\ i \in 0 .. Limbs
    BY BaseTypes DEF Places
  <2>2. c[i] \in 0 .. Base - 1
    BY <1>10, <2>1
  <2> QED BY <1>9, <2>1, <2>2
<1> QED BY <1>8, <1>10, <1>11 DEF c

(* The two steps of a long multiplication and of a long division. *)
LEMMA MulStep ==
  \A up, x, m, b, c, above, r, q \in Nat :
    /\ x * m + c = q * b + r
    /\ above = m * up + q
    => above * b + r = m * (up * b + x) + c
<1> SUFFICES ASSUME NEW up \in Nat, NEW x \in Nat, NEW m \in Nat, NEW b \in Nat, NEW c \in Nat,
                    NEW above \in Nat, NEW r \in Nat, NEW q \in Nat,
                    x * m + c = q * b + r, above = m * up + q
             PROVE  above * b + r = m * (up * b + x) + c
  OBVIOUS
<1>1. above * b = (m * up) * b + q * b
  OBVIOUS
<1>2. m * (up * b + x) = m * (up * b) + m * x
  OBVIOUS
<1>3. (m * up) * b = m * (up * b) /\ m * x = x * m
  OBVIOUS
<1>4. (m * up) * b \in Nat /\ q * b \in Nat /\ x * m \in Nat
  OBVIOUS
<1> QED BY <1>1, <1>2, <1>3, <1>4

LEMMA DivStep ==
  \A up, x, d, b, rem, above, q, r \in Nat :
    /\ rem * b + x = q * d + r
    /\ up = d * above + rem
    => up * b + x = d * (above * b + q) + r
<1> SUFFICES ASSUME NEW up \in Nat, NEW x \in Nat, NEW d \in Nat, NEW b \in Nat, NEW rem \in Nat,
                    NEW above \in Nat, NEW q \in Nat, NEW r \in Nat,
                    rem * b + x = q * d + r, up = d * above + rem
             PROVE  up * b + x = d * (above * b + q) + r
  OBVIOUS
<1>1. up * b = (d * above) * b + rem * b
  OBVIOUS
<1>2. d * (above * b + q) = d * (above * b) + d * q
  OBVIOUS
<1>3. (d * above) * b = d * (above * b) /\ d * q = q * d
  OBVIOUS
<1>4. (d * above) * b \in Nat /\ rem * b \in Nat /\ q * d \in Nat
  OBVIOUS
<1> QED BY <1>1, <1>2, <1>3, <1>4

(* mul_small multiplies, unless it saturates. *)
LEMMA MulSmallExact ==
  ASSUME NEW x \in U, NEW m \in 0 .. Base - 1, Carries(x, m)[Limbs] = 0
  PROVE  MulSmall(x, m) \in U /\ Number(MulSmall(x, m)) = m * Number(x)
<1> DEFINE c == Carries(x, m)
           r == MulSmall(x, m)
           T == {i \in 0 .. Limbs : Upper(r)[i] = m * Upper(x)[i] + c[i]}
<1>1. r = [i \in Places |-> (x[i] * m + c[i]) % Base] /\ c[Limbs] = 0
  BY DEF MulSmall
<1>2. /\ \A i \in 0 .. Limbs : c[i] \in Nat
      /\ \A i \in Places : c[i + 1] = (x[i] * m + c[i]) \div Base
      /\ c[0] = 0
  BY CarriesEq, BaseTypes
<1> HIDE DEF c, r
<1>3. \A i \in Places : i \in 0 .. Limbs /\ i + 1 \in 0 .. Limbs /\ x[i] \in Nat
  BY BaseTypes DEF U, Places
<1>4. ASSUME NEW i \in Places
      PROVE  /\ r[i] \in 0 .. Base - 1
             /\ x[i] * m + c[i] = c[i + 1] * Base + r[i]
  <2> DEFINE n == x[i] * m + c[i]
  <2>1. n \in Nat
    BY <1>2, <1>3, BaseTypes
  <2>2. r[i] = n % Base /\ c[i + 1] = n \div Base
    BY <1>1, <1>2
  <2> HIDE DEF n
  <2>3. n % Base \in 0 .. Base - 1 /\ n = (n \div Base) * Base + (n % Base)
    BY <2>1, BaseTypes, Halves
  <2> QED BY <2>2, <2>3 DEF n
<1>5. r \in U
  BY <1>1, <1>4 DEF U
<1>6. Limbs \in T
  <2>1. Upper(r)[Limbs] = 0 /\ Upper(x)[Limbs] = 0
    BY <1>5, UpperEq
  <2> QED BY <1>1, <2>1, BaseTypes
<1>7. ASSUME NEW i \in 0 .. Limbs - 1, i + 1 \in T PROVE i \in T
  <2>1. i \in Places
    BY DEF Places
  <2>2. /\ Upper(r)[i] = Upper(r)[i + 1] * Base + r[i]
        /\ Upper(x)[i] = Upper(x)[i + 1] * Base + x[i]
        /\ Upper(r)[i + 1] \in Nat /\ Upper(x)[i + 1] \in Nat
    BY <1>3, <1>5, <2>1, UpperEq
  <2>3. Upper(r)[i + 1] = m * Upper(x)[i + 1] + c[i + 1]
    BY <1>7
  <2>4. /\ x[i] \in Nat /\ m \in Nat /\ Base \in Nat
        /\ c[i] \in Nat /\ c[i + 1] \in Nat /\ r[i] \in Nat
    BY <1>2, <1>3, <1>4, <2>1, BaseTypes
  <2>5. Upper(r)[i + 1] * Base + r[i] = m * (Upper(x)[i + 1] * Base + x[i]) + c[i]
    BY <1>4, <2>1, <2>2, <2>3, <2>4, MulStep
  <2>6. Upper(r)[i] = m * Upper(x)[i] + c[i]
    BY <2>2, <2>5
  <2> QED BY <1>3, <2>1, <2>6
<1>8. 0 \in T
  <2>1. Limbs \in Nat /\ 0 \in 0 .. Limbs
    BY BaseTypes
  <2> HIDE DEF T
  <2>2. 0 .. Limbs \subseteq T
    BY <1>6, <1>7, <2>1, Downwards
  <2> QED BY <2>1, <2>2
<1>9. Upper(x)[0] \in Nat
  BY UpperEq, BaseTypes
<1>10. Upper(r)[0] = m * Upper(x)[0]
  BY <1>2, <1>8, <1>9, BaseTypes
<1> QED BY <1>5, <1>10 DEF Number, r

LEMMA ShiftedTypes == \A v \in Nat : Shifted(v) \in Nat
<1> SUFFICES ASSUME NEW v \in Nat PROVE Shifted(v) \in Nat
  OBVIOUS
<1>1. v * Base \in Nat
  BY BaseTypes
<1> QED BY <1>1, BaseTypes, Halves DEF Shifted

(* div_small: the remainders are below the divisor. *)
LEMMA RemaindersBelow ==
  ASSUME NEW x \in U, NEW d \in Nat \ {0}
  PROVE  /\ Remainders(x, d)[Limbs] = 0
         /\ \A i \in 0 .. Limbs : Remainders(x, d)[i] \in 0 .. d - 1
         /\ \A i \in Places :
              Remainders(x, d)[i] = (Shifted(Remainders(x, d)[i + 1]) + x[i]) % d
<1> DEFINE F == [i \in 0 .. Limbs - 1 |-> [v \in Nat |-> (Shifted(v) + x[i]) % d]]
           G(g) == [i \in 0 .. Limbs |-> IF i = Limbs THEN 0 ELSE (Shifted(g[i + 1]) + x[i]) % d]
           c == Remainders(x, d)
<1>1. \A i \in 0 .. Limbs - 1 : i \in Places /\ x[i] \in Nat
  BY BaseTypes DEF U, Places
<1>2. \A v \in Nat : Shifted(v) \in Nat
  BY ShiftedTypes
<1>3. \A i \in 0 .. Limbs - 1, v \in Nat : (Shifted(v) + x[i]) % d \in 0 .. d - 1
  <2> SUFFICES ASSUME NEW i \in 0 .. Limbs - 1, NEW v \in Nat
               PROVE  (Shifted(v) + x[i]) % d \in 0 .. d - 1
    OBVIOUS
  <2> DEFINE n == Shifted(v) + x[i]
  <2>1. n \in Nat /\ d \in Nat \ {0}
    BY <1>1, <1>2, BaseTypes
  <2> HIDE DEF n
  <2>2. n % d \in 0 .. d - 1
    BY <2>1, Halves
  <2> QED BY <2>2 DEF n
<1>4. F \in [0 .. Limbs - 1 -> [Nat -> Nat]]
  BY <1>3, BaseTypes
<1>5. PICK g \in [0 .. Limbs -> Nat] :
        g[Limbs] = 0 /\ \A i \in 0 .. Limbs - 1 : g[i] = F[i][g[i + 1]]
  <2>1. Limbs \in Nat
    BY BaseTypes
  <2> HIDE DEF F
  <2> QED BY <1>4, <2>1, IteratesDown
<1>6. g = G(g)
  <2>1. \A i \in 0 .. Limbs - 1 : i + 1 \in 0 .. Limbs
    BY BaseTypes
  <2>2. \A i \in 0 .. Limbs - 1 : g[i] = (Shifted(g[i + 1]) + x[i]) % d
    BY <1>5, <2>1
  <2> HIDE DEF F
  <2>3. \A i \in 0 .. Limbs : i = Limbs \/ i \in 0 .. Limbs - 1
    BY BaseTypes
  <2> QED BY <1>5, <2>2, <2>3
<1>7. c = CHOOSE h : h = G(h)
  BY DEF Remainders
<1>8. c = G(c)
  <2> HIDE DEF G, c
  <2> QED BY <1>6, <1>7
<1> HIDE DEF c
<1>9. /\ c[Limbs] = 0
      /\ \A i \in 0 .. Limbs - 1 : c[i] = (Shifted(c[i + 1]) + x[i]) % d
  <2>1. Limbs \in 0 .. Limbs /\ \A i \in 0 .. Limbs - 1 : i \in 0 .. Limbs /\ i # Limbs
    BY BaseTypes
  <2>2. c[Limbs] = 0
    BY <1>8, <2>1
  <2>3. ASSUME NEW i \in 0 .. Limbs - 1 PROVE c[i] = (Shifted(c[i + 1]) + x[i]) % d
    BY <1>8, <2>1
  <2> QED BY <2>2, <2>3
<1> DEFINE T == {i \in 0 .. Limbs : c[i] \in 0 .. d - 1}
<1>10. 0 .. Limbs \subseteq T
  <2>1. Limbs \in T
    BY <1>9, BaseTypes
  <2>2. \A i \in 0 .. Limbs - 1 : i + 1 \in T => i \in T
    <3> SUFFICES ASSUME NEW i \in 0 .. Limbs - 1, i + 1 \in T PROVE i \in T
      OBVIOUS
    <3>1. c[i + 1] \in Nat /\ i \in 0 .. Limbs
      BY BaseTypes
    <3> QED BY <1>3, <1>9, <3>1
  <2> HIDE DEF T
  <2> QED BY <2>1, <2>2, BaseTypes, Downwards
<1>11. ASSUME NEW i \in Places PROVE c[i] = (Shifted(c[i + 1]) + x[i]) % d
  <2>1. i \in 0 .. Limbs - 1
    BY DEF Places
  <2> QED BY <1>9, <2>1
<1> QED BY <1>9, <1>10, <1>11 DEF c

(* div_small by what fits a limb: no remainder loses bits when it is shifted. *)
LEMMA RemaindersEq ==
  ASSUME NEW x \in U, NEW d \in 1 .. Base
  PROVE  /\ Remainders(x, d)[Limbs] = 0
         /\ \A i \in 0 .. Limbs : Remainders(x, d)[i] \in 0 .. d - 1
         /\ \A i \in Places :
              /\ Shifted(Remainders(x, d)[i + 1]) = Remainders(x, d)[i + 1] * Base
              /\ Remainders(x, d)[i] = (Remainders(x, d)[i + 1] * Base + x[i]) % d
<1> DEFINE c == Remainders(x, d)
<1>1. /\ c[Limbs] = 0
      /\ \A i \in 0 .. Limbs : c[i] \in 0 .. d - 1
      /\ \A i \in Places : c[i] = (Shifted(c[i + 1]) + x[i]) % d
  <2>1. d \in Nat \ {0}
    OBVIOUS
  <2> QED BY <2>1, RemaindersBelow
<1> HIDE DEF c
<1>2. ASSUME NEW i \in Places
      PROVE  /\ Shifted(c[i + 1]) = c[i + 1] * Base
             /\ c[i] = (c[i + 1] * Base + x[i]) % d
  <2>1. i + 1 \in 0 .. Limbs
    BY BaseTypes DEF Places
  <2>2. c[i + 1] \in 0 .. Base - 1
    BY <1>1, <2>1, BaseTypes
  <2>3. c[i + 1] * Base \in Nat /\ c[i + 1] * Base < Base * Base
    BY <2>2, BaseTypes
  <2>4. Shifted(c[i + 1]) = c[i + 1] * Base
    BY <2>3, DoubleLimbHolds DEF Shifted
  <2> QED BY <1>1, <2>4
<1> QED BY <1>1, <1>2 DEF c

(* div_small divides by what fits a limb. *)
LEMMA DivSmallExact ==
  ASSUME NEW x \in U, NEW d \in 1 .. Base
  PROVE  DivSmall(x, d) \in U /\ Number(DivSmall(x, d)) = Number(x) \div d
<1> DEFINE c == Remainders(x, d)
           q == DivSmall(x, d)
           T == {i \in 0 .. Limbs : Upper(x)[i] = d * Upper(q)[i] + c[i]}
<1>1. /\ c[Limbs] = 0
      /\ \A i \in 0 .. Limbs : c[i] \in 0 .. d - 1
      /\ \A i \in Places :
           /\ Shifted(c[i + 1]) = c[i + 1] * Base
           /\ c[i] = (c[i + 1] * Base + x[i]) % d
  BY RemaindersEq
<1>2. \A i \in Places : i \in 0 .. Limbs /\ i + 1 \in 0 .. Limbs /\ x[i] \in 0 .. Base - 1
  BY BaseTypes DEF U, Places
<1>3. q = [i \in Places |-> ((Shifted(c[i + 1]) + x[i]) \div d) % Base]
  BY DEF DivSmall
<1> HIDE DEF c, q
<1>4. ASSUME NEW i \in Places
      PROVE  /\ q[i] \in 0 .. Base - 1
             /\ c[i + 1] * Base + x[i] = q[i] * d + c[i]
  <2> DEFINE n == c[i + 1] * Base + x[i]
  <2>1. c[i + 1] \in 0 .. d - 1 /\ x[i] \in 0 .. Base - 1
    BY <1>1, <1>2
  <2>2. n \in Nat /\ n < d * Base
    <3>1. c[i + 1] * Base <= (d - 1) * Base /\ c[i + 1] * Base \in Nat
      BY <2>1, BaseTypes
    <3>2. (d - 1) * Base + (Base - 1) < d * Base
      BY BaseTypes
    <3> QED BY <2>1, <3>1, <3>2, BaseTypes
  <2>3. q[i] = (n \div d) % Base /\ c[i] = n % d
    BY <1>1, <1>3
  <2> HIDE DEF n
  <2>4. n \div d \in Nat /\ n \div d < Base
    BY <2>2, BaseTypes, QuotientBelow, Halves
  <2>5. q[i] = n \div d
    BY <2>3, <2>4, BaseTypes
  <2>6. n = (n \div d) * d + (n % d)
    BY <2>2, Halves
  <2> QED BY <2>3, <2>4, <2>5, <2>6, BaseTypes DEF n
<1>5. q \in U
  BY <1>3, <1>4 DEF U
<1>6. Limbs \in T
  <2>1. Upper(q)[Limbs] = 0 /\ Upper(x)[Limbs] = 0
    BY <1>5, UpperEq
  <2> QED BY <1>1, <2>1, BaseTypes
<1>7. ASSUME NEW i \in 0 .. Limbs - 1, i + 1 \in T PROVE i \in T
  <2>1. i \in Places
    BY DEF Places
  <2>2. /\ Upper(q)[i] = Upper(q)[i + 1] * Base + q[i]
        /\ Upper(x)[i] = Upper(x)[i + 1] * Base + x[i]
        /\ Upper(q)[i + 1] \in Nat /\ Upper(x)[i + 1] \in Nat
    BY <1>2, <1>5, <2>1, UpperEq
  <2>3. Upper(x)[i + 1] = d * Upper(q)[i + 1] + c[i + 1]
    BY <1>7
  <2>4. /\ x[i] \in Nat /\ d \in Nat /\ Base \in Nat
        /\ c[i] \in Nat /\ c[i + 1] \in Nat /\ q[i] \in Nat
    BY <1>1, <1>2, <1>4, <2>1, BaseTypes
  <2>5. Upper(x)[i] = d * Upper(q)[i] + c[i]
    BY <1>4, <2>1, <2>2, <2>3, <2>4, DivStep
  <2> QED BY <1>2, <2>1, <2>5
<1>8. 0 \in T
  <2>1. Limbs \in Nat /\ 0 \in 0 .. Limbs
    BY BaseTypes
  <2> HIDE DEF T
  <2>2. 0 .. Limbs \subseteq T
    BY <1>6, <1>7, <2>1, Downwards
  <2> QED BY <2>1, <2>2
<1>9. /\ Upper(q)[0] \in Nat /\ c[0] \in 0 .. d - 1
      /\ Upper(x)[0] = d * Upper(q)[0] + c[0]
  BY <1>1, <1>5, <1>8, UpperEq, BaseTypes
<1>10. \A u, e, r \in Nat : e > 0 /\ r < e => (e * u + r) \div e = u
  OBVIOUS
<1>11. Upper(x)[0] \div d = Upper(q)[0]
  <2>1. d \in Nat /\ d > 0 /\ c[0] \in Nat /\ c[0] < d
    BY <1>9, BaseTypes
  <2>2. (d * Upper(q)[0] + c[0]) \div d = Upper(q)[0]
    BY <1>9, <1>10, <2>1
  <2> QED BY <1>9, <2>2
<1> QED BY <1>5, <1>11 DEF Number, q

(* One place of a long division that may lose bits: what is shifted is at   *)
(* most the remainder a place up.                                           *)
LEMMA BelowStep ==
  \A up, x, d, b, rem, sh, above, q, r \in Nat :
    /\ q * d + r <= sh + x
    /\ sh <= rem * b
    /\ d * above + rem <= up
    => d * (above * b + q) + r <= up * b + x
<1> SUFFICES ASSUME NEW up \in Nat, NEW x \in Nat, NEW d \in Nat, NEW b \in Nat, NEW rem \in Nat,
                    NEW sh \in Nat, NEW above \in Nat, NEW q \in Nat, NEW r \in Nat,
                    q * d + r <= sh + x, sh <= rem * b, d * above + rem <= up
             PROVE  d * (above * b + q) + r <= up * b + x
  OBVIOUS
<1>1. d * (above * b + q) = d * (above * b) + d * q
  OBVIOUS
<1>2. d * (above * b) = (d * above) * b /\ d * q = q * d
  OBVIOUS
<1>3. PICK n \in Nat : up = (d * above + rem) + n
  <2>1. d * above \in Nat
    OBVIOUS
  <2>2. up - (d * above + rem) \in Nat
    BY <2>1
  <2> QED BY <2>1, <2>2
<1>4. up * b = (d * above) * b + rem * b + n * b
  BY <1>3
<1>5. (d * above) * b \in Nat /\ rem * b \in Nat /\ n * b \in Nat /\ q * d \in Nat
  OBVIOUS
<1> QED BY <1>1, <1>2, <1>4, <1>5

LEMMA ShiftedBelow == \A v \in Nat : Shifted(v) <= v * Base
<1> SUFFICES ASSUME NEW v \in Nat PROVE Shifted(v) <= v * Base
  OBVIOUS
<1> DEFINE n == v * Base
<1>1. n \in Nat /\ DoubleLimb \in Nat \ {0}
  BY BaseTypes
<1> HIDE DEF n
<1>2. n % DoubleLimb <= n
  BY <1>1, Halves
<1> QED BY <1>2 DEF Shifted, n

(* div_small never gives more than the quotient, whatever it divides by.    *)
LEMMA DivSmallBelow ==
  ASSUME NEW x \in U, NEW d \in Nat \ {0}
  PROVE  Number(DivSmall(x, d)) <= Number(x) \div d
<1> DEFINE c == Remainders(x, d)
           q == DivSmall(x, d)
           T == {i \in 0 .. Limbs : d * Upper(q)[i] + c[i] <= Upper(x)[i]}
<1>1. /\ c[Limbs] = 0
      /\ \A i \in 0 .. Limbs : c[i] \in Nat
      /\ \A i \in Places : c[i] = (Shifted(c[i + 1]) + x[i]) % d
  BY RemaindersBelow
<1>2. \A i \in Places : i \in 0 .. Limbs /\ i + 1 \in 0 .. Limbs /\ x[i] \in Nat
  BY BaseTypes DEF U, Places
<1>3. q = [i \in Places |-> ((Shifted(c[i + 1]) + x[i]) \div d) % Base]
  BY DEF DivSmall
<1> HIDE DEF c, q
<1>4. ASSUME NEW i \in Places
      PROVE  /\ q[i] \in 0 .. Base - 1
             /\ q[i] * d + c[i] <= Shifted(c[i + 1]) + x[i]
  <2> DEFINE n == Shifted(c[i + 1]) + x[i]
             k == n \div d
  <2>1. n \in Nat
    BY <1>1, <1>2, ShiftedTypes
  <2>2. q[i] = k % Base /\ c[i] = n % d
    BY <1>1, <1>3
  <2> HIDE DEF n
  <2>3. k \in Nat /\ n = k * d + (n % d) /\ n % d \in Nat
    BY <2>1, Halves
  <2> HIDE DEF k
  <2>4. k % Base \in 0 .. Base - 1 /\ k % Base <= k
    <3>1. k \in Nat /\ Base \in Nat \ {0}
      BY <2>3, BaseTypes
    <3>2. \A a \in Nat, b \in Nat \ {0} : a % b \in 0 .. b - 1 /\ a % b <= a
      OBVIOUS
    <3> QED BY <3>1, <3>2
  <2>5. \A a, b, e \in Nat : a <= b => a * e <= b * e
    OBVIOUS
  <2>6. (k % Base) * d <= k * d /\ (k % Base) * d \in Nat /\ k * d \in Nat
    BY <2>3, <2>4, <2>5, BaseTypes
  <2>7. (k % Base) * d + (n % d) <= n
    BY <2>1, <2>3, <2>6
  <2> QED BY <2>2, <2>4, <2>7 DEF n
<1>5. q \in U
  BY <1>3, <1>4 DEF U
<1>6. Limbs \in T
  <2>1. Upper(q)[Limbs] = 0 /\ Upper(x)[Limbs] = 0
    BY <1>5, UpperEq
  <2> QED BY <1>1, <2>1, BaseTypes
<1>7. ASSUME NEW i \in 0 .. Limbs - 1, i + 1 \in T PROVE i \in T
  <2>1. i \in Places
    BY DEF Places
  <2>2. /\ Upper(q)[i] = Upper(q)[i + 1] * Base + q[i]
        /\ Upper(x)[i] = Upper(x)[i + 1] * Base + x[i]
        /\ Upper(q)[i + 1] \in Nat /\ Upper(x)[i + 1] \in Nat
    BY <1>2, <1>5, <2>1, UpperEq
  <2>3. d * Upper(q)[i + 1] + c[i + 1] <= Upper(x)[i + 1]
    BY <1>7
  <2>4. /\ x[i] \in Nat /\ d \in Nat /\ Base \in Nat
        /\ c[i] \in Nat /\ c[i + 1] \in Nat /\ q[i] \in Nat
        /\ Shifted(c[i + 1]) \in Nat /\ Shifted(c[i + 1]) <= c[i + 1] * Base
    BY <1>1, <1>2, <1>4, <2>1, BaseTypes, ShiftedTypes, ShiftedBelow
  <2>5. d * (Upper(q)[i + 1] * Base + q[i]) + c[i] <= Upper(x)[i + 1] * Base + x[i]
    BY <1>4, <2>1, <2>2, <2>3, <2>4, BelowStep
  <2> QED BY <1>2, <2>1, <2>2, <2>5
<1>8. 0 \in T
  <2>1. Limbs \in Nat /\ 0 \in 0 .. Limbs
    BY BaseTypes
  <2> HIDE DEF T
  <2>2. 0 .. Limbs \subseteq T
    BY <1>6, <1>7, <2>1, Downwards
  <2> QED BY <2>1, <2>2
<1>9. /\ Upper(q)[0] \in Nat /\ c[0] \in Nat /\ Upper(x)[0] \in Nat
      /\ d * Upper(q)[0] + c[0] <= Upper(x)[0]
  BY <1>1, <1>2, <1>5, <1>8, UpperEq, BaseTypes
<1>10. \A u, e, v \in Nat : e > 0 /\ e * u <= v => u <= v \div e
  OBVIOUS
<1>11. Upper(q)[0] <= Upper(x)[0] \div d
  <2>1. d * Upper(q)[0] \in Nat
    BY <1>9
  <2>2. d * Upper(q)[0] <= Upper(x)[0]
    BY <1>9, <2>1
  <2> QED BY <1>9, <1>10, <2>2
<1> QED BY <1>11 DEF Number, q

-----------------------------------------------------------------------------
(* The target.  MAX_TARGET has a zero at the top, so that its product with  *)
(* what fits a limb does not saturate.                                      *)

LEMMA MaxTargetTypes == MaxTarget \in U
<1>1. HalfLimb \in Nat \ {0, 1}
  BY U256Assumption
<1>2. \A h \in Nat \ {0, 1} : h * h - h \in 0 .. h * h - 1
  OBVIOUS
<1>3. Base - HalfLimb \in 0 .. Base - 1
  BY <1>1, <1>2 DEF Base
<1>4. 0 \in 0 .. Base - 1
  BY BaseTypes
<1> QED BY <1>3, <1>4 DEF MaxTarget, U

LEMMA ScaledFits ==
  ASSUME NEW m \in 0 .. Base - 1 PROVE Carries(MaxTarget, m)[Limbs] = 0
<1> DEFINE x == MaxTarget
<1>1. Limbs - 1 \in Places /\ (Limbs - 1) + 1 = Limbs /\ Limbs - 1 \in 0 .. Limbs
  BY BaseTypes DEF Places
<1>2. x[Limbs - 1] = 0
  BY <1>1, BaseTypes DEF MaxTarget
<1>3. x \in U
  BY MaxTargetTypes
<1> HIDE DEF x
<1> DEFINE c == Carries(x, m)[Limbs - 1]
<1>4. c \in 0 .. Base - 1 /\ Carries(x, m)[Limbs] = (x[Limbs - 1] * m + c) \div Base
  <2>1. /\ \A i \in 0 .. Limbs : Carries(x, m)[i] \in 0 .. Base - 1
        /\ \A i \in Places : Carries(x, m)[i + 1] = (x[i] * m + Carries(x, m)[i]) \div Base
    BY <1>3, CarriesEq
  <2>2. Carries(x, m)[(Limbs - 1) + 1] = (x[Limbs - 1] * m + Carries(x, m)[Limbs - 1]) \div Base
    BY <1>1, <2>1
  <2> QED BY <1>1, <2>1, <2>2
<1> HIDE DEF c
<1>5. 0 * m + c = c /\ c \div Base = 0
  BY <1>4, BaseTypes
<1> QED BY <1>2, <1>4, <1>5 DEF x

(* MAX_TARGET * den, and what is divided. *)
LEMMA Scaled ==
  ASSUME NEW d \in Difficulty, d.num # 0, d.den < Base
  PROVE  /\ MulSmall(MaxTarget, d.den) \in U
         /\ Number(MulSmall(MaxTarget, d.den)) = Number(MaxTarget) * d.den
         /\ Target(d) = DivSmall(MulSmall(MaxTarget, d.den), d.num)
<1> DEFINE x == MaxTarget
           m == d.den
<1>1. m \in 1 .. Base - 1 /\ m \in 0 .. Base - 1
  BY BaseTypes DEF Difficulty
<1>2. x \in U
  BY MaxTargetTypes
<1>3. Carries(x, m)[Limbs] = 0
  BY <1>1, ScaledFits
<1>4. Target(d) = DivSmall(MulSmall(x, m), d.num)
  <2>1. d.num # 0 /\ d.den # 0 /\ ~ (d.den >= Base)
    BY BaseTypes DEF Difficulty
  <2> QED BY <2>1 DEF Target, x, m
<1> HIDE DEF x, m
<1>5. MulSmall(x, m) \in U /\ Number(MulSmall(x, m)) = m * Number(x)
  BY <1>1, <1>2, <1>3, MulSmallExact
<1>6. m * Number(x) = Number(x) * m
  <2>1. Number(x) \in Nat
    BY <1>2, UpperEq, BaseTypes DEF Number
  <2> QED BY <1>1, <2>1
<1> QED BY <1>4, <1>5, <1>6 DEF x, m

LEMMA TargetOf ==
  ASSUME NEW d \in Difficulty, d.num \in 1 .. Base, d.den < Base
  PROVE  Number(Target(d)) = FloorTarget(d)
<1>1. d.num # 0
  BY BaseTypes
<1> QED BY <1>1, Scaled, DivSmallExact DEF FloorTarget

LEMMA TargetBelow ==
  ASSUME NEW d \in Difficulty, d.num # 0, d.den < Base
  PROVE  Number(Target(d)) <= FloorTarget(d)
<1>1. d.num \in Nat \ {0}
  BY DEF Difficulty
<1> QED BY <1>1, Scaled, DivSmallBelow DEF FloorTarget

-----------------------------------------------------------------------------
(* How long a target is.  It has no limb above the third from the top, or a *)
(* remainder that is shifted out leaves nothing below: a target is zero or  *)
(* at least Base * Base.                                                    *)

LEMMA TimesNat == \A a, b \in Nat : a * b \in Nat
OBVIOUS

LEMMA NoLimbs ==
  ASSUME NEW x \in U, \A i \in Places : x[i] = 0
  PROVE  Number(x) = 0
<1> DEFINE T == {i \in 0 .. Limbs : Upper(x)[i] = 0}
<1>1. Limbs \in Nat /\ Limbs \in T
  BY UpperEq, BaseTypes
<1>2. ASSUME NEW i \in 0 .. Limbs - 1, i + 1 \in T PROVE i \in T
  <2>1. i \in Places /\ i \in 0 .. Limbs
    BY BaseTypes DEF Places
  <2>2. Upper(x)[i] = Upper(x)[i + 1] * Base + x[i] /\ Upper(x)[i + 1] = 0
    BY <1>2, <2>1, UpperEq
  <2>3. 0 * Base + 0 = 0
    BY BaseTypes
  <2> QED BY <2>1, <2>2, <2>3
<1>3. 0 \in T
  <2> HIDE DEF T
  <2>1. 0 .. Limbs \subseteq T
    BY <1>1, <1>2, Downwards
  <2> QED BY <1>1, <2>1
<1> QED BY <1>3 DEF Number

LEMMA HighLimb ==
  ASSUME NEW x \in U, NEW j \in Places, j >= 2, x[j] # 0
  PROVE  Number(x) >= Base * Base
<1> DEFINE T == {i \in 0 .. j : Upper(x)[i] > 0}
<1>1. /\ \A i \in 0 .. j : i \in Places /\ i \in 0 .. Limbs /\ i + 1 \in 0 .. Limbs
      /\ j \in Nat /\ j \in 0 .. j /\ {0, 1, 2} \subseteq 0 .. j
  BY BaseTypes DEF Places
<1>2. \A i \in 0 .. j : /\ Upper(x)[i] = Upper(x)[i + 1] * Base + x[i]
                        /\ Upper(x)[i] \in Nat /\ Upper(x)[i + 1] \in Nat /\ x[i] \in Nat
  <2>1. \A i \in Places : x[i] \in Nat
    BY BaseTypes DEF U
  <2>2. Upper(x) \in [0 .. Limbs -> Nat]
    BY UpperEq
  <2> QED BY <1>1, <2>1, <2>2, UpperEq
<1>3. j \in T
  <2>1. Upper(x)[j + 1] * Base \in Nat
    BY <1>1, <1>2, BaseTypes, TimesNat
  <2>2. x[j] \in Nat /\ x[j] > 0
    BY <1>1, <1>2
  <2>3. Upper(x)[j] > 0
    BY <1>1, <1>2, <2>1, <2>2
  <2> QED BY <1>1, <2>3
<1>4. \A u, y, b \in Nat : u >= 1 /\ b >= 1 => u * b + y >= b
  <2> SUFFICES ASSUME NEW u \in Nat, NEW y \in Nat, NEW b \in Nat, u >= 1 PROVE u * b + y >= b
    OBVIOUS
  <2>1. u * b >= b
    OBVIOUS
  <2>2. u * b \in Nat
    OBVIOUS
  <2> QED BY <2>1, <2>2
<1>5. ASSUME NEW i \in 0 .. j - 1, i + 1 \in T PROVE i \in T
  <2>1. i \in 0 .. j
    BY <1>1
  <2>2. Upper(x)[i + 1] >= 1 /\ Base \in Nat /\ Base >= 1
    BY <1>2, <1>5, <2>1, BaseTypes
  <2>3. Upper(x)[i] >= Base
    BY <1>2, <1>4, <2>1, <2>2
  <2>4. Upper(x)[i] > 0
    BY <1>2, <2>1, <2>2, <2>3
  <2> QED BY <2>1, <2>4
<1>6. 2 \in T
  <2> HIDE DEF T
  <2>1. 0 .. j \subseteq T
    BY <1>1, <1>3, <1>5, Downwards
  <2> QED BY <1>1, <2>1
<1>7. /\ Upper(x)[1] = Upper(x)[2] * Base + x[1]
      /\ Upper(x)[0] = Upper(x)[1] * Base + x[0]
  BY <1>1, <1>2
<1>8. Upper(x)[1] >= Base
  <2>1. Upper(x)[2] \in Nat /\ Upper(x)[2] >= 1 /\ x[1] \in Nat /\ Base \in Nat /\ Base >= 1
    BY <1>1, <1>2, <1>6, BaseTypes
  <2> QED BY <1>4, <1>7, <2>1
<1>9. \A u, y, b \in Nat : u >= b => u * b + y >= b * b
  <2> SUFFICES ASSUME NEW u \in Nat, NEW y \in Nat, NEW b \in Nat, u >= b PROVE u * b + y >= b * b
    OBVIOUS
  <2>1. u * b >= b * b /\ u * b \in Nat
    OBVIOUS
  <2> QED BY <2>1
<1>10. Upper(x)[1] \in Nat /\ x[0] \in Nat /\ Base \in Nat
  BY <1>1, <1>2, BaseTypes
<1>11. Upper(x)[0] >= Base * Base
  BY <1>7, <1>8, <1>9, <1>10
<1> QED BY <1>11 DEF Number

(* MAX_TARGET times what fits a limb has its two highest limbs only. *)
LEMMA ScaledLimbs ==
  ASSUME NEW m \in 0 .. Base - 1
  PROVE  /\ MulSmall(MaxTarget, m) \in U
         /\ \A i \in 0 .. Limbs - 3 : MulSmall(MaxTarget, m)[i] = 0
<1> DEFINE c == Carries(MaxTarget, m)
           N == Limbs - 2
           T == {i \in 0 .. N : c[i] = 0}
<1>1. MulSmall(MaxTarget, m) \in U
  BY MaxTargetTypes, ScaledFits, MulSmallExact
<1>2. /\ c[0] = 0 /\ c[Limbs] = 0
      /\ \A i \in Places : c[i + 1] = (MaxTarget[i] * m + c[i]) \div Base
  BY MaxTargetTypes, ScaledFits, CarriesEq
<1>3. MulSmall(MaxTarget, m) = [i \in Places |-> (MaxTarget[i] * m + c[i]) % Base]
  BY <1>2 DEF MulSmall
<1>4. N \in Nat /\ \A i \in 0 .. N - 1 : i \in Places /\ i # Limbs - 2 /\ i \in 0 .. N
  BY BaseTypes DEF Places
<1>5. \A i \in 0 .. N - 1 : MaxTarget[i] = 0
  BY <1>4 DEF MaxTarget
<1>6. 0 * m + 0 = 0 /\ 0 \div Base = 0 /\ 0 % Base = 0
  BY BaseTypes
<1> HIDE DEF c
<1>7. 0 .. N \subseteq T
  <2>1. 0 \in T
    BY <1>2, <1>4
  <2>2. ASSUME NEW i \in 1 .. N, i - 1 \in T PROVE i \in T
    <3>1. i - 1 \in 0 .. N - 1 /\ (i - 1) + 1 = i /\ i \in 0 .. N
      BY <1>4
    <3>2. c[(i - 1) + 1] = (MaxTarget[i - 1] * m + c[i - 1]) \div Base
      BY <1>2, <1>4, <3>1
    <3> QED BY <1>5, <1>6, <2>2, <3>1, <3>2
  <2> HIDE DEF T, N
  <2> QED BY <1>4, <2>1, <2>2, Upwards
<1>8. ASSUME NEW i \in 0 .. Limbs - 3 PROVE MulSmall(MaxTarget, m)[i] = 0
  <2>1. i \in 0 .. N - 1
    BY BaseTypes
  <2>2. i \in Places /\ MaxTarget[i] = 0 /\ c[i] = 0
    BY <1>4, <1>5, <1>7, <2>1
  <2>3. MulSmall(MaxTarget, m)[i] = (MaxTarget[i] * m + c[i]) % Base
    BY <1>3, <2>2
  <2> QED BY <1>6, <2>2, <2>3
<1> QED BY <1>1, <1>8

(* A remainder that is shifted by two limbs is gone. *)
LEMMA ShiftedOut ==
  /\ Shifted(0) = 0
  /\ \A e \in Nat : Shifted(Shifted(e)) = 0
<1>1. Base \in Nat \ {0} /\ DoubleLimb = Base * Base /\ DoubleLimb \in Nat \ {0}
  BY BaseTypes DEF DoubleLimb
<1>2. Shifted(0) = 0
  <2>1. 0 * Base = 0 /\ 0 % DoubleLimb = 0
    BY <1>1
  <2> QED BY <2>1 DEF Shifted
<1>3. ASSUME NEW e \in Nat PROVE Shifted(Shifted(e)) = 0
  <2> DEFINE n == e * Base
             q == n \div DoubleLimb
             t == n % DoubleLimb
  <2>1. n \in Nat
    BY <1>1, TimesNat
  <2> HIDE DEF n
  <2>2. q \in Nat /\ t \in Nat /\ n = q * DoubleLimb + t
    <3>1. t \in 0 .. DoubleLimb - 1 /\ q \in Nat /\ n = q * DoubleLimb + t
      BY <1>1, <2>1, Halves
    <3> HIDE DEF q, t
    <3> QED BY <1>1, <3>1
  <2> HIDE DEF q, t
  <2> DEFINE u == q * Base
  <2>3. u \in Nat
    BY <1>1, <2>2, TimesNat
  <2>4. q * DoubleLimb = u * Base
    BY <1>1, <2>2
  <2> HIDE DEF u
  <2>5. e * Base = u * Base + t
    BY <2>2, <2>4 DEF n
  <2>6. t = (e - u) * Base
    BY <1>1, <2>2, <2>3, <2>5
  <2>7. e - u \in Nat
    <3>1. ASSUME e < u PROVE FALSE
      <4>1. (u - e) * Base > 0
        BY <1>1, <2>3, <3>1
      <4>2. t = - ((u - e) * Base)
        BY <1>1, <2>3, <2>6
      <4>3. (u - e) * Base \in Int
        BY <1>1, <2>3
      <4> QED BY <2>2, <4>1, <4>2, <4>3
    <3> QED BY <2>3, <3>1
  <2> DEFINE f == e - u
  <2>8. f \in Nat /\ t = f * Base
    BY <2>6, <2>7
  <2> HIDE DEF f
  <2>9. t * Base = f * DoubleLimb + 0
    BY <1>1, <2>8
  <2>10. \A a, b \in Nat : b > 0 => (a * b + 0) % b = 0
    <3> SUFFICES ASSUME NEW a \in Nat, NEW b \in Nat, b > 0 PROVE (a * b + 0) % b = 0
      OBVIOUS
    <3> QED OBVIOUS
  <2>11. (t * Base) % DoubleLimb = 0
    <3>1. (f * DoubleLimb + 0) % DoubleLimb = 0
      <4>1. f \in Nat /\ DoubleLimb \in Nat /\ DoubleLimb > 0
        BY <2>8, BaseTypes
      <4> QED BY <2>10, <4>1
    <3> QED BY <2>9, <3>1
  <2>12. Shifted(e) = t
    BY DEF Shifted, t, n
  <2> QED BY <2>11, <2>12 DEF Shifted
<1> QED BY <1>2, <1>3

LEMMA DivSmallTypes ==
  ASSUME NEW x \in U, NEW d \in Nat \ {0} PROVE DivSmall(x, d) \in U
<1> DEFINE c == Remainders(x, d)
           q == DivSmall(x, d)
<1>1. q = [i \in Places |-> ((Shifted(c[i + 1]) + x[i]) \div d) % Base]
  BY DEF DivSmall
<1>2. \A i \in 0 .. Limbs : c[i] \in 0 .. d - 1
  BY RemaindersBelow
<1> HIDE DEF c, q
<1>3. ASSUME NEW i \in Places
      PROVE  ((Shifted(c[i + 1]) + x[i]) \div d) % Base \in 0 .. Base - 1
  <2>1. c[i + 1] \in Nat /\ x[i] \in Nat
    <3>1. i + 1 \in 0 .. Limbs
      BY BaseTypes DEF Places
    <3> QED BY <1>2, <3>1, BaseTypes DEF U
  <2>2. Shifted(c[i + 1]) \in Nat
    BY <2>1, ShiftedTypes
  <2> DEFINE n == Shifted(c[i + 1]) + x[i]
  <2>3. n \in Nat
    BY <2>1, <2>2
  <2> HIDE DEF n
  <2>4. n \div d \in Nat
    BY <2>3, QuotientIsNat
  <2>5. (n \div d) % Base \in 0 .. Base - 1
    BY <2>4, BaseTypes, Halves
  <2> QED BY <2>5 DEF n
<1> QED BY <1>1, <1>3 DEF U, q

(* What the lower limbs of a quotient are when they are zero in the         *)
(* dividend and the third highest limb of the quotient is.                  *)
LEMMA NothingBelow ==
  ASSUME NEW x \in U, NEW d \in Nat \ {0},
         \A i \in 0 .. Limbs - 3 : x[i] = 0, DivSmall(x, d)[Limbs - 3] = 0
  PROVE  \A i \in 0 .. Limbs - 3 : DivSmall(x, d)[i] = 0
<1> DEFINE c == Remainders(x, d)
           q == DivSmall(x, d)
           N == Limbs - 3
<1>1. q = [i \in Places |-> ((Shifted(c[i + 1]) + x[i]) \div d) % Base]
  BY DEF DivSmall
<1>2. /\ \A i \in 0 .. Limbs : c[i] \in 0 .. d - 1
      /\ \A i \in Places : c[i] = (Shifted(c[i + 1]) + x[i]) % d
  BY RemaindersBelow
<1>3. N \in Nat /\ N - 1 \in Nat /\ \A i \in 0 .. N : i \in Places /\ i + 1 \in 0 .. Limbs /\ i \in 0 .. Limbs
  BY U256Assumption DEF Places
<1>4. q[N] = 0 /\ \A i \in 0 .. N : x[i] = 0
  OBVIOUS
<1> HIDE DEF c, q, N
<1>5. ASSUME NEW i \in 0 .. N
      PROVE  /\ Shifted(c[i + 1]) \in Nat
             /\ q[i] = (Shifted(c[i + 1]) \div d) % Base
             /\ c[i] = Shifted(c[i + 1]) % d
  <2>1. c[i + 1] \in Nat
    BY <1>2, <1>3
  <2>2. Shifted(c[i + 1]) \in Nat
    BY <2>1, ShiftedTypes
  <2>3. Shifted(c[i + 1]) + x[i] = Shifted(c[i + 1])
    BY <1>4, <2>2
  <2> QED BY <1>1, <1>2, <1>3, <2>2, <2>3
<1> DEFINE y == Shifted(c[N + 1])
<1>6. y \in Nat /\ y < d * Base
  <2>1. c[N + 1] \in 0 .. d - 1
    BY <1>2, <1>3
  <2>2. c[N + 1] * Base \in Nat /\ c[N + 1] * Base < d * Base
    BY <2>1, BaseTypes
  <2>3. \A a, b \in Nat : b > 0 => a % b \in Nat /\ a % b <= a
    OBVIOUS
  <2>4. y \in Nat /\ y <= c[N + 1] * Base
    BY <2>2, <2>3, BaseTypes DEF Shifted
  <2>5. d * Base \in Nat
    BY BaseTypes, TimesNat
  <2> HIDE DEF y
  <2> QED BY <2>2, <2>4, <2>5
<1>7. y \div d = 0
  <2>1. y \div d \in Nat /\ y \div d < Base
    BY <1>6, BaseTypes, QuotientBelow, QuotientIsNat
  <2>2. (y \div d) % Base = y \div d
    BY <2>1, BaseTypes
  <2>3. q[N] = (y \div d) % Base
    BY <1>3, <1>5
  <2> QED BY <1>4, <2>2, <2>3
<1>8. c[N] = y
  <2>1. c[N] = y % d
    BY <1>3, <1>5
  <2> HIDE DEF y
  <2>2. y = (y \div d) * d + (y % d)
    BY <1>6, Halves
  <2>3. 0 * d = 0 /\ y % d \in Nat
    BY <1>6
  <2> QED BY <1>7, <2>1, <2>2, <2>3
<1>9. Shifted(c[N]) = 0
  <2>1. c[N + 1] \in Nat
    BY <1>2, <1>3
  <2> QED BY <1>8, <2>1, ShiftedOut
<1>10. 0 % d = 0 /\ 0 \div d = 0 /\ 0 % Base = 0
  BY BaseTypes
<1> DEFINE T == {i \in 0 .. N : q[i] = 0 /\ Shifted(c[i]) = 0}
<1>11. N \in T
  BY <1>3, <1>4, <1>9
<1>12. ASSUME NEW i \in 0 .. N - 1, i + 1 \in T PROVE i \in T
  <2>1. i \in 0 .. N /\ Shifted(c[i + 1]) = 0
    BY <1>3, <1>12
  <2>2. q[i] = 0 /\ c[i] = 0
    BY <1>5, <1>10, <2>1
  <2> QED BY <2>1, <2>2, ShiftedOut
<1>13. 0 .. N \subseteq T
  <2> HIDE DEF T
  <2> QED BY <1>3, <1>11, <1>12, Downwards
<1>14. \A i \in 0 .. N : q[i] = 0
  BY <1>13
<1> QED BY <1>14 DEF q, N

LEMMA LongOrZero ==
  ASSUME NEW d \in Difficulty, d.num # 0, d.den < Base
  PROVE  /\ Target(d) \in U
         /\ Number(Target(d)) = 0 \/ Number(Target(d)) >= Base * Base
<1> DEFINE x == MulSmall(MaxTarget, d.den)
           q == DivSmall(x, d.num)
<1>1. d.den \in 0 .. Base - 1 /\ d.num \in Nat \ {0} /\ d.den # 0
  BY BaseTypes DEF Difficulty
<1>2. Target(d) = q
  <2>1. ~ (d.num = 0 \/ d.den = 0 \/ d.den >= Base)
    BY <1>1, BaseTypes
  <2> QED BY <2>1 DEF Target
<1>3. x \in U /\ \A i \in 0 .. Limbs - 3 : x[i] = 0
  BY <1>1, ScaledLimbs
<1> HIDE DEF x
<1>4. q \in U
  BY <1>1, <1>3, DivSmallTypes
<1>5. CASE \E j \in Places : j >= Limbs - 3 /\ q[j] # 0
  <2>1. PICK j \in Places : j >= Limbs - 3 /\ q[j] # 0
    BY <1>5
  <2>2. j >= 2
    BY <2>1, U256Assumption DEF Places
  <2> HIDE DEF q
  <2>3. Number(q) >= Base * Base
    BY <1>4, <2>1, <2>2, HighLimb
  <2> QED BY <1>2, <1>4, <2>3
<1>6. CASE \A j \in Places : j >= Limbs - 3 => q[j] = 0
  <2>1. Limbs - 3 \in Places /\ Limbs \in Nat
    BY U256Assumption DEF Places
  <2>2. q[Limbs - 3] = 0
    BY <1>6, <2>1
  <2>3. \A i \in 0 .. Limbs - 3 : q[i] = 0
    BY <1>1, <1>3, <2>2, NothingBelow
  <2>4. \A i \in Places : i \in 0 .. Limbs - 3 \/ i >= Limbs - 3
    BY <2>1 DEF Places
  <2>5. \A i \in Places : q[i] = 0
    BY <1>6, <2>3, <2>4
  <2> HIDE DEF q
  <2>6. Number(q) = 0
    BY <1>4, <2>5, NoLimbs
  <2> QED BY <1>2, <1>4, <2>6
<1> QED BY <1>5, <1>6

-----------------------------------------------------------------------------
(* The compact form.  A target of five bytes or more keeps its three        *)
(* highest, or two of them when the highest has the sign bit set.           *)

LEMMA ByteTypes ==
  /\ HalfLimb \in Nat \ {0, 1} /\ SignBit \in 1 .. HalfLimb /\ Limbs \in Nat /\ Limbs >= 5
  /\ Byte \in [0 .. 2 * Limbs -> Nat \ {0}] /\ Byte[0] = 1
  /\ \A i \in 1 .. 2 * Limbs : Byte[i] = HalfLimb * Byte[i - 1]
<1>1. HalfLimb \in Nat \ {0, 1} /\ HalfLimb \in Nat \ {0} /\ Limbs \in Nat /\ Limbs >= 5
  BY U256Assumption
<1>2. 2 * Limbs \in Nat
  BY <1>1
<1>3. SignBit \in 1 .. HalfLimb
  BY <1>1 DEF SignBit
<1> QED BY <1>1, <1>2, <1>3, PowersEq DEF Byte

LEMMA BytesUp ==
  ASSUME NEW i \in Nat, i + 3 <= 2 * Limbs
  PROVE  /\ Byte[i] \in Nat \ {0}
         /\ Byte[i + 1] = HalfLimb * Byte[i]
         /\ Byte[i + 2] = HalfLimb * HalfLimb * Byte[i]
         /\ Byte[i + 3] = HalfLimb * HalfLimb * HalfLimb * Byte[i]
<1>1. /\ i \in 0 .. 2 * Limbs /\ {i + 1, i + 2, i + 3} \subseteq 1 .. 2 * Limbs
      /\ (i + 1) - 1 = i /\ (i + 2) - 1 = i + 1 /\ (i + 3) - 1 = i + 2
  BY ByteTypes
<1>2. /\ Byte[i] \in Nat \ {0} /\ HalfLimb \in Nat
      /\ Byte[i + 1] = HalfLimb * Byte[i]
      /\ Byte[i + 2] = HalfLimb * Byte[i + 1]
      /\ Byte[i + 3] = HalfLimb * Byte[i + 2]
  BY <1>1, ByteTypes
<1> DEFINE b == Byte[i]
<1> HIDE DEF b
<1>3. b \in Nat
  BY <1>2 DEF b
<1>4. \A h, y \in Nat : h * (h * y) = h * h * y /\ h * (h * h * y) = h * h * h * y
  OBVIOUS
<1> QED BY <1>2, <1>3, <1>4 DEF b

LEMMA LowBytes ==
  /\ Byte[2] = HalfLimb * HalfLimb
  /\ \A i \in 0 .. 4 : Byte[i] <= Base * Base
<1> DEFINE h == HalfLimb
<1>1. h \in Nat /\ h >= 1
  BY ByteTypes
<1>2. Byte[0] = 1 /\ Byte[1] = h /\ Byte[2] = h * h /\ Byte[3] = h * h * h
  <2>1. 0 \in Nat /\ 0 + 3 <= 2 * Limbs
    BY ByteTypes
  <2>2. /\ Byte[0 + 1] = h * Byte[0] /\ Byte[0 + 2] = h * h * Byte[0]
        /\ Byte[0 + 3] = h * h * h * Byte[0] /\ Byte[0] = 1
    BY <2>1, BytesUp, ByteTypes
  <2>3. h * 1 = h /\ h * h * 1 = h * h /\ h * h * h * 1 = h * h * h
    BY <1>1
  <2> QED BY <2>2, <2>3
<1>3. Byte[4] = h * (h * h * h)
  <2>1. 4 \in 1 .. 2 * Limbs /\ 4 - 1 = 3
    BY ByteTypes
  <2> QED BY <1>2, <2>1, ByteTypes
<1> HIDE DEF h
<1>4. h * h \in Nat /\ h * h * h \in Nat /\ h * (h * h * h) \in Nat
  BY <1>1
<1>5. \A a, b \in Nat : b >= 1 => a <= b * a
  <2> SUFFICES ASSUME NEW a \in Nat, NEW b \in Nat, b >= 1 PROVE a <= b * a
    OBVIOUS
  <2> QED OBVIOUS
<1>6. 1 <= h /\ h <= h * h /\ h * h <= h * (h * h) /\ h * h * h <= h * (h * h * h)
  BY <1>1, <1>4, <1>5
<1>7. h * (h * h) = h * h * h /\ h * (h * h * h) = (h * h) * (h * h)
  BY <1>1
<1>8. Base = h * h
  BY DEF Base, h
<1>9. /\ Byte[0] <= Byte[1] /\ Byte[1] <= Byte[2] /\ Byte[2] <= Byte[3] /\ Byte[3] <= Byte[4]
      /\ Byte[4] = Base * Base
      /\ {Byte[0], Byte[1], Byte[2], Byte[3], Byte[4]} \subseteq Nat
  BY <1>1, <1>2, <1>3, <1>4, <1>6, <1>7, <1>8
<1>10. \A i \in 0 .. 4 : i \in {0, 1, 2, 3, 4}
  OBVIOUS
<1>11. \A i \in 0 .. 4 : Byte[i] <= Base * Base
  <2> SUFFICES ASSUME NEW i \in 0 .. 4 PROVE Byte[i] <= Base * Base
    OBVIOUS
  <2> QED BY <1>9, <1>10
<1> QED BY <1>2, <1>11 DEF h

(* A number in the limbs is below what its last byte would carry to. *)
LEMMA NumberFits ==
  ASSUME NEW x \in U PROVE Number(x) \in Nat /\ Number(x) < Byte[2 * Limbs]
<1> DEFINE T == {i \in 0 .. Limbs : Upper(x)[i] < Byte[2 * (Limbs - i)]}
<1>1. Limbs \in Nat /\ Upper(x) \in [0 .. Limbs -> Nat] /\ Upper(x)[Limbs] = 0
  BY UpperEq, BaseTypes
<1>2. Limbs \in T
  <2>1. 2 * (Limbs - Limbs) = 0 /\ Limbs \in 0 .. Limbs
    BY <1>1
  <2> QED BY <1>1, <2>1, ByteTypes
<1>3. ASSUME NEW i \in 0 .. Limbs - 1, i + 1 \in T PROVE i \in T
  <2> DEFINE k == 2 * (Limbs - (i + 1))
             u == Upper(x)[i + 1]
             y == x[i]
             b == Byte[k]
  <2>1. /\ i \in Places /\ i \in 0 .. Limbs /\ i + 1 \in 0 .. Limbs
        /\ k \in 0 .. 2 * Limbs /\ k + 1 \in 1 .. 2 * Limbs /\ k + 2 \in 1 .. 2 * Limbs
        /\ (k + 1) - 1 = k /\ (k + 2) - 1 = k + 1 /\ 2 * (Limbs - i) = k + 2
    BY <1>1 DEF Places
  <2>2. Byte[k + 1] = HalfLimb * b /\ Byte[k + 2] = HalfLimb * Byte[k + 1] /\ b \in Nat
    BY <2>1, ByteTypes
  <2>3. u \in Nat /\ u < b /\ Upper(x)[i] = u * Base + y
    BY <1>1, <1>3, <2>1, UpperEq
  <2>4. y \in 0 .. Base - 1
    BY <2>1 DEF U
  <2>5. 2 * (Limbs - i) = k + 2
    BY <2>1
  <2> HIDE DEF k, u, y, b
  <2>6. HalfLimb * (HalfLimb * b) = b * Base
    BY <2>2, ByteTypes DEF Base
  <2>7. Byte[2 * (Limbs - i)] = b * Base
    BY <2>2, <2>5, <2>6
  <2>8. u * Base + y < b * Base
    <3>1. u + 1 <= b /\ u + 1 \in Nat
      BY <2>2, <2>3
    <3>2. (u + 1) * Base <= b * Base
      BY <2>2, <2>3, <3>1, BaseTypes
    <3>3. (u + 1) * Base = u * Base + Base /\ u * Base \in Nat /\ b * Base \in Nat
      BY <2>2, <2>3, BaseTypes
    <3> QED BY <2>4, <3>2, <3>3, BaseTypes
  <2>9. Upper(x)[i] < Byte[2 * (Limbs - i)]
    BY <2>3, <2>7, <2>8
  <2> QED BY <2>1, <2>9
<1>4. 0 \in T
  <2> HIDE DEF T
  <2>1. 0 .. Limbs \subseteq T
    BY <1>1, <1>2, <1>3, Downwards
  <2> QED BY <1>1, <2>1
<1>5. 2 * (Limbs - 0) = 2 * Limbs /\ Upper(x)[0] \in Nat
  BY <1>1
<1> QED BY <1>4, <1>5 DEF Number

(* What the three highest bytes of a number keep of it. *)
LEMMA KeepsTop ==
  \A v, q, h, t : v \in Nat /\ q \in Nat \ {0} /\ h \in Nat \ {0} /\ t \in 0 .. h
                  /\ h * h * q <= v
    => LET w == (v \div q) * q
       IN  w \in Nat /\ w <= v /\ (v - w) * t * h <= v
<1> SUFFICES ASSUME NEW v \in Nat, NEW q \in Nat \ {0}, NEW h \in Nat \ {0}, NEW t \in 0 .. h,
                    h * h * q <= v
             PROVE  /\ (v \div q) * q \in Nat /\ (v \div q) * q <= v
                    /\ (v - (v \div q) * q) * t * h <= v
  OBVIOUS
<1> DEFINE r == v % q
           w == (v \div q) * q
<1>1. r \in 0 .. q - 1 /\ v \div q \in Nat /\ v = w + r
  BY Halves
<1>2. w \in Nat
  BY <1>1, TimesNat
<1> HIDE DEF r, w
<1>3. w <= v /\ v - w = r /\ r \in Nat /\ r <= q
  BY <1>1, <1>2
<1>4. t * h <= h * h /\ t * h \in Nat /\ h * h \in Nat
  OBVIOUS
<1>5. r * (t * h) <= q * (h * h)
  <2> DEFINE a == t * h
             b == h * h
  <2>1. a \in Nat /\ b \in Nat /\ a <= b
    BY <1>4
  <2> HIDE DEF a, b
  <2>2. r * a <= q * a
    BY <1>3, <2>1
  <2>3. q * a <= q * b
    BY <1>3, <2>1
  <2>4. r * a \in Int /\ q * a \in Int /\ q * b \in Int
    BY <1>3, <2>1
  <2>5. r * a <= q * b
    BY <2>2, <2>3, <2>4
  <2> QED BY <2>5 DEF a, b
<1>6. r * t * h = r * (t * h) /\ q * (h * h) = h * h * q
  BY <1>3
<1>7. r * (t * h) \in Int /\ h * h * q \in Int
  BY <1>3
<1>8. r * t * h <= v
  BY <1>5, <1>6, <1>7
<1> QED BY <1>2, <1>3, <1>8 DEF w

(* What the two highest bytes of a number with the sign bit keep of it. *)
LEMMA KeepsTopTwo ==
  \A v, q, h, t : v \in Nat /\ q \in Nat \ {0} /\ h \in Nat \ {0} /\ t \in Nat
                  /\ t * (h * h) <= v \div q
    => LET w == ((v \div q) \div h) * (h * q)
       IN  w \in Nat /\ w <= v /\ (v - w) * t * h <= v
<1> SUFFICES ASSUME NEW v \in Nat, NEW q \in Nat \ {0}, NEW h \in Nat \ {0}, NEW t \in Nat,
                    t * (h * h) <= v \div q
             PROVE  LET w == ((v \div q) \div h) * (h * q)
                    IN  w \in Nat /\ w <= v /\ (v - w) * t * h <= v
  OBVIOUS
<1> DEFINE top == v \div q
           r == v % q
           m == top \div h
           s == top % h
           w == m * (h * q)
<1>1. r \in 0 .. q - 1 /\ top \in Nat /\ v = top * q + r
  BY Halves
<1> HIDE DEF top, r
<1>2. s \in 0 .. h - 1 /\ m \in Nat /\ top = m * h + s
  BY <1>1, Halves
<1> HIDE DEF m, s
<1>3. w \in Nat /\ m * h \in Nat /\ s * q \in Nat /\ h * q \in Nat
  BY <1>2, TimesNat
<1>4. top * q = w + s * q
  <2>1. top * q = (m * h) * q + s * q
    BY <1>2, <1>3
  <2>2. (m * h) * q = m * (h * q)
    BY <1>2
  <2> QED BY <2>1, <2>2
<1> HIDE DEF w
<1>5. v - w = s * q + r /\ w <= v
  <2> DEFINE a == top * q
             b == s * q
  <2>1. v = a + r /\ a = w + b /\ b \in Nat /\ w \in Nat /\ r \in Nat
    BY <1>1, <1>3, <1>4
  <2> HIDE DEF a, b
  <2>2. v - w = b + r /\ w <= v
    BY <2>1
  <2> QED BY <2>2 DEF b
<1>6. s * q + r <= h * q
  <2>1. (s + 1) * q <= h * q
    BY <1>2
  <2>2. (s + 1) * q = s * q + q
    BY <1>2
  <2> QED BY <1>1, <1>3, <2>1, <2>2
<1>7. (h * q) * (t * h) <= v
  <2>1. (h * q) * (t * h) = (t * (h * h)) * q
    OBVIOUS
  <2>2. t * (h * h) \in Nat /\ top \in Nat /\ t * (h * h) <= top
    BY <1>1 DEF top
  <2> DEFINE a == t * (h * h)
  <2> HIDE DEF a
  <2>3. a * q <= top * q
    BY <2>2 DEF a
  <2>4. a * q \in Int /\ top * q \in Nat
    BY <1>1, <2>2 DEF a
  <2>5. a * q <= v
    BY <1>1, <2>3, <2>4
  <2> QED BY <2>1, <2>5 DEF a
<1>8. (v - w) * t * h <= v
  <2> DEFINE e == s * q + r
             f == h * q
             g == t * h
  <2>1. e \in Nat /\ f \in Nat /\ g \in Nat /\ e <= f
    BY <1>1, <1>3, <1>6
  <2>2. e * t * h = e * g
    BY <2>1
  <2> HIDE DEF e, f, g
  <2>3. e * g <= f * g /\ e * g \in Int /\ f * g \in Int
    BY <2>1
  <2>4. f * g <= v
    BY <1>7 DEF f, g
  <2>5. e * g <= v
    BY <2>3, <2>4
  <2> QED BY <1>5, <2>2, <2>5 DEF e
<1> QED BY <1>3, <1>5, <1>8 DEF w, m, top

LEMMA SizeOf ==
  ASSUME NEW v \in Nat, v < Byte[2 * Limbs]
  PROVE  /\ Size(v) \in 0 .. 2 * Limbs /\ v < Byte[Size(v)]
         /\ \A i \in 0 .. 2 * Limbs : v < Byte[i] => Size(v) <= i
<1> DEFINE S1 == {i \in 0 .. 2 * Limbs : v < Byte[i]}
<1>1. S1 \subseteq Nat /\ 2 * Limbs \in S1
  BY ByteTypes
<1>2. Size(v) \in S1 /\ \A i \in S1 : Size(v) <= i
  <2> HIDE DEF S1
  <2>1. Min(S1) \in S1 /\ \A i \in S1 : Min(S1) <= i
    BY <1>1, MinOfNats
  <2> QED BY <2>1 DEF Size, S1
<1> QED BY <1>2

LEMMA ZeroClose == CompactClose(0)
<1>1. Size(0) = 0
  <2>1. 0 \in Nat /\ 0 < Byte[2 * Limbs] /\ 0 \in 0 .. 2 * Limbs /\ 0 < Byte[0]
    BY ByteTypes
  <2>2. Size(0) \in 0 .. 2 * Limbs /\ Size(0) <= 0
    BY <2>1, SizeOf
  <2> QED BY <2>2
<1>2. CompactEncode(0) = [exponent |-> 0, mantissa |-> 0]
  BY <1>1 DEF CompactEncode
<1> DEFINE c == [exponent |-> 0, mantissa |-> 0]
<1>3. CompactDecode(c) = 0
  <2>1. Max({0, c.exponent - 3}) = 0
    <3>1. Max({0, -3}) \in {0, -3} /\ Max({0, -3}) >= 0
      BY MaxOfTwo
    <3>2. c.exponent - 3 = -3
      OBVIOUS
    <3> QED BY <3>1, <3>2
  <2>2. SignBit * Byte[2] \in Nat \ {0}
    <3>1. SignBit \in Nat \ {0} /\ Byte[2] \in Nat \ {0}
      <4>1. 2 \in 0 .. 2 * Limbs
        BY ByteTypes
      <4>2. Byte[2] \in Nat \ {0}
        BY <4>1, ByteTypes
      <4>3. SignBit \in Nat \ {0}
        BY ByteTypes
      <4> QED BY <4>2, <4>3
    <3> QED BY <3>1
  <2>3. 0 % (SignBit * Byte[2]) = 0
    BY <2>2
  <2>4. c.mantissa = 0 /\ 0 * Byte[0] = 0
    BY ByteTypes
  <2> QED BY <2>1, <2>3, <2>4 DEF CompactDecode
<1>4. 0 <= 0 /\ (0 - 0) * SignBit * HalfLimb <= 0
  BY ByteTypes
<1> QED BY <1>2, <1>3, <1>4 DEF CompactClose

LEMMA LongClose ==
  ASSUME NEW v \in Nat, v >= Base * Base, v < Byte[2 * Limbs]
  PROVE  CompactClose(v)
<1> DEFINE s == Size(v)
           q == Byte[s - 3]
           top == v \div q
           h == HalfLimb
           t == SignBit
           c == CompactEncode(v)
           w == CompactDecode(c)
<1>1. s \in 5 .. 2 * Limbs /\ v < Byte[s] /\ Byte[s - 1] <= v
  <2>1. /\ s \in 0 .. 2 * Limbs /\ v < Byte[s]
        /\ \A i \in 0 .. 2 * Limbs : v < Byte[i] => s <= i
    BY SizeOf
  <2> HIDE DEF s
  <2>2. s \notin 0 .. 4
    <3>1. Base * Base \in Nat
      BY BaseTypes, TimesNat
    <3>2. \A i \in 0 .. 4 : i \in 0 .. 2 * Limbs
      BY U256Assumption
    <3>3. \A i \in 0 .. 4 : Byte[i] \in Nat
      BY <3>2, ByteTypes
    <3> QED BY <2>1, <3>1, <3>3, LowBytes
  <2>3. s \in 5 .. 2 * Limbs /\ s - 1 \in 0 .. 2 * Limbs /\ ~ (s <= s - 1)
    <3>1. 2 * Limbs \in Nat
      BY ByteTypes
    <3>2. s \in 0 .. 2 * Limbs
      BY <2>1
    <3> QED BY <2>2, <3>1, <3>2
  <2>4. Byte[s - 1] \in Nat /\ ~ (v < Byte[s - 1])
    BY <2>1, <2>3, ByteTypes
  <2> QED BY <2>1, <2>3, <2>4
<1> HIDE DEF s
<1>2. /\ h \in Nat \ {0} /\ t \in 1 .. h /\ q \in Nat \ {0}
      /\ Byte[2] = h * h
      /\ Byte[s - 2] = h * q
      /\ Byte[s - 1] = h * h * q
      /\ Byte[s] = h * h * h * q
  <2>1. s - 3 \in Nat /\ (s - 3) + 3 <= 2 * Limbs
    BY <1>1, ByteTypes
  <2>2. (s - 3) + 1 = s - 2 /\ (s - 3) + 2 = s - 1 /\ (s - 3) + 3 = s
    BY <1>1
  <2> QED BY <2>1, <2>2, BytesUp, ByteTypes, LowBytes
<1> HIDE DEF h, t, q
<1>3. top \in Nat /\ top < h * h * h
  <2>1. h * h * h \in Nat
    BY <1>2
  <2>2. v < q * (h * h * h)
    <3>1. h * h * h * q = q * (h * h * h)
      BY <1>2
    <3> QED BY <1>1, <1>2, <3>1
  <2> QED BY <1>2, <2>1, <2>2, QuotientBelow, QuotientIsNat
<1> HIDE DEF top
<1>4. s > 3 /\ s # 0 /\ s \in Nat
  BY <1>1
<1>5. t * (h * h) \in Nat \ {0} /\ h * h \in Nat \ {0}
  BY <1>2
<1>6. c = IF top \div (h * h) >= t
          THEN [exponent |-> s + 1, mantissa |-> top \div h]
          ELSE [exponent |-> s, mantissa |-> top]
  BY <1>2, <1>4 DEF CompactEncode, s, q, top, h, t
<1> HIDE DEF c
<1>7. w = (c.mantissa % (t * (h * h))) * Byte[Max({0, c.exponent - 3})]
  BY <1>2 DEF CompactDecode, h, t
<1> HIDE DEF w
<1>8. w <= v /\ (v - w) * t * h <= v
  <2>1. CASE top \div (h * h) >= t
    <3>1. c.exponent = s + 1 /\ c.mantissa = top \div h
      BY <1>6, <2>1
    <3>2. Max({0, c.exponent - 3}) = s - 2
      <4>1. c.exponent - 3 = s - 2 /\ s - 2 \in Nat
        BY <1>4, <3>1
      <4> QED BY <4>1, MaxZero
    <3>3. top \div h \in Nat /\ top \div h < t * (h * h)
      <4>1. h * h * h = h * (h * h) /\ h * h <= t * (h * h)
        BY <1>2, <1>5
      <4>2. top \div h \in Nat /\ top \div h < h * h
        BY <1>2, <1>3, <1>5, <4>1, QuotientBelow, QuotientIsNat
      <4> QED BY <1>5, <4>1, <4>2
    <3>4. (top \div h) % (t * (h * h)) = top \div h
      BY <1>5, <3>3
    <3>5. w = (top \div h) * (h * q)
      BY <1>2, <1>7, <3>1, <3>2, <3>4
    <3>6. t * (h * h) <= top
      <4> DEFINE b == h * h
                 k == top \div b
      <4>1. b \in Nat \ {0} /\ t \in Nat /\ k >= t
        BY <1>2, <1>5, <2>1
      <4> HIDE DEF b
      <4>2. k \in Nat /\ top = k * b + (top % b) /\ top % b \in Nat
        BY <1>3, <4>1, Halves
      <4> HIDE DEF k
      <4>3. t * b <= k * b /\ t * b \in Int /\ k * b \in Int
        BY <4>1, <4>2
      <4>4. t * b <= top
        BY <4>2, <4>3
      <4> QED BY <4>4 DEF b
    <3>7. t \in Nat /\ t * (h * h) <= v \div q
      BY <1>2, <3>6 DEF top
    <3> QED BY <1>2, <3>5, <3>7, KeepsTopTwo DEF top
  <2>2. CASE ~ (top \div (h * h) >= t)
    <3>1. c.exponent = s /\ c.mantissa = top
      BY <1>6, <2>2
    <3>2. Max({0, c.exponent - 3}) = s - 3
      <4>1. c.exponent - 3 = s - 3 /\ s - 3 \in Nat
        BY <1>4, <3>1
      <4> QED BY <4>1, MaxZero
    <3>3. top < t * (h * h)
      <4> DEFINE b == h * h
                 k == top \div b
      <4>1. b \in Nat \ {0} /\ t \in Nat
        BY <1>2, <1>5
      <4> HIDE DEF b
      <4>2. k \in Nat /\ top = k * b + (top % b) /\ top % b \in 0 .. b - 1
        BY <1>3, <4>1, Halves
      <4>3. k + 1 <= t
        BY <2>2, <4>1, <4>2 DEF b
      <4> HIDE DEF k
      <4>4. (k + 1) * b <= t * b /\ (k + 1) * b = k * b + b /\ k * b \in Int /\ t * b \in Int
        BY <4>1, <4>2, <4>3
      <4>5. top < t * b
        BY <4>1, <4>2, <4>4
      <4> QED BY <4>5 DEF b
    <3>4. top % (t * (h * h)) = top
      BY <1>3, <1>5, <3>3
    <3>5. w = top * q
      BY <1>7, <3>1, <3>2, <3>4 DEF q
    <3>6. t \in 0 .. h /\ h * h * q <= v
      BY <1>1, <1>2
    <3> QED BY <1>2, <3>5, <3>6, KeepsTop DEF top
  <2> QED BY <2>1, <2>2
<1> QED BY <1>8 DEF CompactClose, w, c, t, h

(* A difficulty is a number of at most MaxDecimals decimals whose digits    *)
(* fit 64 bits: parse cuts the decimals off, and nothing else makes one.    *)
Decimal(d) == d.num < Word /\ \E k \in 0 .. MaxDecimals : d.den = Ten[k]

LEMMA DecimalShort == \A d : Decimal(d) => d.den < Base
BY ControllerAssumption DEF Decimal

LEMMA ParseDecimal == \A t \in Texts : Decimal(Parse(t))
<1> SUFFICES ASSUME NEW t \in Texts PROVE Decimal(Parse(t))
  OBVIOUS
<1> DEFINE kept == Min({t.decimals, MaxDecimals})
           n == t.digits \div Ten[t.decimals - kept]
<1>0. /\ Word \in Nat /\ 0 < Word /\ DefaultNum < Word
      /\ 0 \in 0 .. MaxDecimals /\ 1 = Ten[0]
  BY DiffRatAssumption, TenPowers
<1>1. t.decimals \in Nat /\ MaxDecimals \in Nat
  BY DiffRatAssumption DEF Texts
<1>2. kept \in 0 .. MaxDecimals
  <2>1. kept \in {t.decimals, MaxDecimals} /\ kept <= MaxDecimals
    BY <1>1, MinOfTwo
  <2> HIDE DEF kept
  <2> QED BY <1>1, <2>1
<1>3. n \in Nat /\ Ten[kept] \in Nat
  <2>1. t.decimals \in 0 .. Precision /\ t.digits \in Nat
    BY DEF Texts
  <2>2. t.decimals - kept \in 0 .. Precision /\ kept \in 0 .. Precision
    <3>1. t.decimals \in Int /\ MaxDecimals \in Int
      BY <1>1
    <3>2. kept \in {t.decimals, MaxDecimals} /\ kept <= t.decimals
      BY <3>1, MinOfTwo
    <3> HIDE DEF kept
    <3> QED BY <1>2, <2>1, <3>2, DiffRatAssumption
  <2> HIDE DEF kept
  <2>3. Ten[t.decimals - kept] \in Nat \ {0} /\ Ten[kept] \in Nat
    BY <2>2, PowerIsNat
  <2> QED BY <2>1, <2>3, QuotientIsNat
<1> HIDE DEF kept, n
<1>4. CASE t.scientific \/ n >= Word
  <2>1. Parse(t) = Default
    BY <1>4 DEF Parse, kept, n
  <2> QED BY <1>0, <2>1 DEF Decimal, Default, Rat
<1>5. CASE ~ (t.scientific \/ n >= Word) /\ n = 0
  <2>1. Parse(t) = Rat(0, 1)
    BY <1>5 DEF Parse, kept, n
  <2> QED BY <1>0, <2>1 DEF Decimal, Rat
<1>6. CASE ~ (t.scientific \/ n >= Word) /\ n # 0
  <2>1. Parse(t) = Rat(n, Ten[kept])
    BY <1>6 DEF Parse, kept, n
  <2>2. n < Word
    BY <1>0, <1>3, <1>6
  <2> QED BY <1>2, <2>1, <2>2 DEF Decimal, Rat
<1> QED BY <1>4, <1>5, <1>6

LEMMA TickDecimal ==
  ASSUME ControllerIInv, Decimal(diff), NEW dt \in Elapses, NEW b \in BOOLEAN,
         NEW n \in Found(dt), Tick(dt, n, b)
  PROVE  Decimal(diff')
<1>1. Decimal(MinDiff) /\ Decimal(MaxDiff) /\ Decimal(Parse(InitText)) /\ Decimal(Raised(diff))
  <2>1. diff.num * 8 \in Nat /\ Word \in Nat \ {0}
    BY DiffRatAssumption DEF ControllerIInv, Difficulty
  <2>2. (diff.num * 8) % Word < Word
    BY <2>1, Halves
  <2>3. Decimal(Raised(diff))
    BY <2>2 DEF Raised, Rat, Decimal
  <2> QED BY <2>3, ControllerAssumption, ParseDecimal DEF MinDiff, MaxDiff
<1>2. \A d : Decimal(d) => Decimal(Clamped(d))
  BY <1>1 DEF Clamped
<1>3. \A v \in Nat : Decimal(Parse(Printed(v)))
  BY PrintedTypes, ParseDecimal
<1>4. CASE \/ StartBenchmark(dt, n) \/ AwaitBenchmark(dt, n)
           \/ StartWindow(dt, n) \/ AwaitWindow(dt, n)
  BY <1>4 DEF StartBenchmark, AwaitBenchmark, StartWindow, AwaitWindow
<1>5. CASE EndBenchmark(dt, n)
  <2>1. n \in Nat /\ dt \in Nat \ {0} /\ benchShares \in Nat /\ benchAge \in Nat
    BY <1>5, FoundTypes, ControllerAssumption DEF EndBenchmark, ControllerIInv, TypeOK
  <2>2. ASSUME NEW h \in {Observed(benchShares + n, benchAge + dt)}, Measure(h)
        PROVE  Decimal(diff')
    <3>1. benchShares + n \in Nat /\ benchAge + dt \in Nat \ {0}
      BY <2>1
    <3>2. Desired(h) \in Nat
      BY <3>1, EstimateTypes
    <3>3. Bounded(Desired(h)) \in Nat
      BY <3>2, BoundedWithin, BoundsTypes
    <3>4. Announce(Parse(Printed(Bounded(Desired(h)))))
      BY <2>2 DEF Measure
    <3> QED BY <1>3, <3>3, <3>4 DEF Announce
  <2> QED BY <1>1, <1>5, <2>2 DEF EndBenchmark, Announce
<1>6. CASE Raise(dt, b)
  BY <1>1, <1>2, <1>6 DEF Raise, Announce
<1>7. CASE Evaluate(dt, n, b)
  <2>1. /\ windowShares + n \in Nat /\ windowAge + dt \in Nat \ {0}
    BY <1>7, FoundTypes, ControllerAssumption
       DEF Evaluate, WindowOver, ControllerIInv, TypeOK
  <2>2. ASSUME NEW h \in {Smoothed(Observed(windowShares + n, windowAge + dt))},
               Follow(Desired(h), dt)
        PROVE  Decimal(diff')
    <3>1. Desired(h) \in Nat
      BY <2>1, EstimateTypes
    <3>2. Decimal(Clamped(Parse(Printed(Desired(h)))))
      BY <1>2, <1>3, <3>1
    <3>3. \/ Announce(Clamped(Parse(Printed(Desired(h)))))
          \/ UNCHANGED diff
      BY <2>2 DEF Follow
    <3> QED BY <3>2, <3>3 DEF Announce
  <2>3. CASE UNCHANGED diff
    BY <2>3
  <2> QED BY <1>7, <2>2, <2>3 DEF Evaluate
<1> QED BY <1>4, <1>5, <1>6, <1>7 DEF Tick

(* The text of a difficulty is read back as the same rational in lower      *)
(* terms: by a power of ten.                                                *)
LEMMA ReadBack ==
  ASSUME NEW d \in Difficulty, Decimal(d), d.num # 0
  PROVE  LET r == Parse(ToString(d))
         IN  /\ r \in Difficulty /\ r.num # 0
             /\ \E c \in Nat \ {0} : d.num = r.num * c /\ d.den = r.den * c
<1> DEFINE v == ToDouble(d)
           Fit == {i \in 0 .. Precision : (v * Ten[i]) % Unit = 0}
           m == Min(Fit)
           n == (v * Ten[m]) \div Unit
<1>1. PICK k \in 0 .. MaxDecimals : d.den = Ten[k]
  BY DEF Decimal
<1>2. /\ d.num \in Nat \ {0} /\ Unit \in Nat \ {0} /\ Precision \in Nat /\ MaxDecimals \in Nat
      /\ k \in 0 .. Precision /\ Precision - k \in 0 .. Precision
      /\ \A i \in 0 .. Precision : Ten[i] \in Nat \ {0}
  BY PowerIsNat, DiffRatAssumption DEF Difficulty
<1>3. v \in Nat /\ v * Ten[k] = d.num * Unit
  <2> DEFINE a == d.num
             b == Ten[k]
             c == Ten[Precision - k]
  <2>1. a \in Nat /\ b \in Nat \ {0} /\ c \in Nat
    BY <1>2
  <2>2. Unit = b * c
    <3>1. Precision \in 0 .. Precision /\ k \in 0 .. Precision
      BY <1>2
    <3> QED BY <3>1, TenSplit DEF Unit
  <2>3. v = (a * Unit) \div b
    BY <1>1 DEF ToDouble
  <2> HIDE DEF a, b, c, v
  <2>4. a * Unit = b * (a * c)
    BY <2>1, <2>2
  <2>5. \A x, y \in Nat : y > 0 => (y * x) \div y = x
    OBVIOUS
  <2>6. a * c \in Nat
    BY <2>1
  <2>7. v = a * c
    BY <2>1, <2>3, <2>4, <2>5, <2>6
  <2>8. v * b = a * Unit
    BY <2>1, <2>4, <2>7
  <2> QED BY <2>6, <2>7, <2>8 DEF a, b
<1> HIDE DEF v
<1>4. \A x, y \in Nat : y > 0 => (x * y) % y = 0
  OBVIOUS
<1>5. k \in Fit /\ Fit \subseteq Nat
  <2>1. (d.num * Unit) % Unit = 0
    BY <1>2, <1>4
  <2>2. (v * Ten[k]) % Unit = 0 /\ k \in 0 .. Precision
    BY <1>2, <1>3, <2>1
  <2> QED BY <2>2
<1>6. m \in Fit /\ m <= k
  <2> HIDE DEF Fit
  <2> QED BY <1>5, MinOfNats
<1> HIDE DEF m
<1>7. m \in 0 .. k /\ m \in 0 .. Precision /\ k - m \in 0 .. Precision /\ (v * Ten[m]) % Unit = 0
  BY <1>2, <1>6
<1>8. n \in Nat /\ v * Ten[m] = n * Unit
  <2> DEFINE y == v * Ten[m]
  <2>1. Ten[m] \in Nat
    BY <1>2, <1>7
  <2>2. y \in Nat
    BY <1>3, <2>1, TimesNat
  <2> HIDE DEF y
  <2>3. y \div Unit \in Nat /\ y = (y \div Unit) * Unit + (y % Unit)
    BY <1>2, <2>2, Halves
  <2>4. y % Unit = 0
    BY <1>7 DEF y
  <2>5. (y \div Unit) * Unit \in Nat
    BY <1>2, <2>3, TimesNat
  <2>6. y = (y \div Unit) * Unit
    BY <2>3, <2>4, <2>5
  <2> QED BY <2>3, <2>6 DEF y
<1> HIDE DEF n
<1> DEFINE c == Ten[k - m]
<1>9. c \in Nat \ {0} /\ Ten[m] \in Nat \ {0} /\ Ten[k] = Ten[m] * c
  <2>1. Ten[k] = Ten[m] * Ten[k - m]
    BY <1>2, <1>7, TenSplit
  <2> QED BY <1>2, <1>7, <2>1
<1> HIDE DEF c
<1>10. d.num = n * c
  <2> DEFINE a == d.num
             b == Ten[m]
             w == Unit
  <2>1. a \in Nat /\ b \in Nat /\ w \in Nat \ {0} /\ v * b = n * w /\ v * (b * c) = a * w
    BY <1>2, <1>3, <1>8, <1>9
  <2> HIDE DEF a, b, w
  <2>2. v * (b * c) = (v * b) * c
    BY <1>3, <1>9, <2>1
  <2>3. (n * w) * c = (n * c) * w
    BY <1>8, <1>9, <2>1
  <2>4. n * c \in Nat
    BY <1>8, <1>9, TimesNat
  <2>5. a * w = (n * c) * w
    BY <2>1, <2>2, <2>3
  <2>6. \A x, y \in Nat, z \in Nat \ {0} : x * z = y * z => x = y
    OBVIOUS
  <2>7. a = n * c
    BY <2>1, <2>4, <2>5, <2>6
  <2> QED BY <2>7 DEF a
<1>11. n # 0 /\ n < Word
  <2>1. 0 * c = 0
    BY <1>9
  <2>2. n # 0
    BY <1>2, <1>10, <2>1
  <2>3. n <= n * c /\ n * c \in Nat
    BY <1>8, <1>9
  <2>4. d.num < Word /\ Word \in Nat
    BY DiffRatAssumption DEF Decimal
  <2> QED BY <1>8, <1>10, <2>2, <2>3, <2>4
<1> DEFINE t == Text(n, m, FALSE)
<1>12. ToString(d) = t
  BY DEF ToString, Plain, v, Fit, m, n
<1>13. Parse(t) = Rat(n, Ten[m])
  <2>1. t.digits = n /\ t.decimals = m /\ t.scientific = FALSE
    BY DEF Text
  <2>2. Min({m, MaxDecimals}) = m
    <3>1. m \in Int /\ MaxDecimals \in Int /\ m <= MaxDecimals
      BY <1>1, <1>2, <1>7
    <3>2. Min({m, MaxDecimals}) \in {m, MaxDecimals} /\ Min({m, MaxDecimals}) <= m
          /\ Min({m, MaxDecimals}) <= MaxDecimals
      BY <3>1, MinOfTwo
    <3> QED BY <3>1, <3>2
  <2>3. n \div Ten[m - m] = n
    <3>1. m - m = 0 /\ Ten[0] = 1
      BY <1>7, TenPowers
    <3>2. n \div 1 = n
      BY <1>8
    <3> QED BY <3>1, <3>2
  <2>4. ~ (n >= Word)
    BY <1>8, <1>11, DiffRatAssumption
  <2> HIDE DEF t
  <2> QED BY <1>11, <2>1, <2>2, <2>3, <2>4 DEF Parse
<1>14. Rat(n, Ten[m]) \in Difficulty
  BY <1>8, <1>9 DEF Rat, Difficulty
<1> DEFINE r == Parse(ToString(d))
<1>15. r = Rat(n, Ten[m])
  BY <1>12, <1>13
<1> HIDE DEF r, t
<1>16. r.num = n /\ r.den = Ten[m] /\ r \in Difficulty
  BY <1>14, <1>15 DEF Rat
<1>17. d.num = r.num * c /\ d.den = r.den * c
  BY <1>1, <1>9, <1>10, <1>16
<1> QED BY <1>9, <1>11, <1>16, <1>17 DEF r

LEMMA InLowerTerms ==
  \A a \in Nat, b, c \in Nat \ {0} : (a * c) \div (b * c) = a \div b
<1> SUFFICES ASSUME NEW a \in Nat, NEW b \in Nat \ {0}, NEW c \in Nat \ {0}
             PROVE  (a * c) \div (b * c) = a \div b
  OBVIOUS
<1> DEFINE q == a \div b
           r == a % b
           e == b * c
           f == r * c
<1>1. q \in Nat /\ r \in 0 .. b - 1 /\ a = q * b + r
  BY Halves
<1> HIDE DEF q, r
<1>2. e \in Nat /\ e > 0 /\ f \in Nat
  BY <1>1
<1>3. f < e
  <2>1. (r + 1) * c <= b * c
    BY <1>1
  <2>2. (r + 1) * c = r * c + c
    BY <1>1
  <2> QED BY <1>1, <2>1, <2>2
<1>4. a * c = e * q + f
  <2>1. a * c = (q * b) * c + r * c
    BY <1>1
  <2>2. (q * b) * c = (b * c) * q
    BY <1>1
  <2> QED BY <2>1, <2>2
<1> HIDE DEF e, f
<1>5. \A x, y, z \in Nat : y > 0 /\ z < y => (y * x + z) \div y = x
  OBVIOUS
<1>6. (a * c) \div e = q
  BY <1>1, <1>2, <1>3, <1>4, <1>5
<1> QED BY <1>6 DEF e, q

-----------------------------------------------------------------------------
(* The target of the current difficulty. *)

TargetIInv == ControllerIInv /\ Decimal(diff)

LEMMA TargetInit == Init => TargetIInv
<1>1. Init => Decimal(diff)
  BY ControllerAssumption, ParseDecimal DEF Init
<1> QED BY <1>1, ControllerInit DEF TargetIInv

LEMMA TargetNext == ASSUME PrintsWithinBounds PROVE TargetIInv /\ [Next]_vars => TargetIInv'
<1> SUFFICES ASSUME TargetIInv, [Next]_vars PROVE TargetIInv'
  OBVIOUS
<1>1. ControllerIInv /\ Decimal(diff)
  BY DEF TargetIInv
<1>2. ControllerIInv'
  BY <1>1, ControllerNext
<1>3. ASSUME Next PROVE Decimal(diff')
  BY <1>1, <1>3, TickDecimal DEF Next
<1>4. ASSUME UNCHANGED vars PROVE Decimal(diff')
  BY <1>1, <1>4 DEF vars, diffVars, Decimal
<1>5. Decimal(diff)'
  BY <1>3, <1>4 DEF Decimal
<1> QED BY <1>2, <1>5 DEF TargetIInv

LEMMA CurrentTypes ==
  ASSUME TargetIInv PROVE diff \in Difficulty /\ diff.num # 0 /\ Decimal(diff)
<1>1. diff \in Difficulty /\ Now \in Nat \ {0} /\ Decimal(diff)
  BY NowTypes DEF ControllerIInv, TargetIInv
<1>2. ASSUME diff.num = 0 PROVE FALSE
  <2>1. Unit \in Nat \ {0} /\ diff.den \in Nat \ {0}
    BY <1>1, PowerIsNat DEF Difficulty
  <2>2. 0 * Unit = 0 /\ 0 \div diff.den = 0
    BY <2>1
  <2>3. Now = 0
    BY <1>2, <2>2 DEF Now, ToDouble
  <2> QED BY <1>1, <2>3
<1> QED BY <1>1, <1>2

(* The target that the farms hash against never exceeds                     *)
(* floor(MAX_TARGET * den / num), however large the numerator is, and has a *)
(* close compact form.  As long as the numerator fits a limb it is that     *)
(* floor to the last bit, and the same whether it is made from the rational *)
(* or from the text that the batches carry to the validator: on any number  *)
(* of limbs of any width, only the shift of a remainder beyond a limb loses *)
(* anything.                                                                *)
THEOREM TargetsStayWithinFloor ==
  ASSUME PrintsWithinBounds PROVE Spec => []TargetWithinFloor
<1>1. ASSUME TargetIInv PROVE TargetWithinFloor
  <2> DEFINE x == Number(Target(diff))
  <2>1. diff \in Difficulty /\ diff.num # 0 /\ Decimal(diff)
    BY <1>1, CurrentTypes
  <2>2. diff.den < Base
    BY <2>1, DecimalShort
  <2>3. CompactClose(x)
    <3>1. Target(diff) \in U /\ (x = 0 \/ x >= Base * Base)
      BY <2>1, <2>2, LongOrZero
    <3>2. x \in Nat /\ x < Byte[2 * Limbs]
      BY <3>1, NumberFits
    <3> HIDE DEF x
    <3>3. CASE x = 0
      BY <3>3, ZeroClose
    <3>4. CASE x >= Base * Base
      BY <3>2, <3>4, LongClose
    <3> QED BY <3>1, <3>3, <3>4
  <2>4. ASSUME diff.num <= Base PROVE x = Number(Target(Parse(ToString(diff))))
    <3> DEFINE r == Parse(ToString(diff))
               M == Number(MaxTarget)
    <3>1. r \in Difficulty /\ r.num # 0
      BY <2>1, ReadBack
    <3>2. PICK c \in Nat \ {0} : diff.num = r.num * c /\ diff.den = r.den * c
      BY <2>1, ReadBack
    <3>3. diff.num \in 1 .. Base /\ M \in Nat
      BY <2>1, <2>4, BaseTypes, MaxTargetTypes, NumberFits DEF Difficulty
    <3> HIDE DEF r, M
    <3>4. r.num \in Nat \ {0} /\ r.den \in Nat \ {0}
      BY <3>1 DEF Difficulty
    <3>5. r.num \in 1 .. Base /\ r.den < Base
      <4>1. \A a \in Nat : a <= a * c
        OBVIOUS
      <4>2. r.num <= diff.num /\ r.den <= diff.den /\ diff.den \in Nat
        BY <2>1, <3>2, <3>4, <4>1 DEF Difficulty
      <4> QED BY <2>2, <3>3, <3>4, <4>2, BaseTypes
    <3>6. x = (M * diff.den) \div diff.num
      BY <2>1, <2>2, <3>3, TargetOf DEF M, FloorTarget
    <3>7. Number(Target(r)) = (M * r.den) \div r.num
      BY <3>1, <3>5, TargetOf DEF M, FloorTarget
    <3>8. M * r.den \in Nat /\ M * diff.den = (M * r.den) * c
      BY <3>2, <3>3, <3>4
    <3>9. ((M * r.den) * c) \div (r.num * c) = (M * r.den) \div r.num
      BY <3>4, <3>8, InLowerTerms
    <3> HIDE DEF x
    <3>10. x = Number(Target(r))
      BY <3>2, <3>6, <3>7, <3>8, <3>9
    <3> QED BY <3>10 DEF r
  <2>5. x <= FloorTarget(diff)
    BY <2>1, <2>2, TargetBelow
  <2>6. diff.num <= Base => x = FloorTarget(diff)
    <3>1. diff.num \in Nat \ {0}
      BY <2>1 DEF Difficulty
    <3>2. diff.num <= Base => diff.num \in 1 .. Base
      BY <3>1, BaseTypes
    <3> QED BY <2>1, <2>2, <3>2, TargetOf
  <2> HIDE DEF x
  <2> QED BY <2>3, <2>4, <2>5, <2>6 DEF TargetWithinFloor, x
<1> QED BY <1>1, TargetInit, TargetNext, PTL DEF Spec
=============================================================================
