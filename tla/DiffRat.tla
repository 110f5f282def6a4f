------------------------------ MODULE DiffRat ------------------------------
(***************************************************************************)
(* Difficulties as exact rationals, and the decimal texts they are read    *)
(* from and written to: cpp/src/u256.cpp (DiffRat) and the "%.9g" of       *)
(* cpp/src/daemon.cpp.                                                     *)
(*                                                                         *)
(* Abstraction.  A text is the number its digits spell, how many of them   *)
(* are decimals, and whether it is in scientific notation.  A double is    *)
(* counted in units of 10^-Precision.  The widths (9 significant digits,   *)
(* 9 decimals, 64 bits) are constants.                                     *)
(***************************************************************************)
EXTENDS Powers, FiniteSetsExt

CONSTANTS
  DefaultNum,    \* the difficulty of a text that cannot be read: 256
  MaxDecimals,   \* decimals that parse keeps: 9
  SigDigits,     \* digits that "%.9g" prints: 9
  FixedFrom,     \* the least exponent it prints without an "e": -4
  Precision,     \* decimals of a modelled double
  Longest,       \* bound: digits of a modelled double
  Word           \* 2^64

ASSUME DiffRatAssumption ==
  /\ {DefaultNum, SigDigits, Longest, Word} \subseteq Nat \ {0}
  /\ {MaxDecimals, Precision} \subseteq Nat
  /\ MaxDecimals <= Precision /\ FixedFrom \in Int
  /\ DefaultNum < Word

(* The powers of ten. *)
Ten == Powers(10, Precision + Longest)

Unit == Ten[Precision]

Rat(n, d) == [num |-> n, den |-> d]

Default == Rat(DefaultNum, 1)

Text(n, k, sci) == [digits |-> n, decimals |-> k, scientific |-> sci]

Texts == [digits : Nat, decimals : 0 .. Precision, scientific : BOOLEAN]

ToDouble(d) == (d.num * Unit) \div d.den

(* DiffRat::parse of a text that is not empty: decimals beyond the ninth    *)
(* are cut off, and a text with an "e" in it has a character that is no     *)
(* digit.                                                                   *)
Parse(t) ==
  LET kept == Min({t.decimals, MaxDecimals})
      n == t.digits \div Ten[t.decimals - kept]
  IN  IF t.scientific \/ n >= Word THEN Default
      ELSE IF n = 0 THEN Rat(0, 1)
      ELSE Rat(n, Ten[kept])

(* The shortest text of v units: no trailing zeros behind the point.        *)
Plain(v, sci) ==
  LET k == Min({i \in 0 .. Precision : (v * Ten[i]) % Unit = 0})
  IN  Text((v * Ten[k]) \div Unit, k, sci)

(* DiffRat::to_string. *)
ToString(d) == Plain(ToDouble(d), FALSE)

(* The decimal digits of v > 0. *)
Length(v) == Min({i \in 1 .. Longest : v < Ten[i]} \cup {Longest})

(* v rounded to SigDigits digits. *)
Rounded(v) ==
  LET drop == Ten[Length(v) - Min({Length(v), SigDigits})]
  IN  ((v + drop \div 2) \div drop) * drop

(* snprintf("%.9g") of v > 0 units. *)
Printed(v) ==
  LET r == Rounded(v)
      exponent == Length(r) - 1 - Precision
  IN  Plain(r, exponent < FixedFrom \/ exponent >= SigDigits)
=============================================================================
