-------------------------------- MODULE U256 --------------------------------
(***************************************************************************)
(* cpp/src/u256.cpp: the wide integers of the targets, on limbs of         *)
(* HalfLimb * HalfLimb values with arithmetic in double limbs, as the code *)
(* has limbs of 32 bits and arithmetic in 64.  The code has eight limbs.   *)
(***************************************************************************)
EXTENDS Powers, FiniteSetsExt

CONSTANTS
  HalfLimb,   \* 2^16
  Limbs       \* 8

ASSUME U256Assumption ==
  /\ HalfLimb \in Nat \ {0, 1}
  /\ Limbs \in Nat /\ Limbs >= 5

Base == HalfLimb * HalfLimb
DoubleLimb == Base * Base

Places == 0 .. Limbs - 1

U == [Places -> 0 .. Base - 1]

(* The number that the limbs from each place up stand for, in units of that *)
(* place, and the number that all of them do.                               *)
Upper(x) ==
  LET from[i \in 0 .. Limbs] == IF i = Limbs THEN 0 ELSE from[i + 1] * Base + x[i]
  IN  from

Number(x) == Upper(x)[0]

(* 0x00000000FFFF0000...: the upper half of the second highest limb. *)
MaxTarget == [i \in Places |-> IF i = Limbs - 2 THEN Base - HalfLimb ELSE 0]

SaturateMax == [i \in Places |-> Base - 1]

(* mul_small: the carries run from the lowest limb up. *)
Carries(x, m) ==
  LET carry[i \in 0 .. Limbs] ==
        IF i = 0 THEN 0 ELSE ((x[i - 1] * m + carry[i - 1]) % DoubleLimb) \div Base
  IN  carry

MulSmall(x, m) ==
  LET carry == Carries(x, m)
  IN  IF carry[Limbs] # 0 THEN SaturateMax
      ELSE [i \in Places |-> (x[i] * m + carry[i]) % Base]

(* Mutant: the remainder is not passed down. *)
DivSmall_NoRemainder(x, d) == [i \in Places |-> (x[i] \div d) % Base]

(* rem << 32 in 64 bits: what does not fit is dropped. *)
Shifted(rem) == (rem * Base) % DoubleLimb

(* div_small: the remainders run from the highest limb down. *)
Remainders(x, d) ==
  LET rem[i \in 0 .. Limbs] ==
        IF i = Limbs THEN 0 ELSE (Shifted(rem[i + 1]) + x[i]) % d
  IN  rem

DivSmall(x, d) ==
  IF d = 0 THEN SaturateMax
  ELSE LET rem == Remainders(x, d)
       IN  [i \in Places |-> ((Shifted(rem[i + 1]) + x[i]) \div d) % Base]

(* target_from_difficulty. *)
Target(d) ==
  IF d.num = 0 \/ d.den = 0 \/ d.den >= Base THEN SaturateMax
  ELSE DivSmall(MulSmall(MaxTarget, d.den), d.num)
-----------------------------------------------------------------------------
(* The compact encoding of a target in a header, on the bytes of a limb     *)
(* array: three bytes of mantissa and the number of bytes.  Here a limb has *)
(* two bytes of HalfLimb values, where the code's has four.                 *)

SignBit == HalfLimb \div 2

(* What a byte counts at each place. *)
Byte == Powers(HalfLimb, 2 * Limbs)

(* Significant bytes. *)
Size(v) == Min({i \in 0 .. 2 * Limbs : v < Byte[i]})

(* Mutant: the sign bit of the mantissa is not avoided. *)
CompactEncode_Unsigned(v) ==
  LET size == Size(v)
  IN  [exponent |-> size, mantissa |-> v \div Byte[Max({0, size - 3})]]

(* compact_encode of the number v, as exponent and mantissa. *)
CompactEncode(v) ==
  LET size == Size(v)
      top == IF size > 3 THEN v \div Byte[size - 3] ELSE v * Byte[3 - size]
  IN  IF size = 0 THEN [exponent |-> 0, mantissa |-> 0]
      ELSE IF size > 3 /\ top \div Byte[2] >= SignBit
           THEN [exponent |-> size + 1, mantissa |-> top \div HalfLimb]
           ELSE [exponent |-> size, mantissa |-> top]

(* compact_decode, on targets that do not overflow. *)
CompactDecode(c) ==
  (c.mantissa % (SignBit * Byte[2])) * Byte[Max({0, c.exponent - 3})]
=============================================================================
