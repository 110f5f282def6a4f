------------------------------- MODULE Powers -------------------------------
(* The powers of a number, by recursion: the provers know nothing of ^.     *)
EXTENDS Integers

Powers(b, n) == LET p[i \in 0 .. n] == IF i = 0 THEN 1 ELSE b * p[i - 1] IN p
=============================================================================
