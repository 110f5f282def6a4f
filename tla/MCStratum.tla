----------------------------- MODULE MCStratum -----------------------------
(* Stratum on small instances: a nonce that meets the lower difficulty and  *)
(* one that meets both.  The miners write a value in one way, so a text is   *)
(* its value.                                                               *)
EXTENDS Stratum, TLC

CONSTANTS a, b, none, x2, n1, n2, v1, c1, c2

MCEx1s == {none, a}
MCTwoEx1s == {none, a, b}
MCEx2s == {x2}
MCNtimes == 0 .. MaxTime
MCNonces == {n1, n2}
MCOneNonce == {n1}
MCVersionBits == {v1}
MCReads(t) == t
MCWork(h) == IF h[5] = n1 THEN 1 ELSE 2

MCConns == {c1}
MCTwoConns == {c1, c2}

(* The two connections, and the two extranonces, are interchangeable. *)
MCSymmetry == Permutations(MCTwoConns) \cup Permutations({a, b})
=============================================================================
