---------------------------- MODULE MCJobManager ----------------------------
(* JobManager on a small instance: two jobs, a clock that outlives the      *)
(* retention twice, two connections, shares of either difficulty, and a     *)
(* nonce that may be written in two ways.                                   *)
EXTENDS JobManager

CONSTANTS a, b, x2, n1, n2, v1, lower, upper, bad

MCEx1s == {a, b}

(* A text is a value and the way it is written. *)
MCReads(t) == t[1]

MCEx2s == {x2} \X {lower, bad}
(* Every other second, so that some jobs take an ntime of their own and     *)
(* some a rolled one.                                                       *)
MCNtimes == {t \in Times : t % 2 = 0} \X {lower}
MCNonces == {<<n1, lower>>} \cup {n2} \X {lower, upper}
MCVersionBits == {<<v1, lower>>}
MCMalformed == {<<x2, bad>>}

(* The hash oracle: nonce n2 meets the higher difficulty with a's           *)
(* extranonce1 and the lower one with b's; n1 meets no target.              *)
MCWork(h) == IF h[5] = n1 THEN 0 ELSE IF h[2] = a THEN 2 ELSE 1
=============================================================================
