---------------------------- MODULE MCController ----------------------------
(* The controller on small numbers: difficulties of two digits, one of them *)
(* a decimal.                                                               *)
EXTENDS Controller

MCFixedFrom == -1

MCInitText == Text(4, 0, FALSE)
MCMinText == Text(2, 0, FALSE)
MCMaxText == Text(16, 0, FALSE)
\* Below and within the bounds.
MCHashRates == {10, 50}

\* A lower bound that a window of one share takes into scientific notation.
MCLowText == Text(2, 1, FALSE)

\* An upper bound that leaves an emergency room beyond a limb.
MCHighText == Text(100, 0, FALSE)

(* The bounds of the main run survive being printed, as the proofs assume. *)
ASSUME MinText = MCMinText => PrintsWithinBounds
=============================================================================
