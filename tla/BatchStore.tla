----------------------------- MODULE BatchStore -----------------------------
(***************************************************************************)
(* What the pipeline promises about batches, without its files, threads    *)
(* and crashes: a batch is stored once, it may be credited while it is     *)
(* stored, it is released only when credited, and once it has left the     *)
(* store nothing happens to it any more, unless the machine fails.         *)
(***************************************************************************)
EXTENDS Integers, Sequences

CONSTANTS Batches,
          Useful      \* the batches that pass the usefulness gate

VARIABLES phase,      \* batch -> "absent", "stored" or "gone"
          credits,    \* the batches credited, in order
          released,   \* the batches that have an output record
          failures    \* how often the machine lost its power

storeVars == <<phase, credits, released, failures>>

Credited(b) == \E i \in DOMAIN credits : credits[i] = b

Init == /\ phase = [b \in Batches |-> "absent"]
        /\ credits = << >>
        /\ released = {}
        /\ failures = 0

Store(b) == /\ phase[b] = "absent"
            /\ phase' = [phase EXCEPT ![b] = "stored"]
            /\ UNCHANGED <<credits, released, failures>>

(* One more credit of a stored, useful batch. *)
Credit(b) == /\ phase[b] = "stored"
             /\ b \in Useful
             /\ credits' = Append(credits, b)
             /\ UNCHANGED <<phase, released, failures>>

Release(b) == /\ phase[b] = "stored"
              /\ Credited(b)
              /\ released' = released \cup {b}
              /\ UNCHANGED <<phase, credits, failures>>

(* The source goes away: promoted, refused by the validation, or its output *)
(* could not be written.                                                    *)
Drop(b) == /\ phase[b] = "stored"
           /\ phase' = [phase EXCEPT ![b] = "gone"]
           /\ UNCHANGED <<credits, released, failures>>

(* The machine loses its power: a stored batch may be lost, a deleted one   *)
(* may be back, and records may be lost.  No batch appears, and none counts *)
(* as never stored.                                                         *)
PowerFailure ==
  /\ failures' = failures + 1
  /\ phase' \in [Batches -> {"absent", "stored", "gone"}]
  /\ \A b \in Batches : phase'[b] = "absent" <=> phase[b] = "absent"
  /\ released' \subseteq released
  /\ UNCHANGED credits

Next == \/ \E b \in Batches : Store(b) \/ Credit(b) \/ Release(b) \/ Drop(b)
        \/ PowerFailure

Spec == Init /\ [][Next]_storeVars
=============================================================================
