----------------------------- MODULE MCEventReview -----------------------------
(* Instances of EventReview for TLC.                                         *)
EXTENDS EventReview, TLC

Symmetry == Permutations(Actors) \cup Permutations(Analysts)

MCGrave == {"grave"}
MCPlain == {"plain"}
=============================================================================
