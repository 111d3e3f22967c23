--------------------------- MODULE MCRegistration ---------------------------
(* Registration on small instances.  Members and processes are             *)
(* interchangeable, so both sets may be permuted in runs without liveness. *)
EXTENDS Registration, TLC

Symmetry == Permutations(Users) \cup Permutations(Workers)
=============================================================================
