---------------------------- MODULE MCRunAdmission ----------------------------
(* Three interchangeable objectives for TLC. *)
EXTENDS RunAdmission, TLC

CONSTANTS r1, r2, r3, p1

Interchangeable == Permutations(Runs)
===============================================================================
