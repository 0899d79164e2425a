------------------------------ MODULE MCLacDial ------------------------------
(* Model values and symmetry for the TLC runs of LacDial. *)
EXTENDS LacDial, TLC

CallSymmetry == Permutations(CallIds)
=============================================================================
