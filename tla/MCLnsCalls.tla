----------------------------- MODULE MCLnsCalls -----------------------------
(* Model values and symmetry for the TLC runs of LnsCalls. *)
EXTENDS LnsCalls, TLC

LnsSymmetry ==
  Permutations(Tunnels) \cup Permutations(Calls) \cup Permutations(Ends)
    \cup Permutations(Cids) \cup Permutations(Range)
=============================================================================
