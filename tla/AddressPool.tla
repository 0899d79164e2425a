---------------------------- MODULE AddressPool ----------------------------
(* What the LNS promises of its "ip range": every address is free or held  *)
(* by exactly one call, is taken from the free ones and comes back when    *)
(* the call ends.                                                          *)
EXTENDS Integers

CONSTANTS Calls, Range, None

VARIABLES free, lease

Init == free = Range /\ lease = [k \in Calls |-> None]

Take(k, a) ==
  /\ lease[k] = None /\ a \in free
  /\ lease' = [lease EXCEPT ![k] = a]
  /\ free' = free \ {a}

(* Calls may end together, with their tunnel. *)
GiveBack(K) ==
  /\ lease' = [k \in Calls |-> IF k \in K THEN None ELSE lease[k]]
  /\ free' = free \cup ({lease[k] : k \in K} \cap Range)

Next == (\E k \in Calls, a \in Range : Take(k, a)) \/ (\E K \in SUBSET Calls : GiveBack(K))

Spec == Init /\ [][Next]_<<free, lease>>
=============================================================================
