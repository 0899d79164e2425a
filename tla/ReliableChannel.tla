--------------------------- MODULE ReliableChannel ---------------------------
(***************************************************************************)
(* What the L2TP control connection promises its two ends: every message   *)
(* is taken exactly once and in the order it was sent, until an end gives  *)
(* the connection up.                                                      *)
(***************************************************************************)
EXTENDS Integers, Sequences

CONSTANT Peers
VARIABLES sent,  \* how many messages each end has sent
          taken, \* which messages each end has taken from the other
          open   \* has the end not given up?

Init == /\ sent  = [p \in Peers |-> 0]
        /\ taken = [p \in Peers |-> <<>>]
        /\ open  = [p \in Peers |-> TRUE]

(* An end gives the connection up with a closing message or without a word. *)
Send(p) == /\ open[p]
           /\ sent' = [sent EXCEPT ![p] = @ + 1]
           /\ open' \in {open, [open EXCEPT ![p] = FALSE]}
           /\ UNCHANGED taken

Close(p) == /\ open' = [open EXCEPT ![p] = FALSE]
            /\ UNCHANGED <<sent, taken>>

(* The next message, and only the next, is taken; the closing one closes. *)
Take(p) == /\ \E q \in Peers \ {p} : Len(taken[p]) < sent[q]
           /\ taken' = [taken EXCEPT ![p] = Append(@, Len(@) + 1)]
           /\ open' \in {open, [open EXCEPT ![p] = FALSE]}
           /\ UNCHANGED sent

Next == \E p \in Peers : Send(p) \/ Close(p) \/ Take(p)
Spec == Init /\ [][Next]_<<sent, taken, open>>
==============================================================================
