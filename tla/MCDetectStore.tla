---------------------------- MODULE MCDetectStore ----------------------------
(* Instances of DetectStore for TLC. *)
EXTENDS DetectStore

(* One game with a single region, one with two. *)
MCRegionsOf == [g \in Games |-> IF g = 1 THEN {1} ELSE {1, 2}]
MCSingle == [g \in Games |-> {1}]

(* Two lists over three members; one entry of the second was never reached.   *)
MCData == {{<<"a", 10>>, <<"b", 60>>}, {<<"a", 50>>, <<"c", AVA_INF>>}}
=============================================================================
