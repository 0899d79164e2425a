---------------------------- MODULE MCDetectAgent ----------------------------
(* Two games that share a server. *)
EXTENDS DetectAgent
MCAddrsOf == [s \in Slots |-> {"a"}]
=============================================================================
