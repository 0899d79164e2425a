------------------------------ MODULE MCPppLink ------------------------------
(* Of Auths, 1 is CHAP and 2 is PAP.  A server that wants either, and a      *)
(* client that only knows PAP; a passive server that insists on CHAP; two    *)
(* persistent ends without authentication, of which one only waits while the *)
(* other sends echo requests; and a server that wants CHAP, but exempts who  *)
(* refuses, with a client that knows it, and with one that refuses.          *)
EXTENDS PppLink

End(wants, allows) ==
  [wants |-> wants, allows |-> allows, exempt |-> FALSE, passive |-> FALSE, silent |-> FALSE,
   persist |-> FALSE, echo |-> FALSE]
Pair(s, c) == [e \in Ends |-> IF e = "server" THEN s ELSE c]

MCConfigs == {
  Pair(End({1, 2}, {}), End({}, {2})),
  Pair([End({1}, {}) EXCEPT !.passive = TRUE], End({}, {2})),
  Pair([End({}, {}) EXCEPT !.silent = TRUE, !.persist = TRUE],
       [End({}, {}) EXCEPT !.persist = TRUE, !.echo = TRUE]),
  Pair([End({1}, {}) EXCEPT !.exempt = TRUE], End({}, {1})),
  Pair([End({1}, {}) EXCEPT !.exempt = TRUE], End({}, {2}))}
=============================================================================
