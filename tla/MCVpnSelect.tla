----------------------------- MODULE MCVpnSelect -----------------------------
(* Two nodes, the first with two ips; the averages are 14 and 22. *)
EXTENDS VpnSelect

MCVpnOf == [i \in {"i1", "i2", "i3"} |-> IF i = "i3" THEN 2 ELSE 1]
MCRegionsOf == [g \in Games |-> {1}]
MCData == {{<<"a", 14>>}, {<<"a", 22>>}}

Listed(ip, r, l) == [ip |-> ip, rtt |-> r, lose |-> l]
Request(s, g, r, q) == [spec |-> s, game |-> g, region |-> r, qos |-> q]

(* Rtts in the band of the best, at its edge, outside it, and in a chain;    *)
(* loss; an ip nobody knows; a region the game does not have, asked for by a *)
(* user with a vpn of its own.                                               *)
MCAsks ==
  {Request(None, 1, 1, <<Listed("i1", 27, 0), Listed("i3", 20, 0), Listed("i2", 24, 0)>>),
   Request(None, 1, 0, <<Listed("i3", 30, 0), Listed("i2", 20, 1), Listed("i4", 1, 0)>>),
   Request(None, None, 0, <<Listed("i2", 48, 0), Listed("i1", 44, 0), Listed("i3", 40, 0)>>),
   Request("i3", 1, 9, <<Listed("i1", 20, 0)>>)}
=============================================================================
