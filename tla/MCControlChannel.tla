--------------------------- MODULE MCControlChannel ---------------------------
(* Two ends, given as numbers so that functions over them are sequences. *)
EXTENDS ControlChannel
MCPeers  == {1, 2}
Middle   == <<1, 2>>  \* far from the wrap
AtWrap   == <<7, 2>>  \* the first end is about to wrap (with Wrap = 8)
NoCalls  == {}
OneCall  == {1}
TwoCalls == {1, 2}
NoSend   == <<0, 0>>
OneSend  == <<1, 0>>
SendEach == <<1, 1>>
SendTwo  == <<2, 2>>
SendTwoOne == <<2, 1>>
==============================================================================
