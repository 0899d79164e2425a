------------------------------ MODULE LnsCalls ------------------------------
(***************************************************************************)
(* The LNS side of xl2tpd: the tunnels peers set up with one "lns"         *)
(* section, the calls on them, the pools of addresses the calls draw from, *)
(* pppd's exits, and build_fdset, which closes what was marked.            *)
(*                                                                         *)
(* A call or tunnel is closed in two steps.  needclose alone asks          *)
(* build_fdset to send CDN or StopCCN, after which both flags are set and  *)
(* the peer's ZLB is awaited; closing alone asks it to destroy.  The main  *)
(* loop handles at most one packet of a tunnel between two passes of       *)
(* build_fdset, signals and pppd's output apart.  Numbering and repeating  *)
(* the messages is ControlChannel.tla's: here each is one step.            *)
(***************************************************************************)
EXTENDS Integers

CONSTANTS
  Tunnels, Calls,  \* bounds: the tunnels and calls that exist at once
  Ends,            \* what tells peers apart: an address and a tunnel id
  Allowed,         \* the ends get_lns finds a section for
  Cids,            \* bound: the call ids a peer uses
  Range,           \* lns->range: the addresses for the peers
  LocalRange,      \* lns->localrange, {} for NULL
  None

ASSUME LnsAssumption ==
  /\ Allowed \subseteq Ends
  /\ None \notin Tunnels \cup Calls \cup Ends \cup Cids \cup Range \cup LocalRange
  /\ Range \cap LocalRange = {}

VARIABLES
  tun,        \* the list of tunnels
  calls,      \* the calls of all of them
  uaddr,      \* the addresses in use
  localaddr   \* lns->localaddr: one field for all calls of the section

vars == <<tun, calls, uaddr, localaddr>>

FreeTun  == [end |-> None, state |-> "free", needclose |-> FALSE, closing |-> FALSE]

(* local and sent are history: the local address pppd was started with,    *)
(* and whether we sent a CDN.                                              *)
FreeCall == [tun |-> None, cid |-> None, state |-> "free", addr |-> None,
             local |-> None, pppd |-> FALSE,
             needclose |-> FALSE, closing |-> FALSE, sent |-> FALSE]

Live    == {k \in Calls : calls[k].state # "free"}
On(t)   == {k \in Live : calls[k].tun = t}

Flagged(r) == r.needclose # r.closing
Settled(t) == /\ tun[t].state # "free" /\ ~Flagged(tun[t])
              /\ \A k \in On(t) : ~Flagged(calls[k])

Init ==
  /\ tun = [t \in Tunnels |-> FreeTun]
  /\ calls = [k \in Calls |-> FreeCall]
  /\ uaddr = {}
  /\ localaddr = None

-----------------------------------------------------------------------------
(* The records, and the addresses, are all alike: the first free one is taken. *)
First(S) == {x \in S : x = CHOOSE y \in S : TRUE}

(* Mutant: a second request of one end is a tunnel like any other. *)
SameEndNever(t, e) == {}

SameEnd(t, e) == {y \in Tunnels \ {t} : tun[y].end = e}

(* A request for a tunnel makes a tunnel of its own, even when it is a     *)
(* repeated one.  It is refused (not authorised, or an AVP is wrong or     *)
(* missing), ignored because there is one with that end, or answered.      *)
FinishSCCRQ(t, e) ==
  /\ t \in First({x \in Tunnels : tun[x].state = "free"})
  /\ \/ tun' = [tun EXCEPT ![t] = [FreeTun EXCEPT !.end = e, !.state = "new", !.needclose = TRUE]]
     \/ /\ e \in Allowed /\ SameEnd(t, e) # {}
        /\ tun' = [tun EXCEPT ![t] = [FreeTun EXCEPT !.end = e, !.state = "new", !.closing = TRUE]]
     \/ /\ e \in Allowed /\ SameEnd(t, e) = {}
        /\ tun' = [tun EXCEPT ![t] = [FreeTun EXCEPT !.end = e, !.state = "SCCRP"]]
  /\ UNCHANGED <<calls, uaddr, localaddr>>

FinishSCCCN(t) ==
  /\ Settled(t) /\ tun[t].state = "SCCRP"
  /\ tun' = [tun EXCEPT ![t] = [@ EXCEPT !.state = "SCCCN"]]
  /\ UNCHANGED <<calls, uaddr, localaddr>>

(* Out of place, malformed or badly authenticated, on the tunnel or a call. *)
(* A peer is taken to set the M bit on the AVPs that decide this: without   *)
(* it a failure is logged and control_finish goes on.                       *)
BadMessage(t) ==
  /\ Settled(t)
  /\ tun' = [tun EXCEPT ![t] = [@ EXCEPT !.needclose = TRUE]]
  /\ UNCHANGED <<calls, uaddr, localaddr>>

BadCallMessage(k) ==
  /\ k \in Live /\ Settled(calls[k].tun)
  /\ calls' = [calls EXCEPT ![k] = [@ EXCEPT !.needclose = TRUE]]
  /\ UNCHANGED <<tun, uaddr, localaddr>>

NewCall(t, c) == [FreeCall EXCEPT !.tun = t, !.cid = c, !.state = "new"]

(* Mutant: any address of the range is taken, in use or not. *)
GetAddrAny(range) == range

GetAddr(range) == First(range \ uaddr)

(* A request for a call: ignored when the tunnel has a call of that id,    *)
(* rejected with a CDN at once when no address is left, or answered.       *)
FinishICRQ(t, k, c) ==
  /\ Settled(t) /\ tun[t].state = "SCCCN" /\ k \in First(Calls \ Live)
  /\ \/ /\ \E z \in On(t) : calls[z].cid = c
        /\ calls' = [calls EXCEPT ![k] = [NewCall(t, c) EXCEPT !.closing = TRUE]]
        /\ UNCHANGED uaddr
     \/ /\ \A z \in On(t) : calls[z].cid # c
        /\ GetAddr(Range) = {}
        /\ calls' = [calls EXCEPT ![k] =
                       [NewCall(t, c) EXCEPT !.needclose = TRUE, !.closing = TRUE, !.sent = TRUE]]
        /\ UNCHANGED uaddr
     \/ /\ \A z \in On(t) : calls[z].cid # c
        /\ \E a \in GetAddr(Range) :
             /\ calls' = [calls EXCEPT ![k] =
                            [NewCall(t, c) EXCEPT !.state = "ICRP", !.addr = a]]
             /\ uaddr' = uaddr \cup {a}
  /\ UNCHANGED <<tun, localaddr>>

(* Mutant: get_addr's failure is not looked at. *)
GetLocalAddrUnchecked == IF GetAddr(LocalRange) = {} THEN {None} ELSE GetAddr(LocalRange)

GetLocalAddr == GetAddr(LocalRange)

(* pppd is started, or starting it fails, which goes unnoticed. *)
StartPppd(k, l) ==
  \E ok \in BOOLEAN :
    calls' = [calls EXCEPT ![k] = [@ EXCEPT !.state = "ICCN", !.local = l, !.pppd = ok]]

(* The call is up: a local address is taken for it and kept in the lns.    *)
(* When there is none the field is cleared and a CDN goes out.             *)
FinishICCN(k) ==
  /\ calls[k].state = "ICRP" /\ Settled(calls[k].tun)
  /\ \/ /\ LocalRange = {}
        /\ StartPppd(k, None)
        /\ UNCHANGED <<uaddr, localaddr>>
     \/ \E l \in GetLocalAddr :
          /\ localaddr' = l
          /\ uaddr' = uaddr \cup {l}
          /\ StartPppd(k, l)
     \/ /\ LocalRange # {} /\ GetLocalAddr = {}
        /\ localaddr' = None
        /\ calls' = [calls EXCEPT ![k] = [@ EXCEPT !.state = "ICCN", !.needclose = TRUE,
                                                   !.closing = TRUE, !.sent = TRUE]]
        /\ UNCHANGED uaddr
  /\ UNCHANGED tun

-----------------------------------------------------------------------------
(* The peer ends a call. *)
FinishCDN(k) ==
  /\ k \in Live /\ Settled(calls[k].tun)
  /\ calls' = [calls EXCEPT ![k] = [@ EXCEPT !.needclose = FALSE, !.closing = TRUE]]
  /\ UNCHANGED <<tun, uaddr, localaddr>>

(* The peer ends a call that has no id of ours yet, with a CDN on the      *)
(* tunnel: the marks are set on the tunnel itself.                         *)
FinishCDNSelf(t) ==
  /\ Settled(t) /\ On(t) # {}
  /\ tun' = [tun EXCEPT ![t] = [@ EXCEPT !.needclose = FALSE, !.closing = TRUE]]
  /\ UNCHANGED <<calls, uaddr, localaddr>>

FinishStopCCN(t) ==
  /\ Settled(t)
  /\ tun' = [tun EXCEPT ![t] = [@ EXCEPT !.needclose = FALSE, !.closing = TRUE]]
  /\ UNCHANGED <<calls, uaddr, localaddr>>

(* The peer's acknowledgement of our StopCCN or CDN. *)
ZlbTunnel(t) ==
  /\ Settled(t) /\ tun[t].closing
  /\ tun' = [tun EXCEPT ![t] = [@ EXCEPT !.needclose = FALSE]]
  /\ UNCHANGED <<calls, uaddr, localaddr>>

ZlbCall(k) ==
  /\ k \in Live /\ Settled(calls[k].tun) /\ calls[k].closing
  /\ calls' = [calls EXCEPT ![k] = [@ EXCEPT !.needclose = FALSE]]
  /\ UNCHANGED <<tun, uaddr, localaddr>>

(* Mutant: a call's own address is not given back. *)
FreedOnlyLocal(K) == IF LocalRange # {} /\ K # {} THEN {localaddr} ELSE {}

(* What destroy_call gives back for the calls K: their addresses, and      *)
(* whatever local address was taken last.                                  *)
Freed(K) == {calls[k].addr : k \in K}
              \cup (IF LocalRange # {} /\ K # {} THEN {localaddr} ELSE {})

DestroyCalls(K) ==
  /\ calls' = [k \in Calls |-> IF k \in K THEN FreeCall ELSE calls[k]]
  /\ uaddr' = uaddr \ Freed(K)
  /\ UNCHANGED localaddr

(* Mutant: the calls of the tunnel are forgotten. *)
CloseTunnelOnly(t) ==
  /\ Settled(t)
  /\ tun' = [tun EXCEPT ![t] = IF tun[t].closing THEN FreeTun
                               ELSE [@ EXCEPT !.needclose = TRUE, !.closing = TRUE]]
  /\ UNCHANGED <<calls, uaddr, localaddr>>

(* call_close on a tunnel: by "disconnect", or by a message that is never  *)
(* acknowledged.  Its calls go at once, the tunnel itself when it was      *)
(* already closing.                                                        *)
CloseTunnel(t) ==
  /\ Settled(t)
  /\ tun' = [tun EXCEPT ![t] = IF tun[t].closing THEN FreeTun
                               ELSE [@ EXCEPT !.needclose = TRUE, !.closing = TRUE]]
  /\ DestroyCalls(On(t))

-----------------------------------------------------------------------------
(* pppd of the call is gone. *)
ChildHandler(k) ==
  /\ calls[k].pppd
  /\ calls' = [calls EXCEPT ![k] = [@ EXCEPT !.pppd = FALSE, !.needclose = TRUE]]
  /\ UNCHANGED <<tun, uaddr, localaddr>>

(* Reading what pppd sends fails, on a descriptor build_fdset had watched. *)
ReadFails(k) ==
  /\ calls[k].pppd /\ ~calls[k].sent
  /\ calls' = [calls EXCEPT ![k] = [@ EXCEPT !.needclose = TRUE]]
  /\ UNCHANGED <<tun, uaddr, localaddr>>

(* Mutant: a tunnel that is closing is told to the peer once more. *)
BuildFdsetAgain ==
  /\ (\E t \in Tunnels : Flagged(tun[t])) \/ (\E k \in Live : Flagged(calls[k]))
  /\ LET closed == {t \in Tunnels : Flagged(tun[t])}
         gone   == {k \in Live : \/ calls[k].tun \in closed
                                 \/ Flagged(calls[k]) /\ calls[k].closing}
     IN  /\ tun' = [t \in Tunnels |->
             IF t \notin closed THEN tun[t]
             ELSE [tun[t] EXCEPT !.needclose = TRUE, !.closing = TRUE]]
         /\ calls' = [k \in Calls |->
             IF k \in gone THEN FreeCall
             ELSE IF Flagged(calls[k]) THEN [calls[k] EXCEPT !.closing = TRUE, !.sent = TRUE]
             ELSE calls[k]]
         /\ uaddr' = uaddr \ Freed(gone)
  /\ UNCHANGED localaddr

(* One pass: calls and tunnels marked closing are destroyed; for those     *)
(* marked needclose CDN or StopCCN goes out, and with its StopCCN a        *)
(* tunnel's calls are destroyed.                                           *)
BuildFdset ==
  /\ (\E t \in Tunnels : Flagged(tun[t])) \/ (\E k \in Live : Flagged(calls[k]))
  /\ LET closed == {t \in Tunnels : Flagged(tun[t])}
         gone   == {k \in Live : \/ calls[k].tun \in closed
                                 \/ Flagged(calls[k]) /\ calls[k].closing}
     IN  /\ tun' = [t \in Tunnels |->
             IF t \notin closed THEN tun[t]
             ELSE IF tun[t].closing THEN FreeTun
             ELSE [tun[t] EXCEPT !.closing = TRUE]]
         /\ calls' = [k \in Calls |->
             IF k \in gone THEN FreeCall
             ELSE IF Flagged(calls[k]) THEN [calls[k] EXCEPT !.closing = TRUE, !.sent = TRUE]
             ELSE calls[k]]
         /\ uaddr' = uaddr \ Freed(gone)
  /\ UNCHANGED localaddr

Next ==
  \/ \E t \in Tunnels :
       \/ \E e \in Ends : FinishSCCRQ(t, e)
       \/ FinishSCCCN(t) \/ BadMessage(t)
       \/ \E k \in Calls, c \in Cids : FinishICRQ(t, k, c)
       \/ FinishCDNSelf(t) \/ FinishStopCCN(t) \/ ZlbTunnel(t) \/ CloseTunnel(t)
  \/ \E k \in Calls :
       \/ BadCallMessage(k) \/ FinishICCN(k) \/ FinishCDN(k) \/ ZlbCall(k)
       \/ ChildHandler(k) \/ ReadFails(k)
  \/ BuildFdset

Spec == Init /\ [][Next]_vars

(* build_fdset runs in every pass of the main loop, and right after it the *)
(* events that are due: the retransmissions of a StopCCN end, with its ZLB *)
(* or by giving up (ControlChannel's ClosingEnds).                         *)
Fairness ==
  /\ WF_vars(BuildFdset)
  /\ \A t \in Tunnels : SF_vars(tun[t].closing /\ (ZlbTunnel(t) \/ CloseTunnel(t)))

FairSpec == Spec /\ Fairness

-----------------------------------------------------------------------------
TunnelType ==
  [end : Ends \cup {None}, state : {"free", "new", "SCCRP", "SCCCN"},
   needclose : BOOLEAN, closing : BOOLEAN]

CallType ==
  [tun : Tunnels \cup {None}, cid : Cids \cup {None},
   state : {"free", "new", "ICRP", "ICCN"},
   addr : Range \cup {None}, local : LocalRange \cup {None}, pppd : BOOLEAN,
   needclose : BOOLEAN, closing : BOOLEAN, sent : BOOLEAN]

TypeOK ==
  /\ tun \in [Tunnels -> TunnelType]
  /\ calls \in [Calls -> CallType]
  /\ uaddr \subseteq Range \cup LocalRange
  /\ localaddr \in LocalRange \cup {None}

(* The pool is exact whichever way calls end (CDN, ZLB, pppd's exit, with  *)
(* their tunnel): the addresses in use are those of the calls there are.   *)
PoolExact == uaddr \cap Range = {calls[k].addr : k \in Calls} \ {None}

(* No two calls, closing ones included, hold one address for their peer.   *)
AddressesUnique ==
  \A j, k \in Calls : calls[j].addr = calls[k].addr /\ calls[j].addr # None => j = k

(* Addresses are neither leaked nor given twice, however calls end.        *)
AddressesExact == PoolExact /\ AddressesUnique

(* No call is left without its tunnel, and none exists on a tunnel whose   *)
(* handshake did not complete.                                             *)
CallsHaveTunnel == \A k \in Live : calls[k].tun \in Tunnels /\ tun[calls[k].tun].state = "SCCCN"

(* Requests that arrive twice never make a second session: one tunnel for  *)
(* an end and one call for a call id, until the first is destroyed.        *)
NoSecondSession ==
  /\ \A s, t \in Tunnels : /\ {tun[s].state, tun[t].state} \subseteq {"SCCRP", "SCCCN"}
                           /\ tun[s].end = tun[t].end
                           => s = t
  /\ \A j, k \in Calls : /\ {calls[j].state, calls[k].state} \subseteq {"ICRP", "ICCN"}
                         /\ calls[j].tun = calls[k].tun /\ calls[j].cid = calls[k].cid
                         => j = k

(* What repeats or ends early leaves no session without its tunnel and no  *)
(* second one.                                                             *)
SessionsSound == CallsHaveTunnel /\ NoSecondSession

(* "useful in cases where it is desirable to have a unique IP address for  *)
(* each tunnel" (xl2tpd.conf.5:128, local ip range): no two calls with     *)
(* pppd running have one local address.                                    *)
LocalAddressesUnique ==
  \A j, k \in Calls : /\ calls[j].pppd /\ calls[k].pppd
                      /\ calls[j].local = calls[k].local /\ calls[j].local # None
                      => j = k

(* "If we set c->needclose, the call (or tunnel) will be closed upon       *)
(* return" (control.c:191): a call waits for the peer's ZLB only when a    *)
(* CDN is out that the peer can answer.                                    *)
WaitsOnlyForItsOwnCdn ==
  \A k \in Calls : calls[k].needclose /\ calls[k].closing => calls[k].sent

(* The address pool is that of AddressPool.tla. *)
Pool == INSTANCE AddressPool WITH
          free <- Range \ uaddr, lease <- [k \in Calls |-> calls[k].addr]

ImplementsAddressPool == Pool!Spec

(* A tunnel that is closing, from whichever side and for whatever reason,  *)
(* ends, and its calls and their addresses with it.                        *)
TunnelEnds ==
  \A t \in Tunnels :
    tun[t].needclose \/ tun[t].closing ~> tun[t].state = "free" /\ On(t) = {}
=============================================================================
