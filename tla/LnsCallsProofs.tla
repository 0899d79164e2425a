--------------------------- MODULE LnsCallsProofs ---------------------------
(* Proofs about LnsCalls, for any sets of tunnels, calls, peers and        *)
(* addresses.                                                              *)
EXTENDS LnsCalls, TLAPS

(* What is taken first was there. *)
LEMMA FirstOf == \A S : \A x \in First(S) : x \in S
BY DEF First

LEMMA TunnelValues ==
  /\ FreeTun \in TunnelType
  /\ \A e \in Ends : /\ [FreeTun EXCEPT !.end = e, !.state = "new", !.needclose = TRUE] \in TunnelType
                     /\ [FreeTun EXCEPT !.end = e, !.state = "new", !.closing = TRUE] \in TunnelType
                     /\ [FreeTun EXCEPT !.end = e, !.state = "SCCRP"] \in TunnelType
  /\ \A r \in TunnelType : /\ [r EXCEPT !.state = "SCCCN"] \in TunnelType
                           /\ [r EXCEPT !.needclose = TRUE] \in TunnelType
                           /\ [r EXCEPT !.needclose = FALSE] \in TunnelType
                           /\ [r EXCEPT !.closing = TRUE] \in TunnelType
                           /\ [r EXCEPT !.needclose = FALSE, !.closing = TRUE] \in TunnelType
                           /\ [r EXCEPT !.needclose = TRUE, !.closing = TRUE] \in TunnelType
BY DEF FreeTun, TunnelType

LEMMA NewCallValues ==
  ASSUME NEW t \in Tunnels, NEW c \in Cids
  PROVE  /\ FreeCall \in CallType
         /\ NewCall(t, c) \in CallType
         /\ [NewCall(t, c) EXCEPT !.closing = TRUE] \in CallType
         /\ [NewCall(t, c) EXCEPT !.needclose = TRUE, !.closing = TRUE, !.sent = TRUE] \in CallType
         /\ \A a \in Range : [NewCall(t, c) EXCEPT !.state = "ICRP", !.addr = a] \in CallType
BY DEF FreeCall, NewCall, CallType

LEMMA FreeCallValue == FreeCall \in CallType
BY DEF FreeCall, CallType

LEMMA CallValues ==
  ASSUME NEW r \in CallType
  PROVE  /\ [r EXCEPT !.needclose = TRUE] \in CallType
         /\ [r EXCEPT !.needclose = FALSE] \in CallType
         /\ [r EXCEPT !.needclose = FALSE, !.closing = TRUE] \in CallType
         /\ [r EXCEPT !.closing = TRUE, !.sent = TRUE] \in CallType
         /\ [r EXCEPT !.pppd = FALSE, !.needclose = TRUE] \in CallType
         /\ [r EXCEPT !.state = "ICCN", !.needclose = TRUE, !.closing = TRUE, !.sent = TRUE] \in CallType
         /\ \A l \in LocalRange \cup {None}, ok \in BOOLEAN :
              [r EXCEPT !.state = "ICCN", !.local = l, !.pppd = ok] \in CallType
BY DEF CallType

(* Destroying calls leaves well-formed calls and only takes addresses out *)
(* of use.                                                                *)
LEMMA DestroyTypes ==
  ASSUME TypeOK, NEW K \in SUBSET Calls, DestroyCalls(K)
  PROVE  calls' \in [Calls -> CallType] /\ uaddr' \subseteq Range \cup LocalRange
BY FreeCallValue DEF TypeOK, DestroyCalls

LEMMA TypeInductive ==
  ASSUME TypeOK, [Next]_vars
  PROVE  TypeOK'
<1>1. ASSUME NEW t \in Tunnels, NEW e \in Ends, FinishSCCRQ(t, e)
      PROVE  TypeOK'
  BY <1>1, TunnelValues DEF FinishSCCRQ, TypeOK
<1>2. ASSUME NEW t \in Tunnels,
             FinishSCCCN(t) \/ BadMessage(t) \/ FinishCDNSelf(t) \/ FinishStopCCN(t) \/ ZlbTunnel(t)
      PROVE  TypeOK'
  <2>1. tun[t] \in TunnelType
    BY DEF TypeOK
  <2>2. \E r \in TunnelType : tun' = [tun EXCEPT ![t] = r]
    <3>1. CASE FinishSCCCN(t)
      BY <2>1, <3>1, TunnelValues DEF FinishSCCCN
    <3>2. CASE BadMessage(t)
      BY <2>1, <3>2, TunnelValues DEF BadMessage
    <3>3. CASE FinishCDNSelf(t)
      BY <2>1, <3>3, TunnelValues DEF FinishCDNSelf
    <3>4. CASE FinishStopCCN(t)
      BY <2>1, <3>4, TunnelValues DEF FinishStopCCN
    <3>5. CASE ZlbTunnel(t)
      BY <2>1, <3>5, TunnelValues DEF ZlbTunnel
    <3> QED BY <1>2, <3>1, <3>2, <3>3, <3>4, <3>5
  <2>3. UNCHANGED <<calls, uaddr, localaddr>>
    BY <1>2 DEF FinishSCCCN, BadMessage, FinishCDNSelf, FinishStopCCN, ZlbTunnel
  <2> QED BY <2>2, <2>3 DEF TypeOK
<1>3. ASSUME NEW t \in Tunnels, NEW k \in Calls, NEW c \in Cids, FinishICRQ(t, k, c)
      PROVE  TypeOK'
  <2>1. \E r \in CallType : calls' = [calls EXCEPT ![k] = r]
    BY <1>3, NewCallValues, FirstOf DEF FinishICRQ, GetAddr
  <2>2. uaddr' = uaddr \/ \E a \in Range : uaddr' = uaddr \cup {a}
    BY <1>3, FirstOf DEF FinishICRQ, GetAddr
  <2>3. UNCHANGED <<tun, localaddr>>
    BY <1>3 DEF FinishICRQ
  <2> QED BY <2>1, <2>2, <2>3 DEF TypeOK
<1>4. ASSUME NEW t \in Tunnels, CloseTunnel(t)
      PROVE  TypeOK'
  <2>1. tun' \in [Tunnels -> TunnelType]
    BY <1>4, TunnelValues DEF CloseTunnel, TypeOK
  <2>2. On(t) \in SUBSET Calls
    BY DEF On, Live
  <2> QED
    BY <1>4, <2>1, <2>2, DestroyTypes DEF CloseTunnel, DestroyCalls, TypeOK
<1>5. ASSUME NEW k \in Calls,
             BadCallMessage(k) \/ FinishCDN(k) \/ ZlbCall(k) \/ ChildHandler(k) \/ ReadFails(k)
      PROVE  TypeOK'
  <2>1. calls[k] \in CallType
    BY DEF TypeOK
  <2>2. \E r \in CallType : calls' = [calls EXCEPT ![k] = r]
    <3>1. CASE BadCallMessage(k)
      BY <2>1, <3>1, CallValues DEF BadCallMessage
    <3>2. CASE FinishCDN(k)
      BY <2>1, <3>2, CallValues DEF FinishCDN
    <3>3. CASE ZlbCall(k)
      BY <2>1, <3>3, CallValues DEF ZlbCall
    <3>4. CASE ChildHandler(k)
      BY <2>1, <3>4, CallValues DEF ChildHandler
    <3>5. CASE ReadFails(k)
      BY <2>1, <3>5, CallValues DEF ReadFails
    <3> QED BY <1>5, <3>1, <3>2, <3>3, <3>4, <3>5
  <2>3. UNCHANGED <<tun, uaddr, localaddr>>
    BY <1>5 DEF BadCallMessage, FinishCDN, ZlbCall, ChildHandler, ReadFails
  <2> QED BY <2>2, <2>3 DEF TypeOK
<1>6. ASSUME NEW k \in Calls, FinishICCN(k)
      PROVE  TypeOK'
  <2>1. calls[k] \in CallType
    BY DEF TypeOK
  <2>2. \E r \in CallType : calls' = [calls EXCEPT ![k] = r]
    BY <1>6, <2>1, CallValues, FirstOf DEF FinishICCN, StartPppd, GetLocalAddr, GetAddr
  <2>3. uaddr' = uaddr \/ \E l \in LocalRange : uaddr' = uaddr \cup {l}
    BY <1>6, FirstOf DEF FinishICCN, GetLocalAddr, GetAddr
  <2>4. localaddr' \in LocalRange \cup {None, localaddr} /\ tun' = tun
    BY <1>6, FirstOf DEF FinishICCN, GetLocalAddr, GetAddr
  <2> QED BY <2>2, <2>3, <2>4 DEF TypeOK
<1>7. CASE BuildFdset
  <2>1. tun' \in [Tunnels -> TunnelType]
    BY <1>7, TunnelValues DEF BuildFdset, TypeOK
  <2>2. calls' \in [Calls -> CallType]
    BY <1>7, FreeCallValue, CallValues DEF BuildFdset, TypeOK
  <2> QED BY <1>7, <2>1, <2>2 DEF BuildFdset, TypeOK
<1>8. CASE UNCHANGED vars
  BY <1>8 DEF vars, TypeOK
<1> QED
  BY <1>1, <1>2, <1>3, <1>4, <1>5, <1>6, <1>7, <1>8 DEF Next

(* Every variable keeps its type. *)
THEOREM LnsTypeCorrect == Spec => []TypeOK
<1>1. Init => TypeOK
  BY TunnelValues, FreeCallValue DEF Init, TypeOK
<1>2. TypeOK /\ [Next]_vars => TypeOK'
  BY TypeInductive
<1> QED BY <1>1, <1>2, PTL DEF Spec

-----------------------------------------------------------------------------
(* All steps but the two that create something do one thing to the calls   *)
(* and one to the tunnels: some calls end, which gives their addresses     *)
(* back, the others keep what they hold; a tunnel that goes takes its      *)
(* calls along.                                                            *)
CallKeeps(k) ==
  /\ calls'[k].addr = calls[k].addr
  /\ calls'[k].tun = calls[k].tun
  /\ calls'[k].cid = calls[k].cid
  /\ \/ calls'[k].state = calls[k].state
     \/ calls[k].state = "ICRP" /\ calls'[k].state = "ICCN"

TunnelKeeps(t) ==
  /\ tun'[t].end = tun[t].end
  /\ \/ tun'[t].state = tun[t].state
     \/ tun[t].state = "SCCRP" /\ tun'[t].state = "SCCCN"

Ended(K) ==
  /\ \A k \in Calls \ K : CallKeeps(k)
  /\ \A k \in K : calls'[k] = FreeCall
  /\ uaddr' \cap Range = (uaddr \cap Range) \ {calls[k].addr : k \in K}
  /\ \A t \in Tunnels : TunnelKeeps(t) \/ (tun'[t] = FreeTun /\ On(t) \subseteq K)

LEMMA NothingEnded ==
  ASSUME TypeOK,
         \A k \in Calls : CallKeeps(k),
         \A t \in Tunnels : TunnelKeeps(t),
         uaddr' \cap Range = uaddr \cap Range
  PROVE  \E K \in SUBSET Calls : Ended(K)
<1>1. uaddr' \cap Range = (uaddr \cap Range) \ {calls[k].addr : k \in {}}
  <2>1. {calls[k].addr : k \in {}} = {}
    OBVIOUS
  <2> DEFINE held == {calls[k].addr : k \in {}}
  <2>2. held = {}
    BY <2>1
  <2> HIDE DEF held
  <2>3. uaddr' \cap Range = (uaddr \cap Range) \ held
    BY <2>2
  <2> QED BY <2>3 DEF held
<1>2. Ended({})
  BY <1>1 DEF Ended
<1> QED BY <1>2

LEMMA SameKept ==
  /\ calls' = calls => \A k \in Calls : CallKeeps(k)
  /\ tun' = tun => \A t \in Tunnels : TunnelKeeps(t)
BY DEF CallKeeps, TunnelKeeps

(* Only addresses of the range for peers matter: whatever local address is *)
(* given back is not one of them.                                          *)
LEMMA FreedRange ==
  ASSUME LnsAssumption, TypeOK, NEW K \in SUBSET Calls, uaddr' = uaddr \ Freed(K)
  PROVE  uaddr' \cap Range = (uaddr \cap Range) \ {calls[k].addr : k \in K}
<1>1. localaddr \notin Range
  BY DEF LnsAssumption, TypeOK
<1>2. \A a \in Range : a \in Freed(K) <=> a \in {calls[k].addr : k \in K}
  <2> DEFINE addrs == {calls[k].addr : k \in K}
  <2>1. Freed(K) = addrs \/ Freed(K) = addrs \cup {localaddr}
    BY DEF Freed
  <2> HIDE DEF addrs
  <2>2. \A a \in Range : a \in Freed(K) <=> a \in addrs
    BY <1>1, <2>1
  <2> QED BY <2>2 DEF addrs
<1> DEFINE addrs == {calls[k].addr : k \in K}
<1>3. \A a \in Range : a \in Freed(K) <=> a \in addrs
  BY <1>2
<1> HIDE DEF addrs
<1>4. uaddr' \cap Range = (uaddr \cap Range) \ addrs
  BY <1>3
<1> QED BY <1>4 DEF addrs

LEMMA OtherSteps ==
  ASSUME LnsAssumption, TypeOK, [Next]_vars
  PROVE  \/ \E t \in Tunnels, e \in Ends : FinishSCCRQ(t, e)
         \/ \E t \in Tunnels, k \in Calls, c \in Cids : FinishICRQ(t, k, c)
         \/ \E K \in SUBSET Calls : Ended(K)
<1>1. ASSUME NEW t \in Tunnels,
             FinishSCCCN(t) \/ BadMessage(t) \/ FinishCDNSelf(t) \/ FinishStopCCN(t) \/ ZlbTunnel(t)
      PROVE  \E K \in SUBSET Calls : Ended(K)
  <2>1. tun \in [Tunnels -> TunnelType] /\ tun[t] \in TunnelType
    BY DEF TypeOK
  <2>2. \A y \in Tunnels : TunnelKeeps(y)
    <3>1. CASE FinishSCCCN(t)
      BY <2>1, <3>1 DEF FinishSCCCN, TunnelKeeps, TunnelType
    <3>2. CASE BadMessage(t)
      BY <2>1, <3>2 DEF BadMessage, TunnelKeeps, TunnelType
    <3>3. CASE FinishCDNSelf(t)
      BY <2>1, <3>3 DEF FinishCDNSelf, TunnelKeeps, TunnelType
    <3>4. CASE FinishStopCCN(t)
      BY <2>1, <3>4 DEF FinishStopCCN, TunnelKeeps, TunnelType
    <3>5. CASE ZlbTunnel(t)
      BY <2>1, <3>5 DEF ZlbTunnel, TunnelKeeps, TunnelType
    <3> QED BY <1>1, <3>1, <3>2, <3>3, <3>4, <3>5
  <2>3. UNCHANGED <<calls, uaddr>>
    BY <1>1 DEF FinishSCCCN, BadMessage, FinishCDNSelf, FinishStopCCN, ZlbTunnel
  <2> QED BY <2>2, <2>3, SameKept, NothingEnded
<1>2. ASSUME NEW k \in Calls,
             BadCallMessage(k) \/ FinishCDN(k) \/ ZlbCall(k) \/ ChildHandler(k) \/ ReadFails(k)
      PROVE  \E K \in SUBSET Calls : Ended(K)
  <2>1. calls \in [Calls -> CallType] /\ calls[k] \in CallType
    BY DEF TypeOK
  <2>2. \A j \in Calls : CallKeeps(j)
    <3>1. CASE BadCallMessage(k)
      BY <2>1, <3>1 DEF BadCallMessage, CallKeeps, CallType
    <3>2. CASE FinishCDN(k)
      BY <2>1, <3>2 DEF FinishCDN, CallKeeps, CallType
    <3>3. CASE ZlbCall(k)
      BY <2>1, <3>3 DEF ZlbCall, CallKeeps, CallType
    <3>4. CASE ChildHandler(k)
      BY <2>1, <3>4 DEF ChildHandler, CallKeeps, CallType
    <3>5. CASE ReadFails(k)
      BY <2>1, <3>5 DEF ReadFails, CallKeeps, CallType
    <3> QED BY <1>2, <3>1, <3>2, <3>3, <3>4, <3>5
  <2>3. UNCHANGED <<tun, uaddr>>
    BY <1>2 DEF BadCallMessage, FinishCDN, ZlbCall, ChildHandler, ReadFails
  <2> QED BY <2>2, <2>3, SameKept, NothingEnded
<1>3. ASSUME NEW k \in Calls, FinishICCN(k)
      PROVE  \E K \in SUBSET Calls : Ended(K)
  <2>1. calls \in [Calls -> CallType] /\ calls[k] \in CallType
    BY DEF TypeOK
  <2>2. CASE LocalRange = {} /\ StartPppd(k, None) /\ UNCHANGED uaddr
    <3>1. PICK ok \in BOOLEAN :
            calls' = [calls EXCEPT ![k] = [@ EXCEPT !.state = "ICCN", !.local = None, !.pppd = ok]]
      BY <2>2 DEF StartPppd
    <3>2. \A j \in Calls : CallKeeps(j)
      BY <1>3, <2>1, <3>1 DEF FinishICCN, CallKeeps, CallType
    <3>3. tun' = tun
      BY <1>3 DEF FinishICCN
    <3> QED BY <2>2, <3>2, <3>3, SameKept, NothingEnded
  <2>3. ASSUME NEW l \in LocalRange, uaddr' = uaddr \cup {l}, StartPppd(k, l)
        PROVE  \E K \in SUBSET Calls : Ended(K)
    <3>1. PICK ok \in BOOLEAN :
            calls' = [calls EXCEPT ![k] = [@ EXCEPT !.state = "ICCN", !.local = l, !.pppd = ok]]
      BY <2>3 DEF StartPppd
    <3>2. \A j \in Calls : CallKeeps(j)
      BY <1>3, <2>1, <3>1 DEF FinishICCN, CallKeeps, CallType
    <3>3. tun' = tun
      BY <1>3 DEF FinishICCN
    <3>4. uaddr' \cap Range = uaddr \cap Range
      BY <2>3 DEF LnsAssumption
    <3> QED BY <3>2, <3>3, <3>4, SameKept, NothingEnded
  <2>4. CASE /\ calls' = [calls EXCEPT ![k] = [@ EXCEPT !.state = "ICCN", !.needclose = TRUE,
                                                        !.closing = TRUE, !.sent = TRUE]]
             /\ UNCHANGED uaddr
    <3>1. \A j \in Calls : CallKeeps(j)
      BY <1>3, <2>1, <2>4 DEF FinishICCN, CallKeeps, CallType
    <3>2. tun' = tun
      BY <1>3 DEF FinishICCN
    <3> QED BY <2>4, <3>1, <3>2, SameKept, NothingEnded
  <2> QED BY <1>3, <2>2, <2>3, <2>4, FirstOf DEF FinishICCN, GetLocalAddr, GetAddr
<1>4. ASSUME NEW t \in Tunnels, CloseTunnel(t)
      PROVE  \E K \in SUBSET Calls : Ended(K)
  <2>1. On(t) \in SUBSET Calls
    BY DEF On, Live
  <2>2. /\ \A k \in On(t) : calls'[k] = FreeCall
        /\ \A k \in Calls \ On(t) : CallKeeps(k)
    BY <1>4, <2>1 DEF CloseTunnel, DestroyCalls, CallKeeps
  <2>3. uaddr' \cap Range = (uaddr \cap Range) \ {calls[k].addr : k \in On(t)}
    BY <1>4, <2>1, FreedRange DEF CloseTunnel, DestroyCalls
  <2>4. tun \in [Tunnels -> TunnelType] /\ tun[t] \in TunnelType
    BY DEF TypeOK
  <2>5. \A y \in Tunnels : TunnelKeeps(y) \/ (tun'[y] = FreeTun /\ On(y) \subseteq On(t))
    <3>1. CASE tun[t].closing
      <4>1. tun' = [tun EXCEPT ![t] = FreeTun]
        BY <1>4, <3>1 DEF CloseTunnel
      <4> QED BY <2>4, <4>1 DEF TunnelKeeps
    <3>2. CASE ~tun[t].closing
      <4>1. tun' = [tun EXCEPT ![t] = [tun[t] EXCEPT !.needclose = TRUE, !.closing = TRUE]]
        BY <1>4, <3>2 DEF CloseTunnel
      <4>2. tun'[t].end = tun[t].end /\ tun'[t].state = tun[t].state
        BY <2>4, <4>1 DEF TunnelType
      <4> QED BY <2>4, <4>1, <4>2 DEF TunnelKeeps
    <3> QED BY <3>1, <3>2
  <2> QED BY <2>1, <2>2, <2>3, <2>5 DEF Ended
<1>5. CASE BuildFdset
  <2> DEFINE closed == {t \in Tunnels : Flagged(tun[t])}
             gone   == {k \in Live : \/ calls[k].tun \in closed
                                     \/ Flagged(calls[k]) /\ calls[k].closing}
  <2>1. gone \in SUBSET Calls
    BY DEF Live
  <2>2. calls \in [Calls -> CallType] /\ tun \in [Tunnels -> TunnelType]
    BY DEF TypeOK
  <2>3. uaddr' = uaddr \ Freed(gone)
    BY <1>5 DEF BuildFdset
  <2>4. calls' = [k \in Calls |->
             IF k \in gone THEN FreeCall
             ELSE IF Flagged(calls[k]) THEN [calls[k] EXCEPT !.closing = TRUE, !.sent = TRUE]
             ELSE calls[k]]
    BY <1>5 DEF BuildFdset
  <2>5. tun' = [t \in Tunnels |->
             IF t \notin closed THEN tun[t]
             ELSE IF tun[t].closing THEN FreeTun
             ELSE [tun[t] EXCEPT !.closing = TRUE]]
    BY <1>5 DEF BuildFdset
  <2>6. \A t \in closed : On(t) \subseteq gone
    BY DEF On
  <2> HIDE DEF closed, gone
  <2>7. \A k \in Calls \ gone : CallKeeps(k)
    <3> TAKE k \in Calls \ gone
    <3>1. calls[k] \in CallType
      BY <2>2
    <3>2. CASE Flagged(calls[k])
      <4>1. calls'[k] = [calls[k] EXCEPT !.closing = TRUE, !.sent = TRUE]
        BY <2>4, <3>2
      <4> QED BY <3>1, <4>1 DEF CallKeeps, CallType
    <3>3. CASE ~Flagged(calls[k])
      <4>1. calls'[k] = calls[k]
        BY <2>4, <3>3
      <4> QED BY <4>1 DEF CallKeeps
    <3> QED BY <3>2, <3>3
  <2>8. \A k \in gone : calls'[k] = FreeCall
    BY <2>1, <2>4
  <2>9. uaddr' \cap Range = (uaddr \cap Range) \ {calls[k].addr : k \in gone}
    BY <2>1, <2>3, FreedRange
  <2>10. \A t \in Tunnels : TunnelKeeps(t) \/ (tun'[t] = FreeTun /\ On(t) \subseteq gone)
    <3> TAKE t \in Tunnels
    <3>1. CASE t \notin closed
      BY <2>5, <3>1 DEF TunnelKeeps
    <3>2. CASE t \in closed /\ tun[t].closing
      BY <2>5, <2>6, <3>2
    <3>3. CASE t \in closed /\ ~tun[t].closing
      <4>1. tun'[t] = [tun[t] EXCEPT !.closing = TRUE]
        BY <2>5, <3>3
      <4>2. tun[t] \in TunnelType
        BY <2>2
      <4> QED BY <4>1, <4>2 DEF TunnelKeeps, TunnelType
    <3> QED BY <3>1, <3>2, <3>3
  <2> QED BY <2>1, <2>7, <2>8, <2>9, <2>10 DEF Ended
<1>6. CASE UNCHANGED vars
  BY <1>6, SameKept, NothingEnded DEF vars
<1> QED
  BY <1>1, <1>2, <1>3, <1>4, <1>5, <1>6 DEF Next

-----------------------------------------------------------------------------
(* The invariants together, with what a free slot holds. *)
FreeHoldsNothing == \A k \in Calls : calls[k].state = "free" => calls[k].addr = None

IInv ==
  /\ TypeOK
  /\ FreeHoldsNothing
  /\ PoolExact
  /\ AddressesUnique
  /\ CallsHaveTunnel
  /\ NoSecondSession

LEMMA InitEstablishes == LnsAssumption /\ Init => IInv
<1> SUFFICES ASSUME LnsAssumption, Init PROVE IInv
  OBVIOUS
<1>1. TypeOK
  BY TunnelValues, FreeCallValue DEF Init, TypeOK
<1>2. /\ \A k \in Calls : calls[k].addr = None /\ calls[k].state = "free"
      /\ \A t \in Tunnels : tun[t].state = "free"
  BY DEF Init, FreeCall, FreeTun
<1>3. FreeHoldsNothing /\ AddressesUnique /\ CallsHaveTunnel /\ NoSecondSession
  BY <1>2 DEF FreeHoldsNothing, AddressesUnique, CallsHaveTunnel, NoSecondSession, Live
<1>4. PoolExact
  BY <1>2 DEF PoolExact, Init
<1> QED BY <1>1, <1>3, <1>4 DEF IInv

LEMMA EndedPreserves ==
  ASSUME LnsAssumption, IInv, NEW K \in SUBSET Calls, Ended(K)
  PROVE  FreeHoldsNothing' /\ PoolExact' /\ AddressesUnique' /\ CallsHaveTunnel' /\ NoSecondSession'
<1>1. /\ \A k \in K : calls'[k].addr = None /\ calls'[k].state = "free"
      /\ \A k \in Calls \ K : calls'[k].addr = calls[k].addr
  BY DEF Ended, FreeCall, CallKeeps
<1>2. FreeHoldsNothing'
  BY <1>1 DEF Ended, CallKeeps, FreeHoldsNothing, IInv
<1>3. AddressesUnique'
  BY <1>1 DEF AddressesUnique, IInv
<1>4. PoolExact'
  <2>1. \A a : (a \in {calls[k].addr : k \in Calls} \ {None} /\ a \notin {calls[k].addr : k \in K})
                 <=> a \in {calls'[k].addr : k \in Calls} \ {None}
    BY <1>1 DEF IInv, AddressesUnique
  <2> DEFINE before == {calls[k].addr : k \in Calls} \ {None}
             after  == {calls'[k].addr : k \in Calls} \ {None}
             given  == {calls[k].addr : k \in K}
  <2>2. after = before \ given
    BY <2>1
  <2>3. uaddr \cap Range = before
    BY DEF IInv, PoolExact
  <2>4. uaddr' \cap Range = (uaddr \cap Range) \ given
    BY DEF Ended
  <2> HIDE DEF before, after, given
  <2>5. uaddr' \cap Range = after
    BY <2>2, <2>3, <2>4
  <2> QED BY <2>5 DEF PoolExact, after
<1>5. CallsHaveTunnel'
  <2> SUFFICES ASSUME NEW k \in Calls, calls'[k].state # "free"
               PROVE  calls'[k].tun \in Tunnels /\ tun'[calls'[k].tun].state = "SCCCN"
    BY DEF CallsHaveTunnel, Live
  <2>1. k \notin K
    BY <1>1
  <2>2. calls'[k].tun = calls[k].tun /\ k \in Live
    BY <2>1 DEF Ended, CallKeeps, Live
  <2>3. calls[k].tun \in Tunnels /\ tun[calls[k].tun].state = "SCCCN" /\ k \in On(calls[k].tun)
    BY <2>2 DEF IInv, CallsHaveTunnel, On
  <2> QED BY <2>1, <2>2, <2>3 DEF Ended, TunnelKeeps
<1>6. NoSecondSession'
  <2>1. \A t \in Tunnels : tun'[t].state \in {"SCCRP", "SCCCN"} =>
          tun'[t].end = tun[t].end /\ tun[t].state \in {"SCCRP", "SCCCN"}
    BY DEF Ended, TunnelKeeps, FreeTun
  <2>2. \A k \in Calls : calls'[k].state \in {"ICRP", "ICCN"} =>
          /\ calls'[k].tun = calls[k].tun /\ calls'[k].cid = calls[k].cid
          /\ calls[k].state \in {"ICRP", "ICCN"}
    BY <1>1 DEF Ended, CallKeeps
  <2> QED BY <2>1, <2>2 DEF NoSecondSession, IInv
<1> QED BY <1>2, <1>3, <1>4, <1>5, <1>6

(* A call that begins: it takes a free slot and either a free address or,  *)
(* as a call that ends before it began, none.                              *)
LEMMA RequestCallPreserves ==
  ASSUME LnsAssumption, IInv, NEW t \in Tunnels, NEW k \in Calls, NEW c \in Cids,
         FinishICRQ(t, k, c)
  PROVE  FreeHoldsNothing' /\ PoolExact' /\ AddressesUnique' /\ CallsHaveTunnel' /\ NoSecondSession'
<1>1. /\ calls \in [Calls -> CallType] /\ tun' = tun
      /\ k \notin Live /\ calls[k].addr = None /\ tun[t].state = "SCCCN"
  BY DEF FinishICRQ, IInv, TypeOK, FreeHoldsNothing, Live, First
<1>2. /\ NewCall(t, c).tun = t /\ NewCall(t, c).cid = c
      /\ NewCall(t, c).state = "new" /\ NewCall(t, c).addr = None
      /\ NewCall(t, c) \in CallType
  BY NewCallValues DEF NewCall, FreeCall
<1> DEFINE Refused  == uaddr' = uaddr /\ calls'[k].addr = None /\ calls'[k].state = "new"
           Accepted == /\ \E a \in Range \ uaddr : calls'[k].addr = a /\ uaddr' = uaddr \cup {a}
                       /\ calls'[k].state = "ICRP"
                       /\ \A z \in On(t) : calls[z].cid # c
           Placed   == calls'[k].tun = t /\ calls'[k].cid = c
<1>3. (Refused \/ Accepted) /\ Placed
  <2>1. CASE /\ calls' = [calls EXCEPT ![k] = [NewCall(t, c) EXCEPT !.closing = TRUE]]
             /\ UNCHANGED uaddr
    BY <1>1, <1>2, <2>1 DEF CallType
  <2>2. CASE /\ calls' = [calls EXCEPT ![k] =
                  [NewCall(t, c) EXCEPT !.needclose = TRUE, !.closing = TRUE, !.sent = TRUE]]
             /\ UNCHANGED uaddr
    BY <1>1, <1>2, <2>2 DEF CallType
  <2>3. ASSUME NEW a \in Range \ uaddr, uaddr' = uaddr \cup {a},
               calls' = [calls EXCEPT ![k] = [NewCall(t, c) EXCEPT !.state = "ICRP", !.addr = a]],
               \A z \in On(t) : calls[z].cid # c
        PROVE  Accepted /\ Placed
    BY <1>1, <1>2, <2>3 DEF CallType
  <2> HIDE DEF Refused, Accepted, Placed
  <2> QED BY <2>1, <2>2, <2>3, FirstOf DEF FinishICRQ, GetAddr
<1>4. calls'[k].tun = t /\ calls'[k].cid = c
  BY <1>3
<1>5. \A j \in Calls \ {k} : calls'[j] = calls[j]
  BY <1>1 DEF FinishICRQ
<1>6. FreeHoldsNothing'
  BY <1>3, <1>5 DEF FreeHoldsNothing, IInv
<1>7. CallsHaveTunnel'
  BY <1>1, <1>4, <1>5 DEF CallsHaveTunnel, Live, IInv
<1>8. NoSecondSession'
  BY <1>1, <1>3, <1>4, <1>5 DEF NoSecondSession, On, Live, IInv
<1>9. \A j \in Calls : calls[j].addr \in (uaddr \cap Range) \cup {None}
  BY DEF IInv, PoolExact
<1>10. AddressesUnique'
  BY <1>3, <1>5, <1>9 DEF AddressesUnique, IInv
<1>11. PoolExact'
  <2>1. CASE uaddr' = uaddr /\ calls'[k].addr = None
    BY <1>1, <1>5, <2>1 DEF PoolExact, IInv
  <2>2. ASSUME NEW a \in Range \ uaddr, calls'[k].addr = a, uaddr' = uaddr \cup {a}
        PROVE  PoolExact'
    <3>1. \A x : x \in {calls'[j].addr : j \in Calls} \ {None}
                   <=> x \in ({calls[j].addr : j \in Calls} \ {None}) \cup {a}
      BY <1>1, <1>5, <2>2 DEF LnsAssumption
    <3> QED BY <2>2, <3>1 DEF PoolExact, IInv
  <2> QED BY <1>3, <2>1, <2>2
<1> QED BY <1>6, <1>7, <1>8, <1>10, <1>11

(* A tunnel that is asked for: it is accepted only when no other has its   *)
(* end, even one on its way out.                                           *)
LEMMA RequestTunnelPreserves ==
  ASSUME LnsAssumption, IInv, NEW t \in Tunnels, NEW e \in Ends, FinishSCCRQ(t, e)
  PROVE  FreeHoldsNothing' /\ PoolExact' /\ AddressesUnique' /\ CallsHaveTunnel' /\ NoSecondSession'
<1>1. UNCHANGED <<calls, uaddr>> /\ tun \in [Tunnels -> TunnelType] /\ tun[t].state = "free"
  BY DEF FinishSCCRQ, IInv, TypeOK, First
<1>2. FreeHoldsNothing' /\ PoolExact' /\ AddressesUnique'
  BY <1>1 DEF FreeHoldsNothing, PoolExact, AddressesUnique, IInv
<1>3. \A y \in Tunnels \ {t} : tun'[y] = tun[y]
  BY <1>1 DEF FinishSCCRQ
<1>4. CallsHaveTunnel'
  BY <1>1, <1>3 DEF CallsHaveTunnel, Live, IInv
<1>5. \/ tun'[t].state = "new"
      \/ tun'[t].end = e /\ SameEnd(t, e) = {}
  BY <1>1, TunnelValues DEF FinishSCCRQ, FreeTun
<1>6. NoSecondSession'
  BY <1>1, <1>3, <1>5 DEF NoSecondSession, SameEnd, IInv
<1> QED BY <1>2, <1>4, <1>6

LEMMA Inductive == LnsAssumption /\ IInv /\ [Next]_vars => IInv'
<1> SUFFICES ASSUME LnsAssumption, IInv, [Next]_vars PROVE IInv'
  OBVIOUS
<1>1. TypeOK /\ TypeOK'
  BY TypeInductive DEF IInv
<1> QED
  BY <1>1, OtherSteps, EndedPreserves, RequestCallPreserves, RequestTunnelPreserves DEF IInv

THEOREM LnsInvariant == LnsAssumption /\ Spec => []IInv
<1> SUFFICES ASSUME LnsAssumption PROVE Spec => []IInv
  OBVIOUS
<1>1. Init => IInv
  BY InitEstablishes
<1>2. IInv /\ [Next]_vars => IInv'
  BY Inductive
<1> QED BY <1>1, <1>2, PTL DEF Spec

-----------------------------------------------------------------------------
(* An address is in use exactly as long as a call holds it, and no address *)
(* is held by two calls.                                                   *)
THEOREM AddressesAreExact == LnsAssumption /\ Spec => []AddressesExact
<1>1. IInv => AddressesExact
  BY DEF IInv, AddressesExact
<1> QED BY <1>1, LnsInvariant, PTL

(* Calls are on tunnels that are up and go with them, and a repeated       *)
(* request never makes a second session.                                   *)
THEOREM SessionsAreSound == LnsAssumption /\ Spec => []SessionsSound
<1>1. IInv => SessionsSound
  BY DEF IInv, SessionsSound
<1> QED BY <1>1, LnsInvariant, PTL

(* Calls that end give their addresses back to the abstract pool. *)
LEMMA EndedGivesBack ==
  ASSUME IInv, NEW K \in SUBSET Calls, Ended(K)
  PROVE  Pool!GiveBack(K)
<1> DEFINE given == {calls[k].addr : k \in K}
<1>1. [k \in Calls |-> calls[k].addr]'
        = [k \in Calls |-> IF k \in K THEN None ELSE [j \in Calls |-> calls[j].addr][k]]
  BY DEF Ended, CallKeeps, FreeCall
<1>2. given = {[j \in Calls |-> calls[j].addr][k] : k \in K}
  OBVIOUS
<1>3. uaddr' \cap Range = (uaddr \cap Range) \ given
  BY DEF Ended
<1> HIDE DEF given
<1>4. (Range \ uaddr)' = (Range \ uaddr) \cup (given \cap Range)
  BY <1>3
<1> QED BY <1>1, <1>2, <1>4 DEF Pool!GiveBack

(* A call that begins takes a free address, or changes nothing. *)
LEMMA RequestTakes ==
  ASSUME LnsAssumption, IInv, NEW t \in Tunnels, NEW k \in Calls, NEW c \in Cids,
         FinishICRQ(t, k, c)
  PROVE  [Pool!Next]_<<Range \ uaddr, [j \in Calls |-> calls[j].addr]>>
<1> DEFINE lease == [j \in Calls |-> calls[j].addr]
<1>1. calls \in [Calls -> CallType] /\ k \notin Live /\ calls[k].addr = None
  BY DEF FinishICRQ, IInv, TypeOK, FreeHoldsNothing, Live, First
<1>2. NewCall(t, c).addr = None /\ NewCall(t, c) \in CallType
  BY NewCallValues DEF NewCall, FreeCall
<1>3. \A j \in Calls \ {k} : calls'[j] = calls[j]
  BY <1>1 DEF FinishICRQ
<1>4. ASSUME uaddr' = uaddr, calls'[k].addr = None
      PROVE  UNCHANGED <<Range \ uaddr, lease>>
  BY <1>1, <1>3, <1>4
<1>5. ASSUME NEW a \in Range \ uaddr, uaddr' = uaddr \cup {a}, calls'[k].addr = a
      PROVE  Pool!Take(k, a)
  <2>1. lease' = [lease EXCEPT ![k] = a]
    <3>1. lease' = [j \in Calls |-> calls'[j].addr]
      OBVIOUS
    <3>2. \A j \in Calls : calls'[j].addr = IF j = k THEN a ELSE calls[j].addr
      BY <1>3, <1>5
    <3>3. lease' = [j \in Calls |-> IF j = k THEN a ELSE calls[j].addr]
      BY <3>1, <3>2
    <3> QED BY <3>3
  <2>2. (Range \ uaddr)' = (Range \ uaddr) \ {a}
    BY <1>5
  <2>3. lease[k] = None
    BY <1>1
  <2> QED BY <1>5, <2>1, <2>2, <2>3 DEF Pool!Take
<1>6. \/ uaddr' = uaddr /\ calls'[k].addr = None
      \/ \E a \in Range \ uaddr : uaddr' = uaddr \cup {a} /\ calls'[k].addr = a
  <2>1. CASE /\ calls' = [calls EXCEPT ![k] = [NewCall(t, c) EXCEPT !.closing = TRUE]]
             /\ UNCHANGED uaddr
    BY <1>1, <1>2, <2>1 DEF CallType
  <2>2. CASE /\ calls' = [calls EXCEPT ![k] =
                  [NewCall(t, c) EXCEPT !.needclose = TRUE, !.closing = TRUE, !.sent = TRUE]]
             /\ UNCHANGED uaddr
    BY <1>1, <1>2, <2>2 DEF CallType
  <2>3. ASSUME NEW a \in Range \ uaddr, uaddr' = uaddr \cup {a},
               calls' = [calls EXCEPT ![k] = [NewCall(t, c) EXCEPT !.state = "ICRP", !.addr = a]]
        PROVE  uaddr' = uaddr \cup {a} /\ calls'[k].addr = a
    BY <1>1, <1>2, <2>3 DEF CallType
  <2> QED BY <2>1, <2>2, <2>3, FirstOf DEF FinishICRQ, GetAddr
<1> QED BY <1>4, <1>5, <1>6 DEF Pool!Next

(* The LNS's use of its addresses is that of the abstract pool. *)
THEOREM PoolRefinement == LnsAssumption /\ Spec => ImplementsAddressPool
<1> SUFFICES ASSUME LnsAssumption PROVE Spec => ImplementsAddressPool
  OBVIOUS
<1>1. Init => Pool!Init
  BY DEF Init, FreeCall, Pool!Init
<1>2. IInv /\ [Next]_vars =>
        [Pool!Next]_<<Range \ uaddr, [k \in Calls |-> calls[k].addr]>>
  <2> SUFFICES ASSUME IInv, [Next]_vars
               PROVE  [Pool!Next]_<<Range \ uaddr, [k \in Calls |-> calls[k].addr]>>
    OBVIOUS
  <2>1. ASSUME NEW t \in Tunnels, NEW e \in Ends, FinishSCCRQ(t, e)
        PROVE  UNCHANGED <<Range \ uaddr, [k \in Calls |-> calls[k].addr]>>
    BY <2>1 DEF FinishSCCRQ
  <2>2. TypeOK
    BY DEF IInv
  <2>3. ASSUME NEW K \in SUBSET Calls, Ended(K)
        PROVE  Pool!Next
    BY <2>3, EndedGivesBack DEF Pool!Next
  <2>4. ASSUME NEW t \in Tunnels, NEW k \in Calls, NEW c \in Cids, FinishICRQ(t, k, c)
        PROVE  [Pool!Next]_<<Range \ uaddr, [j \in Calls |-> calls[j].addr]>>
    BY <2>4, RequestTakes
  <2>5. \/ \E t \in Tunnels, e \in Ends : FinishSCCRQ(t, e)
        \/ \E t \in Tunnels, k \in Calls, c \in Cids : FinishICRQ(t, k, c)
        \/ \E K \in SUBSET Calls : Ended(K)
    BY <2>2, OtherSteps
  <2> QED BY <2>1, <2>3, <2>4, <2>5
<1> QED BY <1>1, <1>2, LnsInvariant, PTL DEF Spec, Pool!Spec, ImplementsAddressPool
=============================================================================
