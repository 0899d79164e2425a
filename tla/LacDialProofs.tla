---------------------------- MODULE LacDialProofs ----------------------------
(* Proofs about LacDial, for every limit, set of calls and command bound. *)
EXTENDS LacDial, TLAPS

(* A lac without a tunnel has no calls, a disconnected one neither, and    *)
(* lac->c is one of the calls.                                             *)
PointerInv ==
  /\ tun.state = "none" => tun = NoTunnel
  /\ tun = NoTunnel => Live = {}
  /\ ~active => Live = {}
  /\ lacc # None => lacc \in Live

(* As long as no command has dialled into a dial under way: there is one   *)
(* call, or one pending redial, or a handshake, never two of them.         *)
SingleInv ==
  overlap \/
    /\ events <= 1
    /\ events = 1 /\ active => rsched = 1
    /\ \A j, k \in Live : j = k
    /\ lacc = None => Live = {}
    /\ Live # {} => events = 0
    /\ tun.state = "SCCRQ" => events = 0 /\ Live = {}
    /\ ~tun.gap

IInv ==
  /\ TypeOK
  /\ PointerInv
  /\ SchedulePointerLive
  /\ SingleInv
  /\ IdleOnlyWhenExhausted

Tunnels == [state : {"none", "SCCRQ", "SCCCN"}, closing : BOOLEAN, gap : BOOLEAN]
CallStates == {"free", "ICRQ", "ICCN", "closing"}

LEMMA TunnelValues ==
  /\ NoTunnel \in Tunnels /\ NewTunnel \in Tunnels
  /\ \A tn \in Tunnels : /\ [tn EXCEPT !.closing = TRUE] \in Tunnels
                         /\ [tn EXCEPT !.state = "SCCCN"] \in Tunnels
  /\ NoCalls \in [CallIds -> CallStates]
BY DEF NoTunnel, NewTunnel, Tunnels, NoCalls, CallStates

(* What the dialler leaves behind, whoever runs it. *)
LEMMA DialTypes ==
  ASSUME LacAssumption, TypeOK,
         NEW act \in BOOLEAN, NEW tries \in 0..(RMax + 1), NEW sched, NEW tn \in Tunnels,
         MagicLacDial(act, tries, sched, tn)
  PROVE  /\ rtries' \in 0..(RMax + 1)
         /\ rsched' \in {0, sched}
         /\ tun' \in Tunnels
         /\ calls' \in [CallIds -> CallStates]
         /\ lacc' \in CallIds \cup {None}
         /\ failed' \in BOOLEAN
<1>1. Saturated(tries) \in 0..(RMax + 1)
  BY DEF LacAssumption, Saturated
<1>2. CASE ~act
  BY <1>2 DEF MagicLacDial, TypeOK, CallStates
<1>3. CASE act
  <2>1. rtries' \in 0..(RMax + 1) /\ rsched' \in {0, sched}
    BY <1>1, <1>3 DEF MagicLacDial
  <2>2. CASE UNCHANGED <<calls, lacc, failed>> /\ tun' = tn
    BY <2>1, <2>2 DEF TypeOK, CallStates
  <2>3. CASE MagicLacTunnel /\ UNCHANGED <<calls, lacc>>
    <3>1. tun' \in Tunnels
      BY <2>3, TunnelValues DEF MagicLacTunnel, TypeOK, Tunnels
    <3> QED BY <2>1, <2>3, <3>1 DEF MagicLacTunnel, TypeOK, CallStates
  <2>4. CASE LacCall(tn) /\ UNCHANGED failed
    BY <2>1, <2>4 DEF LacCall, TypeOK, Tunnels, CallStates
  <2> QED BY <1>3, <2>2, <2>3, <2>4 DEF MagicLacDial
<1> QED BY <1>2, <1>3

(* What the loss of a call or of the tunnel schedules. *)
LEMMA ScheduleTypes ==
  ASSUME TypeOK, NEW lost \in BOOLEAN, ScheduleRedial(lost)
  PROVE  events' \in Nat /\ rsched' \in -1..events'
BY DEF TypeOK, ScheduleRedial

LEMMA TypeInductive ==
  ASSUME LacAssumption, TypeOK, [Next]_vars
  PROVE  TypeOK'
<1> USE LacAssumption
<1>1. CASE Fire
  <2> DEFINE sched == IF rsched = 1 THEN -1 ELSE IF rsched > 1 THEN rsched - 1 ELSE rsched
  <2>1. MagicLacDial(active, rtries, sched, tun)
    BY <1>1 DEF Fire
  <2>2. active \in BOOLEAN /\ rtries \in 0..(RMax + 1) /\ tun \in Tunnels
    BY DEF TypeOK, Tunnels
  <2>3. sched \in -1..(events - 1) /\ events' \in Nat /\ events' = events - 1
    BY <1>1 DEF Fire, TypeOK
  <2>4. redials' \in 0..(RMax + 1)
    BY <1>1 DEF Fire, TypeOK, Saturated, LacAssumption
  <2> HIDE DEF sched
  <2>5. rsched' \in -1..events'
    BY <2>1, <2>2, <2>3, DialTypes
  <2> QED
    BY <1>1, <2>1, <2>2, <2>3, <2>4, <2>5, DialTypes DEF Fire, TypeOK, Tunnels, CallStates
<1>2. CASE Connect
  <2>1. 0 \in 0..(RMax + 1) /\ connects' \in 0..MaxConnects
    BY <1>2 DEF Connect, TypeOK, LacAssumption
  <2>2. CASE lacc = None /\ MagicLacDial(TRUE, 0, rsched, tun)
             /\ overlap' = (overlap \/ events > 0 \/ tun # NoTunnel)
    <3>1. tun \in Tunnels /\ TRUE \in BOOLEAN
      BY DEF TypeOK, Tunnels
    <3>2. /\ rtries' \in 0..(RMax + 1)
          /\ rsched' \in {0, rsched}
          /\ tun' \in Tunnels
          /\ calls' \in [CallIds -> CallStates]
          /\ lacc' \in CallIds \cup {None}
          /\ failed' \in BOOLEAN
      BY <2>1, <2>2, <3>1, DialTypes
    <3>3. rsched' \in -1..events'
      BY <1>2, <3>2 DEF Connect, TypeOK
    <3> QED BY <1>2, <2>1, <2>2, <3>2, <3>3 DEF Connect, TypeOK, Tunnels, CallStates
  <2>3. CASE lacc # None /\ rtries' = 0
             /\ UNCHANGED <<rsched, tun, calls, lacc, failed, overlap>>
    BY <1>2, <2>1, <2>3 DEF Connect, TypeOK
  <2> QED BY <1>2, <2>2, <2>3 DEF Connect
<1>3. CASE Disconnect
  <2>1. redials' \in 0..(RMax + 1) /\ rtries' \in 0..(RMax + 1)
    BY <1>3 DEF Disconnect, LacAssumption
  <2>2. tun' \in Tunnels /\ calls' \in [CallIds -> CallStates] /\ lacc' \in CallIds \cup {None}
    <3>1. tun \in Tunnels /\ calls \in [CallIds -> CallStates]
      BY DEF TypeOK, Tunnels, CallStates
    <3> QED BY <1>3, <3>1, TunnelValues DEF Disconnect, TypeOK
  <2> QED BY <1>3, <2>1, <2>2 DEF Disconnect, TypeOK, Tunnels, CallStates, ghost
<1>4. ASSUME DestroyTunnel PROVE TypeOK'
  <2>1. events' \in Nat /\ rsched' \in -1..events'
    BY <1>4, ScheduleTypes DEF DestroyTunnel
  <2> QED BY <1>4, <2>1 DEF DestroyTunnel, TypeOK, NoCalls, NoTunnel, ghost
<1>5. ASSUME CloseTunnel PROVE TypeOK'
  <2>1. CASE tun.closing /\ DestroyTunnel
    BY <1>4, <2>1
  <2>2. CASE ~tun.closing /\ ~(tun.closing /\ DestroyTunnel)
    <3>1. ScheduleRedial(Live # {})
      BY <1>5, <2>2 DEF CloseTunnel
    <3>2. events' \in Nat /\ rsched' \in -1..events'
      BY <3>1, ScheduleTypes
    <3>3. tun \in Tunnels
      BY DEF TypeOK, Tunnels
    <3>4. tun' = [tun EXCEPT !.closing = TRUE] /\ calls' = NoCalls
          /\ lacc' = (IF Live # {} THEN None ELSE lacc)
      BY <1>5, <2>2 DEF CloseTunnel
    <3>5. lacc' \in CallIds \cup {None}
      BY <3>4 DEF TypeOK
    <3>6. tun' \in Tunnels /\ calls' \in [CallIds -> CallStates]
      BY <3>3, <3>4, TunnelValues
    <3> QED BY <1>5, <2>2, <3>2, <3>5, <3>6 DEF CloseTunnel, TypeOK, Tunnels, CallStates, ghost
  <2> QED BY <1>5, <2>1, <2>2 DEF CloseTunnel
<1>6. CASE RecvSccrp
  <2>1. [tun EXCEPT !.state = "SCCCN"] \in Tunnels /\ active \in BOOLEAN
        /\ rtries \in 0..(RMax + 1)
    BY DEF TypeOK, Tunnels
  <2>2. MagicLacDial(active, rtries, rsched, [tun EXCEPT !.state = "SCCCN"])
    BY <1>6 DEF RecvSccrp
  <2>3. /\ rtries' \in 0..(RMax + 1)
        /\ rsched' \in {0, rsched}
        /\ tun' \in Tunnels
        /\ calls' \in [CallIds -> CallStates]
        /\ lacc' \in CallIds \cup {None}
        /\ failed' \in BOOLEAN
    BY <2>1, <2>2, DialTypes
  <2>4. rsched' \in -1..events'
    BY <1>6, <2>3 DEF RecvSccrp, TypeOK
  <2> QED BY <1>6, <2>3, <2>4 DEF RecvSccrp, TypeOK, Tunnels, CallStates
<1>7. ASSUME NEW k \in CallIds, RecvIcrp(k) PROVE TypeOK'
  BY <1>7 DEF RecvIcrp, TypeOK, LacAssumption
<1>8. ASSUME NEW k \in CallIds, RecvCdn(k) PROVE TypeOK'
  <2>1. events' \in Nat /\ rsched' \in -1..events'
    BY <1>8, ScheduleTypes DEF RecvCdn, DestroyCall
  <2> QED BY <1>8, <2>1 DEF RecvCdn, DestroyCall, TypeOK, ghost
<1>9. ASSUME NEW k \in CallIds, PppdExit(k) PROVE TypeOK'
  BY <1>9 DEF PppdExit, TypeOK, ghost
<1>10. CASE UNCHANGED vars
  BY <1>10 DEF vars, ghost, TypeOK
<1> QED
  BY <1>1, <1>2, <1>3, <1>4, <1>5, <1>6, <1>7, <1>8, <1>9, <1>10
     DEF Next, DisconnectTid, RecvStopCCN, GiveUp

LEMMA InitTypes == ASSUME LacAssumption, Init PROVE TypeOK
<1>1. tun \in Tunnels /\ calls \in [CallIds -> CallStates]
  BY TunnelValues DEF Init
<1>2. 0 \in 0..(RMax + 1) /\ 0 \in 0..MaxConnects /\ 0 \in -1..0 /\ 0 \in Nat
  BY DEF LacAssumption
<1>3. /\ rtries \in 0..(RMax + 1) /\ redials \in 0..(RMax + 1)
      /\ connects \in 0..MaxConnects /\ events \in Nat /\ rsched \in -1..events
  BY <1>2 DEF Init
<1>4. active \in BOOLEAN /\ failed \in BOOLEAN /\ overlap \in BOOLEAN
      /\ lacc \in CallIds \cup {None}
  BY DEF Init
<1> QED BY <1>1, <1>3, <1>4 DEF TypeOK, Tunnels, CallStates

(* Every field of the lac keeps its type in every reachable state. *)
THEOREM LacTypeCorrect == ASSUME LacAssumption PROVE Spec => []TypeOK
<1>1. Init => TypeOK
  BY InitTypes
<1>2. TypeOK /\ [Next]_vars => TypeOK'
  BY TypeInductive
<1> QED BY <1>1, <1>2, PTL DEF Spec

-----------------------------------------------------------------------------
(* What the dialler does to the pointers. *)
LEMMA DialPointers ==
  ASSUME LacAssumption, TypeOK, PointerInv,
         NEW act \in BOOLEAN, NEW tries, NEW sched, NEW tn \in Tunnels,
         tn = tun \/ tn.state = "SCCCN",
         MagicLacDial(act, tries, sched, tn), active' = act,
         active => act
  PROVE  PointerInv' /\ (~act => Live' = Live)
<1>1. CASE ~act
  <2>1. calls' = calls /\ lacc' = lacc /\ tun' = tn
    BY <1>1 DEF MagicLacDial
  <2>2. Live' = Live
    BY <2>1 DEF Live
  <2>3. ~active
    BY <1>1
  <2> QED BY <1>1, <2>1, <2>2, <2>3 DEF PointerInv, NoTunnel
<1>2. CASE act
  <2>1. CASE UNCHANGED <<calls, lacc, failed>> /\ tun' = tn
    BY <1>2, <2>1 DEF PointerInv, Live, NoTunnel
  <2>2. CASE tn = NoTunnel /\ MagicLacTunnel /\ UNCHANGED <<calls, lacc>>
    BY <1>2, <2>2 DEF MagicLacTunnel, PointerInv, Live, NoTunnel, NewTunnel
  <2>3. CASE tn # NoTunnel /\ LacCall(tn) /\ UNCHANGED failed
    <3>1. PICK k \in CallIds \ Live :
            /\ calls' = [calls EXCEPT ![k] = "ICRQ"]
            /\ lacc' = k
            /\ tun' = [tn EXCEPT !.gap = tn.gap \/ tn.state = "SCCRQ"]
      BY <2>3 DEF LacCall
    <3>2. k \in Live'
      BY <3>1 DEF TypeOK, Live
    <3>3. tn.state # "none"
      BY <2>3 DEF PointerInv, NoTunnel
    <3>4. tun'.state # "none"
      BY <3>1, <3>3 DEF Tunnels
    <3> QED BY <1>2, <3>1, <3>2, <3>4 DEF PointerInv, NoTunnel
  <2> QED BY <1>2, <2>1, <2>2, <2>3 DEF MagicLacDial
<1> QED BY <1>1, <1>2

LEMMA PointerInductive ==
  ASSUME LacAssumption, TypeOK, PointerInv, [Next]_vars
  PROVE  PointerInv'
<1> USE LacAssumption
<1>0. tun \in Tunnels /\ active \in BOOLEAN
  BY DEF TypeOK, Tunnels
<1>1. CASE Fire
  BY <1>0, <1>1, DialPointers DEF Fire
<1>2. CASE Connect
  <2>1. CASE MagicLacDial(TRUE, 0, rsched, tun)
    BY <1>0, <1>2, <2>1, DialPointers DEF Connect
  <2>2. CASE lacc # None /\ UNCHANGED <<rsched, tun, calls, lacc, failed, overlap>>
    BY <1>2, <2>2 DEF Connect, PointerInv, Live
  <2> QED BY <1>2, <2>1, <2>2 DEF Connect
<1>3. CASE Disconnect
  <2>1. CASE tun = NoTunnel /\ UNCHANGED <<tun, calls, lacc>>
    BY <1>3, <2>1 DEF Disconnect, PointerInv, Live
  <2>2. CASE tun # NoTunnel
    <3>1. Live' = {} /\ lacc' = None
      BY <1>3, <2>2 DEF Disconnect, PointerInv, Live, NoCalls
    <3>2. tun.state # "none" /\ (tun' = NoTunnel \/ tun'.state = tun.state)
      BY <1>0, <1>3, <2>2 DEF Disconnect, PointerInv, Tunnels
    <3> QED BY <1>3, <3>1, <3>2 DEF PointerInv
  <2> QED BY <1>3, <2>1, <2>2 DEF Disconnect
<1>4. ASSUME DestroyTunnel PROVE PointerInv'
  BY <1>4 DEF DestroyTunnel, PointerInv, Live, NoCalls, NoTunnel
<1>5. ASSUME CloseTunnel, tun # NoTunnel PROVE PointerInv'
  <2>1. CASE tun.closing /\ DestroyTunnel
    BY <1>4, <2>1
  <2>2. CASE ~(tun.closing /\ DestroyTunnel)
    <3>1. tun' = [tun EXCEPT !.closing = TRUE] /\ calls' = NoCalls
          /\ lacc' = (IF Live # {} THEN None ELSE lacc)
      BY <1>5, <2>2 DEF CloseTunnel
    <3>2. Live' = {} /\ lacc' = None
      BY <3>1 DEF PointerInv, Live, NoCalls
    <3>3. tun.state # "none" /\ tun'.state = tun.state
      BY <1>0, <1>5, <3>1 DEF PointerInv, Tunnels
    <3> QED BY <3>2, <3>3 DEF PointerInv, NoTunnel
  <2> QED BY <2>1, <2>2
<1>6. CASE RecvSccrp
  <2>1. [tun EXCEPT !.state = "SCCCN"] \in Tunnels
        /\ [tun EXCEPT !.state = "SCCCN"].state = "SCCCN"
    BY <1>0, TunnelValues DEF Tunnels
  <2> QED BY <1>0, <1>6, <2>1, DialPointers DEF RecvSccrp
<1>7. ASSUME NEW k \in CallIds, RecvIcrp(k) PROVE PointerInv'
  <2>1. Live' = Live
    BY <1>7 DEF RecvIcrp, Live, TypeOK
  <2> QED BY <1>7, <2>1 DEF RecvIcrp, PointerInv
<1>8. ASSUME NEW k \in CallIds, RecvCdn(k) PROVE PointerInv'
  <2>1. Live' \subseteq Live
    BY <1>8 DEF RecvCdn, DestroyCall, Live, TypeOK
  <2> QED BY <1>8, <2>1 DEF RecvCdn, DestroyCall, PointerInv
<1>9. ASSUME NEW k \in CallIds, PppdExit(k) PROVE PointerInv'
  <2>1. Live' = Live
    BY <1>9 DEF PppdExit, Live, TypeOK
  <2> QED BY <1>9, <2>1 DEF PppdExit, PointerInv, ghost
<1>10. CASE UNCHANGED vars
  BY <1>10 DEF vars, PointerInv, Live
<1> QED
  BY <1>1, <1>2, <1>3, <1>4, <1>5, <1>6, <1>7, <1>8, <1>9, <1>10
     DEF Next, DisconnectTid, RecvStopCCN, GiveUp

-----------------------------------------------------------------------------
(* rsched after each of the three operations that write it. *)
LEMMA ScheduleInductive ==
  ASSUME LacAssumption, TypeOK, PointerInv, SchedulePointerLive, [Next]_vars
  PROVE  SchedulePointerLive'
<1>1. CASE Fire
  BY <1>1 DEF Fire, MagicLacDial, SchedulePointerLive
<1>2. CASE Connect
  <2>1. CASE MagicLacDial(TRUE, 0, rsched, tun)
    BY <2>1 DEF MagicLacDial, SchedulePointerLive
  <2>2. CASE lacc # None /\ UNCHANGED <<rsched, tun, calls, lacc, failed, overlap>>
    BY <2>2 DEF PointerInv, SchedulePointerLive
  <2> QED BY <1>2, <2>1, <2>2 DEF Connect
<1>3. CASE Disconnect
  BY <1>3 DEF Disconnect, SchedulePointerLive
<1>4. ASSUME NEW lost \in BOOLEAN, ScheduleRedial(lost), active' = active
      PROVE  SchedulePointerLive'
  BY <1>4 DEF ScheduleRedial, SchedulePointerLive, TypeOK
<1>5. ASSUME DestroyTunnel PROVE SchedulePointerLive'
  BY <1>4, <1>5 DEF DestroyTunnel
<1>6. ASSUME CloseTunnel PROVE SchedulePointerLive'
  BY <1>4, <1>5, <1>6 DEF CloseTunnel
<1>7. CASE RecvSccrp
  BY <1>7 DEF RecvSccrp, MagicLacDial, SchedulePointerLive
<1>8. ASSUME NEW k \in CallIds, RecvIcrp(k) \/ RecvCdn(k) \/ PppdExit(k)
      PROVE  SchedulePointerLive'
  <2>1. CASE RecvCdn(k)
    BY <1>4, <2>1 DEF RecvCdn, DestroyCall
  <2>2. CASE RecvIcrp(k) \/ PppdExit(k)
    BY <2>2 DEF RecvIcrp, PppdExit, SchedulePointerLive
  <2> QED BY <1>8, <2>1, <2>2
<1>9. CASE UNCHANGED vars
  BY <1>9 DEF vars, SchedulePointerLive
<1> QED
  BY <1>1, <1>2, <1>3, <1>5, <1>6, <1>7, <1>8, <1>9
     DEF Next, DisconnectTid, RecvStopCCN, GiveUp

(* What the dialler does when nothing else is under way. *)
LEMMA DialSingle ==
  ASSUME LacAssumption, TypeOK,
         NEW tries, NEW sched, NEW tn \in Tunnels,
         MagicLacDial(TRUE, tries, sched, tn),
         Live = {}, lacc = None, events' = 0, tn.state # "SCCRQ", ~tn.gap
  PROVE  SingleInv'
<1>1. CASE UNCHANGED <<calls, lacc, failed>> /\ tun' = tn
  <2>1. Live' = {}
    BY <1>1 DEF Live
  <2> QED BY <1>1, <2>1 DEF SingleInv
<1>2. CASE tn = NoTunnel /\ MagicLacTunnel /\ UNCHANGED <<calls, lacc>>
  <2>1. Live' = {}
    BY <1>2 DEF Live
  <2>2. ~tun'.gap
    BY <1>2 DEF MagicLacTunnel, NewTunnel
  <2> QED BY <1>2, <2>1, <2>2 DEF SingleInv
<1>3. CASE LacCall(tn)
  <2>1. PICK k \in CallIds \ Live :
          /\ calls' = [calls EXCEPT ![k] = "ICRQ"]
          /\ lacc' = k
          /\ tun' = [tn EXCEPT !.gap = tn.gap \/ tn.state = "SCCRQ"]
    BY <1>3 DEF LacCall
  <2>2. Live' = {k}
    BY <2>1 DEF Live, TypeOK
  <2>3. tun'.state = tn.state /\ ~tun'.gap
    BY <2>1 DEF Tunnels
  <2>4. lacc' # None
    BY <2>1 DEF LacAssumption
  <2> QED BY <2>2, <2>3, <2>4 DEF SingleInv
<1> QED BY <1>1, <1>2, <1>3 DEF MagicLacDial

(* One redial is scheduled at most, and only if none is pending. *)
LEMMA ScheduleSingle ==
  ASSUME TypeOK, SchedulePointerLive, ~overlap, SingleInv,
         NEW lost \in BOOLEAN, ScheduleRedial(lost), active' = active
  PROVE  events' <= 1 /\ (events' = 1 /\ active' => rsched' = 1)
BY DEF TypeOK, SchedulePointerLive, SingleInv, ScheduleRedial

LEMMA SingleInductive ==
  ASSUME LacAssumption, TypeOK, PointerInv, SchedulePointerLive, SingleInv, [Next]_vars
  PROVE  SingleInv'
<1> SUFFICES ASSUME ~overlap, ~overlap' PROVE SingleInv'
  <2>1. overlap => overlap'
    BY DEF Next, vars, ghost, Fire, Connect, Disconnect, DisconnectTid, RecvSccrp,
           RecvStopCCN, GiveUp, CloseTunnel, DestroyTunnel, RecvIcrp, RecvCdn,
           DestroyCall, PppdExit
  <2> QED BY <2>1 DEF SingleInv
<1>0. tun \in Tunnels /\ active \in BOOLEAN /\ events \in Nat /\ ~tun.gap
  BY DEF TypeOK, Tunnels, SingleInv
<1>1. CASE Fire
  <2>1. events = 1 /\ events' = 0 /\ Live = {} /\ tun.state # "SCCRQ"
    BY <1>0, <1>1 DEF Fire, SingleInv
  <2>2. lacc = None
    BY <2>1 DEF PointerInv
  <2>3. CASE active
    BY <1>0, <1>1, <2>1, <2>2, <2>3, DialSingle DEF Fire
  <2>4. CASE ~active
    <3>1. UNCHANGED <<tun, calls, lacc>>
      BY <1>1, <2>4 DEF Fire, MagicLacDial
    <3>2. Live' = {}
      BY <2>1, <3>1 DEF Live
    <3> QED BY <1>0, <2>1, <3>1, <3>2 DEF SingleInv
  <2> QED BY <2>3, <2>4
<1>2. CASE Connect
  <2>1. CASE MagicLacDial(TRUE, 0, rsched, tun)
             /\ overlap' = (overlap \/ events > 0 \/ tun # NoTunnel)
    <3>0. ~(events > 0) /\ tun = NoTunnel /\ events' = events
      BY <1>2, <2>1 DEF Connect
    <3>1. events = 0 /\ events' = 0 /\ tun = NoTunnel
      BY <1>0, <3>0
    <3>2. Live = {} /\ lacc = None /\ tun.state # "SCCRQ"
      BY <3>1 DEF PointerInv, NoTunnel
    <3> QED BY <1>0, <2>1, <3>1, <3>2, DialSingle
  <2>2. CASE lacc # None /\ UNCHANGED <<rsched, tun, calls, lacc, failed, overlap>>
    <3>1. Live # {} /\ Live' = Live
      BY <2>2 DEF PointerInv, Live
    <3> QED BY <1>2, <2>2, <3>1 DEF Connect, SingleInv
  <2> QED BY <1>2, <2>1, <2>2 DEF Connect
<1>3. CASE Disconnect
  <2>1. CASE tun = NoTunnel /\ UNCHANGED <<tun, calls, lacc>>
    BY <1>3, <2>1 DEF Disconnect, SingleInv, Live
  <2>2. CASE tun # NoTunnel
    <3>1. Live' = {}
      BY <1>3, <2>2 DEF Disconnect, Live, NoCalls
    <3>2. tun' = NoTunnel \/ tun' = [tun EXCEPT !.closing = TRUE]
      BY <1>3, <2>2 DEF Disconnect
    <3>3. ~tun'.gap /\ (tun'.state = "SCCRQ" => tun.state = "SCCRQ")
      BY <1>0, <3>2 DEF Tunnels, NoTunnel
    <3> QED BY <1>3, <3>1, <3>3 DEF Disconnect, SingleInv
  <2> QED BY <1>3, <2>1, <2>2 DEF Disconnect
<1>4. ASSUME DestroyTunnel PROVE SingleInv'
  <2>1. events' <= 1 /\ (events' = 1 /\ active' => rsched' = 1)
    BY <1>4, ScheduleSingle DEF DestroyTunnel
  <2>2. Live' = {} /\ tun'.state # "SCCRQ" /\ ~tun'.gap
    BY <1>4 DEF DestroyTunnel, Live, NoCalls, NoTunnel
  <2> QED BY <2>1, <2>2 DEF SingleInv
<1>5. ASSUME CloseTunnel PROVE SingleInv'
  <2>1. CASE tun.closing /\ DestroyTunnel
    BY <1>4, <2>1
  <2>2. CASE ~(tun.closing /\ DestroyTunnel)
    <3>1. /\ tun' = [tun EXCEPT !.closing = TRUE] /\ calls' = NoCalls
          /\ ScheduleRedial(Live # {}) /\ active' = active
      BY <1>5, <2>2 DEF CloseTunnel
    <3>2. events' <= 1 /\ (events' = 1 /\ active' => rsched' = 1)
      BY <3>1, ScheduleSingle
    <3>3. Live' = {} /\ tun'.state = tun.state /\ ~tun'.gap
      BY <1>0, <3>1 DEF Live, NoCalls, Tunnels
    <3>4. tun.state = "SCCRQ" => events' = 0
      BY <3>1 DEF SingleInv, ScheduleRedial
    <3> QED BY <3>2, <3>3, <3>4 DEF SingleInv
  <2> QED BY <2>1, <2>2
<1>6. CASE RecvSccrp
  <2> DEFINE tn == [tun EXCEPT !.state = "SCCCN"]
  <2>1. tn \in Tunnels /\ tn.state = "SCCCN" /\ ~tn.gap
    BY <1>0, TunnelValues DEF Tunnels
  <2>2. events' = 0 /\ Live = {} /\ lacc = None /\ active' = active
    BY <1>6 DEF RecvSccrp, SingleInv, PointerInv
  <2>3. MagicLacDial(active, rtries, rsched, tn)
    BY <1>6 DEF RecvSccrp
  <2> HIDE DEF tn
  <2>4. CASE active
    BY <2>1, <2>2, <2>3, <2>4, DialSingle
  <2>5. CASE ~active
    <3>1. tun' = tn /\ UNCHANGED <<calls, lacc>>
      BY <2>3, <2>5 DEF MagicLacDial
    <3>2. Live' = {}
      BY <2>2, <3>1 DEF Live
    <3> QED BY <2>1, <2>2, <3>1, <3>2 DEF SingleInv
  <2> QED BY <1>0, <2>4, <2>5
<1>7. ASSUME NEW k \in CallIds, RecvIcrp(k) PROVE SingleInv'
  <2>1. Live' = Live
    BY <1>7 DEF RecvIcrp, Live, TypeOK
  <2> QED BY <1>7, <2>1 DEF RecvIcrp, SingleInv
<1>8. ASSUME NEW k \in CallIds, RecvCdn(k) PROVE SingleInv'
  <2>1. events' <= 1 /\ (events' = 1 /\ active' => rsched' = 1)
    BY <1>8, ScheduleSingle DEF RecvCdn, DestroyCall
  <2>2. k \in Live /\ Live' = Live \ {k}
    BY <1>8 DEF RecvCdn, Answered, DestroyCall, Live, TypeOK
  <2>3. Live' = {}
    BY <2>2 DEF SingleInv
  <2>4. tun' = tun /\ tun.state = "SCCCN"
    BY <1>8 DEF RecvCdn, Answered, DestroyCall
  <2> QED BY <1>0, <2>1, <2>3, <2>4 DEF SingleInv
<1>9. ASSUME NEW k \in CallIds, PppdExit(k) PROVE SingleInv'
  <2>1. Live' = Live
    BY <1>9 DEF PppdExit, Live, TypeOK
  <2> QED BY <1>9, <2>1 DEF PppdExit, SingleInv, ghost
<1>10. CASE UNCHANGED vars
  BY <1>10 DEF vars, SingleInv, Live, ghost
<1> QED
  BY <1>1, <1>2, <1>3, <1>4, <1>5, <1>6, <1>7, <1>8, <1>9, <1>10
     DEF Next, DisconnectTid, RecvStopCCN, GiveUp

-----------------------------------------------------------------------------
(* After the dialler ran, something is under way or the tries are used up. *)
LEMMA DialIdle ==
  ASSUME TypeOK, NEW tries \in 0..(RMax + 1), NEW sched, NEW tn \in Tunnels,
         MagicLacDial(TRUE, tries, sched, tn)
  PROVE  IdleOnlyWhenExhausted'
<1>1. CASE Exceeded(Saturated(tries)) /\ rtries' = Saturated(tries)
  BY <1>1 DEF Exceeded, IdleOnlyWhenExhausted
<1>2. CASE MagicLacTunnel
  BY <1>2 DEF MagicLacTunnel, NewTunnel, IdleOnlyWhenExhausted, Idle
<1>3. CASE LacCall(tn)
  <2>1. PICK k \in CallIds \ Live : calls' = [calls EXCEPT ![k] = "ICRQ"]
    BY <1>3 DEF LacCall
  <2>2. k \in Live'
    BY <2>1 DEF Live, TypeOK
  <2> QED BY <2>2 DEF IdleOnlyWhenExhausted, Idle
<1> QED BY <1>1, <1>2, <1>3 DEF MagicLacDial

(* After a loss, a redial is pending. *)
LEMMA ScheduleIdle ==
  ASSUME TypeOK, SchedulePointerLive, ScheduleRedial(TRUE), active' = active
  PROVE  IdleOnlyWhenExhausted'
BY DEF TypeOK, SchedulePointerLive, ScheduleRedial, IdleOnlyWhenExhausted, Idle

LEMMA IdleInductive ==
  ASSUME LacAssumption, TypeOK, PointerInv, SchedulePointerLive,
         IdleOnlyWhenExhausted, [Next]_vars
  PROVE  IdleOnlyWhenExhausted'
<1>0. /\ tun \in Tunnels /\ active \in BOOLEAN /\ rtries \in 0..(RMax + 1)
      /\ 0 \in 0..(RMax + 1) /\ [tun EXCEPT !.state = "SCCCN"] \in Tunnels
  BY TunnelValues DEF TypeOK, Tunnels, LacAssumption
<1>1. CASE Fire
  <2>1. CASE active
    BY <1>0, <1>1, <2>1, DialIdle DEF Fire
  <2>2. CASE ~active
    BY <1>1, <2>2 DEF Fire, IdleOnlyWhenExhausted
  <2> QED BY <1>0, <2>1, <2>2
<1>2. CASE Connect
  <2>1. CASE MagicLacDial(TRUE, 0, rsched, tun)
    BY <1>0, <2>1, DialIdle
  <2>2. CASE lacc # None /\ UNCHANGED <<rsched, tun, calls, lacc, failed, overlap>>
    <3>1. Live' # {}
      BY <2>2 DEF PointerInv, Live
    <3> QED BY <3>1 DEF IdleOnlyWhenExhausted, Idle
  <2> QED BY <1>2, <2>1, <2>2 DEF Connect
<1>3. CASE Disconnect
  BY <1>3 DEF Disconnect, IdleOnlyWhenExhausted
<1>4. ASSUME DestroyTunnel PROVE IdleOnlyWhenExhausted'
  BY <1>4, ScheduleIdle DEF DestroyTunnel
<1>5. ASSUME CloseTunnel PROVE IdleOnlyWhenExhausted'
  <2>1. CASE DestroyTunnel
    BY <1>4, <2>1
  <2>2. CASE ~DestroyTunnel
    <3>1. tun'.closing
      BY <1>0, <1>5, <2>2 DEF CloseTunnel, Tunnels
    <3> QED BY <3>1 DEF IdleOnlyWhenExhausted, Idle
  <2> QED BY <2>1, <2>2
<1>6. CASE RecvSccrp
  <2>1. CASE active
    BY <1>0, <1>6, <2>1, DialIdle DEF RecvSccrp
  <2>2. CASE ~active
    BY <1>6, <2>2 DEF RecvSccrp, IdleOnlyWhenExhausted
  <2> QED BY <1>0, <2>1, <2>2
<1>7. ASSUME NEW k \in CallIds, RecvIcrp(k) PROVE IdleOnlyWhenExhausted'
  <2>1. Live' # {}
    BY <1>7 DEF RecvIcrp, Live, TypeOK
  <2> QED BY <2>1 DEF IdleOnlyWhenExhausted, Idle
<1>8. ASSUME NEW k \in CallIds, RecvCdn(k) PROVE IdleOnlyWhenExhausted'
  BY <1>8, ScheduleIdle DEF RecvCdn, DestroyCall
<1>9. ASSUME NEW k \in CallIds, PppdExit(k) PROVE IdleOnlyWhenExhausted'
  <2>1. Live' # {}
    BY <1>9 DEF PppdExit, Live, TypeOK
  <2> QED BY <2>1 DEF IdleOnlyWhenExhausted, Idle
<1>10. CASE UNCHANGED vars
  BY <1>10 DEF vars, ghost, IdleOnlyWhenExhausted, Idle, Live
<1> QED
  BY <1>1, <1>2, <1>3, <1>4, <1>5, <1>6, <1>7, <1>8, <1>9, <1>10
     DEF Next, DisconnectTid, RecvStopCCN, GiveUp

-----------------------------------------------------------------------------
LEMMA InvInductive == ASSUME LacAssumption PROVE Spec => []IInv
<1>1. Init => IInv
  <2>1. ASSUME Init PROVE IInv
    <3>1. TypeOK
      BY <2>1, InitTypes
    <3>2. Live = {} /\ tun = NoTunnel /\ lacc = None /\ events = 0 /\ ~active
      BY <2>1 DEF Init, Live, NoCalls
    <3>3. tun.state = "none" /\ ~tun.gap
      BY <3>2 DEF NoTunnel
    <3> QED BY <3>1, <3>2, <3>3
            DEF IInv, PointerInv, SchedulePointerLive, SingleInv, IdleOnlyWhenExhausted
  <2> QED BY <2>1
<1>2. IInv /\ [Next]_vars => IInv'
  BY TypeInductive, PointerInductive, ScheduleInductive, SingleInductive, IdleInductive
     DEF IInv
<1> QED BY <1>1, <1>2, PTL DEF Spec

(* lac->c points to a call of the lac or is NULL, in every state, whatever *)
(* the order in which calls overwrite and clear it (call.c, xl2tpd.c); and *)
(* the guard !lac->rsched of destroy_call and destroy_tunnel never refuses *)
(* a redial because of an event that has already fired.                    *)
THEOREM PointersSound == ASSUME LacAssumption PROVE Spec => []PointersLive
<1>1. IInv => PointersLive
  BY DEF IInv, PointerInv, CallPointerLive, PointersLive
<1> QED BY <1>1, InvInductive, PTL

(* Without a command in between, the dial of SCCRP, the redial events and  *)
(* the losses of calls and tunnels never give a lac two calls or two       *)
(* pending redials.                                                        *)
THEOREM OneDialOnly == ASSUME LacAssumption PROVE Spec => []OneDialAtATime
<1>1. IInv => OneDialAtATime
  BY DEF IInv, SingleInv, OneDialAtATime
<1> QED BY <1>1, InvInductive, PTL

-----------------------------------------------------------------------------
(* Every redial is also a try, so the limit on the tries bounds redials.   *)
LimitInv == redials <= rtries /\ AtMostMaxRedials

LEMMA LimitInductive ==
  ASSUME LacAssumption, TypeOK, LimitInv, [Next]_vars
  PROVE  LimitInv'
<1>0. redials \in Nat /\ rtries \in Nat /\ RMax \in Nat
      /\ redials <= RMax + 1 /\ rtries <= RMax + 1
  BY DEF TypeOK, LacAssumption
<1>1. CASE Fire
  <2>1. CASE ~active
    <3>1. rtries' = rtries /\ redials' = redials
      BY <1>1, <2>1 DEF Fire, MagicLacDial
    <3> QED BY <3>1 DEF LimitInv, AtMostMaxRedials
  <2>2. CASE active /\ ~Exceeded(Saturated(rtries))
    <3>1. rtries' = Saturated(rtries) /\ redials' = Saturated(redials)
      BY <1>1, <2>2 DEF Fire, MagicLacDial
    <3> QED BY <1>0, <2>2, <3>1 DEF Saturated, Exceeded, LimitInv, AtMostMaxRedials
  <2>3. CASE active /\ Exceeded(Saturated(rtries))
    <3>1. rtries' = Saturated(rtries) /\ redials' = redials
      BY <1>1, <2>3 DEF Fire, MagicLacDial
    <3> QED BY <1>0, <3>1 DEF Saturated, LimitInv, AtMostMaxRedials
  <2> QED BY <2>1, <2>2, <2>3 DEF TypeOK
<1>2. CASE Connect
  <2>1. redials' = 0 /\ (rtries' = 0 \/ rtries' = Saturated(0))
    BY <1>2 DEF Connect, MagicLacDial
  <2> QED BY <1>0, <2>1 DEF Saturated, LimitInv, AtMostMaxRedials
<1>3. CASE Disconnect
  <2>1. redials' = 0 /\ rtries' = 0
    BY <1>3 DEF Disconnect
  <2> QED BY <1>0, <2>1 DEF LimitInv, AtMostMaxRedials
<1>4. CASE RecvSccrp
  <2>1. redials' = redials /\ (rtries' = rtries \/ rtries' = Saturated(rtries))
    BY <1>4 DEF RecvSccrp, MagicLacDial
  <2> QED BY <1>0, <2>1 DEF Saturated, LimitInv, AtMostMaxRedials
<1>5. ASSUME NEW k \in CallIds, RecvIcrp(k) PROVE LimitInv'
  <2>1. redials' = 0 /\ rtries' = 0
    BY <1>5 DEF RecvIcrp
  <2> QED BY <1>0, <2>1 DEF LimitInv, AtMostMaxRedials
<1>6. ASSUME UNCHANGED <<rtries, redials>> PROVE LimitInv'
  BY <1>6 DEF LimitInv, AtMostMaxRedials
<1>7. DestroyTunnel \/ CloseTunnel => UNCHANGED <<rtries, redials>>
  BY DEF CloseTunnel, DestroyTunnel, ghost
<1>8. ASSUME NEW k \in CallIds, RecvCdn(k) \/ PppdExit(k)
      PROVE  UNCHANGED <<rtries, redials>>
  BY <1>8 DEF RecvCdn, DestroyCall, PppdExit, ghost
<1>9. CASE UNCHANGED vars
  BY <1>6, <1>9 DEF vars, ghost
<1> QED
  BY <1>1, <1>2, <1>3, <1>4, <1>5, <1>6, <1>7, <1>8, <1>9
     DEF Next, DisconnectTid, RecvStopCCN, GiveUp

(* An active lac with redial that is idle has used up its tries or has met *)
(* a lookup failure: no order of losses and commands loses the redial; and *)
(* between two established calls or commands the scheduler dials at most   *)
(* rmax times.                                                             *)
THEOREM RedialsExact == ASSUME LacAssumption PROVE Spec => []RedialsUntilLimit
<1>1. ASSUME Init PROVE LimitInv
  BY <1>1 DEF Init, LimitInv, AtMostMaxRedials, LacAssumption
<1>2. IInv /\ LimitInv /\ [Next]_vars => LimitInv'
  BY LimitInductive DEF IInv
<1>3. IInv /\ LimitInv => RedialsUntilLimit
  BY DEF IInv, LimitInv, RedialsUntilLimit
<1> QED BY <1>1, <1>2, <1>3, InvInductive, PTL DEF Spec

(* A step of a disconnected lac that leaves it disconnected makes no call  *)
(* and no tunnel, whatever event or message causes it.                     *)
THEOREM DisconnectedIsQuiet == ASSUME LacAssumption PROVE Spec => QuietWhenDisconnected
<1>1. ASSUME IInv, IInv', [Next]_vars, ~active, ~active'
      PROVE  /\ \A k \in CallIds : calls[k] = "free" => calls'[k] = "free"
             /\ tun = NoTunnel => tun' = NoTunnel
  <2>1. Live' = {}
    BY <1>1 DEF IInv, PointerInv
  <2>2. \A k \in CallIds : calls'[k] = "free"
    BY <2>1 DEF Live
  <2>3. ASSUME tun = NoTunnel PROVE tun' = NoTunnel
    <3>1. tun.state # "SCCRQ"
      BY <2>3 DEF NoTunnel
    <3>2. \A k \in CallIds : k \notin Live /\ calls[k] = "free"
      BY <1>1, <2>3 DEF IInv, PointerInv, Live
    <3>3. CASE Fire
      BY <1>1, <2>3, <3>3 DEF Fire, MagicLacDial
    <3>4. CASE Disconnect
      BY <2>3, <3>4 DEF Disconnect
    <3>5. ~Connect /\ ~RecvSccrp /\ ~DisconnectTid /\ ~RecvStopCCN /\ ~GiveUp
      BY <1>1, <2>3, <3>1 DEF Connect, RecvSccrp, DisconnectTid, RecvStopCCN, GiveUp
    <3>6. \A k \in CallIds : ~RecvIcrp(k) /\ ~RecvCdn(k) /\ ~PppdExit(k)
      BY <3>2 DEF RecvIcrp, RecvCdn, PppdExit, Answered
    <3>7. CASE UNCHANGED vars
      BY <2>3, <3>7 DEF vars
    <3> QED BY <1>1, <3>3, <3>4, <3>5, <3>6, <3>7 DEF Next
  <2> QED BY <2>2, <2>3
<1>2. IInv /\ IInv' /\ [Next]_vars =>
        [~active /\ ~active' =>
           /\ \A k \in CallIds : calls[k] = "free" => calls'[k] = "free"
           /\ tun = NoTunnel => tun' = NoTunnel]_vars
  BY <1>1
<1> QED BY <1>2, InvInductive, PTL DEF Spec, QuietWhenDisconnected

=============================================================================
