------------------------------- MODULE LacDial -------------------------------
(***************************************************************************)
(* How one "lac" section of xl2tpd dials, redials and gives up: the        *)
(* struct lac with the one tunnel and the calls it points to, the redial   *)
(* events it leaves on the scheduler, the commands of the control fifo,    *)
(* and what the LNS, pppd and the resolver do to it.  The control channel  *)
(* is ControlChannel.tla's: here a message of the LNS is one step, and a   *)
(* tunnel whose messages are no longer acknowledged is given up.           *)
(***************************************************************************)
EXTENDS Integers

CONSTANTS
  Redial,      \* lac->redial && lac->rtimeout > 0
  RMax,        \* lac->rmax, 0 for no limit
  CallIds,     \* bound: the calls that can exist at once
  None,        \* a NULL lac->c
  MaxConnects  \* bound: connect commands (autodial is one of them)

ASSUME LacAssumption ==
  /\ Redial \in BOOLEAN
  /\ RMax \in Nat
  /\ None \notin CallIds
  /\ MaxConnects \in Nat

VARIABLES
  active,    \* lac->active
  rtries,    \* lac->rtries, saturating one above RMax
  rsched,    \* lac->rsched: the place in the queue of the event it points to
             \* (0: NULL, -1: an event that has fired)
  events,    \* the pending magic_lac_dial events of this lac, oldest first;
             \* they all have the same delay, so their number is enough
  tun,       \* the tunnel lac->t points to, NoTunnel for NULL
  calls,     \* the calls whose c->lac is this lac
  lacc,      \* lac->c
  connects,  \* bound on the commands
  failed,    \* history: has a host name lookup failed?
  overlap,   \* history: did a command dial while a tunnel or an event existed?
  redials    \* history: redial events that dialled since the last command or
             \* established call, saturating at RMax + 1

ghost == <<connects, failed, overlap, redials>>
vars  == <<active, rtries, rsched, events, tun, calls, lacc, ghost>>

(* gap: an ICRQ went out before the peer's tunnel id was known, so the LNS *)
(* never accepts it nor anything after it.                                 *)
NoTunnel  == [state |-> "none",  closing |-> FALSE, gap |-> FALSE]
NewTunnel == [state |-> "SCCRQ", closing |-> FALSE, gap |-> FALSE]
NoCalls   == [k \in CallIds |-> "free"]

Live == {k \in CallIds : calls[k] # "free"}

Init ==
  /\ active = FALSE /\ rtries = 0 /\ rsched = 0 /\ events = 0
  /\ tun = NoTunnel /\ calls = NoCalls /\ lacc = None
  /\ connects = 0 /\ failed = FALSE /\ overlap = FALSE /\ redials = 0

Saturated(n) == IF n <= RMax THEN n + 1 ELSE n

-----------------------------------------------------------------------------
(* Mutant: the limit is never reached. *)
ExceededNever(tries) == FALSE

Exceeded(tries) == RMax > 0 /\ tries > RMax

(* l2tp_call: SCCRQ to the LNS, unless its name does not resolve; nothing *)
(* is scheduled then.                                                     *)
MagicLacTunnel ==
  \/ /\ tun' = NewTunnel
     /\ UNCHANGED failed
  \/ /\ tun' = NoTunnel
     /\ failed' = TRUE

(* A new call on the tunnel, whatever the tunnel's state. *)
LacCall(tn) ==
  \E k \in CallIds \ Live :
    /\ calls' = [calls EXCEPT ![k] = "ICRQ"]
    /\ lacc' = k
    /\ tun' = [tn EXCEPT !.gap = tn.gap \/ tn.state = "SCCRQ"]

(* Mutant: a disconnected lac is dialled all the same. *)
MagicLacDialInactive(act, tries, sched, tn) ==
  /\ rsched' = 0
  /\ rtries' = Saturated(tries)
  /\ \/ /\ Exceeded(Saturated(tries))
        /\ tun' = tn
        /\ UNCHANGED <<calls, lacc, failed>>
     \/ /\ ~Exceeded(Saturated(tries)) /\ tn = NoTunnel
        /\ MagicLacTunnel
        /\ UNCHANGED <<calls, lacc>>
     \/ /\ ~Exceeded(Saturated(tries)) /\ tn # NoTunnel
        /\ LacCall(tn)
        /\ UNCHANGED failed

(* Mutant: rsched keeps pointing to the event that has fired. *)
MagicLacDialKeepsSched(act, tries, sched, tn) ==
  \/ /\ ~act
     /\ rsched' = sched /\ rtries' = tries /\ tun' = tn
     /\ UNCHANGED <<calls, lacc, failed>>
  \/ /\ act
     /\ rsched' = sched
     /\ rtries' = Saturated(tries)
     /\ \/ /\ Exceeded(Saturated(tries))
           /\ tun' = tn
           /\ UNCHANGED <<calls, lacc, failed>>
        \/ /\ ~Exceeded(Saturated(tries)) /\ tn = NoTunnel
           /\ MagicLacTunnel
           /\ UNCHANGED <<calls, lacc>>
        \/ /\ ~Exceeded(Saturated(tries)) /\ tn # NoTunnel
           /\ LacCall(tn)
           /\ UNCHANGED failed

(* The dialler, run by a command, by a redial event and by SCCRP: count a  *)
(* try, then bring the tunnel up or, if there is one, place a call on it.  *)
(* act, tries, sched and tn are what the caller has made of the fields.    *)
MagicLacDial(act, tries, sched, tn) ==
  \/ /\ ~act
     /\ rsched' = sched /\ rtries' = tries /\ tun' = tn
     /\ UNCHANGED <<calls, lacc, failed>>
  \/ /\ act
     /\ rsched' = 0
     /\ rtries' = Saturated(tries)
     /\ \/ /\ Exceeded(Saturated(tries))
           /\ tun' = tn
           /\ UNCHANGED <<calls, lacc, failed>>
        \/ /\ ~Exceeded(Saturated(tries)) /\ tn = NoTunnel
           /\ MagicLacTunnel
           /\ UNCHANGED <<calls, lacc>>
        \/ /\ ~Exceeded(Saturated(tries)) /\ tn # NoTunnel
           /\ LacCall(tn)
           /\ UNCHANGED failed

(* Mutant: the event is taken off the queue before and after it runs. *)
FireTwice ==
  /\ events > 0
  /\ events' = events - 2
  /\ MagicLacDial(active, rtries,
       IF rsched = 1 THEN -1 ELSE IF rsched > 1 THEN rsched - 1 ELSE rsched, tun)
  /\ redials' = IF active /\ ~Exceeded(Saturated(rtries))
                  THEN Saturated(redials) ELSE redials
  /\ UNCHANGED <<active, connects, overlap>>

(* A redial event: process_schedule takes it off the queue and calls the   *)
(* dialler; an inactive lac leaves rsched pointing to the freed event.     *)
Fire ==
  /\ events > 0
  /\ events' = events - 1
  /\ MagicLacDial(active, rtries,
       IF rsched = 1 THEN -1 ELSE IF rsched > 1 THEN rsched - 1 ELSE rsched, tun)
  /\ redials' = IF active /\ ~Exceeded(Saturated(rtries))
                  THEN Saturated(redials) ELSE redials
  /\ UNCHANGED <<active, connects, overlap>>

(* "connect" on the control fifo, and autodial at start-up. *)
Connect ==
  /\ connects < MaxConnects
  /\ connects' = connects + 1
  /\ active' = TRUE
  /\ redials' = 0
  /\ \/ /\ lacc = None
        /\ MagicLacDial(TRUE, 0, rsched, tun)
        /\ overlap' = (overlap \/ events > 0 \/ tun # NoTunnel)
     \/ /\ lacc # None
        /\ rtries' = 0
        /\ UNCHANGED <<rsched, tun, calls, lacc, failed, overlap>>
  /\ UNCHANGED events

-----------------------------------------------------------------------------
(* Mutant: the redial does not look for one already scheduled. *)
ScheduleRedialAgain(lost) ==
  IF lost /\ Redial /\ active
    THEN events' = events + 1 /\ rsched' = events + 1
    ELSE UNCHANGED <<events, rsched>>

(* What destroy_call and destroy_tunnel do to the lac once it lost one. *)
ScheduleRedial(lost) ==
  IF lost /\ Redial /\ rsched = 0 /\ active
    THEN events' = events + 1 /\ rsched' = events + 1
    ELSE UNCHANGED <<events, rsched>>

(* Mutant: destroy_call leaves lac->c alone. *)
DestroyCallKeepsPointer(k) ==
  /\ calls' = [calls EXCEPT ![k] = "free"]
  /\ UNCHANGED lacc
  /\ ScheduleRedial(TRUE)
  /\ UNCHANGED <<active, rtries, tun, ghost>>

(* lac->c is cleared whichever call of the lac goes. *)
DestroyCall(k) ==
  /\ calls' = [calls EXCEPT ![k] = "free"]
  /\ lacc' = None
  /\ ScheduleRedial(TRUE)
  /\ UNCHANGED <<active, rtries, tun, ghost>>

(* Mutant: the redial is left to the calls, and there may be none. *)
DestroyTunnelQuiet ==
  /\ tun' = NoTunnel /\ calls' = NoCalls /\ lacc' = None
  /\ ScheduleRedial(Live # {})
  /\ UNCHANGED <<active, rtries, ghost>>

DestroyTunnel ==
  /\ tun' = NoTunnel /\ calls' = NoCalls /\ lacc' = None
  /\ ScheduleRedial(TRUE)
  /\ UNCHANGED <<active, rtries, ghost>>

(* The LNS accepts the tunnel (even one being closed): SCCCN goes out and  *)
(* the dialler is run again to place the call.                             *)
RecvSccrp ==
  /\ tun.state = "SCCRQ"
  /\ MagicLacDial(active, rtries, rsched, [tun EXCEPT !.state = "SCCCN"])
  /\ UNCHANGED <<active, events, connects, overlap, redials>>

Answered(k) == tun.state = "SCCCN" /\ ~tun.closing /\ ~tun.gap /\ k \in Live

(* The LNS accepts the call: ICCN goes out and pppd is started. *)
RecvIcrp(k) ==
  /\ Answered(k) /\ calls[k] = "ICRQ"
  /\ calls' = [calls EXCEPT ![k] = "ICCN"]
  /\ rtries' = 0 /\ redials' = 0
  /\ UNCHANGED <<active, rsched, events, tun, lacc, connects, failed, overlap>>

(* The LNS ends the call, or acknowledges that we ended it. *)
RecvCdn(k) == Answered(k) /\ DestroyCall(k)

(* pppd is gone: CDN goes out, the call waits for its acknowledgement. *)
PppdExit(k) ==
  /\ calls[k] = "ICCN"
  /\ calls' = [calls EXCEPT ![k] = "closing"]
  /\ UNCHANGED <<active, rtries, rsched, events, tun, lacc, ghost>>

(* The LNS ends the tunnel. *)
RecvStopCCN == tun # NoTunnel /\ DestroyTunnel

(* call_close on the tunnel: StopCCN goes out, every call is destroyed at *)
(* once; on a tunnel already closing it destroys the tunnel.              *)
CloseTunnel ==
  \/ tun.closing /\ DestroyTunnel
  \/ /\ ~tun.closing
     /\ tun' = [tun EXCEPT !.closing = TRUE]
     /\ calls' = NoCalls
     /\ lacc' = IF Live # {} THEN None ELSE lacc
     /\ ScheduleRedial(Live # {})
     /\ UNCHANGED <<active, rtries, ghost>>

(* Out of retransmissions (of StopCCN too), or StopCCN is acknowledged. *)
GiveUp == tun # NoTunnel /\ CloseTunnel

(* "disconnect" naming the tunnel by its number. *)
DisconnectTid == tun # NoTunnel /\ CloseTunnel

(* "disconnect" naming the lac. *)
Disconnect ==
  /\ active' = FALSE
  /\ rtries' = 0
  /\ \/ tun = NoTunnel /\ UNCHANGED <<tun, calls, lacc>>
     \/ /\ tun # NoTunnel
        /\ tun' = IF tun.closing THEN NoTunnel ELSE [tun EXCEPT !.closing = TRUE]
        /\ calls' = NoCalls
        /\ lacc' = IF tun.closing \/ Live # {} THEN None ELSE lacc
  /\ redials' = 0
  /\ UNCHANGED <<rsched, events, connects, failed, overlap>>

Next ==
  \/ Fire \/ Connect \/ Disconnect \/ DisconnectTid
  \/ RecvSccrp \/ RecvStopCCN \/ GiveUp
  \/ \E k \in CallIds : RecvIcrp(k) \/ RecvCdn(k) \/ PppdExit(k)

Spec == Init /\ [][Next]_vars

(* The scheduler runs a redial event that is due; the retransmissions of a *)
(* request end, with its answer or with the tunnel (ControlChannel's       *)
(* DeliveredOrClosed and ClosingEnds); an LNS that has taken an ICRQ       *)
(* answers it with ICRP or CDN, as control_finish does on that side.       *)
Fairness ==
  /\ WF_vars(Fire)
  /\ WF_vars((tun.closing \/ tun.gap) /\ GiveUp)
  /\ WF_vars(tun.state = "SCCRQ" /\ (RecvSccrp \/ RecvStopCCN \/ GiveUp))
  /\ \A k \in CallIds :
       WF_vars(/\ calls[k] \in {"ICRQ", "closing"}
               /\ RecvIcrp(k) \/ RecvCdn(k) \/ RecvStopCCN \/ GiveUp)

FairSpec == Spec /\ Fairness

-----------------------------------------------------------------------------
TypeOK ==
  /\ active \in BOOLEAN
  /\ rtries \in 0..(RMax + 1)
  /\ events \in Nat
  /\ rsched \in -1..events
  /\ tun \in [state : {"none", "SCCRQ", "SCCCN"}, closing : BOOLEAN, gap : BOOLEAN]
  /\ calls \in [CallIds -> {"free", "ICRQ", "ICCN", "closing"}]
  /\ lacc \in CallIds \cup {None}
  /\ connects \in 0..MaxConnects
  /\ failed \in BOOLEAN /\ overlap \in BOOLEAN
  /\ redials \in 0..(RMax + 1)

(* lac->c never outlives the call it points to, although a second call     *)
(* overwrites it and the end of any call clears it; calls only exist with  *)
(* their tunnel.                                                           *)
CallPointerLive ==
  /\ lacc # None => lacc \in Live
  /\ tun = NoTunnel => Live = {}

(* rsched is dangling only while the lac is disconnected, when nothing     *)
(* tests it: an active lac that has lost its call is not kept from         *)
(* scheduling a redial by an event that has long fired.                    *)
SchedulePointerLive == active => rsched # -1

(* Neither pointer of a lac is followed, or tested, after its object went.   *)
PointersLive == CallPointerLive /\ SchedulePointerLive

(* Two calls at once, or two pending redials, only after a command has     *)
(* dialled although a tunnel or a redial was there already: the lac by     *)
(* itself never races with its own redial events.                          *)
OneDialAtATime ==
  \/ overlap
  \/ events <= 1 /\ (\A j, k \in Live : j = k) /\ ~tun.gap

(* An active lac with redial is idle (no call, no handshake, no tunnel on  *)
(* its way out, no redial pending) only if it used up its tries or a host  *)
(* name did not resolve.                                                   *)
Idle == events = 0 /\ Live = {} /\ tun.state # "SCCRQ" /\ ~tun.closing

IdleOnlyWhenExhausted ==
  active /\ Redial /\ ~failed /\ Idle => RMax > 0 /\ rtries > RMax

(* With a limit, redialling stops: not more than RMax redial events dial   *)
(* between two established calls or commands.                              *)
AtMostMaxRedials == RMax > 0 => redials <= RMax

(* Redialling goes on until the limit, and not beyond it.                  *)
RedialsUntilLimit == IdleOnlyWhenExhausted /\ AtMostMaxRedials

(* "Will give up redial tries after X attempts" (xl2tpd.conf.5:234): the   *)
(* lac stops because of the limit only when RMax redials have been made.   *)
GivesUpAfterMaxRedials == RMax > 0 /\ rtries > RMax => redials >= RMax

(* "If set to yes, xl2tpd will attempt to redial if the call get           *)
(* disconnected" (xl2tpd.conf.5:223), and by default without a limit: once *)
(* it has had a call, an active lac never sits idle.                       *)
RedialsWhenDisconnected ==
  [](Redial /\ RMax = 0 /\ (\E k \in CallIds : calls[k] = "ICCN")
       => [](active => ~Idle))

(* Once disconnected, a lac stays quiet until the next connect: neither a  *)
(* redial event left behind nor a late SCCRP places a call or a tunnel.    *)
QuietWhenDisconnected ==
  [][~active /\ ~active' =>
       /\ \A k \in CallIds : calls[k] = "free" => calls'[k] = "free"
       /\ tun = NoTunnel => tun' = NoTunnel]_vars

(* With redial and names that resolve, an active lac goes on dialling for  *)
(* as long as it takes: for ever, either a call is up again and again or a *)
(* new tunnel or call is tried again and again, unless the tries are used  *)
(* up for good.                                                            *)
KeepsDialling ==
  Redial /\ <>[](active /\ ~failed) =>
    \/ []<>(\E k \in CallIds : calls[k] = "ICCN")
    \/ []<><<\/ tun = NoTunnel /\ tun' = NewTunnel
            \/ \E k \in CallIds : calls[k] = "free" /\ calls'[k] = "ICRQ">>_vars
    \/ <>[]Exceeded(rtries)

=============================================================================
