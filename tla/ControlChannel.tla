--------------------------- MODULE ControlChannel ----------------------------
(***************************************************************************)
(* The control connection of one established L2TP tunnel between two       *)
(* xl2tpd daemons: sequence numbers, acknowledgement, retransmission with  *)
(* a bounded number of retries, and the closing handshakes of the tunnel   *)
(* (StopCCN) and of its calls (CDN).                                       *)
(*                                                                         *)
(* Each daemon is one thread (network_thread): an action is one handler,   *)
(* run to completion.  The network is UDP: net only grows, a packet may be *)
(* received in any order, any number of times, or never.                   *)
(***************************************************************************)
EXTENDS Integers, Sequences, Functions

CONSTANTS
  Peers,      \* the two ends
  Calls,      \* the calls open on the tunnel
  First,      \* the sequence number each end has reached when we start to look
  Wrap,       \* sequence numbers are _u16: 2^16
  MaxRetries, \* DEFAULT_MAX_RETRIES
  MaxSends    \* bound: the messages of each end other than CDN and StopCCN

Self == 0     \* t->self, the call that stands for the tunnel

ASSUME ChannelAssumption ==
  /\ \E p, q \in Peers : p # q /\ Peers = {p, q}
  /\ Self \notin Calls
  /\ Wrap \in Nat \ {0}
  /\ First \in [Peers -> 0 .. Wrap - 1]
  /\ MaxRetries \in Nat \ {0} /\ MaxSends \in [Peers -> Nat]

VARIABLES
  control_seq_num,     \* Ns of the next message
  control_rec_seq_num, \* Ns of the message expected next
  cLr,                 \* what the other end has received, as far as we know
  events,              \* the scheduled retransmissions
  alive,               \* is the tunnel in the list of tunnels?
  calls, pppd,         \* its calls, and those whose pppd still runs
  needclose, closing,  \* the calls (Self included) with that field set
  closeSs,             \* Ns of the CDN or StopCCN of a call
  cnu,                 \* the field of t->self: an update is owed to the peer
  net,                 \* every packet ever sent
  sends,               \* bound: messages sent by Send
  sent,                \* history: messages an end put a number on
  got                  \* history: which messages of the other end it took

seqnums == <<control_seq_num, control_rec_seq_num, cLr>>
close   == <<calls, pppd, needclose, closing, closeSs>>
vars    == <<seqnums, events, alive, close, cnu, net, sends, sent, got>>

Other(p) == CHOOSE q \in Peers : q # p
Ends     == Calls \cup {Self}
Seqs     == 0 .. Wrap - 1
Cids     == Peers \X Ends      \* <<p, k>>: the id p gave to k; a tunnel's is 0
Kinds    == {"zlb", "msg", "cdn", "stop"}
Packets  == [from : Peers, cid : Cids, Ns : Seqs, Nr : Seqs, kind : Kinds, id : Nat]

Init ==
  /\ control_seq_num = First
  /\ control_rec_seq_num = [p \in Peers |-> First[Other(p)]]
  /\ cLr = First
  /\ events = [p \in Peers |-> {}]
  /\ alive  = [p \in Peers |-> TRUE]
  /\ calls  = [p \in Peers |-> Calls]
  /\ pppd   = [p \in Peers |-> Calls]
  /\ needclose = [p \in Peers |-> {}]
  /\ closing   = [p \in Peers |-> {}]
  /\ closeSs   = [p \in Peers |-> [k \in Ends |-> 0]]
  /\ cnu = [p \in Peers |-> FALSE]
  /\ net = {}
  /\ sends = [p \in Peers |-> 0]
  /\ sent  = [p \in Peers |-> 0]
  /\ got   = [p \in Peers |-> <<>>]

------------------------------------------------------------------------------
(* Sending *)

(* build_fdset closes whatever has one of the two fields set and not both; *)
(* it runs before the timers and the sockets are looked at again.          *)
Due(p)  == (needclose[p] \ closing[p]) \cup (closing[p] \ needclose[p])
Idle(p) == alive[p] /\ Due(p) = {}

(* Mutant: the message the other end expects next counts as received. *)
ReceivedNext(p, Ns) == Ns <= cLr[p]

Received(p, Ns) == Ns < cLr[p]

Message(p, cid, kind) ==
  [from |-> p, cid |-> cid, Ns |-> control_seq_num[p], Nr |-> control_rec_seq_num[p],
   kind |-> kind, id |-> sent[p] + 1]
Zlb(p, cid, Nr) ==
  [from |-> p, cid |-> cid, Ns |-> control_seq_num[p], Nr |-> Nr, kind |-> "zlb", id |-> 0]

(* Mutant: a message is sent once and not scheduled. *)
XmitUnscheduled(p, m, scheduled) ==
  /\ control_seq_num' = [control_seq_num EXCEPT ![p] = (@ + 1) % Wrap]
  /\ sent' = [sent EXCEPT ![p] = @ + 1]
  /\ events' = [events EXCEPT ![p] = scheduled]
  /\ net' = net \cup {m}

(* add_control_hdr and the first control_xmit of a message, on top of the *)
(* retransmissions that stay scheduled.                                   *)
Xmit(p, m, scheduled) ==
  /\ control_seq_num' = [control_seq_num EXCEPT ![p] = (@ + 1) % Wrap]
  /\ sent' = [sent EXCEPT ![p] = @ + 1]
  /\ IF Received(p, m.Ns)
     THEN events' = [events EXCEPT ![p] = scheduled] /\ UNCHANGED net
     ELSE /\ events' = [events EXCEPT ![p] = scheduled \cup {[pkt |-> m, retries |-> 1]}]
          /\ net' = net \cup {m}

(* A message on the tunnel itself: Hello, or the request of a new call. *)
Send(p) ==
  /\ Idle(p) /\ Self \notin closing[p] /\ sends[p] < MaxSends[p]
  /\ sends' = [sends EXCEPT ![p] = @ + 1]
  /\ Xmit(p, Message(p, <<Other(p), Self>>, "msg"), events[p])
  /\ UNCHANGED <<control_rec_seq_num, cLr, alive, close, cnu, got>>

------------------------------------------------------------------------------
(* call_close *)

CloseCall(p, k) ==
  IF k \in closing[p]
  THEN /\ calls' = [calls EXCEPT ![p] = @ \ {k}]
       /\ pppd'  = [pppd EXCEPT ![p] = @ \ {k}]
       /\ needclose' = [needclose EXCEPT ![p] = @ \ {k}]
       /\ closing' = [closing EXCEPT ![p] = @ \ {k}]
       /\ UNCHANGED <<seqnums, closeSs, events, net, sent>>
  ELSE /\ closeSs' = [closeSs EXCEPT ![p][k] = control_seq_num[p]]
       /\ closing' = [closing EXCEPT ![p] = @ \cup {k}]
       /\ Xmit(p, Message(p, <<Other(p), k>>, "cdn"), events[p])
       /\ UNCHANGED <<control_rec_seq_num, cLr, calls, pppd, needclose>>

(* Closing the tunnel drops every scheduled retransmission and every call. *)
CloseTunnel(p) ==
  /\ calls' = [calls EXCEPT ![p] = {}]
  /\ pppd'  = [pppd EXCEPT ![p] = {}]
  /\ IF Self \in closing[p]
     THEN /\ alive'  = [alive EXCEPT ![p] = FALSE]
          /\ events' = [events EXCEPT ![p] = {}]
          /\ needclose' = [needclose EXCEPT ![p] = {}]
          /\ closing'   = [closing EXCEPT ![p] = {}]
          /\ UNCHANGED <<seqnums, closeSs, net, sent>>
     ELSE /\ closeSs' = [closeSs EXCEPT ![p][Self] = control_seq_num[p]]
          /\ Xmit(p, Message(p, <<Other(p), Self>>, "stop"), {})
          /\ needclose' = [needclose EXCEPT ![p] = {Self}]
          /\ closing'   = [closing EXCEPT ![p] = {Self}]
          /\ UNCHANGED <<control_rec_seq_num, cLr, alive>>

BuildFdset(p) ==
  /\ alive[p]
  /\ \/ \E k \in Due(p) \ {Self} : CloseCall(p, k) /\ UNCHANGED alive
     \/ Due(p) = {Self} /\ CloseTunnel(p)
  /\ UNCHANGED <<cnu, sends, got>>

(* The administrator disconnects the tunnel; asked twice, xl2tpd does not *)
(* wait for the answer.                                                   *)
Disconnect(p) ==
  /\ Idle(p)
  /\ CloseTunnel(p)
  /\ UNCHANGED <<cnu, sends, got>>

(* SIGCHLD, handled between a packet and build_fdset or while idle. *)
PppdExit(p) ==
  /\ \E k \in pppd[p] :
       /\ pppd' = [pppd EXCEPT ![p] = @ \ {k}]
       /\ needclose' = [needclose EXCEPT ![p] = @ \cup {k}]
  /\ UNCHANGED <<seqnums, events, alive, calls, closing, closeSs, cnu, net, sends, sent, got>>

(* The read of a packet from pppd fails; pppd itself still runs.  Its        *)
(* descriptor is read only while the call has neither mark (build_fdset).    *)
ReadFails(p) ==
  /\ \E k \in pppd[p] \ (needclose[p] \cup closing[p]) :
       needclose' = [needclose EXCEPT ![p] = @ \cup {k}]
  /\ UNCHANGED <<seqnums, events, alive, calls, pppd, closing, closeSs, cnu, net, sends, sent, got>>

------------------------------------------------------------------------------
(* control_xmit, called again by a timer *)

Toss(p, b) ==
  /\ Received(p, b.pkt.Ns)
  /\ events' = [events EXCEPT ![p] = @ \ {b}]
  /\ UNCHANGED <<seqnums, alive, close, net, sent>>

(* Mutant: the retries are not counted against the maximum. *)
AgainUnbounded(p, b) ==
  /\ ~Received(p, b.pkt.Ns)
  /\ b.retries <= MaxRetries
  /\ events' = [events EXCEPT ![p] = (@ \ {b}) \cup {[b EXCEPT !.retries = @ + 1]}]
  /\ net' = net \cup {b.pkt}
  /\ UNCHANGED <<seqnums, alive, close, sent>>

(* Mutant: the retransmission is not scheduled again. *)
AgainOnce(p, b) ==
  /\ ~Received(p, b.pkt.Ns)
  /\ b.retries < MaxRetries
  /\ events' = [events EXCEPT ![p] = @ \ {b}]
  /\ net' = net \cup {b.pkt}
  /\ UNCHANGED <<seqnums, alive, close, sent>>

Again(p, b) ==
  /\ ~Received(p, b.pkt.Ns)
  /\ b.retries < MaxRetries
  /\ events' = [events EXCEPT ![p] = (@ \ {b}) \cup {[b EXCEPT !.retries = @ + 1]}]
  /\ net' = net \cup {b.pkt}
  /\ UNCHANGED <<seqnums, alive, close, sent>>

(* Mutant: a buffer retried too often is dropped and the tunnel kept. *)
GiveUpTosses(p, b) ==
  /\ ~Received(p, b.pkt.Ns)
  /\ b.retries = MaxRetries
  /\ events' = [events EXCEPT ![p] = @ \ {b}]
  /\ UNCHANGED <<seqnums, alive, close, net, sent>>

(* One retry too many closes the tunnel, or destroys it if it is closing. *)
GiveUp(p, b) ==
  /\ ~Received(p, b.pkt.Ns)
  /\ b.retries = MaxRetries
  /\ CloseTunnel(p)

Timer(p) ==
  /\ Idle(p)
  /\ \E b \in events[p] : Toss(p, b) \/ Again(p, b) \/ GiveUp(p, b)
  /\ UNCHANGED <<cnu, sends, got>>

------------------------------------------------------------------------------
(* Receiving *)

(* Mutant: the message taken last is not old. *)
IsOldButLast(p, Ns) ==
  Ns + 1 < control_rec_seq_num[p] /\ control_rec_seq_num[p] - Ns < Wrap \div 2

IsOld(p, Ns) ==
  \/ Ns < control_rec_seq_num[p] /\ control_rec_seq_num[p] - Ns < Wrap \div 2
  \/ Ns > control_rec_seq_num[p] /\ control_rec_seq_num[p] - Ns > Wrap \div 2

(* Mutants: an earlier, or a later message is accepted too. *)
InOrderOrOld(p, m)   == m.Ns <= control_rec_seq_num[p]
InOrderOrLater(p, m) == m.Ns >= control_rec_seq_num[p]

InOrder(p, m) == m.Ns = control_rec_seq_num[p]

(* check_control accepts a packet that is not a ZLB. *)
Accept(p, m) ==
  /\ control_rec_seq_num' = [control_rec_seq_num EXCEPT ![p] = (@ + 1) % Wrap]
  /\ cLr' = [cLr EXCEPT ![p] = m.Nr]
  /\ got' = [got EXCEPT ![p] = Append(@, m.id)]

(* Mutant: a CDN is acknowledged and the call kept. *)
FinishIgnoresCdn(p, m, k) ==
  IF m.kind \in {"msg", "cdn"} THEN UNCHANGED <<needclose, closing>>
  ELSE /\ needclose' = [needclose EXCEPT ![p] = @ \ {k}]
       /\ closing'   = [closing EXCEPT ![p] = @ \cup {k}]

(* What control_finish does for the messages of an established tunnel. *)
Finish(p, m, k) ==
  IF m.kind = "msg" THEN UNCHANGED <<needclose, closing>>
  ELSE /\ needclose' = [needclose EXCEPT ![p] = @ \ {k}]
       /\ closing'   = [closing EXCEPT ![p] = @ \cup {k}]

RecvMessage(p, m, k) ==
  /\ m.kind # "zlb" /\ InOrder(p, m)
  /\ Accept(p, m)
  /\ Finish(p, m, k)
  /\ net' = net \cup {Zlb(p, <<Other(p), k>>, control_rec_seq_num'[p])}
  /\ cnu' = IF k = Self THEN [cnu EXCEPT ![p] = FALSE] ELSE cnu

(* A ZLB does not consume a number; the right one finishes a closing. *)
RecvZlb(p, m, k) ==
  /\ m.kind = "zlb" /\ InOrder(p, m)
  /\ cLr' = [cLr EXCEPT ![p] = m.Nr]
  /\ needclose' = IF k \in closing[p] /\ m.Nr >= closeSs[p][k]
                  THEN [needclose EXCEPT ![p] = @ \ {k}] ELSE needclose
  /\ cnu' = IF k = Self THEN [cnu EXCEPT ![p] = FALSE] ELSE cnu
  /\ UNCHANGED <<control_rec_seq_num, closing, net, got>>

(* Out of order: an old message is acknowledged again. *)
RecvOther(p, m, k) ==
  /\ ~InOrder(p, m)
  /\ net' = IF (m.kind # "zlb" /\ IsOld(p, m.Ns)) \/ (k = Self /\ cnu[p])
            THEN net \cup {Zlb(p, <<Other(p), k>>, control_rec_seq_num[p])} ELSE net
  /\ cnu' = IF k = Self THEN [cnu EXCEPT ![p] = FALSE] ELSE cnu
  /\ UNCHANGED <<control_rec_seq_num, cLr, needclose, closing, got>>

(* handle_special: a packet for a call this end does not have.  Its answers *)
(* carry the call id of the packet, and a ZLB consumes a number here.       *)
SpecialZlb(p, m) ==
  /\ m.kind = "zlb" /\ InOrder(p, m)
  /\ control_rec_seq_num' = [control_rec_seq_num EXCEPT ![p] = (@ + 1) % Wrap]
  /\ cLr' = [cLr EXCEPT ![p] = m.Nr]
  /\ UNCHANGED <<net, got>>

SpecialMessage(p, m) ==
  /\ m.kind # "zlb" /\ InOrder(p, m)
  /\ Accept(p, m)
  /\ net' = net \cup {Zlb(p, m.cid, control_rec_seq_num'[p])}

SpecialOther(p, m) ==
  /\ ~InOrder(p, m)
  /\ m.kind # "zlb" /\ IsOld(p, m.Ns)
  /\ net' = net \cup {Zlb(p, m.cid, control_rec_seq_num[p])}
  /\ UNCHANGED <<control_rec_seq_num, cLr, got>>

Known(p) == {<<p, k>> : k \in calls[p] \cup {Self}}

HandlePacket(p, m) ==
  /\ m.cid \in Known(p)
  /\ LET k == m.cid[2]
     IN  RecvMessage(p, m, k) \/ RecvZlb(p, m, k) \/ RecvOther(p, m, k)

HandleSpecial(p, m) ==
  /\ m.cid \notin Known(p)
  /\ \/ SpecialZlb(p, m)     /\ cnu' = [cnu EXCEPT ![p] = TRUE]
     \/ SpecialMessage(p, m) /\ cnu' = [cnu EXCEPT ![p] = TRUE]
     \/ SpecialOther(p, m)   /\ UNCHANGED cnu
  /\ UNCHANGED <<needclose, closing>>

Receive(p) ==
  /\ Idle(p)
  /\ \E m \in net : m.from = Other(p) /\ (HandlePacket(p, m) \/ HandleSpecial(p, m))
  /\ UNCHANGED <<control_seq_num, events, alive, calls, pppd, closeSs, sends, sent>>

Next == \E p \in Peers :
  \/ Send(p) \/ BuildFdset(p) \/ Disconnect(p) \/ PppdExit(p) \/ ReadFails(p)
  \/ Timer(p) \/ Receive(p)

Spec == Init /\ [][Next]_vars

(* Timers fire, the main loop comes round, and a Hello is always scheduled. *)
(* Nothing is assumed of the network, of pppd or of the administrator.      *)
Fairness == \A p \in Peers : WF_vars(Timer(p)) /\ WF_vars(BuildFdset(p)) /\ WF_vars(Send(p))
FairSpec == Spec /\ Fairness
------------------------------------------------------------------------------
(* Properties *)

PendingBuffers == [pkt : Packets, retries : 1 .. MaxRetries]

NumbersTypeOK ==
  /\ control_seq_num \in [Peers -> Seqs]
  /\ control_rec_seq_num \in [Peers -> Seqs]
  /\ cLr \in [Peers -> Seqs]
  /\ sent \in [Peers -> Nat] /\ sends \in [Peers -> Nat]
  /\ got \in [Peers -> Seq(Nat)]

FieldsTypeOK ==
  /\ alive \in [Peers -> BOOLEAN] /\ cnu \in [Peers -> BOOLEAN]
  /\ calls \in [Peers -> SUBSET Calls] /\ pppd \in [Peers -> SUBSET Calls]
  /\ needclose \in [Peers -> SUBSET Ends] /\ closing \in [Peers -> SUBSET Ends]
  /\ closeSs \in [Peers -> [Ends -> Seqs]]

EventsTypeOK ==
  /\ net \subseteq Packets
  /\ events \in [Peers -> SUBSET PendingBuffers]
  /\ \A p \in Peers : \A b \in events[p] : b.pkt.from = p

(* Every field keeps its type; a buffer is retried at most MaxRetries times, *)
(* and only an end's own packets are in its schedule.                        *)
TypeOK == NumbersTypeOK /\ FieldsTypeOK /\ EventsTypeOK

(* No message is taken twice or before an earlier one, whatever the network *)
(* repeats and reorders (check_control).                                    *)
InOrderOnce ==
  \A p \in Peers : \A i, j \in DOMAIN got[p] : i < j => got[p][i] < got[p][j]

Taken(p, i)     == i \in Range(got[Other(p)])
Scheduled(p, i) == \E b \in events[p] : b.pkt.id = i

(* A message leaves the schedule of an open tunnel only when the other end  *)
(* has taken it: control_xmit tosses a buffer because "it's been received". *)
NothingLost ==
  \A p \in Peers : alive[p] /\ Self \notin closing[p] =>
    \A i \in 1 .. sent[p] : Taken(p, i) \/ Scheduled(p, i)

(* A message that was taken is recognised as old when it comes again, so    *)
(* that the ZLB its sender waits for is sent again (check_control).         *)
OldRecognised ==
  \A m \in net : m.kind # "zlb" /\ Taken(m.from, m.id) => IsOld(Other(m.from), m.Ns)

(* The tunnel is the reliable channel that the rest of xl2tpd relies on. *)
Abstract == INSTANCE ReliableChannel WITH
  taken <- got,
  open  <- [p \in Peers |-> alive[p] /\ Self \notin closing[p]]
ImplementsReliableChannel == Abstract!Spec

(* A closing tunnel counts as acknowledged ("as our StopCCN has been ACK'd", *)
(* call_close) only when the other end has taken its StopCCN, its last       *)
(* message: the step is the one of handle_packet that takes a ZLB for it.    *)
StopAcked ==
  [][\A p \in Peers :
       Self \in needclose[p] \cap closing[p] /\ alive'[p]
         /\ Self \notin needclose'[p] /\ got'[p] = got[p]
       => Taken(p, sent[p])]_vars

CdnScheduled(p, k) == \E b \in events[p] : b.pkt.kind = "cdn" /\ b.pkt.cid[2] = k

(* A call one end has destroyed does not stay open at the other: that end   *)
(* has destroyed it, is closing it, or is still being told (call_close and  *)
(* control_finish on CDN).                                                  *)
NoHalfOpenCall ==
  \A p \in Peers : \A k \in Calls :
    /\ \A q \in Peers : alive[q] /\ Self \notin closing[q]
    /\ k \notin calls[p]
    => k \notin calls[Other(p)] \/ k \in closing[Other(p)] \/ CdnScheduled(p, k)

Closed(p) == ~alive[p] \/ Self \in closing[p]

(* Every message is taken in the end, or its sender closes the tunnel,      *)
(* even if the network stops delivering (control_xmit, "Timeout").          *)
DeliveredOrClosed ==
  \A p \in Peers : \A i \in 1 .. MaxSends[p] :
    sent[p] >= i ~> Taken(p, i) \/ Closed(p)

(* A tunnel being closed is destroyed, answered or not. *)
ClosingEnds == \A p \in Peers : Self \in closing[p] ~> ~alive[p]

(* An end notices that the other has destroyed the tunnel, even if it was   *)
(* never told: its next Hello is never acknowledged.                        *)
DeadPeerNoticed ==
  \A p \in Peers : ~alive[p] /\ sends[Other(p)] < MaxSends[Other(p)] ~> ~alive[Other(p)]

(* A call that is being closed is destroyed, unless the tunnel fails: "If we *)
(* set c->needclose, the call (or tunnel) will be closed upon return"        *)
(* (control_finish).                                                         *)
ClosingCallEnds ==
  \A p \in Peers : \A k \in Calls :
    k \in needclose[p] ~> k \notin calls[p] \/ Closed(Other(p))
==============================================================================
