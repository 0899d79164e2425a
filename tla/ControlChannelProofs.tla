------------------------ MODULE ControlChannelProofs -------------------------
(***************************************************************************)
(* Proofs about ControlChannel, for every pair of ends, set of calls,      *)
(* maximum of retries and number of messages.                              *)
(***************************************************************************)
EXTENDS ControlChannel, TLAPS

LEMMA OtherEnd ==
  ASSUME NEW p \in Peers
  PROVE  Other(p) \in Peers /\ Other(p) # p /\ Other(Other(p)) = p
         /\ \A q \in Peers : q = p \/ q = Other(p)
<1>1. PICK a \in Peers, b \in Peers : a # b /\ Peers = {a, b}
  BY ChannelAssumption
<1>2. Other(a) = b /\ Other(b) = a
  BY <1>1 DEF Other
<1>3. QED
  BY <1>1, <1>2

LEMMA SeqSuccessor ==
  ASSUME NEW x \in Seqs
  PROVE  (x + 1) % Wrap \in Seqs /\ (x + 1 < Wrap => (x + 1) % Wrap = x + 1)
  BY ChannelAssumption DEF Seqs

LEMMA ZeroIsASeq == 0 \in Seqs
  BY ChannelAssumption DEF Seqs

LEMMA MessageType ==
  ASSUME TypeOK, NEW p \in Peers, NEW cid \in Cids, NEW kind \in {"msg", "cdn", "stop"}
  PROVE  Message(p, cid, kind) \in Packets
  BY DEF Message, Packets, Kinds, TypeOK, NumbersTypeOK

LEMMA ZlbType ==
  ASSUME TypeOK, NEW p \in Peers, NEW cid \in Cids, NEW Nr \in Seqs
  PROVE  Zlb(p, cid, Nr) \in Packets
  BY DEF Zlb, Packets, Kinds, TypeOK, NumbersTypeOK

LEMMA CloseSsField ==
  ASSUME FieldsTypeOK, NumbersTypeOK, NEW p \in Peers, NEW k \in Ends
  PROVE  [closeSs EXCEPT ![p][k] = control_seq_num[p]] \in [Peers -> [Ends -> Seqs]]
  BY DEF FieldsTypeOK, NumbersTypeOK

------------------------------------------------------------------------------
(* Type correctness *)

(* What a first transmission does to the types it touches. *)
LEMMA XmitType ==
  ASSUME TypeOK, NEW p \in Peers, NEW cid \in Cids, NEW kind \in {"msg", "cdn", "stop"},
         NEW S \in SUBSET events[p], Xmit(p, Message(p, cid, kind), S)
  PROVE  /\ control_seq_num' \in [Peers -> Seqs] /\ sent' \in [Peers -> Nat]
         /\ EventsTypeOK'
<1> DEFINE m == Message(p, cid, kind)
           b == [pkt |-> m, retries |-> 1]
<1>1. control_seq_num' \in [Peers -> Seqs] /\ sent' \in [Peers -> Nat]
  BY SeqSuccessor DEF Xmit, TypeOK, NumbersTypeOK
<1>2. m \in Packets /\ m.from = p
  BY MessageType DEF Message
<1>3. b \in PendingBuffers /\ b.pkt.from = p
  BY <1>2, ChannelAssumption DEF PendingBuffers
<1>4. net' \in {net, net \cup {m}}
  BY DEF Xmit
<1>5. events' \in {[events EXCEPT ![p] = S], [events EXCEPT ![p] = S \cup {b}]}
  BY DEF Xmit
<1>6. S \subseteq PendingBuffers /\ \A c \in S : c.pkt.from = p
  BY DEF TypeOK, EventsTypeOK
<1>7. net' \subseteq Packets
  BY <1>2, <1>4 DEF TypeOK, EventsTypeOK
<1> HIDE DEF m, b
<1>8. events' \in [Peers -> SUBSET PendingBuffers]
  BY <1>3, <1>5, <1>6 DEF TypeOK, EventsTypeOK
<1>9. \A q \in Peers : \A c \in events'[q] : c.pkt.from = q
  BY <1>3, <1>5, <1>6 DEF TypeOK, EventsTypeOK
<1>10. QED
  BY <1>1, <1>7, <1>8, <1>9 DEF EventsTypeOK

LEMMA SelfIsAnEnd == \A p \in Peers : \A k \in Ends : <<Other(p), k>> \in Cids
  BY OtherEnd DEF Cids

LEMMA CloseCallType ==
  ASSUME TypeOK, NEW p \in Peers, NEW k \in Ends, CloseCall(p, k),
         UNCHANGED <<alive, cnu, sends, got>>
  PROVE  TypeOK'
<1> USE DEF TypeOK, NumbersTypeOK, FieldsTypeOK
<1>1. CASE k \in closing[p]
  <2>1. FieldsTypeOK'
    <3>1. /\ calls' = [calls EXCEPT ![p] = @ \ {k}] /\ pppd' = [pppd EXCEPT ![p] = @ \ {k}]
          /\ needclose' = [needclose EXCEPT ![p] = @ \ {k}]
          /\ closing' = [closing EXCEPT ![p] = @ \ {k}]
          /\ closeSs' = closeSs
      BY <1>1 DEF CloseCall
    <3>2. calls' \in [Peers -> SUBSET Calls]
      BY <3>1
    <3>3. pppd' \in [Peers -> SUBSET Calls]
      BY <3>1
    <3>4. needclose' \in [Peers -> SUBSET Ends]
      BY <3>1
    <3>5. closing' \in [Peers -> SUBSET Ends]
      BY <3>1
    <3>6. QED
      BY <3>1, <3>2, <3>3, <3>4, <3>5
  <2>2. NumbersTypeOK' /\ EventsTypeOK'
    BY <1>1 DEF CloseCall, EventsTypeOK, seqnums
  <2>3. QED
    BY <2>1, <2>2
<1>2. CASE k \notin closing[p]
  <2>1. Xmit(p, Message(p, <<Other(p), k>>, "cdn"), events[p])
    BY <1>2 DEF CloseCall
  <2>2. control_seq_num' \in [Peers -> Seqs] /\ sent' \in [Peers -> Nat] /\ EventsTypeOK'
    BY <2>1, XmitType, SelfIsAnEnd
  <2>3. FieldsTypeOK'
    <3>1. /\ closeSs' = [closeSs EXCEPT ![p][k] = control_seq_num[p]]
          /\ closing' = [closing EXCEPT ![p] = @ \cup {k}]
          /\ UNCHANGED <<calls, pppd, needclose>>
      BY <1>2 DEF CloseCall
    <3>2. closing' \in [Peers -> SUBSET Ends]
      BY <3>1
    <3>3. closeSs' \in [Peers -> [Ends -> Seqs]]
      BY <3>1, CloseSsField
    <3>4. QED
      BY <3>1, <3>2, <3>3
  <2>4. NumbersTypeOK'
    BY <1>2, <2>2 DEF CloseCall
  <2>5. QED
    BY <2>2, <2>3, <2>4
<1>3. QED
  BY <1>1, <1>2

LEMMA CloseTunnelType ==
  ASSUME TypeOK, NEW p \in Peers, CloseTunnel(p), UNCHANGED <<cnu, sends, got>>
  PROVE  TypeOK'
<1> USE DEF TypeOK, NumbersTypeOK, FieldsTypeOK
<1>0. Self \in Ends
  BY DEF Ends
<1>1. CASE Self \in closing[p]
  <2>1. FieldsTypeOK'
    <3>1. /\ calls' = [calls EXCEPT ![p] = {}] /\ pppd' = [pppd EXCEPT ![p] = {}]
          /\ alive' = [alive EXCEPT ![p] = FALSE]
          /\ needclose' = [needclose EXCEPT ![p] = {}]
          /\ closing' = [closing EXCEPT ![p] = {}]
          /\ closeSs' = closeSs
      BY <1>1 DEF CloseTunnel
    <3>2. calls' \in [Peers -> SUBSET Calls] /\ pppd' \in [Peers -> SUBSET Calls]
      BY <3>1
    <3>3. needclose' \in [Peers -> SUBSET Ends] /\ closing' \in [Peers -> SUBSET Ends]
      BY <3>1
    <3>4. alive' \in [Peers -> BOOLEAN]
      BY <3>1
    <3>5. QED
      BY <3>1, <3>2, <3>3, <3>4
  <2>2. NumbersTypeOK' /\ EventsTypeOK'
    <3>1. NumbersTypeOK'
      BY <1>1 DEF CloseTunnel, seqnums
    <3>2. net' = net /\ events' = [events EXCEPT ![p] = {}]
      BY <1>1 DEF CloseTunnel
    <3>3. QED
      BY <3>1, <3>2 DEF EventsTypeOK
  <2>3. QED
    BY <2>1, <2>2
<1>2. CASE Self \notin closing[p]
  <2>1. Xmit(p, Message(p, <<Other(p), Self>>, "stop"), {})
    BY <1>2 DEF CloseTunnel
  <2>2. control_seq_num' \in [Peers -> Seqs] /\ sent' \in [Peers -> Nat] /\ EventsTypeOK'
    <3>1. <<Other(p), Self>> \in Cids /\ {} \in SUBSET events[p]
      BY <1>0, SelfIsAnEnd
    <3>2. QED
      BY <2>1, <3>1, XmitType
  <2>3. FieldsTypeOK'
    <3>1. /\ calls' = [calls EXCEPT ![p] = {}] /\ pppd' = [pppd EXCEPT ![p] = {}]
          /\ alive' = alive
          /\ needclose' = [needclose EXCEPT ![p] = {Self}]
          /\ closing' = [closing EXCEPT ![p] = {Self}]
          /\ closeSs' = [closeSs EXCEPT ![p][Self] = control_seq_num[p]]
      BY <1>2 DEF CloseTunnel
    <3>2. calls' \in [Peers -> SUBSET Calls] /\ pppd' \in [Peers -> SUBSET Calls]
      BY <3>1
    <3>3. needclose' \in [Peers -> SUBSET Ends] /\ closing' \in [Peers -> SUBSET Ends]
      BY <1>0, <3>1
    <3>4. closeSs' \in [Peers -> [Ends -> Seqs]]
      BY <1>0, <3>1, CloseSsField
    <3>5. QED
      BY <3>1, <3>2, <3>3, <3>4
  <2>4. NumbersTypeOK'
    BY <1>2, <2>2 DEF CloseTunnel
  <2>5. QED
    BY <2>2, <2>3, <2>4
<1>3. QED
  BY <1>1, <1>2

LEMMA TimerType ==
  ASSUME TypeOK, NEW p \in Peers, NEW b \in events[p], Toss(p, b) \/ Again(p, b),
         UNCHANGED <<cnu, sends, got>>
  PROVE  TypeOK'
<1> DEFINE c == [b EXCEPT !.retries = @ + 1]
<1> USE DEF TypeOK, EventsTypeOK
<1>1. NumbersTypeOK' /\ FieldsTypeOK'
  BY DEF Toss, Again, NumbersTypeOK, FieldsTypeOK, seqnums, close
<1>2. b \in PendingBuffers /\ b.pkt.from = p /\ b.pkt \in Packets
  BY DEF PendingBuffers
<1>3. CASE Toss(p, b)
  BY <1>1, <1>3 DEF Toss
<1>4. CASE Again(p, b)
  <2>1. c \in PendingBuffers /\ c.pkt = b.pkt
    BY <1>2, <1>4, ChannelAssumption DEF Again, PendingBuffers
  <2> HIDE DEF c
  <2>2. events' = [events EXCEPT ![p] = (@ \ {b}) \cup {c}] /\ net' = net \cup {b.pkt}
    BY <1>4 DEF Again, c
  <2>3. net' \subseteq Packets
    BY <1>2, <2>2
  <2>4. events' \in [Peers -> SUBSET PendingBuffers]
    BY <2>1, <2>2
  <2>5. \A q \in Peers : \A d \in events'[q] : d.pkt.from = q
    BY <1>2, <2>1, <2>2
  <2>6. QED
    BY <1>1, <2>3, <2>4, <2>5
<1>5. QED
  BY <1>3, <1>4

(* Taking a packet, whichever way it is taken. *)
LEMMA ReceiveType ==
  ASSUME TypeOK, NEW p \in Peers, NEW m \in net,
         HandlePacket(p, m) \/ HandleSpecial(p, m),
         UNCHANGED <<control_seq_num, events, alive, calls, pppd, closeSs, sends, sent>>
  PROVE  TypeOK'
<1> USE DEF TypeOK, NumbersTypeOK
<1>1. m \in Packets /\ m.cid \in Cids /\ m.Nr \in Seqs /\ m.id \in Nat
  BY DEF EventsTypeOK, Packets
<1>2. NumbersTypeOK' /\ control_rec_seq_num'[p] \in Seqs
  <2>1. /\ control_rec_seq_num' \in {control_rec_seq_num,
             [control_rec_seq_num EXCEPT ![p] = (@ + 1) % Wrap]}
        /\ cLr' \in {cLr, [cLr EXCEPT ![p] = m.Nr]}
        /\ got' \in {got, [got EXCEPT ![p] = Append(@, m.id)]}
    BY DEF HandlePacket, HandleSpecial, RecvMessage, RecvZlb, RecvOther,
       SpecialZlb, SpecialMessage, SpecialOther, Accept
  <2>2. control_rec_seq_num' \in [Peers -> Seqs]
    BY ZenonT(40), <2>1, SeqSuccessor
  <2>3. cLr' \in [Peers -> Seqs]
    BY <1>1, <2>1
  <2>4. got' \in [Peers -> Seq(Nat)]
    <3>1. Append(got[p], m.id) \in Seq(Nat)
      BY <1>1
    <3>2. QED
      BY <2>1, <3>1
  <2>5. QED
    BY <2>2, <2>3, <2>4
<1>3. m.cid[2] \in Ends
  BY <1>1 DEF Cids
<1>4. cnu' \in [Peers -> BOOLEAN]
  BY DEF HandlePacket, HandleSpecial, RecvMessage, RecvZlb, RecvOther, FieldsTypeOK
<1>5. needclose' \in [Peers -> SUBSET Ends] /\ closing' \in [Peers -> SUBSET Ends]
  <2>1. PICK k \in Ends :
           /\ needclose' = needclose \/ needclose' = [needclose EXCEPT ![p] = @ \ {k}]
           /\ closing' = closing \/ closing' = [closing EXCEPT ![p] = @ \cup {k}]
    BY <1>3 DEF HandlePacket, HandleSpecial, RecvMessage, RecvZlb, RecvOther, Finish
  <2>2. needclose \in [Peers -> SUBSET Ends] /\ closing \in [Peers -> SUBSET Ends]
    BY DEF FieldsTypeOK
  <2>3. [needclose EXCEPT ![p] = @ \ {k}] \in [Peers -> SUBSET Ends]
    BY <2>2
  <2>4. [closing EXCEPT ![p] = @ \cup {k}] \in [Peers -> SUBSET Ends]
    BY <2>2
  <2>5. QED
    BY <2>1, <2>2, <2>3, <2>4
<1>6. FieldsTypeOK'
  BY <1>4, <1>5 DEF FieldsTypeOK
<1>7. net' \subseteq Packets
  <2>1. net \subseteq Packets
    BY DEF EventsTypeOK
  <2>2. \A Nr \in Seqs : Zlb(p, m.cid, Nr) \in Packets /\ Zlb(p, <<Other(p), m.cid[2]>>, Nr) \in Packets
    BY <1>1, <1>3, ZlbType, SelfIsAnEnd
  <2>3. net' = net \/ \E cid \in {m.cid, <<Other(p), m.cid[2]>>},
                         Nr \in {control_rec_seq_num[p], control_rec_seq_num'[p]} :
                       net' = net \cup {Zlb(p, cid, Nr)}
    BY DEF HandlePacket, HandleSpecial, RecvMessage, RecvZlb, RecvOther,
       SpecialZlb, SpecialMessage, SpecialOther
  <2>4. control_rec_seq_num[p] \in Seqs
    OBVIOUS
  <2>5. CASE net' = net
    BY <2>1, <2>5
  <2>6. CASE net' # net
    <3>1. PICK cid \in {m.cid, <<Other(p), m.cid[2]>>},
               Nr \in {control_rec_seq_num[p], control_rec_seq_num'[p]} :
             net' = net \cup {Zlb(p, cid, Nr)}
      BY <2>3, <2>6
    <3>2. Zlb(p, cid, Nr) \in Packets
      BY <1>2, <2>2, <2>4
    <3>3. QED
      BY <2>1, <3>1, <3>2
  <2>7. QED
    BY <2>5, <2>6
<1>8. QED
  BY <1>2, <1>6, <1>7 DEF EventsTypeOK

LEMMA InitType == Init => TypeOK
  BY ChannelAssumption, OtherEnd, ZeroIsASeq
     DEF Init, TypeOK, NumbersTypeOK, FieldsTypeOK, EventsTypeOK, Seqs

LEMMA NextType == TypeOK /\ [Next]_vars => TypeOK'
<1> SUFFICES ASSUME TypeOK, [Next]_vars PROVE TypeOK'
  OBVIOUS
<1>1. CASE UNCHANGED vars
  BY <1>1 DEF vars, seqnums, close, TypeOK, NumbersTypeOK, FieldsTypeOK, EventsTypeOK
<1>2. ASSUME NEW p \in Peers, Send(p) PROVE TypeOK'
  <2>1. Self \in Ends
    BY DEF Ends
  <2>2. Xmit(p, Message(p, <<Other(p), Self>>, "msg"), events[p])
    BY <1>2 DEF Send
  <2>3. control_seq_num' \in [Peers -> Seqs] /\ sent' \in [Peers -> Nat] /\ EventsTypeOK'
    BY <2>1, <2>2, XmitType, SelfIsAnEnd
  <2>4. QED
    <3>0. sends' \in [Peers -> Nat]
      BY <1>2 DEF Send, TypeOK, NumbersTypeOK
    <3>1. NumbersTypeOK'
      BY <1>2, <2>3, <3>0 DEF Send, TypeOK, NumbersTypeOK
    <3>2. FieldsTypeOK'
      BY <1>2 DEF Send, TypeOK, FieldsTypeOK, close
    <3>3. QED
      BY <2>3, <3>1, <3>2 DEF TypeOK
<1>3. ASSUME NEW p \in Peers, BuildFdset(p) PROVE TypeOK'
  <2>1. Due(p) \subseteq Ends
    BY DEF Due, TypeOK, FieldsTypeOK
  <2>2. QED
    BY <1>3, <2>1, CloseCallType, CloseTunnelType DEF BuildFdset
<1>4. ASSUME NEW p \in Peers, Disconnect(p) PROVE TypeOK'
  BY <1>4, CloseTunnelType DEF Disconnect
<1>5. ASSUME NEW p \in Peers, PppdExit(p) PROVE TypeOK'
  <2>1. PICK k \in pppd[p] : /\ pppd' = [pppd EXCEPT ![p] = @ \ {k}]
                             /\ needclose' = [needclose EXCEPT ![p] = @ \cup {k}]
    BY <1>5 DEF PppdExit
  <2>2. k \in Ends
    BY DEF TypeOK, FieldsTypeOK, Ends
  <2>3. FieldsTypeOK'
    <3>1. pppd' \in [Peers -> SUBSET Calls]
      BY <2>1 DEF TypeOK, FieldsTypeOK
    <3>2. needclose' \in [Peers -> SUBSET Ends]
      BY <2>1, <2>2 DEF TypeOK, FieldsTypeOK
    <3>3. QED
      BY <1>5, <3>1, <3>2 DEF PppdExit, TypeOK, FieldsTypeOK
  <2>4. NumbersTypeOK' /\ EventsTypeOK'
    BY <1>5 DEF PppdExit, TypeOK, NumbersTypeOK, EventsTypeOK, seqnums
  <2>5. QED
    BY <2>3, <2>4 DEF TypeOK
<1>6. ASSUME NEW p \in Peers, Timer(p) PROVE TypeOK'
  BY <1>6, TimerType, CloseTunnelType DEF Timer, GiveUp
<1>7. ASSUME NEW p \in Peers, Receive(p) PROVE TypeOK'
  BY <1>7, ReceiveType DEF Receive
<1>8. ASSUME NEW p \in Peers, ReadFails(p) PROVE TypeOK'
  <2>1. PICK k \in pppd[p] : needclose' = [needclose EXCEPT ![p] = @ \cup {k}]
    BY <1>8 DEF ReadFails
  <2>2. k \in Ends
    BY DEF TypeOK, FieldsTypeOK, Ends
  <2>3. needclose' \in [Peers -> SUBSET Ends]
    BY <2>1, <2>2 DEF TypeOK, FieldsTypeOK
  <2>4. FieldsTypeOK'
    BY <1>8, <2>3 DEF ReadFails, TypeOK, FieldsTypeOK
  <2>5. NumbersTypeOK' /\ EventsTypeOK'
    BY <1>8 DEF ReadFails, TypeOK, NumbersTypeOK, EventsTypeOK, seqnums
  <2>6. QED
    BY <2>4, <2>5 DEF TypeOK
<1>9. QED
  BY <1>1, <1>2, <1>3, <1>4, <1>5, <1>6, <1>7, <1>8 DEF Next

(* Every field of both ends keeps its type, and no buffer is retransmitted *)
(* more than MaxRetries times.                                             *)
THEOREM ChannelTypeCorrect == Spec => []TypeOK
  BY InitType, NextType, PTL DEF Spec
------------------------------------------------------------------------------
(* Messages are taken in order and at most once, across the wrap *)

(* How many numbers n is past the number an end had when we started to look. *)
Index(p, n) == IF First[p] <= n THEN n - First[p] ELSE n - First[p] + Wrap

(* No end has used every number; First may be anywhere, so they may wrap. *)
FewSent == \A p \in Peers : sent[p] + 1 < Wrap

Numbered == \A p \in Peers : Index(p, control_seq_num[p]) = sent[p]

PacketsNumbered ==
  \A m \in net :
    /\ Index(m.from, m.Ns) <= sent[m.from]
    /\ m.kind # "zlb" => /\ m.id = Index(m.from, m.Ns) + 1
                         /\ m.id <= sent[m.from]

ScheduledWereSent == \A p \in Peers : \A b \in events[p] : b.pkt \in net

(* A ZLB that consumes a number puts an end one number ahead, and no more. *)
OneAheadAtMost ==
  \A p \in Peers : Index(Other(p), control_rec_seq_num[p]) <= sent[Other(p)] + 1

TakenAreBehind ==
  \A p \in Peers : \A i \in DOMAIN got[p] :
    got[p][i] <= Index(Other(p), control_rec_seq_num[p])

OrderInv == /\ Numbered /\ PacketsNumbered /\ ScheduledWereSent
            /\ OneAheadAtMost /\ TakenAreBehind /\ InOrderOnce

LEMMA FirstType ==
  \A p \in Peers : First[p] \in Nat /\ First[p] < Wrap /\ Wrap \in Nat
  BY ChannelAssumption DEF Seqs

LEMMA IndexType ==
  ASSUME NEW p \in Peers, NEW n \in Seqs
  PROVE  Index(p, n) \in Nat /\ Index(p, n) < Wrap
  BY FirstType DEF Index, Seqs

(* The next number has the next index, whether or not it wraps. *)
LEMMA IndexNext ==
  ASSUME NEW p \in Peers, NEW n \in Seqs, Index(p, n) + 1 < Wrap
  PROVE  Index(p, (n + 1) % Wrap) = Index(p, n) + 1
<1>1. First[p] \in Nat /\ First[p] < Wrap /\ Wrap \in Nat /\ n \in Nat /\ n < Wrap
  BY FirstType DEF Seqs
<1>2. CASE n + 1 < Wrap
  BY <1>1, <1>2, SeqSuccessor DEF Index
<1>3. CASE n + 1 = Wrap
  <2>1. (n + 1) % Wrap = 0
    BY <1>1, <1>3
  <2>2. First[p] > 0
    BY <1>1, <1>3 DEF Index
  <2>3. QED
    BY <1>1, <1>3, <2>1, <2>2 DEF Index
<1>4. QED
  BY <1>1, <1>2, <1>3

LEMMA IndexOfFirst == \A p \in Peers : Index(p, First[p]) = 0
  BY FirstType DEF Index

LEMMA NumbersAreNat ==
  ASSUME TypeOK, NEW p \in Peers
  PROVE  /\ control_seq_num[p] \in Nat /\ control_rec_seq_num[p] \in Nat
         /\ control_seq_num[p] \in Seqs /\ control_rec_seq_num[p] \in Seqs
         /\ cLr[p] \in Nat /\ sent[p] \in Nat /\ Len(got[p]) \in Nat
         /\ DOMAIN got[p] = 1 .. Len(got[p])
         /\ \A i \in DOMAIN got[p] : got[p][i] \in Nat
<1>1. control_seq_num[p] \in Seqs /\ control_rec_seq_num[p] \in Seqs /\ cLr[p] \in Seqs
      /\ sent[p] \in Nat /\ got[p] \in Seq(Nat)
  BY DEF TypeOK, NumbersTypeOK
<1>2. \A x \in Seqs : x \in Nat
  BY DEF Seqs
<1>3. QED
  BY <1>1, <1>2

LEMMA PacketFields ==
  ASSUME TypeOK, NEW m \in net
  PROVE  /\ m.from \in Peers /\ m.cid \in Cids /\ m.kind \in Kinds
         /\ m.id \in Nat /\ m.Ns \in Seqs /\ m.Ns \in Nat /\ m.Nr \in Nat
         /\ Index(m.from, m.Ns) \in Nat
<1>1. /\ m.from \in Peers /\ m.cid \in Cids /\ m.kind \in Kinds
      /\ m.id \in Nat /\ m.Ns \in Seqs /\ m.Nr \in Seqs
  BY DEF TypeOK, EventsTypeOK, Packets
<1>2. \A x \in Seqs : x \in Nat
  BY DEF Seqs
<1>3. QED
  BY <1>1, <1>2, IndexType

(* Where the steps that send nothing new and take nothing leave the numbers. *)
LEMMA QuietOrder ==
  ASSUME TypeOK, OrderInv,
         UNCHANGED <<control_seq_num, control_rec_seq_num, sent, got, net>>,
         \A p \in Peers : \A b \in events'[p] : b.pkt \in net
  PROVE  OrderInv'
  BY DEF OrderInv, Numbered, PacketsNumbered, ScheduledWereSent, OneAheadAtMost,
     TakenAreBehind, InOrderOnce

LEMMA XmitOrder ==
  ASSUME TypeOK, OrderInv, FewSent', NEW p \in Peers, NEW cid \in Cids,
         NEW kind \in {"msg", "cdn", "stop"}, NEW S \in SUBSET events[p],
         Xmit(p, Message(p, cid, kind), S), UNCHANGED <<control_rec_seq_num, got>>
  PROVE  OrderInv'
<1> DEFINE m == Message(p, cid, kind)
<1>1. sent \in [Peers -> Nat] /\ sent' = [sent EXCEPT ![p] = @ + 1]
  BY DEF Xmit, TypeOK, NumbersTypeOK
<1>2. Index(p, control_seq_num[p]) = sent[p] /\ control_seq_num[p] \in Seqs
  BY NumbersAreNat DEF OrderInv, Numbered
<1>3. sent[p] + 1 < Wrap
  BY <1>1, FirstType DEF FewSent
<1>4. control_seq_num' = [control_seq_num EXCEPT ![p] = (@ + 1) % Wrap]
      /\ control_seq_num \in [Peers -> Seqs]
  BY DEF Xmit, TypeOK, NumbersTypeOK
<1>5. Numbered'
  <2>1. Index(p, control_seq_num'[p]) = sent[p] + 1
    BY <1>2, <1>3, <1>4, IndexNext
  <2>2. QED
    BY <1>1, <1>4, <2>1 DEF OrderInv, Numbered, Index
<1>6. \A q \in Peers : sent[q] \in Nat /\ sent'[q] \in Nat /\ sent'[q] >= sent[q]
  BY <1>1
<1>7. m.from = p /\ m.id = sent[p] + 1 /\ Index(p, m.Ns) = sent[p]
  BY <1>2 DEF Message
<1>8. net' \in {net, net \cup {m}}
  BY DEF Xmit
<1> HIDE DEF m
<1>9. PacketsNumbered'
  <2>1. SUFFICES ASSUME NEW n \in net'
                 PROVE  /\ Index(n.from, n.Ns) <= sent'[n.from]
                        /\ n.kind # "zlb" => /\ n.id = Index(n.from, n.Ns) + 1
                                             /\ n.id <= sent'[n.from]
    BY DEF PacketsNumbered, Index
  <2>2. CASE n \in net
    <3>1. n.from \in Peers /\ n.id \in Nat /\ Index(n.from, n.Ns) \in Nat
      BY <2>2, PacketFields
    <3>2. /\ Index(n.from, n.Ns) <= sent[n.from]
          /\ n.kind # "zlb" => n.id = Index(n.from, n.Ns) + 1 /\ n.id <= sent[n.from]
      BY <2>2 DEF OrderInv, PacketsNumbered
    <3>3. QED
      BY SMTT(20), <1>6, <3>1, <3>2
  <2>3. CASE n = m
    BY <1>1, <1>6, <1>7, <2>3
  <2>4. QED
    BY <1>8, <2>2, <2>3
<1>10. ScheduledWereSent'
  <2>1. \A q \in Peers : \A b \in events[q] : b.pkt \in net
    BY DEF OrderInv, ScheduledWereSent
  <2>2. \/ events' = [events EXCEPT ![p] = S] /\ net' = net
        \/ events' = [events EXCEPT ![p] = S \cup {[pkt |-> m, retries |-> 1]}]
           /\ net' = net \cup {m}
    BY DEF Xmit, m
  <2>3. events \in [Peers -> SUBSET PendingBuffers] /\ S \subseteq events[p]
    BY DEF TypeOK, EventsTypeOK
  <2>4. CASE events' = [events EXCEPT ![p] = S] /\ net' = net
    <3>1. \A q \in Peers : events'[q] \subseteq events[q]
      BY <2>3, <2>4
    <3>2. QED
      BY <2>1, <2>4, <3>1 DEF ScheduledWereSent
  <2>5. CASE /\ events' = [events EXCEPT ![p] = S \cup {[pkt |-> m, retries |-> 1]}]
             /\ net' = net \cup {m}
    <3>1. \A q \in Peers : events'[q] \subseteq events[q] \cup {[pkt |-> m, retries |-> 1]}
      BY <2>3, <2>5
    <3>2. [pkt |-> m, retries |-> 1].pkt = m
      OBVIOUS
    <3>3. QED
      BY <2>1, <2>5, <3>1, <3>2 DEF ScheduledWereSent
  <2>6. QED
    BY <2>2, <2>4, <2>5
<1>11. OneAheadAtMost'
  <2>1. SUFFICES ASSUME NEW q \in Peers
                 PROVE  Index(Other(q), control_rec_seq_num[q]) <= sent'[Other(q)] + 1
    BY DEF OneAheadAtMost, Index
  <2>2. Index(Other(q), control_rec_seq_num[q]) <= sent[Other(q)] + 1
    BY DEF OrderInv, OneAheadAtMost
  <2>3. Other(q) \in Peers /\ Index(Other(q), control_rec_seq_num[q]) \in Nat
    BY OtherEnd, NumbersAreNat, IndexType
  <2>4. sent[Other(q)] \in Nat /\ sent'[Other(q)] \in Nat /\ sent'[Other(q)] >= sent[Other(q)]
    BY <1>6, <2>3
  <2>5. QED
    BY SMTT(20), <2>2, <2>3, <2>4
<1>12. TakenAreBehind' /\ InOrderOnce'
  BY DEF OrderInv, TakenAreBehind, InOrderOnce, Index
<1>13. QED
  BY <1>5, <1>9, <1>10, <1>11, <1>12 DEF OrderInv

(* A packet taken or refused, and the ZLB that may answer it. *)
LEMMA ZlbAnswers ==
  ASSUME TypeOK, NEW p \in Peers, NEW m \in net, m.from = Other(p),
         HandlePacket(p, m) \/ HandleSpecial(p, m)
  PROVE  \/ net' = net
         \/ \E cid \in {m.cid, <<Other(p), m.cid[2]>>}, Nr \in Seqs : net' = net \cup {Zlb(p, cid, Nr)}
<1>1. control_rec_seq_num[p] \in Seqs /\ (control_rec_seq_num[p] + 1) % Wrap \in Seqs
  BY NumbersAreNat, SeqSuccessor
<1>2. \/ net' = net
      \/ net' = net \cup {Zlb(p, m.cid, control_rec_seq_num[p])}
      \/ net' = net \cup {Zlb(p, <<Other(p), m.cid[2]>>, control_rec_seq_num[p])}
      \/ net' = net \cup {Zlb(p, m.cid, control_rec_seq_num'[p])}
      \/ net' = net \cup {Zlb(p, <<Other(p), m.cid[2]>>, control_rec_seq_num'[p])}
  BY DEF HandlePacket, HandleSpecial, RecvMessage, RecvZlb, RecvOther,
     SpecialZlb, SpecialMessage, SpecialOther, Accept
<1>3. \/ control_rec_seq_num' = control_rec_seq_num
      \/ control_rec_seq_num' = [control_rec_seq_num EXCEPT ![p] = (@ + 1) % Wrap]
  BY DEF HandlePacket, HandleSpecial, RecvMessage, RecvZlb, RecvOther,
     SpecialZlb, SpecialMessage, SpecialOther, Accept
<1>4. control_rec_seq_num'[p] \in Seqs
  BY <1>1, <1>3 DEF TypeOK, NumbersTypeOK
<1>5. QED
  BY <1>1, <1>2, <1>4

LEMMA ReceiveOrder ==
  ASSUME TypeOK, OrderInv, FewSent, NEW p \in Peers, NEW m \in net, m.from = Other(p),
         HandlePacket(p, m) \/ HandleSpecial(p, m),
         UNCHANGED <<control_seq_num, events, sent>>
  PROVE  OrderInv'
<1> DEFINE q == Other(p)
           rec == control_rec_seq_num[p]
           at  == Index(q, rec)
<1>0. q \in Peers /\ q # p /\ Other(q) = p
  BY OtherEnd
<1>1. rec \in Seqs /\ at \in Nat /\ sent[q] \in Nat /\ Wrap \in Nat
  BY <1>0, NumbersAreNat, FirstType, IndexType
<1>2. m.id \in Nat /\ Index(q, m.Ns) \in Nat
  BY PacketFields
<1>3. /\ Index(q, m.Ns) <= sent[q]
      /\ m.kind # "zlb" => m.id = Index(q, m.Ns) + 1 /\ m.id <= sent[q]
  BY DEF OrderInv, PacketsNumbered
<1>4. Numbered' /\ OneAheadAtMost /\ TakenAreBehind /\ InOrderOnce
  BY DEF OrderInv, Numbered, Index
<1>5. net' = net \/ \E cid, Nr : net' = net \cup {Zlb(p, cid, Nr)}
  BY ZlbAnswers
<1>6. PacketsNumbered'
  <2>1. \A cid, Nr : Zlb(p, cid, Nr).from = p /\ Zlb(p, cid, Nr).kind = "zlb"
                     /\ Index(p, Zlb(p, cid, Nr).Ns) = sent[p]
    BY DEF Zlb, OrderInv, Numbered
  <2>2. \A n \in net' : n \in net \/ (n.from = p /\ n.kind = "zlb" /\ Index(p, n.Ns) = sent[p])
    BY <1>5, <2>1
  <2>3. sent[p] <= sent[p]
    BY NumbersAreNat
  <2>4. QED
    BY <2>2, <2>3 DEF OrderInv, PacketsNumbered, Index
<1>7. ScheduledWereSent'
  BY <1>5 DEF OrderInv, ScheduledWereSent
<1>8. \/ UNCHANGED <<control_rec_seq_num, got>>
      \/ /\ InOrder(p, m)
         /\ control_rec_seq_num' = [control_rec_seq_num EXCEPT ![p] = (@ + 1) % Wrap]
         /\ \/ got' = got
            \/ m.kind # "zlb" /\ got' = [got EXCEPT ![p] = Append(@, m.id)]
  BY DEF HandlePacket, HandleSpecial, RecvMessage, RecvZlb, RecvOther,
     SpecialZlb, SpecialMessage, SpecialOther, Accept
<1>9. CASE UNCHANGED <<control_rec_seq_num, got>>
  <2>1. OneAheadAtMost' /\ TakenAreBehind' /\ InOrderOnce'
    BY <1>4, <1>9 DEF OneAheadAtMost, TakenAreBehind, InOrderOnce, Index
  <2>2. QED
    BY <1>4, <1>6, <1>7, <2>1 DEF OrderInv
<1>10. CASE /\ InOrder(p, m)
            /\ control_rec_seq_num' = [control_rec_seq_num EXCEPT ![p] = (@ + 1) % Wrap]
            /\ \/ got' = got
               \/ m.kind # "zlb" /\ got' = [got EXCEPT ![p] = Append(@, m.id)]
  <2>1. rec = m.Ns
    BY <1>10 DEF InOrder
  <2>2. at <= sent[q] /\ at + 1 < Wrap
    BY <1>0, <1>1, <1>3, <2>1 DEF FewSent
  <2>3. Index(q, control_rec_seq_num'[p]) = at + 1
    <3>1. control_rec_seq_num'[p] = (rec + 1) % Wrap
      BY <1>10 DEF TypeOK, NumbersTypeOK
    <3>2. QED
      BY <1>0, <1>1, <2>2, <3>1, IndexNext
  <2>4. \A r \in Peers : r # p => control_rec_seq_num'[r] = control_rec_seq_num[r]
    BY <1>10 DEF TypeOK, NumbersTypeOK
  <2> HIDE DEF at, rec
  <2>5. OneAheadAtMost'
    <3>1. Index(q, control_rec_seq_num'[p]) <= sent[q] + 1
      BY <1>1, <2>2, <2>3
    <3>2. SUFFICES ASSUME NEW r \in Peers
                   PROVE  Index(Other(r), control_rec_seq_num'[r]) <= sent[Other(r)] + 1
      BY DEF OneAheadAtMost, Index
    <3>3. QED
      BY <1>4, <2>4, <3>1 DEF OneAheadAtMost
  <2>6. \A r \in Peers : r # p => got'[r] = got[r]
    BY <1>10 DEF TypeOK, NumbersTypeOK
  <2>7. \A i \in DOMAIN got[p] : got[p][i] \in Nat /\ got[p][i] <= at
    BY <1>4, NumbersAreNat DEF TakenAreBehind, at, rec
  <2>8. CASE got' = got
    <3>1. InOrderOnce'
      BY <1>4, <2>8 DEF InOrderOnce
    <3>2. TakenAreBehind'
      <4>1. SUFFICES ASSUME NEW r \in Peers, NEW i \in DOMAIN got[r]
                     PROVE  got[r][i] <= Index(Other(r), control_rec_seq_num'[r])
        BY <2>8 DEF TakenAreBehind, Index
      <4>2. CASE r = p
        BY <1>1, <2>3, <2>7, <4>2
      <4>3. CASE r # p
        BY <1>4, <2>4, <4>3 DEF TakenAreBehind
      <4>4. QED
        BY <4>2, <4>3
    <3>3. QED
      BY <1>4, <1>6, <1>7, <2>5, <3>1, <3>2 DEF OrderInv
  <2>9. CASE m.kind # "zlb" /\ got' = [got EXCEPT ![p] = Append(@, m.id)]
    <3>1. m.id = at + 1
      BY <1>3, <2>1, <2>9 DEF at
    <3>2. got[p] \in Seq(Nat) /\ got'[p] = Append(got[p], m.id)
      BY <2>9 DEF TypeOK, NumbersTypeOK
    <3> DEFINE n == Len(got[p])
    <3>3. /\ n \in Nat /\ DOMAIN got[p] = 1 .. n /\ DOMAIN got'[p] = 1 .. n + 1
          /\ \A i \in 1 .. n : got'[p][i] = got[p][i]
          /\ got'[p][n + 1] = m.id
      BY <1>2, <3>2
    <3>4. \A i \in 1 .. n : got[p][i] \in Nat /\ got[p][i] <= at
      BY <2>7, <3>3
    <3>5. TakenAreBehind'
      <4>1. \A i \in DOMAIN got'[p] : got'[p][i] <= at + 1
        <5>1. TAKE i \in DOMAIN got'[p]
        <5>2. CASE i = n + 1
          BY <1>1, <3>1, <3>3, <5>2
        <5>3. CASE i \in 1 .. n
          BY <1>1, <3>3, <3>4, <5>3
        <5>4. QED
          BY <3>3, <5>2, <5>3
      <4>2. SUFFICES ASSUME NEW r \in Peers, NEW i \in DOMAIN got'[r]
                     PROVE  got'[r][i] <= Index(Other(r), control_rec_seq_num'[r])
        BY DEF TakenAreBehind, Index
      <4>3. CASE r = p
        BY <2>3, <4>1, <4>3
      <4>4. CASE r # p
        BY <1>4, <2>4, <2>6, <4>4 DEF TakenAreBehind
      <4>5. QED
        BY <4>3, <4>4
    <3>6. \A i \in 1 .. n : got[p][i] < m.id
      BY <1>1, <3>1, <3>4
    <3>7. \A i, j \in DOMAIN got'[p] : i < j => got'[p][i] < got'[p][j]
      <4>1. SUFFICES ASSUME NEW i \in 1 .. n + 1, NEW j \in 1 .. n + 1, i < j
                     PROVE  got'[p][i] < got'[p][j]
        BY <3>3
      <4>2. i \in 1 .. n
        BY <3>3, <4>1
      <4>3. CASE j \in 1 .. n
        BY <1>4, <3>3, <4>1, <4>2, <4>3 DEF InOrderOnce
      <4>4. CASE j = n + 1
        BY <3>3, <3>6, <4>2, <4>4
      <4>5. QED
        BY <3>3, <4>3, <4>4
    <3>8. InOrderOnce'
      BY <1>4, <2>6, <3>7 DEF InOrderOnce
    <3>9. QED
      BY <1>4, <1>6, <1>7, <2>5, <3>5, <3>8 DEF OrderInv
  <2>10. QED
    BY <1>10, <2>8, <2>9
<1>11. QED
  BY <1>8, <1>9, <1>10

LEMMA CloseTunnelOrder ==
  ASSUME TypeOK, OrderInv, FewSent', NEW p \in Peers, CloseTunnel(p), UNCHANGED got
  PROVE  OrderInv'
<1>1. CASE Self \in closing[p]
  <2>1. \A q \in Peers : events'[q] \subseteq events[q]
    BY <1>1 DEF CloseTunnel, TypeOK, EventsTypeOK
  <2>2. UNCHANGED <<control_seq_num, control_rec_seq_num, sent, net>>
    BY <1>1 DEF CloseTunnel, seqnums
  <2>3. QED
    BY <2>1, <2>2, QuietOrder DEF OrderInv, ScheduledWereSent
<1>2. CASE Self \notin closing[p]
  <2>1. Xmit(p, Message(p, <<Other(p), Self>>, "stop"), {}) /\ UNCHANGED control_rec_seq_num
    BY <1>2 DEF CloseTunnel
  <2>2. <<Other(p), Self>> \in Cids /\ {} \in SUBSET events[p]
    BY SelfIsAnEnd DEF Ends
  <2>3. QED
    BY <2>1, <2>2, XmitOrder
<1>3. QED
  BY <1>1, <1>2

LEMMA CloseCallOrder ==
  ASSUME TypeOK, OrderInv, FewSent', NEW p \in Peers, NEW k \in Ends, CloseCall(p, k),
         UNCHANGED got
  PROVE  OrderInv'
<1>1. CASE k \in closing[p]
  <2>1. UNCHANGED <<control_seq_num, control_rec_seq_num, sent, net, events>>
    BY <1>1 DEF CloseCall, seqnums
  <2>2. QED
    BY <2>1, QuietOrder DEF OrderInv, ScheduledWereSent
<1>2. CASE k \notin closing[p]
  <2>1. Xmit(p, Message(p, <<Other(p), k>>, "cdn"), events[p]) /\ UNCHANGED control_rec_seq_num
    BY <1>2 DEF CloseCall
  <2>2. <<Other(p), k>> \in Cids
    BY SelfIsAnEnd
  <2>3. QED
    BY <2>1, <2>2, XmitOrder
<1>3. QED
  BY <1>1, <1>2

LEMMA TimerOrder ==
  ASSUME TypeOK, OrderInv, NEW p \in Peers, NEW b \in events[p], Toss(p, b) \/ Again(p, b),
         UNCHANGED got
  PROVE  OrderInv'
<1>1. b.pkt \in net /\ \A q \in Peers : \A c \in events[q] : c.pkt \in net
  BY DEF OrderInv, ScheduledWereSent
<1>2. net' = net
  BY <1>1 DEF Toss, Again
<1>3. UNCHANGED <<control_seq_num, control_rec_seq_num, sent>>
  BY DEF Toss, Again, seqnums
<1>4. \A q \in Peers : \A c \in events'[q] : c.pkt \in net
  <2>1. events \in [Peers -> SUBSET PendingBuffers]
    BY DEF TypeOK, EventsTypeOK
  <2>2. CASE Toss(p, b)
    BY <1>1, <2>1, <2>2 DEF Toss
  <2>3. CASE Again(p, b)
    <3> DEFINE c == [b EXCEPT !.retries = @ + 1]
    <3>1. c.pkt = b.pkt
      BY <2>1 DEF PendingBuffers
    <3>2. events' = [events EXCEPT ![p] = (@ \ {b}) \cup {c}]
      BY <2>3 DEF Again
    <3> HIDE DEF c
    <3>3. \A q \in Peers : events'[q] \subseteq events[q] \cup {c}
      BY <2>1, <3>2
    <3>4. QED
      BY <1>1, <3>1, <3>3
  <2>4. QED
    BY <2>2, <2>3
<1>5. QED
  BY <1>2, <1>3, <1>4, QuietOrder

LEMMA SentGrows ==
  ASSUME TypeOK, [Next]_vars
  PROVE  \A p \in Peers : sent'[p] \in Nat /\ sent'[p] >= sent[p]
<1> DEFINE Grows(p) == sent' = sent \/ sent' = [sent EXCEPT ![p] = @ + 1]
<1>1. sent' = sent \/ \E p \in Peers : Grows(p)
  <2>1. \A p \in Peers : CloseTunnel(p) => Grows(p)
    BY DEF CloseTunnel, Xmit
  <2>2. \A p \in Peers : \A k : CloseCall(p, k) => Grows(p)
    BY DEF CloseCall, Xmit
  <2>3. \A p \in Peers : Send(p) => Grows(p)
    BY DEF Send, Xmit
  <2>4. \A p \in Peers : BuildFdset(p) \/ Disconnect(p) => Grows(p)
    BY <2>1, <2>2 DEF BuildFdset, Disconnect
  <2>5. \A p \in Peers : Timer(p) => Grows(p)
    BY <2>1 DEF Timer, Toss, Again, GiveUp
  <2>6. \A p \in Peers : PppdExit(p) \/ ReadFails(p) \/ Receive(p) => Grows(p)
    BY DEF PppdExit, ReadFails, Receive
  <2>7. QED
    BY <2>3, <2>4, <2>5, <2>6 DEF Next, vars
<1>2. sent \in [Peers -> Nat]
  BY DEF TypeOK, NumbersTypeOK
<1>3. QED
  BY <1>1, <1>2

LEMMA FewSentBefore == TypeOK /\ [Next]_vars /\ FewSent' => FewSent
  BY SentGrows, FirstType, NumbersAreNat DEF FewSent

LEMMA InitOrder == Init => OrderInv
<1> SUFFICES ASSUME Init PROVE OrderInv
  OBVIOUS
<1>1. Numbered /\ PacketsNumbered /\ ScheduledWereSent
  BY IndexOfFirst DEF Init, Numbered, PacketsNumbered, ScheduledWereSent
<1>2. OneAheadAtMost
  BY IndexOfFirst, OtherEnd DEF Init, OneAheadAtMost
<1>3. TakenAreBehind /\ InOrderOnce
  BY DEF Init, TakenAreBehind, InOrderOnce
<1>4. QED
  BY <1>1, <1>2, <1>3 DEF OrderInv

LEMMA NextOrder == TypeOK /\ (FewSent => OrderInv) /\ [Next]_vars => (FewSent' => OrderInv')
<1> SUFFICES ASSUME TypeOK, FewSent => OrderInv, [Next]_vars, FewSent' PROVE OrderInv'
  OBVIOUS
<1>0. FewSent
  BY FewSentBefore
<1>1. OrderInv
  BY <1>0
<1>2. CASE UNCHANGED vars
  <2>1. UNCHANGED <<control_seq_num, control_rec_seq_num, sent, got, net, events>>
    BY <1>2 DEF vars, seqnums
  <2>2. QED
    BY <1>1, <2>1, QuietOrder DEF OrderInv, ScheduledWereSent
<1>3. ASSUME NEW p \in Peers, Send(p) PROVE OrderInv'
  <2>1. <<Other(p), Self>> \in Cids
    BY SelfIsAnEnd DEF Ends
  <2>2. QED
    BY <1>1, <1>3, <2>1, XmitOrder DEF Send
<1>4. ASSUME NEW p \in Peers, BuildFdset(p) PROVE OrderInv'
  <2>1. Due(p) \subseteq Ends
    BY DEF Due, TypeOK, FieldsTypeOK
  <2>2. QED
    BY <1>1, <1>4, <2>1, CloseCallOrder, CloseTunnelOrder DEF BuildFdset
<1>5. ASSUME NEW p \in Peers, Disconnect(p) PROVE OrderInv'
  BY <1>1, <1>5, CloseTunnelOrder DEF Disconnect
<1>6. ASSUME NEW p \in Peers, PppdExit(p) \/ ReadFails(p) PROVE OrderInv'
  <2>1. UNCHANGED <<control_seq_num, control_rec_seq_num, sent, got, net, events>>
    BY <1>6 DEF PppdExit, ReadFails, seqnums
  <2>2. QED
    BY <1>1, <2>1, QuietOrder DEF OrderInv, ScheduledWereSent
<1>7. ASSUME NEW p \in Peers, Timer(p) PROVE OrderInv'
  BY <1>1, <1>7, TimerOrder, CloseTunnelOrder DEF Timer, GiveUp
<1>8. ASSUME NEW p \in Peers, Receive(p) PROVE OrderInv'
  BY <1>0, <1>1, <1>8, ReceiveOrder DEF Receive
<1>9. QED
  BY <1>2, <1>3, <1>4, <1>5, <1>6, <1>7, <1>8 DEF Next

(* An end takes the messages of the other in the order they were sent and    *)
(* none twice, whatever the network loses, repeats or reorders and whichever  *)
(* calls are closed, also where the numbers wrap: as long as the other end has *)
(* not used every number since nothing was in flight.                         *)
THEOREM TakenInOrder == Spec => [](FewSent => InOrderOnce)
<1>1. TypeOK /\ (FewSent => OrderInv) => (FewSent => InOrderOnce)
  BY DEF OrderInv
<1>2. QED
  BY InitType, NextType, InitOrder, NextOrder, <1>1, PTL DEF Spec
------------------------------------------------------------------------------
(* A tunnel without calls never takes a packet in handle_special, and is the *)
(* reliable channel, also where the numbers wrap.                            *)

OnTunnel == \A m \in net : m.cid = <<Other(m.from), Self>>

NoZlbScheduled == \A p \in Peers : \A b \in events[p] : b.pkt.kind # "zlb"

ExactlyTaken ==
  \A p \in Peers : /\ Index(Other(p), control_rec_seq_num[p]) = Len(got[p])
                   /\ Len(got[p]) <= sent[Other(p)]
                   /\ \A i \in DOMAIN got[p] : got[p][i] = i

ExactInv == OrderInv /\ OnTunnel /\ NoZlbScheduled /\ ExactlyTaken

LEMMA NoCallsNoEnds ==
  ASSUME TypeOK, Calls = {}, NEW p \in Peers
  PROVE  calls[p] = {} /\ pppd[p] = {} /\ Due(p) \subseteq {Self}
  BY DEF TypeOK, FieldsTypeOK, Due, Ends

Open(p) == alive[p] /\ Self \notin closing[p]

LEMMA XmitExact ==
  ASSUME TypeOK, ExactInv, OrderInv', NEW p \in Peers,
         NEW kind \in {"msg", "cdn", "stop"}, NEW S \in SUBSET events[p],
         Xmit(p, Message(p, <<Other(p), Self>>, kind), S),
         UNCHANGED <<control_rec_seq_num, got>>
  PROVE  ExactInv'
<1> DEFINE m == Message(p, <<Other(p), Self>>, kind)
           b == [pkt |-> m, retries |-> 1]
<1>1. sent \in [Peers -> Nat] /\ sent' = [sent EXCEPT ![p] = @ + 1]
  BY DEF Xmit, TypeOK, NumbersTypeOK
<1>2. /\ m.from = p /\ m.cid = <<Other(p), Self>> /\ m.kind # "zlb"
  BY DEF Message
<1>3. b.pkt = m
  OBVIOUS
<1>4. \/ net' = net /\ events' = [events EXCEPT ![p] = S]
      \/ net' = net \cup {m} /\ events' = [events EXCEPT ![p] = S \cup {b}]
  BY DEF Xmit
<1> HIDE DEF m, b
<1>5. events \in [Peers -> SUBSET PendingBuffers] /\ S \subseteq events[p]
  BY DEF TypeOK, EventsTypeOK
<1>6. OnTunnel' /\ NoZlbScheduled'
  <2>1. \A q \in Peers : events'[q] \subseteq events[q] \cup {b}
    BY <1>4, <1>5
  <2>2. NoZlbScheduled'
    BY <1>2, <1>3, <2>1 DEF ExactInv, NoZlbScheduled
  <2>3. QED
    BY <1>2, <1>4, <2>2 DEF ExactInv, OnTunnel
<1>7. ExactlyTaken'
  <2>1. SUFFICES ASSUME NEW q \in Peers PROVE Len(got[q]) <= sent'[Other(q)]
    BY DEF ExactInv, ExactlyTaken, Index
  <2>2. Other(q) \in Peers /\ Len(got[q]) \in Nat
    BY OtherEnd, NumbersAreNat
  <2>3. Len(got[q]) <= sent[Other(q)]
    BY DEF ExactInv, ExactlyTaken
  <2>4. QED
    BY <1>1, <2>2, <2>3
<1>8. QED
  BY <1>6, <1>7 DEF ExactInv

(* Steps that leave the numbers alone. *)
LEMMA QuietExact ==
  ASSUME ExactInv, OrderInv', UNCHANGED <<control_rec_seq_num, sent, got, net>>,
         \A q \in Peers : \A b \in events'[q] : b.pkt.kind # "zlb"
  PROVE  ExactInv'
  BY DEF ExactInv, OnTunnel, ExactlyTaken, NoZlbScheduled, Index

LEMMA TimerExact ==
  ASSUME TypeOK, ExactInv, OrderInv', NEW p \in Peers, NEW b \in events[p],
         Toss(p, b) \/ Again(p, b), UNCHANGED got
  PROVE  ExactInv' /\ UNCHANGED <<alive, closing, sent, got>>
<1>1. b \in PendingBuffers /\ b.pkt \in net /\ b.pkt.kind # "zlb"
  BY DEF TypeOK, EventsTypeOK, ExactInv, OrderInv, ScheduledWereSent, NoZlbScheduled
<1>2. /\ UNCHANGED <<control_rec_seq_num, sent, got, alive, closing>>
      /\ net' = net
  BY <1>1 DEF Toss, Again, seqnums, close
<1>3. events \in [Peers -> SUBSET PendingBuffers]
  BY DEF TypeOK, EventsTypeOK
<1>4. \A q \in Peers : \A d \in events'[q] : d.pkt.kind # "zlb"
  <2>1. CASE Toss(p, b)
    BY <1>3, <2>1 DEF Toss, ExactInv, NoZlbScheduled
  <2>2. CASE Again(p, b)
    <3> DEFINE c == [b EXCEPT !.retries = @ + 1]
    <3>1. c.pkt = b.pkt
      BY <1>1 DEF PendingBuffers
    <3>2. events' = [events EXCEPT ![p] = (@ \ {b}) \cup {c}]
      BY <2>2 DEF Again
    <3> HIDE DEF c
    <3>3. QED
      BY <1>1, <1>3, <3>1, <3>2 DEF ExactInv, NoZlbScheduled
  <2>3. QED
    BY <2>1, <2>2
<1>5. QED
  BY <1>2, <1>4, QuietExact

LEMMA CloseTunnelExact ==
  ASSUME TypeOK, ExactInv, OrderInv', NEW p \in Peers, CloseTunnel(p), UNCHANGED got
  PROVE  ExactInv'
<1>1. CASE Self \in closing[p]
  <2>1. /\ events' = [events EXCEPT ![p] = {}]
        /\ UNCHANGED <<control_rec_seq_num, sent, got, net>>
    BY <1>1 DEF CloseTunnel, seqnums
  <2>2. \A q \in Peers : \A b \in events'[q] : b.pkt.kind # "zlb"
    BY <2>1 DEF ExactInv, NoZlbScheduled, TypeOK, EventsTypeOK
  <2>3. QED
    BY <2>1, <2>2, QuietExact
<1>2. CASE Self \notin closing[p]
  <2>1. /\ Xmit(p, Message(p, <<Other(p), Self>>, "stop"), {})
        /\ UNCHANGED <<control_rec_seq_num, got>>
    BY <1>2 DEF CloseTunnel
  <2>2. {} \in SUBSET events[p]
    OBVIOUS
  <2>3. QED
    BY <2>1, <2>2, XmitExact
<1>3. QED
  BY <1>1, <1>2

(* On a tunnel without calls every packet is for the tunnel. *)
LEMMA ReceiveIsForTunnel ==
  ASSUME TypeOK, ExactInv, NEW p \in Peers, NEW m \in net, m.from = Other(p),
         HandlePacket(p, m) \/ HandleSpecial(p, m)
  PROVE  /\ RecvMessage(p, m, Self) \/ RecvZlb(p, m, Self) \/ RecvOther(p, m, Self)
         /\ \/ net' = net
            \/ net' = net \cup {Zlb(p, <<Other(p), Self>>, control_rec_seq_num'[p])}
<1>1. m.cid = <<p, Self>>
  BY OtherEnd DEF ExactInv, OnTunnel
<1>2. m.cid \in Known(p) /\ m.cid[2] = Self
  BY <1>1 DEF Known
<1>3. RecvMessage(p, m, Self) \/ RecvZlb(p, m, Self) \/ RecvOther(p, m, Self)
  BY <1>2 DEF HandlePacket, HandleSpecial
<1>4. QED
  BY <1>3 DEF RecvMessage, RecvZlb, RecvOther

LEMMA ReceiveExact ==
  ASSUME TypeOK, ExactInv, OrderInv', FewSent, NEW p \in Peers, NEW m \in net,
         m.from = Other(p), HandlePacket(p, m) \/ HandleSpecial(p, m),
         UNCHANGED <<control_seq_num, events, alive, sent>>
  PROVE  /\ ExactInv'
         /\ \/ got' = got /\ UNCHANGED closing
            \/ /\ got' = [got EXCEPT ![p] = Append(@, Len(@) + 1)]
               /\ Len(got[p]) < sent[Other(p)]
               /\ closing' \in {closing, [closing EXCEPT ![p] = @ \cup {Self}]}
<1> DEFINE q == Other(p)
           n == Len(got[p])
           rec == control_rec_seq_num[p]
<1>1. q \in Peers /\ q # p /\ Other(q) = p /\ \A r \in Peers : r = p \/ r = q
  BY OtherEnd
<1>2. Wrap \in Nat /\ n \in Nat /\ sent[q] \in Nat /\ rec \in Seqs
  BY <1>1, FirstType, NumbersAreNat
<1>3. Index(q, rec) = n /\ n <= sent[q] /\ \A i \in DOMAIN got[p] : got[p][i] = i
  BY DEF ExactInv, ExactlyTaken
<1>4. \/ RecvMessage(p, m, Self) \/ RecvZlb(p, m, Self) \/ RecvOther(p, m, Self)
  BY ReceiveIsForTunnel
<1>5. OnTunnel' /\ NoZlbScheduled'
  <2>1. OnTunnel'
    BY ReceiveIsForTunnel DEF ExactInv, OnTunnel, Zlb
  <2>2. QED
    BY <2>1 DEF ExactInv, NoZlbScheduled
<1>6. CASE UNCHANGED <<control_rec_seq_num, got, closing>>
  <2>1. ExactlyTaken'
    BY <1>6 DEF ExactInv, ExactlyTaken, Index
  <2>2. QED
    BY <1>5, <1>6, <2>1 DEF ExactInv
<1>7. CASE RecvMessage(p, m, Self)
  <2>1. /\ m.kind # "zlb" /\ m.Ns = rec
        /\ control_rec_seq_num' = [control_rec_seq_num EXCEPT ![p] = (@ + 1) % Wrap]
        /\ got' = [got EXCEPT ![p] = Append(@, m.id)]
        /\ closing' \in {closing, [closing EXCEPT ![p] = @ \cup {Self}]}
    BY <1>7 DEF RecvMessage, Accept, Finish, InOrder
  <2>2. m.id = n + 1 /\ n < sent[q]
    <3>1. m.id = n + 1 /\ m.id <= sent[q]
      BY <1>3, <2>1 DEF ExactInv, OrderInv, PacketsNumbered
    <3>2. QED
      BY <1>2, <3>1
  <2>3. n + 1 < Wrap
    BY <1>1, <1>2, <1>3 DEF FewSent
  <2>4. control_rec_seq_num \in [Peers -> Seqs] /\ got \in [Peers -> Seq(Nat)]
    BY DEF TypeOK, NumbersTypeOK
  <2>5. Index(q, control_rec_seq_num'[p]) = n + 1
    <3>1. control_rec_seq_num'[p] = (rec + 1) % Wrap
      BY <2>1, <2>4
    <3>2. QED
      BY <1>1, <1>2, <1>3, <2>3, <3>1, IndexNext
  <2>6. /\ got'[p] = Append(got[p], n + 1) /\ got'[q] = got[q]
        /\ got' = [got EXCEPT ![p] = Append(@, Len(@) + 1)]
        /\ control_rec_seq_num'[q] = control_rec_seq_num[q]
    BY <1>1, <2>1, <2>2, <2>4
  <2>7. /\ Len(got'[p]) = n + 1 /\ DOMAIN got'[p] = 1 .. n + 1
        /\ \A i \in DOMAIN got'[p] : got'[p][i] = i
    <3>1. got[p] \in Seq(Nat) /\ DOMAIN got[p] = 1 .. n
      BY <2>4, NumbersAreNat
    <3>2. QED
      BY <1>2, <1>3, <2>6, <3>1
  <2>8. ExactlyTaken'
    <3>1. SUFFICES ASSUME NEW r \in Peers
                   PROVE  /\ Index(Other(r), control_rec_seq_num'[r]) = Len(got'[r])
                          /\ Len(got'[r]) <= sent[Other(r)]
                          /\ \A i \in DOMAIN got'[r] : got'[r][i] = i
      BY DEF ExactlyTaken, Index
    <3>2. CASE r = p
      BY <1>2, <2>2, <2>5, <2>7, <3>2
    <3>3. CASE r = q
      BY <1>1, <2>6, <3>3 DEF ExactInv, ExactlyTaken
    <3>4. QED
      BY <1>1, <3>2, <3>3
  <2>9. QED
    BY <1>5, <2>1, <2>2, <2>6, <2>8 DEF ExactInv
<1>8. QED
  BY <1>4, <1>6, <1>7 DEF RecvZlb, RecvOther

LEMMA InitExact == Init => ExactInv
<1> SUFFICES ASSUME Init PROVE ExactInv
  OBVIOUS
<1>1. \A p \in Peers : Other(p) \in Peers /\ Index(Other(p), First[Other(p)]) = 0
  BY OtherEnd, IndexOfFirst
<1>2. OnTunnel /\ NoZlbScheduled
  BY DEF Init, OnTunnel, NoZlbScheduled
<1>3. ExactlyTaken
  BY <1>1 DEF Init, ExactlyTaken
<1>4. QED
  BY InitOrder, <1>2, <1>3 DEF ExactInv

(* The steps of the reliable channel that a step of the model stands for. *)
opens == [p \in Peers |-> Open(p)]

SendStep(p) == /\ opens[p] /\ sent' = [sent EXCEPT ![p] = @ + 1] /\ got' = got
               /\ opens' \in {opens, [opens EXCEPT ![p] = FALSE]}
TakeStep(p) == /\ Len(got[p]) < sent[Other(p)] /\ sent' = sent
               /\ got' = [got EXCEPT ![p] = Append(@, Len(@) + 1)]
               /\ opens' \in {opens, [opens EXCEPT ![p] = FALSE]}
Stutter     == UNCHANGED <<sent, got, opens>>
ChannelStep == Stutter \/ \E p \in Peers : SendStep(p) \/ TakeStep(p)

LEMMA ClosingOne ==
  ASSUME TypeOK, NEW p \in Peers, ~Open(p)', \A q \in Peers : q # p => (Open(q)' <=> Open(q))
  PROVE  opens' = [opens EXCEPT ![p] = FALSE]
<1> DEFINE f == [opens EXCEPT ![p] = FALSE]
<1>1. \A q \in Peers : (opens[q] <=> Open(q)) /\ (opens'[q] <=> Open(q)')
  BY Zenon DEF opens
<1>2. \A q \in Peers : f[q] = IF q = p THEN FALSE ELSE opens[q]
  BY DEF opens
<1>3. \A q \in Peers : opens'[q] = f[q]
  <2>1. TAKE q \in Peers
  <2>2. opens'[q] = Open(q)' /\ opens[q] = Open(q)
    BY Zenon DEF opens
  <2>3. Open(q) \in BOOLEAN /\ Open(q)' \in BOOLEAN
    BY Zenon DEF Open
  <2>4. QED
    BY <1>2, <2>2, <2>3, Zenon
<1>4. opens' = [q \in Peers |-> opens'[q]] /\ f = [q \in Peers |-> f[q]]
  BY DEF opens
<1>5. QED
  BY <1>3, <1>4

LEMMA SameOpen ==
  ASSUME \A q \in Peers : Open(q)' <=> Open(q)
  PROVE  opens' = opens
<1>1. \A q \in Peers : Open(q)' = Open(q)
  BY Zenon DEF Open
<1>2. QED
  BY <1>1, Zenon DEF opens

LEMMA CloseTunnelStep ==
  ASSUME TypeOK, NEW p \in Peers, alive[p], CloseTunnel(p), UNCHANGED got
  PROVE  ChannelStep
<1>0. closing \in [Peers -> SUBSET Ends] /\ alive \in [Peers -> BOOLEAN]
  BY DEF TypeOK, FieldsTypeOK
<1>1. CASE Self \in closing[p]
  <2>1. /\ alive' = [alive EXCEPT ![p] = FALSE] /\ closing' = [closing EXCEPT ![p] = {}]
        /\ UNCHANGED <<sent, got>>
    BY <1>1 DEF CloseTunnel
  <2>2. \A q \in Peers : Open(q)' <=> Open(q)
    BY <1>0, <1>1, <2>1 DEF Open
  <2>3. QED
    BY <2>1, <2>2, SameOpen DEF ChannelStep, Stutter
<1>2. CASE Self \notin closing[p]
  <2>1. /\ sent' = [sent EXCEPT ![p] = @ + 1] /\ closing' = [closing EXCEPT ![p] = {Self}]
        /\ UNCHANGED <<got, alive>>
    BY <1>2 DEF CloseTunnel, Xmit
  <2>2. Open(p) /\ ~Open(p)' /\ \A q \in Peers : q # p => (Open(q)' <=> Open(q))
    BY <1>0, <1>2, <2>1 DEF Open
  <2>3. opens' = [opens EXCEPT ![p] = FALSE]
    BY <2>2, ClosingOne
  <2>4. QED
    BY <2>1, <2>2, <2>3 DEF ChannelStep, SendStep, opens
<1>3. QED
  BY <1>1, <1>2

LEMMA ReceiveStep ==
  ASSUME TypeOK, ExactInv, OrderInv', FewSent, NEW p \in Peers, Receive(p), Calls = {}
  PROVE  ExactInv' /\ ChannelStep
<1>1. PICK m \in net : m.from = Other(p) /\ (HandlePacket(p, m) \/ HandleSpecial(p, m))
  BY DEF Receive
<1>2. UNCHANGED <<control_seq_num, events, alive, sent>>
  BY DEF Receive
<1>3. /\ ExactInv'
      /\ \/ got' = got /\ UNCHANGED closing
         \/ /\ got' = [got EXCEPT ![p] = Append(@, Len(@) + 1)]
            /\ Len(got[p]) < sent[Other(p)]
            /\ closing' \in {closing, [closing EXCEPT ![p] = @ \cup {Self}]}
  BY <1>1, <1>2, ReceiveExact
<1>4. closing \in [Peers -> SUBSET Ends]
  BY DEF TypeOK, FieldsTypeOK
<1>5. CASE UNCHANGED closing
  <2>1. opens' = opens
    BY <1>2, <1>5 DEF opens, Open
  <2>2. QED
    BY <1>2, <1>3, <2>1 DEF ChannelStep, Stutter, TakeStep
<1>6. CASE closing' = [closing EXCEPT ![p] = @ \cup {Self}]
  <2>1. ~Open(p)' /\ \A q \in Peers : q # p => (Open(q)' <=> Open(q))
    BY <1>2, <1>4, <1>6 DEF Open
  <2>2. opens' = [opens EXCEPT ![p] = FALSE]
    BY <2>1, ClosingOne
  <2>3. CASE got' = got /\ UNCHANGED closing
    BY <1>3, <1>5, <2>3
  <2>4. QED
    BY <1>2, <1>3, <2>2, <2>3 DEF ChannelStep, TakeStep
<1>7. QED
  BY <1>3, <1>5, <1>6

LEMMA NextExact ==
  ASSUME Calls = {}, TypeOK, OrderInv', FewSent, ExactInv, [Next]_vars
  PROVE  ExactInv' /\ ChannelStep
<1>1. CASE UNCHANGED vars
  <2>1. UNCHANGED <<control_rec_seq_num, sent, got, net, events, alive, closing>>
    BY <1>1 DEF vars, seqnums, close
  <2>2. ExactInv'
    BY <2>1, QuietExact DEF ExactInv, NoZlbScheduled
  <2>3. QED
    BY <2>1, <2>2 DEF ChannelStep, Stutter, opens, Open
<1>2. ASSUME NEW p \in Peers, Send(p) PROVE ExactInv' /\ ChannelStep
  <2>1. /\ Xmit(p, Message(p, <<Other(p), Self>>, "msg"), events[p])
        /\ UNCHANGED <<control_rec_seq_num, cLr, got, alive, closing>>
        /\ Open(p) /\ sent' = [sent EXCEPT ![p] = @ + 1]
    BY <1>2 DEF Send, Idle, Open, close, Xmit
  <2>2. opens' = opens /\ opens[p]
    BY <2>1 DEF opens, Open
  <2>3. ChannelStep
    BY <2>1, <2>2 DEF ChannelStep, SendStep
  <2>4. events[p] \in SUBSET events[p]
    OBVIOUS
  <2>5. ExactInv'
    BY <2>1, <2>4, XmitExact
  <2>6. QED
    BY <2>3, <2>5
<1>3. ASSUME NEW p \in Peers, alive[p], CloseTunnel(p), UNCHANGED got
      PROVE  ExactInv' /\ ChannelStep
  BY <1>3, CloseTunnelExact, CloseTunnelStep
<1>4. ASSUME NEW p \in Peers, BuildFdset(p) PROVE ExactInv' /\ ChannelStep
  <2>1. alive[p] /\ CloseTunnel(p) /\ UNCHANGED got
    BY <1>4, NoCallsNoEnds DEF BuildFdset
  <2>2. QED
    BY <1>3, <2>1
<1>5. ASSUME NEW p \in Peers, Disconnect(p) PROVE ExactInv' /\ ChannelStep
  BY <1>3, <1>5 DEF Disconnect, Idle
<1>6. ASSUME NEW p \in Peers, PppdExit(p) \/ ReadFails(p) PROVE FALSE
  BY <1>6, NoCallsNoEnds DEF PppdExit, ReadFails
<1>7. ASSUME NEW p \in Peers, Timer(p) PROVE ExactInv' /\ ChannelStep
  <2>1. PICK b \in events[p] : Toss(p, b) \/ Again(p, b) \/ GiveUp(p, b)
    BY <1>7 DEF Timer
  <2>2. CASE GiveUp(p, b)
    BY <1>3, <1>7, <2>2 DEF GiveUp, Timer, Idle
  <2>3. CASE Toss(p, b) \/ Again(p, b)
    <3>1. UNCHANGED got
      BY <1>7 DEF Timer
    <3>2. ExactInv' /\ UNCHANGED <<alive, closing, sent, got>>
      BY <2>3, <3>1, TimerExact
    <3>3. QED
      BY <3>2 DEF ChannelStep, Stutter, opens, Open
  <2>4. QED
    BY <2>1, <2>2, <2>3
<1>8. ASSUME NEW p \in Peers, Receive(p) PROVE ExactInv' /\ ChannelStep
  BY <1>8, ReceiveStep
<1>9. QED
  BY <1>1, <1>2, <1>4, <1>5, <1>6, <1>7, <1>8 DEF Next

LEMMA ExactInductive ==
  ASSUME Calls = {}
  PROVE  TypeOK /\ (FewSent' => OrderInv') /\ (FewSent => ExactInv) /\ [Next]_vars
         => (FewSent' => ExactInv')
  BY NextExact, FewSentBefore

LEMMA ChannelStepRefines ==
  ChannelStep => [Abstract!Next]_<<sent, got, [p \in Peers |-> alive[p] /\ Self \notin closing[p]]>>
<1> SUFFICES ASSUME ChannelStep
             PROVE  [Abstract!Next]_<<sent, got, [p \in Peers |-> alive[p] /\ Self \notin closing[p]]>>
  OBVIOUS
<1>1. /\ [p \in Peers |-> alive[p] /\ Self \notin closing[p]] = opens
      /\ [p \in Peers |-> alive[p] /\ Self \notin closing[p]]' = opens'
  BY DEF opens, Open
<1>2. ASSUME NEW p \in Peers, SendStep(p) PROVE Abstract!Send(p)
  BY <1>1, <1>2, Zenon DEF SendStep, Abstract!Send
<1>3. ASSUME NEW p \in Peers, TakeStep(p) PROVE Abstract!Take(p)
  BY <1>1, <1>3, OtherEnd, Zenon DEF TakeStep, Abstract!Take
<1>4. QED
  BY <1>1, <1>2, <1>3, Zenon DEF ChannelStep, Stutter, Abstract!Next

(* On a tunnel without calls the control connection is the reliable channel *)
(* of ReliableChannel, also where the numbers wrap, for as long as no end    *)
(* has used every number since nothing was in flight.                        *)
THEOREM ChannelRefinement ==
  ASSUME Calls = {} PROVE Spec /\ []FewSent => ImplementsReliableChannel
<1>1. Init => Abstract!Init
  BY OtherEnd DEF Init, Abstract!Init
<1>2. TypeOK /\ (FewSent' => OrderInv') /\ (FewSent => ExactInv) /\ FewSent /\ FewSent'
      /\ [Next]_vars
      => [Abstract!Next]_<<sent, got, [p \in Peers |-> alive[p] /\ Self \notin closing[p]]>>
  BY NextExact, ChannelStepRefines
<1>3. Init => (FewSent => ExactInv) /\ (FewSent => OrderInv)
  BY InitExact, InitOrder
<1>4. QED
  BY InitType, NextType, NextOrder, ExactInductive, <1>1, <1>2, <1>3, PTL
     DEF Spec, ImplementsReliableChannel, Abstract!Spec
------------------------------------------------------------------------------
(* Until a number wraps, numbers compare as messages do *)

(* control_xmit compares a number with cLr as it stands, without regard to *)
(* the wrap, and check_control's half-range test is one of int.            *)
NoWrap == \A p \in Peers : First[p] + sent[p] + 1 < Wrap

LEMMA NoWrapFewSent == TypeOK /\ NoWrap => FewSent
  BY FirstType, NumbersAreNat DEF NoWrap, FewSent

LEMMA NoWrapBefore == TypeOK /\ [Next]_vars /\ NoWrap' => NoWrap
  BY SentGrows, FirstType, NumbersAreNat DEF NoWrap

LEMMA Straight ==
  ASSUME TypeOK, NoWrap, NEW p \in Peers, NEW n \in Seqs, Index(p, n) <= sent[p] + 1
  PROVE  n = First[p] + Index(p, n)
<1>1. First[p] \in Nat /\ Wrap \in Nat /\ sent[p] \in Nat /\ n \in Nat
  BY FirstType, NumbersAreNat DEF Seqs
<1>2. QED
  BY <1>1 DEF NoWrap, Index

WithinHalf == \A p \in Peers : sent[p] + 1 < Wrap \div 2

(* A message that was taken is recognised as old when its sender repeats it, *)
(* so that the ZLB it waits for is sent again: as long as no number has      *)
(* wrapped and no more than half of them are used.                           *)
LEMMA OldOnes == TypeOK /\ OrderInv /\ NoWrap /\ WithinHalf => OldRecognised
<1> SUFFICES ASSUME TypeOK, OrderInv, NoWrap, WithinHalf,
                    NEW m \in net, m.kind # "zlb", Taken(m.from, m.id)
             PROVE  IsOld(Other(m.from), m.Ns)
  BY DEF OldRecognised
<1> DEFINE p == m.from
           q == Other(m.from)
           rec == control_rec_seq_num[q]
<1>1. p \in Peers /\ q \in Peers /\ Other(q) = p /\ m.Ns \in Seqs /\ m.id \in Nat
  BY PacketFields, OtherEnd
<1>2. rec \in Seqs /\ sent[p] \in Nat /\ First[p] \in Nat /\ Wrap \in Nat
      /\ Index(p, rec) \in Nat /\ Index(p, m.Ns) \in Nat
  BY <1>1, NumbersAreNat, FirstType, IndexType
<1>3. m.id = Index(p, m.Ns) + 1 /\ m.id <= sent[p]
  BY DEF OrderInv, PacketsNumbered
<1>4. m.id <= Index(p, rec) /\ Index(p, rec) <= sent[p] + 1
  <2>1. PICK i \in DOMAIN got[q] : got[q][i] = m.id
    BY DEF Taken, Range
  <2>2. QED
    BY <1>1, <2>1 DEF OrderInv, TakenAreBehind, OneAheadAtMost
<1>5. m.Ns = First[p] + Index(p, m.Ns)
  <2>1. Index(p, m.Ns) <= sent[p] + 1
    BY <1>2, <1>3
  <2>2. QED
    BY <1>1, <2>1, Straight
<1>6. rec = First[p] + Index(p, rec)
  BY <1>1, <1>2, <1>4, Straight
<1> DEFINE a == Index(p, m.Ns)
           b == Index(p, rec)
           half == Wrap \div 2
<1>7. half \in Int /\ sent[p] + 1 < half
  BY <1>1, <1>2 DEF WithinHalf
<1> HIDE DEF a, b, half, rec
<1>8. a \in Nat /\ b \in Nat /\ a < b /\ b - a < half
  BY <1>2, <1>3, <1>4, <1>7 DEF a, b
<1>9. m.Ns < rec /\ rec - m.Ns < half
  BY <1>2, <1>5, <1>6, <1>8 DEF a, b
<1>10. QED
  BY <1>9 DEF IsOld, rec, half

(* What OldOnes says, of every state of every behaviour, with or without calls. *)
THEOREM TakenAreRecognised == Spec => [](NoWrap /\ WithinHalf => OldRecognised)
<1>1. TypeOK /\ (FewSent => OrderInv) => (NoWrap /\ WithinHalf => OldRecognised)
  BY OldOnes, NoWrapFewSent
<1>2. QED
  BY InitType, NextType, InitOrder, NextOrder, <1>1, PTL DEF Spec
------------------------------------------------------------------------------
(* On a tunnel without calls nothing is lost until a number wraps *)

AcksAreTaken == /\ \A m \in net : m.Nr <= control_rec_seq_num[m.from]
                /\ \A p \in Peers : cLr[p] <= control_rec_seq_num[Other(p)]

LossInv == AcksAreTaken /\ NothingLost

(* With what was taken known exactly, "taken" is a comparison of numbers. *)
LEMMA TakenIsCounted ==
  ASSUME TypeOK, ExactlyTaken, NEW p \in Peers, NEW i \in Nat, i >= 1
  PROVE  Taken(p, i) <=> i <= Len(got[Other(p)])
<1>1. Other(p) \in Peers
  BY OtherEnd
<1>2. /\ DOMAIN got[Other(p)] = 1 .. Len(got[Other(p)]) /\ Len(got[Other(p)]) \in Nat
      /\ \A j \in DOMAIN got[Other(p)] : got[Other(p)][j] = j
  BY <1>1, NumbersAreNat DEF ExactlyTaken
<1>3. QED
  BY <1>2 DEF Taken, Range

LEMMA ExactNumbers ==
  ASSUME TypeOK, ExactInv, NoWrap, NEW p \in Peers
  PROVE  /\ control_rec_seq_num[Other(p)] = First[p] + Len(got[Other(p)])
         /\ Len(got[Other(p)]) \in Nat /\ Len(got[Other(p)]) <= sent[p]
<1>1. Other(p) \in Peers /\ Other(Other(p)) = p /\ sent[p] \in Nat
  BY OtherEnd, NumbersAreNat
<1>2. /\ control_rec_seq_num[Other(p)] \in Seqs /\ Len(got[Other(p)]) \in Nat
      /\ Index(p, control_rec_seq_num[Other(p)]) = Len(got[Other(p)])
      /\ Len(got[Other(p)]) <= sent[p]
  BY <1>1, NumbersAreNat DEF ExactInv, ExactlyTaken
<1>3. QED
  BY <1>1, <1>2, Straight

(* A message whose number is below what was acknowledged has been taken. *)
LEMMA ReceivedWasTaken ==
  ASSUME TypeOK, ExactInv, AcksAreTaken, NoWrap, NEW p \in Peers, NEW m \in net, m.from = p,
         m.kind # "zlb", Received(p, m.Ns)
  PROVE  Taken(p, m.id)
<1>1. Other(p) \in Peers /\ Other(Other(p)) = p
  BY OtherEnd
<1>2. m.id \in Nat /\ m.Ns \in Seqs /\ m.Ns \in Nat /\ Index(p, m.Ns) \in Nat
  BY PacketFields
<1>3. First[p] \in Nat /\ cLr[p] \in Nat /\ sent[p] \in Nat
  BY <1>1, FirstType, NumbersAreNat
<1>4. m.id = Index(p, m.Ns) + 1 /\ Index(p, m.Ns) <= sent[p] + 1
  BY <1>2, <1>3 DEF ExactInv, OrderInv, PacketsNumbered
<1>5. m.Ns = First[p] + m.id - 1
  BY <1>2, <1>3, <1>4, Straight
<1>6. cLr[p] <= First[p] + Len(got[Other(p)]) /\ Len(got[Other(p)]) \in Nat
  BY <1>1, ExactNumbers DEF AcksAreTaken
<1>7. m.id <= Len(got[Other(p)]) /\ m.id >= 1
  BY <1>2, <1>3, <1>4, <1>5, <1>6 DEF Received
<1>8. QED
  BY <1>2, <1>7, TakenIsCounted DEF ExactInv

(* Sending keeps everything that was sent taken or scheduled. *)
LEMMA XmitLoss ==
  ASSUME TypeOK, ExactInv, LossInv, NoWrap, NEW p \in Peers,
         NEW kind \in {"msg", "cdn", "stop"}, NEW S \in SUBSET events[p],
         Xmit(p, Message(p, <<Other(p), Self>>, kind), S),
         UNCHANGED <<control_rec_seq_num, cLr, got>>,
         \A q \in Peers : q # p => UNCHANGED <<alive[q], closing[q]>>,
         Open(p)' => S = events[p] /\ Open(p)
  PROVE  LossInv'
<1> DEFINE m == Message(p, <<Other(p), Self>>, kind)
           b == [pkt |-> m, retries |-> 1]
<1>1. sent \in [Peers -> Nat] /\ sent' = [sent EXCEPT ![p] = @ + 1]
  BY DEF Xmit, TypeOK, NumbersTypeOK
<1>2. /\ m.from = p /\ m.id = sent[p] + 1
      /\ m.Nr = control_rec_seq_num[p] /\ m.Ns = First[p] + sent[p]
  <2>1. control_seq_num[p] \in Seqs /\ Index(p, control_seq_num[p]) = sent[p]
        /\ sent[p] \in Nat
    BY NumbersAreNat DEF ExactInv, OrderInv, Numbered
  <2>2. control_seq_num[p] = First[p] + sent[p]
    BY <2>1, Straight
  <2>3. QED
    BY <2>2 DEF Message
<1>3. b.pkt = m
  OBVIOUS
<1>4. \/ /\ Received(p, m.Ns) /\ net' = net
         /\ events' = [events EXCEPT ![p] = S]
      \/ /\ net' = net \cup {m}
         /\ events' = [events EXCEPT ![p] = S \cup {b}]
  BY DEF Xmit
<1> HIDE DEF m, b
<1>5. events \in [Peers -> SUBSET PendingBuffers] /\ S \subseteq events[p]
  BY DEF TypeOK, EventsTypeOK
<1>6. ~Received(p, m.Ns)
  <2>1. cLr[p] \in Nat /\ First[p] \in Nat /\ sent[p] \in Nat
    BY FirstType, NumbersAreNat
  <2>2. cLr[p] <= First[p] + Len(got[Other(p)]) /\ Len(got[Other(p)]) \in Nat
        /\ Len(got[Other(p)]) <= sent[p]
    BY ExactNumbers DEF LossInv, AcksAreTaken
  <2>3. QED
    BY <1>2, <2>1, <2>2 DEF Received
<1>7. net' = net \cup {m} /\ events' = [events EXCEPT ![p] = S \cup {b}]
  BY <1>4, <1>6
<1>8. AcksAreTaken'
  <2>1. control_rec_seq_num[p] \in Nat
    BY NumbersAreNat
  <2>2. QED
    BY <1>2, <1>7, <2>1 DEF LossInv, AcksAreTaken
<1>9. NothingLost'
  <2>1. SUFFICES ASSUME NEW q \in Peers, Open(q)', NEW i \in 1 .. sent'[q]
                 PROVE  Taken(q, i)' \/ Scheduled(q, i)'
    BY DEF NothingLost, Open
  <2>2. Taken(q, i)' <=> Taken(q, i)
    BY DEF Taken
  <2>3. CASE q # p
    <3>1. Open(q) /\ sent'[q] = sent[q] /\ events'[q] = events[q]
      BY <1>1, <1>5, <1>7, <2>1, <2>3 DEF Open
    <3>2. Taken(q, i) \/ Scheduled(q, i)
      BY <2>1, <3>1 DEF LossInv, NothingLost, Open
    <3>3. QED
      BY <2>2, <3>1, <3>2 DEF Scheduled
  <2>4. CASE q = p
    <3>1. Open(p) /\ events'[p] = events[p] \cup {b}
      BY <1>5, <1>7, <2>1, <2>4
    <3>2. i \in 1 .. sent[p] \/ i = sent[p] + 1
      BY <1>1, <2>1, <2>4
    <3>3. CASE i \in 1 .. sent[p]
      <4>1. Taken(p, i) \/ Scheduled(p, i)
        BY <3>1, <3>3 DEF LossInv, NothingLost, Open
      <4>2. QED
        BY <2>2, <2>4, <3>1, <4>1 DEF Scheduled
    <3>4. CASE i = sent[p] + 1
      BY <1>2, <1>3, <2>4, <3>1, <3>4 DEF Scheduled
    <3>5. QED
      BY <3>2, <3>3, <3>4
  <2>5. QED
    BY <2>3, <2>4
<1>10. QED
  BY <1>8, <1>9 DEF LossInv

(* Steps that leave the numbers alone: what leaves the schedule of an open *)
(* tunnel must have been taken.                                            *)
QuietStep == /\ UNCHANGED <<control_rec_seq_num, cLr, sent, got, net>>
             /\ \A q \in Peers : Open(q)' => Open(q)

LEMMA QuietLoss ==
  ASSUME LossInv, QuietStep,
         \A q \in Peers : Open(q)' => \A b \in events[q] :
           Taken(q, b.pkt.id) \/ Scheduled(q, b.pkt.id)'
  PROVE  LossInv'
<1>1. AcksAreTaken'
  BY DEF LossInv, QuietStep, AcksAreTaken
<1>2. NothingLost'
  <2>1. SUFFICES ASSUME NEW q \in Peers, Open(q)', NEW i \in 1 .. sent[q]
                 PROVE  Taken(q, i) \/ Scheduled(q, i)'
    BY DEF NothingLost, Open, QuietStep, Taken
  <2>2. Taken(q, i) \/ Scheduled(q, i)
    BY <2>1 DEF LossInv, NothingLost, Open, QuietStep
  <2>3. QED
    BY <2>1, <2>2 DEF Scheduled
<1>3. QED
  BY <1>1, <1>2 DEF LossInv

LEMMA TimerLoss ==
  ASSUME TypeOK, ExactInv, LossInv, NoWrap, NEW p \in Peers, NEW b \in events[p],
         Toss(p, b) \/ Again(p, b), UNCHANGED got
  PROVE  LossInv'
<1>1. b \in PendingBuffers /\ b.pkt \in net /\ b.pkt.from = p /\ b.pkt.kind # "zlb"
  BY DEF TypeOK, EventsTypeOK, ExactInv, OrderInv, ScheduledWereSent, NoZlbScheduled
<1>2. /\ UNCHANGED <<control_rec_seq_num, cLr, sent, got, alive, closing>>
      /\ net' = net
  BY <1>1 DEF Toss, Again, seqnums, close
<1>3. QuietStep
  BY <1>2 DEF QuietStep, Open
<1>4. events \in [Peers -> SUBSET PendingBuffers]
  BY DEF TypeOK, EventsTypeOK
<1>5. CASE Toss(p, b)
  <2>1. events' = [events EXCEPT ![p] = @ \ {b}]
    BY <1>5 DEF Toss
  <2>2. Taken(p, b.pkt.id)
    BY <1>1, <1>5, ReceivedWasTaken DEF Toss, LossInv
  <2>3. \A q \in Peers : \A c \in events[q] : Taken(q, c.pkt.id) \/ Scheduled(q, c.pkt.id)'
    BY <1>4, <2>1, <2>2 DEF Scheduled
  <2>4. QED
    BY <1>3, <2>3, QuietLoss
<1>6. CASE Again(p, b)
  <2> DEFINE c == [b EXCEPT !.retries = @ + 1]
  <2>1. c.pkt = b.pkt
    BY <1>1 DEF PendingBuffers
  <2>2. events' = [events EXCEPT ![p] = (@ \ {b}) \cup {c}]
    BY <1>6 DEF Again
  <2> HIDE DEF c
  <2>3. \A q \in Peers : \A d \in events[q] : Scheduled(q, d.pkt.id)'
    BY <1>4, <2>1, <2>2 DEF Scheduled
  <2>4. QED
    BY <1>3, <2>3, QuietLoss
<1>7. QED
  BY <1>5, <1>6

LEMMA CloseTunnelLoss ==
  ASSUME TypeOK, ExactInv, LossInv, NoWrap, NEW p \in Peers, CloseTunnel(p), UNCHANGED got
  PROVE  LossInv'
<1>0. TypeOK /\ closing \in [Peers -> SUBSET Ends] /\ alive \in [Peers -> BOOLEAN]
      /\ events \in [Peers -> SUBSET PendingBuffers]
  BY DEF TypeOK, FieldsTypeOK, EventsTypeOK
<1>1. CASE Self \in closing[p]
  <2>1. /\ alive' = [alive EXCEPT ![p] = FALSE]
        /\ events' = [events EXCEPT ![p] = {}]
        /\ closing' = [closing EXCEPT ![p] = {}]
        /\ UNCHANGED <<control_rec_seq_num, cLr, sent, got, net>>
    BY <1>1 DEF CloseTunnel, seqnums
  <2>2. ~Open(p)' /\ \A q \in Peers \ {p} : /\ (Open(q)' <=> Open(q))
                                          /\ events'[q] = events[q]
    BY <1>0, <2>1 DEF Open
  <2>3. QuietStep
    BY <2>1, <2>2 DEF QuietStep
  <2>4. \A q \in Peers : Open(q)' => \A b \in events[q] : Scheduled(q, b.pkt.id)'
    BY <2>2 DEF Scheduled
  <2>5. QED
    BY <2>3, <2>4, QuietLoss
<1>2. CASE Self \notin closing[p]
  <2>1. /\ Xmit(p, Message(p, <<Other(p), Self>>, "stop"), {})
        /\ closing' = [closing EXCEPT ![p] = {Self}]
        /\ UNCHANGED <<control_rec_seq_num, cLr, got, alive>>
    BY <1>2 DEF CloseTunnel
  <2>2. ~Open(p)' /\ \A q \in Peers : q # p => UNCHANGED <<alive[q], closing[q]>>
    BY <1>0, <2>1 DEF Open
  <2>3. {} \in SUBSET events[p]
    OBVIOUS
  <2>4. QED
    BY <2>1, <2>2, <2>3, XmitLoss
<1>3. QED
  BY <1>1, <1>2

LEMMA ReceiveLoss ==
  ASSUME TypeOK, TypeOK', ExactInv, ExactInv', LossInv, NoWrap, NEW p \in Peers, NEW m \in net,
         m.from = Other(p), HandlePacket(p, m) \/ HandleSpecial(p, m),
         UNCHANGED <<control_seq_num, events, alive, sent>>,
         closing' \in {closing, [closing EXCEPT ![p] = @ \cup {Self}]},
         got' \in {got, [got EXCEPT ![p] = Append(@, Len(@) + 1)]}
  PROVE  LossInv'
<1> DEFINE q == Other(p)
<1>1. q \in Peers /\ q # p /\ Other(q) = p /\ \A r \in Peers : r = p \/ r = q
  BY OtherEnd
<1>2. \/ RecvMessage(p, m, Self) \/ RecvZlb(p, m, Self) \/ RecvOther(p, m, Self)
  BY ReceiveIsForTunnel
<1>3. \A r \in Peers : Len(got'[r]) \in Nat /\ Len(got'[r]) >= Len(got[r])
      /\ \A i \in DOMAIN got[r] : i \in DOMAIN got'[r] /\ got'[r][i] = got[r][i]
  <2>1. got \in [Peers -> Seq(Nat)]
    BY DEF TypeOK, NumbersTypeOK
  <2>2. SUFFICES ASSUME NEW r \in Peers
                 PROVE  Len(got'[r]) \in Nat /\ Len(got'[r]) >= Len(got[r])
                        /\ \A i \in DOMAIN got[r] : i \in DOMAIN got'[r] /\ got'[r][i] = got[r][i]
    OBVIOUS
  <2>3. got[r] \in Seq(Nat) /\ (got'[r] = got[r] \/ got'[r] = Append(got[r], Len(got[r]) + 1))
    BY <2>1
  <2>4. CASE got'[r] = got[r]
    BY <2>3, <2>4
  <2>5. CASE got'[r] = Append(got[r], Len(got[r]) + 1)
    <3>1. Len(got'[r]) = Len(got[r]) + 1 /\ Len(got[r]) \in Nat
      BY <2>3, <2>5
    <3>2. \A i \in DOMAIN got[r] : i \in DOMAIN got'[r] /\ got'[r][i] = got[r][i]
      BY <2>3, <2>5
    <3>3. QED
      BY <3>1, <3>2
  <2>6. QED
    BY <2>3, <2>4, <2>5
<1>4. \A r \in Peers : control_rec_seq_num'[r] \in Nat
                        /\ control_rec_seq_num'[r] >= control_rec_seq_num[r]
  <2>1. SUFFICES ASSUME NEW r \in Peers
                 PROVE  control_rec_seq_num'[r] \in Nat
                        /\ control_rec_seq_num'[r] >= control_rec_seq_num[r]
    OBVIOUS
  <2>2. Other(r) \in Peers /\ Other(Other(r)) = r /\ First[Other(r)] \in Nat
        /\ sent[Other(r)] \in Nat
    BY OtherEnd, FirstType, NumbersAreNat
  <2>3. control_rec_seq_num[r] = First[Other(r)] + Len(got[r]) /\ Len(got[r]) \in Nat
    BY <2>2, ExactNumbers
  <2>4. /\ control_rec_seq_num'[r] \in Seqs
        /\ Index(Other(r), control_rec_seq_num'[r]) = Len(got'[r])
        /\ Len(got'[r]) <= sent[Other(r)]
    BY DEF ExactInv, ExactlyTaken, Index, TypeOK, NumbersTypeOK
  <2>5. control_rec_seq_num'[r] = First[Other(r)] + Len(got'[r])
    BY <1>3, <2>2, <2>4, Straight
  <2>6. QED
    BY <1>3, <2>2, <2>3, <2>5
<1>5. \A k \in net' : k.Nr <= control_rec_seq_num'[k.from]
  <2>1. SUFFICES ASSUME NEW k \in net' PROVE k.Nr <= control_rec_seq_num'[k.from]
    OBVIOUS
  <2>2. CASE k \in net
    <3>1. k.Nr <= control_rec_seq_num[k.from] /\ k.Nr \in Nat /\ k.from \in Peers
      BY <2>2, PacketFields DEF LossInv, AcksAreTaken
    <3>2. control_rec_seq_num[k.from] \in Nat
      BY <3>1, NumbersAreNat
    <3>3. QED
      BY <1>4, <3>1, <3>2
  <2>3. CASE k = Zlb(p, <<q, Self>>, control_rec_seq_num'[p])
    <3>1. k.Nr = control_rec_seq_num'[p] /\ k.from = p
      BY <2>3 DEF Zlb
    <3>2. QED
      BY <1>4, <3>1
  <2>4. QED
    BY <2>2, <2>3, ReceiveIsForTunnel
<1>6. \A r \in Peers : cLr'[r] <= control_rec_seq_num[Other(r)]
  <2>1. cLr' \in {cLr, [cLr EXCEPT ![p] = m.Nr]} /\ cLr \in [Peers -> Seqs]
    BY <1>2 DEF RecvMessage, Accept, RecvZlb, RecvOther, TypeOK, NumbersTypeOK
  <2>2. m.Nr <= control_rec_seq_num[q] /\ \A r \in Peers : cLr[r] <= control_rec_seq_num[Other(r)]
    BY DEF LossInv, AcksAreTaken
  <2>3. QED
    BY <2>1, <2>2
<1>7. AcksAreTaken'
  <2>1. SUFFICES ASSUME NEW r \in Peers PROVE cLr'[r] <= control_rec_seq_num'[Other(r)]
    BY <1>5 DEF AcksAreTaken
  <2>2. Other(r) \in Peers /\ control_rec_seq_num[Other(r)] \in Nat
    BY OtherEnd, NumbersAreNat
  <2>3. cLr' \in [Peers -> Seqs] /\ \A x \in Seqs : x \in Nat
    BY DEF TypeOK, NumbersTypeOK, Seqs
  <2>4. cLr'[r] \in Nat
    BY <2>3
  <2>5. QED
    BY <1>4, <1>6, <2>2, <2>4
<1>8. NothingLost'
  <2>1. \A r \in Peers : \A i : Taken(r, i) => Taken(r, i)'
    <3>1. \A r \in Peers : Range(got[r]) \subseteq Range(got'[r])
      BY <1>3 DEF Range
    <3>2. QED
      BY <3>1, OtherEnd DEF Taken
  <2>2. \A r \in Peers : Open(r)' => Open(r)
    BY DEF Open, TypeOK, FieldsTypeOK
  <2>3. \A r \in Peers : \A i : Scheduled(r, i)' <=> Scheduled(r, i)
    BY DEF Scheduled
  <2>4. QED
    BY <2>1, <2>2, <2>3 DEF LossInv, NothingLost, Open
<1>9. QED
  BY <1>7, <1>8 DEF LossInv

LEMMA NextLoss ==
  ASSUME Calls = {}, TypeOK, TypeOK', ExactInv, ExactInv', NoWrap, LossInv, [Next]_vars
  PROVE  LossInv'
<1>1. CASE UNCHANGED vars
  <2>1. UNCHANGED <<control_rec_seq_num, cLr, sent, got, net, events, alive, closing>>
    BY <1>1 DEF vars, seqnums, close
  <2>2. QED
    BY <2>1 DEF LossInv, AcksAreTaken, NothingLost, Taken, Scheduled
<1>2. ASSUME NEW p \in Peers, Send(p) PROVE LossInv'
  <2>1. /\ Xmit(p, Message(p, <<Other(p), Self>>, "msg"), events[p])
        /\ UNCHANGED <<control_rec_seq_num, cLr, got, alive, closing>>
        /\ Open(p)
    BY <1>2 DEF Send, Idle, Open, close
  <2>2. events[p] \in SUBSET events[p]
    OBVIOUS
  <2>3. QED
    BY <2>1, <2>2, XmitLoss
<1>3. ASSUME NEW p \in Peers, BuildFdset(p) PROVE LossInv'
  <2>1. CloseTunnel(p) /\ UNCHANGED got
    BY <1>3, NoCallsNoEnds DEF BuildFdset
  <2>2. QED
    BY <2>1, CloseTunnelLoss
<1>4. ASSUME NEW p \in Peers, Disconnect(p) PROVE LossInv'
  BY <1>4, CloseTunnelLoss DEF Disconnect
<1>5. ASSUME NEW p \in Peers, PppdExit(p) \/ ReadFails(p) PROVE FALSE
  BY <1>5, NoCallsNoEnds DEF PppdExit, ReadFails
<1>6. ASSUME NEW p \in Peers, Timer(p) PROVE LossInv'
  BY <1>6, CloseTunnelLoss, TimerLoss DEF Timer, GiveUp
<1>7. ASSUME NEW p \in Peers, Receive(p) PROVE LossInv'
  <2>1. PICK m \in net : m.from = Other(p) /\ (HandlePacket(p, m) \/ HandleSpecial(p, m))
    BY <1>7 DEF Receive
  <2>2. UNCHANGED <<control_seq_num, events, alive, sent>>
    BY <1>7 DEF Receive
  <2>3. /\ closing' \in {closing, [closing EXCEPT ![p] = @ \cup {Self}]}
        /\ got' \in {got, [got EXCEPT ![p] = Append(@, Len(@) + 1)]}
    BY <2>1, <2>2, ReceiveExact, NoWrapFewSent DEF ExactInv
  <2>4. QED
    BY <2>1, <2>2, <2>3, ReceiveLoss
<1>8. QED
  BY <1>1, <1>2, <1>3, <1>4, <1>5, <1>6, <1>7 DEF Next

LEMMA InitLoss == Init => LossInv
<1> SUFFICES ASSUME Init PROVE LossInv
  OBVIOUS
<1>1. \A p \in Peers : Other(p) \in Peers /\ Other(Other(p)) = p /\ First[p] \in Nat
  BY OtherEnd, FirstType
<1>2. AcksAreTaken
  BY <1>1 DEF Init, AcksAreTaken
<1>3. NothingLost
  BY DEF Init, NothingLost
<1>4. QED
  BY <1>2, <1>3 DEF LossInv

LEMMA LossInductive ==
  ASSUME Calls = {}
  PROVE  TypeOK /\ TypeOK' /\ (FewSent => ExactInv) /\ (FewSent' => ExactInv')
         /\ (NoWrap => LossInv) /\ [Next]_vars
         => (NoWrap' => LossInv')
<1>1. TypeOK' /\ NoWrap' => FewSent'
  <2>1. TypeOK' => \A p \in Peers : sent'[p] \in Nat
    BY DEF TypeOK, NumbersTypeOK
  <2>2. QED
    BY <2>1, FirstType DEF NoWrap, FewSent
<1>2. QED
  BY <1>1, NextLoss, NoWrapBefore, NoWrapFewSent

(* On a tunnel without calls, as long as no sequence number has wrapped, a  *)
(* message that has left the schedule of an open end has been taken: a      *)
(* reordered acknowledgement may move cLr back, never beyond what was taken. *)
THEOREM NothingIsLost == ASSUME Calls = {} PROVE Spec => [](NoWrap => NothingLost)
<1>1. (NoWrap => LossInv) => (NoWrap => NothingLost)
  BY DEF LossInv
<1>2. Init => TypeOK /\ (FewSent => OrderInv) /\ (FewSent => ExactInv) /\ (NoWrap => LossInv)
  BY InitType, InitOrder, InitExact, InitLoss
<1>3. QED
  BY NextType, NextOrder, ExactInductive, LossInductive, <1>1, <1>2, PTL DEF Spec
------------------------------------------------------------------------------
(* A call is not left open at one end *)

Given(p, k) == k \notin calls[p] \/ k \in closing[p]
BothOpen    == \A p \in Peers : Open(p)

CidsMatch ==
  \A m \in net : m.kind # "zlb" =>
    /\ m.cid[1] = Other(m.from)
    /\ m.cid[2] \in (IF m.kind = "cdn" THEN Calls ELSE {Self})

OneMessageEach ==
  \A m, n \in net : m.kind # "zlb" /\ n.kind # "zlb" /\ m.from = n.from /\ m.id = n.id => m = n

OfCalls ==
  \A p \in Peers : /\ pppd[p] \subseteq calls[p]
                   /\ needclose[p] \subseteq calls[p] \cup {Self}
                   /\ closing[p] \subseteq calls[p] \cup {Self}

(* Who sends a CDN of a call, or a ZLB for one, has given the call up. *)
SenderGave   == \A m \in net : m.kind = "cdn" => Given(m.from, m.cid[2])
AnswererGave == \A m \in net : m.kind = "zlb" /\ m.cid[2] \in Calls => Given(m.from, m.cid[2])

(* So has an end that is past the number of a CDN, taken or not. *)
PassedGave ==
  \A m \in net :
    /\ m.kind = "cdn"
    /\ Index(m.from, m.Ns) < Index(m.from, control_rec_seq_num[Other(m.from)])
    => Given(Other(m.from), m.cid[2])

(* An end that is a number ahead cannot miss the CDN that gets the number. *)
AheadGone ==
  \A p \in Peers : Index(Other(p), control_rec_seq_num[p]) > sent[Other(p)] =>
    \A k \in Calls : k \notin calls[p] \/ k \notin calls[Other(p)]

(* A ZLB of handle_special carries the id its sender gave: it comes after *)
(* every CDN of the call, and the call is gone there.                     *)
Returned(z) ==
  /\ z.cid[2] \in Calls /\ z.cid[2] \notin calls[z.from]
  /\ \A m \in net : m.kind = "cdn" /\ m.from = z.from /\ m.cid[2] = z.cid[2]
       => Index(z.from, m.Ns) < Index(z.from, z.Ns)
ReturnedLast == \A z \in net : z.kind = "zlb" /\ z.cid[1] = z.from => Returned(z)

(* An end that no longer waits for an answer about a call had one. *)
Settled ==
  \A p \in Peers : \A k \in Calls :
    (k \notin calls[p] \/ (k \in closing[p] /\ k \notin needclose[p])) => Given(Other(p), k)

NetInv  == CidsMatch /\ OneMessageEach /\ SenderGave /\ AnswererGave /\ ReturnedLast
HalfInv == NetInv /\ OfCalls /\ PassedGave /\ AheadGone /\ (BothOpen => Settled)

(* No step takes back what an end gave up. *)
Kept == \A p \in Peers : calls'[p] \subseteq calls[p] /\ \A k : Given(p, k) => Given(p, k)'

LEMMA QuietHalf ==
  ASSUME TypeOK, HalfInv, UNCHANGED <<control_rec_seq_num, sent, net>>, Kept, OfCalls',
         BothOpen' => BothOpen /\ (Settled => Settled')
  PROVE  HalfInv'
<1>1. \A m \in net : m.from \in Peers /\ Other(m.from) \in Peers
  BY PacketFields, OtherEnd
<1>2. CidsMatch' /\ OneMessageEach'
  BY DEF HalfInv, NetInv, CidsMatch, OneMessageEach
<1>3. SenderGave' /\ AnswererGave'
  BY <1>1 DEF HalfInv, NetInv, SenderGave, AnswererGave, Kept
<1>4. ReturnedLast'
  BY <1>1 DEF HalfInv, NetInv, ReturnedLast, Returned, Kept, Index
<1>5. PassedGave'
  BY <1>1 DEF HalfInv, PassedGave, Kept, Index
<1>6. AheadGone'
  <2>1. SUFFICES ASSUME NEW p \in Peers, Index(Other(p), control_rec_seq_num[p]) > sent[Other(p)],
                        NEW k \in Calls
                 PROVE  k \notin calls'[p] \/ k \notin calls'[Other(p)]
    BY DEF AheadGone, Index
  <2>2. k \notin calls[p] \/ k \notin calls[Other(p)]
    BY <2>1 DEF HalfInv, AheadGone
  <2>3. QED
    BY <2>2, OtherEnd DEF Kept
<1>7. QED
  BY <1>2, <1>3, <1>4, <1>5, <1>6 DEF HalfInv, NetInv

LEMMA XmitHalf ==
  ASSUME TypeOK, OrderInv, HalfInv, NEW p \in Peers, NEW k \in Ends,
         NEW kind \in {"msg", "cdn", "stop"}, NEW S,
         Xmit(p, Message(p, <<Other(p), k>>, kind), S), UNCHANGED control_rec_seq_num,
         IF kind = "cdn" THEN k \in Calls /\ k \in calls[p] /\ k \in closing'[p] ELSE k = Self,
         Kept, OfCalls', BothOpen' => BothOpen /\ (Settled => Settled')
  PROVE  HalfInv'
<1> DEFINE c == Message(p, <<Other(p), k>>, kind)
<1>0. Other(p) \in Peers /\ Other(p) # p /\ Other(Other(p)) = p /\ sent[p] \in Nat
  BY OtherEnd, NumbersAreNat
<1>1. /\ c.from = p /\ c.cid = <<Other(p), k>> /\ c.kind = kind /\ c.id = sent[p] + 1
      /\ Index(p, c.Ns) = sent[p]
  BY DEF Message, OrderInv, Numbered
<1>2. net' \in {net, net \cup {c}} /\ sent \in [Peers -> Nat]
      /\ sent' = [sent EXCEPT ![p] = @ + 1]
  BY DEF Xmit, TypeOK, NumbersTypeOK
<1> HIDE DEF c
<1>3. \A m \in net : m.from \in Peers /\ Other(m.from) \in Peers
  BY PacketFields, OtherEnd
<1>4. c.cid[1] = Other(p) /\ c.cid[2] = k /\ kind # "zlb"
  BY <1>1
<1>5. CidsMatch'
  BY <1>1, <1>2, <1>4 DEF HalfInv, NetInv, CidsMatch
<1>6. OneMessageEach'
  <2>1. \A m \in net : m.kind # "zlb" /\ m.from = p => m.id # c.id
    <3>1. TAKE m \in net
    <3>2. m.id \in Nat
      BY PacketFields
    <3>3. m.kind # "zlb" /\ m.from = p => m.id <= sent[p]
      BY DEF OrderInv, PacketsNumbered
    <3>4. QED
      BY <1>0, <1>1, <3>2, <3>3
  <2>2. QED
    BY <1>1, <1>2, <2>1 DEF HalfInv, NetInv, OneMessageEach
<1>7. SenderGave'
  <2>1. \A m \in net : m.kind = "cdn" => Given(m.from, m.cid[2])'
    BY <1>3 DEF HalfInv, NetInv, SenderGave, Kept
  <2>2. kind = "cdn" => Given(p, k)'
    BY DEF Given
  <2>3. QED
    BY <1>1, <1>2, <1>4, <2>1, <2>2 DEF SenderGave
<1>8. AnswererGave'
  <2>1. \A m \in net : m.kind = "zlb" /\ m.cid[2] \in Calls => Given(m.from, m.cid[2])'
    BY <1>3 DEF HalfInv, NetInv, AnswererGave, Kept
  <2>2. QED
    BY <1>1, <1>2, <1>4, <2>1 DEF AnswererGave
<1>9. ReturnedLast'
  <2>1. SUFFICES ASSUME NEW z \in net, z.kind = "zlb", z.cid[1] = z.from
                 PROVE  Returned(z)'
    BY <1>1, <1>2, <1>4 DEF ReturnedLast
  <2>2. Returned(z)
    BY <2>1 DEF HalfInv, NetInv, ReturnedLast
  <2>3. z.cid[2] \notin calls'[z.from]
    BY <1>3, <2>2 DEF Returned, Kept
  <2>4. ~(c.kind = "cdn" /\ c.from = z.from /\ c.cid[2] = z.cid[2])
    BY <1>1, <1>4, <2>2 DEF Returned
  <2>5. QED
    BY <1>2, <2>2, <2>3, <2>4 DEF Returned, Index
<1>10. PassedGave'
  <2>1. SUFFICES ASSUME NEW m \in net', m.kind = "cdn",
                        Index(m.from, m.Ns) < Index(m.from, control_rec_seq_num[Other(m.from)])
                 PROVE  Given(Other(m.from), m.cid[2])'
    BY DEF PassedGave, Index
  <2>2. CASE m \in net
    BY <1>3, <2>1, <2>2 DEF HalfInv, PassedGave, Kept
  <2>3. CASE m = c
    <3>1. sent[p] < Index(p, control_rec_seq_num[Other(p)]) /\ kind = "cdn"
      BY <1>1, <2>1, <2>3
    <3>2. Index(p, control_rec_seq_num[Other(p)]) \in Nat
      BY <1>0, NumbersAreNat, IndexType
    <3>3. k \notin calls[Other(p)]
      BY <1>0, <3>1, <3>2 DEF HalfInv, AheadGone
    <3>4. Given(Other(p), k)'
      BY <1>0, <3>3 DEF Kept, Given
    <3>5. QED
      BY <1>1, <1>4, <2>3, <3>4
  <2>4. QED
    BY <1>2, <2>2, <2>3
<1>11. AheadGone'
  <2>1. SUFFICES ASSUME NEW q \in Peers, Index(Other(q), control_rec_seq_num[q]) > sent'[Other(q)],
                        NEW l \in Calls
                 PROVE  l \notin calls'[q] \/ l \notin calls'[Other(q)]
    BY DEF AheadGone, Index
  <2>2. Other(q) \in Peers /\ Index(Other(q), control_rec_seq_num[q]) \in Nat
    BY OtherEnd, NumbersAreNat, IndexType
  <2>3. Index(Other(q), control_rec_seq_num[q]) > sent[Other(q)]
    BY <1>2, <2>1, <2>2
  <2>4. l \notin calls[q] \/ l \notin calls[Other(q)]
    BY <2>3 DEF HalfInv, AheadGone
  <2>5. QED
    BY <2>2, <2>4 DEF Kept
<1>12. QED
  BY <1>5, <1>6, <1>7, <1>8, <1>9, <1>10, <1>11 DEF HalfInv, NetInv
(* While fewer than half of the numbers are used, what check_control takes *)
(* for old is behind, also where the numbers wrap.                         *)
LEMMA OldIsBehind ==
  ASSUME TypeOK, OrderInv, WithinHalf, NEW p \in Peers, NEW m \in net, m.from = Other(p),
         IsOld(p, m.Ns)
  PROVE  Index(Other(p), m.Ns) < Index(Other(p), control_rec_seq_num[p])
<1> DEFINE q == Other(p)
           rec == control_rec_seq_num[p]
           half == Wrap \div 2
<1>1. q \in Peers /\ m.Ns \in Seqs
  BY OtherEnd, PacketFields
<1>2. rec \in Seqs /\ sent[q] \in Nat
  BY <1>1, NumbersAreNat
<1>3. First[q] \in Nat /\ First[q] < Wrap /\ Wrap \in Nat
  BY <1>1, FirstType
<1>4. half \in Nat /\ 2 * half <= Wrap
  BY <1>3
<1>5. sent[q] + 1 < half /\ Index(q, m.Ns) <= sent[q]
  BY <1>1 DEF WithinHalf, OrderInv, PacketsNumbered
<1>6. \/ m.Ns < rec /\ rec - m.Ns < half
      \/ m.Ns > rec /\ rec - m.Ns > half
  BY DEF IsOld
<1> HIDE DEF q, rec, half
<1>7. m.Ns \in Nat /\ m.Ns < Wrap /\ rec \in Nat /\ rec < Wrap
  BY <1>1, <1>2, <1>3 DEF Seqs
<1>8. m.Ns < rec /\ rec - m.Ns < half
  BY <1>4, <1>6, <1>7
<1>9. Index(q, m.Ns) < Index(q, rec)
  BY <1>2, <1>3, <1>4, <1>5, <1>7, <1>8 DEF Index
<1>10. QED
  BY <1>9 DEF q, rec

(* What is sent and received back about calls, at the end p that receives. *)
LEMMA ReceiveNet ==
  ASSUME TypeOK, OrderInv, NetInv, Kept, UNCHANGED <<calls, sent>>, NEW p \in Peers,
         \/ net' = net
         \/ \E cid \in Cids, Nr \in Seqs :
              /\ net' = net \cup {Zlb(p, cid, Nr)}
              /\ cid[2] \in Calls => Given(p, cid[2])'
              /\ cid[1] = p => cid[2] \in Calls /\ cid[2] \notin calls[p]
  PROVE  NetInv'
<1>1. \A m \in net : m.from \in Peers
  BY PacketFields
<1>2. /\ CidsMatch /\ OneMessageEach /\ SenderGave /\ ReturnedLast /\ AnswererGave
      /\ \A m \in net : Given(m.from, m.cid[2]) => Given(m.from, m.cid[2])'
  BY <1>1 DEF NetInv, Kept
<1>3. CASE net' = net
  <2>1. CidsMatch' /\ OneMessageEach' /\ SenderGave' /\ AnswererGave'
    BY <1>2, <1>3 DEF CidsMatch, OneMessageEach, SenderGave, AnswererGave
  <2>2. ReturnedLast'
    BY <1>2, <1>3 DEF ReturnedLast, Returned, Index
  <2>3. QED
    BY <2>1, <2>2 DEF NetInv
<1>4. ASSUME NEW cid \in Cids, NEW Nr \in Seqs, net' = net \cup {Zlb(p, cid, Nr)},
             cid[2] \in Calls => Given(p, cid[2])',
             cid[1] = p => cid[2] \in Calls /\ cid[2] \notin calls[p]
      PROVE  NetInv'
  <2> DEFINE z == Zlb(p, cid, Nr)
  <2>1. z.from = p /\ z.kind = "zlb" /\ z.cid = cid /\ z.Ns = control_seq_num[p]
    BY DEF Zlb
  <2>2. net' = net \cup {z}
    BY <1>4
  <2> HIDE DEF z
  <2>3. CidsMatch' /\ OneMessageEach' /\ SenderGave'
    BY <1>2, <2>1, <2>2 DEF CidsMatch, OneMessageEach, SenderGave
  <2>4. AnswererGave'
    BY <1>2, <1>4, <2>1, <2>2 DEF AnswererGave
  <2>5. ReturnedLast'
    <3>1. SUFFICES ASSUME NEW y \in net', y.kind = "zlb", y.cid[1] = y.from
                   PROVE  Returned(y)'
      BY DEF ReturnedLast
    <3>2. CASE y \in net
      <4>1. Returned(y)
        BY <1>2, <3>1, <3>2 DEF ReturnedLast
      <4>2. QED
        BY <2>1, <2>2, <4>1 DEF Returned, Index
    <3>3. CASE y = z
      <4>1. cid[2] \in Calls /\ cid[2] \notin calls[p]
        BY <1>4, <2>1, <3>1, <3>3
      <4>2. \A m \in net : m.kind = "cdn" /\ m.from = p => Index(p, m.Ns) < Index(p, z.Ns)
        <5>1. TAKE m \in net
        <5>2. HAVE m.kind = "cdn" /\ m.from = p
        <5>3. m.id = Index(p, m.Ns) + 1 /\ m.id <= sent[p]
          BY <5>2 DEF OrderInv, PacketsNumbered
        <5>4. Index(p, z.Ns) = sent[p]
          BY <2>1 DEF OrderInv, Numbered
        <5>5. Index(p, m.Ns) \in Nat /\ sent[p] \in Nat
          BY <5>2, PacketFields, NumbersAreNat
        <5>6. QED
          BY <5>3, <5>4, <5>5
      <4>3. QED
        BY <2>1, <2>2, <3>3, <4>1, <4>2 DEF Returned, Index
    <3>4. QED
      BY <2>2, <3>2, <3>3
  <2>6. QED
    BY <2>3, <2>4, <2>5 DEF NetInv
<1>5. QED
  BY <1>3, <1>4

(* A number is consumed for the CDN that has it, or for a packet that shows *)
(* the only call gone.                                                      *)
LEMMA PassHalf ==
  ASSUME TypeOK, OrderInv, FewSent, HalfInv, NEW p \in Peers, NEW m \in net, m.from = Other(p),
         InOrder(p, m), Kept, UNCHANGED <<calls, sent>>,
         control_rec_seq_num' = [control_rec_seq_num EXCEPT ![p] = (@ + 1) % Wrap],
         \A k \in Calls :
           \/ k \notin calls[p]
           \/ m.kind # "zlb" /\ (m.kind = "cdn" /\ m.cid[2] = k => Given(p, k)')
           \/ m.kind = "zlb" /\ m.cid[1] = Other(p) /\ m.cid[2] = k,
         \A n \in net' : n \in net \/ n.kind = "zlb"
  PROVE  PassedGave' /\ AheadGone'
<1> DEFINE q == Other(p)
           r == Index(q, control_rec_seq_num[p])
<1>1. q \in Peers /\ q # p /\ Other(q) = p /\ \A e \in Peers : e = p \/ e = q
  BY OtherEnd
<1>2. /\ r \in Nat /\ control_rec_seq_num[p] \in Seqs /\ sent[q] \in Nat
      /\ control_rec_seq_num \in [Peers -> Seqs]
  BY <1>1, NumbersAreNat, IndexType DEF TypeOK, NumbersTypeOK
<1>3. Index(q, m.Ns) = r
  BY DEF InOrder
<1>4. r <= sent[q] /\ (m.kind # "zlb" => m.id = r + 1 /\ m.id <= sent[q])
  BY <1>3 DEF OrderInv, PacketsNumbered
<1>5. Index(q, control_rec_seq_num'[p]) = r + 1
  <2>1. r + 1 < Wrap
    BY <1>1, <1>2, <1>4, FirstType DEF FewSent
  <2>2. control_rec_seq_num'[p] = (control_rec_seq_num[p] + 1) % Wrap
    BY <1>2
  <2>3. QED
    BY <1>1, <1>2, <2>1, <2>2, IndexNext
<1>6. control_rec_seq_num'[q] = control_rec_seq_num[q]
  BY <1>1, <1>2
<1>7. \A k \in Calls : m.kind = "zlb" => k \notin calls[p] \/ k \notin calls[q]
  <2>1. TAKE k \in Calls
  <2>2. HAVE m.kind = "zlb"
  <2>3. CASE k \notin calls[p]
    BY <2>3
  <2>4. CASE m.cid[1] = Other(p) /\ m.cid[2] = k
    BY <2>2, <2>4 DEF HalfInv, NetInv, ReturnedLast, Returned
  <2>5. QED
    BY <2>2, <2>3, <2>4
<1> HIDE DEF q, r
<1>8. PassedGave'
  <2>1. SUFFICES ASSUME NEW n \in net, n.kind = "cdn",
                        Index(n.from, n.Ns) < Index(n.from, control_rec_seq_num'[Other(n.from)])
                 PROVE  Given(Other(n.from), n.cid[2])'
    BY DEF PassedGave, Index
  <2>2. n.from \in Peers /\ Other(n.from) \in Peers /\ Index(n.from, n.Ns) \in Nat /\ n.id \in Nat
    BY PacketFields, OtherEnd
  <2>3. CASE Index(n.from, n.Ns) < Index(n.from, control_rec_seq_num[Other(n.from)])
    BY <2>1, <2>2, <2>3 DEF HalfInv, PassedGave, Kept
  <2>4. CASE ~(Index(n.from, n.Ns) < Index(n.from, control_rec_seq_num[Other(n.from)]))
    <3>1. n.from = q
      BY <1>1, <1>6, <2>1, <2>2, <2>4 DEF q
    <3>2. Index(q, n.Ns) = r
      <4>1. Index(q, n.Ns) < r + 1 /\ ~(Index(q, n.Ns) < r)
        BY <1>1, <1>5, <2>1, <2>4, <3>1 DEF r
      <4>2. QED
        BY <1>2, <2>2, <3>1, <4>1
    <3>3. n.id = r + 1 /\ n.cid[2] \in Calls /\ n.kind # "zlb"
      BY <2>1, <3>1, <3>2 DEF OrderInv, PacketsNumbered, HalfInv, NetInv, CidsMatch
    <3>4. CASE n.cid[2] \notin calls[p]
      BY <1>1, <3>1, <3>4 DEF Given, Kept
    <3>5. CASE m.kind # "zlb"
      <4>1. n = m
        BY <1>4, <3>1, <3>3, <3>5 DEF HalfInv, NetInv, OneMessageEach, q
      <4>2. QED
        BY <1>1, <2>1, <3>1, <3>3, <3>4, <3>5, <4>1
    <3>6. CASE m.kind = "zlb" /\ m.cid[1] = q /\ m.cid[2] = n.cid[2]
      <4>1. Index(q, n.Ns) < Index(q, m.Ns)
        BY <2>1, <3>1, <3>6 DEF HalfInv, NetInv, ReturnedLast, Returned, q
      <4>2. QED
        BY <1>2, <1>3, <3>2, <4>1
    <3>7. QED
      BY <3>3, <3>4, <3>5, <3>6 DEF q
  <2>5. QED
    BY <2>3, <2>4
<1>9. AheadGone'
  <2>1. SUFFICES ASSUME NEW e \in Peers, Index(Other(e), control_rec_seq_num'[e]) > sent[Other(e)],
                        NEW k \in Calls
                 PROVE  k \notin calls[e] \/ k \notin calls[Other(e)]
    BY DEF AheadGone, Index
  <2>2. CASE e = q
    BY <1>6, <2>1, <2>2 DEF HalfInv, AheadGone
  <2>3. CASE e = p
    <3>1. r + 1 > sent[q]
      BY <1>5, <2>1, <2>3 DEF q
    <3>2. m.kind = "zlb"
      BY <1>2, <1>4, <3>1
    <3>3. QED
      BY <1>7, <2>3, <3>2 DEF q
  <2>4. QED
    BY <1>1, <2>2, <2>3
<1>10. QED
  BY <1>8, <1>9
LEMMA HandlePacketHalf ==
  ASSUME TypeOK, OrderInv, FewSent, WithinHalf, HalfInv, \A k, l \in Calls : k = l,
         NEW p \in Peers, NEW m \in net, m.from = Other(p), HandlePacket(p, m),
         UNCHANGED <<control_seq_num, calls, pppd, alive, sent>>
  PROVE  HalfInv'
<1> DEFINE q == Other(p)
           k == m.cid[2]
<1>1. q \in Peers /\ q # p /\ Other(q) = p /\ \A e \in Peers : e = p \/ e = q
  BY OtherEnd
<1>2. m.cid \in Cids /\ m.cid = <<p, k>> /\ k \in Ends /\ k \in calls[p] \cup {Self}
      /\ calls[p] \subseteq Calls
  BY PacketFields DEF HandlePacket, Known, Cids, Ends, TypeOK, FieldsTypeOK
<1>3. needclose \in [Peers -> SUBSET Ends] /\ closing \in [Peers -> SUBSET Ends]
  BY DEF TypeOK, FieldsTypeOK
<1>4. Self \notin Calls
  BY ChannelAssumption
<1>5. m.kind # "zlb" => k \in (IF m.kind = "cdn" THEN Calls ELSE {Self})
  BY DEF HalfInv, NetInv, CidsMatch
<1>6. RecvMessage(p, m, k) \/ RecvZlb(p, m, k) \/ RecvOther(p, m, k)
  BY DEF HandlePacket
<1>7. /\ closing' \in {closing, [closing EXCEPT ![p] = @ \cup {k}]}
      /\ needclose' \in {needclose, [needclose EXCEPT ![p] = @ \ {k}]}
  BY <1>6 DEF RecvMessage, Finish, RecvZlb, RecvOther
<1> HIDE DEF q, k
<1>8. Kept
  BY <1>3, <1>7 DEF Kept, Given
<1>9. OfCalls'
  BY <1>2, <1>3, <1>7 DEF HalfInv, OfCalls
<1>10. BothOpen' => BothOpen
  BY <1>3, <1>7 DEF BothOpen, Open
<1>11. <<q, k>> \in Cids /\ <<q, k>>[1] # p /\ <<q, k>>[2] = k
  BY <1>1, <1>2 DEF Cids
(* Settled, once it is known that what p learns of k was given up by q. *)
<1>12. ASSUME BothOpen => (k \in Calls => (needclose' = needclose /\ closing' = closing) \/ Given(q, k))
       PROVE  BothOpen' => Settled'
  <2>1. SUFFICES ASSUME BothOpen, Settled, NEW e \in Peers, NEW l \in Calls,
                        l \notin calls[e] \/ (l \in closing'[e] /\ l \notin needclose'[e])
                 PROVE  Given(Other(e), l)'
    BY <1>10 DEF HalfInv, Settled
  <2>2. CASE l \notin calls[e] \/ (l \in closing[e] /\ l \notin needclose[e])
    <3>1. Given(Other(e), l) /\ Other(e) \in Peers
      BY <2>1, <2>2, OtherEnd DEF Settled
    <3>2. QED
      BY <1>8, <3>1 DEF Kept
  <2>3. CASE ~(l \notin calls[e] \/ (l \in closing[e] /\ l \notin needclose[e]))
    <3>1. e = p /\ l = k /\ ~(needclose' = needclose /\ closing' = closing)
      BY <1>3, <1>7, <2>1, <2>3
    <3>2. Given(q, k)
      BY <1>12, <2>1, <3>1
    <3>3. QED
      BY <1>1, <1>8, <3>1, <3>2 DEF Kept, q
  <2>4. QED
    BY <2>2, <2>3
<1>13. CASE RecvMessage(p, m, k)
  <2>1. /\ m.kind # "zlb" /\ InOrder(p, m)
        /\ control_rec_seq_num' = [control_rec_seq_num EXCEPT ![p] = (@ + 1) % Wrap]
        /\ Finish(p, m, k)
        /\ net' = net \cup {Zlb(p, <<q, k>>, control_rec_seq_num'[p])}
    BY <1>13 DEF RecvMessage, Accept, q
  <2>2. k \in Calls => m.kind = "cdn"
    BY <1>4, <1>5, <2>1
  <2>3. m.kind = "cdn" => Given(p, k)'
    BY <1>3, <2>1 DEF Finish, Given
  <2>4. control_rec_seq_num'[p] \in Seqs
    BY <2>1, NumbersAreNat, SeqSuccessor DEF TypeOK, NumbersTypeOK
  <2>5. NetInv'
    BY <1>8, <1>11, <2>1, <2>2, <2>3, <2>4, ReceiveNet DEF HalfInv
  <2>6. PassedGave' /\ AheadGone'
    <3>1. \A n \in net' : n \in net \/ n.kind = "zlb"
      BY <2>1 DEF Zlb
    <3>2. \A l \in Calls : m.kind # "zlb" /\ (m.kind = "cdn" /\ m.cid[2] = l => Given(p, l)')
      BY <2>1, <2>3 DEF k
    <3>3. QED
      BY <1>8, <2>1, <3>1, <3>2, PassHalf
  <2>7. k \in Calls => Given(q, k)
    BY <2>2 DEF HalfInv, NetInv, SenderGave, q, k
  <2>8. QED
    BY <1>9, <1>12, <2>5, <2>6, <2>7 DEF HalfInv
<1>14. CASE RecvZlb(p, m, k) \/ RecvOther(p, m, k)
  <2>1. UNCHANGED control_rec_seq_num
    BY <1>14 DEF RecvZlb, RecvOther
  <2>2. PassedGave' /\ AheadGone'
    <3>1. \A n \in net' : n \in net \/ n.kind = "zlb"
      BY <1>14 DEF RecvZlb, RecvOther, Zlb
    <3>2. PassedGave'
      <4>1. SUFFICES ASSUME NEW n \in net, n.kind = "cdn",
                            Index(n.from, n.Ns) < Index(n.from, control_rec_seq_num[Other(n.from)])
                     PROVE  Given(Other(n.from), n.cid[2])'
        BY <2>1, <3>1 DEF PassedGave, Index
      <4>2. Other(n.from) \in Peers
        BY PacketFields, OtherEnd
      <4>3. QED
        BY <1>8, <4>1, <4>2 DEF HalfInv, PassedGave, Kept
    <3>3. AheadGone'
      BY <2>1 DEF HalfInv, AheadGone, Index
    <3>4. QED
      BY <3>2, <3>3
  <2>3. CASE RecvZlb(p, m, k)
    <3>1. m.kind = "zlb" /\ net' = net
      BY <2>3 DEF RecvZlb
    <3>2. NetInv'
      BY <1>8, <3>1, ReceiveNet DEF HalfInv
    <3>3. k \in Calls => Given(q, k)
      BY <3>1 DEF HalfInv, NetInv, AnswererGave, q, k
    <3>4. QED
      BY <1>9, <1>12, <2>2, <3>2, <3>3 DEF HalfInv
  <2>4. CASE RecvOther(p, m, k)
    <3>1. closing' = closing /\ needclose' = needclose
      BY <2>4 DEF RecvOther
    <3>2. \/ net' = net
          \/ /\ net' = net \cup {Zlb(p, <<q, k>>, control_rec_seq_num[p])}
             /\ k = Self \/ (m.kind # "zlb" /\ IsOld(p, m.Ns))
      BY <2>4 DEF RecvOther, q
    <3>3. m.kind # "zlb" /\ IsOld(p, m.Ns) /\ k \in Calls => Given(p, k)'
      <4>1. HAVE m.kind # "zlb" /\ IsOld(p, m.Ns) /\ k \in Calls
      <4>2. m.kind = "cdn"
        BY <1>4, <1>5, <4>1
      <4>3. Index(q, m.Ns) < Index(q, control_rec_seq_num[p])
        BY <4>1, OldIsBehind DEF q
      <4>4. Given(p, k)
        BY <1>1, <4>2, <4>3 DEF HalfInv, PassedGave, q, k
      <4>5. QED
        BY <1>8, <4>4 DEF Kept
    <3>4. k \in Calls /\ net' # net => Given(p, k)'
      BY <1>4, <3>2, <3>3
    <3>5. control_rec_seq_num[p] \in Seqs
      BY NumbersAreNat
    <3>6. NetInv'
      <4>1. CASE net' = net
        BY <1>8, <4>1, ReceiveNet DEF HalfInv
      <4>2. CASE net' # net
        BY <1>8, <1>11, <3>2, <3>4, <3>5, <4>2, ReceiveNet DEF HalfInv
      <4>3. QED
        BY <4>1, <4>2
    <3>7. QED
      BY <1>9, <1>12, <2>2, <3>1, <3>6 DEF HalfInv
  <2>5. QED
    BY <1>14, <2>3, <2>4
<1>15. QED
  BY <1>6, <1>13, <1>14 DEF k

LEMMA HandleSpecialHalf ==
  ASSUME TypeOK, OrderInv, FewSent, HalfInv, \A k, l \in Calls : k = l,
         NEW p \in Peers, NEW m \in net, m.from = Other(p), HandleSpecial(p, m),
         UNCHANGED <<control_seq_num, calls, pppd, alive, sent>>
  PROVE  HalfInv'
<1> DEFINE q == Other(p)
           k == m.cid[2]
<1>1. q \in Peers /\ q # p /\ Other(q) = p /\ \A e \in Peers : e = p \/ e = q
  BY OtherEnd
<1>2. m.cid \in Cids /\ m.cid = <<m.cid[1], k>> /\ m.cid[1] \in {p, q} /\ k \in Ends
      /\ (m.cid[1] = p => k \in Calls /\ k \notin calls[p])
  BY <1>1, PacketFields DEF HandleSpecial, Known, Cids, Ends
<1>3. UNCHANGED <<needclose, closing>>
  BY DEF HandleSpecial
<1>4. Kept /\ OfCalls' /\ (BothOpen' => BothOpen) /\ (Settled => Settled')
  BY <1>3 DEF Kept, Given, HalfInv, OfCalls, BothOpen, Open, Settled
<1>5. m.kind # "zlb" => m.cid[1] = p /\ k \in Calls /\ k \notin calls[p]
  <2>1. m.kind # "zlb" => m.cid[1] = p
    BY <1>1 DEF HalfInv, NetInv, CidsMatch
  <2>2. QED
    BY <1>2, <2>1
<1>6. m.kind = "zlb" /\ m.cid[1] = q => k \in Calls
  BY DEF HalfInv, NetInv, ReturnedLast, Returned
<1>7. /\ net' = net \/ (m.kind # "zlb" /\ \E Nr \in Seqs : net' = net \cup {Zlb(p, m.cid, Nr)})
      /\ \/ UNCHANGED control_rec_seq_num
         \/ /\ InOrder(p, m)
            /\ control_rec_seq_num' = [control_rec_seq_num EXCEPT ![p] = (@ + 1) % Wrap]
  <2>1. control_rec_seq_num[p] \in Seqs /\ (control_rec_seq_num[p] + 1) % Wrap \in Seqs
    BY NumbersAreNat, SeqSuccessor
  <2>2. control_rec_seq_num' = [control_rec_seq_num EXCEPT ![p] = (@ + 1) % Wrap]
        => control_rec_seq_num'[p] \in Seqs
    BY <2>1 DEF TypeOK, NumbersTypeOK
  <2>3. QED
    BY <2>1, <2>2 DEF HandleSpecial, SpecialZlb, SpecialMessage, SpecialOther, Accept
<1> HIDE DEF q, k
<1>8. \A n \in net' : n \in net \/ n.kind = "zlb"
  BY <1>7 DEF Zlb
<1>9. NetInv'
  <2>1. CASE net' = net
    BY <1>4, <2>1, ReceiveNet DEF HalfInv
  <2>2. ASSUME m.kind # "zlb", NEW Nr \in Seqs, net' = net \cup {Zlb(p, m.cid, Nr)}
        PROVE  NetInv'
    <3>1. Given(p, m.cid[2])' /\ m.cid[2] \in Calls /\ m.cid[2] \notin calls[p]
      BY <1>5, <2>2 DEF Given, k
    <3>2. QED
      BY <1>2, <1>4, <2>2, <3>1, ReceiveNet DEF HalfInv
  <2>3. QED
    BY <1>7, <2>1, <2>2
<1>10. PassedGave' /\ AheadGone'
  <2>1. CASE UNCHANGED control_rec_seq_num
    <3>1. PassedGave'
      <4>1. SUFFICES ASSUME NEW n \in net, n.kind = "cdn",
                            Index(n.from, n.Ns) < Index(n.from, control_rec_seq_num[Other(n.from)])
                     PROVE  Given(Other(n.from), n.cid[2])'
        BY <1>8, <2>1 DEF PassedGave, Index
      <4>2. Other(n.from) \in Peers
        BY PacketFields, OtherEnd
      <4>3. QED
        BY <1>4, <4>1, <4>2 DEF HalfInv, PassedGave, Kept
    <3>2. AheadGone'
      BY <2>1 DEF HalfInv, AheadGone, Index
    <3>3. QED
      BY <3>1, <3>2
  <2>2. CASE /\ InOrder(p, m)
             /\ control_rec_seq_num' = [control_rec_seq_num EXCEPT ![p] = (@ + 1) % Wrap]
    <3>1. \A l \in Calls : k \in Calls => l = k
      OBVIOUS
    <3>2. \A l \in Calls : \/ l \notin calls[p]
                           \/ m.kind = "zlb" /\ m.cid[1] = Other(p) /\ m.cid[2] = l
      BY <1>2, <1>5, <1>6, <3>1 DEF q, k
    <3>3. QED
      BY <1>4, <1>8, <2>2, <3>2, PassHalf
  <2>3. QED
    BY <1>7, <2>1, <2>2
<1>11. QED
  BY <1>4, <1>9, <1>10 DEF HalfInv
LEMMA CloseCallHalf ==
  ASSUME TypeOK, OrderInv, HalfInv, NEW p \in Peers, NEW k \in Due(p) \ {Self}, CloseCall(p, k),
         UNCHANGED <<alive, got>>
  PROVE  HalfInv'
<1>1. /\ needclose \in [Peers -> SUBSET Ends] /\ closing \in [Peers -> SUBSET Ends]
      /\ calls \in [Peers -> SUBSET Calls] /\ pppd \in [Peers -> SUBSET Calls]
      /\ k \in needclose[p] \cup closing[p] /\ (k \notin closing[p] => k \in needclose[p])
  BY DEF TypeOK, FieldsTypeOK, Due
<1>2. k \in calls[p] /\ k \in Calls /\ k \in Ends
  BY <1>1 DEF HalfInv, OfCalls, Ends
<1>3. CASE k \in closing[p]
  <2>1. /\ calls' = [calls EXCEPT ![p] = @ \ {k}] /\ pppd' = [pppd EXCEPT ![p] = @ \ {k}]
        /\ needclose' = [needclose EXCEPT ![p] = @ \ {k}]
        /\ closing' = [closing EXCEPT ![p] = @ \ {k}]
        /\ UNCHANGED <<control_rec_seq_num, sent, net>>
    BY <1>3 DEF CloseCall, seqnums
  <2>2. Kept
    BY <1>1, <2>1 DEF Kept, Given
  <2>3. OfCalls'
    BY <1>1, <2>1 DEF HalfInv, OfCalls
  <2>4. BothOpen' => BothOpen
    BY <1>1, <2>1 DEF BothOpen, Open
  <2>5. ASSUME Settled PROVE Settled'
    <3>1. SUFFICES ASSUME NEW e \in Peers, NEW l \in Calls,
                          l \notin calls'[e] \/ (l \in closing'[e] /\ l \notin needclose'[e])
                   PROVE  Given(Other(e), l)'
      BY DEF Settled
    <3>2. CASE e = p /\ l = k
      <4>1. k \notin needclose[p]
        BY <1>3 DEF Due
      <4>2. Given(Other(p), k)
        BY <1>2, <1>3, <2>5, <4>1 DEF Settled
      <4>3. QED
        BY <2>2, <3>2, <4>2, OtherEnd DEF Kept
    <3>3. CASE ~(e = p /\ l = k)
      <4>1. l \notin calls[e] \/ (l \in closing[e] /\ l \notin needclose[e])
        BY <1>1, <2>1, <3>1, <3>3
      <4>2. Given(Other(e), l)
        BY <2>5, <4>1 DEF Settled
      <4>3. QED
        BY <2>2, <4>2, OtherEnd DEF Kept
    <3>4. QED
      BY <3>2, <3>3
  <2>6. QED
    BY <2>1, <2>2, <2>3, <2>4, <2>5, QuietHalf
<1>4. CASE k \notin closing[p]
  <2>1. /\ Xmit(p, Message(p, <<Other(p), k>>, "cdn"), events[p])
        /\ closing' = [closing EXCEPT ![p] = @ \cup {k}]
        /\ UNCHANGED <<control_rec_seq_num, calls, pppd, needclose>>
    BY <1>4 DEF CloseCall
  <2>2. Kept /\ k \in closing'[p]
    BY <1>1, <2>1 DEF Kept, Given
  <2>3. OfCalls'
    BY <1>1, <1>2, <2>1 DEF HalfInv, OfCalls
  <2>4. BothOpen' => BothOpen
    BY <1>1, <2>1 DEF BothOpen, Open
  <2>5. ASSUME Settled PROVE Settled'
    <3>1. SUFFICES ASSUME NEW e \in Peers, NEW l \in Calls,
                          l \notin calls[e] \/ (l \in closing'[e] /\ l \notin needclose[e])
                   PROVE  Given(Other(e), l)'
      BY <2>1 DEF Settled
    <3>2. l \notin calls[e] \/ (l \in closing[e] /\ l \notin needclose[e])
      BY <1>1, <1>4, <2>1, <3>1
    <3>3. Given(Other(e), l)
      BY <2>5, <3>2 DEF Settled
    <3>4. QED
      BY <2>2, <3>3, OtherEnd DEF Kept
  <2>6. QED
    BY <1>2, <2>1, <2>2, <2>3, <2>4, <2>5, XmitHalf
<1>5. QED
  BY <1>3, <1>4

(* A tunnel that closes, or is destroyed, is not open: nothing is asked of it. *)
LEMMA CloseTunnelHalf ==
  ASSUME TypeOK, OrderInv, HalfInv, NEW p \in Peers, alive[p], CloseTunnel(p), UNCHANGED got
  PROVE  HalfInv'
<1>1. /\ needclose \in [Peers -> SUBSET Ends] /\ closing \in [Peers -> SUBSET Ends]
      /\ calls \in [Peers -> SUBSET Calls] /\ pppd \in [Peers -> SUBSET Calls]
      /\ alive \in [Peers -> BOOLEAN]
  BY DEF TypeOK, FieldsTypeOK
<1>2. calls' = [calls EXCEPT ![p] = {}] /\ pppd' = [pppd EXCEPT ![p] = {}]
  BY DEF CloseTunnel
<1>3. \/ /\ alive' = [alive EXCEPT ![p] = FALSE]
         /\ needclose' = [needclose EXCEPT ![p] = {}] /\ closing' = [closing EXCEPT ![p] = {}]
      \/ /\ needclose' = [needclose EXCEPT ![p] = {Self}]
         /\ closing' = [closing EXCEPT ![p] = {Self}]
  BY DEF CloseTunnel
<1>4. Kept
  BY <1>1, <1>2, <1>3 DEF Kept, Given
<1>5. OfCalls'
  BY <1>1, <1>2, <1>3 DEF HalfInv, OfCalls
<1>6. ~BothOpen'
  BY <1>1, <1>3 DEF BothOpen, Open
<1>7. CASE Self \in closing[p]
  <2>1. UNCHANGED <<control_rec_seq_num, sent, net>>
    BY <1>7 DEF CloseTunnel, seqnums
  <2>2. QED
    BY <1>4, <1>5, <1>6, <2>1, QuietHalf
<1>8. CASE Self \notin closing[p]
  <2>1. Xmit(p, Message(p, <<Other(p), Self>>, "stop"), {}) /\ UNCHANGED control_rec_seq_num
    BY <1>8 DEF CloseTunnel
  <2>2. Self \in Ends
    BY DEF Ends
  <2>3. QED
    BY <1>4, <1>5, <1>6, <2>1, <2>2, XmitHalf
<1>9. QED
  BY <1>7, <1>8

LEMMA SameFieldsHalf ==
  ASSUME TypeOK, HalfInv, UNCHANGED <<control_rec_seq_num, sent, net, alive, calls, pppd, needclose, closing>>
  PROVE  HalfInv'
<1>1. Kept
  BY DEF Kept, Given
<1>2. OfCalls' /\ (BothOpen' => BothOpen) /\ (Settled => Settled')
  BY DEF HalfInv, OfCalls, BothOpen, Open, Settled, Given
<1>3. QED
  BY <1>1, <1>2, QuietHalf

LEMMA NeedCloseHalf ==
  ASSUME TypeOK, HalfInv, NEW p \in Peers, NEW k \in pppd[p],
         pppd' \in {pppd, [pppd EXCEPT ![p] = @ \ {k}]},
         needclose' = [needclose EXCEPT ![p] = @ \cup {k}],
         UNCHANGED <<control_rec_seq_num, sent, net, alive, calls, closing>>
  PROVE  HalfInv'
<1>1. needclose \in [Peers -> SUBSET Ends] /\ pppd \in [Peers -> SUBSET Calls]
  BY DEF TypeOK, FieldsTypeOK
<1>2. Kept /\ (BothOpen' => BothOpen)
  BY DEF Kept, Given, BothOpen, Open
<1>3. OfCalls'
  BY <1>1 DEF HalfInv, OfCalls
<1>4. \A q \in Peers : needclose[q] \subseteq needclose'[q]
  BY <1>1
<1>5. Settled => Settled'
  BY <1>4 DEF Settled, Given
<1>6. QED
  BY <1>2, <1>3, <1>5, QuietHalf

LEMMA InitHalf == Init => HalfInv
<1> SUFFICES ASSUME Init PROVE HalfInv
  OBVIOUS
<1>1. NetInv
  BY DEF Init, NetInv, CidsMatch, OneMessageEach, SenderGave, AnswererGave, ReturnedLast
<1>2. OfCalls /\ PassedGave /\ Settled
  BY DEF Init, OfCalls, PassedGave, Settled
<1>3. AheadGone
  BY IndexOfFirst, OtherEnd DEF Init, AheadGone
<1>4. QED
  BY <1>1, <1>2, <1>3 DEF HalfInv

LEMMA WithinHalfFew == TypeOK /\ WithinHalf => FewSent
<1>1. Wrap \in Nat
  BY FirstType, ChannelAssumption
<1>2. QED
  BY <1>1, NumbersAreNat DEF WithinHalf, FewSent

LEMMA WithinHalfBefore == TypeOK /\ [Next]_vars /\ WithinHalf' => WithinHalf
<1>1. Wrap \div 2 \in Int
  BY ChannelAssumption
<1>2. QED
  BY <1>1, SentGrows, NumbersAreNat DEF WithinHalf

LEMMA NextHalf ==
  ASSUME \A k, l \in Calls : k = l, TypeOK, OrderInv, WithinHalf, HalfInv, [Next]_vars
  PROVE  HalfInv'
<1>1. CASE UNCHANGED vars
  BY <1>1, SameFieldsHalf DEF vars, seqnums, close
<1>2. ASSUME NEW p \in Peers, Send(p) PROVE HalfInv'
  <2>1. /\ Xmit(p, Message(p, <<Other(p), Self>>, "msg"), events[p])
        /\ UNCHANGED <<control_rec_seq_num, alive, calls, pppd, needclose, closing>>
        /\ Self \in Ends
    BY <1>2 DEF Send, close, Ends
  <2>2. Kept
    BY <2>1 DEF Kept, Given
  <2>3. OfCalls' /\ (BothOpen' => BothOpen) /\ (Settled => Settled')
    BY <2>1 DEF HalfInv, OfCalls, BothOpen, Open, Settled, Given
  <2>4. QED
    BY <2>1, <2>2, <2>3, XmitHalf
<1>3. ASSUME NEW p \in Peers, BuildFdset(p) PROVE HalfInv'
  BY <1>3, CloseCallHalf, CloseTunnelHalf DEF BuildFdset
<1>4. ASSUME NEW p \in Peers, Disconnect(p) PROVE HalfInv'
  BY <1>4, CloseTunnelHalf DEF Disconnect, Idle
<1>5. ASSUME NEW p \in Peers, PppdExit(p) \/ ReadFails(p) PROVE HalfInv'
  <2>1. PICK k \in pppd[p] : /\ needclose' = [needclose EXCEPT ![p] = @ \cup {k}]
                             /\ pppd' \in {pppd, [pppd EXCEPT ![p] = @ \ {k}]}
    BY <1>5 DEF PppdExit, ReadFails
  <2>2. UNCHANGED <<control_rec_seq_num, sent, net, alive, calls, closing>>
    BY <1>5 DEF PppdExit, ReadFails, seqnums
  <2>3. QED
    BY <2>1, <2>2, NeedCloseHalf
<1>6. ASSUME NEW p \in Peers, Timer(p) PROVE HalfInv'
  <2>1. PICK b \in events[p] : Toss(p, b) \/ Again(p, b) \/ GiveUp(p, b)
    BY <1>6 DEF Timer
  <2>2. CASE GiveUp(p, b)
    BY <1>6, <2>2, CloseTunnelHalf DEF GiveUp, Timer, Idle
  <2>3. CASE Toss(p, b) \/ Again(p, b)
    <3>1. b.pkt \in net
      BY DEF OrderInv, ScheduledWereSent
    <3>2. UNCHANGED <<control_rec_seq_num, sent, net, alive, calls, pppd, needclose, closing>>
      BY <2>3, <3>1 DEF Toss, Again, seqnums, close
    <3>3. QED
      BY <3>2, SameFieldsHalf
  <2>4. QED
    BY <2>1, <2>2, <2>3
<1>7. ASSUME NEW p \in Peers, Receive(p) PROVE HalfInv'
  <2>1. FewSent
    BY WithinHalfFew
  <2>2. QED
    BY <1>7, <2>1, HandlePacketHalf, HandleSpecialHalf DEF Receive
<1>8. QED
  BY <1>1, <1>2, <1>3, <1>4, <1>5, <1>6, <1>7 DEF Next

LEMMA HalfInductive ==
  ASSUME \A k, l \in Calls : k = l
  PROVE  TypeOK /\ (FewSent => OrderInv) /\ (WithinHalf => HalfInv) /\ [Next]_vars
         => (WithinHalf' => HalfInv')
  BY NextHalf, WithinHalfBefore, WithinHalfFew

(* On a tunnel of at most one call, a call that one end destroyed is not left *)
(* open at the other: that end has it no more, closes it or is being told.    *)
(* With two calls it may be left open (README, section 5).     *)
THEOREM CallsEndAtBothEnds ==
  ASSUME \A k, l \in Calls : k = l PROVE Spec => [](WithinHalf => NoHalfOpenCall)
<1>1. (WithinHalf => HalfInv) => (WithinHalf => NoHalfOpenCall)
  BY DEF HalfInv, BothOpen, Open, Settled, Given, NoHalfOpenCall
<1>2. Init => TypeOK /\ (FewSent => OrderInv) /\ (WithinHalf => HalfInv)
  BY InitType, InitOrder, InitHalf
<1>3. QED
  BY NextType, NextOrder, HalfInductive, <1>1, <1>2, PTL DEF Spec
==============================================================================
