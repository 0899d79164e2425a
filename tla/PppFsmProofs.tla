----------------------------- MODULE PppFsmProofs -----------------------------
(* What every function of pppd's automaton keeps, for any bounds, any set of *)
(* protocols and any options.                                                *)
EXTENDS PppFsm, TLAPS, SequenceTheorems, WellFoundedInduction

AtRest == {"initial", "starting", "closed", "stopped"}

(* fsm_timeout is on the queue exactly while an answer is waited for. *)
Timed(f) == f.timers = IF f.state \in Negotiating \cup Terminating THEN 1 ELSE 0

(* Between two events the callbacks are made and the packets are sent. *)
Ready(f) == f \in Fsm /\ Timed(f) /\ f.calls = {}

(* What an event on a running link makes of f, by the callbacks it makes.    *)
Kept(f, g, o) ==
  /\ g.calls = {}
  /\ f.state = "opened" <=> g.state = "opened"
  /\ g.state = "opened" => g.go = f.go
  /\ g.state \in AtRest => g.state = f.state \/ (g.state = "stopped" /\ o.passive)
Opened(f, g)   == g.calls = {"up"} /\ f.state # "opened" /\ g.state = "opened"
Downed(f, g)   == g.calls = {"down"} /\ f.state = "opened" /\ g.state \notin AtRest \cup {"opened"}
Finished(f, g) ==
  /\ g.state \in {"closed", "stopped"}
  /\ \/ g.calls = {"finished"} /\ f.state # "opened"
     \/ g.calls = {"down", "finished"} /\ f.state = "opened"

Steps(f, g, o) ==
  /\ g \in Fsm /\ Timed(g)
  /\ Kept(f, g, o) \/ Opened(f, g) \/ Downed(f, g) \/ Finished(f, g)

-----------------------------------------------------------------------------
(* The values functions are built from *)

(* The preference asked for first is one of the preferences. *)
LEMMA FirstIn ==
  ASSUME NEW as \in SUBSET Auths, as # {}
  PROVE  First(as) \in as
<1> DEFINE R == OpToRel(<, Nat)
<1>1. as \subseteq Nat
  BY FsmAssumption
<1>2. \E x \in as : \A y \in as : ~(<<y, x>> \in R)
  <2> HIDE DEF R
  <2>1. IsWellFoundedOn(R, Nat)
    BY NatLessThanWellFounded DEF R
  <2> QED BY <1>1, <2>1, WFMin
<1>3. \A x, y \in Nat : ~(<<y, x>> \in R) => x <= y
  BY DEF OpToRel
<1>4. \E x \in as : \A y \in as : x <= y
  BY <1>1, <1>2, <1>3
<1> QED BY <1>4 DEF First

LEMMA AskForIn ==
  ASSUME NEW as \in SUBSET Auths
  PROVE  AskFor(as) \in Auths \cup {None}
BY FirstIn DEF AskFor

LEMMA NextId ==
  ASSUME NEW i \in 0..Wrap - 1
  PROVE  Next1(i) \in 0..Wrap - 1
BY FsmAssumption DEF Next1

(* A callback is noted, a packet is on its way. *)
LEMMA Appended ==
  ASSUME NEW f \in Fsm, NEW c \in Calls
  PROVE  /\ Call(f, c) \in Fsm
         /\ Call(f, c).calls = f.calls \cup {c}
         /\ Call(f, c).state = f.state /\ Call(f, c).timers = f.timers
         /\ Call(f, c).go = f.go /\ Call(f, c).nakloops = f.nakloops
         /\ Call(f, c).retransmits = f.retransmits /\ Call(f, c).seen_ack = f.seen_ack
BY DEF Call, Fsm

LEMMA Sent ==
  ASSUME NEW f \in Fsm, NEW code \in Codes, NEW i \in 0..Wrap - 1, NEW a \in Auths \cup {None}
  PROVE  /\ Send(f, code, i, a) \in Fsm
         /\ Send(f, code, i, a).calls = f.calls
         /\ Send(f, code, i, a).state = f.state /\ Send(f, code, i, a).timers = f.timers
         /\ Send(f, code, i, a).go = f.go /\ Send(f, code, i, a).nakloops = f.nakloops
         /\ Send(f, code, i, a).retransmits = f.retransmits
<1>1. [code |-> code, id |-> i, auth |-> a] \in Packets
  BY DEF Packets
<1>2. Append(f.out, [code |-> code, id |-> i, auth |-> a]) \in Seq(Packets)
  BY <1>1, AppendProperties DEF Fsm
<1> QED BY <1>2 DEF Send, Fsm

LEMMA Moved ==
  ASSUME NEW f \in Fsm, NEW s \in States
  PROVE  /\ To(f, s) \in Fsm
         /\ To(f, s).calls = f.calls /\ To(f, s).state = s
         /\ To(f, s).timers = f.timers /\ To(f, s).go = f.go
         /\ To(f, s).nakloops = f.nakloops /\ To(f, s).retransmits = f.retransmits
         /\ To(f, s).seen_ack = f.seen_ack
BY DEF To, Fsm

LEMMA Timers ==
  ASSUME NEW f \in Fsm
  PROVE  /\ Timeout(f) \in Fsm /\ Untimeout(f) \in Fsm
         /\ Timeout(f).timers = f.timers + 1
         /\ Untimeout(f).timers = IF f.timers = 0 THEN 0 ELSE f.timers - 1
         /\ Timeout(f).calls = f.calls /\ Untimeout(f).calls = f.calls
         /\ Timeout(f).state = f.state /\ Untimeout(f).state = f.state
         /\ Timeout(f).go = f.go /\ Untimeout(f).go = f.go
         /\ Untimeout(f).retransmits = f.retransmits /\ Timeout(f).retransmits = f.retransmits
         /\ Untimeout(f).seen_ack = f.seen_ack
BY DEF Timeout, Untimeout, Fsm

(* fsm_sconfreq starts the timer and changes nothing else that matters here. *)
LEMMA Requests ==
  ASSUME NEW f \in Fsm, NEW o \in Options, NEW again \in BOOLEAN,
         again => f.retransmits > 0
  PROVE  /\ SConfReq(f, o, again) \in Fsm
         /\ SConfReq(f, o, again).calls = f.calls
         /\ SConfReq(f, o, again).state = f.state
         /\ SConfReq(f, o, again).timers = f.timers + 1
<1> DEFINE g == IF f.state \in Negotiating THEN f
                ELSE [f EXCEPT !.go = o.wants, !.nakloops = 0]
           h == IF again THEN g
                ELSE [g EXCEPT !.retransmits = MaxConf, !.id = Next1(@), !.reqid = Next1(g.id)]
           k == [Send(h, "ConfReq", h.reqid, AskFor(h.go))
                   EXCEPT !.seen_ack = FALSE, !.retransmits = @ - 1]
<1>1. /\ g \in Fsm /\ g.calls = f.calls /\ g.state = f.state /\ g.timers = f.timers
      /\ g.retransmits = f.retransmits
  BY DEF Fsm, Options
<1>2. h \in Fsm /\ h.calls = f.calls /\ h.state = f.state /\ h.timers = f.timers /\ h.retransmits > 0
  <2> HIDE DEF g
  <2>1. Next1(g.id) \in 0..Wrap - 1
    BY <1>1, NextId DEF Fsm
  <2>2. CASE again
    BY <1>1, <2>2
  <2>3. CASE ~again
    <3>1. h = [g EXCEPT !.retransmits = MaxConf, !.id = Next1(g.id), !.reqid = Next1(g.id)]
      BY <2>3
    <3> HIDE DEF h
    <3>2. MaxConf \in 0..MaxConf + MaxTerm /\ MaxConf > 0
      BY FsmAssumption
    <3>3. h \in Fsm
      BY <1>1, <2>1, <3>1, <3>2 DEF Fsm
    <3> QED BY <1>1, <3>1, <3>2, <3>3 DEF Fsm
  <2> QED BY <2>2, <2>3
<1>3. k \in Fsm /\ k.calls = f.calls /\ k.state = f.state /\ k.timers = f.timers
  <2> HIDE DEF h, k
  <2>1. h.reqid \in 0..Wrap - 1 /\ AskFor(h.go) \in Auths \cup {None}
    BY <1>2, AskForIn DEF Fsm
  <2> DEFINE s == Send(h, "ConfReq", h.reqid, AskFor(h.go))
  <2>2. s \in Fsm /\ s.calls = h.calls /\ s.state = h.state /\ s.timers = h.timers
        /\ s.retransmits = h.retransmits
    BY <1>2, <2>1, Sent DEF Codes
  <2> HIDE DEF s
  <2>3. s.retransmits - 1 \in 0..MaxConf + MaxTerm
    <3>1. s.retransmits \in 0..MaxConf + MaxTerm /\ s.retransmits > 0
      BY <1>2, <2>2 DEF Fsm
    <3>2. MaxConf + MaxTerm \in Nat
      BY FsmAssumption
    <3> QED BY <3>1, <3>2
  <2>4. [s EXCEPT !.seen_ack = FALSE, !.retransmits = @ - 1] \in Fsm
    BY <2>2, <2>3 DEF Fsm
  <2>5. k = [s EXCEPT !.seen_ack = FALSE, !.retransmits = @ - 1]
    BY DEF s, k
  <2> QED BY <1>2, <2>2, <2>4, <2>5 DEF Fsm
<1>4. SConfReq(f, o, again) = Timeout(k)
  BY DEF SConfReq
<1> HIDE DEF k
<1> QED BY <1>3, <1>4, Timers

LEMMA Renegotiates ==
  ASSUME NEW f \in Fsm, NEW o \in Options
  PROVE  /\ Renegotiate(f, o) \in Fsm
         /\ Renegotiate(f, o).calls = f.calls
         /\ Renegotiate(f, o).state = "reqsent"
         /\ Renegotiate(f, o).timers = f.timers + 1
<1> DEFINE g == SConfReq(f, o, FALSE)
<1>1. g \in Fsm /\ g.calls = f.calls /\ g.timers = f.timers + 1
  BY Requests
<1>2. Renegotiate(f, o) = To(g, "reqsent")
  BY DEF Renegotiate
<1> HIDE DEF g
<1> QED BY <1>1, <1>2, Moved DEF States

LEMMA Terminates1 ==
  ASSUME NEW f \in Fsm
  PROVE  /\ STermReq(f) \in Fsm
         /\ STermReq(f).calls = f.calls /\ STermReq(f).state = f.state
         /\ STermReq(f).timers = f.timers /\ STermReq(f).retransmits = f.retransmits
<1> DEFINE i == Next1(f.id)
           g == [f EXCEPT !.id = Next1(@), !.reqid = Next1(f.id)]
<1>1. i \in 0..Wrap - 1
  BY NextId DEF Fsm
<1>2. /\ g \in Fsm /\ g.calls = f.calls /\ g.state = f.state
      /\ g.timers = f.timers /\ g.retransmits = f.retransmits
  BY <1>1 DEF Fsm
<1>3. STermReq(f) = Send(g, "TermReq", i, None)
  BY DEF STermReq
<1> HIDE DEF g, i
<1> QED BY <1>1, <1>2, <1>3, Sent DEF Codes

LEMMA Layers ==
  ASSUME NEW f \in Fsm, f.state \in Negotiating \cup {"opened"}, Timed(f),
         NEW next \in Terminating
  PROVE  /\ TerminateLayer(f, next) \in Fsm /\ Timed(TerminateLayer(f, next))
         /\ TerminateLayer(f, next).state \in
              {next, IF next = "closing" THEN "closed" ELSE "stopped"}
         /\ TerminateLayer(f, next).calls =
              f.calls \cup (IF f.state = "opened" THEN {"down"} ELSE {})
                \cup (IF TerminateLayer(f, next).state = next THEN {} ELSE {"finished"})
<1> DEFINE g == IF f.state = "opened" THEN Call(f, "down") ELSE Untimeout(f)
           a == [g EXCEPT !.retransmits = MaxTerm]
           h == STermReq(a)
           down == IF f.state = "opened" THEN {"down"} ELSE {}
           rest == IF next = "closing" THEN "closed" ELSE "stopped"
<1>1. g \in Fsm /\ g.calls = f.calls \cup down /\ g.state = f.state /\ g.timers = 0
  <2>1. f.timers = IF f.state = "opened" THEN 0 ELSE 1
    BY DEF Timed, Negotiating, Terminating
  <2>2. CASE f.state = "opened"
    BY <2>1, <2>2, Appended DEF Calls
  <2>3. CASE f.state # "opened"
    BY <2>1, <2>3, Timers
  <2> QED BY <2>2, <2>3
<1>2. /\ a \in Fsm /\ a.calls = g.calls /\ a.state = g.state /\ a.timers = g.timers
      /\ a.retransmits = MaxTerm
  <2> HIDE DEF g
  <2>1. MaxTerm \in 0..MaxConf + MaxTerm
    BY FsmAssumption
  <2> QED BY <1>1, <2>1 DEF Fsm
<1>3. /\ h \in Fsm /\ h.calls = f.calls \cup down /\ h.state = f.state /\ h.timers = 0
      /\ h.retransmits = MaxTerm
  <2> HIDE DEF a, down, g
  <2> QED BY <1>1, <1>2, Terminates1
<1>4. TerminateLayer(f, next) =
        IF MaxTerm = 0 THEN Call(To(h, rest), "finished")
        ELSE To(Timeout([h EXCEPT !.retransmits = @ - 1]), next)
  BY DEF TerminateLayer
<1>5. CASE MaxTerm = 0
  <2> HIDE DEF h, down
  <2>1. rest \in States /\ rest \in {"closed", "stopped"} /\ next \notin {"closed", "stopped"}
    BY DEF States, Terminating
  <2> HIDE DEF rest
  <2>2. To(h, rest) \in Fsm /\ To(h, rest).calls = h.calls /\ To(h, rest).state = rest
        /\ To(h, rest).timers = h.timers
    BY <1>3, <2>1, Moved
  <2>3. TerminateLayer(f, next) = Call(To(h, rest), "finished")
    BY <1>4, <1>5
  <2>4. /\ TerminateLayer(f, next) \in Fsm
        /\ TerminateLayer(f, next).calls = f.calls \cup down \cup {"finished"}
        /\ TerminateLayer(f, next).state = rest /\ TerminateLayer(f, next).timers = 0
    BY <1>3, <2>2, <2>3, Appended DEF Calls
  <2> QED BY <2>1, <2>4 DEF Timed, Negotiating, Terminating, down, rest
<1>6. CASE MaxTerm # 0
  <2> DEFINE k == [h EXCEPT !.retransmits = @ - 1]
  <2> HIDE DEF h, down
  <2>1. MaxTerm - 1 \in 0..MaxConf + MaxTerm
    BY <1>6, FsmAssumption
  <2>2. k \in Fsm /\ k.calls = h.calls /\ k.timers = h.timers
    BY <1>3, <2>1 DEF Fsm
  <2> HIDE DEF k
  <2>3. next \in States
    BY DEF States, Terminating
  <2>4. Timeout(k) \in Fsm /\ Timeout(k).calls = h.calls /\ Timeout(k).timers = 1
    BY <1>3, <2>2, Timers
  <2>5. TerminateLayer(f, next) = To(Timeout(k), next)
    BY <1>4, <1>6 DEF k
  <2>6. /\ TerminateLayer(f, next) \in Fsm
        /\ TerminateLayer(f, next).calls = f.calls \cup down
        /\ TerminateLayer(f, next).state = next /\ TerminateLayer(f, next).timers = 1
    BY <1>3, <2>3, <2>4, <2>5, Moved
  <2> QED BY <2>6 DEF Timed, Negotiating, Terminating, down
<1> QED BY <1>5, <1>6

-----------------------------------------------------------------------------
(* The functions that are no answers to packets *)

(* fsm_lowerup and fsm_open of an automaton at rest. *)
LEMMA Starts ==
  ASSUME NEW f, Ready(f), f.state = "initial", NEW o \in Options
  PROVE  /\ Open(f, o) \in Fsm /\ Timed(Open(f, o)) /\ Open(f, o).state = "starting"
         /\ Open(f, o).calls = {"starting"}
         /\ LowerUp(Open(f, o), o) \in Fsm /\ Timed(LowerUp(Open(f, o), o))
         /\ LowerUp(Open(f, o), o).calls = {"starting"}
         /\ LowerUp(Open(f, o), o).state = IF o.silent THEN "stopped" ELSE "reqsent"
<1> DEFINE g == Open(f, o)
<1>1. g = Call(To(f, "starting"), "starting")
  BY DEF Open
<1>2. /\ To(f, "starting") \in Fsm /\ To(f, "starting").calls = {}
      /\ To(f, "starting").state = "starting" /\ To(f, "starting").timers = 0
  BY Moved DEF Ready, Timed, States, Negotiating, Terminating
<1>3. g \in Fsm /\ g.calls = {"starting"} /\ g.state = "starting" /\ g.timers = 0
  BY <1>1, <1>2, Appended DEF Calls
<1> HIDE DEF g
<1>4. LowerUp(g, o) = IF o.silent THEN To(g, "stopped") ELSE Renegotiate(g, o)
  BY <1>3 DEF LowerUp
<1>5. CASE o.silent
  BY <1>3, <1>4, <1>5, Moved DEF g, Timed, States, Negotiating, Terminating
<1>6. CASE ~o.silent
  BY <1>3, <1>4, <1>6, Renegotiates DEF g, Timed, States, Negotiating, Terminating
<1> QED BY <1>5, <1>6

LEMMA LowerDowns ==
  ASSUME NEW f \in Fsm, Timed(f)
  PROVE  /\ LowerDown(f) \in Fsm /\ Timed(LowerDown(f))
         /\ LowerDown(f).state \in {"initial", "starting"}
         /\ LowerDown(f).calls \subseteq f.calls \cup {"starting", "down"}
         /\ f.state = "opened" => "down" \in LowerDown(f).calls
         /\ f.state # "opened" => LowerDown(f).calls \subseteq f.calls \cup {"starting"}
<1>1. /\ \A s \in States : /\ To(f, s) \in Fsm /\ To(f, s).calls = f.calls
                           /\ To(f, s).state = s /\ To(f, s).timers = f.timers
  BY Moved
<1>2. "initial" \in States /\ "starting" \in States /\ f.timers = IF f.state \in Negotiating \cup Terminating THEN 1 ELSE 0
  BY DEF States, Timed
<1>3. CASE f.state = "closed"
  BY <1>1, <1>2, <1>3 DEF LowerDown, Timed, Negotiating, Terminating
<1>4. CASE f.state = "stopped"
  <2>1. LowerDown(f) = Call(To(f, "starting"), "starting")
    BY <1>4 DEF LowerDown, Negotiating
  <2>2. /\ LowerDown(f) \in Fsm /\ LowerDown(f).calls = f.calls \cup {"starting"}
        /\ LowerDown(f).state = "starting" /\ LowerDown(f).timers = f.timers
    BY <1>1, <1>2, <2>1, Appended DEF Calls
  <2> QED BY <1>2, <1>4, <2>2 DEF Timed, Negotiating, Terminating
<1>5. CASE f.state \in Negotiating \cup Terminating
  <2>1. \E s \in {"initial", "starting"} : LowerDown(f) = Untimeout(To(f, s))
    BY <1>5 DEF LowerDown, Negotiating, Terminating
  <2>2. /\ LowerDown(f) \in Fsm /\ LowerDown(f).calls = f.calls
        /\ LowerDown(f).state \in {"initial", "starting"} /\ LowerDown(f).timers = 0
    BY <1>1, <1>2, <1>5, <2>1, Timers
  <2> QED BY <1>5, <2>2 DEF Timed, Negotiating, Terminating
<1>6. CASE f.state = "opened"
  <2>1. LowerDown(f) = To(Call(f, "down"), "starting")
    BY <1>6 DEF LowerDown, Negotiating
  <2>2. /\ Call(f, "down") \in Fsm /\ Call(f, "down").calls = f.calls \cup {"down"}
        /\ Call(f, "down").timers = f.timers
    BY Appended DEF Calls
  <2>3. /\ LowerDown(f) \in Fsm /\ LowerDown(f).calls = f.calls \cup {"down"}
        /\ LowerDown(f).state = "starting" /\ LowerDown(f).timers = f.timers
    BY <1>2, <2>1, <2>2, Moved
  <2> QED BY <1>2, <1>6, <2>3 DEF Timed, Negotiating, Terminating
<1>7. CASE f.state \in {"initial", "starting"}
  <2>1. LowerDown(f) = f
    BY <1>7 DEF LowerDown, Negotiating
  <2> QED BY <1>7, <2>1
<1> QED BY <1>3, <1>4, <1>5, <1>6, <1>7 DEF Fsm, States, Negotiating, Terminating

(* fsm_close makes no callback for one that stopped. *)
LEMMA Closes ==
  ASSUME NEW f \in Fsm, Timed(f)
  PROVE  /\ Close(f) \in Fsm /\ Timed(Close(f))
         /\ Close(f).state \notin {"starting", "stopped", "opened"} \cup Negotiating
         /\ f.state \in {"initial", "starting"} => Close(f).state = "initial"
         /\ f.state = "stopped" => Close(f).state = "closed"
         /\ f.state \in AtRest \cup Terminating => Close(f).calls = f.calls
         /\ f.state \in Negotiating \cup {"opened"} =>
              \/ Close(f).state = "closing"
                 /\ Close(f).calls = f.calls \cup (IF f.state = "opened" THEN {"down"} ELSE {})
              \/ Close(f).state = "closed"
                 /\ Close(f).calls = f.calls \cup (IF f.state = "opened" THEN {"down"} ELSE {})
                                       \cup {"finished"}
<1>1. CASE f.state \in AtRest \cup Terminating
  <2>1. \/ Close(f) = f /\ f.state \in {"initial", "closed", "closing"}
        \/ f.state = "starting" /\ Close(f) = To(f, "initial")
        \/ f.state = "stopped" /\ Close(f) = To(f, "closed")
        \/ f.state = "stopping" /\ Close(f) = To(f, "closing")
    BY <1>1 DEF Close, AtRest, Terminating, Negotiating
  <2>2. \A s \in States : /\ To(f, s) \in Fsm /\ To(f, s).calls = f.calls
                          /\ To(f, s).state = s /\ To(f, s).timers = f.timers
    BY Moved
  <2> QED BY <1>1, <2>1, <2>2 DEF Timed, States, AtRest, Terminating, Negotiating
<1>2. CASE f.state \in Negotiating \cup {"opened"}
  <2> DEFINE g == TerminateLayer(f, "closing")
  <2>1. Close(f) = g
    BY <1>2 DEF Close, Negotiating
  <2>2. /\ g \in Fsm /\ Timed(g) /\ g.state \in {"closing", "closed", "stopped"}
        /\ g.calls = f.calls \cup (IF f.state = "opened" THEN {"down"} ELSE {})
                       \cup (IF g.state = "closing" THEN {} ELSE {"finished"})
    BY <1>2, Layers DEF Terminating
  <2>3. g.state # "stopped"
    BY <1>2, Layers DEF Terminating
  <2> HIDE DEF g
  <2> QED BY <1>2, <2>1, <2>2, <2>3 DEF AtRest, Terminating, Negotiating
<1> QED BY <1>1, <1>2 DEF Fsm, States, AtRest, Terminating, Negotiating

(* fsm_timeout, while an answer is waited for. *)
LEMMA Expires ==
  ASSUME NEW f, Ready(f), f.timers > 0, NEW o \in Options
  PROVE  Steps(f, Expire(f, o), o)
<1> DEFINE g == [f EXCEPT !.timers = @ - 1]
<1>1. f \in Fsm /\ f.calls = {} /\ f.timers = 1 /\ f.state \in Negotiating \cup Terminating
  BY DEF Ready, Timed
<1>2. /\ g \in Fsm /\ g.calls = {} /\ g.timers = 0 /\ g.state = f.state
      /\ g.retransmits = f.retransmits
  BY <1>1 DEF Fsm
<1>3. \A s \in {"closed", "stopped"} :
         /\ Call(To(g, s), "finished") \in Fsm
         /\ Call(To(g, s), "finished").calls = {"finished"}
         /\ Call(To(g, s), "finished").state = s /\ Call(To(g, s), "finished").timers = 0
  <2> HIDE DEF g
  <2> TAKE s \in {"closed", "stopped"}
  <2>1. To(g, s) \in Fsm /\ To(g, s).calls = {} /\ To(g, s).state = s /\ To(g, s).timers = 0
    BY <1>2, Moved DEF States
  <2> QED BY <2>1, Appended DEF Calls
<1>4. CASE f.state \in Terminating
  <2>1. Expire(f, o) = IF f.retransmits = 0
                         THEN Call(To(g, IF f.state = "closing" THEN "closed" ELSE "stopped"), "finished")
                         ELSE Timeout([STermReq(g) EXCEPT !.retransmits = @ - 1])
    BY <1>4 DEF Expire, Negotiating, Terminating
  <2>2. CASE f.retransmits = 0
    <3> HIDE DEF g
    <3>1. \E s \in {"closed", "stopped"} : Expire(f, o) = Call(To(g, s), "finished")
      BY <2>1, <2>2
    <3> QED BY <1>3, <1>4, <3>1 DEF Steps, Finished, Timed, Negotiating, Terminating
  <2>3. CASE f.retransmits # 0
    <3> DEFINE h == STermReq(g)
               k == [h EXCEPT !.retransmits = @ - 1]
    <3>1. /\ h \in Fsm /\ h.calls = {} /\ h.state = f.state /\ h.timers = 0
          /\ h.retransmits = f.retransmits
      <4> HIDE DEF g
      <4> QED BY <1>2, Terminates1
    <3>2. f.retransmits - 1 \in 0..MaxConf + MaxTerm
      BY <1>1, <2>3, FsmAssumption DEF Fsm
    <3> HIDE DEF h
    <3>3. k \in Fsm /\ k.calls = {} /\ k.state = f.state /\ k.timers = 0
      BY <3>1, <3>2 DEF Fsm
    <3>4. Expire(f, o) = Timeout(k)
      BY <2>1, <2>3 DEF h
    <3> HIDE DEF k
    <3>5. /\ Expire(f, o) \in Fsm /\ Expire(f, o).calls = {}
          /\ Expire(f, o).state = f.state /\ Expire(f, o).timers = 1
      BY <3>3, <3>4, Timers
    <3> QED BY <1>4, <3>5 DEF Steps, Kept, Timed, AtRest, Negotiating, Terminating
  <2> QED BY <2>2, <2>3
<1>5. CASE f.state \in Negotiating
  <2> DEFINE s == IF f.state = "ackrcvd" THEN "reqsent" ELSE f.state
             r == SConfReq(g, o, TRUE)
  <2>1. Expire(f, o) = IF f.retransmits = 0
                         THEN IF o.passive THEN To(g, "stopped") ELSE Call(To(g, "stopped"), "finished")
                         ELSE To(r, s)
    BY <1>5 DEF Expire, Negotiating, Terminating
  <2>2. CASE f.retransmits = 0 /\ o.passive
    <3> HIDE DEF g
    <3>1. /\ Expire(f, o) \in Fsm /\ Expire(f, o).calls = {}
          /\ Expire(f, o).state = "stopped" /\ Expire(f, o).timers = 0
      BY <1>2, <2>1, <2>2, Moved DEF States
    <3> QED BY <1>5, <2>2, <3>1 DEF Steps, Kept, Timed, AtRest, Negotiating, Terminating
  <2>3. CASE f.retransmits = 0 /\ ~o.passive
    <3> HIDE DEF g
    <3>1. Expire(f, o) = Call(To(g, "stopped"), "finished")
      BY <2>1, <2>3
    <3> QED BY <1>3, <1>5, <3>1 DEF Steps, Finished, Timed, Negotiating, Terminating
  <2>4. CASE f.retransmits # 0
    <3>1. f.retransmits > 0
      BY <1>1, <2>4, FsmAssumption DEF Fsm
    <3>2. r \in Fsm /\ r.calls = {} /\ r.timers = 1
      <4> HIDE DEF g
      <4>1. g.retransmits > 0 /\ g.calls = {} /\ g.timers + 1 = 1
        BY <1>2, <3>1
      <4>2. TRUE => g.retransmits > 0
        BY <4>1
      <4>3. r \in Fsm /\ r.calls = g.calls /\ r.timers = g.timers + 1
        BY <1>2, <4>2, Requests
      <4> QED BY <4>1, <4>3
    <3>3. s \in Negotiating /\ s \in States /\ s \notin AtRest
      BY <1>5 DEF Negotiating, States, AtRest
    <3> HIDE DEF r, s
    <3>4. /\ Expire(f, o) \in Fsm /\ Expire(f, o).calls = {}
          /\ Expire(f, o).state = s /\ Expire(f, o).timers = 1
      BY <2>1, <2>4, <3>2, <3>3, Moved
    <3> QED BY <1>5, <3>3, <3>4 DEF Steps, Kept, Timed, AtRest, Negotiating, Terminating
  <2> QED BY <2>2, <2>3, <2>4
<1> QED BY <1>1, <1>4, <1>5

-----------------------------------------------------------------------------
(* Answers to packets *)

Listening == States \ {"initial", "starting"}

LEMMA Answered ==
  ASSUME NEW o \in Options, NEW a \in Auths \cup {None}, NEW tough
  PROVE  ReqCI(o, a, tough).code \in Codes /\ ReqCI(o, a, tough).auth \in Auths \cup {None}
<1>1. o.allows \in SUBSET Auths
  BY DEF Options
<1>2. o.allows # {} => First(o.allows) \in Auths
  BY <1>1, FirstIn
<1> QED BY <1>2 DEF ReqCI, Codes

LEMMA NegotiatedAgain ==
  ASSUME NEW f \in Fsm, Timed(f), f.state \in Negotiating \cup {"stopped", "opened"},
         NEW o \in Options
  PROVE  /\ Negotiated(f, o) \in Fsm
         /\ Negotiated(f, o).calls = f.calls \cup (IF f.state = "opened" THEN {"down"} ELSE {})
         /\ Negotiated(f, o).state = IF f.state \in Negotiating THEN f.state ELSE "reqsent"
         /\ Negotiated(f, o).timers = 1
<1>1. CASE f.state = "opened"
  <2>1. /\ Call(f, "down") \in Fsm /\ Call(f, "down").calls = f.calls \cup {"down"}
        /\ Call(f, "down").timers = 0
    BY <1>1, Appended DEF Calls, Timed, Negotiating, Terminating
  <2>2. Negotiated(f, o) = Renegotiate(Call(f, "down"), o)
    BY <1>1 DEF Negotiated
  <2> QED BY <1>1, <2>1, <2>2, Renegotiates DEF Negotiating
<1>2. CASE f.state = "stopped"
  <2>1. f.timers = 0
    BY <1>2 DEF Timed, Negotiating, Terminating
  <2>2. Negotiated(f, o) = Renegotiate(f, o)
    BY <1>2 DEF Negotiated
  <2> QED BY <1>2, <2>1, <2>2, Renegotiates DEF Negotiating
<1>3. CASE f.state \in Negotiating
  <2>1. Negotiated(f, o) = f
    BY <1>3 DEF Negotiated, Negotiating
  <2> QED BY <1>3, <2>1 DEF Timed, Negotiating
<1> QED BY <1>1, <1>2, <1>3

(* An answer opens the link only for one whose own request was agreed to. *)
LEMMA Agrees ==
  ASSUME NEW f \in Fsm, f.state \in Negotiating, f.timers = 1,
         NEW o \in Options, NEW p \in Packets
  PROVE  /\ Agree(f, o, p) \in Fsm
         /\ \/ /\ Agree(f, o, p).state \in Negotiating
               /\ Agree(f, o, p).calls = f.calls /\ Agree(f, o, p).timers = 1
            \/ /\ f.state = "ackrcvd" /\ Agree(f, o, p).state = "opened"
               /\ Agree(f, o, p).calls = f.calls \cup {"up"} /\ Agree(f, o, p).timers = 0
<1> DEFINE r == ReqCI(o, p.auth, f.nakloops >= MaxNak)
           h == Answer(f, p, r)
           g == Agree(f, o, p)
<1>1. p.id \in 0..Wrap - 1 /\ p.auth \in Auths \cup {None}
  BY DEF Packets
<1>2. g = IF r.code # "ConfAck"
            THEN [To(h, IF f.state = "ackrcvd" THEN "ackrcvd" ELSE "reqsent")
                    EXCEPT !.nakloops = IF r.code = "ConfNak" THEN @ + 1 ELSE @]
          ELSE IF f.state = "ackrcvd"
            THEN [Call(To(Untimeout(h), "opened"), "up") EXCEPT !.nakloops = 0]
          ELSE [To(h, "acksent") EXCEPT !.nakloops = 0]
  BY DEF Agree
<1>3. r.code \in Codes /\ r.auth \in Auths \cup {None}
  BY <1>1, Answered
<1> HIDE DEF r, g
<1>4. h \in Fsm /\ h.calls = f.calls /\ h.timers = 1
  <2> DEFINE k == [f EXCEPT !.ho = IF r.code = "ConfAck" THEN p.auth ELSE None]
  <2>1. k \in Fsm /\ k.calls = f.calls /\ k.timers = 1
    BY <1>1 DEF Fsm
  <2>2. h = Send(k, r.code, p.id, r.auth)
    BY DEF Answer
  <2> HIDE DEF h, k
  <2> QED BY <1>1, <1>3, <2>1, <2>2, Sent
<1> HIDE DEF h
<1>5. CASE r.code # "ConfAck"
  <2> DEFINE s == IF f.state = "ackrcvd" THEN "ackrcvd" ELSE "reqsent"
             t == To(h, s)
             n == IF r.code = "ConfNak" THEN t.nakloops + 1 ELSE t.nakloops
  <2>1. s \in Negotiating /\ s \in States
    BY DEF Negotiating, States
  <2>2. g = [t EXCEPT !.nakloops = n]
    BY <1>2, <1>5
  <2> HIDE DEF s
  <2>3. t \in Fsm /\ t.calls = f.calls /\ t.timers = 1 /\ t.state = s
    BY <1>4, <2>1, Moved
  <2> HIDE DEF t
  <2>4. n \in Nat
    BY <2>3 DEF Fsm
  <2> HIDE DEF n
  <2>5. g \in Fsm /\ g.calls = f.calls /\ g.timers = 1 /\ g.state = s
    BY <2>2, <2>3, <2>4 DEF Fsm
  <2> QED BY <2>1, <2>5 DEF g
<1>6. CASE r.code = "ConfAck" /\ f.state = "ackrcvd"
  <2> DEFINE u == Untimeout(h)
             v == To(u, "opened")
             w == Call(v, "up")
  <2>1. u \in Fsm /\ u.calls = f.calls /\ u.timers = 0
    BY <1>4, Timers
  <2> HIDE DEF u
  <2>2. v \in Fsm /\ v.calls = f.calls /\ v.timers = 0 /\ v.state = "opened"
    BY <2>1, Moved DEF States
  <2> HIDE DEF v
  <2>3. w \in Fsm /\ w.calls = f.calls \cup {"up"} /\ w.timers = 0 /\ w.state = "opened"
    BY <2>2, Appended DEF Calls
  <2>4. g = [w EXCEPT !.nakloops = 0]
    BY <1>2, <1>6 DEF u, v
  <2> HIDE DEF w
  <2>5. g \in Fsm /\ g.calls = f.calls \cup {"up"} /\ g.timers = 0 /\ g.state = "opened"
    BY <2>3, <2>4 DEF Fsm
  <2> QED BY <1>6, <2>5 DEF g
<1>7. CASE r.code = "ConfAck" /\ f.state # "ackrcvd"
  <2> DEFINE t == To(h, "acksent")
  <2>1. t \in Fsm /\ t.calls = f.calls /\ t.timers = 1 /\ t.state = "acksent"
    BY <1>4, Moved DEF States
  <2>2. g = [t EXCEPT !.nakloops = 0]
    BY <1>2, <1>7
  <2> HIDE DEF t
  <2>3. g \in Fsm /\ g.calls = f.calls /\ g.timers = 1 /\ g.state = "acksent"
    BY <2>1, <2>2 DEF Fsm
  <2> QED BY <2>3 DEF g, Negotiating
<1> QED BY <1>5, <1>6, <1>7

LEMMA ConfReqs ==
  ASSUME NEW f, Ready(f), f.state \in Listening, NEW o \in Options, NEW p \in Packets
  PROVE  Steps(f, RConfReq(f, o, p), o)
<1>1. f \in Fsm /\ f.calls = {} /\ Timed(f) /\ p.id \in 0..Wrap - 1
  BY DEF Ready, Packets
<1>2. CASE f.state \in {"closed", "closing", "stopping"}
  <2>1. /\ Send(f, "TermAck", p.id, None) \in Fsm /\ Send(f, "TermAck", p.id, None).calls = {}
        /\ Send(f, "TermAck", p.id, None).state = f.state
        /\ Send(f, "TermAck", p.id, None).timers = f.timers
    BY <1>1, Sent DEF Codes
  <2>2. RConfReq(f, o, p) \in {f, Send(f, "TermAck", p.id, None)}
    BY <1>2 DEF RConfReq, Terminating
  <2> QED BY <1>1, <1>2, <2>1, <2>2 DEF Steps, Kept, Timed
<1>3. CASE f.state \in Negotiating \cup {"stopped", "opened"}
  <2> DEFINE n == Negotiated(f, o)
             g == Agree(n, o, p)
             down == IF f.state = "opened" THEN {"down"} ELSE {}
  <2>1. RConfReq(f, o, p) = g
    BY <1>3 DEF RConfReq, Terminating, Negotiating
  <2>2. /\ n \in Fsm /\ n.calls = down /\ n.timers = 1 /\ n.state \in Negotiating
        /\ f.state \in Negotiating \/ n.state = "reqsent"
    BY <1>1, <1>3, NegotiatedAgain DEF Negotiating
  <2> HIDE DEF n
  <2>3. /\ g \in Fsm
        /\ \/ g.state \in Negotiating /\ g.calls = down /\ g.timers = 1
           \/ /\ n.state = "ackrcvd" /\ g.state = "opened"
              /\ g.calls = down \cup {"up"} /\ g.timers = 0
    BY <2>2, Agrees
  <2> HIDE DEF g
  <2> QED BY <1>3, <2>1, <2>2, <2>3
          DEF Steps, Kept, Opened, Downed, Timed, AtRest, Negotiating, Terminating
<1> QED BY <1>2, <1>3 DEF Listening, States, Negotiating

LEMMA AgainFromStart ==
  ASSUME NEW f \in Fsm, Timed(f), f.state \in {"ackrcvd", "opened"}, NEW o \in Options
  PROVE  /\ Again(f, o) \in Fsm /\ Again(f, o).state = "reqsent" /\ Again(f, o).timers = 1
         /\ Again(f, o).calls = f.calls \cup (IF f.state = "opened" THEN {"down"} ELSE {})
<1> DEFINE g == IF f.state = "opened" THEN Call(f, "down") ELSE Untimeout(f)
<1>1. /\ g \in Fsm /\ g.timers = 0
      /\ g.calls = f.calls \cup (IF f.state = "opened" THEN {"down"} ELSE {})
  <2>1. CASE f.state = "opened"
    BY <2>1, Appended DEF Calls, Timed, Negotiating, Terminating
  <2>2. CASE f.state = "ackrcvd"
    BY <2>2, Timers DEF Timed, Negotiating, Terminating
  <2> QED BY <2>1, <2>2
<1>2. Again(f, o) = Renegotiate(g, o)
  BY DEF Again
<1> HIDE DEF g
<1> QED BY <1>1, <1>2, Renegotiates

(* What Steps asks of a renegotiation. *)
LEMMA AgainSteps ==
  ASSUME NEW f, Ready(f), f.state \in {"ackrcvd", "opened"},
         NEW h \in Fsm, Timed(h), h.state = f.state, h.calls = {}, NEW o \in Options
  PROVE  Steps(f, Again(h, o), o)
BY AgainFromStart DEF Ready, Steps, Kept, Downed, Timed, AtRest, Negotiating, Terminating

LEMMA ConfAcks ==
  ASSUME NEW f, Ready(f), f.state \in Listening, NEW o \in Options, NEW p \in Packets
  PROVE  Steps(f, RConfAck(f, o, p), o)
<1> DEFINE g == [f EXCEPT !.seen_ack = TRUE]
<1>1. f \in Fsm /\ f.calls = {} /\ Timed(f) /\ p.id \in 0..Wrap - 1
  BY DEF Ready, Packets
<1>2. /\ g \in Fsm /\ g.calls = {} /\ g.state = f.state /\ g.timers = f.timers /\ Timed(g)
      /\ g.go = f.go
  BY <1>1 DEF Fsm, Timed
<1>3. \/ RConfAck(f, o, p) = f
      \/ f.state \in {"closed", "stopped"} /\ RConfAck(f, o, p) = Send(g, "TermAck", p.id, None)
      \/ f.state = "reqsent" /\ RConfAck(f, o, p) = [To(g, "ackrcvd") EXCEPT !.retransmits = MaxConf]
      \/ /\ f.state = "acksent"
         /\ RConfAck(f, o, p) = Call([To(Untimeout(g), "opened") EXCEPT !.retransmits = MaxConf], "up")
      \/ f.state \in {"ackrcvd", "opened"} /\ RConfAck(f, o, p) = Again(g, o)
      \/ f.state \in Terminating /\ RConfAck(f, o, p) = g
  BY DEF RConfAck, Listening, States, Terminating
<1> HIDE DEF g
<1>4. MaxConf \in 0..MaxConf + MaxTerm
  BY FsmAssumption
<1>5. CASE RConfAck(f, o, p) \in {f, g}
  BY <1>1, <1>2, <1>5 DEF Steps, Kept, Timed
<1>6. CASE RConfAck(f, o, p) = Send(g, "TermAck", p.id, None)
  <2>1. /\ RConfAck(f, o, p) \in Fsm /\ RConfAck(f, o, p).calls = {}
        /\ RConfAck(f, o, p).state = f.state /\ RConfAck(f, o, p).timers = f.timers
        /\ RConfAck(f, o, p).go = f.go
    BY <1>1, <1>2, <1>6, Sent DEF Codes
  <2> QED BY <1>1, <2>1 DEF Steps, Kept, Timed
<1>7. CASE f.state = "reqsent" /\ RConfAck(f, o, p) = [To(g, "ackrcvd") EXCEPT !.retransmits = MaxConf]
  <2> DEFINE h == To(g, "ackrcvd")
  <2>1. h \in Fsm /\ h.calls = {} /\ h.state = "ackrcvd" /\ h.timers = 1
    BY <1>1, <1>2, <1>7, Moved DEF States, Timed, Negotiating
  <2> HIDE DEF h
  <2>2. RConfAck(f, o, p) = [h EXCEPT !.retransmits = MaxConf]
    BY <1>7 DEF h
  <2>3. /\ RConfAck(f, o, p) \in Fsm /\ RConfAck(f, o, p).calls = {}
        /\ RConfAck(f, o, p).state = "ackrcvd" /\ RConfAck(f, o, p).timers = 1
    BY <1>4, <2>1, <2>2 DEF Fsm
  <2> QED BY <1>7, <2>3 DEF Steps, Kept, Timed, AtRest, Negotiating
<1>8. CASE /\ f.state = "acksent"
           /\ RConfAck(f, o, p) = Call([To(Untimeout(g), "opened") EXCEPT !.retransmits = MaxConf], "up")
  <2> DEFINE u == Untimeout(g)
             v == To(u, "opened")
             w == [v EXCEPT !.retransmits = MaxConf]
  <2>1. u \in Fsm /\ u.calls = {} /\ u.timers = 0
    BY <1>1, <1>2, <1>8, Timers DEF Timed, Negotiating
  <2> HIDE DEF u
  <2>2. v \in Fsm /\ v.calls = {} /\ v.timers = 0 /\ v.state = "opened"
    BY <2>1, Moved DEF States
  <2> HIDE DEF v
  <2>3. w \in Fsm /\ w.calls = {} /\ w.timers = 0 /\ w.state = "opened"
    BY <1>4, <2>2 DEF Fsm
  <2>4. RConfAck(f, o, p) = Call(w, "up")
    BY <1>8 DEF u, v
  <2> HIDE DEF w
  <2>5. /\ RConfAck(f, o, p) \in Fsm /\ RConfAck(f, o, p).calls = {"up"}
        /\ RConfAck(f, o, p).state = "opened" /\ RConfAck(f, o, p).timers = 0
    BY <2>3, <2>4, Appended DEF Calls
  <2> QED BY <1>8, <2>5 DEF Steps, Opened, Timed, Negotiating, Terminating
<1>9. CASE f.state \in {"ackrcvd", "opened"} /\ RConfAck(f, o, p) = Again(g, o)
  BY <1>2, <1>9, AgainSteps
<1> QED BY <1>3, <1>5, <1>6, <1>7, <1>8, <1>9

LEMMA ConfNakRejs ==
  ASSUME NEW f, Ready(f), f.state \in Listening, NEW o \in Options, NEW p \in Packets
  PROVE  Steps(f, RConfNakRej(f, o, p), o)
<1> DEFINE n == IF f.state = "opened" THEN f.go
                ELSE IF p.code = "ConfNak" THEN NakCI(f) ELSE {}
           h == [f EXCEPT !.seen_ack = TRUE, !.go = n]
<1>1. f \in Fsm /\ f.calls = {} /\ Timed(f) /\ p.id \in 0..Wrap - 1
  BY DEF Ready, Packets
<1>2. n \in SUBSET Auths /\ (f.state = "opened" => n = f.go)
  <2>1. f.go \in SUBSET Auths /\ NakCI(f) \in SUBSET Auths
    BY <1>1 DEF Fsm, NakCI
  <2> QED BY <2>1
<1>3. \/ RConfNakRej(f, o, p) = f
      \/ f.state \in {"closed", "stopped"} /\ RConfNakRej(f, o, p) = Send(h, "TermAck", p.id, None)
      \/ f.state \in {"reqsent", "acksent"} /\ RConfNakRej(f, o, p) = SConfReq(Untimeout(h), o, FALSE)
      \/ f.state \in {"ackrcvd", "opened"} /\ RConfNakRej(f, o, p) = Again(h, o)
      \/ f.state \in Terminating /\ RConfNakRej(f, o, p) = h
  BY DEF RConfNakRej, Listening, States, Terminating
<1> HIDE DEF n
<1>4. /\ h \in Fsm /\ h.calls = {} /\ h.state = f.state /\ h.timers = f.timers /\ Timed(h)
      /\ f.state = "opened" => h.go = f.go
  BY <1>1, <1>2 DEF Fsm, Timed
<1> HIDE DEF h
<1>5. CASE RConfNakRej(f, o, p) = f \/ (f.state \in Terminating /\ RConfNakRej(f, o, p) = h)
  BY <1>1, <1>4, <1>5 DEF Steps, Kept, Timed
<1>6. CASE RConfNakRej(f, o, p) = Send(h, "TermAck", p.id, None) /\ f.state \in {"closed", "stopped"}
  <2>1. /\ RConfNakRej(f, o, p) \in Fsm /\ RConfNakRej(f, o, p).calls = {}
        /\ RConfNakRej(f, o, p).state = f.state /\ RConfNakRej(f, o, p).timers = f.timers
    BY <1>1, <1>4, <1>6, Sent DEF Codes
  <2> QED BY <1>1, <1>6, <2>1 DEF Steps, Kept, Timed
<1>7. CASE f.state \in {"reqsent", "acksent"} /\ RConfNakRej(f, o, p) = SConfReq(Untimeout(h), o, FALSE)
  <2> DEFINE u == Untimeout(h)
             r == SConfReq(u, o, FALSE)
  <2>1. u \in Fsm /\ u.calls = {} /\ u.timers = 0 /\ u.state = f.state
    BY <1>1, <1>4, <1>7, Timers DEF Timed, Negotiating
  <2> HIDE DEF u
  <2>2. r \in Fsm /\ r.calls = u.calls /\ r.timers = u.timers + 1 /\ r.state = u.state
    BY <2>1, Requests
  <2> HIDE DEF r
  <2>3. RConfNakRej(f, o, p) = r
    BY <1>7 DEF r, u
  <2>4. r \in Fsm /\ r.calls = {} /\ r.timers = 1 /\ r.state \in {"reqsent", "acksent"}
        /\ r.state = f.state
    BY <1>7, <2>1, <2>2
  <2> QED BY <1>7, <2>3, <2>4 DEF Steps, Kept, Timed, AtRest, Negotiating
<1>8. CASE f.state \in {"ackrcvd", "opened"} /\ RConfNakRej(f, o, p) = Again(h, o)
  BY <1>4, <1>8, AgainSteps
<1> QED BY <1>3, <1>5, <1>6, <1>7, <1>8

LEMMA TermReqs ==
  ASSUME NEW f, Ready(f), f.state \in Listening, NEW o \in Options, NEW p \in Packets
  PROVE  Steps(f, RTermReq(f, p), o)
<1> DEFINE v == To(f, "stopping")
           w == [v EXCEPT !.retransmits = 0]
           x == Call(w, "down")
           g == CASE f.state \in {"ackrcvd", "acksent"} -> To(f, "reqsent")
                  [] f.state = "opened" -> Timeout(x)
                  [] OTHER -> f
<1>1. f \in Fsm /\ f.calls = {} /\ Timed(f) /\ p.id \in 0..Wrap - 1
  BY DEF Ready, Packets
<1>2. RTermReq(f, p) = Send(g, "TermAck", p.id, None)
  BY DEF RTermReq
<1>3. g \in Fsm /\ Steps(f, g, o) /\ (g.state = "opened" => FALSE)
  <2>1. CASE f.state \in {"ackrcvd", "acksent"}
    <3>1. g \in Fsm /\ g.calls = {} /\ g.state = "reqsent" /\ g.timers = 1
      BY <1>1, <2>1, Moved DEF States, Timed, Negotiating
    <3> HIDE DEF g
    <3> QED BY <2>1, <3>1 DEF Steps, Kept, Timed, AtRest, Negotiating
  <2>2. CASE f.state = "opened"
    <3>1. g = Timeout(x)
      BY <2>2
    <3> HIDE DEF g
    <3>2. v \in Fsm /\ v.calls = {} /\ v.timers = 0 /\ v.state = "stopping"
      BY <1>1, <2>2, Moved DEF States, Timed, Negotiating, Terminating
    <3> HIDE DEF v
    <3>3. 0 \in 0..MaxConf + MaxTerm
      BY FsmAssumption
    <3>4. w \in Fsm /\ w.calls = {} /\ w.timers = 0 /\ w.state = "stopping"
      BY <3>2, <3>3 DEF Fsm
    <3> HIDE DEF w
    <3>5. x \in Fsm /\ x.calls = {"down"} /\ x.timers = 0 /\ x.state = "stopping"
      BY <3>4, Appended DEF Calls
    <3> HIDE DEF x
    <3>6. g \in Fsm /\ g.calls = {"down"} /\ g.timers = 1 /\ g.state = "stopping"
      BY <3>1, <3>5, Timers
    <3> QED BY <2>2, <3>6 DEF Steps, Downed, Timed, AtRest, Negotiating, Terminating
  <2>3. CASE f.state \notin {"ackrcvd", "acksent", "opened"}
    <3>1. g = f
      BY <2>3
    <3> HIDE DEF g
    <3> QED BY <1>1, <2>3, <3>1 DEF Steps, Kept
  <2> QED BY <2>1, <2>2, <2>3
<1> HIDE DEF g
<1>4. /\ RTermReq(f, p) \in Fsm /\ RTermReq(f, p).calls = g.calls
      /\ RTermReq(f, p).state = g.state /\ RTermReq(f, p).timers = g.timers
  BY <1>1, <1>2, <1>3, Sent DEF Codes
<1> QED BY <1>3, <1>4 DEF Steps, Kept, Opened, Downed, Finished, Timed

LEMMA TermAcks ==
  ASSUME NEW f, Ready(f), f.state \in Listening, NEW o \in Options
  PROVE  Steps(f, RTermAck(f, o), o)
<1>1. f \in Fsm /\ f.calls = {} /\ Timed(f)
  BY DEF Ready
<1>2. CASE f.state \in Terminating
  <2> DEFINE s == IF f.state = "closing" THEN "closed" ELSE "stopped"
             u == Untimeout(f)
             v == To(u, s)
             g == Call(v, "finished")
  <2>1. RTermAck(f, o) = Call(To(Untimeout(f), s), "finished")
    BY <1>2 DEF RTermAck, Terminating
  <2>2. u \in Fsm /\ u.calls = {} /\ u.timers = 0
    BY <1>1, <1>2, Timers DEF Timed, Terminating
  <2>3. RTermAck(f, o) = g
    BY <2>1
  <2> HIDE DEF u
  <2>4. s \in States /\ s \in {"closed", "stopped"}
    BY DEF States
  <2> HIDE DEF s
  <2>5. v \in Fsm /\ v.calls = {} /\ v.timers = 0 /\ v.state = s
    BY <2>2, <2>4, Moved
  <2> HIDE DEF v
  <2>6. g \in Fsm /\ g.calls = {"finished"} /\ g.timers = 0 /\ g.state = s
    BY <2>5, Appended DEF Calls
  <2> HIDE DEF g
  <2> QED BY <1>2, <2>3, <2>4, <2>6 DEF Steps, Finished, Timed, Negotiating, Terminating
<1>3. CASE f.state = "ackrcvd"
  <2>1. RTermAck(f, o) = To(f, "reqsent")
    BY <1>3 DEF RTermAck
  <2>2. /\ RTermAck(f, o) \in Fsm /\ RTermAck(f, o).calls = {}
        /\ RTermAck(f, o).state = "reqsent" /\ RTermAck(f, o).timers = 1
    BY <1>1, <1>3, <2>1, Moved DEF States, Timed, Negotiating
  <2> QED BY <1>3, <2>2 DEF Steps, Kept, Timed, AtRest, Negotiating
<1>4. CASE f.state = "opened"
  <2>1. RTermAck(f, o) = Again(f, o)
    BY <1>4 DEF RTermAck
  <2> QED BY <1>1, <1>4, <2>1, AgainSteps
<1>5. CASE f.state \notin Terminating \cup {"ackrcvd", "opened"}
  <2>1. RTermAck(f, o) = f
    BY <1>5 DEF RTermAck, Terminating
  <2> QED BY <1>1, <2>1 DEF Steps, Kept
<1> QED BY <1>2, <1>3, <1>4, <1>5

(* Whatever packet comes, in whatever state. *)
LEMMA Inputs ==
  ASSUME NEW f, Ready(f), f.state \in Listening, NEW o \in Options, NEW p \in Packets
  PROVE  Steps(f, Input(f, o, p), o)
<1>1. Input(f, o, p) \in {RConfReq(f, o, p), RConfAck(f, o, p), RConfNakRej(f, o, p),
                          RTermReq(f, p), RTermAck(f, o)}
  BY DEF Input, Listening, States, Packets, Codes
<1> QED BY <1>1, ConfReqs, ConfAcks, ConfNakRejs, TermReqs, TermAcks

-----------------------------------------------------------------------------
(* What an automaton has asked, and what it has answered *)

Asking(f)    == f.state \in Negotiating \cup {"opened"}
Confirmed(f) == f.state \in {"ackrcvd", "opened"}

(* The requests of s are request i for protocol a; its Acks answer request i. *)
RequestsAre(s, i, a) == \A k \in DOMAIN s : s[k].code = "ConfReq" => s[k].id = i /\ s[k].auth = a
AcksAre(s, i)        == \A k \in DOMAIN s : s[k].code = "ConfAck" => s[k].id = i
NoAcks(s)            == \A k \in DOMAIN s : s[k].code # "ConfAck"

(* What f becomes on the packets in, none or one.  It goes on asking for the *)
(* same under the same identifier, or takes the next; it is confirmed by the *)
(* Ack of what it asks for; and what it agrees to is what it acknowledges.   *)
GoesOn(f, g, in) ==
  /\ Asking(f) /\ g.reqid = f.reqid /\ AskFor(g.go) = AskFor(f.go)
  /\ Confirmed(g) => Confirmed(f) \/ \E p \in in : p.code = "ConfAck" /\ p.id = f.reqid
AsksAnew(f, g) == g.reqid = Next1(f.reqid) /\ ~Confirmed(g)
Agreeing(f, g, o, in) ==
  \/ g.ho = f.ho /\ NoAcks(g.out)
  \/ \E p \in in :
       /\ p.code = "ConfReq"
       /\ IF p.auth \in o.allows \cup {None}
            THEN g.ho = p.auth /\ AcksAre(g.out, p.id)
            ELSE g.ho = None /\ NoAcks(g.out)

Honest(f, g, o, in) ==
  /\ g.id = g.reqid
  /\ Asking(g) => /\ GoesOn(f, g, in) \/ AsksAnew(f, g)
                  /\ RequestsAre(g.out, g.reqid, AskFor(g.go))
  /\ Agreeing(f, g, o, in)

(* Before an event nothing is left to be sent. *)
Prompt(f) == f \in Fsm /\ f.id = f.reqid /\ f.out = <<>>

(* Two automata that have said the same. *)
Same(f, g) == /\ g.id = f.id /\ g.reqid = f.reqid /\ g.go = f.go
              /\ g.ho = f.ho /\ g.out = f.out

(* What becomes of g when it stops asking and agrees to nothing more. *)
Trails(g, h) ==
  /\ ~Asking(h) /\ h.id = h.reqid /\ h.ho = g.ho
  /\ \A k \in DOMAIN h.out :
       h.out[k].code = "ConfAck" => \E j \in DOMAIN g.out : h.out[k] = g.out[j]

LEMMA Silently ==
  ASSUME NEW f \in Fsm, NEW s \in States, NEW c \in Calls
  PROVE  Same(f, To(f, s)) /\ Same(f, Call(f, c)) /\ Same(f, Timeout(f)) /\ Same(f, Untimeout(f))
BY DEF Same, To, Call, Timeout, Untimeout, Fsm

LEMMA Says ==
  ASSUME NEW f \in Fsm, NEW code \in Codes, NEW i \in 0..Wrap - 1, NEW a \in Auths \cup {None}
  PROVE  LET g == Send(f, code, i, a)
         IN /\ g.id = f.id /\ g.reqid = f.reqid /\ g.go = f.go /\ g.ho = f.ho
            /\ g.out = Append(f.out, [code |-> code, id |-> i, auth |-> a])
BY DEF Send, Fsm

LEMMA OneMore ==
  ASSUME NEW s \in Seq(Packets), NEW p
  PROVE  \A k \in DOMAIN Append(s, p) :
           (k \in DOMAIN s /\ Append(s, p)[k] = s[k]) \/ Append(s, p)[k] = p
<1> SUFFICES ASSUME NEW k \in DOMAIN Append(s, p)
             PROVE  (k \in DOMAIN s /\ Append(s, p)[k] = s[k]) \/ Append(s, p)[k] = p
  OBVIOUS
<1>1. Len(s) \in Nat /\ DOMAIN s = 1..Len(s) /\ k \in 1..Len(s) + 1
  BY AppendProperties
<1> QED BY <1>1

(* fsm_sconfreq: a new request takes the next identifier, and what is asked  *)
(* for starts from the options unless a negotiation is under way.            *)
LEMMA SaysRequest ==
  ASSUME NEW f \in Fsm, f.id = f.reqid, NEW o \in Options, NEW again \in BOOLEAN,
         again => f.retransmits > 0
  PROVE  LET r == SConfReq(f, o, again)
         IN /\ r.id = r.reqid /\ r.reqid = IF again THEN f.reqid ELSE Next1(f.reqid)
            /\ r.ho = f.ho /\ r.go = IF f.state \in Negotiating THEN f.go ELSE o.wants
            /\ r.out = Append(f.out, [code |-> "ConfReq", id |-> r.reqid, auth |-> AskFor(r.go)])
<1> DEFINE g == IF f.state \in Negotiating THEN f
                ELSE [f EXCEPT !.go = o.wants, !.nakloops = 0]
           h == IF again THEN g
                ELSE [g EXCEPT !.retransmits = MaxConf, !.id = Next1(@), !.reqid = Next1(g.id)]
           s == Send(h, "ConfReq", h.reqid, AskFor(h.go))
           k == [s EXCEPT !.seen_ack = FALSE, !.retransmits = @ - 1]
<1>1. /\ g \in Fsm /\ g.id = f.id /\ g.reqid = f.reqid /\ g.ho = f.ho /\ g.out = f.out
      /\ g.go = IF f.state \in Negotiating THEN f.go ELSE o.wants
      /\ g.retransmits = f.retransmits
  BY DEF Fsm, Options
<1>2. /\ h \in Fsm /\ h.id = h.reqid /\ h.ho = f.ho /\ h.out = f.out /\ h.go = g.go
      /\ h.reqid = IF again THEN f.reqid ELSE Next1(f.reqid)
      /\ h.retransmits > 0
  <2> HIDE DEF g
  <2>1. CASE again
    BY <1>1, <2>1
  <2>2. CASE ~again
    <3>1. h = [g EXCEPT !.retransmits = MaxConf, !.id = Next1(g.id), !.reqid = Next1(g.id)]
      BY <2>2
    <3> HIDE DEF h
    <3>2. MaxConf \in 0..MaxConf + MaxTerm /\ MaxConf > 0 /\ Next1(g.id) \in 0..Wrap - 1
      BY <1>1, FsmAssumption, NextId DEF Fsm
    <3>3. h \in Fsm
      BY <1>1, <3>1, <3>2 DEF Fsm
    <3>4. /\ h.id = Next1(g.id) /\ h.reqid = Next1(g.id) /\ h.ho = g.ho /\ h.out = g.out
          /\ h.go = g.go /\ h.retransmits = MaxConf
      BY <1>1, <3>1 DEF Fsm
    <3> QED BY <1>1, <2>2, <3>2, <3>3, <3>4
  <2> QED BY <2>1, <2>2
<1> HIDE DEF h
<1>3. /\ s \in Fsm /\ s.id = h.id /\ s.reqid = h.reqid /\ s.ho = h.ho /\ s.go = h.go
      /\ s.out = Append(h.out, [code |-> "ConfReq", id |-> h.reqid, auth |-> AskFor(h.go)])
  <2>1. h.reqid \in 0..Wrap - 1 /\ AskFor(h.go) \in Auths \cup {None}
    BY <1>2, AskForIn DEF Fsm
  <2>2. "ConfReq" \in Codes /\ h \in Fsm
    BY <1>2 DEF Codes
  <2>3. s \in Fsm
    BY <2>1, <2>2, Sent
  <2>4. /\ s.id = h.id /\ s.reqid = h.reqid /\ s.ho = h.ho /\ s.go = h.go
        /\ s.out = Append(h.out, [code |-> "ConfReq", id |-> h.reqid, auth |-> AskFor(h.go)])
    BY <2>1, <2>2, Says
  <2> QED BY <2>3, <2>4
<1> HIDE DEF s
<1>4. k.id = s.id /\ k.reqid = s.reqid /\ k.ho = s.ho /\ k.go = s.go /\ k.out = s.out
  BY <1>3 DEF Fsm
<1>5. SConfReq(f, o, again) = [k EXCEPT !.timers = @ + 1]
  BY DEF SConfReq, Timeout, s, h
<1>6. LET r == [k EXCEPT !.timers = @ + 1]
      IN r.id = k.id /\ r.reqid = k.reqid /\ r.ho = k.ho /\ r.go = k.go /\ r.out = k.out
  BY <1>3 DEF Fsm
<1> HIDE DEF k, g
<1> QED BY <1>1, <1>2, <1>3, <1>4, <1>5, <1>6

LEMMA SaysAnew ==
  ASSUME NEW f \in Fsm, f.id = f.reqid, NEW o \in Options
  PROVE  LET r == Renegotiate(f, o)
         IN /\ r \in Fsm /\ r.state = "reqsent" /\ r.id = r.reqid /\ r.reqid = Next1(f.reqid)
            /\ r.ho = f.ho
            /\ r.out = Append(f.out, [code |-> "ConfReq", id |-> r.reqid, auth |-> AskFor(r.go)])
<1> DEFINE g == SConfReq(f, o, FALSE)
<1>1. g \in Fsm
  BY Requests
<1>2. /\ g.id = g.reqid /\ g.reqid = Next1(f.reqid) /\ g.ho = f.ho
      /\ g.out = Append(f.out, [code |-> "ConfReq", id |-> g.reqid, auth |-> AskFor(g.go)])
  BY SaysRequest
<1>3. Renegotiate(f, o) = To(g, "reqsent")
  BY DEF Renegotiate
<1> HIDE DEF g
<1>4. Same(g, To(g, "reqsent"))
  BY <1>1, Silently DEF States, Calls
<1> QED BY <1>2, <1>3, <1>4, Renegotiates DEF Same

LEMMA SaysTermReq ==
  ASSUME NEW f \in Fsm
  PROVE  LET g == STermReq(f)
         IN /\ g.id = g.reqid /\ g.ho = f.ho
            /\ g.out = Append(f.out, [code |-> "TermReq", id |-> Next1(f.id), auth |-> None])
<1> DEFINE i == Next1(f.id)
           g == [f EXCEPT !.id = Next1(@), !.reqid = Next1(f.id)]
<1>1. i \in 0..Wrap - 1
  BY NextId DEF Fsm
<1>2. g \in Fsm /\ g.id = i /\ g.reqid = i /\ g.ho = f.ho /\ g.out = f.out
  BY <1>1 DEF Fsm
<1>3. STermReq(f) = Send(g, "TermReq", i, None)
  BY DEF STermReq
<1> HIDE DEF g, i
<1>4. "TermReq" \in Codes /\ None \in Auths \cup {None}
  BY DEF Codes
<1>5. /\ Send(g, "TermReq", i, None).id = g.id /\ Send(g, "TermReq", i, None).reqid = g.reqid
      /\ Send(g, "TermReq", i, None).ho = g.ho
      /\ Send(g, "TermReq", i, None).out = Append(g.out, [code |-> "TermReq", id |-> i, auth |-> None])
  BY <1>1, <1>2, <1>4, Says
<1> QED BY <1>2, <1>3, <1>5 DEF i

(* What only repeats itself, and what no longer asks, agrees to nothing. *)
LEMMA Rests ==
  ASSUME NEW f, NEW g, NEW o, NEW in, ~Asking(g), g.id = g.reqid, g.ho = f.ho, NoAcks(g.out)
  PROVE  Honest(f, g, o, in)
BY DEF Honest, Agreeing

LEMMA Repeats ==
  ASSUME NEW f, NEW g, NEW o, NEW in, Asking(f), g.id = g.reqid, g.reqid = f.reqid,
         g.ho = f.ho, NoAcks(g.out), AskFor(g.go) = AskFor(f.go),
         RequestsAre(g.out, g.reqid, AskFor(g.go)),
         Confirmed(g) => Confirmed(f) \/ \E p \in in : p.code = "ConfAck" /\ p.id = f.reqid
  PROVE  Honest(f, g, o, in)
BY DEF Honest, Agreeing, GoesOn

LEMMA Anew ==
  ASSUME NEW f, Prompt(f), NEW h \in Fsm, h.id = h.reqid, h.reqid = f.reqid, h.ho = f.ho,
         h.out = <<>>, NEW o \in Options, NEW in
  PROVE  Honest(f, Renegotiate(h, o), o, in)
<1> DEFINE r == Renegotiate(h, o)
           p == [code |-> "ConfReq", id |-> r.reqid, auth |-> AskFor(r.go)]
<1>1. /\ r.state = "reqsent" /\ r.id = r.reqid /\ r.reqid = Next1(f.reqid) /\ r.ho = f.ho
      /\ r.out = Append(<<>>, p)
  BY SaysAnew
<1> HIDE DEF r
<1>2. <<>> \in Seq(Packets)
  OBVIOUS
<1>3. \A k \in DOMAIN r.out : r.out[k] = p
  BY <1>1, <1>2, OneMore
<1>4. RequestsAre(r.out, r.reqid, AskFor(r.go)) /\ NoAcks(r.out)
  BY <1>3 DEF RequestsAre, NoAcks
<1>5. ~Confirmed(r)
  BY <1>1 DEF Confirmed
<1> QED BY <1>1, <1>4, <1>5 DEF Honest, AsksAnew, Agreeing, r

(* What trails an honest answer is honest. *)
LEMMA TrailsHonest ==
  ASSUME NEW f, NEW g, NEW h, NEW o, NEW in, Honest(f, g, o, in), Trails(g, h)
  PROVE  Honest(f, h, o, in)
<1>1. NoAcks(g.out) => NoAcks(h.out)
  BY DEF Trails, NoAcks
<1>2. \A i : AcksAre(g.out, i) => AcksAre(h.out, i)
  BY DEF Trails, AcksAre
<1>3. Agreeing(f, h, o, in)
  BY <1>1, <1>2 DEF Honest, Agreeing, Trails
<1> QED BY <1>3 DEF Honest, Trails

LEMMA TrailsOn ==
  ASSUME NEW f, NEW g, NEW h, Trails(f, g), Trails(g, h)
  PROVE  Trails(f, h)
BY DEF Trails

(* terminate_layer and fsm_lowerdown *)
LEMMA LayerTrails ==
  ASSUME NEW f \in Fsm, f.state \in Negotiating \cup {"opened"}, Timed(f), f.id = f.reqid
  PROVE  Trails(f, TerminateLayer(f, "closing"))
<1> DEFINE g == IF f.state = "opened" THEN Call(f, "down") ELSE Untimeout(f)
           a == [g EXCEPT !.retransmits = MaxTerm]
           h == STermReq(a)
           t == TerminateLayer(f, "closing")
           p == [code |-> "TermReq", id |-> Next1(a.id), auth |-> None]
<1>1. g \in Fsm /\ Same(f, g)
  BY Appended, Timers, Silently DEF Calls, States
<1>2. a \in Fsm /\ Same(g, a)
  <2> HIDE DEF g
  <2>1. MaxTerm \in 0..MaxConf + MaxTerm
    BY FsmAssumption
  <2> QED BY <1>1, <2>1 DEF Fsm, Same
<1>3. h \in Fsm /\ h.retransmits = MaxTerm
  <2>1. a.retransmits = MaxTerm
    <3> HIDE DEF g
    <3> QED BY <1>1 DEF Fsm
  <2> HIDE DEF a
  <2> QED BY <1>2, <2>1, Terminates1
<1>4. h.id = h.reqid /\ h.ho = f.ho /\ h.out = Append(f.out, p)
  <2> HIDE DEF a, g
  <2> QED BY <1>1, <1>2, SaysTermReq DEF Same
<1>5. t = IF MaxTerm = 0 THEN Call(To(h, "closed"), "finished")
          ELSE To(Timeout([h EXCEPT !.retransmits = @ - 1]), "closing")
  BY DEF TerminateLayer
<1>6. ~Asking(t)
  BY Layers DEF Terminating, Asking, Negotiating
<1> HIDE DEF h, t, p
<1>7. Same(h, t)
  <2>1. CASE MaxTerm = 0
    <3>1. To(h, "closed") \in Fsm /\ Same(h, To(h, "closed"))
      BY <1>3, Moved, Silently DEF States, Calls
    <3>2. Same(To(h, "closed"), Call(To(h, "closed"), "finished"))
      BY <3>1, Silently DEF States, Calls
    <3> QED BY <1>5, <2>1, <3>1, <3>2 DEF Same
  <2>2. CASE MaxTerm # 0
    <3> DEFINE k == [h EXCEPT !.retransmits = @ - 1]
    <3>1. MaxTerm - 1 \in 0..MaxConf + MaxTerm
      BY <2>2, FsmAssumption
    <3>2. k \in Fsm /\ Same(h, k)
      BY <1>3, <3>1 DEF Fsm, Same
    <3> HIDE DEF k
    <3>3. Timeout(k) \in Fsm /\ Same(k, Timeout(k))
      BY <3>2, Timers, Silently DEF States, Calls
    <3>4. Same(Timeout(k), To(Timeout(k), "closing"))
      BY <3>3, Silently DEF States, Calls
    <3>5. t = To(Timeout(k), "closing")
      BY <1>5, <2>2 DEF k
    <3> QED BY <3>2, <3>3, <3>4, <3>5 DEF Same
  <2> QED BY <2>1, <2>2
<1>8. f.out \in Seq(Packets) /\ p.code # "ConfAck"
  BY DEF Fsm, p
<1>9. \A k \in DOMAIN t.out : t.out[k].code = "ConfAck" => \E j \in DOMAIN f.out : t.out[k] = f.out[j]
  BY <1>4, <1>7, <1>8, OneMore DEF Same
<1> QED BY <1>4, <1>6, <1>7, <1>9 DEF Trails, Same, t

LEMMA CloseTrails ==
  ASSUME NEW f \in Fsm, Timed(f), f.id = f.reqid
  PROVE  Trails(f, Close(f))
<1>1. CASE f.state \in Negotiating \cup {"opened"}
  <2>1. Close(f) = TerminateLayer(f, "closing")
    BY <1>1 DEF Close, Negotiating
  <2> QED BY <1>1, <2>1, LayerTrails
<1>2. CASE f.state \notin Negotiating \cup {"opened"}
  <2>1. Close(f) = f \/ \E s \in {"initial", "closed", "closing"} : Close(f) = To(f, s)
    BY <1>2 DEF Close
  <2>2. Same(f, Close(f))
    BY <2>1, Silently DEF States, Calls, Same
  <2>3. ~Asking(Close(f))
    <3>1. \A s \in {"initial", "closed", "closing"} : To(f, s).state = s
      BY Moved DEF States
    <3> QED BY <1>2, <2>1, <3>1 DEF Asking, Negotiating
  <2> QED BY <2>2, <2>3 DEF Trails, Same
<1> QED BY <1>1, <1>2

LEMMA DownTrails ==
  ASSUME NEW f \in Fsm, Timed(f), f.id = f.reqid
  PROVE  Trails(f, LowerDown(f))
<1>1. \/ LowerDown(f) = f
      \/ LowerDown(f) = To(Call(f, "down"), "starting")
      \/ \E s \in {"initial", "starting"} :
           LowerDown(f) \in {To(f, s), Call(To(f, s), "starting"), Untimeout(To(f, s))}
  BY DEF LowerDown
<1>2. \A s \in {"initial", "starting"} :
        /\ To(f, s) \in Fsm /\ Same(f, To(f, s))
        /\ Same(f, Call(To(f, s), "starting")) /\ Same(f, Untimeout(To(f, s)))
  <2> TAKE s \in {"initial", "starting"}
  <2>1. To(f, s) \in Fsm /\ Same(f, To(f, s))
    BY Moved, Silently DEF States, Calls
  <2>2. Same(To(f, s), Call(To(f, s), "starting")) /\ Same(To(f, s), Untimeout(To(f, s)))
    BY <2>1, Silently DEF States, Calls
  <2> QED BY <2>1, <2>2 DEF Same
<1>3. Same(f, To(Call(f, "down"), "starting"))
  <2>1. Call(f, "down") \in Fsm /\ Same(f, Call(f, "down"))
    BY Appended, Silently DEF States, Calls
  <2>2. Same(Call(f, "down"), To(Call(f, "down"), "starting"))
    BY <2>1, Silently DEF States, Calls
  <2> QED BY <2>1, <2>2 DEF Same
<1>4. Same(f, LowerDown(f))
  BY <1>1, <1>2, <1>3 DEF Same
<1>5. ~Asking(LowerDown(f))
  BY LowerDowns DEF Asking, Negotiating
<1> QED BY <1>4, <1>5 DEF Trails, Same

(* lcp_open and fsm_lowerup at the start of a link. *)
LEMMA StartsHonest ==
  ASSUME NEW f, Prompt(f), Ready(f), f.state = "initial", NEW o \in Options, NEW in
  PROVE  Honest(f, Open(f, o), o, in) /\ Honest(f, LowerUp(Open(f, o), o), o, in)
<1> DEFINE g == Open(f, o)
<1>1. g = Call(To(f, "starting"), "starting")
  BY DEF Open
<1>2. g \in Fsm /\ g.state = "starting" /\ Same(f, g)
  <2>1. To(f, "starting") \in Fsm /\ Same(f, To(f, "starting"))
    BY Moved, Silently DEF Prompt, States, Calls
  <2>2. Same(To(f, "starting"), g)
    BY <1>1, <2>1, Silently DEF States, Calls
  <2> QED BY <2>1, <2>2, Starts DEF Same
<1> HIDE DEF g
<1>3. NoAcks(<<>>)
  BY DEF NoAcks
<1>4. Honest(f, g, o, in)
  BY <1>2, <1>3, Rests DEF Same, Prompt, Asking, Negotiating
<1>5. CASE o.silent
  <2>1. LowerUp(g, o) = To(g, "stopped")
    BY <1>2, <1>5 DEF LowerUp
  <2>2. Same(g, To(g, "stopped")) /\ To(g, "stopped").state = "stopped"
    BY <1>2, Moved, Silently DEF States, Calls
  <2>3. Honest(f, LowerUp(g, o), o, in)
    BY <1>2, <1>3, <2>1, <2>2, Rests DEF Same, Prompt, Asking, Negotiating
  <2> QED BY <1>4, <2>3 DEF g
<1>6. CASE ~o.silent
  <2>1. LowerUp(g, o) = Renegotiate(g, o)
    BY <1>2, <1>6 DEF LowerUp
  <2>2. Honest(f, LowerUp(g, o), o, in)
    BY <1>2, <2>1, Anew DEF Same, Prompt
  <2> QED BY <1>4, <2>2 DEF g
<1> QED BY <1>5, <1>6

(* fsm_timeout repeats the request under its identifier. *)
LEMMA ExpireHonest ==
  ASSUME NEW f, Prompt(f), Ready(f), f.timers > 0, NEW o \in Options, NEW in
  PROVE  Honest(f, Expire(f, o), o, in)
<1> DEFINE g == [f EXCEPT !.timers = @ - 1]
           x == Expire(f, o)
<1>1. /\ f \in Fsm /\ f.timers = 1 /\ f.state \in Negotiating \cup Terminating
      /\ f.out = <<>> /\ f.id = f.reqid
  BY DEF Ready, Timed, Prompt
<1>2. g \in Fsm /\ Same(f, g) /\ g.state = f.state /\ g.retransmits = f.retransmits
  BY <1>1 DEF Fsm, Same
<1>3. NoAcks(<<>>) /\ <<>> \in Seq(Packets)
  BY DEF NoAcks
<1> HIDE DEF g
<1>4. \A s \in {"closed", "stopped"} :
        /\ Same(f, To(g, s)) /\ To(g, s).state = s
        /\ Same(f, Call(To(g, s), "finished")) /\ Call(To(g, s), "finished").state = s
  <2> TAKE s \in {"closed", "stopped"}
  <2>0. s \in States /\ "finished" \in Calls /\ "starting" \in States
    BY DEF States, Calls
  <2>1. To(g, s) \in Fsm /\ Same(g, To(g, s)) /\ To(g, s).state = s
    BY <1>2, <2>0, Moved, Silently
  <2>2. Same(To(g, s), Call(To(g, s), "finished")) /\ Call(To(g, s), "finished").state = s
    BY <2>0, <2>1, Appended, Silently
  <2> QED BY <1>2, <2>1, <2>2 DEF Same
<1>5. CASE \E s \in {"closed", "stopped"} : x \in {To(g, s), Call(To(g, s), "finished")}
  <2>1. Same(f, x) /\ x.state \in {"closed", "stopped"}
    BY <1>4, <1>5
  <2> QED BY <1>1, <1>3, <2>1, Rests DEF Same, Asking, Negotiating
<1>6. CASE f.state \in Terminating /\ f.retransmits # 0
  <2> DEFINE h == STermReq(g)
             k == [h EXCEPT !.retransmits = @ - 1]
  <2>1. h \in Fsm /\ h.state = f.state /\ h.retransmits = f.retransmits
    BY <1>2, Terminates1
  <2>2. h.id = h.reqid /\ h.ho = g.ho
        /\ h.out = Append(<<>>, [code |-> "TermReq", id |-> Next1(g.id), auth |-> None])
    BY <1>1, <1>2, SaysTermReq DEF Same
  <2>3. x = Timeout(k)
    BY <1>6 DEF Expire, Negotiating, Terminating, g
  <2> HIDE DEF h, x
  <2>4. f.retransmits - 1 \in 0..MaxConf + MaxTerm
    BY <1>1, <1>6, FsmAssumption DEF Fsm
  <2>5. k \in Fsm /\ Same(h, k) /\ k.state = h.state
    BY <2>1, <2>4 DEF Fsm, Same
  <2> HIDE DEF k
  <2>6. Same(k, x) /\ x.state = k.state
    BY <2>3, <2>5, Timers, Silently DEF States, Calls
  <2>7. NoAcks(x.out)
    BY <1>3, <2>2, <2>5, <2>6, OneMore DEF NoAcks, Same
  <2>8. ~Asking(x)
    BY <1>6, <2>1, <2>5, <2>6 DEF Asking, Negotiating, Terminating
  <2>9. x.id = x.reqid /\ x.ho = f.ho
    BY <1>2, <2>2, <2>5, <2>6 DEF Same
  <2>10. Honest(f, x, o, in)
    BY <2>7, <2>8, <2>9, Rests
  <2> QED BY <2>10 DEF x
<1>7. CASE f.state \in Negotiating /\ f.retransmits # 0
  <2> DEFINE r == SConfReq(g, o, TRUE)
             s == IF f.state = "ackrcvd" THEN "reqsent" ELSE f.state
             p == [code |-> "ConfReq", id |-> r.reqid, auth |-> AskFor(r.go)]
  <2>1. x = To(r, s)
    BY <1>7 DEF Expire, Negotiating, Terminating, g
  <2>2. g.retransmits > 0
    BY <1>1, <1>2, <1>7, FsmAssumption DEF Fsm
  <2>3. r \in Fsm
    BY <1>2, <2>2, Requests
  <2>4. /\ r.id = r.reqid /\ r.reqid = g.reqid /\ r.ho = g.ho /\ r.go = g.go
        /\ r.out = Append(g.out, p)
    BY <1>1, <1>2, <1>7, <2>2, SaysRequest DEF Same
  <2> HIDE DEF r, x, p
  <2>5. s \in States
    BY <1>7 DEF Negotiating, States
  <2>6. Same(r, x) /\ x.state = s
    BY <2>1, <2>3, <2>5, Moved, Silently DEF Calls
  <2>7. \A k \in DOMAIN x.out : x.out[k] = p
    BY <1>1, <1>2, <1>3, <2>4, <2>6, OneMore DEF Same
  <2>8. p.code = "ConfReq" /\ p.id = r.reqid /\ p.auth = AskFor(r.go)
    BY DEF p
  <2>9. NoAcks(x.out) /\ RequestsAre(x.out, x.reqid, AskFor(x.go))
    BY <2>6, <2>7, <2>8 DEF NoAcks, RequestsAre, Same
  <2>10. /\ x.id = x.reqid /\ x.reqid = f.reqid /\ x.ho = f.ho /\ AskFor(x.go) = AskFor(f.go)
    BY <1>2, <2>4, <2>6 DEF Same
  <2>11. Asking(f) /\ ~Confirmed(x)
    BY <1>7, <2>6 DEF Asking, Confirmed, Negotiating
  <2>12. Honest(f, x, o, in)
    BY <2>9, <2>10, <2>11, Repeats
  <2> QED BY <2>12 DEF x
<1>8. CASE f.retransmits = 0
  <2>1. \E s \in {"closed", "stopped"} : x \in {To(g, s), Call(To(g, s), "finished")}
    BY <1>1, <1>8 DEF Expire, Negotiating, Terminating, g
  <2> QED BY <1>5, <2>1
<1> QED BY <1>1, <1>6, <1>7, <1>8

(* An answer: an Ack for what is allowed, and nothing else is agreed to.     *)
LEMMA AnswerHonest ==
  ASSUME NEW n \in Fsm, n.state \in Negotiating, NEW o \in Options, NEW p \in Packets
  PROVE  LET g == Agree(n, o, p)
         IN /\ g.id = n.id /\ g.reqid = n.reqid /\ g.go = n.go
            /\ Confirmed(g) => n.state = "ackrcvd"
            /\ \E code \in {"ConfAck", "ConfNak", "ConfRej"}, a \in Auths \cup {None} :
                 /\ g.out = Append(n.out, [code |-> code, id |-> p.id, auth |-> a])
                 /\ code = "ConfAck" <=> p.auth \in o.allows \cup {None}
                 /\ g.ho = IF code = "ConfAck" THEN p.auth ELSE None
<1> DEFINE r == ReqCI(o, p.auth, n.nakloops >= MaxNak)
           k == [n EXCEPT !.ho = IF r.code = "ConfAck" THEN p.auth ELSE None]
           h == Answer(n, p, r)
           g == Agree(n, o, p)
<1>1. p.id \in 0..Wrap - 1 /\ p.auth \in Auths \cup {None}
  BY DEF Packets
<1>2. /\ r.code \in {"ConfAck", "ConfNak", "ConfRej"}
      /\ r.code = "ConfAck" <=> p.auth \in o.allows \cup {None}
  BY DEF ReqCI
<1>3. r.auth \in Auths \cup {None} /\ r.code \in Codes
  BY <1>1, Answered
<1>4. g = IF r.code # "ConfAck"
            THEN [To(h, IF n.state = "ackrcvd" THEN "ackrcvd" ELSE "reqsent")
                    EXCEPT !.nakloops = IF r.code = "ConfNak" THEN @ + 1 ELSE @]
          ELSE IF n.state = "ackrcvd"
            THEN [Call(To(Untimeout(h), "opened"), "up") EXCEPT !.nakloops = 0]
          ELSE [To(h, "acksent") EXCEPT !.nakloops = 0]
  BY DEF Agree
<1> HIDE DEF r, g
<1>5. /\ k \in Fsm /\ k.id = n.id /\ k.reqid = n.reqid /\ k.go = n.go /\ k.out = n.out
      /\ k.ho = IF r.code = "ConfAck" THEN p.auth ELSE None
  BY <1>1 DEF Fsm
<1>6. h = Send(k, r.code, p.id, r.auth)
  BY DEF Answer
<1> HIDE DEF h, k
<1>7. h \in Fsm
  BY <1>1, <1>3, <1>5, <1>6, Sent
<1>8. /\ h.id = k.id /\ h.reqid = k.reqid /\ h.go = k.go /\ h.ho = k.ho
      /\ h.out = Append(k.out, [code |-> r.code, id |-> p.id, auth |-> r.auth])
  BY <1>1, <1>3, <1>5, <1>6, Says
<1>9. Same(h, g) /\ (Confirmed(g) => n.state = "ackrcvd")
  <2>1. CASE r.code # "ConfAck"
    <3> DEFINE s == IF n.state = "ackrcvd" THEN "ackrcvd" ELSE "reqsent"
               t == To(h, s)
    <3>1. s \in States
      BY DEF States
    <3>2. g = [t EXCEPT !.nakloops = IF r.code = "ConfNak" THEN @ + 1 ELSE @]
      BY <1>4, <2>1
    <3> HIDE DEF s
    <3>3. t \in Fsm /\ t.state = s /\ Same(h, t)
      BY <1>7, <3>1, Moved, Silently DEF Calls
    <3> HIDE DEF t
    <3>4. Same(t, g) /\ g.state = t.state
      BY <3>2, <3>3 DEF Fsm, Same
    <3> QED BY <3>3, <3>4 DEF Same, Confirmed, s
  <2>2. CASE r.code = "ConfAck" /\ n.state = "ackrcvd"
    <3> DEFINE u == Untimeout(h)
               v == To(u, "opened")
               w == Call(v, "up")
    <3>1. u \in Fsm /\ Same(h, u)
      BY <1>7, Timers, Silently DEF States, Calls
    <3> HIDE DEF u
    <3>2. v \in Fsm /\ Same(u, v)
      BY <3>1, Moved, Silently DEF States, Calls
    <3> HIDE DEF v
    <3>3. w \in Fsm /\ Same(v, w)
      BY <3>2, Appended, Silently DEF States, Calls
    <3>4. g = [w EXCEPT !.nakloops = 0]
      BY <1>4, <2>2 DEF u, v
    <3> HIDE DEF w
    <3>5. Same(w, g)
      BY <3>3, <3>4 DEF Fsm, Same
    <3> QED BY <2>2, <3>1, <3>2, <3>3, <3>5 DEF Same
  <2>3. CASE r.code = "ConfAck" /\ n.state # "ackrcvd"
    <3> DEFINE t == To(h, "acksent")
    <3>1. t \in Fsm /\ t.state = "acksent" /\ Same(h, t)
      BY <1>7, Moved, Silently DEF States, Calls
    <3>2. g = [t EXCEPT !.nakloops = 0]
      BY <1>4, <2>3
    <3> HIDE DEF t
    <3>3. Same(t, g) /\ g.state = t.state
      BY <3>1, <3>2 DEF Fsm, Same
    <3> QED BY <3>1, <3>3 DEF Same, Confirmed
  <2> QED BY <2>1, <2>2, <2>3
<1>10. /\ g.out = Append(n.out, [code |-> r.code, id |-> p.id, auth |-> r.auth])
       /\ g.ho = IF r.code = "ConfAck" THEN p.auth ELSE None
       /\ g.id = n.id /\ g.reqid = n.reqid /\ g.go = n.go
  BY <1>5, <1>8, <1>9 DEF Same
<1>11. \E code \in {"ConfAck", "ConfNak", "ConfRej"}, a \in Auths \cup {None} :
         /\ g.out = Append(n.out, [code |-> code, id |-> p.id, auth |-> a])
         /\ code = "ConfAck" <=> p.auth \in o.allows \cup {None}
         /\ g.ho = IF code = "ConfAck" THEN p.auth ELSE None
  BY <1>2, <1>3, <1>10
<1> QED BY <1>9, <1>10, <1>11 DEF g

(* Nothing said, and nothing come up that was not acknowledged. *)
LEMMA StillHonest ==
  ASSUME NEW f, Prompt(f), NEW g, Same(f, g), Asking(g) => Asking(f), NEW o, NEW in,
         Confirmed(g) => Confirmed(f) \/ \E p \in in : p.code = "ConfAck" /\ p.id = f.reqid
  PROVE  Honest(f, g, o, in)
<1>1. NoAcks(g.out) /\ RequestsAre(g.out, g.reqid, AskFor(g.go))
  BY DEF Same, Prompt, NoAcks, RequestsAre
<1>2. g.id = g.reqid /\ g.reqid = f.reqid /\ g.ho = f.ho /\ AskFor(g.go) = AskFor(f.go)
  BY DEF Same, Prompt
<1>3. CASE Asking(g)
  BY <1>1, <1>2, <1>3, Repeats
<1>4. CASE ~Asking(g)
  BY <1>1, <1>2, <1>4, Rests
<1> QED BY <1>3, <1>4

(* A Terminate-Ack, sent by one that is not confirmed. *)
LEMMA TermAckHonest ==
  ASSUME NEW f, Prompt(f), NEW h \in Fsm, h.id = h.reqid, h.reqid = f.reqid, h.ho = f.ho,
         h.out = <<>>, NEW i \in 0..Wrap - 1, NEW o, NEW in,
         Asking(h) => Asking(f) /\ AskFor(h.go) = AskFor(f.go) /\ ~Confirmed(h)
  PROVE  Honest(f, Send(h, "TermAck", i, None), o, in)
<1> DEFINE g == Send(h, "TermAck", i, None)
           p == [code |-> "TermAck", id |-> i, auth |-> None]
<1>1. "TermAck" \in Codes /\ None \in Auths \cup {None} /\ <<>> \in Seq(Packets)
  BY DEF Codes
<1>2. g.state = h.state
  BY <1>1, Sent
<1>3. /\ g.id = h.id /\ g.reqid = h.reqid /\ g.go = h.go /\ g.ho = h.ho
      /\ g.out = Append(<<>>, p)
  BY <1>1, Says
<1> HIDE DEF g
<1>4. \A k \in DOMAIN g.out : g.out[k] = p
  BY <1>1, <1>3, OneMore
<1>5. NoAcks(g.out) /\ RequestsAre(g.out, g.reqid, AskFor(g.go))
  BY <1>4 DEF NoAcks, RequestsAre
<1>6. CASE Asking(g)
  <2>1. Asking(h) /\ ~Confirmed(g)
    BY <1>2, <1>6 DEF Asking, Confirmed
  <2>2. Honest(f, g, o, in)
    BY <1>3, <1>5, <2>1, Repeats
  <2> QED BY <2>2 DEF g
<1>7. CASE ~Asking(g)
  <2>1. Honest(f, g, o, in)
    BY <1>3, <1>5, <1>7, Rests
  <2> QED BY <2>1 DEF g
<1> QED BY <1>6, <1>7

LEMMA AgainHonest ==
  ASSUME NEW f, Prompt(f), NEW h \in Fsm, h.id = h.reqid, h.reqid = f.reqid, h.ho = f.ho,
         h.out = <<>>, NEW o \in Options, NEW in
  PROVE  Honest(f, Again(h, o), o, in)
<1> DEFINE g == IF h.state = "opened" THEN Call(h, "down") ELSE Untimeout(h)
<1>1. "down" \in Calls /\ "closed" \in States
  BY DEF Calls, States
<1>2. g \in Fsm /\ Same(h, g)
  BY <1>1, Appended, Timers, Silently
<1>3. Again(h, o) = Renegotiate(g, o)
  BY DEF Again
<1> HIDE DEF g
<1> QED BY <1>2, <1>3, Anew DEF Same

LEMMA ConfReqHonest ==
  ASSUME NEW f, Prompt(f), Ready(f), f.state \in Listening, NEW o \in Options,
         NEW p \in Packets, p.code = "ConfReq"
  PROVE  Honest(f, RConfReq(f, o, p), o, {p})
<1>1. f \in Fsm /\ f.id = f.reqid /\ f.out = <<>> /\ p.id \in 0..Wrap - 1 /\ Timed(f)
  BY DEF Prompt, Packets, Ready
<1>2. CASE f.state = "closed"
  <2>1. RConfReq(f, o, p) = Send(f, "TermAck", p.id, None)
    BY <1>2 DEF RConfReq, Terminating
  <2>2. ~Asking(f)
    BY <1>2 DEF Asking, Negotiating
  <2> QED BY <1>1, <2>1, <2>2, TermAckHonest
<1>3. CASE f.state \in Terminating
  <2>1. RConfReq(f, o, p) = f
    BY <1>3 DEF RConfReq, Terminating
  <2> QED BY <2>1, StillHonest DEF Same
<1>4. CASE f.state \in Negotiating \cup {"stopped", "opened"}
  <2> DEFINE n == Negotiated(f, o)
             g == Agree(n, o, p)
             req == [code |-> "ConfReq", id |-> n.reqid, auth |-> AskFor(n.go)]
  <2>1. RConfReq(f, o, p) = g
    BY <1>4 DEF RConfReq, Terminating, Negotiating
  <2>2. n \in Fsm /\ n.state \in Negotiating
    BY <1>1, <1>4, NegotiatedAgain DEF Negotiating
  <2>3. /\ n.id = n.reqid /\ n.ho = f.ho /\ n.out \in Seq(Packets)
        /\ \A k \in DOMAIN n.out : n.out[k] = req
        /\ \/ n = f
           \/ n.reqid = Next1(f.reqid) /\ n.state = "reqsent"
    <3>1. CASE f.state \in Negotiating
      <4>1. n = f
        BY <3>1 DEF Negotiated, Negotiating
      <4>2. DOMAIN f.out = {} /\ f.out \in Seq(Packets)
        BY <1>1 DEF Fsm
      <4> HIDE DEF n, req
      <4> QED BY <1>1, <4>1, <4>2
    <3>2. CASE f.state \notin Negotiating
      <4>1. \E h \in Fsm : /\ h.id = f.id /\ h.reqid = f.reqid /\ h.ho = f.ho /\ h.out = <<>>
                           /\ n = Renegotiate(h, o)
        <5>1. CASE f.state = "opened"
          <6>1. "down" \in Calls /\ "closed" \in States
            BY DEF Calls, States
          <6>2. Call(f, "down") \in Fsm /\ Same(f, Call(f, "down"))
            BY <1>1, <6>1, Appended, Silently
          <6>3. n = Renegotiate(Call(f, "down"), o)
            BY <5>1 DEF Negotiated
          <6> QED BY <1>1, <6>2, <6>3 DEF Same
        <5>2. CASE f.state = "stopped"
          <6>1. n = Renegotiate(f, o)
            BY <5>2 DEF Negotiated
          <6> QED BY <1>1, <6>1
        <5> QED BY <1>4, <3>2, <5>1, <5>2
      <4>2. PICK h \in Fsm : /\ h.id = f.id /\ h.reqid = f.reqid /\ h.ho = f.ho /\ h.out = <<>>
                             /\ n = Renegotiate(h, o)
        BY <4>1
      <4> HIDE DEF n
      <4>3. /\ n.state = "reqsent" /\ n.id = n.reqid /\ n.reqid = Next1(f.reqid) /\ n.ho = f.ho
            /\ n.out = Append(<<>>, req)
        BY <1>1, <4>2, SaysAnew
      <4>4. <<>> \in Seq(Packets) /\ n.out \in Seq(Packets)
        BY <2>2 DEF Fsm
      <4>5. \A k \in DOMAIN n.out : n.out[k] = req
        BY <4>3, <4>4, OneMore
      <4> QED BY <4>3, <4>4, <4>5
    <3> QED BY <3>1, <3>2
  <2>4. req.code = "ConfReq" /\ req.id = n.reqid /\ req.auth = AskFor(n.go)
    OBVIOUS
  <2> HIDE DEF n, g, req
  <2>5. /\ g.id = n.id /\ g.reqid = n.reqid /\ g.go = n.go
        /\ Confirmed(g) => n.state = "ackrcvd"
    BY <2>2, AnswerHonest DEF g
  <2>6. PICK code \in {"ConfAck", "ConfNak", "ConfRej"}, a \in Auths \cup {None} :
          /\ g.out = Append(n.out, [code |-> code, id |-> p.id, auth |-> a])
          /\ code = "ConfAck" <=> p.auth \in o.allows \cup {None}
          /\ g.ho = IF code = "ConfAck" THEN p.auth ELSE None
    BY <2>2, AnswerHonest DEF g
  <2> DEFINE ans == [code |-> code, id |-> p.id, auth |-> a]
  <2>7. ans.code = code /\ ans.id = p.id
    OBVIOUS
  <2>8. g.out = Append(n.out, ans)
    BY <2>6
  <2> HIDE DEF ans
  <2>9. \A k \in DOMAIN g.out : g.out[k] = req \/ g.out[k] = ans
    BY <2>3, <2>8, OneMore
  <2>10. RequestsAre(g.out, g.reqid, AskFor(g.go))
    BY <2>4, <2>5, <2>6, <2>7, <2>9 DEF RequestsAre
  <2>11. Agreeing(f, g, o, {p})
    <3>1. AcksAre(g.out, p.id)
      BY <2>4, <2>7, <2>9 DEF AcksAre
    <3>2. code # "ConfAck" => NoAcks(g.out)
      BY <2>4, <2>7, <2>9 DEF NoAcks
    <3> QED BY <2>6, <3>1, <3>2 DEF Agreeing
  <2>12. Asking(g) => GoesOn(f, g, {p}) \/ AsksAnew(f, g)
    <3>1. CASE n = f
      BY <1>4, <2>2, <2>5, <3>1 DEF GoesOn, Asking, Confirmed
    <3>2. CASE n.reqid = Next1(f.reqid) /\ n.state = "reqsent"
      BY <2>5, <3>2 DEF AsksAnew
    <3> QED BY <2>3, <3>1, <3>2
  <2> QED BY <2>1, <2>3, <2>5, <2>10, <2>11, <2>12 DEF Honest
<1> QED BY <1>2, <1>3, <1>4 DEF Listening, States, Negotiating, Terminating

LEMMA ConfAckHonest ==
  ASSUME NEW f, Prompt(f), Ready(f), f.state \in Listening, NEW o \in Options,
         NEW p \in Packets, p.code = "ConfAck"
  PROVE  Honest(f, RConfAck(f, o, p), o, {p})
<1> DEFINE g == [f EXCEPT !.seen_ack = TRUE]
           x == RConfAck(f, o, p)
<1>1. f \in Fsm /\ f.id = f.reqid /\ f.out = <<>> /\ p.id \in 0..Wrap - 1
  BY DEF Prompt, Packets
<1>2. g \in Fsm /\ g.state = f.state /\ Same(f, g)
  BY <1>1 DEF Fsm, Same
<1>3. \/ x = f
      \/ f.state \in {"closed", "stopped"} /\ x = Send(g, "TermAck", p.id, None)
      \/ /\ f.state = "reqsent" /\ p.id = f.reqid
         /\ x = [To(g, "ackrcvd") EXCEPT !.retransmits = MaxConf]
      \/ /\ f.state = "acksent" /\ p.id = f.reqid
         /\ x = Call([To(Untimeout(g), "opened") EXCEPT !.retransmits = MaxConf], "up")
      \/ f.state \in {"ackrcvd", "opened"} /\ x = Again(g, o)
      \/ f.state \in Terminating /\ x = g
  BY DEF RConfAck, Expected, Listening, States, Terminating
<1> HIDE DEF g, x
<1>4. MaxConf \in 0..MaxConf + MaxTerm /\ {"ackrcvd", "opened", "closed"} \subseteq States /\ "up" \in Calls
  BY FsmAssumption DEF States, Calls
<1>5. CASE x = f \/ (f.state \in Terminating /\ x = g)
  <2>1. Same(f, x) /\ x.state = f.state
    BY <1>2, <1>5 DEF Same
  <2> QED BY <2>1, StillHonest DEF x, Asking, Confirmed
<1>6. CASE f.state \in {"closed", "stopped"} /\ x = Send(g, "TermAck", p.id, None)
  <2>1. ~Asking(g)
    BY <1>2, <1>6 DEF Asking, Negotiating
  <2> QED BY <1>1, <1>2, <1>6, <2>1, TermAckHonest DEF Same, x
<1>7. CASE /\ f.state = "reqsent" /\ p.id = f.reqid
           /\ x = [To(g, "ackrcvd") EXCEPT !.retransmits = MaxConf]
  <2> DEFINE h == To(g, "ackrcvd")
  <2>1. h \in Fsm /\ Same(g, h)
    BY <1>2, <1>4, Moved, Silently
  <2>2. x = [h EXCEPT !.retransmits = MaxConf]
    BY <1>7
  <2> HIDE DEF h
  <2>3. Same(h, x)
    BY <1>4, <2>1, <2>2 DEF Fsm, Same
  <2>4. Same(f, x) /\ Asking(f)
    BY <1>2, <1>7, <2>1, <2>3 DEF Same, Asking, Negotiating
  <2> QED BY <1>7, <2>4, StillHonest DEF x
<1>8. CASE /\ f.state = "acksent" /\ p.id = f.reqid
           /\ x = Call([To(Untimeout(g), "opened") EXCEPT !.retransmits = MaxConf], "up")
  <2> DEFINE u == Untimeout(g)
             v == To(u, "opened")
             w == [v EXCEPT !.retransmits = MaxConf]
  <2>1. u \in Fsm /\ Same(g, u)
    BY <1>2, <1>4, Timers, Silently
  <2> HIDE DEF u
  <2>2. v \in Fsm /\ Same(u, v)
    BY <1>4, <2>1, Moved, Silently
  <2> HIDE DEF v
  <2>3. w \in Fsm /\ Same(v, w)
    BY <1>4, <2>2 DEF Fsm, Same
  <2>4. x = Call(w, "up")
    BY <1>8 DEF u, v
  <2> HIDE DEF w
  <2>5. Same(w, x)
    BY <1>4, <2>3, <2>4, Silently
  <2>6. Same(f, x) /\ Asking(f)
    BY <1>2, <1>8, <2>1, <2>2, <2>3, <2>5 DEF Same, Asking, Negotiating
  <2> QED BY <1>8, <2>6, StillHonest DEF x
<1>9. CASE f.state \in {"ackrcvd", "opened"} /\ x = Again(g, o)
  BY <1>1, <1>2, <1>9, AgainHonest DEF Same, x
<1> QED BY <1>3, <1>5, <1>6, <1>7, <1>8, <1>9

LEMMA ConfNakRejHonest ==
  ASSUME NEW f, Prompt(f), Ready(f), f.state \in Listening, NEW o \in Options,
         NEW p \in Packets
  PROVE  Honest(f, RConfNakRej(f, o, p), o, {p})
<1> DEFINE n == IF f.state = "opened" THEN f.go
                ELSE IF p.code = "ConfNak" THEN NakCI(f) ELSE {}
           h == [f EXCEPT !.seen_ack = TRUE, !.go = n]
           x == RConfNakRej(f, o, p)
<1>1. f \in Fsm /\ f.id = f.reqid /\ f.out = <<>> /\ p.id \in 0..Wrap - 1
  BY DEF Prompt, Packets
<1>2. n \in SUBSET Auths
  <2>1. f.go \in SUBSET Auths /\ NakCI(f) \in SUBSET Auths
    BY <1>1 DEF Fsm, NakCI
  <2> QED BY <2>1
<1>3. \/ x = f
      \/ f.state \in {"closed", "stopped"} /\ x = Send(h, "TermAck", p.id, None)
      \/ f.state \in {"reqsent", "acksent"} /\ x = SConfReq(Untimeout(h), o, FALSE)
      \/ f.state \in {"ackrcvd", "opened"} /\ x = Again(h, o)
      \/ f.state \in Terminating /\ x = h
  BY DEF RConfNakRej, Listening, States, Terminating
<1> HIDE DEF n
<1>4. /\ h \in Fsm /\ h.state = f.state /\ h.id = f.id /\ h.reqid = f.reqid /\ h.ho = f.ho
      /\ h.out = <<>>
  BY <1>1, <1>2 DEF Fsm
<1> HIDE DEF h, x
<1>5. CASE x = f
  BY <1>5, StillHonest DEF x, Same
<1>6. CASE f.state \in {"closed", "stopped"} /\ x = Send(h, "TermAck", p.id, None)
  <2>1. ~Asking(h)
    BY <1>4, <1>6 DEF Asking, Negotiating
  <2> QED BY <1>1, <1>4, <1>6, <2>1, TermAckHonest DEF x
<1>7. CASE f.state \in {"reqsent", "acksent"} /\ x = SConfReq(Untimeout(h), o, FALSE)
  <2> DEFINE u == Untimeout(h)
             req == [code |-> "ConfReq", id |-> x.reqid, auth |-> AskFor(x.go)]
  <2>1. "closed" \in States /\ "up" \in Calls /\ <<>> \in Seq(Packets)
    BY DEF States, Calls
  <2>2. u \in Fsm /\ Same(h, u) /\ u.state = h.state
    BY <1>4, <2>1, Timers, Silently
  <2>3. x = SConfReq(u, o, FALSE)
    BY <1>7
  <2> HIDE DEF u
  <2>4. u.id = u.reqid /\ u.out = <<>> /\ u.ho = f.ho /\ u.reqid = f.reqid
    BY <1>1, <1>4, <2>2 DEF Same
  <2>5. /\ x.id = x.reqid /\ x.reqid = Next1(f.reqid) /\ x.ho = f.ho
        /\ x.out = Append(<<>>, req)
    BY <2>2, <2>3, <2>4, SaysRequest
  <2>6. x.state = f.state
    BY <1>4, <2>2, <2>3, Requests
  <2>7. \A k \in DOMAIN x.out : x.out[k] = req
    BY <2>1, <2>5, OneMore
  <2>8. req.code = "ConfReq" /\ req.id = x.reqid /\ req.auth = AskFor(x.go)
    OBVIOUS
  <2> HIDE DEF req
  <2>9. NoAcks(x.out) /\ RequestsAre(x.out, x.reqid, AskFor(x.go))
    BY <2>7, <2>8 DEF NoAcks, RequestsAre
  <2>10. ~Confirmed(x)
    BY <1>7, <2>6 DEF Confirmed
  <2> QED BY <2>5, <2>9, <2>10 DEF Honest, AsksAnew, Agreeing, x
<1>8. CASE f.state \in {"ackrcvd", "opened"} /\ x = Again(h, o)
  BY <1>1, <1>4, <1>8, AgainHonest DEF x
<1>9. CASE f.state \in Terminating /\ x = h
  <2>1. ~Asking(h) /\ NoAcks(h.out)
    BY <1>4, <1>9 DEF Asking, Negotiating, Terminating, NoAcks
  <2> QED BY <1>1, <1>4, <1>9, <2>1, Rests DEF x
<1> QED BY <1>3, <1>5, <1>6, <1>7, <1>8, <1>9

LEMMA TermReqHonest ==
  ASSUME NEW f, Prompt(f), Ready(f), f.state \in Listening, NEW o \in Options,
         NEW p \in Packets
  PROVE  Honest(f, RTermReq(f, p), o, {p})
<1> DEFINE g == CASE f.state \in {"ackrcvd", "acksent"} -> To(f, "reqsent")
                  [] f.state = "opened" ->
                       Timeout(Call([To(f, "stopping") EXCEPT !.retransmits = 0], "down"))
                  [] OTHER -> f
<1>1. f \in Fsm /\ f.id = f.reqid /\ f.out = <<>> /\ p.id \in 0..Wrap - 1
  BY DEF Prompt, Packets
<1>2. RTermReq(f, p) = Send(g, "TermAck", p.id, None)
  BY DEF RTermReq
<1>3. {"reqsent", "stopping"} \subseteq States /\ "down" \in Calls /\ 0 \in 0..MaxConf + MaxTerm
  BY FsmAssumption DEF States, Calls
<1>4. g \in Fsm /\ Same(f, g) /\ (Asking(g) => Asking(f) /\ ~Confirmed(g))
  <2>1. CASE f.state \in {"ackrcvd", "acksent"}
    <3>1. g = To(f, "reqsent")
      BY <2>1
    <3> HIDE DEF g
    <3>2. g \in Fsm /\ g.state = "reqsent" /\ Same(f, g)
      BY <1>1, <1>3, <3>1, Moved, Silently
    <3> QED BY <2>1, <3>2 DEF Asking, Confirmed, Negotiating
  <2>2. CASE f.state = "opened"
    <3> DEFINE v == To(f, "stopping")
               w == [v EXCEPT !.retransmits = 0]
               y == Call(w, "down")
    <3>1. g = Timeout(y)
      BY <2>2
    <3> HIDE DEF g
    <3>2. v \in Fsm /\ v.state = "stopping" /\ Same(f, v)
      BY <1>1, <1>3, Moved, Silently
    <3> HIDE DEF v
    <3>3. w \in Fsm /\ w.state = "stopping" /\ Same(v, w)
      BY <1>3, <3>2 DEF Fsm, Same
    <3> HIDE DEF w
    <3>4. y \in Fsm /\ y.state = "stopping" /\ Same(w, y)
      BY <1>3, <3>3, Appended, Silently
    <3> HIDE DEF y
    <3>5. g \in Fsm /\ g.state = "stopping" /\ Same(y, g)
      BY <1>3, <3>1, <3>4, Timers, Silently
    <3> QED BY <3>2, <3>3, <3>4, <3>5 DEF Same, Asking, Negotiating
  <2>3. CASE f.state \notin {"ackrcvd", "acksent", "opened"}
    <3>1. g = f
      BY <2>3
    <3> HIDE DEF g
    <3> QED BY <1>1, <2>3, <3>1 DEF Same, Asking, Confirmed
  <2> QED BY <2>1, <2>2, <2>3
<1> HIDE DEF g
<1>5. /\ g.id = g.reqid /\ g.reqid = f.reqid /\ g.ho = f.ho /\ g.out = <<>>
      /\ AskFor(g.go) = AskFor(f.go)
  BY <1>1, <1>4 DEF Same
<1> QED BY <1>1, <1>2, <1>4, <1>5, TermAckHonest

LEMMA TermAckIn ==
  ASSUME NEW f, Prompt(f), Ready(f), f.state \in Listening, NEW o \in Options, NEW in
  PROVE  Honest(f, RTermAck(f, o), o, in)
<1> DEFINE x == RTermAck(f, o)
<1>1. f \in Fsm /\ f.id = f.reqid /\ f.out = <<>>
  BY DEF Prompt
<1>2. {"closed", "stopped", "reqsent"} \subseteq States /\ "finished" \in Calls
  BY DEF States, Calls
<1>3. CASE f.state \in Terminating
  <2> DEFINE u == Untimeout(f)
  <2>1. u \in Fsm /\ Same(f, u)
    BY <1>1, <1>2, Timers, Silently
  <2>2. PICK s \in {"closed", "stopped"} : x = Call(To(u, s), "finished")
    BY <1>3 DEF RTermAck, Terminating
  <2> HIDE DEF u, x
  <2>3. To(u, s) \in Fsm /\ Same(u, To(u, s)) /\ To(u, s).state = s
    BY <1>2, <2>1, Moved, Silently
  <2>4. Same(To(u, s), x) /\ x.state = s
    BY <1>2, <2>2, <2>3, Appended, Silently
  <2>5. Same(f, x) /\ ~Asking(x) /\ ~Confirmed(x)
    BY <2>1, <2>3, <2>4 DEF Same, Asking, Confirmed, Negotiating
  <2> QED BY <2>5, StillHonest DEF x
<1>4. CASE f.state = "ackrcvd"
  <2>1. x = To(f, "reqsent")
    BY <1>4 DEF RTermAck
  <2> HIDE DEF x
  <2>2. Same(f, x) /\ x.state = "reqsent"
    BY <1>1, <1>2, <2>1, Moved, Silently DEF Calls
  <2>3. Asking(f) /\ ~Confirmed(x)
    BY <1>4, <2>2 DEF Asking, Confirmed, Negotiating
  <2> QED BY <2>2, <2>3, StillHonest DEF x
<1>5. CASE f.state = "opened"
  <2>1. x = Again(f, o)
    BY <1>5 DEF RTermAck
  <2> QED BY <1>1, <2>1, AgainHonest
<1>6. CASE f.state \notin Terminating \cup {"ackrcvd", "opened"}
  <2>1. x = f
    BY <1>6 DEF RTermAck, Terminating
  <2> QED BY <2>1, StillHonest DEF Same
<1> QED BY <1>3, <1>4, <1>5, <1>6

(* Whatever packet comes, in whatever state. *)
LEMMA InputHonest ==
  ASSUME NEW f, Prompt(f), Ready(f), NEW o \in Options, NEW p \in Packets
  PROVE  Honest(f, Input(f, o, p), o, {p})
<1>1. CASE f.state \in {"initial", "starting"}
  <2>1. Input(f, o, p) = f
    BY <1>1 DEF Input
  <2> QED BY <2>1, StillHonest DEF Same
<1>2. CASE f.state \in Listening
  <2>1. \/ p.code = "ConfReq" /\ Input(f, o, p) = RConfReq(f, o, p)
        \/ p.code = "ConfAck" /\ Input(f, o, p) = RConfAck(f, o, p)
        \/ Input(f, o, p) \in {RConfNakRej(f, o, p), RTermReq(f, p), RTermAck(f, o)}
    BY <1>2 DEF Input, Listening, States, Packets, Codes
  <2> QED BY <1>2, <2>1, ConfReqHonest, ConfAckHonest, ConfNakRejHonest, TermReqHonest, TermAckIn
<1> QED BY <1>1, <1>2 DEF Prompt, Fsm, Listening
=============================================================================
