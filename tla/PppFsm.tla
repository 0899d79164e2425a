-------------------------------- MODULE PppFsm --------------------------------
(***************************************************************************)
(* The automaton of pppd's control protocols (fsm.c), with the options of  *)
(* LCP (lcp.c) reduced to the one that matters most: the protocol by which *)
(* the peer is to authenticate itself.  An automaton is a record; a        *)
(* function of fsm.c is an operator from record to record, which leaves    *)
(* the packets it sends in out and the callbacks it makes in calls.        *)
(***************************************************************************)
EXTENDS Naturals, Sequences

CONSTANTS
  Auths,    \* the protocols, as a set of preferences: 1 is asked for first
  None,
  MaxConf,  \* maxconfreqtransmits
  MaxTerm,  \* maxtermtransmits
  MaxNak,   \* maxnakloops
  Wrap      \* how many identifiers there are: 256 in a u_char

ASSUME FsmAssumption ==
  /\ Auths \subseteq Nat \ {0} /\ None \notin Auths
  /\ MaxConf \in Nat \ {0} /\ MaxTerm \in Nat /\ MaxNak \in Nat
  /\ Wrap \in Nat \ {0}

States == {"initial", "starting", "closed", "stopped", "closing", "stopping",
           "reqsent", "ackrcvd", "acksent", "opened"}
Negotiating == {"reqsent", "ackrcvd", "acksent"}
Terminating == {"closing", "stopping"}

Codes   == {"ConfReq", "ConfAck", "ConfNak", "ConfRej", "TermReq", "TermAck"}
Packets == [code : Codes, id : 0..Wrap - 1, auth : Auths \cup {None}]
Calls   == {"up", "down", "starting", "finished"}

(* timers counts the pending fsm_timeout calls; go is what it may still ask  *)
(* for, ho what it agreed to.  rnakloops, which only mrru minds, is left out. *)
Fsm == [state : States, id : 0..Wrap - 1, reqid : 0..Wrap - 1,
        retransmits : 0..MaxConf + MaxTerm, nakloops : Nat,
        seen_ack : BOOLEAN, timers : Nat, go : SUBSET Auths,
        ho : Auths \cup {None}, out : Seq(Packets), calls : SUBSET Calls]

(* fsm_init *)
New == [state |-> "initial", id |-> 0, reqid |-> 0, retransmits |-> 0,
        nakloops |-> 0, seen_ack |-> FALSE, timers |-> 0,
        go |-> {}, ho |-> None, out |-> <<>>, calls |-> {}]

(* wants: what it may ask the peer for; allows: what it may be asked for;    *)
(* exempt: a peer that refuses is let in, because of allow-ip, or because    *)
(* PAP would do, without login, and the empty user has an empty secret       *)
(* (null_login);                                                             *)
(* echo: lcp-echo-interval and lcp-echo-failure are set.                     *)
Options == [wants : SUBSET Auths, allows : SUBSET Auths, exempt : BOOLEAN,
            passive : BOOLEAN, silent : BOOLEAN, persist : BOOLEAN,
            echo : BOOLEAN]

To(f, s)    == [f EXCEPT !.state = s]
Timeout(f)  == [f EXCEPT !.timers = @ + 1]
Untimeout(f) == [f EXCEPT !.timers = IF @ = 0 THEN 0 ELSE @ - 1]
Call(f, c)  == [f EXCEPT !.calls = @ \cup {c}]
Send(f, code, id, auth) ==
  [f EXCEPT !.out = Append(@, [code |-> code, id |-> id, auth |-> auth])]

Next1(id)   == (id + 1) % Wrap
First(as)   == CHOOSE a \in as : \A b \in as : a <= b
AskFor(as)  == IF as = {} THEN None ELSE First(as)

-----------------------------------------------------------------------------
(* The option of LCP *)

(* lcp_reqci: what is not allowed is refused with a hint, unless nothing is  *)
(* allowed or the hints did not help.                                        *)
ReqCI(o, auth, tough) ==
  IF auth \in o.allows \cup {None} THEN [code |-> "ConfAck", auth |-> auth]
  ELSE IF o.allows = {} \/ tough THEN [code |-> "ConfRej", auth |-> auth]
  ELSE [code |-> "ConfNak", auth |-> First(o.allows)]

(* lcp_nakci: being hinted at what was asked for is bad; else it stops       *)
(* asking for that.                                                          *)
NakGood(f, auth) == auth # AskFor(f.go)
NakCI(f) == IF f.go = {} THEN {} ELSE f.go \ {First(f.go)}

(* lcp_rejci: a peer that rejects CHAP is not asked for PAP.                 *)
RejGood(f, auth) == auth = AskFor(f.go)

-----------------------------------------------------------------------------
(* fsm_sconfreq *)
SConfReq(f, o, retransmit) ==
  LET g == IF f.state \in Negotiating THEN f
           ELSE [f EXCEPT !.go = o.wants, !.nakloops = 0]
      h == IF retransmit THEN g
           ELSE [g EXCEPT !.retransmits = MaxConf, !.id = Next1(@), !.reqid = Next1(g.id)]
  IN Timeout([Send(h, "ConfReq", h.reqid, AskFor(h.go))
                EXCEPT !.seen_ack = FALSE, !.retransmits = @ - 1])

Renegotiate(f, o) == To(SConfReq(f, o, FALSE), "reqsent")

LowerUp(f, o) ==
  CASE f.state = "initial"  -> To(f, "closed")
    [] f.state = "starting" -> IF o.silent THEN To(f, "stopped") ELSE Renegotiate(f, o)
    [] OTHER -> f

LowerDown(f) ==
  CASE f.state = "closed"  -> To(f, "initial")
    [] f.state = "stopped" -> Call(To(f, "starting"), "starting")
    [] f.state = "closing" -> Untimeout(To(f, "initial"))
    [] f.state \in Negotiating \cup {"stopping"} -> Untimeout(To(f, "starting"))
    [] f.state = "opened"  -> To(Call(f, "down"), "starting")
    [] OTHER -> f

(* fsm_open without OPT_RESTART, which LCP does not set. *)
Open(f, o) ==
  CASE f.state = "initial" -> Call(To(f, "starting"), "starting")
    [] f.state = "closed"  -> IF o.silent THEN To(f, "stopped") ELSE Renegotiate(f, o)
    [] f.state = "closing" -> To(f, "stopping")
    [] OTHER -> f

(* terminate_layer *)
STermReq(f) == Send([f EXCEPT !.id = Next1(@), !.reqid = Next1(f.id)], "TermReq", Next1(f.id), None)

TerminateLayer(f, next) ==
  LET g == IF f.state = "opened" THEN Call(f, "down") ELSE Untimeout(f)
      h == STermReq([g EXCEPT !.retransmits = MaxTerm])
  IN IF MaxTerm = 0
       THEN Call(To(h, IF next = "closing" THEN "closed" ELSE "stopped"), "finished")
       ELSE To(Timeout([h EXCEPT !.retransmits = @ - 1]), next)

Close(f) ==
  CASE f.state = "starting" -> To(f, "initial")
    [] f.state = "stopped"  -> To(f, "closed")
    [] f.state = "stopping" -> To(f, "closing")
    [] f.state \in Negotiating \cup {"opened"} -> TerminateLayer(f, "closing")
    [] OTHER -> f

(* fsm_timeout: calltimeout has taken it off the queue. *)
Expire(f, o) ==
  LET g == [f EXCEPT !.timers = @ - 1]
  IN CASE f.state \in Terminating ->
            IF f.retransmits = 0
              THEN Call(To(g, IF f.state = "closing" THEN "closed" ELSE "stopped"), "finished")
              ELSE Timeout([STermReq(g) EXCEPT !.retransmits = @ - 1])
       [] f.state \in Negotiating ->
            IF f.retransmits = 0
              THEN IF o.passive THEN To(g, "stopped") ELSE Call(To(g, "stopped"), "finished")
              ELSE To(SConfReq(g, o, TRUE),
                      IF f.state = "ackrcvd" THEN "reqsent" ELSE f.state)
       [] OTHER -> g

-----------------------------------------------------------------------------
(* Packets.  fsm_input discards them in INITIAL and STARTING. *)

Negotiated(f, o) ==
  CASE f.state = "opened"  -> Renegotiate(Call(f, "down"), o)
    [] f.state = "stopped" -> Renegotiate(f, o)
    [] OTHER -> f

(* f answers the request by r. *)
Answer(f, p, r) ==
  Send([f EXCEPT !.ho = IF r.code = "ConfAck" THEN p.auth ELSE None], r.code, p.id, r.auth)

Agree(f, o, p) ==
  LET r == ReqCI(o, p.auth, f.nakloops >= MaxNak)
      h == Answer(f, p, r)
  IN IF r.code # "ConfAck"
       THEN [To(h, IF f.state = "ackrcvd" THEN "ackrcvd" ELSE "reqsent")
               EXCEPT !.nakloops = IF r.code = "ConfNak" THEN @ + 1 ELSE @]
     ELSE IF f.state = "ackrcvd"
       THEN [Call(To(Untimeout(h), "opened"), "up") EXCEPT !.nakloops = 0]
     ELSE [To(h, "acksent") EXCEPT !.nakloops = 0]

RConfReq(f, o, p) ==
  CASE f.state = "closed" -> Send(f, "TermAck", p.id, None)
    [] f.state \in Terminating -> f
    [] OTHER -> Agree(Negotiated(f, o), o, p)

Expected(f, p) == p.id = f.reqid /\ ~f.seen_ack

(* Down, if it was up, and negotiation from the start. *)
Again(f, o) ==
  Renegotiate(IF f.state = "opened" THEN Call(f, "down") ELSE Untimeout(f), o)

(* Mutant: an Ack is an Ack, whatever request it answers. *)
RConfAckAny(f, o, p) ==
  LET g == [f EXCEPT !.seen_ack = TRUE]
  IN IF f.seen_ack THEN f
     ELSE CASE f.state \in {"closed", "stopped"} -> Send(g, "TermAck", p.id, None)
            [] f.state = "reqsent" -> [To(g, "ackrcvd") EXCEPT !.retransmits = MaxConf]
            [] f.state = "acksent" ->
                 Call([To(Untimeout(g), "opened") EXCEPT !.retransmits = MaxConf], "up")
            [] f.state \in {"ackrcvd", "opened"} -> Again(g, o)
            [] OTHER -> g

RConfAck(f, o, p) ==
  LET g == [f EXCEPT !.seen_ack = TRUE]
  IN IF ~Expected(f, p) \/ p.auth # AskFor(f.go) THEN f
     ELSE CASE f.state \in {"closed", "stopped"} -> Send(g, "TermAck", p.id, None)
            [] f.state = "reqsent" -> [To(g, "ackrcvd") EXCEPT !.retransmits = MaxConf]
            [] f.state = "acksent" ->
                 Call([To(Untimeout(g), "opened") EXCEPT !.retransmits = MaxConf], "up")
            [] f.state \in {"ackrcvd", "opened"} -> Again(g, o)
            [] OTHER -> g

RConfNakRej(f, o, p) ==
  LET h == [f EXCEPT !.seen_ack = TRUE,
                     !.go = IF f.state = "opened" THEN @
                            ELSE IF p.code = "ConfNak" THEN NakCI(f) ELSE {}]
  IN IF ~Expected(f, p) THEN f
     ELSE IF ~(IF p.code = "ConfNak" THEN NakGood(f, p.auth) ELSE RejGood(f, p.auth)) THEN f
     ELSE CASE f.state \in {"closed", "stopped"} -> Send(h, "TermAck", p.id, None)
            [] f.state \in {"reqsent", "acksent"} -> SConfReq(Untimeout(h), o, FALSE)
            [] f.state \in {"ackrcvd", "opened"} -> Again(h, o)
            [] OTHER -> h

(* Mutant: no timer for the end of the terminated link. *)
RTermReqNoTimer(f, p) ==
  LET g == CASE f.state \in {"ackrcvd", "acksent"} -> To(f, "reqsent")
             [] f.state = "opened" ->
                  Call([To(f, "stopping") EXCEPT !.retransmits = 0], "down")
             [] OTHER -> f
  IN Send(g, "TermAck", p.id, None)

RTermReq(f, p) ==
  LET g == CASE f.state \in {"ackrcvd", "acksent"} -> To(f, "reqsent")
             [] f.state = "opened" ->
                  Timeout(Call([To(f, "stopping") EXCEPT !.retransmits = 0], "down"))
             [] OTHER -> f
  IN Send(g, "TermAck", p.id, None)

RTermAck(f, o) ==
  CASE f.state = "closing"  -> Call(To(Untimeout(f), "closed"), "finished")
    [] f.state = "stopping" -> Call(To(Untimeout(f), "stopped"), "finished")
    [] f.state = "ackrcvd"  -> To(f, "reqsent")
    [] f.state = "opened"   -> Again(f, o)
    [] OTHER -> f

Input(f, o, p) ==
  IF f.state \in {"initial", "starting"} THEN f
  ELSE CASE p.code = "ConfReq" -> RConfReq(f, o, p)
         [] p.code = "ConfAck" -> RConfAck(f, o, p)
         [] p.code \in {"ConfNak", "ConfRej"} -> RConfNakRej(f, o, p)
         [] p.code = "TermReq" -> RTermReq(f, p)
         [] p.code = "TermAck" -> RTermAck(f, o)
=============================================================================
