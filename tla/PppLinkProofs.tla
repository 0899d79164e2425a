---------------------------- MODULE PppLinkProofs ----------------------------
(* Proofs about PppLink, for any configurations of the two ends and any      *)
(* bounds.                                                                   *)
EXTENDS PppLink, PppFsmProofs

(* What State makes a record of. *)
Pppd == [lcp : Fsm, phase : Phases, pending : SUBSET Bits,
         np : {"closed", "open", "up"}, unsuccess : Nat, proven : BOOLEAN]

Idle == {"start", "dead", "exit"}

(* One end between two events: how its phase and its automaton go together,  *)
(* where l is the line, and what it knows of its peer in the phases that     *)
(* need to know.                                                             *)
Sound(x, o, l) ==
  /\ x \in Pppd /\ Timed(x.lcp)
  /\ x.phase \in {"start", "exit"} => x.lcp.state = "initial"
  /\ x.phase = "dead" => x.lcp.state \in {"initial", "starting"}
  /\ x.phase \notin Idle /\ x.lcp.state \in AtRest =>
       \/ x.lcp.state = "stopped" /\ (o.passive \/ o.silent)
       \/ x.lcp.state \in {"initial", "starting"} /\ ~l
  /\ x.phase \in {"authenticate", "network", "running"} => x.lcp.state = "opened"
  /\ x.np # "closed" => x.phase \in {"network", "running"}
  /\ x.phase = "authenticate" /\ x.lcp.go # {} => "peer" \in x.pending \/ x.proven
  /\ x.phase \in {"network", "running"} /\ x.lcp.go # {} => x.proven
  /\ x.phase \in {"authenticate", "network", "running"} /\ x.lcp.go = {} =>
       o.wants = {} \/ o.exempt

(* The two ends and what is on its way to them, and the rest. *)
EndsOK ==
  /\ options \in Configs
  /\ lcp \in [Ends -> Fsm]
  /\ phase \in [Ends -> Phases] /\ pending \in [Ends -> SUBSET Bits]
  /\ np \in [Ends -> {"closed", "open", "up"}] /\ unsuccess \in [Ends -> Nat]
  /\ proven \in [Ends -> BOOLEAN]
  /\ \A e \in Ends : lcp[e].calls = {} /\ Sound(State(e), options[e], line)
ChanOK == chan \in [Ends -> Seq(Packets)]
RestOK ==
  /\ quit \in [Ends -> BOOLEAN] /\ line \in BOOLEAN
  /\ calls \in 0..MaxCalls /\ faults \in 0..MaxFaults

LinkInv == EndsOK /\ ChanOK /\ RestOK

(* The line hung up, or LCP has finished with it. *)
LEMMA Terminated ==
  ASSUME NEW o \in Options, NEW l, NEW x \in Pppd, Timed(x.lcp), x.phase \notin Idle, x.np = "closed"
  PROVE  Sound(LinkTerminated(x), o, l)
<1> DEFINE g == LowerDown(x.lcp)
<1>1. x.lcp \in Fsm
  BY DEF Pppd
<1>2. g \in Fsm /\ Timed(g) /\ g.state \in {"initial", "starting"}
  BY <1>1, LowerDowns
<1>3. LinkTerminated(x) = [x EXCEPT !.lcp = g, !.phase = "dead"]
  BY DEF LinkTerminated, Idle
<1> HIDE DEF g
<1>4. /\ LinkTerminated(x) \in Pppd /\ LinkTerminated(x).lcp = g
      /\ LinkTerminated(x).phase = "dead" /\ LinkTerminated(x).np = "closed"
  BY <1>2, <1>3 DEF Pppd, Phases
<1> QED BY <1>2, <1>4 DEF Sound, Idle

(* lcp_close of an open link: what is left for Settle. *)
LEMMA ClosesOpen ==
  ASSUME NEW o \in Options, NEW x \in Pppd, Timed(x.lcp), x.lcp.state = "opened",
         x.phase \notin Idle
  PROVE  LET y == LcpClose(x, o)
         IN /\ y \in Pppd /\ Timed(y.lcp) /\ y.phase = "terminate" /\ y.proven = x.proven
            /\ \/ y.lcp.state = "closing" /\ y.lcp.calls = x.lcp.calls \cup {"down"}
               \/ y.lcp.state = "closed" /\ y.lcp.calls = x.lcp.calls \cup {"down", "finished"}
<1> DEFINE f == Close(x.lcp)
           y == LcpClose(x, o)
<1>1. x.lcp \in Fsm
  BY DEF Pppd
<1>2. /\ f \in Fsm /\ Timed(f)
      /\ \/ f.state = "closing" /\ f.calls = x.lcp.calls \cup {"down"}
         \/ f.state = "closed" /\ f.calls = x.lcp.calls \cup {"down"} \cup {"finished"}
  BY <1>1, Closes
<1>3. y = [x EXCEPT !.lcp = f, !.phase = "terminate"]
  BY DEF LcpClose, Idle
<1> HIDE DEF f, y
<1>4. y \in Pppd /\ y.lcp = f /\ y.phase = "terminate" /\ y.proven = x.proven
  BY <1>2, <1>3 DEF Pppd, Phases
<1> QED BY <1>2, <1>4 DEF y

(* The end of an open link, with the callbacks made. *)
LEMMA Settles1 ==
  ASSUME NEW o \in Options, NEW l, NEW y \in Pppd, Timed(y.lcp), y.phase \notin Idle,
         y.lcp.state \notin AtRest \cup {"opened"} \/ "finished" \in y.lcp.calls,
         "down" \in y.lcp.calls
  PROVE  LET d == LinkDown(y)
         IN Sound(IF Was(d, "finished") THEN LinkTerminated(d) ELSE d, o, l)
<1> DEFINE d == LinkDown(y)
<1>1. d \in Pppd /\ d.lcp = y.lcp /\ d.phase = "establish" /\ d.np = "closed"
  BY DEF LinkDown, Pppd, Phases
<1> HIDE DEF d
<1>2. CASE Was(d, "finished")
  <2>1. Sound(LinkTerminated(d), o, l)
    BY <1>1, Terminated DEF Idle
  <2> QED BY <1>2, <2>1 DEF d
<1>3. CASE ~Was(d, "finished")
  <2>1. Sound(d, o, l)
    BY <1>1, <1>3 DEF Sound, Was, Idle
  <2> QED BY <1>3, <2>1 DEF d
<1> QED BY <1>2, <1>3

(* LCP has come up: either there is nothing more to settle, or the link is   *)
(* closed at once.                                                           *)
LEMMA Established ==
  ASSUME NEW o \in Options, NEW l, NEW x \in Pppd, Timed(x.lcp), x.lcp.state = "opened",
         x.lcp.calls = {"up"}, x.phase \notin Idle, x.np = "closed"
  PROVE  Sound(Settle(x, o), o, l)
<1> DEFINE u == LinkEstablished(x, o)
           d == IF Was(u, "down") THEN LinkDown(u) ELSE u
           bits == (IF x.lcp.go # {} THEN {"peer"} ELSE {})
                     \cup (IF x.lcp.ho # None THEN {"withpeer"} ELSE {})
           y == [x EXCEPT !.phase = "authenticate", !.pending = bits, !.proven = FALSE]
<1>1. Settle(x, o) = IF Was(d, "finished") THEN LinkTerminated(d) ELSE d
  BY DEF Settle, Was
<1>2. CASE o.wants # {} /\ x.lcp.go = {} /\ ~o.exempt
  <2> DEFINE z == [x EXCEPT !.proven = FALSE]
  <2>1. z \in Pppd /\ z.lcp = x.lcp /\ z.phase = x.phase
    BY DEF Pppd
  <2>2. u = LcpClose(z, o)
    BY <1>2 DEF LinkEstablished
  <2> HIDE DEF z, u
  <2>3. /\ u \in Pppd /\ Timed(u.lcp) /\ u.phase = "terminate"
        /\ \/ u.lcp.state = "closing" /\ u.lcp.calls = {"up", "down"}
           \/ u.lcp.state = "closed" /\ u.lcp.calls = {"up", "down", "finished"}
    BY <2>1, <2>2, ClosesOpen
  <2>4. Was(u, "down")
    BY <2>3 DEF Was
  <2>5. LET k == LinkDown(u)
        IN Sound(IF Was(k, "finished") THEN LinkTerminated(k) ELSE k, o, l)
    BY <2>3, Settles1 DEF AtRest, Idle
  <2> QED BY <1>1, <2>4, <2>5
<1>3. CASE ~(o.wants # {} /\ x.lcp.go = {} /\ ~o.exempt)
  <2>1. /\ y \in Pppd /\ y.lcp = x.lcp /\ y.phase = "authenticate" /\ y.pending = bits
        /\ y.np = "closed"
    BY DEF Pppd, Phases, Bits
  <2>2. u = IF bits = {} THEN NetworkPhase(y) ELSE y
    BY <1>3 DEF LinkEstablished
  <2>3. x.lcp.go # {} => "peer" \in bits
    OBVIOUS
  <2> HIDE DEF y, bits, u
  <2>4. CASE bits = {}
    <3>1. u \in Pppd /\ u.lcp = x.lcp /\ u.phase = "network"
      BY <2>1, <2>2, <2>4 DEF NetworkPhase, Pppd, Phases
    <3>2. x.lcp.go = {} /\ (o.wants = {} \/ o.exempt)
      BY <1>3, <2>3, <2>4
    <3>3. Sound(u, o, l) /\ ~Was(u, "down") /\ ~Was(u, "finished")
      BY <3>1, <3>2 DEF Sound, Was, Idle, AtRest
    <3> QED BY <1>1, <3>3
  <2>5. CASE bits # {}
    <3>1. u = y
      BY <2>2, <2>5
    <3>2. Sound(u, o, l) /\ ~Was(u, "down") /\ ~Was(u, "finished")
      BY <1>3, <2>1, <2>3, <3>1 DEF Sound, Was, Idle, AtRest
    <3> QED BY <1>1, <3>2
  <2> QED BY <2>4, <2>5
<1> QED BY <1>2, <1>3

(* Whatever happens to the automaton of a running end, the end is sound once *)
(* the callbacks are made.                                                   *)
LEMMA Settled ==
  ASSUME NEW o \in Options, NEW l, NEW x, Sound(x, o, l), x.phase \notin Idle,
         NEW g, Steps(x.lcp, g, o)
  PROVE  Sound(Settle([x EXCEPT !.lcp = g], o), o, l)
<1> DEFINE z == [x EXCEPT !.lcp = g]
<1>1. /\ x \in Pppd /\ g \in Fsm /\ Timed(g)
      /\ x.np # "closed" => x.phase \in {"network", "running"}
      /\ x.phase \in {"authenticate", "network", "running"} => x.lcp.state = "opened"
  BY DEF Sound, Steps
<1>2. /\ z \in Pppd /\ z.lcp = g /\ z.phase = x.phase /\ z.np = x.np
      /\ z.proven = x.proven /\ z.pending = x.pending
  BY <1>1 DEF Pppd
<1> HIDE DEF z
<1>3. CASE Kept(x.lcp, g, o)
  <2>1. Settle(z, o) = z
    BY <1>2, <1>3 DEF Settle, Was, Kept
  <2>2. Sound(z, o, l)
    BY <1>1, <1>2, <1>3 DEF Sound, Kept, Idle
  <2> QED BY <2>1, <2>2 DEF z
<1>4. CASE Opened(x.lcp, g)
  BY <1>1, <1>2, <1>4, Established DEF Opened, z
<1>5. CASE Downed(x.lcp, g) \/ (Finished(x.lcp, g) /\ x.lcp.state = "opened")
  <2>1. "down" \in g.calls /\ "up" \notin g.calls
        /\ (g.state \notin AtRest \cup {"opened"} \/ "finished" \in g.calls)
    BY <1>5 DEF Downed, Finished
  <2>2. LET d == LinkDown(z)
        IN Sound(IF Was(d, "finished") THEN LinkTerminated(d) ELSE d, o, l)
    BY <1>1, <1>2, <2>1, Settles1
  <2>3. Settle(z, o) = LET d == LinkDown(z)
                       IN IF Was(d, "finished") THEN LinkTerminated(d) ELSE d
    BY <1>2, <2>1 DEF Settle, Was
  <2> QED BY <2>2, <2>3 DEF z
<1>6. CASE Finished(x.lcp, g) /\ x.lcp.state # "opened"
  <2>1. g.calls = {"finished"} /\ x.np = "closed"
    BY <1>1, <1>6 DEF Finished
  <2>2. Settle(z, o) = LinkTerminated(z)
    BY <1>2, <2>1 DEF Settle, Was
  <2> QED BY <1>1, <1>2, <2>1, <2>2, Terminated DEF z
<1> QED BY <1>3, <1>4, <1>5, <1>6 DEF Steps

(* lcp_close, in any phase in which the end runs. *)
LEMMA Closed ==
  ASSUME NEW o \in Options, NEW l, NEW x, Sound(x, o, l), x.phase \notin Idle, x.lcp.calls = {}
  PROVE  Sound(Settle(LcpClose(x, o), o), o, l)
<1> DEFINE f == Close(x.lcp)
           y == [x EXCEPT !.lcp = f, !.phase = "terminate"]
           z == LcpClose(x, o)
<1>1. /\ x \in Pppd /\ x.lcp \in Fsm /\ Timed(x.lcp)
      /\ x.np # "closed" => x.lcp.state = "opened"
      /\ x.lcp.state \in AtRest =>
           \/ x.lcp.state = "stopped" /\ (o.passive \/ o.silent)
           \/ x.lcp.state \in {"initial", "starting"} /\ ~l
  BY DEF Sound, Pppd
<1>2. z = IF x.lcp.state = "stopped" /\ (o.passive \/ o.silent) THEN LinkTerminated(y) ELSE y
  BY DEF LcpClose, Idle
<1>3. f \in Fsm /\ Timed(f)
  BY <1>1, Closes
<1>4. y \in Pppd /\ y.lcp = f /\ y.phase = "terminate" /\ y.np = x.np
  BY <1>1, <1>3 DEF Pppd, Phases
<1>5. CASE x.lcp.state = "stopped"
  <2>1. f.state = "closed" /\ f.calls = {}
    BY <1>1, <1>5, Closes DEF AtRest
  <2>2. z = LinkTerminated(y)
    BY <1>1, <1>2, <1>5 DEF AtRest
  <2> HIDE DEF f, y, z
  <2>3. y.np = "closed"
    BY <1>1, <1>4, <1>5 DEF Pppd
  <2>4. Sound(z, o, l)
    BY <1>3, <1>4, <2>2, <2>3, Terminated DEF Idle
  <2>5. z.lcp.calls = {}
    <3>1. LinkTerminated(y) = [y EXCEPT !.lcp = LowerDown(@), !.phase = "dead"]
      BY <1>4 DEF LinkTerminated
    <3>2. LowerDown(f) = To(f, "initial")
      BY <2>1 DEF LowerDown, Negotiating
    <3>3. To(f, "initial").calls = {}
      BY <1>3, <2>1, Moved DEF States
    <3>4. z.lcp = To(f, "initial")
      BY <1>4, <2>2, <3>1, <3>2 DEF Pppd
    <3> QED BY <3>3, <3>4
  <2>6. Settle(z, o) = z
    BY <2>5 DEF Settle, Was
  <2> QED BY <2>4, <2>6 DEF z
<1>6. CASE x.lcp.state = "opened"
  <2>1. /\ z \in Pppd /\ Timed(z.lcp) /\ z.phase = "terminate"
        /\ \/ z.lcp.state = "closing" /\ z.lcp.calls = {"down"}
           \/ z.lcp.state = "closed" /\ z.lcp.calls = {"down", "finished"}
    BY <1>1, <1>6, ClosesOpen
  <2> HIDE DEF z
  <2>2. LET d == LinkDown(z)
        IN Sound(IF Was(d, "finished") THEN LinkTerminated(d) ELSE d, o, l)
    BY <2>1, Settles1 DEF AtRest, Idle
  <2>3. Settle(z, o) = LET d == LinkDown(z)
                       IN IF Was(d, "finished") THEN LinkTerminated(d) ELSE d
    BY <2>1 DEF Settle, Was
  <2> QED BY <2>2, <2>3 DEF z
<1>7. CASE x.lcp.state \in Negotiating \cup Terminating
  <2>1. /\ f.state \notin {"starting", "stopped", "opened"} \cup Negotiating
        /\ \/ f.calls = {} /\ f.state = "closing"
           \/ f.calls = {"finished"}
    <3>1. CASE x.lcp.state \in Terminating
      <4>1. f.calls = {} /\ f.state = "closing"
        BY <3>1, <1>1 DEF Close, To, Fsm, Terminating, Negotiating
      <4> QED BY <4>1 DEF Negotiating
    <3>2. CASE x.lcp.state \in Negotiating
      BY <3>2, <1>1, Closes DEF Negotiating
    <3> QED BY <1>7, <3>1, <3>2
  <2>2. z = y
    BY <1>2, <1>7 DEF Negotiating, Terminating
  <2> HIDE DEF f, y, z
  <2>3. y.np = "closed"
    BY <1>1, <1>4, <1>7 DEF Pppd, Negotiating, Terminating
  <2>4. CASE f.calls = {} /\ f.state = "closing"
    <3>1. Settle(z, o) = y
      BY <1>4, <2>2, <2>4 DEF Settle, Was
    <3>2. Sound(y, o, l)
      BY <1>3, <1>4, <2>3, <2>4 DEF Sound, AtRest, Idle
    <3> QED BY <3>1, <3>2 DEF z
  <2>5. CASE f.calls = {"finished"}
    <3>1. Settle(z, o) = LinkTerminated(y)
      BY <1>4, <2>2, <2>5 DEF Settle, Was
    <3> QED BY <1>3, <1>4, <2>3, <3>1, Terminated DEF z, Idle
  <2> QED BY <2>1, <2>4, <2>5
<1>8. CASE x.lcp.state \in {"initial", "starting"}
  <2>1. f.state = "initial" /\ f.calls = {} /\ ~l
    BY <1>1, <1>8, Closes DEF AtRest
  <2>2. z = y
    BY <1>2, <1>8
  <2> HIDE DEF f, y, z
  <2>3. y.np = "closed"
    BY <1>1, <1>4, <1>8 DEF Pppd
  <2>4. Settle(z, o) = y
    BY <1>4, <2>1, <2>2 DEF Settle, Was
  <2>5. Sound(y, o, l)
    BY <1>3, <1>4, <2>1, <2>3 DEF Sound, AtRest, Idle
  <2> QED BY <2>4, <2>5 DEF z
<1> QED BY <1>1, <1>5, <1>6, <1>7, <1>8 DEF Fsm, States, AtRest, Negotiating, Terminating

(* get_input reads an end of file. *)
LEMMA HungUp ==
  ASSUME NEW o \in Options, NEW l, NEW x, Sound(x, o, l), x.phase \notin Idle, x.lcp.calls = {}
  PROVE  Sound([Settle([x EXCEPT !.lcp = LowerDown(@)], o) EXCEPT !.phase = "dead"], o, l)
<1> DEFINE f == LowerDown(x.lcp)
           z == [x EXCEPT !.lcp = f]
<1>1. /\ x \in Pppd /\ x.lcp \in Fsm /\ Timed(x.lcp)
      /\ x.np # "closed" => x.lcp.state = "opened"
  BY DEF Sound, Pppd
<1>2. /\ f \in Fsm /\ Timed(f) /\ f.state \in {"initial", "starting"}
      /\ f.calls \subseteq {"starting", "down"}
      /\ x.lcp.state = "opened" => "down" \in f.calls
  BY <1>1, LowerDowns
<1> HIDE DEF f
<1>3. z \in Pppd /\ z.lcp = f /\ z.np = x.np
  BY <1>1, <1>2 DEF Pppd
<1> HIDE DEF z
<1>4. Settle(z, o) = IF "down" \in f.calls THEN LinkDown(z) ELSE z
  <2>1. ~Was(z, "up") /\ ~Was(z, "finished") /\ ~Was(LinkDown(z), "finished")
    BY <1>2, <1>3 DEF Was, LinkDown, Pppd
  <2> QED BY <1>3, <2>1 DEF Settle, Was
<1> DEFINE s == Settle(z, o)
<1>5. s \in Pppd /\ s.lcp = f /\ s.np = "closed"
  <2>1. LinkDown(z) \in Pppd /\ LinkDown(z).lcp = f /\ LinkDown(z).np = "closed"
    BY <1>3 DEF LinkDown, Pppd, Phases
  <2> QED BY <1>1, <1>2, <1>3, <1>4, <2>1 DEF Pppd
<1> HIDE DEF s
<1>6. [s EXCEPT !.phase = "dead"] \in Pppd /\ [s EXCEPT !.phase = "dead"].lcp = f
      /\ [s EXCEPT !.phase = "dead"].np = "closed" /\ [s EXCEPT !.phase = "dead"].phase = "dead"
  BY <1>5 DEF Pppd, Phases
<1>7. Sound([s EXCEPT !.phase = "dead"], o, l)
  BY <1>2, <1>6 DEF Sound, Idle
<1> QED BY <1>7 DEF s, z, f

(* lcp_open and start_link. *)
LEMMA Started ==
  ASSUME NEW o \in Options, NEW l, NEW x, Sound(x, o, l), x.phase = "start", x.lcp.calls = {},
         NEW y, NEW n \in Nat,
         LET f == Open(x.lcp, o)
         IN y \in {[[x EXCEPT !.unsuccess = n] EXCEPT !.lcp = LowerUp(f, o), !.phase = "establish"],
                   [[x EXCEPT !.unsuccess = n] EXCEPT !.lcp = f, !.phase = "dead"]}
  PROVE  Sound(Settle(y, o), o, l)
<1>1. x \in Pppd /\ Ready(x.lcp) /\ x.lcp.state = "initial" /\ x.np = "closed"
  BY DEF Sound, Ready, Pppd, Idle
<1> DEFINE f == Open(x.lcp, o)
           g == LowerUp(f, o)
<1>2. /\ f \in Fsm /\ Timed(f) /\ f.state = "starting" /\ f.calls = {"starting"}
      /\ g \in Fsm /\ Timed(g) /\ g.calls = {"starting"}
      /\ g.state = IF o.silent THEN "stopped" ELSE "reqsent"
  BY <1>1, Starts
<1>3. y \in {[[x EXCEPT !.unsuccess = n] EXCEPT !.lcp = g, !.phase = "establish"],
             [[x EXCEPT !.unsuccess = n] EXCEPT !.lcp = f, !.phase = "dead"]}
  OBVIOUS
<1> HIDE DEF f, g
<1>4. /\ y \in Pppd /\ y.np = "closed"
      /\ \/ y.lcp = g /\ y.phase = "establish"
         \/ y.lcp = f /\ y.phase = "dead"
  BY <1>1, <1>2, <1>3 DEF Pppd, Phases
<1>5. Settle(y, o) = y
  BY <1>2, <1>4 DEF Settle, Was
<1>6. Sound(y, o, l)
  BY <1>2, <1>4 DEF Sound, Idle, AtRest
<1> QED BY <1>5, <1>6

-----------------------------------------------------------------------------
(* Steps of the two ends *)

LEMMA EndFacts ==
  ASSUME EndsOK, NEW e \in Ends
  PROVE  /\ options[e] \in Options /\ State(e) \in Pppd /\ Sound(State(e), options[e], line)
         /\ lcp[e] \in Fsm /\ Ready(lcp[e]) /\ State(e).lcp = lcp[e] /\ State(e).phase = phase[e]
         /\ State(e).lcp.calls = {} /\ State(e).np = np[e] /\ State(e).pending = pending[e]
         /\ State(e).proven = proven[e] /\ State(e).unsuccess = unsuccess[e]
BY LinkAssumption DEF EndsOK, Sound, State, Ready

(* An end that is sound is so when the line has hung up. *)
LEMMA HangsUp ==
  ASSUME NEW o, NEW l, NEW k, NEW x, Sound(x, o, l), k = l \/ ~k
  PROVE  Sound(x, o, k)
BY DEF Sound

LEMMA Becomes ==
  ASSUME EndsOK, ChanOK, NEW e \in Ends, NEW y, Sound(y, options[e], line),
         NEW inbox \in Seq(Packets), Become(e, {y}, inbox), line' = line
  PROVE  EndsOK' /\ ChanOK'
<1> DEFINE f == [y.lcp EXCEPT !.out = <<>>, !.calls = {}]
<1>1. y \in Pppd /\ y.lcp \in Fsm /\ y.lcp.out \in Seq(Packets)
  BY DEF Sound, Pppd, Fsm
<1>2. /\ lcp' = [lcp EXCEPT ![e] = f]
      /\ phase' = [phase EXCEPT ![e] = y.phase]
      /\ pending' = [pending EXCEPT ![e] = y.pending]
      /\ np' = [np EXCEPT ![e] = y.np]
      /\ unsuccess' = [unsuccess EXCEPT ![e] = y.unsuccess]
      /\ proven' = [proven EXCEPT ![e] = y.proven]
      /\ options' = options
  BY DEF Become
<1>3. /\ f \in Fsm /\ f.calls = {} /\ f.state = y.lcp.state /\ f.timers = y.lcp.timers
      /\ f.go = y.lcp.go
  <2>1. <<>> \in Seq(Packets)
    OBVIOUS
  <2> QED BY <1>1, <2>1 DEF Fsm
<1> HIDE DEF f
<1>4. ChanOK'
  <2> DEFINE c == [chan EXCEPT ![e] = inbox]
             d == Peer(e)
  <2>1. c \in [Ends -> Seq(Packets)]
    BY DEF ChanOK
  <2>2. chan' = IF line THEN [c EXCEPT ![d] = c[d] \o y.lcp.out] ELSE c
    BY DEF Become
  <2> HIDE DEF c, d
  <2>3. CASE d \in Ends
    <3>1. c[d] \in Seq(Packets)
      BY <2>1, <2>3
    <3>2. c[d] \o y.lcp.out \in Seq(Packets)
      BY <1>1, <3>1, ConcatProperties
    <3> QED BY <2>1, <2>2, <3>1, <3>2 DEF ChanOK
  <2>4. CASE d \notin Ends
    BY <2>1, <2>2, <2>4 DEF ChanOK
  <2> QED BY <2>3, <2>4
<1>5. /\ lcp' \in [Ends -> Fsm] /\ phase' \in [Ends -> Phases]
      /\ pending' \in [Ends -> SUBSET Bits] /\ np' \in [Ends -> {"closed", "open", "up"}]
      /\ unsuccess' \in [Ends -> Nat] /\ proven' \in [Ends -> BOOLEAN]
      /\ options' \in Configs
  BY <1>1, <1>2, <1>3 DEF EndsOK, Pppd
<1>6. ASSUME NEW d \in Ends
      PROVE  lcp'[d].calls = {} /\ Sound(State(d)', options'[d], line')
  <2>1. CASE d = e
    <3>1. State(d)' = [lcp |-> f, phase |-> y.phase, pending |-> y.pending, np |-> y.np,
                       unsuccess |-> y.unsuccess, proven |-> y.proven]
      BY <1>2, <2>1 DEF State, EndsOK
    <3>2. State(d)' \in Pppd
      BY <1>1, <1>3, <3>1 DEF Pppd
    <3>3. Sound(State(d)', options[e], line)
      BY <1>1, <1>3, <3>1, <3>2 DEF Sound, Timed
    <3> QED BY <1>2, <1>3, <2>1, <3>3 DEF EndsOK
  <2>2. CASE d # e
    BY <1>2, <2>2 DEF State, EndsOK
  <2> QED BY <2>1, <2>2
<1> QED BY <1>4, <1>5, <1>6 DEF EndsOK

LEMMA Change ==
  ASSUME EndsOK, ChanOK, NEW e \in Ends, NEW x,
         Sound(Settle(x, options[e]), options[e], line), Changes(e, x), line' = line
  PROVE  EndsOK' /\ ChanOK'
<1>1. chan[e] \in Seq(Packets)
  BY DEF ChanOK
<1>2. Become(e, {Settle(x, options[e])}, chan[e])
  BY DEF Changes
<1> QED BY <1>1, <1>2, Becomes

(* lcp_close of a running end, from whatever calls it. *)
LEMMA CloseChange ==
  ASSUME EndsOK, ChanOK, NEW e \in Ends, NEW x, Sound(x, options[e], line), x.phase \notin Idle,
         x.lcp.calls = {}, Changes(e, LcpClose(x, options[e])), line' = line
  PROVE  EndsOK' /\ ChanOK'
BY EndFacts, Closed, Change

LEMMA StartOK ==
  ASSUME EndsOK, ChanOK, NEW e \in Ends, Start(e)
  PROVE  EndsOK' /\ ChanOK'
<1> DEFINE f == Open(lcp[e], options[e])
           x == [State(e) EXCEPT !.unsuccess = @ + 1]
           n == unsuccess[e] + 1
           y == IF line THEN [x EXCEPT !.lcp = LowerUp(f, options[e]), !.phase = "establish"]
                ELSE [x EXCEPT !.lcp = f, !.phase = "dead"]
<1>1. phase[e] = "start" /\ Changes(e, y) /\ line' = line
  BY DEF Start
<1>2. n \in Nat /\ State(e).unsuccess + 1 = n
  BY EndFacts DEF EndsOK
<1>3. y \in {[[State(e) EXCEPT !.unsuccess = n] EXCEPT !.lcp = LowerUp(f, options[e]),
                                                      !.phase = "establish"],
             [[State(e) EXCEPT !.unsuccess = n] EXCEPT !.lcp = f, !.phase = "dead"]}
  BY <1>2
<1>4. Sound(Settle(y, options[e]), options[e], line)
  <2> HIDE DEF y, n
  <2>1. /\ options[e] \in Options /\ Sound(State(e), options[e], line) /\ State(e).lcp = lcp[e]
        /\ State(e).phase = "start" /\ State(e).lcp.calls = {}
    BY <1>1, EndFacts
  <2> QED BY <1>2, <1>3, <2>1, Started
<1> HIDE DEF y
<1> QED BY <1>1, <1>4, Change

LEMMA LeaveOK ==
  ASSUME EndsOK, ChanOK, NEW e \in Ends, Loop(e)
  PROVE  EndsOK' /\ ChanOK'
<1> DEFINE f == Close(lcp[e])
<1>1. /\ phase[e] = "dead" /\ lcp' = [lcp EXCEPT ![e] = f]
      /\ \E p \in {"start", "exit"} : phase' = [phase EXCEPT ![e] = p]
      /\ chan' \in {chan, [d \in Ends |-> <<>>]}
      /\ UNCHANGED <<options, pending, np, unsuccess, proven>>
      /\ line' = line \/ ~line'
  BY DEF Loop, Leave
<1>2. lcp[e].state \in {"initial", "starting"} /\ np[e] = "closed"
  BY <1>1, EndFacts DEF Sound, Pppd
<1>3. f \in Fsm /\ Timed(f) /\ f.state = "initial" /\ f.calls = {}
  BY <1>2, EndFacts, Closes DEF Ready, AtRest
<1> HIDE DEF f
<1>4. ChanOK'
  <2>1. <<>> \in Seq(Packets)
    OBVIOUS
  <2> QED BY <1>1, <2>1 DEF ChanOK
<1>5. EndsOK'
  <2>1. /\ lcp' \in [Ends -> Fsm] /\ phase' \in [Ends -> Phases]
        /\ phase'[e] \in {"start", "exit"}
    BY <1>1, <1>3 DEF EndsOK, Phases
  <2>2. ASSUME NEW d \in Ends
        PROVE  lcp'[d].calls = {} /\ Sound(State(d)', options[d], line')
    <3>1. CASE d = e
      <4>1. /\ State(d)' \in Pppd /\ State(d)'.lcp = f /\ State(d)'.phase \in {"start", "exit"}
            /\ State(d)'.np = "closed"
        BY <1>1, <1>2, <1>3, <2>1, <3>1 DEF State, EndsOK, Pppd
      <4> QED BY <1>1, <1>3, <3>1, <4>1 DEF Sound, Idle, EndsOK
    <3>2. CASE d # e
      <4>1. State(d)' = State(d) /\ lcp'[d] = lcp[d]
        BY <1>1, <3>2 DEF State, EndsOK
      <4> QED BY <1>1, <4>1, HangsUp DEF EndsOK
    <3> QED BY <3>1, <3>2
  <2> QED BY <1>1, <2>1, <2>2 DEF EndsOK
<1> QED BY <1>4, <1>5

(* The line hangs up while it comes up: the other end may have run.          *)
LEMMA StartCutOffOK ==
  ASSUME EndsOK, ChanOK, NEW e \in Ends, StartCutOff(e)
  PROVE  EndsOK' /\ ChanOK'
<1> DEFINE f == Open(lcp[e], options[e])
           g == [f EXCEPT !.calls = {}]
<1>1. /\ phase[e] = "start" /\ ~line' /\ chan' = [d \in Ends |-> <<>>]
      /\ lcp' = [lcp EXCEPT ![e] = g] /\ phase' = [phase EXCEPT ![e] = "establish"]
      /\ unsuccess' = [unsuccess EXCEPT ![e] = unsuccess[e] + 1]
      /\ UNCHANGED <<options, pending, np, proven>>
  BY DEF StartCutOff, EndsOK
<1>2. lcp[e].state = "initial" /\ np[e] = "closed"
  BY <1>1, EndFacts DEF Sound, Pppd
<1>3. f \in Fsm /\ Timed(f) /\ f.state = "starting"
  BY <1>2, EndFacts, Starts
<1> HIDE DEF f
<1>4. g \in Fsm /\ Timed(g) /\ g.state = "starting" /\ g.calls = {}
  BY <1>3 DEF Fsm, Timed
<1> HIDE DEF g
<1>5. ChanOK'
  <2>1. <<>> \in Seq(Packets)
    OBVIOUS
  <2> QED BY <1>1, <2>1 DEF ChanOK
<1>6. EndsOK'
  <2>1. /\ lcp' \in [Ends -> Fsm] /\ phase' \in [Ends -> Phases]
        /\ unsuccess' \in [Ends -> Nat]
    BY <1>1, <1>4 DEF EndsOK, Phases
  <2>2. ASSUME NEW d \in Ends
        PROVE  lcp'[d].calls = {} /\ Sound(State(d)', options[d], line')
    <3>1. CASE d = e
      <4>1. /\ State(d)' \in Pppd /\ State(d)'.lcp = g /\ State(d)'.phase = "establish"
            /\ State(d)'.np = "closed"
        BY <1>1, <1>2, <1>4, <2>1, <3>1 DEF State, EndsOK, Pppd
      <4> QED BY <1>1, <1>4, <3>1, <4>1 DEF Sound, Idle, EndsOK
    <3>2. CASE d # e
      <4>1. State(d)' = State(d) /\ lcp'[d] = lcp[d]
        BY <1>1, <3>2 DEF State, EndsOK
      <4> QED BY <1>1, <4>1, HangsUp DEF EndsOK
    <3> QED BY <3>1, <3>2
  <2> QED BY <1>1, <2>1, <2>2 DEF EndsOK
<1> QED BY <1>5, <1>6

LEMMA EofOK ==
  ASSUME EndsOK, ChanOK, NEW e \in Ends, Eof(e)
  PROVE  EndsOK' /\ ChanOK'
<1> DEFINE x == Settle([State(e) EXCEPT !.lcp = LowerDown(@)], options[e])
           y == [x EXCEPT !.phase = "dead"]
<1>1. Become(e, {y}, chan[e]) /\ phase[e] \notin Idle /\ line' = line
  BY DEF Eof, Running, Idle
<1>2. Sound(y, options[e], line)
  BY <1>1, EndFacts, HungUp
<1>3. chan[e] \in Seq(Packets)
  BY DEF ChanOK
<1> HIDE DEF y
<1> QED BY <1>1, <1>2, <1>3, Becomes

LEMMA DeliverOK ==
  ASSUME EndsOK, ChanOK, NEW e \in Ends, Deliver(e)
  PROVE  EndsOK' /\ ChanOK'
<1> DEFINE p == Head(chan[e])
           g == Input(lcp[e], options[e], p)
           x == IF Running(e) THEN [State(e) EXCEPT !.lcp = g] ELSE State(e)
           y == Settle(x, options[e])
<1>1. chan[e] \in Seq(Packets) /\ chan[e] # <<>>
  BY DEF Deliver, ChanOK
<1>2. p \in Packets /\ Tail(chan[e]) \in Seq(Packets)
  BY <1>1
<1>3. Become(e, {y}, Tail(chan[e])) /\ line' = line
  BY EndFacts DEF Deliver
<1>4. Sound(y, options[e], line)
  <2>1. CASE Running(e) /\ lcp[e].state \in Listening
    <3>1. Steps(State(e).lcp, g, options[e])
      BY <1>2, <2>1, EndFacts, Inputs
    <3>2. State(e).phase \notin Idle
      BY <2>1, EndFacts DEF Running, Idle
    <3> HIDE DEF g
    <3>3. Sound(Settle([State(e) EXCEPT !.lcp = g], options[e]), options[e], line)
      BY <3>1, <3>2, EndFacts, Settled
    <3> QED BY <2>1, <3>3
  <2>2. CASE Running(e) /\ lcp[e].state \notin Listening
    <3>1. lcp[e].state \in {"initial", "starting"}
      BY <2>2, EndFacts DEF Fsm, Listening
    <3>2. g = lcp[e]
      BY <3>1 DEF Input
    <3>3. x = State(e)
      BY <2>2, <3>2, EndFacts DEF Pppd
    <3>4. y = State(e)
      BY <3>3, EndFacts DEF Settle, Was
    <3> QED BY <3>4, EndFacts
  <2>3. CASE ~Running(e)
    <3>1. y = State(e)
      BY <2>3, EndFacts DEF Settle, Was
    <3> QED BY <3>1, EndFacts
  <2> QED BY <2>1, <2>2, <2>3
<1> HIDE DEF y
<1> QED BY <1>2, <1>3, <1>4, Becomes

LEMMA TimedOutOK ==
  ASSUME EndsOK, ChanOK, NEW e \in Ends, TimedOut(e)
  PROVE  EndsOK' /\ ChanOK'
<1> DEFINE g == Expire(lcp[e], options[e])
           x == [State(e) EXCEPT !.lcp = g]
<1>1. lcp[e].timers > 0 /\ Changes(e, x) /\ line' = line
  BY EndFacts DEF TimedOut
<1>2. Steps(State(e).lcp, g, options[e])
  BY <1>1, EndFacts, Expires
<1>3. State(e).phase \notin Idle
  BY <1>1, EndFacts DEF Sound, Idle, Ready, Timed, Negotiating, Terminating
<1>4. Sound(Settle(x, options[e]), options[e], line)
  <2> HIDE DEF g
  <2> QED BY <1>2, <1>3, EndFacts, Settled
<1> HIDE DEF x
<1> QED BY <1>1, <1>4, Change

LEMMA AuthSucceedsOK ==
  ASSUME EndsOK, ChanOK, NEW e \in Ends, AuthSucceeds(e)
  PROVE  EndsOK' /\ ChanOK'
<1> DEFINE X(b) == [State(e) EXCEPT !.pending = @ \ {b}, !.proven = @ \/ b = "peer"]
<1>1. PICK b \in pending[e] :
        Changes(e, IF X(b).pending = {} THEN NetworkPhase(X(b)) ELSE X(b))
  BY DEF AuthSucceeds
<1> DEFINE x == X(b)
           y == IF x.pending = {} THEN NetworkPhase(x) ELSE x
<1>2. phase[e] = "authenticate" /\ line' = line
  BY DEF AuthSucceeds
<1>3. /\ x \in Pppd /\ x.lcp = lcp[e] /\ x.phase = "authenticate" /\ x.np = np[e]
      /\ x.pending = pending[e] \ {b}
      /\ x.proven = (proven[e] \/ b = "peer")
  BY <1>2, EndFacts DEF Pppd
<1>4. /\ Timed(lcp[e]) /\ lcp[e].state = "opened" /\ np[e] = "closed" /\ lcp[e].calls = {}
      /\ lcp[e].go # {} => "peer" \in pending[e] \/ proven[e]
      /\ lcp[e].go = {} => options[e].wants = {} \/ options[e].exempt
  BY <1>2, EndFacts DEF Sound, Ready
<1> HIDE DEF X
<1>5. lcp[e].go # {} => "peer" \in x.pending \/ x.proven
  BY <1>3, <1>4
<1>6. CASE x.pending = {}
  <2>1. /\ y \in Pppd /\ y.lcp = lcp[e] /\ y.phase = "network"
        /\ y.proven = x.proven
    BY <1>3, <1>6 DEF NetworkPhase, Pppd, Phases
  <2> HIDE DEF y
  <2>2. Sound(y, options[e], line) /\ Settle(y, options[e]) = y
    BY <1>4, <1>5, <1>6, <2>1 DEF Sound, Idle, AtRest, Settle, Was
  <2> QED BY <1>1, <1>2, <2>2, Change DEF y
<1>7. CASE x.pending # {}
  <2>1. y = x
    BY <1>7
  <2> HIDE DEF x
  <2>2. Sound(x, options[e], line) /\ Settle(x, options[e]) = x
    BY <1>3, <1>4, <1>5 DEF Sound, Idle, AtRest, Settle, Was
  <2> QED BY <1>1, <1>2, <2>1, <2>2, Change DEF x
<1> QED BY <1>6, <1>7

LEMMA NetUpOK ==
  ASSUME EndsOK, ChanOK, NEW e \in Ends, NetUp(e)
  PROVE  EndsOK' /\ ChanOK'
<1> DEFINE x == [State(e) EXCEPT !.np = "up", !.phase = "running", !.unsuccess = 0]
<1>1. np[e] = "open" /\ Changes(e, x) /\ line' = line
  BY DEF NetUp
<1>2. /\ Sound(State(e), options[e], line) /\ State(e) \in Pppd /\ State(e).np # "closed"
      /\ State(e).lcp.calls = {} /\ State(e).phase \in {"network", "running"}
      /\ State(e).lcp.state = "opened"
  BY <1>1, EndFacts DEF Sound
<1>3. /\ x \in Pppd /\ x.lcp = State(e).lcp /\ x.phase = "running" /\ x.np = "up"
      /\ x.proven = State(e).proven
  BY <1>2 DEF Pppd, Phases
<1> HIDE DEF x
<1>4. Sound(x, options[e], line) /\ Settle(x, options[e]) = x
  BY <1>2, <1>3 DEF Sound, Idle, AtRest, Settle, Was
<1> QED BY <1>1, <1>4, Change

LEMMA NetFinishedOK ==
  ASSUME EndsOK, ChanOK, NEW e \in Ends, np[e] # "closed", NetFinished(e)
  PROVE  EndsOK' /\ ChanOK'
<1> DEFINE x == [State(e) EXCEPT !.np = "closed"]
<1>1. Changes(e, LcpClose(x, options[e])) /\ line' = line
  BY DEF NetFinished
<1>2. /\ Sound(State(e), options[e], line) /\ State(e) \in Pppd /\ State(e).phase \in {"network", "running"}
      /\ State(e).lcp.calls = {}
  BY EndFacts DEF Sound
<1>3. /\ x \in Pppd /\ x.lcp = State(e).lcp /\ x.phase = State(e).phase /\ x.np = "closed"
      /\ x.proven = State(e).proven /\ x.pending = State(e).pending
  BY <1>2 DEF Pppd
<1> HIDE DEF x
<1>4. Sound(x, options[e], line) /\ x.phase \notin Idle /\ x.lcp.calls = {}
  BY <1>2, <1>3 DEF Sound, Idle
<1> QED BY <1>1, <1>4, CloseChange

-----------------------------------------------------------------------------
LEMMA LinkInit ==
  ASSUME Init
  PROVE  LinkInv
<1>1. options \in Configs /\ \A e \in Ends : options[e] \in Options
  BY LinkAssumption DEF Init
<1>2. New \in Fsm /\ New.state = "initial" /\ New.timers = 0 /\ New.calls = {}
  <2>1. <<>> \in Seq(Packets) /\ 0 \in 0..Wrap - 1 /\ 0 \in 0..MaxConf + MaxTerm
    BY FsmAssumption
  <2> QED BY <2>1 DEF New, Fsm, States
<1>3. ASSUME NEW e \in Ends
      PROVE  Sound(State(e), options[e], line)
  <2>1. /\ State(e) \in Pppd /\ State(e).lcp = New /\ State(e).phase = "start"
        /\ State(e).np = "closed"
    BY <1>2 DEF Init, State, Pppd, Phases
  <2> QED BY <1>2, <2>1 DEF Sound, Timed, Idle, Negotiating, Terminating
<1>4. EndsOK
  BY <1>1, <1>2, <1>3 DEF Init, EndsOK, Phases
<1>5. ChanOK
  <2>1. <<>> \in Seq(Packets)
    OBVIOUS
  <2> QED BY <2>1 DEF Init, ChanOK
<1>6. RestOK
  BY LinkAssumption DEF Init, RestOK
<1> QED BY <1>4, <1>5, <1>6 DEF LinkInv

LEMMA UnchangedEnds ==
  ASSUME EndsOK, UNCHANGED ends,
         line' = line \/ ~line' \/ \A e \in Ends : phase[e] = "start"
  PROVE  EndsOK'
<1>1. \A e \in Ends : State(e)' = State(e)
  BY DEF State, ends
<1>2. ASSUME NEW e \in Ends
      PROVE  Sound(State(e), options[e], line')
  <2>1. CASE line' = line \/ ~line'
    BY <2>1, EndFacts, HangsUp
  <2>2. CASE phase[e] = "start"
    BY <2>2, EndFacts DEF Sound, Idle
  <2> QED BY <2>1, <2>2
<1> QED BY <1>1, <1>2 DEF EndsOK, ends

LEMMA SignalOK ==
  ASSUME EndsOK, ChanOK, NEW e \in Ends, Signal(e)
  PROVE  EndsOK' /\ ChanOK'
<1>0. line' = line
  BY DEF Signal
<1>1. CASE Running(e) /\ Changes(e, LcpClose(State(e), options[e]))
  BY <1>0, <1>1, EndFacts, CloseChange DEF Running, Idle
<1>2. CASE UNCHANGED <<ends, chan>>
  BY <1>0, <1>2, UnchangedEnds DEF ChanOK
<1> QED BY <1>1, <1>2 DEF Signal

(* Closing what is open: the echoes or the peer's answers stay out. *)
LEMMA OpenCloses ==
  ASSUME EndsOK, ChanOK, NEW e \in Ends, EchoFails(e) \/ AuthFails(e)
  PROVE  EndsOK' /\ ChanOK'
<1>1. Changes(e, LcpClose(State(e), options[e])) /\ line' = line
  BY DEF EchoFails, AuthFails
<1>2. State(e).phase \notin Idle
  BY EndFacts DEF EchoFails, AuthFails, Sound, Idle
<1> QED BY <1>1, <1>2, EndFacts, CloseChange

LEMMA LineSteps ==
  ASSUME EndsOK, ChanOK, HangUp \/ Redial \/ \E e \in Ends : Lose(e)
  PROVE  EndsOK' /\ ChanOK'
<1>1. EndsOK'
  BY UnchangedEnds DEF HangUp, Redial, Lose
<1>2. ChanOK'
  <2>1. <<>> \in Seq(Packets)
    OBVIOUS
  <2>2. CASE HangUp \/ Redial
    BY <2>1, <2>2 DEF HangUp, Redial, ChanOK
  <2>3. ASSUME NEW e \in Ends, Lose(e)
        PROVE  ChanOK'
    <3>1. chan[e] \in Seq(Packets) /\ chan[e] # <<>> /\ chan' = [chan EXCEPT ![e] = Tail(chan[e])]
      BY <2>3 DEF Lose, ChanOK
    <3>2. Tail(chan[e]) \in Seq(Packets)
      BY <3>1
    <3> QED BY <3>1, <3>2 DEF ChanOK
  <2> QED BY <2>2, <2>3
<1> QED BY <1>1, <1>2

LEMMA RestSteps ==
  ASSUME RestOK, Next
  PROVE  RestOK'
<1>1. calls' = calls \/ Called
  <2>1. ASSUME NEW e \in Ends, Start(e) \/ Loop(e) \/ Eof(e) \/ Deliver(e) \/ Lose(e)
        PROVE  calls' = calls
    BY <2>1 DEF Start, Loop, Leave, Eof, Deliver, Lose
  <2>2. ASSUME NEW e \in Ends, Timer(e) \/ EarlyTimer(e) \/ EchoFails(e) \/ AuthSucceeds(e)
        PROVE  calls' = calls
    BY <2>2 DEF Timer, EarlyTimer, TimedOut, EchoFails, AuthSucceeds
  <2>3. ASSUME NEW e \in Ends, AuthUnanswered(e) \/ AuthRefused(e) \/ NetUp(e)
        PROVE  calls' = calls
    BY <2>3 DEF AuthUnanswered, AuthRefused, AuthFails, NetUp
  <2>4. ASSUME NEW e \in Ends, NetUnanswered(e) \/ NetClosed(e) \/ Signal(e)
        PROVE  calls' = calls \/ Called
    BY <2>4 DEF NetUnanswered, NetClosed, Signal
  <2>5. CASE HangUp \/ Redial \/ \E e \in Ends : StartCutOff(e)
    BY <2>5 DEF HangUp, Redial, StartCutOff
  <2> QED BY <2>1, <2>2, <2>3, <2>4, <2>5 DEF Next
<1>2. faults' = faults \/ Fault
  <2>1. ASSUME NEW e \in Ends, Start(e) \/ Loop(e) \/ Signal(e) \/ Eof(e) \/ Deliver(e)
        PROVE  faults' = faults
    BY <2>1 DEF Start, Loop, Leave, Signal, Eof, Deliver
  <2>2. ASSUME NEW e \in Ends, Lose(e) \/ Timer(e) \/ EarlyTimer(e) \/ EchoFails(e)
        PROVE  faults' = faults \/ Fault
    BY <2>2 DEF Lose, Timer, EarlyTimer, Fine, EchoFails
  <2>3. ASSUME NEW e \in Ends, AuthSucceeds(e) \/ AuthUnanswered(e) \/ AuthRefused(e)
        PROVE  faults' = faults \/ Fault
    BY <2>3 DEF AuthSucceeds, AuthUnanswered, AuthRefused, Fine
  <2>4. ASSUME NEW e \in Ends, NetUp(e) \/ NetUnanswered(e) \/ NetClosed(e)
        PROVE  faults' = faults
    BY <2>4 DEF NetUp, NetUnanswered, NetClosed, NetFinished
  <2>5. CASE HangUp \/ Redial \/ \E e \in Ends : StartCutOff(e)
    BY <2>5 DEF HangUp, Redial, StartCutOff
  <2> QED BY <2>1, <2>2, <2>3, <2>4, <2>5 DEF Next
<1>3. calls' \in 0..MaxCalls
  BY <1>1, LinkAssumption DEF RestOK, Called
<1>4. faults' \in 0..MaxFaults
  BY <1>2, LinkAssumption DEF RestOK, Fault
<1>5. line' \in BOOLEAN
  <2>1. ASSUME NEW e \in Ends, Start(e) \/ Loop(e) \/ Signal(e) \/ Eof(e) \/ Deliver(e)
        PROVE  line' \in BOOLEAN
    BY <2>1 DEF RestOK, Start, Loop, Leave, Signal, Eof, Deliver
  <2>2. ASSUME NEW e \in Ends, Lose(e) \/ Timer(e) \/ EarlyTimer(e) \/ EchoFails(e)
        PROVE  line' = line
    BY <2>2 DEF Lose, Timer, EarlyTimer, TimedOut, EchoFails
  <2>3. ASSUME NEW e \in Ends, AuthSucceeds(e) \/ AuthUnanswered(e) \/ AuthRefused(e)
        PROVE  line' = line
    BY <2>3 DEF AuthSucceeds, AuthUnanswered, AuthRefused, AuthFails
  <2>4. ASSUME NEW e \in Ends, NetUp(e) \/ NetUnanswered(e) \/ NetClosed(e)
        PROVE  line' = line
    BY <2>4 DEF NetUp, NetUnanswered, NetClosed, NetFinished
  <2>5. CASE HangUp \/ Redial \/ \E e \in Ends : StartCutOff(e)
    BY <2>5 DEF HangUp, Redial, StartCutOff
  <2> QED BY <2>1, <2>2, <2>3, <2>4, <2>5 DEF Next, RestOK
<1>6. quit' \in [Ends -> BOOLEAN]
  <2>1. ASSUME NEW e \in Ends, Start(e) \/ Loop(e) \/ Signal(e) \/ Eof(e) \/ Deliver(e)
        PROVE  quit' \in [Ends -> BOOLEAN]
    BY <2>1 DEF RestOK, Start, Loop, Leave, Signal, Eof, Deliver
  <2>2. ASSUME NEW e \in Ends, Lose(e) \/ Timer(e) \/ EarlyTimer(e) \/ EchoFails(e)
        PROVE  quit' = quit
    BY <2>2 DEF Lose, Timer, EarlyTimer, TimedOut, EchoFails
  <2>3. ASSUME NEW e \in Ends, AuthSucceeds(e) \/ AuthUnanswered(e) \/ AuthRefused(e)
        PROVE  quit' = quit
    BY <2>3 DEF AuthSucceeds, AuthUnanswered, AuthRefused, AuthFails
  <2>4. ASSUME NEW e \in Ends, NetUp(e) \/ NetUnanswered(e) \/ NetClosed(e)
        PROVE  quit' = quit
    BY <2>4 DEF NetUp, NetUnanswered, NetClosed, NetFinished
  <2>5. CASE HangUp \/ Redial \/ \E e \in Ends : StartCutOff(e)
    BY <2>5 DEF HangUp, Redial, StartCutOff, ends, RestOK
  <2> QED BY <2>1, <2>2, <2>3, <2>4, <2>5 DEF Next, RestOK
<1> QED BY <1>3, <1>4, <1>5, <1>6 DEF RestOK

LEMMA LinkNext ==
  ASSUME LinkInv, [Next]_vars
  PROVE  LinkInv'
<1>1. EndsOK /\ ChanOK /\ RestOK
  BY DEF LinkInv
<1>2. CASE Next
  <2>1. RestOK'
    BY <1>1, <1>2, RestSteps
  <2>2. CASE HangUp \/ Redial \/ \E e \in Ends : Lose(e)
    BY <1>1, <2>1, <2>2, LineSteps DEF LinkInv
  <2>3. ASSUME NEW e \in Ends, Start(e) \/ Loop(e) \/ Signal(e) \/ Eof(e) \/ Deliver(e)
        PROVE  LinkInv'
    BY <1>1, <2>1, <2>3, StartOK, LeaveOK, SignalOK, EofOK, DeliverOK DEF LinkInv
  <2>7. ASSUME NEW e \in Ends, StartCutOff(e)
        PROVE  LinkInv'
    BY <1>1, <2>1, <2>7, StartCutOffOK DEF LinkInv
  <2>4. ASSUME NEW e \in Ends, Timer(e) \/ EarlyTimer(e) \/ EchoFails(e) \/ AuthSucceeds(e)
        PROVE  LinkInv'
    BY <1>1, <2>1, <2>4, TimedOutOK, OpenCloses, AuthSucceedsOK DEF LinkInv, Timer, EarlyTimer
  <2>5. ASSUME NEW e \in Ends, AuthUnanswered(e) \/ AuthRefused(e) \/ NetUp(e)
        PROVE  LinkInv'
    BY <1>1, <2>1, <2>5, OpenCloses, NetUpOK DEF LinkInv, AuthUnanswered, AuthRefused
  <2>6. ASSUME NEW e \in Ends, NetUnanswered(e) \/ NetClosed(e)
        PROVE  LinkInv'
    <3>1. np[e] # "closed" /\ NetFinished(e)
      BY <2>6 DEF NetUnanswered, NetClosed
    <3> QED BY <1>1, <2>1, <3>1, NetFinishedOK DEF LinkInv
  <2> QED BY <1>2, <2>2, <2>3, <2>4, <2>5, <2>6, <2>7 DEF Next
<1>3. CASE UNCHANGED vars
  BY <1>1, <1>3, UnchangedEnds DEF vars, LinkInv, ChanOK, RestOK
<1> QED BY <1>2, <1>3

THEOREM LinkInvariant == Spec => []LinkInv
<1>1. Init => LinkInv
  BY LinkInit
<1>2. LinkInv /\ [Next]_vars => LinkInv'
  BY LinkNext
<1> QED BY <1>1, <1>2, PTL DEF Spec

-----------------------------------------------------------------------------
(* Every variable has its type, the counters their bounds. *)
THEOREM LinkTypes == Spec => []TypeOK
<1>1. LinkInv => TypeOK
  BY DEF LinkInv, EndsOK, ChanOK, RestOK, TypeOK
<1> QED BY <1>1, LinkInvariant, PTL

(* One fsm_timeout is on the queue exactly while an automaton waits for an   *)
(* answer, whatever comes when: for any bounds on retries, any options.      *)
THEOREM TimersDisciplined == Spec => []TimerDiscipline
<1>1. LinkInv => TimerDiscipline
  BY EndFacts DEF LinkInv, TimerDiscipline, Ready, Timed
<1> QED BY <1>1, LinkInvariant, PTL

(* No packets pass while LCP is not open, or before a peer that agreed to    *)
(* authenticate itself has done so on this link; and of an end that demands  *)
(* it a peer that refused gets through only by an exemption.                 *)
THEOREM NetworkIsGuarded == Spec => []NetworkGuarded
<1>1. LinkInv => NetworkGuarded
  BY EndFacts DEF LinkInv, NetworkGuarded, Sound
<1> QED BY <1>1, LinkInvariant, PTL

(* A pppd whose LCP is at rest is on its way out, unless it is passive or    *)
(* silent and waits for its peer, or is still to read that its line hung up  *)
(* before LCP began.                                                         *)
THEOREM NeverIsStuck == Spec => []NeverStuck
<1>1. LinkInv => NeverStuck
  BY EndFacts DEF LinkInv, NeverStuck, Sound, Running, Idle, AtRest
<1> QED BY <1>1, LinkInvariant, PTL

-----------------------------------------------------------------------------
(* The options both ends have agreed to.  Identifiers come round, so an      *)
(* answer may be taken for that to a later request: not as long as an end    *)
(* takes no identifier that a request or an Ack on the line still carries.   *)

Carries(s, code, i) == \E k \in DOMAIN s : s[k].code = code /\ s[k].id = i

FreshIds ==
  \A e \in Ends :
    LET i == lcp'[e].reqid
    IN i # lcp[e].reqid =>
         ~Carries(chan[e], "ConfAck", i) /\ ~Carries(chan[Peer(e)], "ConfReq", i)

(* f asks; in are the packets on their way to it, out those on their way to  *)
(* its peer, whose automaton is h.  The line keeps the order of requests, so *)
(* once the last one is acknowledged the peer has agreed to what f asks for, *)
(* and no other request can make it agree to something else.                 *)
Carried(f, out) ==
  \A k \in DOMAIN out :
    out[k].code = "ConfReq" /\ out[k].id = f.reqid => out[k].auth = AskFor(f.go)
Ordered(f, out) ==
  \A k, l \in DOMAIN out :
    k < l /\ out[k].code = "ConfReq" /\ out[k].id = f.reqid /\ out[l].code = "ConfReq" =>
      out[l].id = f.reqid
Latest(f, out) == \A k \in DOMAIN out : out[k].code = "ConfReq" => out[k].id = f.reqid

Agreed(f, in) == Confirmed(f) \/ Carries(in, "ConfAck", f.reqid)

View(f, h, in, out) ==
  Asking(f) => /\ Carried(f, out) /\ Ordered(f, out)
               /\ Agreed(f, in) => h.ho = AskFor(f.go) /\ Latest(f, out)

PairInv ==
  \A e \in Ends :
    /\ Prompt(lcp[e]) /\ lcp[e].ho \in options[e].allows \cup {None}
    /\ View(lcp[e], lcp[Peer(e)], chan[e], chan[Peer(e)])

(* t is what is left of s when its first packets are gone. *)
Rest(s, t) ==
  \E n \in Nat : n <= Len(s) /\ Len(t) = Len(s) - n /\ \A k \in 1..Len(t) : t[k] = s[k + n]

LEMMA TheOther ==
  ASSUME NEW e \in Ends
  PROVE  /\ Peer(e) \in Ends /\ Peer(e) # e /\ Peer(Peer(e)) = e
         /\ \A d \in Ends : d = e \/ d = Peer(e)
BY LinkAssumption DEF Peer

LEMMA Rests1 ==
  ASSUME NEW s \in Seq(Packets)
  PROVE  Rest(s, s) /\ Rest(s, <<>>) /\ (s # <<>> => Rest(s, Tail(s)))
<1>1. Len(s) \in Nat
  OBVIOUS
<1>2. Rest(s, s)
  <2>1. 0 <= Len(s) /\ Len(s) = Len(s) - 0 /\ \A k \in 1..Len(s) : s[k] = s[k + 0]
    BY <1>1
  <2> QED BY <2>1 DEF Rest
<1>3. Rest(s, <<>>)
  <2>1. Len(<<>>) = 0
    OBVIOUS
  <2>2. Len(s) <= Len(s) /\ Len(<<>>) = Len(s) - Len(s)
        /\ \A k \in 1..Len(<<>>) : <<>>[k] = s[k + Len(s)]
    BY <1>1, <2>1
  <2> QED BY <1>1, <2>2 DEF Rest
<1>4. ASSUME s # <<>>
      PROVE  Rest(s, Tail(s))
  <2>1. Len(s) >= 1 /\ Len(Tail(s)) = Len(s) - 1
    BY <1>1, <1>4
  <2>2. \A k \in 1..Len(Tail(s)) : Tail(s)[k] = s[k + 1]
    BY <1>1, <1>4, <2>1
  <2> QED BY <1>1, <2>1, <2>2 DEF Rest
<1> QED BY <1>2, <1>3, <1>4

(* What is left says nothing new, and in the same order. *)
LEMMA RestFacts ==
  ASSUME NEW s \in Seq(Packets), NEW t \in Seq(Packets), Rest(s, t), NEW f
  PROVE  /\ \A code, i : Carries(t, code, i) => Carries(s, code, i)
         /\ Carried(f, s) => Carried(f, t)
         /\ Ordered(f, s) => Ordered(f, t)
         /\ Latest(f, s) => Latest(f, t)
<1>1. PICK n \in Nat : n <= Len(s) /\ Len(t) = Len(s) - n /\ \A k \in 1..Len(t) : t[k] = s[k + n]
  BY DEF Rest
<1>2. DOMAIN s = 1..Len(s) /\ DOMAIN t = 1..Len(t) /\ Len(s) \in Nat /\ Len(t) \in Nat
  OBVIOUS
<1>3. \A k \in DOMAIN t : k \in Nat /\ k + n \in DOMAIN s /\ t[k] = s[k + n]
  BY <1>1, <1>2
<1>4. \A code, i : Carries(t, code, i) => Carries(s, code, i)
  BY <1>3 DEF Carries
<1>5. Carried(f, s) => Carried(f, t)
  BY <1>3 DEF Carried
<1>6. Latest(f, s) => Latest(f, t)
  BY <1>3 DEF Latest
<1>7. ASSUME Ordered(f, s)
      PROVE  Ordered(f, t)
  <2> SUFFICES ASSUME NEW k \in DOMAIN t, NEW l \in DOMAIN t, k < l,
                      t[k].code = "ConfReq", t[k].id = f.reqid, t[l].code = "ConfReq"
               PROVE  t[l].id = f.reqid
    BY DEF Ordered
  <2>1. k + n < l + n
    BY <1>3
  <2> QED BY <1>3, <1>7, <2>1 DEF Ordered
<1> QED BY <1>4, <1>5, <1>6, <1>7

LEMMA ViewRests ==
  ASSUME NEW f, NEW h, NEW h2, h2.ho = h.ho,
         NEW in \in Seq(Packets), NEW in2 \in Seq(Packets), Rest(in, in2),
         NEW out \in Seq(Packets), NEW out2 \in Seq(Packets), Rest(out, out2),
         View(f, h, in, out)
  PROVE  View(f, h2, in2, out2)
<1>1. Agreed(f, in2) => Agreed(f, in)
  BY RestFacts DEF Agreed
<1>2. /\ Carried(f, out) => Carried(f, out2)
      /\ Ordered(f, out) => Ordered(f, out2)
      /\ Latest(f, out) => Latest(f, out2)
  BY RestFacts
<1> QED BY <1>1, <1>2 DEF View

LEMMA Joined ==
  ASSUME NEW s \in Seq(Packets), NEW t \in Seq(Packets)
  PROVE  /\ s \o t \in Seq(Packets)
         /\ \A k \in DOMAIN (s \o t) :
              /\ k \in Nat
              /\ \/ k \in DOMAIN s /\ (s \o t)[k] = s[k]
                 \/ k > Len(s) /\ k - Len(s) \in DOMAIN t /\ (s \o t)[k] = t[k - Len(s)]
         /\ \A k \in DOMAIN s : k <= Len(s)
<1>1. s \o t \in Seq(Packets) /\ Len(s \o t) = Len(s) + Len(t)
      /\ \A k \in 1..Len(s) + Len(t) : (s \o t)[k] = IF k <= Len(s) THEN s[k] ELSE t[k - Len(s)]
  BY ConcatProperties
<1>2. /\ DOMAIN s = 1..Len(s) /\ DOMAIN t = 1..Len(t) /\ DOMAIN (s \o t) = 1..Len(s) + Len(t)
      /\ Len(s) \in Nat /\ Len(t) \in Nat
  BY <1>1
<1>3. SUFFICES ASSUME NEW k \in DOMAIN (s \o t)
               PROVE  /\ k \in Nat
                      /\ \/ k \in DOMAIN s /\ (s \o t)[k] = s[k]
                         \/ k > Len(s) /\ k - Len(s) \in DOMAIN t /\ (s \o t)[k] = t[k - Len(s)]
  BY <1>1, <1>2
<1>4. CASE k <= Len(s)
  BY <1>1, <1>2, <1>4
<1>5. CASE k > Len(s)
  BY <1>1, <1>2, <1>5
<1> QED BY <1>2, <1>4, <1>5

(* What a step does to the line: it takes the packets P, none or the first,  *)
(* and sends what the automaton g has to say, or loses it.                   *)
Takes(P, s, t) ==
  \/ P = {} /\ t = s
  \/ s # <<>> /\ P = {s[1]} /\ t = Tail(s)
Sends(g, s, t) == t \in {s, s \o g.out}

Fresh(f, g, in, out) ==
  g.reqid # f.reqid => ~Carries(in, "ConfAck", g.reqid) /\ ~Carries(out, "ConfReq", g.reqid)

LEMMA NextDiffers ==
  ASSUME Wrap > 1, NEW i \in 0..Wrap - 1
  PROVE  Next1(i) # i
<1>1. Wrap \in Nat /\ i \in Nat /\ i < Wrap
  BY FsmAssumption
<1>2. CASE i + 1 < Wrap
  BY <1>1, <1>2 DEF Next1
<1>3. CASE i + 1 = Wrap
  BY <1>1, <1>3 DEF Next1
<1> QED BY <1>1, <1>2, <1>3

(* An honest step of the one who asks. *)
LEMMA AskerView ==
  ASSUME Wrap > 1, NEW f, Prompt(f), NEW g \in Fsm, NEW h, NEW o, NEW P,
         NEW in \in Seq(Packets), NEW in2 \in Seq(Packets), Takes(P, in, in2),
         NEW out \in Seq(Packets), NEW out2, Sends(g, out, out2),
         View(f, h, in, out), Honest(f, g, o, P), Fresh(f, g, in, out)
  PROVE  View(g, h, in2, out2)
<1> USE DEF Takes, Sends, Fresh
<1>0. Rest(in, in2)
  BY Rests1
<1> SUFFICES ASSUME Asking(g)
             PROVE  /\ Carried(g, out2) /\ Ordered(g, out2)
                    /\ Agreed(g, in2) => h.ho = AskFor(g.go) /\ Latest(g, out2)
  BY DEF View
<1>1. RequestsAre(g.out, g.reqid, AskFor(g.go)) /\ (GoesOn(f, g, P) \/ AsksAnew(f, g))
  BY DEF Honest
<1>2. g.out \in Seq(Packets) /\ f.reqid \in 0..Wrap - 1
  BY DEF Fsm, Prompt
<1>3. \A k \in DOMAIN out2 :
        \/ k \in DOMAIN out /\ out2[k] = out[k]
        \/ /\ out2[k].code = "ConfReq" => out2[k].id = g.reqid /\ out2[k].auth = AskFor(g.go)
           /\ \A l \in DOMAIN out2 :
                k < l /\ out2[l].code = "ConfReq" => out2[l].id = g.reqid
  <2>1. CASE out2 = out
    BY <2>1
  <2>2. CASE out2 = out \o g.out
    <3>1. \A k \in DOMAIN out2 :
            /\ k \in Nat
            /\ \/ k \in DOMAIN out /\ out2[k] = out[k]
               \/ k > Len(out) /\ k - Len(out) \in DOMAIN g.out /\ out2[k] = g.out[k - Len(out)]
      BY <1>2, <2>2, Joined
    <3>2. \A k \in DOMAIN out : k <= Len(out)
      BY <1>2, Joined
    <3>3. \A k \in DOMAIN out2 : k > Len(out) /\ out2[k].code = "ConfReq" =>
            out2[k].id = g.reqid /\ out2[k].auth = AskFor(g.go)
      <4> SUFFICES ASSUME NEW k \in DOMAIN out2, k > Len(out), out2[k].code = "ConfReq"
                   PROVE  out2[k].id = g.reqid /\ out2[k].auth = AskFor(g.go)
        OBVIOUS
      <4>1. k \notin DOMAIN out
        <5>1. k \in Nat /\ Len(out) \in Nat
          BY <3>1
        <5> QED BY <3>2, <5>1
      <4> QED BY <1>1, <3>1, <4>1 DEF RequestsAre
    <3>4. \A k, l \in DOMAIN out2 : k > Len(out) /\ k < l => l > Len(out)
      <4>1. \A k \in DOMAIN out2 : k \in Nat
        BY <3>1
      <4>2. Len(out) \in Nat
        OBVIOUS
      <4> QED BY <4>1, <4>2
    <3> QED BY <3>1, <3>3, <3>4
  <2> QED BY <2>1, <2>2
<1>4. CASE GoesOn(f, g, P)
  <2>1. /\ Asking(f) /\ g.reqid = f.reqid /\ AskFor(g.go) = AskFor(f.go)
        /\ Confirmed(g) => Confirmed(f) \/ \E p \in P : p.code = "ConfAck" /\ p.id = f.reqid
    BY <1>4 DEF GoesOn
  <2>2. /\ Carried(f, out) /\ Ordered(f, out)
        /\ Agreed(f, in) => h.ho = AskFor(f.go) /\ Latest(f, out)
    BY <2>1 DEF View
  <2>3. Carried(g, out2)
    BY <1>3, <2>1, <2>2 DEF Carried
  <2>4. Ordered(g, out2)
    <3> SUFFICES ASSUME NEW k \in DOMAIN out2, NEW l \in DOMAIN out2, k < l,
                        out2[k].code = "ConfReq", out2[k].id = g.reqid, out2[l].code = "ConfReq"
                 PROVE  out2[l].id = g.reqid
      BY DEF Ordered
    <3> QED BY <1>3, <2>1, <2>2 DEF Ordered
  <2>5. Agreed(g, in2) => Agreed(f, in)
    <3>1. \A i : Carries(in2, "ConfAck", i) => Carries(in, "ConfAck", i)
      BY <1>0, RestFacts
    <3>2. ASSUME NEW p \in P, p.code = "ConfAck", p.id = f.reqid
          PROVE  Carries(in, "ConfAck", f.reqid)
      <4>1. in # <<>> /\ p = in[1] /\ 1 \in DOMAIN in
        BY <3>2
      <4> QED BY <3>2, <4>1 DEF Carries
    <3> QED BY <2>1, <3>1, <3>2 DEF Agreed
  <2>6. Latest(f, out) => Latest(g, out2)
    BY <1>3, <2>1 DEF Latest
  <2> QED BY <2>1, <2>2, <2>3, <2>4, <2>5, <2>6
<1>5. CASE AsksAnew(f, g)
  <2>1. g.reqid = Next1(f.reqid) /\ ~Confirmed(g)
    BY <1>5 DEF AsksAnew
  <2>2. g.reqid # f.reqid
    BY <1>2, <2>1, NextDiffers
  <2>3. ~Carries(in, "ConfAck", g.reqid) /\ ~Carries(out, "ConfReq", g.reqid)
    BY <2>2
  <2>4. Carried(g, out2)
    BY <1>3, <2>3 DEF Carried, Carries
  <2>5. Ordered(g, out2)
    BY <1>3, <2>3 DEF Ordered, Carries
  <2>6. ~Agreed(g, in2)
    BY <1>0, <2>1, <2>3, RestFacts DEF Agreed
  <2> QED BY <2>4, <2>5, <2>6
<1> QED BY <1>1, <1>4, <1>5

(* An honest step of the one who is asked. *)
LEMMA AnswererView ==
  ASSUME NEW f, NEW h, NEW g \in Fsm, NEW o, h.ho \in o.allows \cup {None}, NEW P,
         NEW in \in Seq(Packets), NEW in2, Sends(g, in, in2),
         NEW out \in Seq(Packets), NEW out2 \in Seq(Packets), Takes(P, out, out2),
         View(f, h, in, out), Honest(h, g, o, P)
  PROVE  View(f, g, in2, out2) /\ g.ho \in o.allows \cup {None}
<1> USE DEF Takes, Sends
<1>1. Agreeing(h, g, o, P)
  BY DEF Honest
<1>2. g.ho \in o.allows \cup {None}
  BY <1>1 DEF Agreeing
<1>3. g.out \in Seq(Packets) /\ Rest(out, out2)
  BY Rests1 DEF Fsm
<1>4. \A i : Carries(in2, "ConfAck", i) => Carries(in, "ConfAck", i) \/ Carries(g.out, "ConfAck", i)
  <2>1. CASE in2 = in
    BY <2>1
  <2>2. CASE in2 = in \o g.out
    BY <1>3, <2>2, Joined DEF Carries
  <2> QED BY <2>1, <2>2
<1>5. SUFFICES ASSUME Asking(f)
               PROVE  /\ Carried(f, out2) /\ Ordered(f, out2)
                      /\ Agreed(f, in2) => g.ho = AskFor(f.go) /\ Latest(f, out2)
  BY <1>2 DEF View
<1>6. /\ Carried(f, out) /\ Ordered(f, out)
      /\ Agreed(f, in) => h.ho = AskFor(f.go) /\ Latest(f, out)
  BY <1>5 DEF View
<1>7. /\ Carried(f, out2) /\ Ordered(f, out2) /\ (Latest(f, out) => Latest(f, out2))
  BY <1>3, <1>6, RestFacts
<1>8. CASE g.ho = h.ho /\ NoAcks(g.out)
  <2>1. Agreed(f, in2) => Agreed(f, in)
    BY <1>4, <1>8 DEF Agreed, NoAcks, Carries
  <2> QED BY <1>6, <1>7, <1>8, <2>1
<1>9. CASE ~(g.ho = h.ho /\ NoAcks(g.out))
  <2>1. PICK p \in P :
          /\ p.code = "ConfReq"
          /\ IF p.auth \in o.allows \cup {None}
               THEN g.ho = p.auth /\ AcksAre(g.out, p.id)
               ELSE g.ho = None /\ NoAcks(g.out)
    BY <1>1, <1>9 DEF Agreeing
  <2>2. out # <<>> /\ p = out[1] /\ out2 = Tail(out) /\ 1 \in DOMAIN out
    BY <2>1
  <2> SUFFICES ASSUME Agreed(f, in2)
               PROVE  g.ho = AskFor(f.go) /\ Latest(f, out2)
    BY <1>7
  <2>3. CASE Agreed(f, in)
    <3>1. p.id = f.reqid
      BY <1>6, <2>1, <2>2, <2>3 DEF Latest
    <3>2. p.auth = AskFor(f.go)
      BY <1>6, <2>1, <2>2, <3>1 DEF Carried
    <3>3. p.auth \in o.allows \cup {None}
      BY <1>6, <2>3, <3>2
    <3> QED BY <1>6, <1>7, <2>1, <2>3, <3>2, <3>3
  <2>4. CASE ~Agreed(f, in)
    <3>1. Carries(g.out, "ConfAck", f.reqid)
      BY <1>4, <2>4 DEF Agreed
    <3>2. p.auth \in o.allows \cup {None} /\ g.ho = p.auth /\ AcksAre(g.out, p.id)
      BY <2>1, <3>1 DEF NoAcks, Carries
    <3>3. p.id = f.reqid
      BY <3>1, <3>2 DEF AcksAre, Carries
    <3>4. p.auth = AskFor(f.go)
      BY <1>6, <2>1, <2>2, <3>3 DEF Carried
    <3>5. Latest(f, out2)
      <4> SUFFICES ASSUME NEW k \in DOMAIN out2, out2[k].code = "ConfReq"
                   PROVE  out2[k].id = f.reqid
        BY DEF Latest
      <4>1. k \in Nat /\ k + 1 \in DOMAIN out /\ out2[k] = out[k + 1] /\ 1 < k + 1
        BY <2>2
      <4> QED BY <1>6, <2>1, <2>2, <3>3, <4>1 DEF Ordered
    <3> QED BY <3>2, <3>4, <3>5
  <2> QED BY <2>3, <2>4
<1> QED BY <1>8, <1>9

-----------------------------------------------------------------------------
(* The callbacks end what they end, and say nothing else. *)

Follows(x, y) ==
  /\ y \in Pppd /\ Timed(y.lcp) /\ y.lcp.id = y.lcp.reqid
  /\ y.lcp = x.lcp \/ Trails(x.lcp, y.lcp)

LEMMA FollowsOn ==
  ASSUME NEW x, NEW y, NEW z, Follows(x, y), Follows(y, z)
  PROVE  Follows(x, z)
BY TrailsOn DEF Follows

LEMMA TerminatedFollows ==
  ASSUME NEW x \in Pppd, Timed(x.lcp), x.lcp.id = x.lcp.reqid
  PROVE  Follows(x, LinkTerminated(x))
<1> DEFINE g == LowerDown(x.lcp)
           y == [x EXCEPT !.lcp = g, !.phase = "dead"]
<1>1. x.lcp \in Fsm
  BY DEF Pppd
<1>2. g \in Fsm /\ Timed(g) /\ Trails(x.lcp, g)
  BY <1>1, LowerDowns, DownTrails
<1>3. LinkTerminated(x) = x \/ LinkTerminated(x) = y
  BY DEF LinkTerminated
<1> HIDE DEF g
<1>4. y \in Pppd /\ y.lcp = g
  BY <1>2 DEF Pppd, Phases
<1> HIDE DEF y
<1>5. g.id = g.reqid
  BY <1>2 DEF Trails
<1> QED BY <1>2, <1>3, <1>4, <1>5 DEF Follows

LEMMA CloseFollows ==
  ASSUME NEW o \in Options, NEW x \in Pppd, Timed(x.lcp), x.lcp.id = x.lcp.reqid
  PROVE  Follows(x, LcpClose(x, o))
<1> DEFINE g == Close(x.lcp)
           y == [x EXCEPT !.lcp = g, !.phase = IF @ = "dead" THEN @ ELSE "terminate"]
<1>1. x.lcp \in Fsm
  BY DEF Pppd
<1>2. g \in Fsm /\ Timed(g) /\ Trails(x.lcp, g)
  BY <1>1, Closes, CloseTrails
<1>3. LcpClose(x, o) = y \/ LcpClose(x, o) = LinkTerminated(y)
  BY DEF LcpClose
<1> HIDE DEF g
<1>4. y \in Pppd /\ y.lcp = g
  BY <1>2 DEF Pppd, Phases
<1> HIDE DEF y
<1>5. g.id = g.reqid
  BY <1>2 DEF Trails
<1>6. Follows(x, y)
  BY <1>2, <1>4, <1>5 DEF Follows
<1>7. Follows(y, LinkTerminated(y))
  BY <1>2, <1>4, <1>5, TerminatedFollows
<1> QED BY <1>3, <1>6, <1>7, FollowsOn

LEMMA SettleFollows ==
  ASSUME NEW o \in Options, NEW x \in Pppd, Timed(x.lcp), x.lcp.id = x.lcp.reqid
  PROVE  Follows(x, Settle(x, o))
<1> DEFINE e == LinkEstablished(x, o)
           u == IF Was(x, "up") THEN e ELSE x
           d == IF Was(u, "down") THEN LinkDown(u) ELSE u
           z == IF Was(d, "finished") THEN LinkTerminated(d) ELSE d
<1>1. Settle(x, o) = z
  BY DEF Settle
<1>2. Follows(x, x)
  BY DEF Follows
<1>3. Follows(x, e)
  <2> DEFINE bits == (IF x.lcp.go # {} THEN {"peer"} ELSE {})
                       \cup (IF x.lcp.ho # None THEN {"withpeer"} ELSE {})
             y == [x EXCEPT !.phase = "authenticate", !.pending = bits, !.proven = FALSE]
             w == [x EXCEPT !.proven = FALSE]
  <2>1. e \in {LcpClose(w, o), NetworkPhase(y), y}
    BY DEF LinkEstablished
  <2>2. w \in Pppd /\ w.lcp = x.lcp
    BY DEF Pppd
  <2>3. bits \in SUBSET Bits
    BY DEF Bits
  <2> HIDE DEF bits, e
  <2>4. y \in Pppd /\ y.lcp = x.lcp
    BY <2>3 DEF Pppd, Phases
  <2> HIDE DEF w, y
  <2>5. NetworkPhase(y) \in Pppd /\ NetworkPhase(y).lcp = x.lcp
    BY <2>4 DEF NetworkPhase, Pppd, Phases
  <2>6. Follows(w, LcpClose(w, o))
    BY <2>2, CloseFollows
  <2> QED BY <2>1, <2>2, <2>4, <2>5, <2>6 DEF Follows
<1> HIDE DEF e
<1>4. Follows(x, u)
  BY <1>2, <1>3
<1> HIDE DEF u
<1>5. Follows(u, d)
  <2>1. u \in Pppd /\ Timed(u.lcp) /\ u.lcp.id = u.lcp.reqid
    BY <1>4 DEF Follows
  <2>2. LinkDown(u) \in Pppd /\ LinkDown(u).lcp = u.lcp
    BY <2>1 DEF LinkDown, Pppd, Phases
  <2> QED BY <2>1, <2>2 DEF Follows
<1> HIDE DEF d
<1>6. Follows(d, z)
  <2>1. d \in Pppd /\ Timed(d.lcp) /\ d.lcp.id = d.lcp.reqid
    BY <1>5 DEF Follows
  <2> QED BY <2>1, TerminatedFollows DEF Follows
<1> HIDE DEF z
<1> QED BY <1>1, <1>4, <1>5, <1>6, FollowsOn

LEMMA FollowsHonestly ==
  ASSUME NEW f, NEW o, NEW in, NEW x, NEW y, Honest(f, x.lcp, o, in), Follows(x, y)
  PROVE  Honest(f, y.lcp, o, in)
BY TrailsHonest DEF Follows

LEMMA SettlesHonestly ==
  ASSUME NEW o \in Options, NEW x \in Pppd, Timed(x.lcp), NEW f, NEW in, Honest(f, x.lcp, o, in)
  PROVE  Settle(x, o) \in Pppd /\ Honest(f, Settle(x, o).lcp, o, in)
<1>1. Follows(x, Settle(x, o))
  BY SettleFollows DEF Honest
<1> QED BY <1>1, FollowsHonestly DEF Follows

-----------------------------------------------------------------------------
(* The steps of the two ends *)

(* Some end becomes y, by what is honest on the packets in.                  *)
LEMMA BecomesPair ==
  ASSUME Wrap > 1, EndsOK, ChanOK, PairInv, FreshIds, NEW e \in Ends, NEW y \in Pppd,
         NEW in, NEW inbox, Become(e, {y}, inbox), Honest(lcp[e], y.lcp, options[e], in),
         Takes(in, chan[e], inbox)
  PROVE  PairInv'
<1> DEFINE d == Peer(e)
           g == y.lcp
           k == [g EXCEPT !.out = <<>>, !.calls = {}]
<1>1. d \in Ends /\ d # e /\ Peer(d) = e /\ \A c \in Ends : c = e \/ c = d
  BY TheOther
<1> HIDE DEF d
<1>2. g \in Fsm /\ g.out \in Seq(Packets) /\ <<>> \in Seq(Packets)
  BY DEF Pppd, Fsm
<1>3. /\ lcp' = [lcp EXCEPT ![e] = k] /\ options' = options
      /\ chan' = LET c == [chan EXCEPT ![e] = inbox]
                 IN IF line THEN [c EXCEPT ![d] = c[d] \o g.out] ELSE c
  BY DEF Become, d
<1>4. /\ chan[e] \in Seq(Packets) /\ chan[d] \in Seq(Packets) /\ chan \in [Ends -> Seq(Packets)]
      /\ lcp \in [Ends -> Fsm] /\ inbox \in Seq(Packets)
  <2>1. chan[e] \in Seq(Packets) /\ chan[d] \in Seq(Packets) /\ chan \in [Ends -> Seq(Packets)]
    BY <1>1 DEF ChanOK
  <2>2. inbox \in Seq(Packets)
    <3>1. chan[e] # <<>> => Tail(chan[e]) \in Seq(Packets)
      BY <2>1
    <3> QED BY <2>1, <3>1 DEF Takes
  <2> QED BY <2>1, <2>2 DEF EndsOK
<1> HIDE DEF g
<1>5. /\ k \in Fsm /\ k.state = g.state /\ k.id = g.id /\ k.reqid = g.reqid /\ k.go = g.go
      /\ k.ho = g.ho /\ k.out = <<>>
  BY <1>2 DEF Fsm
<1> HIDE DEF k
<1>6. lcp'[e] = k /\ lcp'[d] = lcp[d]
  BY <1>1, <1>3, <1>4
<1>7. chan'[e] = inbox /\ Sends(g, chan[d], chan'[d])
  BY <1>1, <1>3, <1>4 DEF Sends
<1>8. /\ Prompt(lcp[e]) /\ lcp[e].ho \in options[e].allows \cup {None}
      /\ View(lcp[e], lcp[d], chan[e], chan[d])
      /\ Prompt(lcp[d]) /\ lcp[d].ho \in options[d].allows \cup {None}
      /\ View(lcp[d], lcp[e], chan[d], chan[e])
  BY <1>1 DEF PairInv, d
<1>10. Fresh(lcp[e], g, chan[e], chan[d])
  BY <1>5, <1>6 DEF FreshIds, Fresh, d
<1>11. Honest(lcp[e], g, options[e], in)
  BY DEF g
<1>12. View(g, lcp[d], inbox, chan'[d]) /\ View(lcp[d], g, chan'[d], inbox)
       /\ g.ho \in options[e].allows \cup {None}
  <2>1. View(g, lcp[d], inbox, chan'[d])
    BY <1>2, <1>4, <1>7, <1>8, <1>10, <1>11, AskerView
  <2>2. View(lcp[d], g, chan'[d], inbox) /\ g.ho \in options[e].allows \cup {None}
    BY <1>2, <1>4, <1>7, <1>8, <1>11, AnswererView
  <2> QED BY <2>1, <2>2
<1>13. View(k, lcp[d], inbox, chan'[d]) /\ View(lcp[d], k, chan'[d], inbox)
  BY <1>5, <1>12
     DEF View, Asking, Carried, Ordered, Latest, Agreed, Confirmed
<1>14. Prompt(k)
  BY <1>5, <1>11 DEF Prompt, Honest
<1>15. /\ Prompt(lcp'[e]) /\ lcp'[e].ho \in options'[e].allows \cup {None}
       /\ View(lcp'[e], lcp'[d], chan'[e], chan'[d])
  BY <1>3, <1>5, <1>6, <1>7, <1>12, <1>13, <1>14
<1>16. /\ Prompt(lcp'[d]) /\ lcp'[d].ho \in options'[d].allows \cup {None}
       /\ View(lcp'[d], lcp'[e], chan'[d], chan'[e])
  BY <1>3, <1>6, <1>7, <1>8, <1>13
<1> QED BY <1>1, <1>15, <1>16 DEF PairInv, d

(* What the automaton of a running end does by itself. *)
LEMMA ChangesPair ==
  ASSUME Wrap > 1, EndsOK, ChanOK, PairInv, FreshIds, NEW e \in Ends, NEW x \in Pppd,
         Timed(x.lcp), Honest(lcp[e], x.lcp, options[e], {}), Changes(e, x)
  PROVE  PairInv'
<1> DEFINE y == Settle(x, options[e])
<1>1. y \in Pppd /\ Honest(lcp[e], y.lcp, options[e], {})
  BY EndFacts, SettlesHonestly
<1>2. Become(e, {y}, chan[e]) /\ Takes({}, chan[e], chan[e])
  BY DEF Changes, Takes
<1> HIDE DEF y
<1> QED BY <1>1, <1>2, BecomesPair

LEMMA PairFacts ==
  ASSUME EndsOK, PairInv, NEW e \in Ends
  PROVE  /\ Prompt(lcp[e]) /\ Timed(lcp[e]) /\ \A in : Honest(lcp[e], lcp[e], options[e], in)
<1>1. Prompt(lcp[e]) /\ Timed(lcp[e])
  BY EndFacts DEF PairInv, Ready
<1> QED BY <1>1, StillHonest DEF Same

(* lcp_close, from whatever calls it. *)
LEMMA ClosePair ==
  ASSUME Wrap > 1, EndsOK, ChanOK, PairInv, FreshIds, NEW e \in Ends, NEW x \in Pppd,
         x.lcp = lcp[e], Changes(e, LcpClose(x, options[e]))
  PROVE  PairInv'
<1> DEFINE y == LcpClose(x, options[e])
<1>1. Timed(x.lcp) /\ x.lcp.id = x.lcp.reqid /\ Honest(lcp[e], x.lcp, options[e], {})
  BY PairFacts DEF Prompt
<1>2. Follows(x, y)
  BY <1>1, EndFacts, CloseFollows
<1>3. y \in Pppd /\ Timed(y.lcp) /\ Honest(lcp[e], y.lcp, options[e], {})
  BY <1>1, <1>2, FollowsHonestly DEF Follows
<1> HIDE DEF y
<1> QED BY <1>3, ChangesPair DEF y

(* Steps that leave the automata alone, or change nothing that was said.     *)
LEMMA QuietPair ==
  ASSUME ChanOK, ChanOK', PairInv, options' = options, NEW e \in Ends,
         lcp'[Peer(e)] = lcp[Peer(e)], Prompt(lcp'[e]), Asking(lcp'[e]) => lcp'[e] = lcp[e],
         lcp'[e].ho = lcp[e].ho, \A d \in Ends : Rest(chan[d], chan'[d])
  PROVE  PairInv'
<1> DEFINE d == Peer(e)
<1>1. d \in Ends /\ d # e /\ Peer(d) = e /\ \A c \in Ends : c = e \/ c = d
  BY TheOther
<1>2. lcp'[d] = lcp[d]
  OBVIOUS
<1> HIDE DEF d
<1>3. /\ chan[e] \in Seq(Packets) /\ chan'[e] \in Seq(Packets)
      /\ chan[d] \in Seq(Packets) /\ chan'[d] \in Seq(Packets)
  BY <1>1 DEF ChanOK
<1>4. /\ lcp[e].ho \in options[e].allows \cup {None}
      /\ View(lcp[e], lcp[d], chan[e], chan[d])
      /\ Prompt(lcp[d]) /\ lcp[d].ho \in options[d].allows \cup {None}
      /\ View(lcp[d], lcp[e], chan[d], chan[e])
  BY <1>1 DEF PairInv, d
<1>5. View(lcp[e], lcp'[d], chan'[e], chan'[d])
  BY <1>1, <1>2, <1>3, <1>4, ViewRests
<1>6. View(lcp'[e], lcp'[d], chan'[e], chan'[d])
  BY <1>5 DEF View
<1>7. View(lcp'[d], lcp'[e], chan'[d], chan'[e])
  BY <1>1, <1>2, <1>3, <1>4, ViewRests
<1>8. /\ Prompt(lcp'[e]) /\ lcp'[e].ho \in options'[e].allows \cup {None}
      /\ Prompt(lcp'[d]) /\ lcp'[d].ho \in options'[d].allows \cup {None}
  BY <1>2, <1>4
<1> QED BY <1>1, <1>6, <1>7, <1>8 DEF PairInv, d

LEMMA LinePair ==
  ASSUME EndsOK, ChanOK, ChanOK', PairInv,
         (UNCHANGED vars) \/ HangUp \/ Redial \/ \E e \in Ends : Lose(e)
  PROVE  PairInv'
<1>1. lcp' = lcp /\ options' = options
  BY DEF vars, HangUp, Redial, Lose, ends
<1>2. \A d \in Ends : Rest(chan[d], chan'[d])
  <2>1. CASE chan' = chan
    BY <2>1, Rests1 DEF ChanOK
  <2>2. CASE chan' = [d \in Ends |-> <<>>]
    BY <2>2, Rests1 DEF ChanOK
  <2>3. ASSUME NEW e \in Ends, Lose(e)
        PROVE  \A d \in Ends : Rest(chan[d], chan'[d])
    <3>1. chan[e] # <<>> /\ chan' = [chan EXCEPT ![e] = Tail(chan[e])]
      BY <2>3 DEF Lose, ChanOK
    <3> QED BY <3>1, Rests1 DEF ChanOK
  <2> QED BY <2>1, <2>2, <2>3 DEF vars, HangUp, Redial
<1>3. CASE Ends = {}
  BY <1>3 DEF PairInv
<1>4. CASE Ends # {}
  <2>1. PICK e \in Ends : TRUE
    BY <1>4
  <2>2. lcp'[e] = lcp[e] /\ lcp'[Peer(e)] = lcp[Peer(e)] /\ Prompt(lcp[e])
    BY <1>1 DEF PairInv
  <2> QED BY <1>1, <1>2, <2>2, QuietPair
<1> QED BY <1>3, <1>4

LEMMA LeavePair ==
  ASSUME EndsOK, ChanOK, ChanOK', PairInv, NEW e \in Ends, Loop(e)
  PROVE  PairInv'
<1> DEFINE f == lcp[e]
           g == Close(f)
<1>1. /\ phase[e] = "dead" /\ lcp' = [lcp EXCEPT ![e] = g] /\ options' = options
      /\ chan' \in {chan, [d \in Ends |-> <<>>]}
  BY DEF Loop, Leave
<1>2. Prompt(f) /\ f.state \in {"initial", "starting"} /\ f.calls = {} /\ f \in Fsm
  BY <1>1, EndFacts DEF Sound, PairInv
<1>3. g = f \/ g = To(f, "initial")
  BY <1>2 DEF Close, Negotiating
<1>4. Prompt(g) /\ ~Asking(g) /\ g.ho = f.ho
  <2>1. To(f, "initial") \in Fsm /\ Same(f, To(f, "initial")) /\ To(f, "initial").state = "initial"
    <3>1. "initial" \in States /\ "up" \in Calls
      BY DEF States, Calls
    <3> HIDE DEF f
    <3> QED BY <1>2, <3>1, Moved, Silently
  <2>2. g \in Fsm /\ Same(f, g) /\ g.state \in {"initial", "starting"}
    BY <1>2, <1>3, <2>1 DEF Same
  <2> HIDE DEF g
  <2> QED BY <1>2, <2>2 DEF Prompt, Same, Asking, Negotiating
<1> HIDE DEF g
<1>5. lcp'[e] = g /\ lcp'[Peer(e)] = lcp[Peer(e)]
  BY <1>1, TheOther DEF EndsOK
<1>6. \A d \in Ends : Rest(chan[d], chan'[d])
  BY <1>1, Rests1 DEF ChanOK
<1> QED BY <1>1, <1>4, <1>5, <1>6, QuietPair

LEMMA StartPair ==
  ASSUME Wrap > 1, EndsOK, ChanOK, PairInv, FreshIds, NEW e \in Ends, Start(e)
  PROVE  PairInv'
<1> DEFINE f == Open(lcp[e], options[e])
           g == LowerUp(f, options[e])
           n == unsuccess[e] + 1
           x == IF line
                  THEN [State(e) EXCEPT !.unsuccess = n, !.lcp = g, !.phase = "establish"]
                  ELSE [State(e) EXCEPT !.unsuccess = n, !.lcp = f, !.phase = "dead"]
<1>1. n \in Nat /\ State(e).unsuccess + 1 = n
  BY EndFacts DEF EndsOK
<1>2. phase[e] = "start" /\ Changes(e, x)
  BY <1>1 DEF Start
<1>3. lcp[e].state = "initial"
  BY <1>2, EndFacts DEF Sound
<1>4. /\ f \in Fsm /\ Timed(f) /\ g \in Fsm /\ Timed(g)
      /\ Honest(lcp[e], f, options[e], {}) /\ Honest(lcp[e], g, options[e], {})
  <2>1. Prompt(lcp[e]) /\ Ready(lcp[e]) /\ options[e] \in Options
    BY EndFacts, PairFacts
  <2>2. f \in Fsm /\ Timed(f) /\ g \in Fsm /\ Timed(g)
    BY <1>3, <2>1, Starts
  <2>3. Honest(lcp[e], f, options[e], {}) /\ Honest(lcp[e], g, options[e], {})
    BY <1>3, <2>1, StartsHonest
  <2> QED BY <2>2, <2>3
<1> HIDE DEF f, g, n
<1>5. x \in Pppd /\ x.lcp \in {f, g}
  <2>1. State(e) \in Pppd
    BY EndFacts
  <2>2. CASE line
    BY <1>1, <1>4, <2>1, <2>2 DEF Pppd, Phases
  <2>3. CASE ~line
    BY <1>1, <1>4, <2>1, <2>3 DEF Pppd, Phases
  <2> QED BY <2>2, <2>3
<1> HIDE DEF x
<1>6. Timed(x.lcp) /\ Honest(lcp[e], x.lcp, options[e], {})
  BY <1>4, <1>5
<1> QED BY <1>2, <1>5, <1>6, ChangesPair

LEMMA StartCutOffPair ==
  ASSUME EndsOK, ChanOK, ChanOK', PairInv, NEW e \in Ends, StartCutOff(e)
  PROVE  PairInv'
<1> DEFINE f == lcp[e]
           t == To(f, "starting")
           g == [Open(f, options[e]) EXCEPT !.calls = {}]
<1>1. /\ phase[e] = "start" /\ lcp' = [lcp EXCEPT ![e] = g] /\ options' = options
      /\ chan' = [d \in Ends |-> <<>>]
  BY DEF StartCutOff, EndsOK
<1>2. Prompt(f) /\ f.state = "initial" /\ f.calls = {} /\ f \in Fsm
  BY <1>1, EndFacts DEF Sound, PairInv
<1>3. t \in Fsm /\ Same(f, t) /\ t.state = "starting"
  <2>1. "starting" \in States /\ "starting" \in Calls
    BY DEF States, Calls
  <2> HIDE DEF f
  <2> QED BY <1>2, <2>1, Moved, Silently
<1>4. g = [Call(t, "starting") EXCEPT !.calls = {}]
  BY <1>2 DEF Open
<1> HIDE DEF f, g, t
<1>5. Prompt(g) /\ ~Asking(g) /\ g.ho = f.ho
  <2>1. /\ g \in Fsm /\ g.state = "starting" /\ g.id = t.id /\ g.reqid = t.reqid
        /\ g.ho = t.ho /\ g.out = t.out
    BY <1>3, <1>4 DEF Call, Fsm
  <2> QED BY <1>2, <1>3, <2>1 DEF Prompt, Same, Asking, Negotiating
<1>6. lcp'[e] = g /\ lcp'[Peer(e)] = lcp[Peer(e)]
  BY <1>1, TheOther DEF EndsOK
<1>7. \A d \in Ends : Rest(chan[d], chan'[d])
  BY <1>1, Rests1 DEF ChanOK
<1> QED BY <1>1, <1>5, <1>6, <1>7, QuietPair DEF f

LEMMA EofPair ==
  ASSUME Wrap > 1, EndsOK, ChanOK, PairInv, FreshIds, NEW e \in Ends, Eof(e)
  PROVE  PairInv'
<1> DEFINE g == LowerDown(lcp[e])
           x == [State(e) EXCEPT !.lcp = g]
           z == Settle(x, options[e])
           y == [z EXCEPT !.phase = "dead"]
<1>1. Become(e, {y}, chan[e])
  BY EndFacts DEF Eof
<1>2. /\ g \in Fsm /\ Timed(g) /\ Trails(lcp[e], g) /\ Honest(lcp[e], lcp[e], options[e], {})
  BY EndFacts, PairFacts, LowerDowns, DownTrails DEF Prompt
<1> HIDE DEF g
<1>3. x \in Pppd /\ x.lcp = g
  BY <1>2, EndFacts DEF Pppd
<1> HIDE DEF x
<1>4. Honest(lcp[e], x.lcp, options[e], {})
  BY <1>2, <1>3, TrailsHonest
<1>5. z \in Pppd /\ Honest(lcp[e], z.lcp, options[e], {})
  BY <1>2, <1>3, <1>4, EndFacts, SettlesHonestly
<1> HIDE DEF z
<1>6. y \in Pppd /\ y.lcp = z.lcp
  BY <1>5 DEF Pppd, Phases
<1> HIDE DEF y
<1>7. Honest(lcp[e], y.lcp, options[e], {}) /\ Takes({}, chan[e], chan[e])
  BY <1>5, <1>6 DEF Takes
<1> QED BY <1>1, <1>6, <1>7, BecomesPair

LEMMA DeliverPair ==
  ASSUME Wrap > 1, EndsOK, ChanOK, PairInv, FreshIds, NEW e \in Ends, Deliver(e)
  PROVE  PairInv'
<1> DEFINE p == Head(chan[e])
           g == Input(lcp[e], options[e], p)
           x == IF Running(e) THEN [State(e) EXCEPT !.lcp = g] ELSE State(e)
           y == Settle(x, options[e])
<1>1. chan[e] \in Seq(Packets) /\ chan[e] # <<>>
  BY DEF Deliver, ChanOK
<1>2. p \in Packets /\ p = chan[e][1]
  BY <1>1
<1>3. Become(e, {y}, Tail(chan[e]))
  BY EndFacts DEF Deliver
<1> HIDE DEF p
<1>4. /\ Prompt(lcp[e]) /\ Timed(lcp[e]) /\ Honest(lcp[e], lcp[e], options[e], {p})
      /\ Honest(lcp[e], g, options[e], {p})
  BY <1>2, EndFacts, PairFacts, InputHonest
<1>5. x \in Pppd /\ Timed(x.lcp) /\ Honest(lcp[e], x.lcp, options[e], {p})
  <2>1. CASE Running(e)
    <3>2. g \in Fsm /\ Timed(g)
      <4>1. CASE lcp[e].state \in {"initial", "starting"}
        BY <4>1, EndFacts DEF Input, Ready
      <4>2. CASE lcp[e].state \in Listening
        BY <1>2, <4>2, EndFacts, Inputs DEF Steps
      <4> QED BY <4>1, <4>2, EndFacts DEF Fsm, Listening
    <3> HIDE DEF g
    <3>3. x \in Pppd /\ x.lcp = g
      BY <2>1, <3>2, EndFacts DEF Pppd
    <3> HIDE DEF x
    <3> QED BY <1>4, <3>2, <3>3
  <2>2. CASE ~Running(e)
    <3>1. x = State(e)
      BY <2>2
    <3> HIDE DEF x
    <3> QED BY <1>4, <3>1, EndFacts
  <2> QED BY <2>1, <2>2
<1> HIDE DEF x
<1>6. y \in Pppd /\ Honest(lcp[e], y.lcp, options[e], {p})
  BY <1>5, EndFacts, SettlesHonestly
<1>7. Takes({p}, chan[e], Tail(chan[e]))
  BY <1>1, <1>2 DEF Takes
<1> HIDE DEF y
<1> QED BY <1>3, <1>6, <1>7, BecomesPair

LEMMA TimedOutPair ==
  ASSUME Wrap > 1, EndsOK, ChanOK, PairInv, FreshIds, NEW e \in Ends, TimedOut(e)
  PROVE  PairInv'
<1> DEFINE g == Expire(lcp[e], options[e])
           x == [State(e) EXCEPT !.lcp = g]
<1>1. lcp[e].timers > 0 /\ Changes(e, x)
  BY EndFacts DEF TimedOut
<1>2. g \in Fsm /\ Timed(g)
  BY <1>1, EndFacts, Expires DEF Steps
<1>3. Honest(lcp[e], g, options[e], {})
  BY <1>1, EndFacts, PairFacts, ExpireHonest
<1> HIDE DEF g
<1>4. x \in Pppd /\ x.lcp = g
  BY <1>2, EndFacts DEF Pppd
<1> HIDE DEF x
<1> QED BY <1>1, <1>2, <1>3, <1>4, ChangesPair

(* What happens above LCP says nothing of options. *)
LEMMA AbovePair ==
  ASSUME Wrap > 1, EndsOK, ChanOK, PairInv, FreshIds, NEW e \in Ends, AuthSucceeds(e) \/ NetUp(e)
  PROVE  PairInv'
<1>1. \E x \in Pppd : x.lcp = lcp[e] /\ Changes(e, x)
  <2>1. CASE AuthSucceeds(e)
    <3> DEFINE X(b) == [State(e) EXCEPT !.pending = @ \ {b}, !.proven = @ \/ b = "peer"]
    <3>1. PICK b \in pending[e] :
            Changes(e, IF X(b).pending = {} THEN NetworkPhase(X(b)) ELSE X(b))
      BY <2>1 DEF AuthSucceeds
    <3>2. X(b) \in Pppd /\ X(b).lcp = lcp[e]
      BY EndFacts DEF Pppd
    <3> HIDE DEF X
    <3>3. NetworkPhase(X(b)) \in Pppd /\ NetworkPhase(X(b)).lcp = lcp[e]
      BY <3>2 DEF NetworkPhase, Pppd, Phases
    <3> QED BY <3>1, <3>2, <3>3
  <2>2. CASE NetUp(e)
    <3> DEFINE x == [State(e) EXCEPT !.np = "up", !.phase = "running", !.unsuccess = 0]
    <3>1. Changes(e, x)
      BY <2>2 DEF NetUp
    <3>2. x \in Pppd /\ x.lcp = lcp[e]
      BY EndFacts DEF Pppd, Phases
    <3> QED BY <3>1, <3>2
  <2> QED BY <2>1, <2>2
<1>2. PICK x \in Pppd : x.lcp = lcp[e] /\ Changes(e, x)
  BY <1>1
<1>3. Timed(x.lcp) /\ Honest(lcp[e], x.lcp, options[e], {})
  BY <1>2, PairFacts
<1> QED BY <1>2, <1>3, ChangesPair

LEMMA ClosesPair ==
  ASSUME Wrap > 1, EndsOK, ChanOK, ChanOK', PairInv, FreshIds, NEW e \in Ends,
         Signal(e) \/ EchoFails(e) \/ AuthFails(e) \/ NetFinished(e)
  PROVE  PairInv'
<1>1. CASE \E x \in Pppd : x.lcp = lcp[e] /\ Changes(e, LcpClose(x, options[e]))
  BY <1>1, ClosePair
<1>2. CASE UNCHANGED <<ends, chan>>
  BY <1>2 DEF PairInv, ends
<1>3. CASE NetFinished(e)
  <2> DEFINE x == [State(e) EXCEPT !.np = "closed"]
  <2>1. x \in Pppd /\ x.lcp = lcp[e]
    BY EndFacts DEF Pppd
  <2> QED BY <1>1, <1>3, <2>1 DEF NetFinished
<1>4. CASE Signal(e) \/ EchoFails(e) \/ AuthFails(e)
  <2>1. Changes(e, LcpClose(State(e), options[e])) \/ UNCHANGED <<ends, chan>>
    BY <1>4 DEF Signal, EchoFails, AuthFails
  <2> QED BY <1>1, <1>2, <2>1, EndFacts
<1> QED BY <1>3, <1>4

LEMMA PairInit ==
  ASSUME Init
  PROVE  PairInv
<1>1. New \in Fsm /\ Prompt(New) /\ ~Asking(New) /\ New.ho = None
  <2>1. <<>> \in Seq(Packets) /\ 0 \in 0..Wrap - 1 /\ 0 \in 0..MaxConf + MaxTerm
    BY FsmAssumption
  <2> QED BY <2>1 DEF New, Prompt, Fsm, States, Asking, Negotiating
<1>2. \A e \in Ends : lcp[e] = New
  BY DEF Init
<1> HIDE DEF New
<1> QED BY <1>1, <1>2 DEF PairInv, View

LEMMA PairNext ==
  ASSUME Wrap > 1, LinkInv, LinkInv', PairInv, [Next]_vars, [FreshIds]_vars
  PROVE  PairInv'
<1>1. EndsOK /\ ChanOK /\ ChanOK'
  BY DEF LinkInv
<1>2. CASE UNCHANGED vars
  BY <1>1, <1>2, LinePair
<1>3. CASE Next /\ FreshIds
  <2>1. CASE HangUp \/ Redial \/ \E e \in Ends : Lose(e)
    BY <1>1, <2>1, LinePair
  <2>2. ASSUME NEW e \in Ends, Start(e) \/ Loop(e) \/ Eof(e) \/ Deliver(e)
        PROVE  PairInv'
    BY <1>1, <1>3, <2>2, StartPair, LeavePair, EofPair, DeliverPair
  <2>3. ASSUME NEW e \in Ends, Timer(e) \/ EarlyTimer(e) \/ AuthSucceeds(e) \/ NetUp(e)
        PROVE  PairInv'
    BY <1>1, <1>3, <2>3, TimedOutPair, AbovePair DEF Timer, EarlyTimer
  <2>4. ASSUME NEW e \in Ends, \/ Signal(e) \/ EchoFails(e) \/ AuthUnanswered(e) \/ AuthRefused(e)
                               \/ NetUnanswered(e) \/ NetClosed(e)
        PROVE  PairInv'
    <3>1. Signal(e) \/ EchoFails(e) \/ AuthFails(e) \/ NetFinished(e)
      BY <2>4 DEF AuthUnanswered, AuthRefused, NetUnanswered, NetClosed
    <3> QED BY <1>1, <1>3, <3>1, ClosesPair
  <2>5. ASSUME NEW e \in Ends, StartCutOff(e)
        PROVE  PairInv'
    BY <1>1, <2>5, StartCutOffPair
  <2> QED BY <1>3, <2>1, <2>2, <2>3, <2>4, <2>5 DEF Next
<1> QED BY <1>2, <1>3

(* Two ends that are both open agree on how each is to authenticate itself,  *)
(* whatever is lost, late or said again on the line, however often either    *)
(* ends the link and begins again, and with any options: as long as an       *)
(* identifier is not taken anew while a packet still carries it.             *)
THEOREM OptionsAgree ==
  ASSUME Wrap > 1
  PROVE  Spec /\ [][FreshIds]_vars => []SameOptions
<1>1. Init => PairInv
  BY PairInit
<1>2. LinkInv /\ LinkInv' /\ PairInv /\ [Next]_vars /\ [FreshIds]_vars => PairInv'
  BY PairNext
<1>3. PairInv => SameOptions
  <2> SUFFICES ASSUME PairInv, NEW e \in Ends,
                      lcp[e].state = "opened", lcp[Peer(e)].state = "opened"
               PROVE  AskFor(lcp[e].go) = lcp[Peer(e)].ho
    BY DEF SameOptions
  <2>1. Asking(lcp[e]) /\ Agreed(lcp[e], chan[e])
    BY DEF Asking, Agreed, Confirmed
  <2> QED BY <2>1 DEF PairInv, View
<1> QED BY <1>1, <1>2, <1>3, LinkInvariant, PTL DEF Spec
=============================================================================
