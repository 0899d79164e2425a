------------------------------- MODULE PppLink -------------------------------
(***************************************************************************)
(* Two pppds on one line: the main loop (main.c), the phases of the link   *)
(* (auth.c) and LCP (PppFsm) at both ends.  The line keeps the order of    *)
(* packets and may lose some.  The protocols that authenticate, and IPCP,  *)
(* are reduced to what they report.                                        *)
(***************************************************************************)
EXTENDS PppFsm

CONSTANTS
  Ends,      \* the two pppds
  Configs,   \* the options that each of them may have
  MaxFail,   \* maxfail; 0 is no limit
  MaxCalls,  \* bound: signals, hang-ups and terminations from above
  MaxFaults  \* bound: lost packets, late packets and failed authentications

Peer(e) == CHOOSE d \in Ends : d # e
Bits    == {"peer", "withpeer"}

ASSUME LinkAssumption ==
  /\ \E d, e \in Ends : d # e /\ Ends = {d, e}
  /\ Configs \subseteq [Ends -> Options]
  /\ MaxFail \in Nat
  /\ MaxCalls \in Nat /\ MaxFaults \in Nat

VARIABLES
  options,    \* of each end
  lcp,        \* lcp_fsm
  phase,
  pending,    \* auth_pending
  np,         \* IPCP: closed, opened, or up
  unsuccess,
  quit,       \* asked_to_quit
  line,       \* is there a carrier?
  chan,       \* the packets on their way to each end
  proven,     \* history: did the peer authenticate itself since LCP came up?
  calls, faults

ends == <<options, lcp, phase, pending, np, unsuccess, proven>>
vars == <<ends, quit, line, chan, calls, faults>>

(* "start" is the top of main's loop, "exit" the end of the process.         *)
Phases == {"start", "establish", "authenticate", "network", "running",
           "terminate", "dead", "exit"}

Init ==
  /\ options \in Configs
  /\ lcp = [e \in Ends |-> New]
  /\ phase = [e \in Ends |-> "start"]
  /\ pending = [e \in Ends |-> {}]
  /\ np = [e \in Ends |-> "closed"]
  /\ unsuccess = [e \in Ends |-> 0]
  /\ quit = [e \in Ends |-> FALSE]
  /\ line = TRUE
  /\ chan = [e \in Ends |-> <<>>]
  /\ proven = [e \in Ends |-> FALSE]
  /\ calls = 0 /\ faults = 0

Called == calls < MaxCalls /\ calls' = calls + 1
Fault  == faults < MaxFaults /\ faults' = faults + 1
Fine   == UNCHANGED faults

-----------------------------------------------------------------------------
(* What a pppd knows besides its options: x is a record of its variables.    *)
State(e) == [lcp |-> lcp[e], phase |-> phase[e], pending |-> pending[e],
             np |-> np[e], unsuccess |-> unsuccess[e], proven |-> proven[e]]

(* link_down: upper_layers_down takes IPCP down. *)
LinkDown(x) ==
  [x EXCEPT !.np = "closed", !.phase = "establish"]

(* link_terminated, where the line did not hang up, and lcp_lowerdown in it. *)
LinkTerminated(x) ==
  IF x.phase = "dead" THEN x
  ELSE [x EXCEPT !.lcp = LowerDown(@), !.phase = "dead"]

(* Mutant: what RFC 1548 has, without the exception for passive ends. *)
LcpCloseStrict(x, o) ==
  [x EXCEPT !.lcp = Close(@), !.phase = IF @ = "dead" THEN @ ELSE "terminate"]

(* lcp_close *)
LcpClose(x, o) ==
  LET f == Close(x.lcp)
      y == [x EXCEPT !.lcp = f, !.phase = IF @ = "dead" THEN @ ELSE "terminate"]
  IN IF x.lcp.state = "stopped" /\ (o.passive \/ o.silent) THEN LinkTerminated(y)
     ELSE y

(* continue_networks opens IPCP. *)
NetworkPhase(x) == [x EXCEPT !.phase = "network", !.np = "open"]

(* Mutant: a peer that will not authenticate itself is let in. *)
LinkEstablishedAnyway(x, o) ==
  LET bits == (IF x.lcp.go # {} THEN {"peer"} ELSE {})
                \cup (IF x.lcp.ho # None THEN {"withpeer"} ELSE {})
      y == [x EXCEPT !.phase = "authenticate", !.pending = bits, !.proven = FALSE]
  IN IF bits = {} THEN NetworkPhase(y) ELSE y

(* link_established: one who wants authentication and is refused closes,     *)
(* unless it has an exemption for such peers.                                *)
LinkEstablished(x, o) ==
  LET bits == (IF x.lcp.go # {} THEN {"peer"} ELSE {})
                \cup (IF x.lcp.ho # None THEN {"withpeer"} ELSE {})
      y == [x EXCEPT !.phase = "authenticate", !.pending = bits, !.proven = FALSE]
  IN IF o.wants # {} /\ x.lcp.go = {} /\ ~o.exempt
       THEN LcpClose([x EXCEPT !.proven = FALSE], o)
     ELSE IF bits = {} THEN NetworkPhase(y) ELSE y

Was(x, c) == c \in x.lcp.calls

(* The callbacks an operation of the automaton made: lcp_up, lcp_down and    *)
(* lcp_finished, in this order because up may close the link at once.        *)
Settle(x, o) ==
  LET u == IF Was(x, "up") THEN LinkEstablished(x, o) ELSE x
      d == IF Was(u, "down") THEN LinkDown(u) ELSE u
  IN IF Was(d, "finished") THEN LinkTerminated(d) ELSE d

(* End e becomes one of xs, which leaves inbox of the packets sent to it.    *)
Become(e, xs, inbox) ==
  \E x \in xs :
    /\ lcp' = [lcp EXCEPT ![e] = [x.lcp EXCEPT !.out = <<>>, !.calls = {}]]
    /\ phase' = [phase EXCEPT ![e] = x.phase]
    /\ pending' = [pending EXCEPT ![e] = x.pending]
    /\ np' = [np EXCEPT ![e] = x.np]
    /\ unsuccess' = [unsuccess EXCEPT ![e] = x.unsuccess]
    /\ proven' = [proven EXCEPT ![e] = x.proven]
    /\ options' = options
    /\ LET c == [chan EXCEPT ![e] = inbox]
       IN chan' = IF line THEN [c EXCEPT ![Peer(e)] = @ \o x.lcp.out] ELSE c

Changes(e, x) == Become(e, {Settle(x, options[e])}, chan[e])

Running(e) == phase[e] \notin {"start", "dead", "exit"}
Quiet == \A e \in Ends : chan[e] = <<>>

-----------------------------------------------------------------------------
(* The main loop *)

(* Mutant: attempts are not counted. *)
StartUncounted(e) ==
  /\ phase[e] = "start"
  /\ LET f == Open(lcp[e], options[e])
         x == State(e)
     IN IF line
          THEN Changes(e, [x EXCEPT !.lcp = LowerUp(f, options[e]), !.phase = "establish"])
          ELSE Changes(e, [x EXCEPT !.lcp = f, !.phase = "dead"])
  /\ UNCHANGED <<quit, line, calls, faults>>

(* lcp_open, then start_link, which fails without a carrier. *)
Start(e) ==
  /\ phase[e] = "start"
  /\ LET f == Open(lcp[e], options[e])
         x == [State(e) EXCEPT !.unsuccess = @ + 1]
     IN IF line
          THEN Changes(e, [x EXCEPT !.lcp = LowerUp(f, options[e]), !.phase = "establish"])
          ELSE Changes(e, [x EXCEPT !.lcp = f, !.phase = "dead"])
  /\ UNCHANGED <<quit, line, calls, faults>>

(* The line hangs up before lcp_lowerup configures it: it returns at once,   *)
(* and LCP is left STARTING until the end of file is read.                   *)
StartCutOff(e) ==
  /\ phase[e] = "start" /\ line /\ Called
  /\ lcp' = [lcp EXCEPT ![e] = [Open(@, options[e]) EXCEPT !.calls = {}]]
  /\ phase' = [phase EXCEPT ![e] = "establish"]
  /\ unsuccess' = [unsuccess EXCEPT ![e] = @ + 1]
  /\ line' = FALSE /\ chan' = [d \in Ends |-> <<>>]
  /\ UNCHANGED <<options, pending, np, proven, quit, faults>>

(* The loop ends, or begins again: the process that exits takes the line     *)
(* with it.                                                                  *)
Leave(e, again) ==
  /\ lcp' = [lcp EXCEPT ![e] = Close(@)]
  /\ phase' = [phase EXCEPT ![e] = IF again THEN "start" ELSE "exit"]
  /\ line' = (line /\ again)
  /\ chan' = IF again THEN chan ELSE [d \in Ends |-> <<>>]
  /\ UNCHANGED <<options, pending, np, unsuccess, proven, quit, calls, faults>>

MayTryAgain(e) == MaxFail = 0 \/ unsuccess[e] < MaxFail

(* Mutant: a signal ends the link only. *)
LoopUnlessFailed(e) ==
  phase[e] = "dead" /\ Leave(e, options[e].persist /\ MayTryAgain(e))

Loop(e) ==
  phase[e] = "dead" /\ Leave(e, options[e].persist /\ ~quit[e] /\ MayTryAgain(e))

(* SIGTERM or SIGHUP; only the first ends the process. *)
Signal(e) ==
  /\ Called
  /\ \E term \in BOOLEAN :
       /\ quit' = [quit EXCEPT ![e] = @ \/ term]
       /\ \/ Running(e) /\ Changes(e, LcpClose(State(e), options[e]))
          \/ phase[e] = "dead" /\ term /\ UNCHANGED <<ends, chan>>
  /\ UNCHANGED <<line, faults>>

HangUp ==
  /\ line /\ Called
  /\ line' = FALSE /\ chan' = [e \in Ends |-> <<>>]
  /\ UNCHANGED <<ends, quit, faults>>

(* get_input reads an end of file. *)
Eof(e) ==
  /\ ~line /\ Running(e)
  /\ LET x == Settle([State(e) EXCEPT !.lcp = LowerDown(@)], options[e])
     IN Become(e, {[x EXCEPT !.phase = "dead"]}, chan[e])
  /\ UNCHANGED <<quit, line, calls, faults>>

Redial ==
  /\ ~line /\ \A e \in Ends : phase[e] = "start"
  /\ line' = TRUE
  /\ UNCHANGED <<ends, quit, chan, calls, faults>>

-----------------------------------------------------------------------------
(* LCP *)
Deliver(e) ==
  /\ chan[e] # <<>>
  /\ LET x == IF Running(e) THEN [State(e) EXCEPT !.lcp = Input(@, options[e], Head(chan[e]))]
              ELSE State(e)
     IN Become(e, {Settle(x, options[e])}, Tail(chan[e]))
  /\ UNCHANGED <<quit, line, calls, faults>>

Lose(e) ==
  /\ chan[e] # <<>> /\ Fault
  /\ chan' = [chan EXCEPT ![e] = Tail(@)]
  /\ UNCHANGED <<ends, quit, line, calls>>

(* fsm_timeout.  Three seconds are longer than packets take. *)
TimedOut(e) ==
  /\ lcp[e].timers > 0
  /\ Changes(e, [State(e) EXCEPT !.lcp = Expire(@, options[e])])
  /\ UNCHANGED <<quit, line, calls>>

Timer(e)      == Quiet /\ Fine /\ TimedOut(e)
EarlyTimer(e) == ~Quiet /\ Fault /\ TimedOut(e)

(* Nothing has come from the peer for long, and nothing will. *)
Silent(e) == Quiet /\ lcp[Peer(e)].state # "opened" /\ lcp[Peer(e)].timers = 0

(* LcpLinkFailure: only an open peer answers echo requests. *)
EchoFails(e) ==
  /\ options[e].echo /\ lcp[e].state = "opened" /\ Silent(e)
  /\ Changes(e, LcpClose(State(e), options[e]))
  /\ UNCHANGED <<quit, line, calls, faults>>

-----------------------------------------------------------------------------
(* Authentication and IPCP *)

(* auth_peer_success, auth_withpeer_success; the other end takes part.       *)
AuthSucceeds(e) ==
  /\ phase[e] = "authenticate" /\ lcp[Peer(e)].state = "opened"
  /\ \E b \in pending[e] :
       LET x == [State(e) EXCEPT !.pending = @ \ {b}, !.proven = @ \/ b = "peer"]
       IN Changes(e, IF x.pending = {} THEN NetworkPhase(x) ELSE x)
  /\ UNCHANGED <<quit, line, calls, faults>>

(* auth_peer_fail, auth_withpeer_fail. *)
AuthFails(e) ==
  /\ phase[e] = "authenticate"
  /\ Changes(e, LcpClose(State(e), options[e]))
  /\ UNCHANGED <<quit, line, calls>>

(* No answer for long, or one that refuses. *)
AuthUnanswered(e) == Silent(e) /\ Fine /\ AuthFails(e)
AuthRefused(e)    == Fault /\ AuthFails(e)

(* np_up *)
NetUp(e) ==
  /\ np[e] = "open" /\ np[Peer(e)] # "closed"
  /\ Changes(e, [State(e) EXCEPT !.np = "up", !.phase = "running", !.unsuccess = 0])
  /\ UNCHANGED <<quit, line, calls, faults>>

(* np_finished *)
NetFinished(e) ==
  /\ Changes(e, LcpClose([State(e) EXCEPT !.np = "closed"], options[e]))
  /\ UNCHANGED <<quit, line, faults>>

(* IPCP got no answer for long, or was closed. *)
NetUnanswered(e) == np[e] = "open" /\ Silent(e) /\ UNCHANGED calls /\ NetFinished(e)
NetClosed(e)     == np[e] # "closed" /\ Called /\ NetFinished(e)

Next ==
  \/ HangUp \/ Redial
  \/ \E e \in Ends :
       \/ Start(e) \/ StartCutOff(e) \/ Loop(e) \/ Signal(e) \/ Eof(e)
       \/ Deliver(e) \/ Lose(e) \/ Timer(e) \/ EarlyTimer(e) \/ EchoFails(e)
       \/ AuthSucceeds(e) \/ AuthUnanswered(e) \/ AuthRefused(e)
       \/ NetUp(e) \/ NetUnanswered(e) \/ NetClosed(e)

Spec == Init /\ [][Next]_vars

Work(e) ==
  \/ Start(e) \/ Loop(e) \/ Eof(e) \/ Deliver(e) \/ EchoFails(e)
  \/ AuthSucceeds(e) \/ AuthUnanswered(e) \/ NetUp(e) \/ NetUnanswered(e)

(* Each process runs.  A timer is due after three seconds, so neither end's  *)
(* can be put off for ever by the packets of the other's.                    *)
FairSpec ==
  /\ Spec
  /\ \A e \in Ends : WF_vars(Work(e)) /\ SF_vars(Timer(e))

-----------------------------------------------------------------------------
TypeOK ==
  /\ options \in Configs
  /\ lcp \in [Ends -> Fsm]
  /\ phase \in [Ends -> Phases] /\ pending \in [Ends -> SUBSET Bits]
  /\ np \in [Ends -> {"closed", "open", "up"}] /\ unsuccess \in [Ends -> Nat]
  /\ quit \in [Ends -> BOOLEAN] /\ line \in BOOLEAN /\ proven \in [Ends -> BOOLEAN]
  /\ chan \in [Ends -> Seq(Packets)]
  /\ calls \in 0..MaxCalls /\ faults \in 0..MaxFaults

(* fsm_timeout is on the queue exactly while the automaton waits for an      *)
(* answer, and never twice: whatever packet, signal or hang-up comes when.   *)
TimerDiscipline ==
  \A e \in Ends :
    lcp[e].timers = IF lcp[e].state \in Negotiating \cup Terminating THEN 1 ELSE 0

(* Two ends that both believe the link is open agree on how each is to       *)
(* authenticate itself.                                                      *)
SameOptions ==
  \A e \in Ends :
    lcp[e].state = "opened" /\ lcp[Peer(e)].state = "opened" =>
      AskFor(lcp[e].go) = lcp[Peer(e)].ho

(* No end lets packets through while LCP is not open, or before a peer that  *)
(* agreed to authenticate itself has done so on this very link; and one that *)
(* demands it lets a peer that refused through only by an exemption          *)
(* (link_established).                                                       *)
NetworkGuarded ==
  \A e \in Ends : np[e] # "closed" =>
    /\ lcp[e].state = "opened" /\ phase[e] \in {"network", "running"}
    /\ lcp[e].go # {} => proven[e]
    /\ lcp[e].go = {} => options[e].wants = {} \/ options[e].exempt

(* A pppd whose LCP is at rest does not linger: it is passive or silent and  *)
(* waits for its peer, or its line has hung up under lcp_lowerup and the end *)
(* of file is still to be read.                                              *)
NeverStuck ==
  \A e \in Ends :
    Running(e) /\ lcp[e].state \in {"initial", "starting", "closed", "stopped"} =>
      \/ lcp[e].state = "stopped" /\ (options[e].passive \/ options[e].silent)
      \/ lcp[e].state \in {"initial", "starting"} /\ ~line

(* A pppd told to terminate ends, whatever its peer and the line do.  (What   *)
(* it was told, and its end, are for ever, so []<> is ~> here.)              *)
Terminates == \A e \in Ends : []<>(quit[e] => phase[e] = "exit")

(* In the end both run, or both have ended, or wait passively: no end runs   *)
(* for ever with nobody at the other.                                        *)
Waiting(e) == Running(e) /\ lcp[e].state = "stopped"
Settles ==
  \/ <>[](\A e \in Ends : phase[e] = "running")
  \/ <>[](\A e \in Ends : phase[e] = "exit" \/ Waiting(e))
=============================================================================
