----------------------------- MODULE DetectAgent -----------------------------
(***************************************************************************)
(* The detection agent of one vpn node (detectagent.py) and the cache      *)
(* nodes it reports to.  Round after round the agent asks which nodes and  *)
(* games there are, probes the addresses of every game's region, and posts *)
(* each region's list to every node.  A node does here what ReportStore    *)
(* says it does.  Games have one region, so a slot is a game here.         *)
(***************************************************************************)
EXTENDS Naturals, Sequences

CONSTANTS
  Nodes,      \* the cache nodes
  Slots,      \* the games
  AddrsOf,    \* the addresses of a game's servers
  Rtts,       \* what a probe may measure
  None,
  MaxFaults,  \* bound: failures of any kind and changes of the database
  Backlog     \* bound: reports a node still has queued when the agent wakes

Addresses == UNION {AddrsOf[s] : s \in Slots}
Lists     == SUBSET (Addresses \X Rtts)
MaxAge    == 3

(* How many rounds ago the list was measured is history. *)
Reports == [slot : Slots, data : Lists, age : 0..MaxAge]

ASSUME AgentAssumption ==
  /\ AddrsOf \in [Slots -> SUBSET Addresses]
  /\ MaxFaults \in Nat /\ Backlog \in Nat
  /\ None \notin Slots \cup Reports

VARIABLES
  (* the agent *)
  apc,      \* what it does next
  cclst,    \* enable_cc_iplst
  gamelst,  \* GAMELST
  todo,     \* the games of the round still to come
  cur,      \* the game being reported, or None
  result,   \* resultdict
  targets,  \* the nodes it still has to be posted to
  cache,    \* ip_detect_data
  (* the database *)
  enabled,  \* the nodes enabled in cc_node_tbl
  (* the cache nodes *)
  up, pending, served,
  faults

agent == <<apc, cclst, gamelst, todo, cur, result, targets, cache>>
nodes == <<up, pending, served>>
vars  == <<agent, enabled, nodes, faults>>

Idle == /\ todo' = {} /\ cur' = None /\ result' = {} /\ targets' = {}

Init ==
  /\ apc = "start" /\ cclst = {} /\ gamelst = {}
  /\ todo = {} /\ cur = None /\ result = {} /\ targets = {} /\ cache = {}
  /\ enabled \in SUBSET Nodes
  /\ up = [n \in Nodes |-> TRUE]
  /\ pending = [n \in Nodes |-> <<>>]
  /\ served = [n \in Nodes |-> [s \in Slots |-> None]]
  /\ faults = 0

Fault == faults < MaxFaults /\ faults' = faults + 1
Fine  == UNCHANGED faults

-----------------------------------------------------------------------------
(* The agent *)

(* get_vpnid: without an id the agent exits. *)
Start ==
  /\ apc = "start"
  /\ \/ Fine /\ apc' = "cclst"
     \/ Fault /\ apc' = "dead"
  /\ UNCHANGED <<cclst, gamelst, todo, cur, result, targets, cache, enabled, nodes>>

(* Mutant: the list is asked for only while there is none. *)
GetCCLstOnce ==
  /\ apc = "cclst"
  /\ apc' = "games"
  /\ \/ Fine /\ cclst' = IF cclst = {} THEN enabled ELSE cclst
     \/ Fault /\ (UNCHANGED cclst \/ cclst' \in SUBSET enabled)
  /\ UNCHANGED <<gamelst, todo, cur, result, targets, cache, enabled, nodes>>

(* A request that fails leaves the list of the last round in place; one      *)
(* whose answer cannot be read to its end leaves the nodes read so far.      *)
GetCCLst ==
  /\ apc = "cclst"
  /\ apc' = "games"
  /\ \/ Fine /\ cclst' = enabled
     \/ Fault /\ (UNCHANGED cclst \/ cclst' \in SUBSET enabled)
  /\ UNCHANGED <<gamelst, todo, cur, result, targets, cache, enabled, nodes>>

GetGameLst ==
  /\ apc = "games"
  /\ apc' = "begin"
  /\ \/ Fine /\ gamelst' = Slots
     \/ Fault /\ UNCHANGED gamelst
  /\ UNCHANGED <<cclst, todo, cur, result, targets, cache, enabled, nodes>>

Older(r) == IF r = None THEN None ELSE [r EXCEPT !.age = IF @ = MaxAge THEN @ ELSE @ + 1]

(* detectgamelst forgets what was measured; the reports there are grow older. *)
BeginRound ==
  /\ apc = "begin"
  /\ apc' = "round" /\ todo' = gamelst /\ cache' = {}
  /\ pending' = [n \in Nodes |-> [i \in DOMAIN pending[n] |-> Older(pending[n][i])]]
  /\ served' = [n \in Nodes |-> [s \in Slots |-> Older(served[n][s])]]
  /\ UNCHANGED <<cclst, gamelst, cur, result, targets, enabled, up, faults>>

Measured(d) == {e[1] : e \in d}

(* getdetectvalue: one process per address, started with the cache as it is  *)
(* now.  An address measured before is not probed again; a process that      *)
(* raises leaves its address out.                                            *)
Probed(s, as) ==
  {d \in SUBSET ((AddrsOf[s] \cap as) \X Rtts) :
     /\ \A a \in AddrsOf[s] \cap as : \E r \in Rtts : <<a, r>> \in d
     /\ \A e, f \in d : e[1] = f[1] => e = f
     /\ \A e \in d, c \in cache : e[1] = c[1] => e = c}

(* detectregion: without addresses or results nothing is reported. *)
DetectRegion ==
  /\ apc = "round"
  /\ \E s \in todo :
       /\ todo' = todo \ {s}
       /\ \/ /\ Fine
             /\ result' \in Probed(s, Addresses)
          \/ /\ Fault
             /\ \E lost \in SUBSET AddrsOf[s] : result' \in Probed(s, Addresses \ lost)
       /\ IF result' = {} THEN UNCHANGED <<apc, cur, targets>>
          ELSE apc' = "report" /\ cur' = s /\ targets' = cclst
  /\ UNCHANGED <<cclst, gamelst, cache, enabled, nodes>>

(* regionreport: a post that fails is logged and forgotten. *)
Post ==
  /\ apc = "report"
  /\ \E n \in targets :
       /\ targets' = targets \ {n}
       /\ \/ /\ up[n] /\ Fine
             /\ pending' = [pending EXCEPT ![n] =
                  Append(@, [slot |-> cur, data |-> result, age |-> 0])]
          \/ /\ IF up[n] THEN Fault ELSE Fine
             /\ UNCHANGED pending
  /\ UNCHANGED <<apc, cclst, gamelst, todo, cur, result, cache, enabled, up, served>>

(* No request has a timeout: one may never be answered. *)
Hangs ==
  /\ \/ apc \in {"start", "cclst", "games"}
     \/ apc = "round" /\ todo # {}
     \/ apc = "report" /\ targets # {}
  /\ Fault
  /\ apc' = "hung"
  /\ UNCHANGED <<cclst, gamelst, todo, cur, result, targets, cache, enabled, nodes>>

(* Mutant: what could not be posted everywhere is not remembered. *)
ReportedIfAllUp ==
  /\ apc = "report" /\ targets = {}
  /\ apc' = "round" /\ cur' = None /\ result' = {}
  /\ cache' = IF \A n \in cclst : up[n] THEN cache \cup result ELSE cache
  /\ UNCHANGED <<cclst, gamelst, todo, targets, enabled, nodes, faults>>

(* regionreport returns True whatever happened, and the results are kept. *)
Reported ==
  /\ apc = "report" /\ targets = {}
  /\ apc' = "round" /\ cur' = None /\ result' = {}
  /\ cache' = cache \cup result
  /\ UNCHANGED <<cclst, gamelst, todo, targets, enabled, nodes, faults>>

Sleep ==
  /\ apc = "round" /\ todo = {}
  /\ apc' = "sleep"
  /\ UNCHANGED <<cclst, gamelst, todo, cur, result, targets, cache, enabled, nodes, faults>>

(* Eight hours later the nodes that run have all but emptied their queues.  *)
Wake ==
  /\ apc = "sleep"
  /\ \A n \in Nodes : Len(pending[n]) <= Backlog
  /\ apc' = "cclst"
  /\ UNCHANGED <<cclst, gamelst, todo, cur, result, targets, cache, enabled, nodes, faults>>

AgentDies ==
  /\ apc # "dead" /\ Fault
  /\ apc' = "dead"
  /\ Idle /\ UNCHANGED <<cclst, gamelst, cache, enabled, nodes>>

(* The operator may start it again; it comes back knowing nothing. *)
AgentRestarts ==
  /\ apc \in {"dead", "hung"}
  /\ apc' = "start" /\ cclst' = {} /\ gamelst' = {} /\ cache' = {}
  /\ Idle /\ UNCHANGED <<enabled, nodes, faults>>

Agent ==
  \/ Start \/ GetCCLst \/ GetGameLst \/ BeginRound \/ DetectRegion \/ Post
  \/ Reported \/ Sleep \/ Wake

-----------------------------------------------------------------------------
(* The nodes, by the steps of ReportStore, and the database *)
At(n) == up[n] /\ pending[n] # <<>>

(* Mutant: the newest report first. *)
PublishNewest(n) ==
  /\ At(n)
  /\ LET r == pending[n][Len(pending[n])]
     IN served' = [served EXCEPT ![n][r.slot] = r]
  /\ pending' = [pending EXCEPT ![n] = SubSeq(@, 1, Len(@) - 1)]
  /\ UNCHANGED <<agent, enabled, up, faults>>

Publish(n) ==
  /\ At(n)
  /\ LET r == Head(pending[n])
     IN served' = [served EXCEPT ![n][r.slot] = r]
  /\ pending' = [pending EXCEPT ![n] = Tail(@)]
  /\ UNCHANGED <<agent, enabled, up, faults>>

Drop(n) ==
  /\ At(n) /\ Fault
  /\ pending' = [pending EXCEPT ![n] = Tail(@)]
  /\ UNCHANGED <<agent, enabled, up, served>>

Crash(n) ==
  /\ up[n] /\ Fault
  /\ up' = [up EXCEPT ![n] = FALSE]
  /\ pending' = [pending EXCEPT ![n] = <<>>]
  /\ UNCHANGED <<agent, enabled, served>>

Restart(n) ==
  /\ ~up[n]
  /\ up' = [up EXCEPT ![n] = TRUE]
  /\ UNCHANGED <<agent, enabled, pending, served, faults>>

Flush(n) ==
  /\ Fault
  /\ served' = [served EXCEPT ![n] = [s \in Slots |-> None]]
  /\ UNCHANGED <<agent, enabled, up, pending>>

Administrator ==
  /\ Fault
  /\ enabled' \in (SUBSET Nodes) \ {enabled}
  /\ UNCHANGED <<agent, nodes>>

Next ==
  \/ Agent \/ Hangs \/ AgentDies \/ AgentRestarts \/ Administrator
  \/ \E n \in Nodes : Publish(n) \/ Drop(n) \/ Crash(n) \/ Restart(n) \/ Flush(n)

Spec == Init /\ [][Next]_vars

(* The agent and the nodes' loops run on, and a dead node is started again.  *)
FairSpec ==
  /\ Spec
  /\ WF_vars(Agent)
  /\ \A n \in Nodes : WF_vars(Publish(n)) /\ WF_vars(Restart(n))

-----------------------------------------------------------------------------
TypeOK ==
  /\ apc \in {"start", "cclst", "games", "begin", "round", "report", "sleep",
              "hung", "dead"}
  /\ cclst \in SUBSET Nodes /\ gamelst \in SUBSET Slots
  /\ todo \in SUBSET Slots /\ cur \in Slots \cup {None}
  /\ result \in Lists /\ targets \in SUBSET Nodes /\ cache \in Lists
  /\ enabled \in SUBSET Nodes
  /\ up \in [Nodes -> BOOLEAN]
  /\ pending \in [Nodes -> Seq(Reports)]
  /\ served \in [Nodes -> [Slots -> Reports \cup {None}]]
  /\ faults \in Nat

(* All reports there are, queued or served, on any node. *)
AtNodes ==
  ((UNION {{pending[n][i] : i \in DOMAIN pending[n]} : n \in Nodes})
    \cup {served[n][s] : n \in Nodes, s \in Slots}) \ {None}

(* Whatever posts failed and whichever nodes lag behind: two lists measured  *)
(* in the same round, on whatever nodes and for whatever games, never        *)
(* disagree about an address, and there is one per game and round.           *)
RoundsConsistent ==
  \A r, t \in AtNodes :
    r.age = t.age /\ r.age < MaxAge =>
      /\ \A e \in r.data, f \in t.data : e[1] = f[1] => e = f
      /\ r.slot = t.slot => r = t

(* What a node serves for a game is never replaced by an older list. *)
ServedNeverOlder ==
  [][\A n \in Nodes, s \in Slots :
       served[n][s] # None /\ served'[n][s] \notin {None, served[n][s]} =>
         \/ served'[n][s].age < served[n][s].age
         \/ served'[n][s] = Older(served[n][s])
         \/ served[n][s].age = MaxAge]_vars

(* A post that failed is never repeated, a list may be lost with a node, and *)
(* a node may miss a round; but once nothing fails any more, every enabled   *)
(* node serves for every game a list of this round or of one of the last     *)
(* two, unless the agent is dead or waits for an answer for ever.            *)
KeepsUp ==
  \/ <>[](apc \in {"dead", "hung"})
  \/ \A n \in Nodes, s \in Slots :
       <>[](n \in enabled /\ AddrsOf[s] # {} => served[n][s] # None /\ served[n][s].age <= 2)
=============================================================================
