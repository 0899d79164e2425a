-------------------------- MODULE DetectAgentProofs --------------------------
(***************************************************************************)
(* Proofs about DetectAgent, for any nodes, games, addresses and number of *)
(* faults: lists of one round agree on every node, and no node goes back   *)
(* to an older list.                                                       *)
(***************************************************************************)
EXTENDS DetectAgent, SequenceTheorems, TLAPS

-----------------------------------------------------------------------------
(* Reports and queues *)

(* A report a round later is the same report. *)
LEMMA OlderReport ==
  ASSUME NEW r \in Reports
  PROVE  /\ Older(r) \in Reports
         /\ Older(r).slot = r.slot /\ Older(r).data = r.data
         /\ Older(r).age = IF r.age = MaxAge THEN MaxAge ELSE r.age + 1
<1>1. r.age \in 0..3 /\ r # None
  BY AgentAssumption DEF Reports, MaxAge
<1>2. Older(r) = [slot |-> r.slot, data |-> r.data,
                  age |-> IF r.age = MaxAge THEN MaxAge ELSE r.age + 1]
  BY <1>1 DEF Older, Reports
<1> QED BY <1>1, <1>2 DEF Reports, MaxAge

LEMMA OlderNone == Older(None) = None
  BY DEF Older

(* A queue a round later. *)
Aged(q) == [i \in DOMAIN q |-> Older(q[i])]

LEMMA AgedQueue ==
  ASSUME NEW q \in Seq(Reports)
  PROVE  /\ Aged(q) \in Seq(Reports) /\ Len(Aged(q)) = Len(q)
         /\ \A i \in 1..Len(q) : Aged(q)[i] = Older(q[i])
<1>1. Len(q) \in Nat /\ DOMAIN q = 1..Len(q) /\ \A i \in 1..Len(q) : q[i] \in Reports
  BY LenProperties, ElementOfSeq
<1>2. \A i \in 1..Len(q) : Older(q[i]) \in Reports
  BY <1>1, OlderReport
<1>3. Aged(q) = [i \in 1..Len(q) |-> Older(q[i])]
  BY <1>1 DEF Aged
<1>4. Aged(q) \in [1..Len(q) -> Reports]
  BY <1>2, <1>3
<1>5. Aged(q) \in Seq(Reports) /\ Len(Aged(q)) = Len(q)
  BY <1>1, <1>4
<1> QED BY <1>3, <1>5

-----------------------------------------------------------------------------
(* The inductive invariant *)

Functional(d) == \A e, f \in d : e[1] = f[1] => e = f

(* What the reports of a round in progress have in common with the cache.    *)
RoundInv ==
  /\ apc \notin {"report", "hung"} => result = {}
  /\ apc = "report" => cur \in Slots /\ cur \notin todo
  /\ apc \in {"round", "report"} =>
       /\ Functional(cache \cup result)
       /\ \A r \in AtNodes :
            r.age = 0 =>
              /\ r.slot \notin todo
              /\ IF apc = "report" /\ r.slot = cur THEN r.data = result
                 ELSE r.data \subseteq cache

(* Queues are in the order of the rounds, and behind what is served, which   *)
(* is served for the game it was posted for.                                 *)
QueueOrder(n) ==
  /\ \A i, j \in DOMAIN pending[n] :
       i < j => pending[n][i].age >= pending[n][j].age
  /\ \A i \in DOMAIN pending[n] :
       LET s == served[n][pending[n][i].slot]
       IN s # None => s.age >= pending[n][i].age
  /\ \A s \in Slots : served[n][s] # None => served[n][s].slot = s

AgentInv ==
  /\ TypeOK /\ RoundsConsistent /\ RoundInv
  /\ \A n \in Nodes : QueueOrder(n)

LEMMA Entries ==
  ASSUME TypeOK, NEW n \in Nodes
  PROVE  /\ pending[n] \in Seq(Reports) /\ DOMAIN pending[n] = 1..Len(pending[n])
         /\ \A i \in DOMAIN pending[n] : pending[n][i] \in Reports
         /\ \A s \in Slots : served[n][s] \in Reports \cup {None}
<1>1. pending[n] \in Seq(Reports)
  BY DEF TypeOK
<1>2. DOMAIN pending[n] = 1..Len(pending[n])
  BY <1>1, LenProperties
<1>3. \A i \in 1..Len(pending[n]) : pending[n][i] \in Reports
  BY <1>1, ElementOfSeq
<1>4. \A s \in Slots : served[n][s] \in Reports \cup {None}
  BY DEF TypeOK
<1> QED BY <1>1, <1>2, <1>3, <1>4

(* AtNodes, without its unions. *)
Holds(n, r) == \/ \E i \in DOMAIN pending[n] : r = pending[n][i]
               \/ \E s \in Slots : r = served[n][s]

LEMMA AtSomeNode ==
  ASSUME NEW r
  PROVE  r \in AtNodes <=> r # None /\ \E n \in Nodes : Holds(n, r)
  BY DEF AtNodes, Holds

LEMMA AtSomeNodeNext ==
  ASSUME NEW r
  PROVE  (r \in AtNodes)' <=> r # None /\ \E n \in Nodes : Holds(n, r)'
  BY DEF AtNodes, Holds

LEMMA AtNodesType ==
  ASSUME TypeOK, NEW r \in AtNodes
  PROVE  r \in Reports
  BY Entries, AtSomeNode DEF Holds

LEMMA InvInit == Init => AgentInv
<1> SUFFICES ASSUME Init PROVE AgentInv
  OBVIOUS
<1>1. <<>> \in Seq(Reports) /\ DOMAIN <<>> = {}
  BY EmptySeq
<1>2. TypeOK
  BY <1>1 DEF Init, TypeOK, Lists
<1>3. AtNodes = {}
  BY <1>1 DEF Init, AtNodes
<1>4. RoundsConsistent /\ RoundInv
  BY <1>3 DEF Init, RoundsConsistent, RoundInv
<1>5. \A n \in Nodes : QueueOrder(n)
  BY <1>1 DEF Init, QueueOrder
<1> QED BY <1>2, <1>4, <1>5 DEF AgentInv

-----------------------------------------------------------------------------
(* Types *)
LEMMA ProbedType ==
  ASSUME NEW s \in Slots, NEW as \in SUBSET Addresses, NEW d \in Probed(s, as)
  PROVE  /\ d \in Lists /\ Functional(d)
         /\ \A e \in d, c \in cache : e[1] = c[1] => e = c
  BY AgentAssumption DEF Probed, Lists, Functional

LEMMA NodeTypes ==
  ASSUME TypeOK, NEW n \in Nodes,
         Publish(n) \/ Drop(n) \/ Crash(n) \/ Restart(n) \/ Flush(n)
  PROVE  TypeOK'
<1>1. CASE Publish(n)
  <2>1. Head(pending[n]) \in Reports /\ Tail(pending[n]) \in Seq(Reports)
    BY <1>1, Entries, HeadTailProperties DEF Publish, At
  <2>2. Head(pending[n]).slot \in Slots
    BY <2>1 DEF Reports
  <2> QED BY <1>1, <2>1, <2>2 DEF Publish, TypeOK, agent
<1>2. CASE Drop(n)
  <2>1. Tail(pending[n]) \in Seq(Reports)
    BY <1>2, Entries, HeadTailProperties DEF Drop, At
  <2> QED BY <1>2, <2>1 DEF Drop, TypeOK, agent, Fault
<1>3. CASE Crash(n)
  BY <1>3, EmptySeq DEF Crash, TypeOK, agent, Fault
<1>4. CASE Restart(n)
  BY <1>4 DEF Restart, TypeOK, agent
<1>5. CASE Flush(n)
  BY <1>5 DEF Flush, TypeOK, agent, Fault
<1> QED BY <1>1, <1>2, <1>3, <1>4, <1>5

LEMMA RoundTypes ==
  ASSUME TypeOK, BeginRound
  PROVE  /\ TypeOK'
         /\ \A n \in Nodes : /\ pending'[n] = Aged(pending[n])
                              /\ \A s \in Slots : served'[n][s] = Older(served[n][s])
<1>1. /\ pending' = [n \in Nodes |-> Aged(pending[n])]
      /\ served' = [n \in Nodes |-> [s \in Slots |-> Older(served[n][s])]]
  BY DEF BeginRound, Aged
<1>2. \A n \in Nodes : Aged(pending[n]) \in Seq(Reports)
  BY Entries, AgedQueue
<1>3. \A n \in Nodes, s \in Slots : Older(served[n][s]) \in Reports \cup {None}
  BY Entries, OlderReport, OlderNone
<1>4. pending' \in [Nodes -> Seq(Reports)] /\ served' \in [Nodes -> [Slots -> Reports \cup {None}]]
  BY <1>1, <1>2, <1>3
<1>5. TypeOK'
  BY <1>4 DEF BeginRound, TypeOK, Lists
<1> QED BY <1>1, <1>5

LEMMA PostTypes ==
  ASSUME TypeOK, RoundInv, Post
  PROVE  TypeOK'
<1>1. [slot |-> cur, data |-> result, age |-> 0] \in Reports
  BY DEF Post, RoundInv, TypeOK, Reports, MaxAge
<1>2. \A n \in Nodes : Append(pending[n], [slot |-> cur, data |-> result, age |-> 0]) \in Seq(Reports)
  BY <1>1 DEF TypeOK
<1>3. pending' \in [Nodes -> Seq(Reports)]
  <2>1. PICK n \in targets :
          \/ pending' = [pending EXCEPT ![n] =
                 Append(@, [slot |-> cur, data |-> result, age |-> 0])]
          \/ pending' = pending
    BY DEF Post
  <2>2. pending \in [Nodes -> Seq(Reports)] /\ n \in Nodes
    BY DEF TypeOK
  <2> QED BY <1>2, <2>1, <2>2
<1> QED BY <1>3 DEF Post, TypeOK, Fault, Fine

LEMMA AgentTypesStep ==
  ASSUME TypeOK,
         \/ Start \/ GetCCLst \/ GetGameLst \/ DetectRegion \/ Reported \/ Sleep \/ Wake
         \/ Hangs \/ AgentDies \/ AgentRestarts \/ Administrator
  PROVE  TypeOK'
<1>1. CASE Start \/ GetCCLst \/ GetGameLst \/ Sleep \/ Wake \/ Hangs
  BY <1>1 DEF Start, GetCCLst, GetGameLst, Sleep, Wake, Hangs, TypeOK, nodes, Fault, Fine
<1>2. CASE AgentDies \/ AgentRestarts \/ Administrator
  BY <1>2 DEF AgentDies, AgentRestarts, Administrator, Idle, TypeOK, nodes, agent, Fault, Lists
<1>3. CASE Reported
  BY <1>3 DEF Reported, TypeOK, nodes, Lists
<1>4. CASE DetectRegion
  <2>1. result' \in Lists
    BY <1>4, ProbedType DEF DetectRegion, TypeOK
  <2> QED BY <1>4, <2>1 DEF DetectRegion, TypeOK, nodes, Fault, Fine
<1> QED BY <1>1, <1>2, <1>3, <1>4

-----------------------------------------------------------------------------
(* Agreement of the lists of one round *)

(* The reports at the nodes stay, or become fewer. *)
LEMMA FewerReports ==
  ASSUME RoundsConsistent, \A r : (r \in AtNodes)' => r \in AtNodes
  PROVE  RoundsConsistent'
  BY DEF RoundsConsistent

LEMMA FewerKnown ==
  ASSUME RoundInv, \A r : (r \in AtNodes)' => r \in AtNodes, UNCHANGED agent
  PROVE  RoundInv'
  BY DEF RoundInv, agent

(* What a step of a node leaves there. *)
LEMMA NodeLeaves ==
  ASSUME TypeOK, NEW n \in Nodes,
         Publish(n) \/ Drop(n) \/ Crash(n) \/ Restart(n) \/ Flush(n),
         NEW r, (r \in AtNodes)'
  PROVE  r \in AtNodes
<1>1. PICK m \in Nodes : r # None /\ Holds(m, r)'
  BY AtSomeNodeNext
<1>2. Holds(m, r)
  <2>1. CASE (Publish(n) \/ Drop(n)) /\ \E i \in DOMAIN pending'[m] : r = pending'[m][i]
    <3>1. PICK i \in DOMAIN pending'[m] : r = pending'[m][i]
      BY <2>1
    <3>2. pending' = [pending EXCEPT ![n] = Tail(@)] /\ pending[n] # <<>>
      BY <2>1 DEF Publish, Drop, At
    <3>3. /\ pending \in [Nodes -> Seq(Reports)]
          /\ DOMAIN pending[m] = 1..Len(pending[m]) /\ Len(pending[n]) \in Nat
      BY Entries, LenProperties DEF TypeOK
    <3>4. CASE m # n
      BY <3>1, <3>2, <3>3, <3>4 DEF Holds
    <3>5. CASE m = n
      <4>1. /\ Tail(pending[n]) \in Seq(Reports) /\ Len(Tail(pending[n])) = Len(pending[n]) - 1
            /\ \A j \in 1..Len(Tail(pending[n])) : Tail(pending[n])[j] = pending[n][j + 1]
        BY <3>2, <3>3, HeadTailProperties
      <4>2. DOMAIN Tail(pending[n]) = 1..Len(pending[n]) - 1
        BY <4>1, LenProperties
      <4>3. i \in 1..Len(pending[n]) - 1 /\ r = pending[n][i + 1]
        BY <3>1, <3>2, <3>3, <3>5, <4>1, <4>2
      <4> QED BY <3>3, <3>5, <4>3 DEF Holds
    <3> QED BY <3>4, <3>5
  <2>2. CASE Publish(n) /\ \E s \in Slots : r = served'[m][s]
    <3>1. PICK s \in Slots : r = served'[m][s]
      BY <2>2
    <3>2. /\ pending[n] # <<>>
          /\ served' = [served EXCEPT ![n][Head(pending[n]).slot] = Head(pending[n])]
      BY <2>2 DEF Publish, At
    <3>3. served \in [Nodes -> [Slots -> Reports \cup {None}]]
      BY DEF TypeOK
    <3>4. Head(pending[n]) = pending[n][1] /\ 1 \in DOMAIN pending[n]
      BY <3>2, Entries, EmptySeq
    <3> QED BY <3>1, <3>2, <3>3, <3>4 DEF Holds
  <2>3. CASE ~Publish(n) /\ \E s \in Slots : r = served'[m][s]
    BY <1>1, <2>3 DEF Drop, Crash, Restart, Flush, Holds, TypeOK
  <2>4. CASE Crash(n) /\ \E i \in DOMAIN pending'[m] : r = pending'[m][i]
    <3>1. DOMAIN <<>> = {}
      BY EmptySeq
    <3> QED BY <2>4, <3>1 DEF Crash, Holds, TypeOK
  <2>5. CASE (Restart(n) \/ Flush(n)) /\ \E i \in DOMAIN pending'[m] : r = pending'[m][i]
    BY <2>5 DEF Restart, Flush, Holds
  <2> QED BY <1>1, <2>1, <2>2, <2>3, <2>4, <2>5 DEF Holds
<1> QED BY <1>1, <1>2, AtSomeNode

(* A round later every report there was there before, younger. *)
LEMMA RoundAges ==
  ASSUME TypeOK, BeginRound, NEW r, (r \in AtNodes)'
  PROVE  \E t \in AtNodes : r = Older(t)
<1>1. PICK m \in Nodes : r # None /\ Holds(m, r)'
  BY AtSomeNodeNext
<1>2. /\ pending'[m] = Aged(pending[m])
      /\ \A s \in Slots : served'[m][s] = Older(served[m][s])
  BY RoundTypes
<1>3. CASE \E s \in Slots : r = served'[m][s]
  <2>1. PICK s \in Slots : r = Older(served[m][s])
    BY <1>2, <1>3
  <2>2. served[m][s] # None
    BY <1>1, <2>1, OlderNone
  <2> QED BY <2>1, <2>2, AtSomeNode DEF Holds
<1>4. CASE \E i \in DOMAIN pending'[m] : r = pending'[m][i]
  <2>1. pending[m] \in Seq(Reports) /\ DOMAIN pending[m] = 1..Len(pending[m])
    BY Entries
  <2>2. PICK i \in DOMAIN pending[m] : r = Older(pending[m][i])
    BY <1>2, <1>4, <2>1, AgedQueue DEF Aged
  <2>3. pending[m][i] # None
    BY <1>1, <2>2, OlderNone
  <2> QED BY <2>2, <2>3, AtSomeNode DEF Holds
<1> QED BY <1>1, <1>3, <1>4 DEF Holds

LEMMA BeginRoundOK ==
  ASSUME TypeOK, RoundsConsistent, RoundInv, BeginRound
  PROVE  RoundsConsistent' /\ RoundInv'
<1>1. ASSUME NEW r, (r \in AtNodes)'
      PROVE  \E t \in AtNodes :
               /\ r = Older(t) /\ t \in Reports /\ r.slot = t.slot /\ r.data = t.data
               /\ r.age = (IF t.age = MaxAge THEN MaxAge ELSE t.age + 1) /\ t.age \in 0..MaxAge
  <2>1. PICK t \in AtNodes : r = Older(t)
    BY <1>1, RoundAges
  <2>2. t \in Reports
    BY AtNodesType
  <2>3. t.age \in 0..MaxAge
    BY <2>2 DEF Reports
  <2> QED BY <2>1, <2>2, <2>3, OlderReport
<1>2. ASSUME NEW r, NEW t, (r \in AtNodes)', (t \in AtNodes)', r.age = t.age, r.age < MaxAge
      PROVE  /\ \A e \in r.data, f \in t.data : e[1] = f[1] => e = f
             /\ r.slot = t.slot => r = t
  <2>1. PICK a \in AtNodes :
          /\ r = Older(a) /\ r.slot = a.slot /\ r.data = a.data
          /\ r.age = (IF a.age = MaxAge THEN MaxAge ELSE a.age + 1) /\ a.age \in 0..MaxAge
    BY <1>1, <1>2
  <2>2. PICK b \in AtNodes :
          /\ t = Older(b) /\ t.slot = b.slot /\ t.data = b.data
          /\ t.age = (IF b.age = MaxAge THEN MaxAge ELSE b.age + 1) /\ b.age \in 0..MaxAge
    BY <1>1, <1>2
  <2>3. a.age = b.age /\ a.age < MaxAge
    BY <1>2, <2>1, <2>2 DEF MaxAge
  <2> QED BY <2>1, <2>2, <2>3 DEF RoundsConsistent
<1>3. \A r : (r \in AtNodes)' => r.age # 0
  BY <1>1 DEF MaxAge
<1>4. RoundInv'
  BY <1>3 DEF BeginRound, RoundInv, Functional
<1> QED BY <1>2, <1>4 DEF RoundsConsistent

(* A post adds the report of the game under way, and nothing else. *)
LEMMA PostAdds ==
  ASSUME TypeOK, Post, NEW r, (r \in AtNodes)'
  PROVE  r \in AtNodes \/ r = [slot |-> cur, data |-> result, age |-> 0]
<1>1. PICK m \in Nodes : r # None /\ Holds(m, r)'
  BY AtSomeNodeNext
<1>2. CASE \E s \in Slots : r = served'[m][s]
  BY <1>1, <1>2, AtSomeNode DEF Post, Holds
<1>3. CASE \E i \in DOMAIN pending'[m] : r = pending'[m][i]
  <2> DEFINE new == [slot |-> cur, data |-> result, age |-> 0]
  <2>1. PICK i \in DOMAIN pending'[m] : r = pending'[m][i]
    BY <1>3
  <2>2. pending[m] \in Seq(Reports) /\ DOMAIN pending[m] = 1..Len(pending[m])
    BY Entries
  <2>3. pending'[m] = pending[m] \/ pending'[m] = Append(pending[m], new)
    BY DEF Post, TypeOK
  <2>4. CASE pending'[m] = pending[m]
    BY <1>1, <2>1, <2>4, AtSomeNode DEF Holds
  <2>5. CASE pending'[m] = Append(pending[m], new)
    <3>1. DOMAIN Append(pending[m], new) = 1..Len(pending[m]) + 1 /\ Len(pending[m]) \in Nat
      BY <2>2
    <3>2. i = Len(pending[m]) + 1 \/ i \in 1..Len(pending[m])
      BY <2>1, <2>5, <3>1
    <3>3. CASE i = Len(pending[m]) + 1
      BY <2>1, <2>2, <2>5, <3>3
    <3>4. CASE i \in 1..Len(pending[m])
      <4>1. r = pending[m][i]
        BY <2>1, <2>2, <2>5, <3>4
      <4> QED BY <1>1, <2>2, <3>4, <4>1, AtSomeNode DEF Holds
    <3> QED BY <3>2, <3>3, <3>4
  <2> QED BY <2>3, <2>4, <2>5
<1> QED BY <1>1, <1>2, <1>3 DEF Holds

LEMMA PostOK ==
  ASSUME TypeOK, RoundsConsistent, RoundInv, Post
  PROVE  RoundsConsistent' /\ RoundInv'
<1> DEFINE new == [slot |-> cur, data |-> result, age |-> 0]
<1>1. apc = "report" /\ UNCHANGED <<apc, cur, todo, result, cache>>
  BY DEF Post
<1>2. new.slot = cur /\ new.data = result /\ new.age = 0
  OBVIOUS
<1>3. \A r : (r \in AtNodes)' => r \in AtNodes \/ r = new
  BY PostAdds
<1> HIDE DEF new
<1>4. RoundInv'
  BY <1>1, <1>2, <1>3 DEF RoundInv
<1>5. ASSUME NEW r \in AtNodes, r.age = 0
      PROVE  /\ \A e \in r.data, f \in result : e[1] = f[1] => e = f /\ f = e
             /\ r.slot = cur => r.data = result
  BY <1>1, <1>5 DEF RoundInv, Functional
<1>6. ASSUME NEW r \in AtNodes, r.age = 0, r.slot = cur
      PROVE  r = new
  <2>1. r \in Reports /\ r.data = result
    BY <1>5, <1>6, AtNodesType
  <2> QED BY <1>6, <2>1 DEF Reports, new
<1>7. \A e, f \in result : e[1] = f[1] => e = f
  BY <1>1 DEF RoundInv, Functional
<1>8. ASSUME NEW r, NEW t, (r \in AtNodes)', (t \in AtNodes)', r.age = t.age, r.age < MaxAge
      PROVE  /\ \A e \in r.data, f \in t.data : e[1] = f[1] => e = f
             /\ r.slot = t.slot => r = t
  <2>1. CASE r \in AtNodes /\ t \in AtNodes
    BY <1>8, <2>1 DEF RoundsConsistent
  <2>2. CASE r = new /\ t = new
    BY <1>2, <1>7, <2>2
  <2>3. CASE r \in AtNodes /\ t = new
    BY <1>2, <1>5, <1>6, <1>8, <2>3
  <2>4. CASE r = new /\ t \in AtNodes
    BY <1>2, <1>5, <1>6, <1>8, <2>4
  <2> QED BY <1>3, <1>8, <2>1, <2>2, <2>3, <2>4
<1> QED BY <1>4, <1>8 DEF RoundsConsistent

(* The other steps leave the nodes alone. *)
LEMMA SameReports ==
  ASSUME UNCHANGED nodes
  PROVE  /\ AtNodes' = AtNodes
         /\ \A n \in Nodes : QueueOrder(n) => QueueOrder(n)'
  BY DEF nodes, AtNodes, QueueOrder

LEMMA AgentRoundInv ==
  ASSUME TypeOK, RoundsConsistent, RoundInv,
         \/ Start \/ GetCCLst \/ GetGameLst \/ DetectRegion \/ Reported \/ Sleep \/ Wake
         \/ Hangs \/ AgentDies \/ AgentRestarts \/ Administrator
  PROVE  RoundsConsistent' /\ RoundInv' /\ UNCHANGED nodes
<1>1. UNCHANGED nodes
  BY DEF Start, GetCCLst, GetGameLst, DetectRegion, Reported, Sleep, Wake,
         Hangs, AgentDies, AgentRestarts, Administrator
<1>2. RoundsConsistent'
  BY <1>1, SameReports, FewerReports
<1> SUFFICES RoundInv'
  BY <1>1, <1>2
<1>3. CASE Start \/ GetCCLst \/ GetGameLst \/ Sleep \/ Wake \/ Hangs
  BY <1>1, <1>3, SameReports DEF Start, GetCCLst, GetGameLst, Sleep, Wake, Hangs, RoundInv
<1>4. CASE AgentDies \/ AgentRestarts
  BY <1>1, <1>4, SameReports DEF AgentDies, AgentRestarts, Idle, RoundInv
<1>5. CASE Administrator
  BY <1>1, <1>5, SameReports, FewerKnown DEF Administrator
<1>6. CASE Reported
  <2>1. /\ apc = "report" /\ apc' = "round" /\ cache' = cache \cup result /\ result' = {}
        /\ todo' = todo
    BY <1>6 DEF Reported
  <2>2. \A r \in AtNodes :
          r.age = 0 => r.slot \notin todo /\ r.data \subseteq cache \cup result
    BY <2>1 DEF RoundInv
  <2>3. Functional(cache \cup result)
    BY <2>1 DEF RoundInv
  <2> QED BY <1>1, <2>1, <2>2, <2>3, SameReports DEF RoundInv, Functional
<1>7. CASE DetectRegion
  <2>1. PICK s \in todo :
          /\ todo' = todo \ {s} /\ apc = "round" /\ cache' = cache
          /\ \E as \in SUBSET Addresses : result' \in Probed(s, as)
          /\ IF result' = {} THEN apc' = apc ELSE apc' = "report" /\ cur' = s
    BY <1>7 DEF DetectRegion
  <2>2. s \in Slots /\ todo \subseteq Slots
    BY DEF TypeOK
  <2>3. Functional(result') /\ \A e \in result', c \in cache : e[1] = c[1] => e = c
    BY <2>1, <2>2, ProbedType
  <2>4. Functional(cache) /\ \A r \in AtNodes : r.age = 0 => r.slot \notin todo /\ r.data \subseteq cache
    BY <2>1 DEF RoundInv, Functional
  <2>5. Functional(cache' \cup result')
    BY <2>1, <2>3, <2>4 DEF Functional
  <2> QED BY <1>1, <2>1, <2>2, <2>4, <2>5, SameReports DEF RoundInv
<1> QED BY <1>1, <1>2, <1>3, <1>4, <1>5, <1>6, <1>7

-----------------------------------------------------------------------------
(* The order of the queues *)

(* A round makes no report the older of two that was not. *)
LEMMA OlderMonotone ==
  ASSUME NEW r \in Reports, NEW t \in Reports, r.age >= t.age
  PROVE  Older(r).age >= Older(t).age
<1>1. r.age \in 0..3 /\ t.age \in 0..3
  BY DEF Reports, MaxAge
<1> QED BY <1>1, OlderReport DEF MaxAge

LEMMA Ages ==
  ASSUME TypeOK, NEW n \in Nodes
  PROVE  /\ \A i \in DOMAIN pending[n] :
              pending[n][i].age \in 0..3 /\ pending[n][i].slot \in Slots
         /\ \A s \in Slots : served[n][s] # None => served[n][s].age \in 0..3
  BY Entries DEF Reports, MaxAge

(* What a node takes from the head of its queue. *)
LEMMA TailOrder ==
  ASSUME TypeOK, NEW n \in Nodes, QueueOrder(n), pending[n] # <<>>
  PROVE  /\ DOMAIN Tail(pending[n]) = 1..Len(pending[n]) - 1
         /\ \A i \in DOMAIN Tail(pending[n]) :
              /\ i + 1 \in DOMAIN pending[n] /\ Tail(pending[n])[i] = pending[n][i + 1]
              /\ Head(pending[n]).age >= Tail(pending[n])[i].age
         /\ \A i, j \in DOMAIN Tail(pending[n]) :
              i < j => Tail(pending[n])[i].age >= Tail(pending[n])[j].age
         /\ 1 \in DOMAIN pending[n] /\ Head(pending[n]) = pending[n][1]
<1>1. /\ pending[n] \in Seq(Reports) /\ DOMAIN pending[n] = 1..Len(pending[n])
      /\ Len(pending[n]) \in Nat \ {0}
  BY Entries, EmptySeq, LenProperties
<1>2. /\ Tail(pending[n]) \in Seq(Reports) /\ Len(Tail(pending[n])) = Len(pending[n]) - 1
      /\ \A i \in 1..Len(pending[n]) - 1 : Tail(pending[n])[i] = pending[n][i + 1]
  BY <1>1, HeadTailProperties, EmptySeq
<1>3. DOMAIN Tail(pending[n]) = 1..Len(pending[n]) - 1
  BY <1>2, LenProperties
<1>4. Head(pending[n]) = pending[n][1] /\ 1 \in DOMAIN pending[n]
  BY <1>1
<1>5. \A i \in DOMAIN Tail(pending[n]) :
        i + 1 \in DOMAIN pending[n] /\ Tail(pending[n])[i] = pending[n][i + 1] /\ 1 < i + 1
  BY <1>1, <1>2, <1>3
<1>6. \A i, j \in DOMAIN Tail(pending[n]) : i < j => i + 1 < j + 1
  BY <1>1, <1>3
<1> QED BY <1>3, <1>4, <1>5, <1>6 DEF QueueOrder

LEMMA NodeOrder ==
  ASSUME TypeOK, NEW n \in Nodes, NEW m \in Nodes, QueueOrder(m),
         Publish(n) \/ Drop(n) \/ Crash(n) \/ Restart(n) \/ Flush(n)
  PROVE  QueueOrder(m)'
<1>1. pending \in [Nodes -> Seq(Reports)] /\ served \in [Nodes -> [Slots -> Reports \cup {None}]]
  BY DEF TypeOK
<1>2. CASE m # n
  <2>1. pending'[m] = pending[m] /\ served'[m] = served[m]
    BY <1>1, <1>2 DEF Publish, Drop, Crash, Restart, Flush
  <2> QED BY <2>1 DEF QueueOrder
<1>3. CASE m = n /\ Drop(n)
  <2>1. pending'[m] = Tail(pending[m]) /\ pending[m] # <<>> /\ served' = served
    BY <1>1, <1>3 DEF Drop, At
  <2> QED BY <2>1, TailOrder DEF QueueOrder
<1>4. CASE m = n /\ Publish(n)
  <2> DEFINE h == Head(pending[m])
  <2>1. /\ pending'[m] = Tail(pending[m]) /\ pending[m] # <<>>
        /\ served'[m] = [served[m] EXCEPT ![h.slot] = h]
    BY <1>1, <1>4 DEF Publish, At
  <2>2. h.slot \in Slots
    BY <2>1, TailOrder, Ages
  <2>3. \A s \in Slots : served'[m][s] = IF s = h.slot THEN h ELSE served[m][s]
    BY <1>1, <2>1, <2>2
  <2>4. \A i \in DOMAIN Tail(pending[m]) : Tail(pending[m])[i].slot \in Slots
    BY <2>1, TailOrder, Ages
  <2>5. ASSUME NEW i \in DOMAIN Tail(pending[m]),
               served'[m][Tail(pending[m])[i].slot] # None
        PROVE  served'[m][Tail(pending[m])[i].slot].age >= Tail(pending[m])[i].age
    <3>1. CASE Tail(pending[m])[i].slot = h.slot
      BY <2>1, <2>3, <2>4, <3>1, TailOrder
    <3>2. CASE Tail(pending[m])[i].slot # h.slot
      BY <2>1, <2>3, <2>4, <2>5, <3>2, TailOrder DEF QueueOrder
    <3> QED BY <3>1, <3>2
  <2>6. \A s \in Slots : served'[m][s] # None => served'[m][s].slot = s
    BY <2>3 DEF QueueOrder
  <2>7. \A i, j \in DOMAIN Tail(pending[m]) :
          i < j => Tail(pending[m])[i].age >= Tail(pending[m])[j].age
    BY <2>1, TailOrder
  <2> HIDE DEF h
  <2> QED BY <2>1, <2>5, <2>6, <2>7 DEF QueueOrder
<1>5. CASE m = n /\ Crash(n)
  <2>1. pending'[m] = <<>> /\ DOMAIN <<>> = {} /\ served' = served
    BY <1>1, <1>5, EmptySeq DEF Crash
  <2> QED BY <2>1 DEF QueueOrder
<1>6. CASE m = n /\ Restart(n)
  BY <1>6 DEF Restart, QueueOrder
<1>7. CASE m = n /\ Flush(n)
  <2>1. pending' = pending /\ \A s \in Slots : served'[m][s] = None
    BY <1>1, <1>7 DEF Flush
  <2> QED BY <2>1, Ages DEF QueueOrder
<1> QED BY <1>2, <1>3, <1>4, <1>5, <1>6, <1>7

LEMMA RoundOrder ==
  ASSUME TypeOK, BeginRound, NEW n \in Nodes, QueueOrder(n)
  PROVE  QueueOrder(n)'
<1>1. /\ pending'[n] = Aged(pending[n])
      /\ \A s \in Slots : served'[n][s] = Older(served[n][s])
  BY RoundTypes
<1>2. /\ DOMAIN pending'[n] = DOMAIN pending[n]
      /\ \A i \in DOMAIN pending[n] : pending'[n][i] = Older(pending[n][i])
  BY <1>1 DEF Aged
<1>3. ASSUME NEW i \in DOMAIN pending[n], NEW j \in DOMAIN pending[n], i < j
      PROVE  pending'[n][i].age >= pending'[n][j].age
  BY <1>2, <1>3, Entries, OlderMonotone DEF QueueOrder
<1>4. ASSUME NEW i \in DOMAIN pending[n],
             served'[n][pending'[n][i].slot] # None
      PROVE  served'[n][pending'[n][i].slot].age >= pending'[n][i].age
  <2>1. pending[n][i] \in Reports /\ pending'[n][i].slot = pending[n][i].slot
    BY <1>2, Entries, OlderReport
  <2>2. pending[n][i].slot \in Slots
    BY Ages
  <2>3. served[n][pending[n][i].slot] \in Reports
    BY <1>1, <1>4, <2>1, <2>2, Entries, OlderNone
  <2>4. served[n][pending[n][i].slot] # None
    BY <2>3, AgentAssumption
  <2>5. served[n][pending[n][i].slot].age >= pending[n][i].age
    BY <2>4 DEF QueueOrder
  <2> QED BY <1>1, <1>2, <2>1, <2>2, <2>3, <2>5, OlderMonotone
<1>5. ASSUME NEW s \in Slots, served'[n][s] # None
      PROVE  served'[n][s].slot = s
  <2>1. served[n][s] \in Reports /\ served[n][s] # None
    BY <1>1, <1>5, Entries, OlderNone, AgentAssumption
  <2> QED BY <1>1, <2>1, OlderReport DEF QueueOrder
<1> QED BY <1>2, <1>3, <1>4, <1>5 DEF QueueOrder

LEMMA PostOrder ==
  ASSUME TypeOK, RoundInv, Post, NEW n \in Nodes, QueueOrder(n)
  PROVE  QueueOrder(n)'
<1> DEFINE new == [slot |-> cur, data |-> result, age |-> 0]
<1>1. pending'[n] = pending[n] \/ pending'[n] = Append(pending[n], new)
  BY DEF Post, TypeOK
<1>2. served' = served
  BY DEF Post
<1>3. CASE pending'[n] = pending[n]
  BY <1>2, <1>3 DEF QueueOrder
<1>4. CASE pending'[n] = Append(pending[n], new)
  <2>1. pending[n] \in Seq(Reports) /\ DOMAIN pending[n] = 1..Len(pending[n])
        /\ Len(pending[n]) \in Nat
    BY Entries, LenProperties
  <2>2. /\ DOMAIN pending'[n] = 1..Len(pending[n]) + 1
        /\ pending'[n][Len(pending[n]) + 1] = new
        /\ \A i \in DOMAIN pending[n] : pending'[n][i] = pending[n][i]
    BY <1>4, <2>1
  <2>3. new.age = 0 /\ new.slot \in Slots
    BY DEF RoundInv, Post
  <2> HIDE DEF new
  <2>4. ASSUME NEW i \in DOMAIN pending'[n], NEW j \in DOMAIN pending'[n], i < j
        PROVE  pending'[n][i].age >= pending'[n][j].age
    <3>1. i \in DOMAIN pending[n]
      BY <2>1, <2>2, <2>4
    <3>2. CASE j \in DOMAIN pending[n]
      BY <2>2, <2>4, <3>1, <3>2 DEF QueueOrder
    <3>3. CASE j = Len(pending[n]) + 1
      BY <2>2, <2>3, <3>1, <3>3, Ages
    <3> QED BY <2>1, <2>2, <3>2, <3>3
  <2>5. ASSUME NEW i \in DOMAIN pending'[n], served'[n][pending'[n][i].slot] # None
        PROVE  served'[n][pending'[n][i].slot].age >= pending'[n][i].age
    <3>1. CASE i \in DOMAIN pending[n]
      BY <1>2, <2>2, <2>5, <3>1 DEF QueueOrder
    <3>2. CASE i = Len(pending[n]) + 1
      BY <1>2, <2>2, <2>3, <2>5, <3>2, Ages
    <3> QED BY <2>1, <2>2, <3>1, <3>2
  <2> QED BY <1>2, <2>4, <2>5 DEF QueueOrder
<1> QED BY <1>1, <1>3, <1>4

-----------------------------------------------------------------------------
(* The invariant holds, and what it says *)

LEMMA AgentInvNext == AgentInv /\ [Next]_vars => AgentInv'
<1> SUFFICES ASSUME AgentInv, [Next]_vars PROVE AgentInv'
  OBVIOUS
<1>1. TypeOK /\ RoundsConsistent /\ RoundInv /\ \A n \in Nodes : QueueOrder(n)
  BY DEF AgentInv
<1>2. CASE \/ Start \/ GetCCLst \/ GetGameLst \/ DetectRegion \/ Reported \/ Sleep \/ Wake
           \/ Hangs \/ AgentDies \/ AgentRestarts \/ Administrator
  <2>1. TypeOK'
    BY <1>1, <1>2, AgentTypesStep
  <2>2. RoundsConsistent' /\ RoundInv' /\ UNCHANGED nodes
    BY <1>1, <1>2, AgentRoundInv
  <2> QED BY <1>1, <2>1, <2>2, SameReports DEF AgentInv
<1>3. CASE BeginRound
  BY <1>1, <1>3, RoundTypes, BeginRoundOK, RoundOrder DEF AgentInv
<1>4. CASE Post
  BY <1>1, <1>4, PostTypes, PostOK, PostOrder DEF AgentInv
<1>5. ASSUME NEW n \in Nodes,
             Publish(n) \/ Drop(n) \/ Crash(n) \/ Restart(n) \/ Flush(n)
      PROVE  AgentInv'
  <2>1. \A r : (r \in AtNodes)' => r \in AtNodes
    BY <1>1, <1>5, NodeLeaves
  <2>2. UNCHANGED agent
    BY <1>5 DEF Publish, Drop, Crash, Restart, Flush
  <2>3. RoundsConsistent' /\ RoundInv'
    BY <1>1, <2>1, <2>2, FewerReports, FewerKnown
  <2>4. TypeOK' /\ \A m \in Nodes : QueueOrder(m)'
    BY <1>1, <1>5, NodeTypes, NodeOrder
  <2> QED BY <2>3, <2>4 DEF AgentInv
<1>6. CASE UNCHANGED vars
  <2>1. UNCHANGED agent /\ UNCHANGED nodes /\ UNCHANGED <<enabled, faults>>
    BY <1>6 DEF vars
  <2>2. TypeOK'
    BY <1>1, <2>1 DEF TypeOK, agent, nodes
  <2>3. RoundsConsistent' /\ RoundInv'
    BY <1>1, <2>1, SameReports, FewerReports, FewerKnown
  <2> QED BY <1>1, <2>1, <2>2, <2>3, SameReports DEF AgentInv
<1> QED BY <1>2, <1>3, <1>4, <1>5, <1>6 DEF Next, Agent

(* AgentInv holds in every state. *)
THEOREM AgentInvariant == Spec => []AgentInv
BY InvInit, AgentInvNext, PTL DEF Spec

(* Every variable keeps its type. *)
THEOREM AgentTypes == Spec => []TypeOK
<1>1. AgentInv => TypeOK
  BY DEF AgentInv
<1> QED BY <1>1, AgentInvariant, PTL

(* Whatever posts fail and whichever nodes crash or lag, two lists measured  *)
(* in one round never disagree about an address: detectregion measures an    *)
(* address once a round and ip_detect_data is what makes it so.              *)
THEOREM RoundsAreConsistent == Spec => []RoundsConsistent
<1>1. AgentInv => RoundsConsistent
  BY DEF AgentInv
<1> QED BY <1>1, AgentInvariant, PTL

(* What is published came after what it replaces. *)
LEMMA PublishNewer ==
  ASSUME AgentInv, NEW n \in Nodes, Publish(n), NEW m \in Nodes, NEW s \in Slots,
         served[m][s] # None, served'[m][s] # served[m][s]
  PROVE  served'[m][s].age < served[m][s].age \/ served[m][s].age = MaxAge
<1> DEFINE h == Head(pending[n])
<1>1. TypeOK /\ RoundsConsistent /\ QueueOrder(n)
  BY DEF AgentInv
<1>2. /\ pending[n] # <<>> /\ served \in [Nodes -> [Slots -> Reports \cup {None}]]
      /\ served' = [served EXCEPT ![n][h.slot] = h]
  BY <1>1 DEF Publish, At, TypeOK
<1>3. 1 \in DOMAIN pending[n] /\ h = pending[n][1]
  BY <1>1, <1>2, TailOrder
<1>4. h \in Reports
  BY <1>1, <1>3, Entries
<1>5. m = n /\ s = h.slot /\ served'[m][s] = h
  BY <1>2
<1>6. served[m][s] \in Reports
  BY <1>2
<1>7. served[m][s].age >= h.age
  BY <1>1, <1>3, <1>5 DEF QueueOrder
<1>8. h \in AtNodes /\ served[m][s] \in AtNodes
  BY <1>3, <1>4, <1>5, <1>6, AtSomeNode, AgentAssumption DEF Holds
<1>9. h.age # served[m][s].age \/ h.age = MaxAge
  <2>1. ASSUME h.age = served[m][s].age, h.age < MaxAge PROVE FALSE
    <3>1. h.slot = s
      BY <1>5
    <3>2. served[m][s].slot = s
      BY <1>1, <1>5 DEF QueueOrder
    <3> QED BY <1>1, <1>5, <1>8, <2>1, <3>1, <3>2 DEF RoundsConsistent
  <2>2. h.age \in 0..MaxAge
    BY <1>4 DEF Reports
  <2> QED BY <2>1, <2>2 DEF MaxAge
<1>10. h.age \in 0..3 /\ served[m][s].age \in 0..3
  BY <1>4, <1>6 DEF Reports, MaxAge
<1> QED BY <1>5, <1>7, <1>9, <1>10 DEF MaxAge

(* No node goes back to an older list: only the queue of a node, which is in *)
(* the order of the posts (posts of one agent do not overlap), changes what  *)
(* the node serves, and a flush of Redis.                                    *)
THEOREM ServedIsNeverOlder == Spec => ServedNeverOlder
<1> DEFINE Newer == \A n \in Nodes, s \in Slots :
             served[n][s] # None /\ served'[n][s] \notin {None, served[n][s]} =>
               \/ served'[n][s].age < served[n][s].age
               \/ served'[n][s] = Older(served[n][s])
               \/ served[n][s].age = MaxAge
<1>1. AgentInv /\ [Next]_vars => [Newer]_vars
  <2> SUFFICES ASSUME AgentInv, [Next]_vars,
                      NEW m \in Nodes, NEW s \in Slots,
                      served[m][s] # None, served'[m][s] \notin {None, served[m][s]}
               PROVE  \/ served'[m][s].age < served[m][s].age
                      \/ served'[m][s] = Older(served[m][s])
                      \/ served[m][s].age = MaxAge
    OBVIOUS
  <2>1. CASE BeginRound
    BY <2>1 DEF BeginRound
  <2>2. ASSUME NEW n \in Nodes, Publish(n)
        PROVE  served'[m][s].age < served[m][s].age \/ served[m][s].age = MaxAge
    BY <2>2, PublishNewer
  <2>3. ASSUME NEW n \in Nodes, Flush(n)
        PROVE  FALSE
    <3>1. served \in [Nodes -> [Slots -> Reports \cup {None}]]
      BY DEF AgentInv, TypeOK
    <3> QED BY <2>3, <3>1 DEF Flush
  <2>4. CASE \/ Start \/ GetCCLst \/ GetGameLst \/ DetectRegion \/ Post \/ Reported
             \/ Sleep \/ Wake \/ Hangs \/ AgentDies \/ AgentRestarts \/ Administrator
    BY <2>4 DEF Start, GetCCLst, GetGameLst, DetectRegion, Post, Reported, Sleep, Wake,
                Hangs, AgentDies, AgentRestarts, Administrator, nodes
  <2>5. ASSUME NEW n \in Nodes, Drop(n) \/ Crash(n) \/ Restart(n)
        PROVE  FALSE
    BY <2>5 DEF Drop, Crash, Restart
  <2>6. CASE UNCHANGED vars
    BY <2>6 DEF vars, nodes
  <2> QED BY <2>1, <2>2, <2>3, <2>4, <2>5, <2>6 DEF Next, Agent
<1> QED BY <1>1, AgentInvariant, PTL DEF Spec, ServedNeverOlder
=============================================================================
