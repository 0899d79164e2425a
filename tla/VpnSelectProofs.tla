--------------------------- MODULE VpnSelectProofs ---------------------------
(***************************************************************************)
(* Proofs about VpnSelect, for any nodes, games, lists and requests, with   *)
(* or without a live redis_init.py: a request raises, or answers null, only *)
(* if the store was flushed or Redis failed while it ran; it names one of   *)
(* the best vpns by what it read; and with the script run offline, by what  *)
(* is served, if the store did not change meanwhile.                        *)
(***************************************************************************)
EXTENDS VpnSelect, DetectStoreProofs, SequenceTheorems

-----------------------------------------------------------------------------
(* The keys of the detection *)
Measures == 0..AVA_INF \cup {None}

(* Every average the script has come to is there; it is a number or missing. *)
Averages ==
  /\ \A x \in Slots \cup GameSlots : rtt[x] \in Measures
  /\ \A s \in Slots :
       ~(ipc = "detect" /\ s \in itodo) => rtt[s] # None /\ rtt[Zero(s)] # None
  /\ \A g \in Games : regions[g] \subseteq RegionsOf[g]

LEMMA AveragesInit == Init => Averages
<1> SUFFICES ASSUME Init PROVE Averages
  OBVIOUS
<1>1. 0 # None /\ 0 \in Measures
  BY StoreAssumption DEF Measures, AVA_INF
<1>2. \A x \in Slots \cup GameSlots : rtt[x] = 0
  BY DEF Init
<1>3. \A s \in Slots : Zero(s) \in GameSlots
  BY SlotFacts
<1> QED BY <1>1, <1>2, <1>3 DEF Averages, Init

LEMMA AveragesNext ==
  ASSUME IInv, Averages, [Next]_vars
  PROVE  Averages'
<1> USE DEF redis, writer, script, reader, ghost
<1>1. /\ DOMAIN rtt = Slots \cup GameSlots
      /\ mpc \in DealSteps => cur \in Reports /\ cur.slot \in Slots /\ cur.data \in Data
  BY DEF IInv, TypeOK, RedisTypeOK, WriterTypeOK, Reports
<1>2. \A s \in Slots : Zero(s) \in GameSlots /\ Zero(s) \notin Slots
  BY SlotFacts
<1>3. CASE UNCHANGED <<rtt, regions, ipc, itodo>>
  BY <1>3 DEF Averages
<1>4. ASSUME NEW x \in Slots \cup GameSlots, NEW v \in 0..AVA_INF,
             rtt' = [rtt EXCEPT ![x] = v], UNCHANGED <<regions, ipc, itodo>>
      PROVE  Averages'
  <2>1. \A y \in Slots \cup GameSlots : rtt'[y] = rtt[y] \/ rtt'[y] = v
    BY <1>1, <1>4
  <2>2. v # None /\ v \in Measures
    BY SelectAssumption DEF Measures
  <2> QED BY <1>2, <1>4, <2>1, <2>2 DEF Averages
<1>5. CASE DealSetRtt \/ DealSetRtt0
  <2>1. AvaAverage(cur.data) \in 0..AVA_INF /\ cur.slot \in Slots
    BY <1>1, <1>5, SelectAssumption DEF DealSetRtt, DealSetRtt0, DealSteps
  <2>2. /\ \/ rtt' = [rtt EXCEPT ![cur.slot] = AvaAverage(cur.data)]
           \/ rtt' = [rtt EXCEPT ![Zero(cur.slot)] = AvaAverage(cur.data)]
        /\ UNCHANGED <<regions, ipc, itodo>>
    BY <1>5 DEF DealSetRtt, DealSetRtt0, Zero
  <2> QED BY <1>2, <1>4, <2>1, <2>2
<1>6. CASE InitFlush
  <2>1. /\ \A x \in Slots \cup GameSlots : rtt'[x] = None
        /\ \A g \in Games : regions'[g] = {} /\ ipc' = "detect" /\ itodo' = Slots
    BY <1>6 DEF InitFlush
  <2>2. ipc' = "detect" /\ itodo' = Slots
    BY <1>6 DEF InitFlush
  <2> QED BY <2>1, <2>2 DEF Averages, Measures
<1>7. CASE InitSlot /\ itodo = {}
  <2>1. ipc = "detect" /\ ipc' = "regions" /\ UNCHANGED <<rtt, regions, itodo>>
    BY <1>7 DEF InitSlot
  <2> QED BY <1>7, <2>1 DEF Averages
<1>8. CASE InitSlot /\ itodo # {}
  <2>1. PICK s \in itodo : /\ rtt' = [rtt EXCEPT ![s] = 0, ![Zero(s)] = 0]
                           /\ itodo' = itodo \ {s}
    BY <1>8 DEF InitSlot, Zero
  <2>2. ipc = "detect" /\ UNCHANGED <<regions, ipc>>
    BY <1>8 DEF InitSlot
  <2>3. s \in Slots
    BY DEF IInv, TypeOK, WriterTypeOK
  <2>4. /\ \A y \in Slots \cup GameSlots : rtt'[y] = rtt[y] \/ rtt'[y] = 0
        /\ rtt'[s] = 0 /\ rtt'[Zero(s)] = 0
    BY <1>1, <1>2, <2>1, <2>3
  <2>5. 0 # None /\ 0 \in Measures
    BY StoreAssumption DEF Measures, AVA_INF
  <2> QED BY <1>2, <2>1, <2>2, <2>3, <2>4, <2>5 DEF Averages
<1>9. CASE InitRegions
  BY <1>9 DEF InitRegions, Averages
<1>10. CASE (\E report \in Reports : DoPost(report)) \/ ServerFails \/ MainTop \/ MainDrain
  BY <1>3, <1>10 DEF DoPost, ServerFails, MainTop, MainDrain
<1>11. CASE \/ DealExists \/ DealGetId \/ DealDelete \/ DealAdd \/ DealMembers
            \/ DealSetCnt \/ DealFlip \/ DealRaises
  BY <1>3, <1>11 DEF DealExists, DealGetId, DealDelete, DealAdd, DealMembers, DealSetCnt,
                     DealFlip, DealRaises
<1>12. CASE Crash \/ Restart
  BY <1>3, <1>12 DEF Crash, Restart
<1>13. ASSUME NEW r \in Readers, Read(r) PROVE Averages'
  BY <1>3, <1>13 DEF Read, ReadStart, ReadExists, ReadGet, ReadRange
<1>14. CASE UNCHANGED vars
  BY <1>3, <1>14 DEF vars
<1> QED
  BY <1>5, <1>6, <1>7, <1>8, <1>9, <1>10, <1>11, <1>12, <1>13, <1>14
     DEF Next, Main, Deal, Script

(* What each step of VpnSelect is for the detection store. *)
LEMMA StoreOnly ==
  ASSUME SelectNext
  PROVE  [Next]_vars \/ AskRedisFails
<1>1. CASE Store
  <2>1. CASE Writer
    BY <2>1 DEF Writer, Next
  <2>2. CASE FlushKeys \/ InitDetect \/ InitGames
    BY <2>2 DEF FlushKeys, InitDetect, InitGames, Next, Script
  <2>3. CASE InitOptions \/ InitVpnInfo \/ Administrator
    BY <2>3 DEF InitOptions, InitVpnInfo, Administrator
  <2> QED BY <1>1, <2>1, <2>2, <2>3 DEF Store
<1> QED BY <1>1 DEF SelectNext

LEMMA StoreInvs ==
  ASSUME IInv, Averages, [SelectNext]_<<vars, selvars>>
  PROVE  IInv' /\ Averages'
<1>1. CASE [Next]_vars
  BY <1>1, NextIInv, AveragesNext
<1>2. CASE AskRedisFails
  <2>1. /\ UNCHANGED <<redis, writer, script, reader, posts, held, flips, torn, last,
                       overrun, crossed>>
        /\ faults' = faults + 1
    BY <1>2 DEF AskRedisFails
  <2>2. Averages'
    BY <2>1 DEF Averages, redis, script
  <2>3. TypeOK'
    BY <2>1 DEF IInv, TypeOK, RedisTypeOK, WriterTypeOK, RequestTypeOK, GhostTypeOK,
                redis, writer, script, reader
  <2>4. TargetIsUnused' /\ TargetHoldsReport' /\ OnlyInitOverruns'
    BY <2>1 DEF IInv, TargetIsUnused, TargetHoldsReport, OnlyInitOverruns, redis, writer, script
  <2>5. RequestKnows' /\ TornOnlyByInit' /\ ReadIsConsistent'
    BY <2>1 DEF IInv, RequestKnows, TornOnlyByInit, ReadIsConsistent, Served, redis, reader
  <2> QED BY <2>2, <2>3, <2>4, <2>5 DEF IInv
<1>3. CASE UNCHANGED <<vars, selvars>>
  BY <1>1, <1>3
<1> QED BY <1>1, <1>2, <1>3, StoreOnly

-----------------------------------------------------------------------------
(* The keys only redis_init.py writes: the switch is on only when all of     *)
(* them are there.                                                           *)
KeysInv ==
  /\ switch \in {0, 1, None} /\ special \in BOOLEAN
  /\ known \in SUBSET Ips /\ games \in {{}, Games}
  /\ special => known = Ips
  /\ ipc # "detect" => special
  /\ ipc = "off" => games = Games
  /\ switch = 1 => ipc = "off"

LEMMA StoreKeys ==
  ASSUME KeysInv, Store
  PROVE  /\ KeysInv'
         /\ \/ UNCHANGED <<switch, upset>>
            \/ (switch # 1 /\ UNCHANGED upset)
            \/ upset' = (qpc # "idle")
<1> USE DEF KeysInv, keys, script
<1>1. CASE Writer
  <2>1. UNCHANGED <<keys, upset>>
    BY <1>1 DEF Writer
  <2>2. UNCHANGED script
    BY <1>1 DEF Writer, DoPost, ServerFails, Main, MainTop, MainDrain, DealRaises, Crash, Restart,
                Deal, DealExists, DealGetId, DealDelete, DealAdd, DealMembers, DealSetRtt,
                DealSetCnt, DealSetRtt0, DealFlip
  <2> QED BY <2>1, <2>2
<1>2. CASE FlushKeys
  BY <1>2, StoreAssumption DEF FlushKeys, InitFlush
<1>3. CASE InitOptions \/ InitVpnInfo \/ Administrator
  <2>1. UNCHANGED <<ipc, upset>>
    BY <1>3 DEF InitOptions, InitVpnInfo, Administrator, vars
  <2>2. CASE InitOptions
    BY <2>1, <2>2, StoreAssumption DEF InitOptions
  <2>3. CASE InitVpnInfo
    BY <2>1, <2>3 DEF InitVpnInfo
  <2>4. CASE Administrator
    BY <2>1, <2>4 DEF Administrator
  <2> QED BY <1>3, <2>2, <2>3, <2>4
<1>4. CASE InitDetect
  BY <1>4 DEF InitDetect, InitSlot
<1>5. CASE InitGames
  BY <1>5 DEF InitGames, InitRegions
<1> QED BY <1>1, <1>2, <1>3, <1>4, <1>5 DEF Store

-----------------------------------------------------------------------------
(* The request *)
Asking == {"spec", "getspec", "game", "region", "exists", "getid", "rtt"}

(* The game and region of the request were found in the store. *)
Valid == ask.game \in Games /\ (ask.region = 0 \/ ask.region \in RegionsOf[ask.game])

(* minrtt and filtervpnip *)
Bests == [min : Nat, ips : SUBSET Ips]

(* What a request has found out, and that the switch it read is still on     *)
(* unless the store was flushed since.                                       *)
RequestInv ==
  /\ qpc \in Asking \cup {"idle", "switch", "mysql", "choose", "take", "chosen", "least",
                         "done"}
  /\ IF qpc = "idle" THEN qout = None ELSE ask \in Asks
  /\ at \in Nat \ {0} /\ lst \in Seq(Items) /\ qout \in Answers
  /\ best \in Bests
  /\ qpc = "region" => ask.game \in Games
  /\ qpc \in {"exists", "getid"} /\ ask.game # None => Valid
  /\ qpc = "rtt" => Valid
  /\ qpc = "getid" => at \in 1..Len(ask.qos) /\ ask.qos[at].ip \in Ips
  /\ qpc \in Asking /\ ~upset => switch = 1
  /\ moved \in BOOLEAN /\ upset \in BOOLEAN
  /\ RaisesOnlyIfUpset

SelectInv == IInv /\ Averages /\ KeysInv /\ RequestInv

LEMMA PlainAnswers ==
  /\ {None, "none", "invalid", "failed", "raised", "null"} \cup Ips \subseteq Answers
  /\ \A x \in {None, "none", "invalid", "failed"} \cup Ips : x \notin {"raised", "null"}
  /\ \A a \in Asks : a.spec \in Answers /\ a.spec \notin {"raised", "null"}
BY SelectAssumption DEF Answers

LEMMA NoItems == <<>> \in Seq(Items) /\ Unset \in Bests
<1>1. <<>> \in Seq(Items)
  BY EmptySeq
<1>2. Unset \in Bests
  BY DEF Unset, Bests
<1> QED BY <1>1, <1>2

LEMMA SelectInitInv == SelectInit => SelectInv
<1> SUFFICES ASSUME SelectInit PROVE SelectInv
  OBVIOUS
<1>1. IInv /\ Averages
  BY InitIInv, AveragesInit DEF SelectInit
<1>2. KeysInv
  BY DEF SelectInit, Init, KeysInv
<1>3. /\ qpc = "idle" /\ at = 1 /\ lst = <<>> /\ qout = None /\ best = Unset
      /\ moved = FALSE /\ upset = FALSE
  BY DEF SelectInit
<1>4. qout \in Answers /\ qout \notin {"raised", "null"}
  BY <1>3, PlainAnswers
<1>5. lst \in Seq(Items) /\ best \in Bests
  BY <1>3, NoItems
<1>6. at \in Nat \ {0} /\ moved \in BOOLEAN /\ upset \in BOOLEAN
  <2>1. 1 \in Nat \ {0} /\ FALSE \in BOOLEAN
    OBVIOUS
  <2> QED BY <1>3, <2>1
<1>7. RaisesOnlyIfUpset
  BY <1>4 DEF RaisesOnlyIfUpset
<1>8. qpc \notin Asking /\ qpc \notin {"region", "exists", "getid", "rtt"}
  BY <1>3 DEF Asking
<1>9. RequestInv
  BY <1>3, <1>4, <1>5, <1>6, <1>7, <1>8 DEF RequestInv
<1> QED BY <1>1, <1>2, <1>9 DEF SelectInv

LEMMA StoreRequest ==
  ASSUME SelectInv, Store, moved' \in BOOLEAN, UNCHANGED request
  PROVE  RequestInv'
<1>1. \/ UNCHANGED <<switch, upset>>
      \/ (switch # 1 /\ UNCHANGED upset)
      \/ upset' = (qpc # "idle")
  BY StoreKeys DEF SelectInv
<1>2. UNCHANGED <<qpc, ask, at, lst, best, qout>>
  BY DEF request
<1>3. qpc = "idle" \/ upset' \/ upset' = upset
  BY <1>1
<1>4. qpc \in Asking /\ ~upset' => switch' = 1
  BY <1>1 DEF SelectInv, RequestInv, Asking
<1>5. qout \in {"raised", "null"} => upset'
  BY <1>1, PlainAnswers DEF SelectInv, RequestInv, RaisesOnlyIfUpset
<1>6. upset' \in BOOLEAN
  BY <1>1 DEF SelectInv, RequestInv
<1> QED BY <1>2, <1>4, <1>5, <1>6 DEF SelectInv, RequestInv, RaisesOnlyIfUpset, Valid

-----------------------------------------------------------------------------
(* The steps of the request *)
LEMMA AskFacts ==
  ASSUME SelectInv, Select, UNCHANGED <<vars, keys, ask, moved, upset>>
  PROVE  /\ qpc # "idle" /\ ask \in Asks /\ ask' = ask
         /\ ask.qos \in Seq(Entries)
         /\ ask.spec \in Answers \ {"raised", "null"}
         /\ at \in Nat \ {0} /\ lst \in Seq(Items) /\ best \in Bests
         /\ switch' = switch /\ upset' = upset
         /\ upset' \in BOOLEAN /\ moved' \in BOOLEAN
         /\ qout \in Answers /\ (qout \in {"raised", "null"} => upset')
<1>1. qpc # "idle"
  BY DEF Select, AskSwitch, AskSpec, AskGetSpec, AskGame, AskRegion, AskExists, AskGetId,
         AskFiltered, AskRtt, AskSort, AskTake, AskChoose, AskMysql
<1>2. ask \in Asks
  BY <1>1 DEF SelectInv, RequestInv
<1> QED
  BY <1>1, <1>2, SelectAssumption, PlainAnswers
     DEF SelectInv, RequestInv, RaisesOnlyIfUpset, keys

LEMMA AnswerInv ==
  ASSUME NEW out \in Answers, Answer(out), ask' \in Asks, moved' \in BOOLEAN,
         upset' \in BOOLEAN, out \in {"raised", "null"} => upset'
  PROVE  RequestInv'
<1>1. qpc' = "done" /\ qout' = out /\ at' = 1 /\ lst' = <<>> /\ best' = Unset
  BY DEF Answer
<1>2. lst' \in Seq(Items) /\ best' \in Bests
  BY <1>1, NoItems
<1>3. qpc' \notin Asking /\ at' \in Nat \ {0}
  BY <1>1 DEF Asking
<1> QED BY <1>1, <1>2, <1>3 DEF RequestInv, RaisesOnlyIfUpset

LEMMA OnInv ==
  ASSUME SelectInv, qpc \in Asking, ~upset
  PROVE  /\ special /\ games = Games /\ known = Ips
         /\ \A s \in Slots : rtt[s] # None /\ rtt[Zero(s)] # None
<1>1. ipc = "off"
  BY DEF SelectInv, RequestInv, KeysInv
<1> QED BY <1>1 DEF SelectInv, KeysInv, Averages

(* Slot(ip) is one of the store's slots, or one of the slots of a game as a   *)
(* whole, which is filled with the slots of its regions.                      *)
LEMMA SlotIsThere ==
  ASSUME NEW ip \in Ips, Valid
  PROVE  /\ Slot(ip) \in Slots \cup GameSlots
         /\ Slot(ip) \in Slots \/ \E s \in Slots : Slot(ip) = Zero(s)
<1>1. VpnOf[ip] \in Vpns
  BY SelectAssumption
<1> DEFINE InSlots(r) == <<VpnOf[ip], ask.game, r>> \in Slots
<1>4. ASSUME NEW r \in RegionsOf[ask.game] PROVE InSlots(r)
  <2>1. ask.game \in Games /\ r \in Regions
    BY DEF Valid, Regions
  <2> QED BY <1>1, <2>1 DEF Slots
<1> HIDE DEF InSlots
<1>2. CASE ask.region = 0
  <2>1. PICK r \in RegionsOf[ask.game] : TRUE
    BY SelectAssumption DEF Valid
  <2>2. <<VpnOf[ip], ask.game, r>> \in Slots
    BY <1>4, <2>1 DEF InSlots
  <2>3. Slot(ip) = Zero(<<VpnOf[ip], ask.game, r>>)
    BY <1>2 DEF Slot, Zero
  <2> QED BY <2>2, <2>3, SlotFacts
<1>3. CASE ask.region \in RegionsOf[ask.game]
  BY <1>3, <1>4 DEF InSlots, Slot
<1> QED BY <1>2, <1>3 DEF Valid

LEMMA AvaInfinite == AVA_INF \in Nat
BY DEF AVA_INF

LEMMA WithAvaItem ==
  ASSUME NEW x \in Items, NEW v \in 0..AVA_INF
  PROVE  WithAva(x, v) \in Items
<1>1. /\ x.ip \in Ips /\ x.rtt \in Nat /\ x.loss \in Nat /\ x.valid \in BOOLEAN /\ x.own \in Nat
      /\ x = [ip |-> x.ip, rtt |-> x.rtt, loss |-> x.loss, valid |-> x.valid, own |-> x.own,
              ava |-> x.ava]
  BY DEF Items
<1>2. v \in Nat /\ AVA_INF \in Nat
  BY AvaInfinite
<1>3. CASE v \in {0, AVA_INF}
  <2>1. WithAva(x, v) = [ip |-> x.ip, rtt |-> AVA_INF, loss |-> x.loss, valid |-> FALSE,
                         own |-> x.own, ava |-> v]
    BY <1>1, <1>3 DEF WithAva
  <2> QED BY <1>1, <1>2, <2>1 DEF Items
<1>4. CASE v \notin {0, AVA_INF}
  <2>1. WithAva(x, v) = [ip |-> x.ip, rtt |-> x.rtt + v, loss |-> x.loss, valid |-> x.valid,
                         own |-> x.own, ava |-> v]
    BY <1>1, <1>4 DEF WithAva
  <2>2. x.rtt + v \in Nat
    BY <1>1, <1>2
  <2> QED BY <1>1, <2>1, <2>2 DEF Items
<1> QED BY <1>3, <1>4

LEMMA LeastAnswer ==
  ASSUME NEW qos \in Seq(Entries)
  PROVE  Least(qos, Ips) \subseteq Ips \cup {"none"}
BY DEF Least

(* What a sort leaves: the same items, each somewhere. *)
LEMMA Rearranged ==
  ASSUME lst \in Seq(Items), AskSort
  PROVE  /\ lst' \in Seq(Items) /\ DOMAIN lst' = DOMAIN lst
         /\ \A i \in DOMAIN lst : \E j \in DOMAIN lst : lst'[i] = lst[j]
         /\ \A j \in DOMAIN lst : \E i \in DOMAIN lst : lst'[i] = lst[j]
         /\ \A i, j \in DOMAIN lst : i < j => lst'[i].rtt <= lst'[j].rtt
<1>1. PICK p \in Bijection(DOMAIN lst, DOMAIN lst) : lst' = [i \in DOMAIN lst |-> lst[p[i]]]
  BY DEF AskSort
<1>2. p \in [DOMAIN lst -> DOMAIN lst]
      /\ \A j \in DOMAIN lst : \E i \in DOMAIN lst : p[i] = j
  BY DEF Bijection, Injection, Surjection
<1>3. DOMAIN lst = 1..Len(lst) /\ Len(lst) \in Nat /\ \A j \in DOMAIN lst : lst[j] \in Items
  OBVIOUS
<1>4. lst' \in [1..Len(lst) -> Items] /\ DOMAIN lst' = DOMAIN lst
  BY <1>1, <1>2, <1>3
<1>5. lst' \in Seq(Items)
  BY <1>3, <1>4
<1>6. \A i \in DOMAIN lst : lst'[i] = lst[p[i]]
  BY <1>1
<1>7. \A i, j \in DOMAIN lst : i < j => lst'[i].rtt <= lst'[j].rtt
  BY DEF AskSort
<1>8. \A i \in DOMAIN lst : \E j \in DOMAIN lst : lst'[i] = lst[j]
  BY <1>2, <1>6
<1>9. \A j \in DOMAIN lst : \E i \in DOMAIN lst : lst'[i] = lst[j]
  <2> TAKE j \in DOMAIN lst
  <2>1. PICK i \in DOMAIN lst : p[i] = j
    BY <1>2
  <2>2. lst'[i] = lst[j]
    BY <1>6, <2>1
  <2> QED BY <2>2
<1> QED BY <1>4, <1>5, <1>7, <1>8, <1>9

LEMMA TakeType ==
  ASSUME NEW b \in Bests, NEW x \in Items
  PROVE  Take(b, x) \in Bests
<1>1. b.min \in Nat /\ b.ips \in SUBSET Ips /\ b = [min |-> b.min, ips |-> b.ips]
      /\ x.rtt \in Nat /\ x.ip \in Ips
  BY DEF Bests, Items
<1>2. \A m \in Nat, t \in SUBSET Ips : [min |-> m, ips |-> t] \in Bests
  BY DEF Bests
<1>3. [b EXCEPT !.ips = @ \cup {x.ip}] = [min |-> b.min, ips |-> b.ips \cup {x.ip}]
  BY <1>1
<1> QED BY <1>1, <1>2, <1>3 DEF Take

LEMMA AverageRead ==
  ASSUME SelectInv, qpc = "rtt", at \in DOMAIN lst
  PROVE  LET x == rtt[Slot(lst[at].ip)]
         IN  x \in Measures /\ (x # None => x \in 0..AVA_INF) /\ (x # None \/ upset)
<1>1. lst[at] \in Items /\ Valid /\ qpc \in Asking
  BY DEF SelectInv, RequestInv, Asking
<1>2. lst[at].ip \in Ips
  BY <1>1 DEF Items
<1>3. PICK s \in Slots \cup GameSlots :
        s = Slot(lst[at].ip) /\ (s \in Slots \/ \E t \in Slots : s = Zero(t))
  BY <1>1, <1>2, SlotIsThere
<1>4. rtt[s] \in Measures
  BY DEF SelectInv, Averages
<1>5. rtt[s] # None \/ upset
  BY <1>1, <1>3, OnInv DEF SelectInv, RequestInv
<1> QED BY <1>3, <1>4, <1>5 DEF Measures

LEMMA SelectRequest ==
  ASSUME SelectInv, Select, UNCHANGED <<vars, keys, ask, moved, upset>>
  PROVE  RequestInv'
<1>1. /\ qpc # "idle" /\ ask \in Asks /\ ask' = ask
      /\ ask.qos \in Seq(Entries)
      /\ ask.spec \in Answers \ {"raised", "null"}
      /\ at \in Nat \ {0} /\ lst \in Seq(Items) /\ best \in Bests
      /\ switch' = switch /\ upset' = upset
      /\ upset' \in BOOLEAN /\ moved' \in BOOLEAN
      /\ qout \in Answers /\ (qout \in {"raised", "null"} => upset')
  BY AskFacts
<1>2. qpc \in Asking /\ ~upset' => switch' = 1
  BY <1>1 DEF SelectInv, RequestInv
<1>3. UNCHANGED <<regions, games>> /\ (Valid => Valid')
  BY <1>1 DEF vars, redis, keys, Valid
<1>4. "raised" \in Answers /\ "null" \in Answers /\ "invalid" \in Answers
  BY PlainAnswers
<1> DEFINE Went(pc) == qpc' = pc /\ UNCHANGED <<lst, best, qout>> /\ at' \in Nat \ {0}
<1>5. ASSUME NEW pc \in {"spec", "getspec", "game", "mysql", "choose"}, Went(pc),
             pc \in Asking => qpc \in Asking \/ switch = 1
      PROVE  RequestInv'
  BY <1>1, <1>2, <1>5 DEF RequestInv, RaisesOnlyIfUpset, Asking
<1>6. ASSUME NEW pc \in {"region", "exists", "rtt"}, Went(pc), qpc \in Asking,
             pc = "region" => ask.game \in Games,
             pc = "rtt" => Valid,
             pc = "exists" => ask.game = None \/ Valid
      PROVE  RequestInv'
  BY <1>1, <1>2, <1>3, <1>6 DEF RequestInv, RaisesOnlyIfUpset, Asking
<1> HIDE DEF Went
<1>7. CASE AskSwitch
  <2>1. PICK pc \in {"spec", "mysql"} : Went(pc) /\ (pc = "spec" => switch = 1)
    BY <1>1, <1>7 DEF AskSwitch, Go, Went
  <2>2. "mysql" \notin Asking
    BY DEF Asking
  <2> QED BY <1>5, <2>1, <2>2
<1>8. CASE AskSpec
  <2>1. PICK pc \in {"getspec", "game", "exists"} :
          Went(pc) /\ (pc = "exists" => ask.game = None)
    BY <1>1, <1>8 DEF AskSpec, Go, Filter, Went
  <2>2. qpc \in Asking
    BY <1>8 DEF AskSpec, Asking
  <2> QED BY <1>5, <1>6, <2>1, <2>2
<1>9. CASE AskGetSpec
  <2>1. qpc \in Asking
    BY <1>9 DEF AskGetSpec, Asking
  <2>2. special \/ upset'
    BY <1>1, <2>1, OnInv
  <2>3. CASE special
    BY <1>1, <1>9, <2>3, AnswerInv DEF AskGetSpec
  <2>4. CASE ~special
    BY <1>1, <1>4, <1>9, <2>2, <2>4, AnswerInv DEF AskGetSpec
  <2> QED BY <2>3, <2>4
<1>10. CASE AskGame
  <2>1. CASE ask.game \notin games
    BY <1>1, <1>4, <1>10, <2>1, AnswerInv DEF AskGame
  <2>2. CASE ask.game \in games
    <3>1. ask.game \in Games
      BY <2>2 DEF SelectInv, KeysInv
    <3>2. PICK pc \in {"exists", "region"} : Went(pc) /\ (pc = "exists" => ask.region = 0)
      BY <1>1, <1>10, <2>2 DEF AskGame, Go, Went
    <3>3. qpc \in Asking
      BY <1>10 DEF AskGame, Asking
    <3> QED BY <1>6, <3>1, <3>2, <3>3 DEF Valid
  <2> QED BY <2>1, <2>2
<1>11. CASE AskRegion
  <2>1. qpc = "region" /\ qpc \in Asking /\ ask.game \in Games
    BY <1>11 DEF AskRegion, SelectInv, RequestInv, Asking
  <2>2. CASE ask.region \in regions[ask.game]
    <3>1. Valid
      BY <2>1, <2>2 DEF SelectInv, Averages, Valid
    <3>2. Went("exists")
      BY <1>1, <1>11, <2>2 DEF AskRegion, Go, Went
    <3> QED BY <1>6, <2>1, <3>1, <3>2
  <2>3. CASE ask.region \notin regions[ask.game]
    BY <1>1, <1>4, <1>11, <2>3, AnswerInv DEF AskRegion
  <2> QED BY <2>2, <2>3
<1>12. CASE AskExists
  <2>1. /\ qpc = "exists" /\ qpc \in Asking /\ at \in 1..Len(ask.qos)
        /\ ask.game # None => Valid
    BY <1>1, <1>12 DEF AskExists, Asking, SelectInv, RequestInv
  <2>2. CASE ask.qos[at].ip \in known
    <3>1. qpc' = "getid" /\ UNCHANGED <<at, lst, best, qout>> /\ ask.qos[at].ip \in Ips
      BY <1>12, <2>2 DEF AskExists, SelectInv, KeysInv
    <3> QED BY <1>1, <1>2, <1>3, <2>1, <3>1 DEF RequestInv, RaisesOnlyIfUpset, Asking
  <2>3. CASE ask.qos[at].ip \notin known
    <3>1. Went("exists")
      BY <1>1, <1>12, <2>1, <2>3 DEF AskExists, Went
    <3> QED BY <1>6, <2>1, <3>1
  <2> QED BY <2>2, <2>3
<1>13. CASE AskGetId
  <2>1. /\ qpc = "getid" /\ qpc \in Asking /\ at \in 1..Len(ask.qos)
        /\ ask.qos[at].ip \in Ips /\ (ask.game # None => Valid)
    BY <1>13 DEF AskGetId, Asking, SelectInv, RequestInv
  <2>2. CASE ask.game # None /\ ask.qos[at].ip \notin known
    <3>1. upset'
      BY <1>1, <2>1, <2>2, OnInv
    <3> QED BY <1>1, <1>4, <1>13, <2>2, <3>1, AnswerInv DEF AskGetId
  <2>3. CASE ~(ask.game # None /\ ask.qos[at].ip \notin known)
    <3>1. ask.qos[at] \in Entries
      BY <1>1, <2>1
    <3>2. Item(ask.qos[at]) \in Items
      BY <2>1, <3>1 DEF Item, Items, Entries, AVA_INF
    <3>3. /\ lst' = Append(lst, Item(ask.qos[at])) /\ at' = at + 1
          /\ qpc' = "exists" /\ qout' = qout /\ best' = best
      BY <1>13, <2>3 DEF AskGetId
    <3>4. lst' \in Seq(Items) /\ at' \in Nat \ {0}
      BY <1>1, <3>2, <3>3
    <3> QED BY <1>1, <1>2, <1>3, <2>1, <3>3, <3>4 DEF RequestInv, RaisesOnlyIfUpset, Asking
  <2> QED BY <2>2, <2>3
<1>14. CASE AskFiltered
  <2>1. qpc = "exists" /\ qpc \in Asking /\ (ask.game # None => Valid)
    BY <1>14 DEF AskFiltered, Asking, SelectInv, RequestInv
  <2>2. CASE ask.game = None
    <3>1. Went("choose")
      BY <1>14, <2>2 DEF AskFiltered, Went
    <3> QED BY <1>5, <2>1, <3>1
  <2>3. CASE ask.game # None
    <3>1. Went("rtt")
      BY <1>14, <2>3 DEF AskFiltered, Went
    <3> QED BY <1>6, <2>1, <2>3, <3>1
  <2> QED BY <2>2, <2>3
<1>15. CASE AskRtt
  <2>1. qpc = "rtt" /\ qpc \in Asking /\ at \in 1..Len(lst) /\ Valid
    BY <1>1, <1>15 DEF AskRtt, Asking, SelectInv, RequestInv
  <2>2. lst[at] \in Items /\ lst[at].ip \in Ips
    <3>1. lst[at] \in Items
      BY <1>1, <2>1
    <3> QED BY <3>1 DEF Items
  <2> DEFINE x == rtt[Slot(lst[at].ip)]
  <2>3. x \in Measures /\ (x # None \/ upset')
    BY <1>1, <2>1, AverageRead
  <2>4. CASE x = None
    BY <1>1, <1>4, <1>15, <2>3, <2>4, AnswerInv DEF AskRtt
  <2>5. CASE x # None
    <3>1. lst' = [lst EXCEPT ![at] = WithAva(lst[at], x)] /\ at' = at + 1
          /\ UNCHANGED <<qpc, best, qout>>
      BY <1>15, <2>5 DEF AskRtt
    <3>2. WithAva(lst[at], x) \in Items
      BY <2>2, <2>3, <2>5, WithAvaItem DEF Measures
    <3>3. lst' \in Seq(Items) /\ at' \in Nat \ {0}
      BY <1>1, <2>1, <3>1, <3>2
    <3> QED BY <1>1, <1>2, <1>3, <2>1, <3>1, <3>3 DEF RequestInv, RaisesOnlyIfUpset, Asking
  <2> QED BY <2>4, <2>5
<1>16. CASE AskSort
  <2>1. qpc' = "take" /\ at' = 1 /\ UNCHANGED <<best, qout>>
    BY <1>16 DEF AskSort
  <2>2. lst' \in Seq(Items)
    BY <1>1, <1>16, Rearranged
  <2>3. 1 \in Nat \ {0} /\ "take" \notin Asking
    BY DEF Asking
  <2> QED BY <1>1, <2>1, <2>2, <2>3 DEF RequestInv, RaisesOnlyIfUpset
<1>17. CASE AskTake
  <2>1. qpc = "take" /\ qpc' = "take" /\ at' = at + 1 /\ UNCHANGED <<lst, qout>>
    BY <1>17 DEF AskTake
  <2>2. best' = Take(best, lst[at]) /\ lst[at] \in Items
    BY <1>1, <1>17 DEF AskTake
  <2>3. best' \in Bests /\ at' \in Nat \ {0} /\ "take" \notin Asking
    BY <1>1, <2>1, <2>2, TakeType DEF Asking
  <2> QED BY <1>1, <2>1, <2>3 DEF RequestInv, RaisesOnlyIfUpset
<1>18. CASE AskChoose
  <2>1. qpc' = "chosen" /\ UNCHANGED <<at, lst, best>> /\ qout' \in Ips \cup {"none"}
    BY <1>1, <1>18 DEF AskChoose, Bests
  <2>2. qout' \in Answers /\ qout' \notin {"raised", "null"}
    BY <2>1, PlainAnswers
  <2> QED BY <1>1, <2>1, <2>2 DEF RequestInv, RaisesOnlyIfUpset, Asking
<1>19. CASE AskMysql
  <2>1. qpc' \in {"least", "done"} /\ UNCHANGED <<at, lst, best>>
        /\ qout' \in Ips \cup {"none", "failed"}
    BY <1>1, <1>19, LeastAnswer DEF AskMysql
  <2>2. qout' \in Answers /\ qout' \notin {"raised", "null"}
    BY <2>1, PlainAnswers
  <2> QED BY <1>1, <2>1, <2>2 DEF RequestInv, RaisesOnlyIfUpset, Asking
<1> QED
  BY <1>7, <1>8, <1>9, <1>10, <1>11, <1>12, <1>13, <1>14, <1>15, <1>16, <1>17,
     <1>18, <1>19 DEF Select

LEMMA StartAndEnd ==
  ASSUME SelectInv, AskStart \/ AskEnd
  PROVE  RequestInv'
<1>1. /\ at' = 1 /\ lst' = <<>> /\ qout' = None /\ best' = Unset
      /\ moved' = FALSE /\ upset' = FALSE
      /\ qpc' \in {"idle", "switch", "mysql"} /\ (qpc' # "idle" => ask' \in Asks)
  BY DEF AskStart, AskEnd
<1>2. lst' \in Seq(Items) /\ best' \in Bests
  BY <1>1, NoItems
<1>3. qout' \in Answers /\ qout' \notin {"raised", "null"}
  BY <1>1, PlainAnswers
<1>4. qpc' \notin Asking
  BY <1>1 DEF Asking
<1>5. at' \in Nat \ {0} /\ moved' \in BOOLEAN /\ upset' \in BOOLEAN
  <2>1. 1 \in Nat \ {0} /\ FALSE \in BOOLEAN
    OBVIOUS
  <2> QED BY <1>1, <2>1
<1>6. qpc' \notin {"region", "exists", "getid", "rtt"}
  BY <1>1
<1> QED
  BY <1>1, <1>2, <1>3, <1>4, <1>5, <1>6 DEF RequestInv, RaisesOnlyIfUpset

LEMMA FailsRequest ==
  ASSUME SelectInv, AskRedisFails, UNCHANGED <<keys, ask, moved>>
  PROVE  RequestInv'
<1>1. qpc # "idle" /\ upset' = TRUE /\ ask' \in Asks /\ moved' \in BOOLEAN
  BY DEF AskRedisFails, SelectInv, RequestInv
<1>2. CASE Go("mysql")
  BY <1>1, <1>2 DEF Go, SelectInv, RequestInv, RaisesOnlyIfUpset, Asking
<1>3. CASE Answer("raised") \/ Answer("failed")
  BY <1>1, <1>3, AnswerInv, PlainAnswers
<1> QED BY <1>2, <1>3 DEF AskRedisFails

LEMMA SelectNextInv ==
  ASSUME SelectInv, [SelectNext]_<<vars, selvars>>
  PROVE  SelectInv'
<1>1. IInv' /\ Averages'
  BY StoreInvs DEF SelectInv
<1>2. KeysInv' \/ Store
  <2>1. CASE UNCHANGED <<keys, script>>
    BY <2>1 DEF SelectInv, KeysInv, keys, script
  <2>2. CASE AskRedisFails /\ UNCHANGED <<keys, ask, moved>>
    BY <2>1, <2>2 DEF AskRedisFails
  <2>3. CASE UNCHANGED <<vars, keys>>
    BY <2>1, <2>3 DEF vars
  <2>4. CASE UNCHANGED <<vars, selvars>>
    BY <2>3, <2>4 DEF selvars
  <2> QED BY <2>2, <2>3, <2>4 DEF SelectNext
<1>3. KeysInv'
  BY <1>2, StoreKeys DEF SelectInv
<1>4. RequestInv'
  <2>1. CASE /\ Store
             /\ moved' = (qpc # "idle" /\ (moved \/ redis' # redis))
             /\ UNCHANGED request
    <3>1. moved' \in BOOLEAN
      BY <2>1 DEF SelectInv, RequestInv
    <3> QED BY <2>1, <3>1, StoreRequest
  <2>2. CASE Select /\ UNCHANGED <<vars, keys, ask, moved, upset>>
    BY <2>2, SelectRequest
  <2>3. CASE AskStart \/ AskEnd
    BY <2>3, StartAndEnd
  <2>4. CASE AskRedisFails /\ UNCHANGED <<keys, ask, moved>>
    BY <2>4, FailsRequest
  <2>5. CASE UNCHANGED <<vars, selvars>>
    BY <2>5 DEF vars, redis, selvars, keys, request, SelectInv, RequestInv, Valid,
                RaisesOnlyIfUpset
  <2> QED BY <2>1, <2>2, <2>3, <2>4, <2>5 DEF SelectNext
<1> QED BY <1>1, <1>3, <1>4 DEF SelectInv

-----------------------------------------------------------------------------
(* The list of the request *)

(* An item stems from an entry of the client's list; its rtt and whether it   *)
(* is valid are what its history says.                                       *)
From(x, q)  == x.ip = q.ip /\ x.own = q.rtt /\ x.loss = q.lose
Plain(x)    == x.valid /\ x.ava = 0 /\ x.rtt = x.own
Averaged(x) == IF x.ava \in {0, AVA_INF} THEN ~x.valid
               ELSE x.valid /\ x.rtt = x.own + x.ava
Eligible(x) == x.valid /\ x.loss = 0
Choosing == {"take", "chosen"}

ListInv ==
  /\ qpc \notin {"exists", "getid", "rtt", "choose"} \cup Choosing =>
       lst = <<>> /\ at = 1
  /\ qpc \notin Choosing => best = Unset
  /\ \A i \in DOMAIN lst : \E j \in DOMAIN ask.qos : From(lst[i], ask.qos[j])
  /\ qpc \in {"exists", "getid", "choose"} => \A i \in DOMAIN lst : Plain(lst[i])
  /\ qpc = "rtt" =>
       \A i \in DOMAIN lst : IF i < at THEN Averaged(lst[i]) ELSE Plain(lst[i])
  /\ qpc \in Choosing =>
       \A i \in DOMAIN lst : IF ask.game = None THEN Plain(lst[i]) ELSE Averaged(lst[i])
  /\ qpc = "choose" => ask.game = None
  /\ qpc \in Choosing => ask.game = None \/ Valid

LEMMA EmptyList ==
  ASSUME lst' = <<>>, at' = 1, best' = Unset, qpc' \notin {"choose"} \cup Choosing
  PROVE  ListInv'
<1>1. DOMAIN lst' = {}
  BY EmptySeq
<1> QED BY <1>1 DEF ListInv

(* Away from the list a request has none. *)
LEMMA AwayFromList ==
  ASSUME SelectInv, ListInv,
         \/ AskSwitch \/ AskSpec \/ AskGetSpec \/ AskGame \/ AskRegion \/ AskMysql
         \/ AskStart \/ AskEnd \/ AskRedisFails
  PROVE  /\ lst' = <<>> /\ at' = 1 /\ best' = Unset
         /\ qpc' \notin {"choose", "getid", "rtt"} \cup Choosing
<1>1. CASE AskSwitch \/ AskSpec \/ AskMysql
  BY <1>1 DEF AskSwitch, AskSpec, AskMysql, Go, Filter, ListInv, Choosing
<1>2. CASE AskGetSpec \/ AskGame \/ AskRegion
  BY <1>2 DEF AskGetSpec, AskGame, AskRegion, Go, Answer, ListInv, Choosing
<1>3. CASE AskStart \/ AskEnd
  BY <1>3 DEF AskStart, AskEnd, Choosing
<1>4. CASE AskRedisFails
  BY <1>4 DEF AskRedisFails, Go, Answer, ListInv, Choosing
<1> QED BY <1>1, <1>2, <1>3, <1>4

LEMMA ItemHistory ==
  ASSUME NEW q \in Entries
  PROVE  From(Item(q), q) /\ Plain(Item(q))
BY DEF Item, From, Plain

LEMMA AverageHistory ==
  ASSUME NEW x \in Items, NEW v \in 0..AVA_INF, Plain(x)
  PROVE  LET y == WithAva(x, v)
         IN  /\ Averaged(y) /\ y.ava = v /\ y.ip = x.ip
             /\ \A q : From(x, q) => From(y, q)
<1>1. x.rtt = x.own /\ x.valid /\ x.rtt \in Nat
  BY DEF Items, Plain
<1>2. x = [ip |-> x.ip, rtt |-> x.rtt, loss |-> x.loss, valid |-> x.valid, own |-> x.own,
           ava |-> x.ava]
  BY DEF Items
<1>3. CASE v \in {0, AVA_INF}
  <2>1. WithAva(x, v) = [ip |-> x.ip, rtt |-> AVA_INF, loss |-> x.loss, valid |-> FALSE,
                         own |-> x.own, ava |-> v]
    BY <1>2, <1>3 DEF WithAva
  <2> QED BY <1>3, <2>1 DEF Averaged, From
<1>4. CASE v \notin {0, AVA_INF}
  <2>1. WithAva(x, v) = [ip |-> x.ip, rtt |-> x.rtt + v, loss |-> x.loss, valid |-> x.valid,
                         own |-> x.own, ava |-> v]
    BY <1>2, <1>4 DEF WithAva
  <2> QED BY <1>1, <1>4, <2>1 DEF Averaged, From
<1> QED BY <1>3, <1>4

LEMMA ListNext ==
  ASSUME SelectInv, ListInv, Select, UNCHANGED <<vars, keys, ask, moved, upset>>
  PROVE  ListInv'
<1>1. /\ ask \in Asks /\ ask' = ask /\ ask.qos \in Seq(Entries)
      /\ at \in Nat \ {0} /\ lst \in Seq(Items)
  BY AskFacts
<1>2. /\ DOMAIN lst = 1..Len(lst) /\ Len(lst) \in Nat
      /\ \A i \in DOMAIN lst : lst[i] \in Items
  BY <1>1
<1>3. ASSUME NEW out, Answer(out) PROVE ListInv'
  BY <1>3, EmptyList DEF Answer, Choosing
<1>4. CASE AskSwitch \/ AskSpec \/ AskGetSpec \/ AskGame \/ AskRegion \/ AskMysql
  BY <1>4, AwayFromList, EmptyList
<1>5. CASE AskExists
  <2>1. qpc = "exists" /\ qpc' \in {"exists", "getid"} /\ UNCHANGED <<lst, best>>
    BY <1>5 DEF AskExists
  <2> QED BY <1>1, <2>1 DEF ListInv, Choosing
<1>6. CASE AskGetId
  <2>1. CASE ask.game # None /\ ask.qos[at].ip \notin known
    BY <1>3, <1>6, <2>1 DEF AskGetId
  <2>2. CASE ~(ask.game # None /\ ask.qos[at].ip \notin known)
    <3>1. qpc = "getid" /\ at \in DOMAIN ask.qos /\ ask.qos[at] \in Entries
      BY <1>1, <1>6 DEF AskGetId, SelectInv, RequestInv
    <3>2. PICK q \in Entries : q = ask.qos[at]
      BY <3>1
    <3>3. /\ lst' = Append(lst, Item(q)) /\ qpc' = "exists" /\ best' = best
      BY <1>6, <2>2, <3>2 DEF AskGetId
    <3>4. \A i \in DOMAIN lst' : (i \in DOMAIN lst /\ lst'[i] = lst[i]) \/ lst'[i] = Item(q)
      BY <1>1, <1>2, <3>3
    <3>5. \A i \in DOMAIN lst' : Plain(lst'[i])
      BY <3>1, <3>4, ItemHistory DEF ListInv
    <3>6. \A i \in DOMAIN lst' : \E j \in DOMAIN ask.qos : From(lst'[i], ask.qos[j])
      BY <3>1, <3>2, <3>4, ItemHistory DEF ListInv
    <3>7. best' = Unset
      BY <3>1, <3>3 DEF ListInv, Choosing
    <3> QED BY <1>1, <3>3, <3>5, <3>6, <3>7 DEF ListInv, Choosing
  <2> QED BY <2>1, <2>2
<1>7. CASE AskFiltered
  <2>1. /\ qpc = "exists" /\ at' = 1 /\ UNCHANGED <<lst, best>>
        /\ qpc' \in {"choose", "rtt"} /\ (qpc' = "choose" => ask.game = None)
    BY <1>7 DEF AskFiltered
  <2>2. \A i \in DOMAIN lst : ~(i < at')
    BY <1>2, <2>1
  <2> QED BY <1>1, <2>1, <2>2 DEF ListInv, Choosing
<1>8. CASE AskRtt
  <2>1. qpc = "rtt" /\ at \in DOMAIN lst
    BY <1>1, <1>2, <1>8 DEF AskRtt
  <2> DEFINE v == rtt[Slot(lst[at].ip)]
  <2>2. CASE v = None
    BY <1>3, <1>8, <2>2 DEF AskRtt
  <2>3. CASE v # None
    <3>1. v \in 0..AVA_INF
      BY <2>1, <2>3, AverageRead
    <3>2. PICK a \in 0..AVA_INF, x \in Items : a = v /\ x = lst[at]
      BY <1>2, <2>1, <3>1
    <3>3. /\ lst' = [lst EXCEPT ![at] = WithAva(x, a)] /\ at' = at + 1
          /\ UNCHANGED <<qpc, best>>
      BY <1>8, <2>3, <3>2 DEF AskRtt
    <3>4. Plain(x)
      BY <1>1, <2>1, <3>2 DEF ListInv
    <3>5. DOMAIN lst' = DOMAIN lst /\ lst'[at] = WithAva(x, a)
          /\ \A i \in DOMAIN lst : i # at => lst'[i] = lst[i]
      BY <1>1, <2>1, <3>3
    <3>6. Averaged(lst'[at]) /\ \A q : From(x, q) => From(lst'[at], q)
      BY <3>4, <3>5, AverageHistory
    <3>7. \A i \in DOMAIN lst' : \E j \in DOMAIN ask.qos : From(lst'[i], ask.qos[j])
      BY <2>1, <3>2, <3>5, <3>6 DEF ListInv
    <3>8. \A i \in DOMAIN lst' : IF i < at' THEN Averaged(lst'[i]) ELSE Plain(lst'[i])
      <4> TAKE i \in DOMAIN lst'
      <4>1. i \in Nat /\ (i < at' <=> i < at \/ i = at)
        BY <1>1, <1>2, <3>3, <3>5
      <4>2. i # at => IF i < at THEN Averaged(lst[i]) ELSE Plain(lst[i])
        BY <2>1, <3>5 DEF ListInv
      <4> QED BY <3>5, <3>6, <4>1, <4>2
    <3> QED BY <1>1, <2>1, <3>3, <3>7, <3>8 DEF ListInv, Choosing
  <2> QED BY <2>2, <2>3
<1>9. CASE AskSort
  <2>2. /\ DOMAIN lst' = DOMAIN lst
        /\ \A i \in DOMAIN lst' : \E j \in DOMAIN lst : lst'[i] = lst[j]
    BY <1>1, <1>9, Rearranged
  <2>3. qpc' = "take" /\ best' = best /\ (qpc = "choose" \/ (qpc = "rtt" /\ at > Len(lst)))
    BY <1>9 DEF AskSort
  <2>4. \A j \in DOMAIN lst : qpc = "rtt" => j < at
    BY <1>1, <1>2, <2>3
  <2>5. qpc = "rtt" => Valid
    BY DEF SelectInv, RequestInv
  <2>6. (qpc = "rtt" => ask.game # None) /\ (qpc = "choose" => ask.game = None)
    BY <2>5, SelectAssumption DEF Valid, ListInv
  <2>7. \A j \in DOMAIN lst : IF ask.game = None THEN Plain(lst[j]) ELSE Averaged(lst[j])
    BY <2>3, <2>4, <2>6 DEF ListInv
  <2>8. \A i \in DOMAIN lst' : IF ask.game = None THEN Plain(lst'[i]) ELSE Averaged(lst'[i])
    BY <2>2, <2>7
  <2>9. \A i \in DOMAIN lst' : \E j \in DOMAIN ask.qos : From(lst'[i], ask.qos[j])
    BY <2>2 DEF ListInv
  <2>10. ask.game = None \/ Valid'
    BY <1>1, <2>3, <2>5, <2>6 DEF Valid
  <2> QED BY <1>1, <2>3, <2>8, <2>9, <2>10 DEF ListInv, Choosing
<1>10. CASE AskTake \/ AskChoose
  <2>1. qpc = "take" /\ qpc' \in Choosing /\ UNCHANGED lst
    BY <1>10 DEF AskTake, AskChoose, Choosing
  <2> QED BY <1>1, <2>1 DEF ListInv, Choosing, Valid
<1> QED
  BY <1>4, <1>5, <1>6, <1>7, <1>8, <1>9, <1>10 DEF Select

-----------------------------------------------------------------------------
(* The choice *)

(* The loop of updatesortqosredis over the sorted list: filtervpnip names     *)
(* the eligible vpns seen so far that are in the band above minrtt, and       *)
(* minrtt is the least rtt seen, but for those that are 0.                    *)
Seen == {i \in DOMAIN lst : i < at /\ Eligible(lst[i])}
BestInv ==
  /\ qpc \in Choosing =>
       /\ \A i, j \in DOMAIN lst : i < j => lst[i].rtt <= lst[j].rtt
       /\ best.min = 0 => \A i \in Seen : lst[i].rtt = 0
       /\ best.min # 0 => \E i \in Seen : lst[i].rtt = best.min
       /\ \A i \in Seen : lst[i].rtt = 0 \/ best.min <= lst[i].rtt
       /\ \A ip \in best.ips :
            \E i \in Seen : lst[i].ip = ip /\ lst[i].rtt <= best.min + MAX_AVA_DIFF
       /\ \A i \in Seen : lst[i].rtt <= best.min + MAX_AVA_DIFF => lst[i].ip \in best.ips
  /\ qpc = "chosen" =>
       /\ at > Len(lst)
       /\ qout \in IF best.ips = {} THEN {"none"} ELSE best.ips

(* One turn of the loop, at an item that no item seen is behind. *)
LEMMA TakeKeepsBest ==
  ASSUME SelectInv, BestInv, AskTake
  PROVE  BestInv'
<1>1. /\ qpc = "take" /\ qpc' = "take" /\ at' = at + 1 /\ lst' = lst
      /\ best' = Take(best, lst[at]) /\ at \in 1..Len(lst)
  BY DEF AskTake, SelectInv, RequestInv
<1>2. /\ lst \in Seq(Items) /\ best \in Bests
      /\ DOMAIN lst = 1..Len(lst) /\ Len(lst) \in Nat
      /\ \A i \in DOMAIN lst : lst[i] \in Items
  BY DEF SelectInv, RequestInv
<1>3. \A i \in DOMAIN lst : lst[i].rtt \in Nat /\ lst[i].ip \in Ips
  BY <1>2 DEF Items
<1>4. best.min \in Nat
  BY <1>2 DEF Bests
<1>5. /\ \A i, j \in DOMAIN lst : i < j => lst[i].rtt <= lst[j].rtt
      /\ best.min = 0 => \A i \in Seen : lst[i].rtt = 0
      /\ best.min # 0 => \E i \in Seen : lst[i].rtt = best.min
      /\ \A i \in Seen : lst[i].rtt = 0 \/ best.min <= lst[i].rtt
      /\ \A ip \in best.ips :
           \E i \in Seen : lst[i].ip = ip /\ lst[i].rtt <= best.min + MAX_AVA_DIFF
      /\ \A i \in Seen : lst[i].rtt <= best.min + MAX_AVA_DIFF => lst[i].ip \in best.ips
  BY <1>1 DEF BestInv, Choosing
<1>6. Seen' = IF Eligible(lst[at]) THEN Seen \cup {at} ELSE Seen
  <2>1. \A i \in DOMAIN lst : i < at' <=> i < at \/ i = at
    BY <1>1, <1>2
  <2> QED BY <1>1, <1>2, <2>1 DEF Seen
<1>7. \A i \in Seen : i \in DOMAIN lst /\ lst[i].rtt <= lst[at].rtt
  BY <1>1, <1>2, <1>5 DEF Seen
<1> DEFINE r == lst[at].rtt
<1>8. r \in Nat /\ at \in DOMAIN lst
  BY <1>1, <1>2, <1>3
<1>9. MAX_AVA_DIFF = 5
  BY DEF MAX_AVA_DIFF
<1>10. CASE ~Eligible(lst[at])
  <2>1. best' = best /\ Seen' = Seen
    BY <1>1, <1>6, <1>10 DEF Take, Eligible
  <2> QED BY <1>1, <1>5, <2>1 DEF BestInv, Choosing
<1>11. CASE Eligible(lst[at]) /\ best.min = 0
  <2>1. best'.min = r /\ best'.ips = best.ips \cup {lst[at].ip}
    BY <1>1, <1>11 DEF Take, Eligible
  <2>2. \A i \in Seen : lst[i].rtt = 0 /\ lst[i].ip \in best.ips
    BY <1>5, <1>9, <1>11
  <2>3. Seen' = Seen \cup {at}
    BY <1>6, <1>11
  <2>4. best'.min = 0 => \A i \in Seen' : lst[i].rtt = 0
    BY <2>1, <2>2, <2>3
  <2>5. best'.min # 0 => \E i \in Seen' : lst[i].rtt = best'.min
    BY <2>1, <2>3
  <2>6. \A i \in Seen' : lst[i].rtt = 0 \/ best'.min <= lst[i].rtt
    BY <1>8, <2>1, <2>2, <2>3
  <2>7. \A ip \in best'.ips :
          \E i \in Seen' : lst[i].ip = ip /\ lst[i].rtt <= best'.min + MAX_AVA_DIFF
    <3> TAKE ip \in best'.ips
    <3>1. CASE ip = lst[at].ip
      BY <1>8, <1>9, <2>1, <2>3, <3>1
    <3>2. CASE ip \in best.ips
      <4>1. PICK i \in Seen : lst[i].ip = ip
        BY <1>5, <3>2
      <4>2. lst[i].rtt <= best'.min + MAX_AVA_DIFF
        BY <1>8, <1>9, <2>1, <2>2
      <4> QED BY <2>3, <4>1, <4>2
    <3> QED BY <2>1, <3>1, <3>2
  <2>8. \A i \in Seen' : lst[i].ip \in best'.ips
    BY <2>1, <2>2, <2>3
  <2> QED BY <1>1, <1>5, <2>4, <2>5, <2>6, <2>7, <2>8 DEF BestInv, Choosing
<1>12. CASE Eligible(lst[at]) /\ best.min # 0
  <2>1. best'.min = best.min
        /\ best'.ips = IF r - best.min <= MAX_AVA_DIFF THEN best.ips \cup {lst[at].ip}
                       ELSE best.ips
    BY <1>1, <1>2, <1>12 DEF Take, Eligible, Bests
  <2>2. Seen' = Seen \cup {at}
    BY <1>6, <1>12
  <2>3. best.min <= r
    BY <1>5, <1>7, <1>12
  <2>4. r - best.min <= MAX_AVA_DIFF <=> r <= best'.min + MAX_AVA_DIFF
    BY <1>4, <1>8, <1>9, <2>1
  <2>5. best'.min # 0 /\ \E i \in Seen' : lst[i].rtt = best'.min
    BY <1>5, <1>12, <2>1, <2>2
  <2>6. \A i \in Seen' : lst[i].rtt = 0 \/ best'.min <= lst[i].rtt
    BY <1>5, <2>1, <2>2, <2>3
  <2>7. \A ip \in best'.ips :
          \E i \in Seen' : lst[i].ip = ip /\ lst[i].rtt <= best'.min + MAX_AVA_DIFF
    BY <1>5, <2>1, <2>2, <2>4
  <2>8. \A i \in Seen' : lst[i].rtt <= best'.min + MAX_AVA_DIFF => lst[i].ip \in best'.ips
    BY <1>5, <2>1, <2>2, <2>4
  <2> QED BY <1>1, <1>5, <2>5, <2>6, <2>7, <2>8 DEF BestInv, Choosing
<1> QED BY <1>10, <1>11, <1>12

LEMMA BestNext ==
  ASSUME SelectInv, ListInv, BestInv, Select, UNCHANGED <<vars, keys, ask, moved, upset>>
  PROVE  BestInv'
<1>1. CASE AskSwitch \/ AskSpec \/ AskGetSpec \/ AskGame \/ AskRegion \/ AskMysql
  <2>1. qpc' \notin Choosing
    BY <1>1, AwayFromList
  <2> QED BY <2>1 DEF BestInv, Choosing
<1>2. CASE AskExists \/ AskGetId \/ AskFiltered \/ AskRtt
  <2>1. qpc' \notin Choosing
    BY <1>2 DEF AskExists, AskGetId, AskFiltered, AskRtt, Answer, Choosing
  <2> QED BY <2>1 DEF BestInv, Choosing
<1>3. CASE AskSort
  <2>1. qpc' = "take" /\ at' = 1 /\ best' = best /\ qpc \notin Choosing
    BY <1>3 DEF AskSort, Choosing
  <2>2. best'.min = 0 /\ best'.ips = {}
    BY <2>1 DEF ListInv, Unset
  <2>3. /\ lst' \in Seq(Items) /\ DOMAIN lst' = DOMAIN lst
        /\ \A i, j \in DOMAIN lst : i < j => lst'[i].rtt <= lst'[j].rtt
    BY <1>3, Rearranged DEF SelectInv, RequestInv
  <2>4. Seen' = {}
    BY <2>1, <2>3 DEF Seen
  <2> QED BY <2>1, <2>2, <2>3, <2>4 DEF BestInv, Choosing
<1>4. CASE AskTake
  BY <1>4, TakeKeepsBest
<1>5. CASE AskChoose
  <2>1. /\ qpc = "take" /\ at > Len(lst) /\ qpc' = "chosen" /\ UNCHANGED <<at, lst, best>>
        /\ qout' \in IF best.ips = {} THEN {"none"} ELSE best.ips
    BY <1>5 DEF AskChoose
  <2>2. Seen' = Seen
    BY <2>1 DEF Seen
  <2> QED BY <2>1, <2>2 DEF BestInv, Choosing
<1> QED BY <1>1, <1>2, <1>3, <1>4, <1>5 DEF Select

-----------------------------------------------------------------------------
(* The average of a game as a whole (region 0) is written only for a game    *)
(* with one region, and then it is the average of that region.               *)
Single(s) == RegionsOf[s[2]] = {s[3]}
Averaging == {"setrtt", "setcnt", "setrtt0", "flip"}

SingleInv ==
  /\ ipc = "off" => regions = RegionsOf
  /\ mpc \in Averaging => Single(cur.slot)
  /\ \A s \in Slots : Served(s) # None => Single(s)
  /\ \A s \in Slots \ torn : Served(s) = None => rtt[Zero(s)] \in {0, None}

LEMMA SingleInit == Init => SingleInv
<1> SUFFICES ASSUME Init PROVE SingleInv
  OBVIOUS
<1>1. \A s \in Slots : Zero(s) \in GameSlots
  BY SlotFacts
<1>2. \A s \in Slots : rtt[Zero(s)] = 0 /\ activeid[s] = -1
  BY <1>1 DEF Init
<1>3. \A s \in Slots : Served(s) = None
  BY <1>2 DEF Served
<1> QED BY <1>2, <1>3 DEF SingleInv, Averaging, Init

LEMMA SingleKept ==
  ASSUME SingleInv, UNCHANGED <<rtt, torn>>, \A s \in Slots : Served(s)' = Served(s),
         mpc' \notin Averaging \/ (UNCHANGED cur /\ (mpc \in Averaging \/ Single(cur.slot))),
         UNCHANGED <<regions, ipc>>
  PROVE  SingleInv'
BY DEF SingleInv, Single

LEMMA SingleNext ==
  ASSUME ~LiveInit, IInv, AverageInv, SingleInv, [Next]_vars
  PROVE  SingleInv'
<1> USE DEF redis, writer, script, reader, ghost
<1>1. /\ mpc \in DealSteps => cur \in Reports /\ cur.slot \in Slots /\ cur.data \in Data
      /\ ipc # "off" => mpc = "dead"
      /\ DOMAIN rtt = Slots \cup GameSlots
      /\ activeid \in [Slots -> {-1, 0, 1, None}]
  BY DEF IInv, TypeOK, RedisTypeOK, WriterTypeOK, OnlyInitOverruns, Reports
<1>2. CASE UNCHANGED <<activeid, buffer, rtt, torn, regions, ipc>>
           /\ (mpc' \notin Averaging \/ (UNCHANGED cur /\ mpc \in Averaging))
  BY <1>2, SingleKept DEF Served
<1>3. CASE DealDelete \/ DealAdd
  <2>1. UNCHANGED <<rtt, torn, regions, ipc>> /\ mpc' \notin Averaging
    BY <1>3 DEF DealDelete, DealAdd, Averaging
  <2> QED BY <1>3, <2>1, WritesAside, SingleKept
<1>4. CASE DealMembers
  <2>1. mpc = "members" /\ cur.slot \in Slots /\ regions = RegionsOf
    BY <1>1, <1>4 DEF DealMembers, DealSteps, SingleInv
  <2>2. UNCHANGED <<activeid, buffer, rtt, torn, regions, ipc>>
    BY <1>4 DEF DealMembers
  <2>3. CASE OtherRegions(cur.slot) # {}
    BY <1>2, <1>4, <2>2, <2>3 DEF DealMembers, LoopOverRegions, Return, Averaging
  <2>4. CASE OtherRegions(cur.slot) = {}
    <3>1. Single(cur.slot) /\ UNCHANGED cur
      BY <1>4, <2>1, <2>4, SlotFacts DEF DealMembers, LoopOverRegions, OtherRegions, Single
    <3> QED BY <2>2, <3>1, SingleKept DEF Served
  <2> QED BY <2>3, <2>4
<1>5. CASE DealSetRtt
  <2>1. /\ mpc = "setrtt" /\ cur.slot \in Slots /\ cur' = cur /\ torn \subseteq torn'
        /\ rtt' = [rtt EXCEPT ![cur.slot] = AvaAverage(cur.data)]
        /\ UNCHANGED <<activeid, buffer, regions, ipc>>
    BY <1>1, <1>5 DEF DealSetRtt, DealSteps
  <2>2. \A s \in Slots : rtt'[Zero(s)] = rtt[Zero(s)]
    BY <1>1, <2>1, SlotFacts
  <2>3. \A s \in Slots : Served(s)' = Served(s)
    BY <2>1 DEF Served
  <2> QED BY <2>1, <2>2, <2>3 DEF SingleInv, Single, Averaging
<1>6. CASE DealSetRtt0
  <2>1. /\ mpc = "setrtt0" /\ cur.slot \in Slots /\ cur' = cur /\ torn' = torn
        /\ rtt' = [rtt EXCEPT ![Zero(cur.slot)] = AvaAverage(cur.data)]
        /\ UNCHANGED <<activeid, buffer, regions, ipc>>
    BY <1>1, <1>6 DEF DealSetRtt0, DealSteps, Zero
  <2>2. Single(cur.slot) /\ cur.slot \in torn
    BY <2>1 DEF SingleInv, AverageInv, Averaging
  <2>3. \A s \in Slots : Zero(s) = Zero(cur.slot) => s = cur.slot
    BY <2>1, <2>2, SlotFacts DEF Single, Zero
  <2>4. \A s \in Slots \ torn : rtt'[Zero(s)] = rtt[Zero(s)]
    BY <1>1, <2>1, <2>2, <2>3, SlotFacts
  <2>5. \A s \in Slots : Served(s)' = Served(s)
    BY <2>1 DEF Served
  <2> QED BY <2>1, <2>2, <2>4, <2>5 DEF SingleInv, Single, Averaging
<1>7. CASE DealFlip
  <2>1. PICK c \in Slots, d \in Data : c = cur.slot /\ d = cur.data
    BY <1>1, <1>7 DEF DealFlip, DealSteps
  <2>2. /\ mpc = "flip" /\ mpc' = "drain" /\ newid \in {0, 1} /\ cur # None
        /\ activeid' = [activeid EXCEPT ![c] = newid] /\ torn' = torn \ {c}
        /\ ipc' = ipc /\ UNCHANGED <<buffer, rtt, regions>>
    BY <1>1, <1>7, <2>1, StoreAssumption
       DEF DealFlip, DealSteps, Return, IInv, TypeOK, WriterTypeOK, Reports
  <2>3. buffer[c][newid] = d /\ Single(c)
    BY <2>1, <2>2 DEF IInv, OnlyInitOverruns, TargetHoldsReport, Written, SingleInv, Averaging
  <2>4. Served(c)' = d /\ d # None
    BY <1>1, <2>2, <2>3, StoreAssumption DEF Served
  <2>5. \A s \in Slots : s # c => Served(s)' = Served(s)
    BY <1>1, <2>2 DEF Served
  <2> QED BY <2>2, <2>3, <2>4, <2>5 DEF SingleInv, Averaging, Single
<1>8. CASE InitFlush
  <2>1. /\ \A x \in Slots \cup GameSlots : rtt'[x] = None
        /\ \A s \in Slots : activeid'[s] = None
    BY <1>8 DEF InitFlush
  <2>2. ipc' = "detect" /\ mpc' = mpc /\ mpc = "dead"
    BY <1>8 DEF InitFlush
  <2>3. \A s \in Slots : Served(s)' = None /\ rtt'[Zero(s)] = None
    BY <2>1, SlotFacts, StoreAssumption DEF Served
  <2> QED BY <2>2, <2>3 DEF SingleInv, Averaging
<1>9. CASE InitSlot
  <2>1. /\ mpc' = mpc /\ mpc = "dead" /\ torn' = torn /\ torn = {}
        /\ \A s \in Slots : activeid[s] \in {-1, None}
        /\ ipc' # "off"
    BY <1>1, <1>9 DEF InitSlot, AverageInv
  <2>2. \A s \in Slots : Served(s) = None /\ rtt[Zero(s)] \in {0, None}
    BY <2>1, StoreAssumption DEF Served, SingleInv
  <2>3. \A s \in Slots : activeid'[s] \in {-1, None} /\ rtt'[Zero(s)] \in {0, rtt[Zero(s)]}
    <3>1. CASE itodo = {}
      BY <1>9, <2>1, <3>1 DEF InitSlot
    <3>2. CASE itodo # {}
      <4>1. PICK s \in itodo : /\ rtt' = [rtt EXCEPT ![s] = 0, ![Zero(s)] = 0]
                               /\ activeid' = [activeid EXCEPT ![s] = -1]
        BY <1>9, <3>2 DEF InitSlot, Zero
      <4> QED BY <1>1, <2>1, <4>1, SlotFacts
    <3> QED BY <3>1, <3>2
  <2>4. \A s \in Slots : Served(s)' = None
    BY <2>3, StoreAssumption DEF Served
  <2> QED BY <2>1, <2>2, <2>3, <2>4 DEF SingleInv, Averaging
<1>10. CASE InitRegions
  <2>1. ipc' = "off" /\ regions' = RegionsOf /\ UNCHANGED <<activeid, buffer, rtt, torn, mpc, cur>>
    BY <1>10 DEF InitRegions
  <2> QED BY <2>1 DEF SingleInv, Single, Served
<1>11. CASE (\E report \in Reports : DoPost(report)) \/ ServerFails \/ MainTop \/ MainDrain
  BY <1>2, <1>11 DEF DoPost, ServerFails, MainTop, MainDrain, Averaging
<1>12. CASE DealExists \/ DealGetId \/ DealSetCnt \/ DealRaises
  BY <1>2, <1>12 DEF DealExists, DealGetId, DealSetCnt, DealRaises, Return, Averaging
<1>13. CASE Crash \/ Restart
  BY <1>2, <1>13 DEF Crash, Restart, Averaging
<1>14. ASSUME NEW r \in Readers, Read(r) PROVE SingleInv'
  <2>1. UNCHANGED <<activeid, buffer, rtt, torn, regions, ipc, mpc, cur>>
    BY <1>14 DEF Read, ReadStart, ReadExists, ReadGet, ReadRange
  <2> QED BY <1>2, <2>1
<1>15. CASE UNCHANGED vars
  BY <1>2, <1>15 DEF vars
<1> QED
  BY <1>3, <1>4, <1>5, <1>6, <1>7, <1>8, <1>9, <1>10, <1>11, <1>12, <1>13, <1>14, <1>15
     DEF Next, Main, Deal, Script

-----------------------------------------------------------------------------
(* While the store stays as it is, no item is missing and the averages that   *)
(* were read are those in the store.                                         *)
Present(j) == ask.qos[j].ip \in Ips => \E i \in DOMAIN lst : From(lst[i], ask.qos[j])

UnmovedInv ==
  ask.game \in Games /\ ~moved =>
    /\ qpc \in Asking \cup {"switch"} => ~upset
    /\ qpc \in {"exists", "getid"} => \A j \in DOMAIN ask.qos : j < at => Present(j)
    /\ qpc \in {"rtt"} \cup Choosing => \A j \in DOMAIN ask.qos : Present(j)
    /\ qpc = "rtt" =>
         \A i \in DOMAIN lst : i < at => lst[i].ava = rtt[Slot(lst[i].ip)]
    /\ qpc \in Choosing => \A i \in DOMAIN lst : lst[i].ava = rtt[Slot(lst[i].ip)]

(* Only a flush upsets a request, and it takes the regions of the games away. *)
LEMMA StoreUnmoved ==
  ASSUME SelectInv, SingleInv, UnmovedInv, Store, UNCHANGED request,
         moved' = (qpc # "idle" /\ (moved \/ redis' # redis))
  PROVE  UnmovedInv'
<1>1. UNCHANGED <<qpc, ask, at, lst, best, qout>>
  BY DEF request
<1>2. CASE qpc = "idle"
  BY <1>1, <1>2 DEF UnmovedInv, Asking, Choosing
<1>3. CASE qpc # "idle" /\ moved'
  BY <1>3 DEF UnmovedInv
<1>4. CASE qpc # "idle" /\ ~moved'
  <2>1. ~moved /\ redis' = redis
    BY <1>4
  <2>2. rtt' = rtt /\ regions' = regions
    BY <2>1 DEF redis
  <2>3. CASE FlushKeys
    <3>1. ASSUME ask.game \in Games PROVE FALSE
      <4>1. regions[ask.game] = RegionsOf[ask.game] /\ regions'[ask.game] = {}
        BY <2>3, <3>1 DEF FlushKeys, InitFlush, SingleInv
      <4> QED BY <2>2, <3>1, <4>1, SelectAssumption
    <3> QED BY <1>1, <3>1 DEF UnmovedInv
  <2>4. CASE ~FlushKeys
    <3>1. upset' = upset
      BY <2>4 DEF Store, Writer, InitOptions, InitVpnInfo, InitDetect, InitGames, Administrator
    <3>2. ask' = ask /\ lst' = lst
      BY <1>1
    <3> QED BY <1>1, <2>1, <2>2, <3>1 DEF UnmovedInv, Present, Slot
  <2> QED BY <2>3, <2>4
<1> QED BY <1>2, <1>3, <1>4

LEMMA AskUnmoved ==
  ASSUME SelectInv, ListInv, UnmovedInv, Select, UNCHANGED <<vars, keys, ask, moved, upset>>
  PROVE  UnmovedInv'
<1>1. /\ ask \in Asks /\ ask' = ask /\ ask.qos \in Seq(Entries)
      /\ at \in Nat \ {0} /\ lst \in Seq(Items)
      /\ UNCHANGED <<moved, upset, rtt>>
  BY AskFacts DEF vars, redis
<1>2. /\ DOMAIN lst = 1..Len(lst) /\ Len(lst) \in Nat
      /\ \A i \in DOMAIN lst : lst[i] \in Items
      /\ DOMAIN ask.qos = 1..Len(ask.qos) /\ Len(ask.qos) \in Nat
  BY <1>1
<1> SUFFICES ASSUME ask.game \in Games, ~moved PROVE UnmovedInv'
  BY <1>1 DEF UnmovedInv
<1>3. ask.game # None
  BY SelectAssumption
<1>4. ASSUME NEW out, Answer(out) PROVE UnmovedInv'
  BY <1>4 DEF Answer, Choosing, Asking, UnmovedInv
<1>5. CASE AskSwitch \/ AskSpec \/ AskGetSpec \/ AskGame \/ AskRegion \/ AskMysql
  <2>1. at' = 1 /\ qpc' \notin {"getid", "rtt"} \cup Choosing
    BY <1>5, AwayFromList
  <2>2. qpc' \in Asking \cup {"switch"} => qpc \in Asking \cup {"switch"}
    BY <1>5 DEF AskSwitch, AskSpec, AskGetSpec, AskGame, AskRegion, AskMysql, Answer, Go, Asking
  <2>3. \A j \in DOMAIN ask.qos : ~(j < at')
    BY <1>2, <2>1
  <2> QED BY <1>1, <2>1, <2>2, <2>3 DEF UnmovedInv
<1>6. CASE AskExists
  <2>1. qpc = "exists" /\ at \in DOMAIN ask.qos /\ UNCHANGED lst /\ ~upset
    BY <1>1, <1>2, <1>6 DEF AskExists, UnmovedInv, Asking
  <2>2. known = Ips
    BY <2>1, OnInv DEF Asking
  <2>3. \A j \in DOMAIN ask.qos : j < at => Present(j)'
    BY <1>1, <2>1 DEF UnmovedInv, Present
  <2>4. CASE ask.qos[at].ip \in known
    <3>1. qpc' = "getid" /\ at' = at
      BY <1>6, <2>4 DEF AskExists
    <3> QED BY <1>1, <2>1, <2>3, <3>1 DEF UnmovedInv, Choosing
  <2>5. CASE ask.qos[at].ip \notin known
    <3>1. qpc' = "exists" /\ at' = at + 1
      BY <1>6, <2>1, <2>5 DEF AskExists
    <3>3. \A j \in DOMAIN ask.qos : j < at' => j < at \/ j = at
      BY <1>1, <1>2, <3>1
    <3>4. \A j \in DOMAIN ask.qos : j < at' => Present(j)'
      <4> TAKE j \in DOMAIN ask.qos
      <4>1. CASE j = at
        BY <1>1, <2>1, <2>2, <2>5, <4>1 DEF Present
      <4>2. CASE j < at
        BY <2>3, <4>2
      <4> QED BY <3>3, <4>1, <4>2
    <3> QED BY <1>1, <2>1, <3>1, <3>4 DEF UnmovedInv, Choosing
  <2> QED BY <2>4, <2>5
<1>7. CASE AskGetId
  <2>1. CASE ask.game # None /\ ask.qos[at].ip \notin known
    BY <1>4, <1>7, <2>1 DEF AskGetId
  <2>2. CASE ~(ask.game # None /\ ask.qos[at].ip \notin known)
    <3>1. qpc = "getid" /\ at \in DOMAIN ask.qos /\ ask.qos[at] \in Entries /\ ~upset
      BY <1>1, <1>7 DEF AskGetId, SelectInv, RequestInv, UnmovedInv, Asking
    <3>2. PICK q \in Entries : q = ask.qos[at]
      BY <3>1
    <3>3. lst' = Append(lst, Item(q)) /\ at' = at + 1 /\ qpc' = "exists"
      BY <1>7, <2>2, <3>2 DEF AskGetId
    <3>4. /\ \A i \in DOMAIN lst : i \in DOMAIN lst' /\ lst'[i] = lst[i]
          /\ Len(lst) + 1 \in DOMAIN lst' /\ lst'[Len(lst) + 1] = Item(q)
      BY <1>1, <1>2, <3>3
    <3>5. \A j \in DOMAIN ask.qos : j < at' => Present(j)'
      <4> TAKE j \in DOMAIN ask.qos
      <4>1. CASE j = at
        BY <1>1, <3>2, <3>4, <4>1, ItemHistory DEF Present
      <4>2. CASE j < at
        BY <1>1, <3>1, <3>4, <4>2 DEF Present, UnmovedInv
      <4>3. j < at' => j < at \/ j = at
        BY <1>1, <1>2, <3>3
      <4> QED BY <4>1, <4>2, <4>3
    <3> QED BY <1>1, <3>1, <3>3, <3>5 DEF UnmovedInv, Choosing
  <2> QED BY <2>1, <2>2
<1>8. CASE AskFiltered
  <2>1. /\ qpc = "exists" /\ at > Len(ask.qos) /\ at' = 1 /\ UNCHANGED lst
        /\ qpc' = "rtt" /\ ~upset
    BY <1>3, <1>8 DEF AskFiltered, UnmovedInv, Asking
  <2>2. \A j \in DOMAIN ask.qos : j < at
    BY <1>1, <1>2, <2>1
  <2>3. \A j \in DOMAIN ask.qos : Present(j)'
    BY <1>1, <2>1, <2>2 DEF Present, UnmovedInv
  <2>4. \A i \in DOMAIN lst : ~(i < at')
    BY <1>2, <2>1
  <2> QED BY <1>1, <2>1, <2>3, <2>4 DEF UnmovedInv, Choosing
<1>9. CASE AskRtt
  <2>1. qpc = "rtt" /\ at \in DOMAIN lst /\ ~upset
    BY <1>1, <1>2, <1>9 DEF AskRtt, UnmovedInv, Asking
  <2> DEFINE v == rtt[Slot(lst[at].ip)]
  <2>2. CASE v = None
    BY <1>4, <1>9, <2>2 DEF AskRtt
  <2>3. CASE v # None
    <3>1. v \in 0..AVA_INF
      BY <2>1, <2>3, AverageRead
    <3>2. PICK a \in 0..AVA_INF, x \in Items : a = v /\ x = lst[at]
      BY <1>2, <2>1, <3>1
    <3>3. lst' = [lst EXCEPT ![at] = WithAva(x, a)] /\ at' = at + 1 /\ UNCHANGED qpc
      BY <1>9, <2>3, <3>2 DEF AskRtt
    <3>4. Plain(x)
      BY <1>1, <2>1, <3>2 DEF ListInv
    <3>5. DOMAIN lst' = DOMAIN lst /\ lst'[at] = WithAva(x, a)
          /\ \A i \in DOMAIN lst : i # at => lst'[i] = lst[i]
      BY <1>1, <2>1, <3>3
    <3>6. lst'[at].ava = a /\ lst'[at].ip = x.ip /\ \A q : From(x, q) => From(lst'[at], q)
      BY <3>4, <3>5, AverageHistory
    <3>7. \A q : \A i \in DOMAIN lst : From(lst[i], q) => From(lst'[i], q)
      BY <3>2, <3>5, <3>6
    <3>8. \A j \in DOMAIN ask.qos : Present(j)'
      BY <1>1, <2>1, <3>5, <3>7 DEF Present, UnmovedInv
    <3>9. \A i \in DOMAIN lst' : i < at' => lst'[i].ava = rtt[Slot(lst'[i].ip)]
      <4> TAKE i \in DOMAIN lst'
      <4>1. i < at' => i < at \/ i = at
        BY <1>1, <1>2, <3>3, <3>5
      <4>2. i # at /\ i < at => lst[i].ava = rtt[Slot(lst[i].ip)]
        BY <2>1, <3>5 DEF UnmovedInv
      <4> QED BY <3>2, <3>5, <3>6, <4>1, <4>2
    <3> QED BY <1>1, <2>1, <3>3, <3>8, <3>9 DEF UnmovedInv, Choosing, Slot
  <2> QED BY <2>2, <2>3
<1>10. CASE AskSort
  <2>1. qpc' = "take" /\ (qpc = "choose" \/ (qpc = "rtt" /\ at > Len(lst)))
    BY <1>10 DEF AskSort
  <2>2. qpc = "rtt" /\ \A i \in DOMAIN lst : i < at
    BY <1>1, <1>2, <1>3, <2>1 DEF ListInv
  <2>3. /\ DOMAIN lst' = DOMAIN lst
        /\ \A i \in DOMAIN lst : \E j \in DOMAIN lst : lst'[i] = lst[j]
        /\ \A j \in DOMAIN lst : \E i \in DOMAIN lst : lst'[i] = lst[j]
    BY <1>1, <1>10, Rearranged
  <2>4. \A j \in DOMAIN ask.qos : Present(j)'
    BY <1>1, <2>2, <2>3 DEF Present, UnmovedInv
  <2>5. \A i \in DOMAIN lst : lst[i].ava = rtt[Slot(lst[i].ip)]
    BY <2>2 DEF UnmovedInv
  <2>6. \A i \in DOMAIN lst' : lst'[i].ava = rtt[Slot(lst'[i].ip)]
    <3> TAKE i \in DOMAIN lst'
    <3>1. PICK j \in DOMAIN lst : lst'[i] = lst[j]
      BY <2>3
    <3> QED BY <2>5, <3>1
  <2>7. qpc' \notin Asking \cup {"switch"}
    BY <2>1 DEF Asking
  <2> QED BY <1>1, <2>1, <2>4, <2>6, <2>7 DEF UnmovedInv, Choosing, Slot
<1>11. CASE AskTake \/ AskChoose
  <2>1. qpc = "take" /\ qpc' \in Choosing /\ UNCHANGED lst
    BY <1>11 DEF AskTake, AskChoose, Choosing
  <2>2. \A j : Present(j)' = Present(j)
    BY <1>1, <2>1 DEF Present
  <2>3. \A ip : Slot(ip)' = Slot(ip)
    BY <1>1 DEF Slot
  <2>4. qpc \in Choosing /\ qpc' \notin Asking \cup {"switch", "exists", "getid", "rtt"}
    BY <2>1 DEF Choosing, Asking
  <2> QED BY <1>1, <2>1, <2>2, <2>3, <2>4 DEF UnmovedInv
<1> QED
  BY <1>5, <1>6, <1>7, <1>8, <1>9, <1>10, <1>11 DEF Select

-----------------------------------------------------------------------------
(* What the answer is worth *)
LEMMA ChosenItems ==
  ASSUME SelectInv, ListInv, BestInv, qpc = "chosen"
  PROVE  /\ \A i \in DOMAIN lst :
              /\ lst[i] \in Items /\ lst[i].own \in Nat /\ lst[i].ava \in 0..AVA_INF
              /\ Eligible(lst[i]) <=> Counts(lst[i])
              /\ Eligible(lst[i]) => lst[i].rtt = lst[i].own + lst[i].ava
         /\ Seen = {i \in DOMAIN lst : Counts(lst[i])}
         /\ IF Seen = {} THEN qout = "none"
            ELSE \E i \in Seen :
                   /\ lst[i].ip = qout
                   /\ \/ \E j \in Seen : lst[j].rtt = 0
                      \/ \A j \in Seen : lst[i].rtt <= lst[j].rtt + MAX_AVA_DIFF
<1>1. /\ lst \in Seq(Items) /\ DOMAIN lst = 1..Len(lst) /\ Len(lst) \in Nat /\ best \in Bests
      /\ at \in Nat /\ at > Len(lst)
      /\ qout \in IF best.ips = {} THEN {"none"} ELSE best.ips
  BY DEF SelectInv, RequestInv, BestInv
<1>2. \A i \in DOMAIN lst : lst[i] \in Items
  BY <1>1
<1>3. \A i \in DOMAIN lst : /\ lst[i].own \in Nat /\ lst[i].rtt \in Nat /\ lst[i].loss \in Nat
                            /\ lst[i].ava \in 0..AVA_INF /\ lst[i].valid \in BOOLEAN
  BY <1>2 DEF Items
<1>4. \A i \in DOMAIN lst : Eligible(lst[i]) <=> Counts(lst[i])
  BY <1>3 DEF ListInv, Choosing, Plain, Averaged, Eligible, Counts
<1>5. \A i \in DOMAIN lst : Eligible(lst[i]) => lst[i].rtt = lst[i].own + lst[i].ava
  <2> TAKE i \in DOMAIN lst
  <2>1. CASE ask.game = None
    <3>1. lst[i].rtt = lst[i].own /\ lst[i].ava = 0 /\ lst[i].own \in Nat
      BY <1>3, <2>1 DEF ListInv, Choosing, Plain
    <3> QED BY <3>1
  <2>2. CASE ask.game # None
    BY <2>2 DEF ListInv, Choosing, Averaged, Eligible
  <2> QED BY <2>1, <2>2
<1>6. Seen = {i \in DOMAIN lst : Counts(lst[i])}
  <2>1. \A i \in DOMAIN lst : i < at
    BY <1>1
  <2> QED BY <1>4, <2>1 DEF Seen
<1>7. /\ best.min = 0 => \A i \in Seen : lst[i].rtt = 0
      /\ best.min # 0 => \E i \in Seen : lst[i].rtt = best.min
      /\ \A i \in Seen : lst[i].rtt = 0 \/ best.min <= lst[i].rtt
      /\ \A ip \in best.ips :
           \E i \in Seen : lst[i].ip = ip /\ lst[i].rtt <= best.min + MAX_AVA_DIFF
      /\ \A i \in Seen : lst[i].rtt <= best.min + MAX_AVA_DIFF => lst[i].ip \in best.ips
  BY DEF BestInv, Choosing
<1>8. best.min \in Nat /\ MAX_AVA_DIFF = 5
  BY <1>1 DEF Bests, MAX_AVA_DIFF
<1>9. IF Seen = {} THEN qout = "none"
      ELSE \E i \in Seen :
             /\ lst[i].ip = qout
             /\ \/ \E j \in Seen : lst[j].rtt = 0
                \/ \A j \in Seen : lst[i].rtt <= lst[j].rtt + MAX_AVA_DIFF
  <2>1. CASE Seen = {}
    BY <1>1, <1>7, <2>1
  <2>2. CASE Seen # {}
    <3>1. best.ips # {}
      <4>1. PICK i \in Seen : lst[i].rtt = best.min
        BY <1>7, <2>2
      <4> QED BY <1>7, <1>8, <4>1
    <3>2. PICK i \in Seen : lst[i].ip = qout /\ lst[i].rtt <= best.min + MAX_AVA_DIFF
      BY <1>1, <1>7, <3>1
    <3>3. \A j \in Seen : j \in DOMAIN lst /\ lst[j].rtt \in Nat
      BY <1>3 DEF Seen
    <3>4. (\E j \in Seen : lst[j].rtt = 0)
          \/ \A j \in Seen : lst[i].rtt <= lst[j].rtt + MAX_AVA_DIFF
      BY <1>7, <1>8, <3>2, <3>3
    <3> QED BY <2>2, <3>2, <3>4
  <2> QED BY <2>1, <2>2
<1> QED BY <1>2, <1>3, <1>4, <1>5, <1>6, <1>9

LEMMA BestAnswer ==
  ASSUME SelectInv, ListInv, BestInv
  PROVE  AnswersBest
<1> DEFINE Found == {i \in DOMAIN lst : Counts(lst[i])}
           Total(i) == lst[i].own + lst[i].ava
<1> SUFFICES ASSUME qpc = "chosen"
             PROVE  IF Found = {} THEN qout = "none"
                    ELSE \/ \E i \in Found : Total(i) = 0
                         \/ \E i \in Found :
                              /\ lst[i].ip = qout
                              /\ \A j \in Found : Total(i) <= Total(j) + MAX_AVA_DIFF
  BY DEF AnswersBest
<1>1. Seen = Found /\ \A i \in Seen : Total(i) = lst[i].rtt
  BY ChosenItems DEF Seen
<1> HIDE DEF Found, Total
<1>2. IF Seen = {} THEN qout = "none"
      ELSE \E i \in Seen :
             /\ lst[i].ip = qout
             /\ \/ \E j \in Seen : lst[j].rtt = 0
                \/ \A j \in Seen : lst[i].rtt <= lst[j].rtt + MAX_AVA_DIFF
  BY ChosenItems
<1> QED BY <1>1, <1>2

(* The average a vpn is chosen by is that of the list its clients are served. *)
LEMMA AverageOfServed ==
  ASSUME SelectInv, AverageInv, SingleInv, torn = {}, Valid, NEW ip \in Ips,
         rtt[Slot(ip)] # None
  PROVE  /\ ServedRtt(ip) \notin {0, AVA_INF} <=> rtt[Slot(ip)] \notin {0, AVA_INF}
         /\ ServedRtt(ip) \notin {0, AVA_INF} => ServedRtt(ip) = rtt[Slot(ip)]
<1> DEFINE region == IF ask.region = 0 THEN CHOOSE r \in RegionsOf[ask.game] : TRUE
                     ELSE ask.region
           s == <<VpnOf[ip], ask.game, region>>
<1>1. region \in RegionsOf[ask.game]
  BY SelectAssumption DEF Valid
<1>2. ServedRtt(ip) = IF Served(s) = None THEN AVA_INF ELSE AvaAverage(Served(s))
  BY DEF ServedRtt
<1>3. Slot(ip) = IF ask.region = 0 THEN Zero(s) ELSE s
  BY DEF Slot, Zero
<1>4. s \in Slots
  <2>1. VpnOf[ip] \in Vpns /\ ask.game \in Games /\ region \in Regions
    BY <1>1, SelectAssumption DEF Valid, Regions
  <2> QED BY <1>1, <2>1 DEF Slots
<1> HIDE DEF region, s
<1>5. PICK t \in Slots : t = s
  BY <1>4
<1>6. AverageAt(t) /\ (Served(t) # None => Single(t))
      /\ (Served(t) = None => rtt[Zero(t)] \in {0, None})
  BY DEF AverageInv, SingleInv
<1>7. CASE Served(t) = None
  <2>1. rtt[Slot(ip)] = 0
    BY <1>3, <1>5, <1>6, <1>7 DEF AverageAt
  <2> QED BY <1>2, <1>5, <1>7, <2>1
<1>8. CASE Served(t) # None
  <2>1. rtt[t] = AvaAverage(Served(t)) /\ rtt[Zero(t)] = rtt[t]
    BY <1>6, <1>8 DEF AverageAt, Single
  <2> QED BY <1>2, <1>3, <1>5, <1>8, <2>1
<1> QED BY <1>7, <1>8

LEMMA ServedChoice ==
  ASSUME SelectInv, ListInv, BestInv, UnmovedInv, AverageInv, SingleInv
  PROVE  ChoiceMatchesServed
<1> DEFINE Found == {q \in {ask.qos[j] : j \in DOMAIN ask.qos} :
                      /\ q.ip \in Ips /\ q.lose = 0
                      /\ ServedRtt(q.ip) \notin {0, AVA_INF}}
<1> SUFFICES ASSUME qpc = "chosen", ask.game # None, ~moved, torn = {}
             PROVE  IF Found = {} THEN qout = "none"
                    ELSE \E p \in Found :
                           /\ p.ip = qout
                           /\ \A q \in Found : p.rtt + ServedRtt(p.ip)
                                <= q.rtt + ServedRtt(q.ip) + MAX_AVA_DIFF
  BY DEF ChoiceMatchesServed
<1>1. Valid /\ ask.game \in Games /\ qpc \in Choosing
  BY DEF ListInv, Valid, Choosing
<1>2. /\ \A j \in DOMAIN ask.qos : Present(j)
      /\ \A i \in DOMAIN lst : lst[i].ava = rtt[Slot(lst[i].ip)]
  BY <1>1 DEF UnmovedInv
<1>3. /\ \A i \in DOMAIN lst :
           /\ lst[i] \in Items /\ lst[i].own \in Nat /\ lst[i].ava \in 0..AVA_INF
           /\ Eligible(lst[i]) <=> Counts(lst[i])
           /\ Eligible(lst[i]) => lst[i].rtt = lst[i].own + lst[i].ava
      /\ Seen = {i \in DOMAIN lst : Counts(lst[i])}
      /\ IF Seen = {} THEN qout = "none"
         ELSE \E i \in Seen :
                /\ lst[i].ip = qout
                /\ \/ \E j \in Seen : lst[j].rtt = 0
                   \/ \A j \in Seen : lst[i].rtt <= lst[j].rtt + MAX_AVA_DIFF
  BY ChosenItems
(* The items that count are the entries found, with the same total. *)
<1>4. \A i \in DOMAIN lst :
        /\ lst[i].ip \in Ips
        /\ lst[i].ava \notin {0, AVA_INF} <=> ServedRtt(lst[i].ip) \notin {0, AVA_INF}
        /\ lst[i].ava \notin {0, AVA_INF} => ServedRtt(lst[i].ip) = lst[i].ava
  <2> TAKE i \in DOMAIN lst
  <2>1. PICK ip \in Ips : ip = lst[i].ip
    BY <1>3 DEF Items
  <2>2. rtt[Slot(ip)] # None
    BY <1>2, <1>3, <2>1, SelectAssumption
  <2> QED BY <1>1, <1>2, <2>1, <2>2, AverageOfServed
<1> DEFINE Match(i, q) == /\ lst[i].ip = q.ip /\ lst[i].own = q.rtt
                          /\ lst[i].rtt = q.rtt + ServedRtt(q.ip)
                          /\ lst[i].rtt # 0 /\ lst[i].rtt \in Nat
<1>5. ASSUME NEW i \in Seen PROVE \E q \in Found : Match(i, q)
  <2>1. i \in DOMAIN lst /\ Counts(lst[i]) /\ Eligible(lst[i])
    BY <1>3
  <2>2. PICK j \in DOMAIN ask.qos : From(lst[i], ask.qos[j])
    BY <2>1 DEF ListInv
  <2>3. lst[i].loss = 0 /\ lst[i].ava \notin {0, AVA_INF}
    BY <2>1 DEF Counts
  <2>4. ask.qos[j] \in Found
    BY <1>4, <2>1, <2>2, <2>3 DEF From
  <2>5. lst[i].own \in Nat /\ lst[i].ava \in Nat /\ lst[i].ava # 0
        /\ lst[i].rtt = lst[i].own + lst[i].ava
    BY <1>3, <2>1, <2>3, AvaInfinite
  <2>6. Match(i, ask.qos[j])
    BY <1>4, <2>1, <2>2, <2>3, <2>5 DEF From
  <2> HIDE DEF Match, Found
  <2> QED BY <2>4, <2>6
<1>6. ASSUME NEW q \in Found PROVE \E i \in Seen : Match(i, q)
  <2>1. PICK j \in DOMAIN ask.qos : q = ask.qos[j]
    OBVIOUS
  <2>2. PICK i \in DOMAIN lst : From(lst[i], q)
    BY <1>2, <2>1 DEF Present
  <2>3. lst[i].loss = 0 /\ lst[i].ava \notin {0, AVA_INF}
    BY <1>4, <2>2 DEF From
  <2>4. i \in Seen /\ Eligible(lst[i])
    BY <1>3, <2>3 DEF Counts
  <2>5. lst[i].own \in Nat /\ lst[i].ava \in Nat /\ lst[i].ava # 0
        /\ lst[i].rtt = lst[i].own + lst[i].ava
    BY <1>3, <2>3, <2>4, AvaInfinite
  <2>6. Match(i, q)
    BY <1>4, <2>2, <2>3, <2>5 DEF From
  <2> HIDE DEF Match
  <2> QED BY <2>4, <2>6
<1>7. CASE Seen = {}
  <2>1. Found = {}
    BY <1>6, <1>7
  <2> QED BY <1>3, <1>7, <2>1
<1>8. CASE Seen # {}
  <2> HIDE DEF Found
  <2>1. PICK i \in Seen :
          /\ lst[i].ip = qout
          /\ \/ \E j \in Seen : lst[j].rtt = 0
             \/ \A j \in Seen : lst[i].rtt <= lst[j].rtt + MAX_AVA_DIFF
    BY <1>3, <1>8
  <2>2. \A j \in Seen : lst[j].rtt # 0
    BY <1>5
  <2>3. PICK p \in Found : Match(i, p)
    BY <1>5
  <2>4. ASSUME NEW q \in Found
        PROVE  p.rtt + ServedRtt(p.ip) <= q.rtt + ServedRtt(q.ip) + MAX_AVA_DIFF
    <3>1. PICK j \in Seen : Match(j, q)
      BY <1>6
    <3> QED BY <2>1, <2>2, <2>3, <3>1
  <2> QED BY <2>1, <2>3, <2>4
<1> QED BY <1>7, <1>8

-----------------------------------------------------------------------------
(* The steps of the composed specification *)

(* Beside SelectInv: what the request holds, and what it is worth. *)
ChoiceInv == SelectInv /\ ListInv /\ BestInv

LEMMA ChoiceInit == SelectInit => ChoiceInv
<1> SUFFICES ASSUME SelectInit PROVE ChoiceInv
  OBVIOUS
<1>1. qpc = "idle" /\ lst = <<>> /\ at = 1 /\ best = Unset
  BY DEF SelectInit
<1>2. DOMAIN lst = {}
  BY <1>1, EmptySeq
<1>3. ListInv /\ BestInv
  BY <1>1, <1>2 DEF ListInv, BestInv, Choosing
<1> QED BY <1>3, SelectInitInv DEF ChoiceInv

LEMMA ChoiceNext ==
  ASSUME ChoiceInv, [SelectNext]_<<vars, selvars>>
  PROVE  ChoiceInv'
<1>1. SelectInv'
  BY SelectNextInv DEF ChoiceInv
<1>2. CASE UNCHANGED request
  <2>1. UNCHANGED <<qpc, ask, at, lst, best, qout>>
    BY <1>2 DEF request
  <2>2. Valid' = Valid /\ Seen' = Seen
    BY <2>1 DEF Valid, Seen
  <2>3. ListInv' /\ BestInv'
    BY <2>1, <2>2 DEF ChoiceInv, ListInv, BestInv
  <2> QED BY <1>1, <2>3 DEF ChoiceInv
<1>3. CASE Select /\ UNCHANGED <<vars, keys, ask, moved, upset>>
  BY <1>1, <1>3, ListNext, BestNext DEF ChoiceInv
<1>4. CASE AskStart \/ AskEnd \/ AskRedisFails
  <2>1. lst' = <<>> /\ at' = 1 /\ best' = Unset /\ qpc' \notin {"choose"} \cup Choosing
    BY <1>4, AwayFromList DEF ChoiceInv
  <2>2. ListInv'
    BY <2>1, EmptyList
  <2>3. BestInv'
    BY <2>1 DEF BestInv, Choosing
  <2> QED BY <1>1, <2>2, <2>3 DEF ChoiceInv
<1> QED BY <1>2, <1>3, <1>4 DEF SelectNext, selvars

(* Beside ChoiceInv: what the store serves, and that the request goes by it. *)
ServedInv == AverageInv /\ SingleInv /\ UnmovedInv

LEMMA ServedInit == SelectInit => ServedInv
<1> SUFFICES ASSUME SelectInit PROVE ServedInv
  OBVIOUS
<1>1. qpc = "idle" /\ upset = FALSE
  BY DEF SelectInit
<1>2. UnmovedInv
  BY <1>1 DEF UnmovedInv, Choosing
<1> QED BY <1>2, AverageInit, SingleInit DEF SelectInit, ServedInv

LEMMA ServedNext ==
  ASSUME ~LiveInit, ChoiceInv, ServedInv, [SelectNext]_<<vars, selvars>>
  PROVE  ServedInv'
<1>1. AverageInv' /\ SingleInv'
  <2>1. CASE [Next]_vars
    BY <2>1, AverageNext, SingleNext DEF ChoiceInv, ServedInv, SelectInv
  <2>2. CASE AskRedisFails
    <3>1. UNCHANGED <<activeid, buffer, rtt, cnt, regions, torn, ipc, mpc, cur>>
      BY <2>2 DEF AskRedisFails, redis, writer, script
    <3>2. \A s \in Slots : Served(s)' = Served(s)
      BY <3>1 DEF Served
    <3> QED BY <3>1, <3>2, AverageKept, SingleKept DEF ServedInv
  <2>3. CASE UNCHANGED <<vars, selvars>>
    BY <2>1, <2>3
  <2> QED BY <2>1, <2>2, <2>3, StoreOnly
<1>2. UnmovedInv'
  <2>1. CASE /\ Store
             /\ moved' = (qpc # "idle" /\ (moved \/ redis' # redis))
             /\ UNCHANGED request
    BY <2>1, StoreUnmoved DEF ChoiceInv, ServedInv
  <2>2. CASE Select /\ UNCHANGED <<vars, keys, ask, moved, upset>>
    BY <2>2, AskUnmoved DEF ChoiceInv, ServedInv
  <2>3. CASE AskStart \/ AskEnd
    BY <2>3 DEF AskStart, AskEnd, UnmovedInv, Choosing
  <2>4. CASE AskRedisFails
    BY <2>4 DEF AskRedisFails, Go, Answer, UnmovedInv, Choosing, Asking
  <2>5. CASE UNCHANGED <<vars, selvars>>
    BY <2>5 DEF vars, redis, selvars, keys, request, ServedInv, UnmovedInv, Present, Slot
  <2> QED BY <2>1, <2>2, <2>3, <2>4, <2>5 DEF SelectNext
<1> QED BY <1>1, <1>2 DEF ServedInv

-----------------------------------------------------------------------------
THEOREM SelectInvariant == SelectSpec => []SelectInv
<1>1. SelectInit => SelectInv
  BY SelectInitInv
<1>2. SelectInv /\ [SelectNext]_<<vars, selvars>> => SelectInv'
  BY SelectNextInv
<1> QED BY <1>1, <1>2, PTL DEF SelectSpec

(* A request of cc_getvpnip.lua raises, or answers null, only if             *)
(* redis_init.py flushed the store or Redis failed while it ran.             *)
THEOREM RaisesOnlyWhenUpset == SelectSpec => []RaisesOnlyIfUpset
<1>1. SelectInv => RaisesOnlyIfUpset
  BY DEF SelectInv, RequestInv
<1> QED BY <1>1, SelectInvariant, PTL

(* The vpn a request names is among the best by what it read, and it names    *)
(* none only if there is none to name: the loop of cc_getvpnip.lua over the   *)
(* sorted list, for any list.                                                *)
THEOREM NamesOneOfTheBest == SelectSpec => []AnswersBest
<1>1. ChoiceInv => AnswersBest
  BY BestAnswer DEF ChoiceInv
<1> QED BY <1>1, ChoiceInit, ChoiceNext, PTL DEF SelectSpec

(* With redis_init.py run only while detecttoredis.py is down, a request that *)
(* no write to the store overlaps names a vpn among the best by the lists the *)
(* clients of the vpns are served.                                           *)
THEOREM ChoiceIsOfWhatIsServed ==
  ASSUME ~LiveInit
  PROVE  SelectSpec => []ChoiceMatchesServed
<1>1. SelectInit => ChoiceInv /\ ServedInv
  BY ChoiceInit, ServedInit
<1>2. (ChoiceInv /\ ServedInv) /\ [SelectNext]_<<vars, selvars>> => (ChoiceInv /\ ServedInv)'
  BY ~LiveInit, ChoiceNext, ServedNext
<1>3. ChoiceInv /\ ServedInv => ChoiceMatchesServed
  BY ServedChoice DEF ChoiceInv, ServedInv
<1> QED BY <1>1, <1>2, <1>3, PTL DEF SelectSpec

(* The request and the keys of redis_init.py have the values VpnSelect says. *)
THEOREM SelectTypes == SelectSpec => []SelectTypeOK
<1>1. SelectInv => SelectTypeOK
  BY DEF SelectInv, IInv, KeysInv, RequestInv, Bests, SelectTypeOK
<1> QED BY <1>1, SelectInvariant, PTL
=============================================================================
