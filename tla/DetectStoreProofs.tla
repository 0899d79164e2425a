-------------------------- MODULE DetectStoreProofs --------------------------
(***************************************************************************)
(* Proofs about DetectStore, for every set of vpns, games, lists and        *)
(* requests, any number of faults, with or without a live redis_init.py.    *)
(***************************************************************************)
EXTENDS DetectStore, TLAPS

(* The queue of the node is typed by what is taken from it and put into it. *)
LEMMA QueueType ==
  ASSUME NEW q \in Seq(Reports), q # <<>>
  PROVE  Head(q) \in Reports /\ Tail(q) \in Seq(Reports)
  OBVIOUS

LEMMA EmptyQueue == <<>> \in Seq(Reports)
  OBVIOUS

LEMMA RegionsType == RegionsOf \in [Games -> SUBSET Regions]
  BY StoreAssumption DEF Regions

(* The initial state satisfies the inductive invariant. *)
LEMMA InitIInv == Init => IInv
<1> SUFFICES ASSUME Init PROVE IInv
  OBVIOUS
<1> USE DEF Init
<1>1. RedisTypeOK
  BY StoreAssumption, RegionsType DEF RedisTypeOK
<1>2. WriterTypeOK /\ RequestTypeOK /\ GhostTypeOK
  BY EmptyQueue DEF WriterTypeOK, RequestTypeOK, GhostTypeOK, DealSteps
<1>3. TargetIsUnused /\ TargetHoldsReport /\ OnlyInitOverruns /\ RequestKnows
  BY DEF TargetIsUnused, TargetHoldsReport, OnlyInitOverruns, RequestKnows, Written
<1>4. TornOnlyByInit /\ ReadIsConsistent
  BY StoreAssumption DEF TornOnlyByInit, ReadIsConsistent, Served
<1>5. QED
  BY <1>1, <1>2, <1>3, <1>4 DEF IInv, TypeOK

(* Every step keeps it. *)
LEMMA NextIInv == IInv /\ [Next]_vars => IInv'
<1> SUFFICES ASSUME IInv, [Next]_vars PROVE IInv'
  OBVIOUS
<1> USE DEF IInv, TypeOK, DealSteps, Written, Reports, redis, writer, script,
            reader, ghost, Return
<1>1. ASSUME NEW report \in Reports, DoPost(report) PROVE IInv'
  <2>1. RedisTypeOK' /\ WriterTypeOK'
    BY <1>1, StoreAssumption DEF DoPost, RedisTypeOK, WriterTypeOK
  <2>2. RequestTypeOK' /\ GhostTypeOK'
    BY <1>1, StoreAssumption DEF DoPost, RequestTypeOK, GhostTypeOK, RedisTypeOK, WriterTypeOK
  <2>3. TargetIsUnused' /\ TargetHoldsReport'
    BY <1>1, StoreAssumption DEF DoPost, TargetIsUnused, TargetHoldsReport, RedisTypeOK, WriterTypeOK
  <2>4. OnlyInitOverruns'
    BY <1>1, StoreAssumption DEF DoPost, OnlyInitOverruns, WriterTypeOK
  <2>5. RequestKnows'
    BY <1>1, StoreAssumption DEF DoPost, RequestKnows, RequestTypeOK, RedisTypeOK, WriterTypeOK, TargetIsUnused, Served
  <2>6. TornOnlyByInit'
    BY <1>1, StoreAssumption DEF DoPost, TornOnlyByInit, OnlyInitOverruns, TargetIsUnused, TargetHoldsReport, RedisTypeOK, WriterTypeOK, Served
  <2>7. ReadIsConsistent'
    BY <1>1, StoreAssumption DEF DoPost, ReadIsConsistent, RequestKnows, RequestTypeOK
  <2>8. QED
    BY <2>1, <2>2, <2>3, <2>4, <2>5, <2>6, <2>7
<1>2. ASSUME ServerFails PROVE IInv'
  <2>1. RedisTypeOK' /\ WriterTypeOK'
    BY <1>2, StoreAssumption DEF ServerFails, RedisTypeOK, WriterTypeOK
  <2>2. RequestTypeOK' /\ GhostTypeOK'
    BY <1>2, StoreAssumption DEF ServerFails, RequestTypeOK, GhostTypeOK, RedisTypeOK, WriterTypeOK
  <2>3. TargetIsUnused' /\ TargetHoldsReport'
    BY <1>2, StoreAssumption DEF ServerFails, TargetIsUnused, TargetHoldsReport, RedisTypeOK, WriterTypeOK
  <2>4. OnlyInitOverruns'
    BY <1>2, StoreAssumption DEF ServerFails, OnlyInitOverruns, WriterTypeOK
  <2>5. RequestKnows'
    BY <1>2, StoreAssumption DEF ServerFails, RequestKnows, RequestTypeOK, RedisTypeOK, WriterTypeOK, TargetIsUnused, Served
  <2>6. TornOnlyByInit'
    BY <1>2, StoreAssumption DEF ServerFails, TornOnlyByInit, OnlyInitOverruns, TargetIsUnused, TargetHoldsReport, RedisTypeOK, WriterTypeOK, Served
  <2>7. ReadIsConsistent'
    BY <1>2, StoreAssumption DEF ServerFails, ReadIsConsistent, RequestKnows, RequestTypeOK
  <2>8. QED
    BY <2>1, <2>2, <2>3, <2>4, <2>5, <2>6, <2>7
<1>3. ASSUME MainTop PROVE IInv'
  <2>1. RedisTypeOK' /\ WriterTypeOK'
    BY <1>3, EmptyQueue DEF MainTop, RedisTypeOK, WriterTypeOK
  <2>2. RequestTypeOK' /\ GhostTypeOK'
    BY <1>3, StoreAssumption DEF MainTop, RequestTypeOK, GhostTypeOK, RedisTypeOK, WriterTypeOK
  <2>3. TargetIsUnused' /\ TargetHoldsReport'
    BY <1>3, StoreAssumption DEF MainTop, TargetIsUnused, TargetHoldsReport, RedisTypeOK, WriterTypeOK
  <2>4. OnlyInitOverruns'
    BY <1>3, StoreAssumption DEF MainTop, OnlyInitOverruns, WriterTypeOK
  <2>5. RequestKnows'
    BY <1>3, StoreAssumption DEF MainTop, RequestKnows, RequestTypeOK, RedisTypeOK, WriterTypeOK, TargetIsUnused, Served
  <2>6. TornOnlyByInit'
    BY <1>3, StoreAssumption DEF MainTop, TornOnlyByInit, OnlyInitOverruns, TargetIsUnused, TargetHoldsReport, RedisTypeOK, WriterTypeOK, Served
  <2>7. ReadIsConsistent'
    BY <1>3, StoreAssumption DEF MainTop, ReadIsConsistent, RequestKnows, RequestTypeOK
  <2>8. QED
    BY <2>1, <2>2, <2>3, <2>4, <2>5, <2>6, <2>7
<1>4. ASSUME MainDrain PROVE IInv'
  <2>1. RedisTypeOK' /\ WriterTypeOK'
    <3>1. CASE reports = <<>>
      BY <1>4, <3>1 DEF MainDrain, RedisTypeOK, WriterTypeOK
    <3>2. CASE reports # <<>>
      <4>1. Head(reports) \in Reports /\ Tail(reports) \in Seq(Reports)
        BY <3>2, QueueType DEF WriterTypeOK
      <4>2. QED
        BY <1>4, <3>2, <4>1 DEF MainDrain, RedisTypeOK, WriterTypeOK
    <3>3. QED
      BY <3>1, <3>2
  <2>2. RequestTypeOK' /\ GhostTypeOK'
    BY <1>4, StoreAssumption DEF MainDrain, RequestTypeOK, GhostTypeOK, RedisTypeOK, WriterTypeOK
  <2>3. TargetIsUnused' /\ TargetHoldsReport'
    BY <1>4, StoreAssumption DEF MainDrain, TargetIsUnused, TargetHoldsReport, RedisTypeOK, WriterTypeOK
  <2>4. OnlyInitOverruns'
    BY <1>4, StoreAssumption DEF MainDrain, OnlyInitOverruns, WriterTypeOK
  <2>5. RequestKnows'
    BY <1>4, StoreAssumption DEF MainDrain, RequestKnows, RequestTypeOK, RedisTypeOK, WriterTypeOK, TargetIsUnused, Served
  <2>6. TornOnlyByInit'
    BY <1>4, StoreAssumption DEF MainDrain, TornOnlyByInit, OnlyInitOverruns, TargetIsUnused, TargetHoldsReport, RedisTypeOK, WriterTypeOK, Served
  <2>7. ReadIsConsistent'
    BY <1>4, StoreAssumption DEF MainDrain, ReadIsConsistent, RequestKnows, RequestTypeOK
  <2>8. QED
    BY <2>1, <2>2, <2>3, <2>4, <2>5, <2>6, <2>7
<1>5. ASSUME DealExists PROVE IInv'
  <2>1. RedisTypeOK' /\ WriterTypeOK'
    BY <1>5, StoreAssumption DEF DealExists, RedisTypeOK, WriterTypeOK
  <2>2. RequestTypeOK' /\ GhostTypeOK'
    BY <1>5, StoreAssumption DEF DealExists, RequestTypeOK, GhostTypeOK, RedisTypeOK, WriterTypeOK
  <2>3. TargetIsUnused' /\ TargetHoldsReport'
    BY <1>5, StoreAssumption DEF DealExists, TargetIsUnused, TargetHoldsReport, RedisTypeOK, WriterTypeOK
  <2>4. OnlyInitOverruns'
    BY <1>5, StoreAssumption DEF DealExists, OnlyInitOverruns, WriterTypeOK
  <2>5. RequestKnows'
    BY <1>5, StoreAssumption DEF DealExists, RequestKnows, RequestTypeOK, RedisTypeOK, WriterTypeOK, TargetIsUnused, Served
  <2>6. TornOnlyByInit'
    BY <1>5, StoreAssumption DEF DealExists, TornOnlyByInit, OnlyInitOverruns, TargetIsUnused, TargetHoldsReport, RedisTypeOK, WriterTypeOK, Served
  <2>7. ReadIsConsistent'
    BY <1>5, StoreAssumption DEF DealExists, ReadIsConsistent, RequestKnows, RequestTypeOK
  <2>8. QED
    BY <2>1, <2>2, <2>3, <2>4, <2>5, <2>6, <2>7
<1>6. ASSUME DealGetId PROVE IInv'
  <2>1. RedisTypeOK' /\ WriterTypeOK'
    BY <1>6, StoreAssumption DEF DealGetId, Target, RedisTypeOK, WriterTypeOK
  <2>2. RequestTypeOK' /\ GhostTypeOK'
    BY <1>6, StoreAssumption DEF DealGetId, Target, RequestTypeOK, GhostTypeOK, RedisTypeOK, WriterTypeOK
  <2>3. TargetIsUnused' /\ TargetHoldsReport'
    BY <1>6, StoreAssumption DEF DealGetId, Target, TargetIsUnused, TargetHoldsReport, RedisTypeOK, WriterTypeOK
  <2>4. OnlyInitOverruns'
    BY <1>6, StoreAssumption DEF DealGetId, Target, OnlyInitOverruns, WriterTypeOK
  <2>5. RequestKnows'
    BY <1>6, StoreAssumption DEF DealGetId, Target, RequestKnows, RequestTypeOK, RedisTypeOK, WriterTypeOK, TargetIsUnused, Served
  <2>6. TornOnlyByInit'
    BY <1>6, StoreAssumption DEF DealGetId, Target, TornOnlyByInit, OnlyInitOverruns, TargetIsUnused, TargetHoldsReport, RedisTypeOK, WriterTypeOK, Served
  <2>7. ReadIsConsistent'
    BY <1>6, StoreAssumption DEF DealGetId, Target, ReadIsConsistent, RequestKnows, RequestTypeOK
  <2>8. QED
    BY <2>1, <2>2, <2>3, <2>4, <2>5, <2>6, <2>7
<1>7. ASSUME DealDelete PROVE IInv'
  <2>1. RedisTypeOK' /\ WriterTypeOK'
    BY <1>7, StoreAssumption DEF DealDelete, RedisTypeOK, WriterTypeOK
  <2>2. RequestTypeOK' /\ GhostTypeOK'
    BY <1>7, StoreAssumption DEF DealDelete, RequestTypeOK, GhostTypeOK, RedisTypeOK, WriterTypeOK
  <2>3. TargetIsUnused' /\ TargetHoldsReport'
    BY <1>7, StoreAssumption DEF DealDelete, TargetIsUnused, TargetHoldsReport, RedisTypeOK, WriterTypeOK
  <2>4. OnlyInitOverruns'
    BY <1>7, StoreAssumption DEF DealDelete, OnlyInitOverruns, WriterTypeOK
  <2>5. RequestKnows'
    BY <1>7, StoreAssumption DEF DealDelete, RequestKnows, RequestTypeOK, RedisTypeOK, WriterTypeOK, TargetIsUnused, Served
  <2>6. TornOnlyByInit'
    BY <1>7, StoreAssumption DEF DealDelete, TornOnlyByInit, OnlyInitOverruns, TargetIsUnused, TargetHoldsReport, RedisTypeOK, WriterTypeOK, Served
  <2>7. ReadIsConsistent'
    BY <1>7, StoreAssumption DEF DealDelete, ReadIsConsistent, RequestKnows, RequestTypeOK
  <2>8. QED
    BY <2>1, <2>2, <2>3, <2>4, <2>5, <2>6, <2>7
<1>8. ASSUME DealAdd PROVE IInv'
  <2>1. RedisTypeOK' /\ WriterTypeOK'
    <3>1. CASE todo = {}
      BY <1>8, <3>1 DEF DealAdd, RedisTypeOK, WriterTypeOK
    <3>2. CASE todo # {}
      <4>1. PICK e \in todo :
              /\ buffer' = [buffer EXCEPT ![cur.slot][newid] =
                              ZAdd(buffer[cur.slot][newid], e)]
              /\ todo' = todo \ {e} /\ mpc' = mpc
        BY <1>8, <3>2 DEF DealAdd
      <4>2. cur.slot \in Slots /\ newid \in {0, 1} /\ mpc = "add"
        BY <1>8 DEF DealAdd, WriterTypeOK
      <4>3. ZAdd(buffer[cur.slot][newid], e) \in SUBSET UNION Data
        BY <4>2, <4>1 DEF ZAdd, RedisTypeOK, WriterTypeOK
      <4>4. buffer' \in [Slots -> [{0, 1} -> SUBSET UNION Data]]
        BY <4>1, <4>2, <4>3 DEF RedisTypeOK
      <4>5. QED
        BY <1>8, <4>1, <4>2, <4>4 DEF DealAdd, RedisTypeOK, WriterTypeOK
    <3>3. QED
      BY <3>1, <3>2
  <2>2. RequestTypeOK' /\ GhostTypeOK'
    BY <1>8, StoreAssumption DEF DealAdd, ZAdd, RequestTypeOK, GhostTypeOK, RedisTypeOK, WriterTypeOK
  <2>3. TargetIsUnused' /\ TargetHoldsReport'
    <3>1. CASE todo = {}
      BY <1>8, <3>1 DEF DealAdd, TargetIsUnused, TargetHoldsReport, WriterTypeOK
    <3>2. CASE todo # {}
      <4>1. PICK e \in todo :
              /\ buffer' = [buffer EXCEPT ![cur.slot][newid] =
                              ZAdd(buffer[cur.slot][newid], e)]
              /\ todo' = todo \ {e} /\ mpc' = mpc
        BY <1>8, <3>2 DEF DealAdd
      <4>2. cur \in Reports /\ newid \in {0, 1} /\ mpc = "add"
        BY <1>8 DEF DealAdd, WriterTypeOK
      <4>3. buffer'[cur.slot][newid] = ZAdd(buffer[cur.slot][newid], e)
        BY <4>1, <4>2 DEF RedisTypeOK
      <4>4. ASSUME ~overrun
            PROVE  todo' \subseteq cur.data /\ buffer'[cur.slot][newid] = cur.data \ todo'
        <5>1. todo \subseteq cur.data /\ buffer[cur.slot][newid] = cur.data \ todo
          BY <4>2, <4>4 DEF TargetHoldsReport
        <5>2. \A x, y \in cur.data : x[1] = y[1] => x = y
          BY <4>2, StoreAssumption
        <5>3. ZAdd(cur.data \ todo, e) = cur.data \ (todo \ {e})
          BY <4>1, <5>1, <5>2 DEF ZAdd
        <5>4. QED
          BY <4>1, <4>3, <5>1, <5>3
      <4>5. QED
        BY <1>8, <4>1, <4>2, <4>4 DEF DealAdd, TargetIsUnused, TargetHoldsReport
    <3>3. QED
      BY <3>1, <3>2
  <2>4. OnlyInitOverruns'
    BY <1>8, StoreAssumption DEF DealAdd, ZAdd, OnlyInitOverruns, WriterTypeOK
  <2>5. RequestKnows'
    BY <1>8, StoreAssumption DEF DealAdd, ZAdd, RequestKnows, RequestTypeOK, RedisTypeOK, WriterTypeOK, TargetIsUnused, Served
  <2>6. TornOnlyByInit'
    BY <1>8, StoreAssumption DEF DealAdd, ZAdd, TornOnlyByInit, OnlyInitOverruns, TargetIsUnused, TargetHoldsReport, RedisTypeOK, WriterTypeOK, Served
  <2>7. ReadIsConsistent'
    BY <1>8, StoreAssumption DEF DealAdd, ZAdd, ReadIsConsistent, RequestKnows, RequestTypeOK
  <2>8. QED
    BY <2>1, <2>2, <2>3, <2>4, <2>5, <2>6, <2>7
<1>9. ASSUME DealMembers PROVE IInv'
  <2>1. RedisTypeOK' /\ WriterTypeOK'
    BY <1>9, StoreAssumption DEF DealMembers, LoopOverRegions, RedisTypeOK, WriterTypeOK
  <2>2. RequestTypeOK' /\ GhostTypeOK'
    BY <1>9, StoreAssumption DEF DealMembers, LoopOverRegions, RequestTypeOK, GhostTypeOK, RedisTypeOK, WriterTypeOK
  <2>3. TargetIsUnused' /\ TargetHoldsReport'
    BY <1>9, StoreAssumption DEF DealMembers, LoopOverRegions, TargetIsUnused, TargetHoldsReport, RedisTypeOK, WriterTypeOK
  <2>4. OnlyInitOverruns'
    BY <1>9, StoreAssumption DEF DealMembers, LoopOverRegions, OnlyInitOverruns, WriterTypeOK
  <2>5. RequestKnows'
    BY <1>9, StoreAssumption DEF DealMembers, LoopOverRegions, RequestKnows, RequestTypeOK, RedisTypeOK, WriterTypeOK, TargetIsUnused, Served
  <2>6. TornOnlyByInit'
    BY <1>9, StoreAssumption DEF DealMembers, LoopOverRegions, TornOnlyByInit, OnlyInitOverruns, TargetIsUnused, TargetHoldsReport, RedisTypeOK, WriterTypeOK, Served
  <2>7. ReadIsConsistent'
    BY <1>9, StoreAssumption DEF DealMembers, LoopOverRegions, ReadIsConsistent, RequestKnows, RequestTypeOK
  <2>8. QED
    BY <2>1, <2>2, <2>3, <2>4, <2>5, <2>6, <2>7
<1>10. ASSUME DealSetRtt PROVE IInv'
  <2>1. RedisTypeOK' /\ WriterTypeOK'
    BY <1>10, StoreAssumption DEF DealSetRtt, RedisTypeOK, WriterTypeOK
  <2>2. RequestTypeOK' /\ GhostTypeOK'
    BY <1>10, StoreAssumption DEF DealSetRtt, RequestTypeOK, GhostTypeOK, RedisTypeOK, WriterTypeOK
  <2>3. TargetIsUnused' /\ TargetHoldsReport'
    BY <1>10, StoreAssumption DEF DealSetRtt, TargetIsUnused, TargetHoldsReport, RedisTypeOK, WriterTypeOK
  <2>4. OnlyInitOverruns'
    BY <1>10, StoreAssumption DEF DealSetRtt, OnlyInitOverruns, WriterTypeOK
  <2>5. RequestKnows'
    BY <1>10, StoreAssumption DEF DealSetRtt, RequestKnows, RequestTypeOK, RedisTypeOK, WriterTypeOK, TargetIsUnused, Served
  <2>6. TornOnlyByInit'
    BY <1>10, StoreAssumption DEF DealSetRtt, TornOnlyByInit, OnlyInitOverruns, TargetIsUnused, TargetHoldsReport, RedisTypeOK, WriterTypeOK, Served
  <2>7. ReadIsConsistent'
    BY <1>10, StoreAssumption DEF DealSetRtt, ReadIsConsistent, RequestKnows, RequestTypeOK
  <2>8. QED
    BY <2>1, <2>2, <2>3, <2>4, <2>5, <2>6, <2>7
<1>11. ASSUME DealSetCnt PROVE IInv'
  <2>1. RedisTypeOK' /\ WriterTypeOK'
    BY <1>11, StoreAssumption DEF DealSetCnt, RedisTypeOK, WriterTypeOK
  <2>2. RequestTypeOK' /\ GhostTypeOK'
    BY <1>11, StoreAssumption DEF DealSetCnt, RequestTypeOK, GhostTypeOK, RedisTypeOK, WriterTypeOK
  <2>3. TargetIsUnused' /\ TargetHoldsReport'
    BY <1>11, StoreAssumption DEF DealSetCnt, TargetIsUnused, TargetHoldsReport, RedisTypeOK, WriterTypeOK
  <2>4. OnlyInitOverruns'
    BY <1>11, StoreAssumption DEF DealSetCnt, OnlyInitOverruns, WriterTypeOK
  <2>5. RequestKnows'
    BY <1>11, StoreAssumption DEF DealSetCnt, RequestKnows, RequestTypeOK, RedisTypeOK, WriterTypeOK, TargetIsUnused, Served
  <2>6. TornOnlyByInit'
    BY <1>11, StoreAssumption DEF DealSetCnt, TornOnlyByInit, OnlyInitOverruns, TargetIsUnused, TargetHoldsReport, RedisTypeOK, WriterTypeOK, Served
  <2>7. ReadIsConsistent'
    BY <1>11, StoreAssumption DEF DealSetCnt, ReadIsConsistent, RequestKnows, RequestTypeOK
  <2>8. QED
    BY <2>1, <2>2, <2>3, <2>4, <2>5, <2>6, <2>7
<1>12. ASSUME DealSetRtt0 PROVE IInv'
  <2>1. RedisTypeOK' /\ WriterTypeOK'
    BY <1>12, StoreAssumption DEF DealSetRtt0, RedisTypeOK, WriterTypeOK
  <2>2. RequestTypeOK' /\ GhostTypeOK'
    BY <1>12, StoreAssumption DEF DealSetRtt0, RequestTypeOK, GhostTypeOK, RedisTypeOK, WriterTypeOK
  <2>3. TargetIsUnused' /\ TargetHoldsReport'
    BY <1>12, StoreAssumption DEF DealSetRtt0, TargetIsUnused, TargetHoldsReport, RedisTypeOK, WriterTypeOK
  <2>4. OnlyInitOverruns'
    BY <1>12, StoreAssumption DEF DealSetRtt0, OnlyInitOverruns, WriterTypeOK
  <2>5. RequestKnows'
    BY <1>12, StoreAssumption DEF DealSetRtt0, RequestKnows, RequestTypeOK, RedisTypeOK, WriterTypeOK, TargetIsUnused, Served
  <2>6. TornOnlyByInit'
    BY <1>12, StoreAssumption DEF DealSetRtt0, TornOnlyByInit, OnlyInitOverruns, TargetIsUnused, TargetHoldsReport, RedisTypeOK, WriterTypeOK, Served
  <2>7. ReadIsConsistent'
    BY <1>12, StoreAssumption DEF DealSetRtt0, ReadIsConsistent, RequestKnows, RequestTypeOK
  <2>8. QED
    BY <2>1, <2>2, <2>3, <2>4, <2>5, <2>6, <2>7
<1>13. ASSUME DealFlip PROVE IInv'
  <2>1. RedisTypeOK' /\ WriterTypeOK'
    BY <1>13, StoreAssumption DEF DealFlip, RedisTypeOK, WriterTypeOK
  <2>2. RequestTypeOK' /\ GhostTypeOK'
    BY <1>13, StoreAssumption DEF DealFlip, RequestTypeOK, GhostTypeOK, RedisTypeOK, WriterTypeOK
  <2>3. TargetIsUnused' /\ TargetHoldsReport'
    BY <1>13, StoreAssumption DEF DealFlip, TargetIsUnused, TargetHoldsReport, RedisTypeOK, WriterTypeOK
  <2>4. OnlyInitOverruns'
    BY <1>13, StoreAssumption DEF DealFlip, OnlyInitOverruns, WriterTypeOK
  <2>5. RequestKnows'
    BY <1>13, StoreAssumption DEF DealFlip, RequestKnows, RequestTypeOK, RedisTypeOK, WriterTypeOK, TargetIsUnused, Served
  <2>6. TornOnlyByInit'
    BY <1>13, StoreAssumption DEF DealFlip, TornOnlyByInit, OnlyInitOverruns, TargetIsUnused, TargetHoldsReport, RedisTypeOK, WriterTypeOK, Served
  <2>7. ReadIsConsistent'
    BY <1>13, StoreAssumption DEF DealFlip, ReadIsConsistent, RequestKnows, RequestTypeOK
  <2>8. QED
    BY <2>1, <2>2, <2>3, <2>4, <2>5, <2>6, <2>7
<1>14. ASSUME DealRaises PROVE IInv'
  <2>1. RedisTypeOK' /\ WriterTypeOK'
    BY <1>14, StoreAssumption DEF DealRaises, RedisTypeOK, WriterTypeOK
  <2>2. RequestTypeOK' /\ GhostTypeOK'
    BY <1>14, StoreAssumption DEF DealRaises, RequestTypeOK, GhostTypeOK, RedisTypeOK, WriterTypeOK
  <2>3. TargetIsUnused' /\ TargetHoldsReport'
    BY <1>14, StoreAssumption DEF DealRaises, TargetIsUnused, TargetHoldsReport, RedisTypeOK, WriterTypeOK
  <2>4. OnlyInitOverruns'
    BY <1>14, StoreAssumption DEF DealRaises, OnlyInitOverruns, WriterTypeOK
  <2>5. RequestKnows'
    BY <1>14, StoreAssumption DEF DealRaises, RequestKnows, RequestTypeOK, RedisTypeOK, WriterTypeOK, TargetIsUnused, Served
  <2>6. TornOnlyByInit'
    BY <1>14, StoreAssumption DEF DealRaises, TornOnlyByInit, OnlyInitOverruns, TargetIsUnused, TargetHoldsReport, RedisTypeOK, WriterTypeOK, Served
  <2>7. ReadIsConsistent'
    BY <1>14, StoreAssumption DEF DealRaises, ReadIsConsistent, RequestKnows, RequestTypeOK
  <2>8. QED
    BY <2>1, <2>2, <2>3, <2>4, <2>5, <2>6, <2>7
<1>15. ASSUME Crash PROVE IInv'
  <2>1. RedisTypeOK' /\ WriterTypeOK'
    BY <1>15, StoreAssumption DEF Crash, RedisTypeOK, WriterTypeOK
  <2>2. RequestTypeOK' /\ GhostTypeOK'
    BY <1>15, StoreAssumption DEF Crash, RequestTypeOK, GhostTypeOK, RedisTypeOK, WriterTypeOK
  <2>3. TargetIsUnused' /\ TargetHoldsReport'
    BY <1>15, StoreAssumption DEF Crash, TargetIsUnused, TargetHoldsReport, RedisTypeOK, WriterTypeOK
  <2>4. OnlyInitOverruns'
    BY <1>15, StoreAssumption DEF Crash, OnlyInitOverruns, WriterTypeOK
  <2>5. RequestKnows'
    BY <1>15, StoreAssumption DEF Crash, RequestKnows, RequestTypeOK, RedisTypeOK, WriterTypeOK, TargetIsUnused, Served
  <2>6. TornOnlyByInit'
    BY <1>15, StoreAssumption DEF Crash, TornOnlyByInit, OnlyInitOverruns, TargetIsUnused, TargetHoldsReport, RedisTypeOK, WriterTypeOK, Served
  <2>7. ReadIsConsistent'
    BY <1>15, StoreAssumption DEF Crash, ReadIsConsistent, RequestKnows, RequestTypeOK
  <2>8. QED
    BY <2>1, <2>2, <2>3, <2>4, <2>5, <2>6, <2>7
<1>16. ASSUME Restart PROVE IInv'
  <2>1. RedisTypeOK' /\ WriterTypeOK'
    BY <1>16, StoreAssumption DEF Restart, RedisTypeOK, WriterTypeOK
  <2>2. RequestTypeOK' /\ GhostTypeOK'
    BY <1>16, StoreAssumption DEF Restart, RequestTypeOK, GhostTypeOK, RedisTypeOK, WriterTypeOK
  <2>3. TargetIsUnused' /\ TargetHoldsReport'
    BY <1>16, StoreAssumption DEF Restart, TargetIsUnused, TargetHoldsReport, RedisTypeOK, WriterTypeOK
  <2>4. OnlyInitOverruns'
    BY <1>16, StoreAssumption DEF Restart, OnlyInitOverruns, WriterTypeOK
  <2>5. RequestKnows'
    BY <1>16, StoreAssumption DEF Restart, RequestKnows, RequestTypeOK, RedisTypeOK, WriterTypeOK, TargetIsUnused, Served
  <2>6. TornOnlyByInit'
    BY <1>16, StoreAssumption DEF Restart, TornOnlyByInit, OnlyInitOverruns, TargetIsUnused, TargetHoldsReport, RedisTypeOK, WriterTypeOK, Served
  <2>7. ReadIsConsistent'
    BY <1>16, StoreAssumption DEF Restart, ReadIsConsistent, RequestKnows, RequestTypeOK
  <2>8. QED
    BY <2>1, <2>2, <2>3, <2>4, <2>5, <2>6, <2>7
<1>17. ASSUME InitFlush PROVE IInv'
  <2>1. RedisTypeOK' /\ WriterTypeOK'
    BY <1>17, StoreAssumption DEF InitFlush, RedisTypeOK, WriterTypeOK
  <2>2. RequestTypeOK' /\ GhostTypeOK'
    BY <1>17, StoreAssumption DEF InitFlush, RequestTypeOK, GhostTypeOK, RedisTypeOK, WriterTypeOK
  <2>3. TargetIsUnused' /\ TargetHoldsReport'
    BY <1>17, StoreAssumption DEF InitFlush, TargetIsUnused, TargetHoldsReport, RedisTypeOK, WriterTypeOK
  <2>4. OnlyInitOverruns'
    BY <1>17, StoreAssumption DEF InitFlush, OnlyInitOverruns, WriterTypeOK
  <2>5. RequestKnows'
    BY <1>17, StoreAssumption DEF InitFlush, RequestKnows, RequestTypeOK, RedisTypeOK, WriterTypeOK, TargetIsUnused, Served
  <2>6. TornOnlyByInit'
    BY <1>17, StoreAssumption DEF InitFlush, TornOnlyByInit, OnlyInitOverruns, TargetIsUnused, TargetHoldsReport, RedisTypeOK, WriterTypeOK, Served
  <2>7. ReadIsConsistent'
    BY <1>17, StoreAssumption DEF InitFlush, ReadIsConsistent, RequestKnows, RequestTypeOK
  <2>8. QED
    BY <2>1, <2>2, <2>3, <2>4, <2>5, <2>6, <2>7
<1>18. ASSUME InitSlot PROVE IInv'
  <2>1. CASE itodo = {}
    BY <1>18, <2>1 DEF InitSlot, RedisTypeOK, WriterTypeOK, RequestTypeOK, GhostTypeOK,
       TargetIsUnused, TargetHoldsReport, OnlyInitOverruns, RequestKnows,
       TornOnlyByInit, ReadIsConsistent, Served
  <2>2. CASE itodo # {}
    <3>1. PICK s \in itodo :
            /\ rtt' = [rtt EXCEPT ![s] = 0, ![<<s[1], s[2], 0>>] = 0]
            /\ cnt' = [cnt EXCEPT ![s] = 0]
            /\ activeid' = [activeid EXCEPT ![s] = -1]
            /\ itodo' = itodo \ {s}
            /\ flips' = [r \in Readers |-> IF rslot[r] = s THEN 1 ELSE flips[r]]
            /\ ipc' = ipc
      BY <1>18, <2>2 DEF InitSlot
    <3>2. s \in Slots
      BY <3>1 DEF WriterTypeOK
    <3>3. RedisTypeOK' /\ WriterTypeOK'
      BY <1>18, <3>1, <3>2 DEF InitSlot, RedisTypeOK, WriterTypeOK
    <3>4. RequestTypeOK' /\ GhostTypeOK'
      BY <1>18, <3>1 DEF InitSlot, RequestTypeOK, GhostTypeOK
    <3>5. TargetIsUnused' /\ TargetHoldsReport' /\ OnlyInitOverruns'
      BY <1>18, <3>1, <3>2 DEF InitSlot, TargetIsUnused, TargetHoldsReport,
         OnlyInitOverruns, RedisTypeOK, WriterTypeOK
    <3>6. RequestKnows'
      BY <1>18, <3>1, <3>2 DEF InitSlot, RequestKnows, RequestTypeOK, RedisTypeOK
    <3>7. TornOnlyByInit'
      BY <1>18, <3>1, <3>2 DEF InitSlot, TornOnlyByInit, RedisTypeOK, Served
    <3>8. ReadIsConsistent'
      BY <1>18, <3>1 DEF InitSlot, ReadIsConsistent, RequestTypeOK
    <3>9. QED
      BY <3>3, <3>4, <3>5, <3>6, <3>7, <3>8
  <2>3. QED
    BY <2>1, <2>2
<1>19. ASSUME InitRegions PROVE IInv'
  <2>1. RedisTypeOK' /\ WriterTypeOK'
    BY <1>19, RegionsType DEF InitRegions, RedisTypeOK, WriterTypeOK
  <2>2. RequestTypeOK' /\ GhostTypeOK'
    BY <1>19, StoreAssumption DEF InitRegions, RequestTypeOK, GhostTypeOK, RedisTypeOK, WriterTypeOK
  <2>3. TargetIsUnused' /\ TargetHoldsReport'
    BY <1>19, StoreAssumption DEF InitRegions, TargetIsUnused, TargetHoldsReport, RedisTypeOK, WriterTypeOK
  <2>4. OnlyInitOverruns'
    BY <1>19, StoreAssumption DEF InitRegions, OnlyInitOverruns, WriterTypeOK
  <2>5. RequestKnows'
    BY <1>19, StoreAssumption DEF InitRegions, RequestKnows, RequestTypeOK, RedisTypeOK, WriterTypeOK, TargetIsUnused, Served
  <2>6. TornOnlyByInit'
    BY <1>19, StoreAssumption DEF InitRegions, TornOnlyByInit, OnlyInitOverruns, TargetIsUnused, TargetHoldsReport, RedisTypeOK, WriterTypeOK, Served
  <2>7. ReadIsConsistent'
    BY <1>19, StoreAssumption DEF InitRegions, ReadIsConsistent, RequestKnows, RequestTypeOK
  <2>8. QED
    BY <2>1, <2>2, <2>3, <2>4, <2>5, <2>6, <2>7
<1>20. ASSUME NEW r \in Readers, NEW v \in Vpns, NEW g \in Games, NEW c \in ClientRtts, ReadStart(r, v, g, c) PROVE IInv'
  <2>1. RedisTypeOK' /\ WriterTypeOK'
    BY <1>20, StoreAssumption DEF ReadStart, RedisTypeOK, WriterTypeOK
  <2>2. RequestTypeOK' /\ GhostTypeOK'
    BY ZenonT(40), <1>20, StoreAssumption DEF ReadStart, RequestTypeOK, GhostTypeOK, RedisTypeOK, WriterTypeOK
  <2>3. TargetIsUnused' /\ TargetHoldsReport'
    BY <1>20, StoreAssumption DEF ReadStart, TargetIsUnused, TargetHoldsReport, RedisTypeOK, WriterTypeOK
  <2>4. OnlyInitOverruns'
    BY <1>20, StoreAssumption DEF ReadStart, OnlyInitOverruns, WriterTypeOK
  <2>5. RequestKnows'
    BY <1>20, StoreAssumption DEF ReadStart, RequestKnows, RequestTypeOK, RedisTypeOK, WriterTypeOK, TargetIsUnused, Served
  <2>6. TornOnlyByInit'
    BY <1>20, StoreAssumption DEF ReadStart, TornOnlyByInit, OnlyInitOverruns, TargetIsUnused, TargetHoldsReport, RedisTypeOK, WriterTypeOK, Served
  <2>7. ReadIsConsistent'
    BY <1>20, StoreAssumption DEF ReadStart, ReadIsConsistent, RequestKnows, RequestTypeOK
  <2>8. QED
    BY <2>1, <2>2, <2>3, <2>4, <2>5, <2>6, <2>7
<1>21. ASSUME NEW r \in Readers, ReadExists(r) PROVE IInv'
  <2>1. RedisTypeOK' /\ WriterTypeOK'
    BY <1>21, StoreAssumption DEF ReadExists, Flag, RedisTypeOK, WriterTypeOK
  <2>2. RequestTypeOK' /\ GhostTypeOK'
    BY <1>21, StoreAssumption DEF ReadExists, Flag, RequestTypeOK, GhostTypeOK, RedisTypeOK, WriterTypeOK
  <2>3. TargetIsUnused' /\ TargetHoldsReport'
    BY <1>21, StoreAssumption DEF ReadExists, Flag, TargetIsUnused, TargetHoldsReport, RedisTypeOK, WriterTypeOK
  <2>4. OnlyInitOverruns'
    BY <1>21, StoreAssumption DEF ReadExists, Flag, OnlyInitOverruns, WriterTypeOK
  <2>5. RequestKnows'
    BY <1>21, StoreAssumption DEF ReadExists, Flag, RequestKnows, RequestTypeOK, RedisTypeOK, WriterTypeOK, TargetIsUnused, Served
  <2>6. TornOnlyByInit'
    BY <1>21, StoreAssumption DEF ReadExists, Flag, TornOnlyByInit, OnlyInitOverruns, TargetIsUnused, TargetHoldsReport, RedisTypeOK, WriterTypeOK, Served
  <2>7. ReadIsConsistent'
    BY <1>21, StoreAssumption DEF ReadExists, Flag, ReadIsConsistent, RequestKnows, RequestTypeOK
  <2>8. QED
    BY <2>1, <2>2, <2>3, <2>4, <2>5, <2>6, <2>7
<1>22. ASSUME NEW r \in Readers, ReadGet(r) PROVE IInv'
  <2>1. RedisTypeOK' /\ WriterTypeOK'
    BY <1>22, StoreAssumption DEF ReadGet, Flag, RedisTypeOK, WriterTypeOK
  <2>2. RequestTypeOK' /\ GhostTypeOK'
    BY <1>22, StoreAssumption DEF ReadGet, Flag, RequestTypeOK, GhostTypeOK, RedisTypeOK, WriterTypeOK
  <2>3. TargetIsUnused' /\ TargetHoldsReport'
    BY <1>22, StoreAssumption DEF ReadGet, Flag, TargetIsUnused, TargetHoldsReport, RedisTypeOK, WriterTypeOK
  <2>4. OnlyInitOverruns'
    BY <1>22, StoreAssumption DEF ReadGet, Flag, OnlyInitOverruns, WriterTypeOK
  <2>5. RequestKnows'
    BY <1>22, StoreAssumption DEF ReadGet, Flag, RequestKnows, RequestTypeOK, RedisTypeOK, WriterTypeOK, TargetIsUnused, Served
  <2>6. TornOnlyByInit'
    BY <1>22, StoreAssumption DEF ReadGet, Flag, TornOnlyByInit, OnlyInitOverruns, TargetIsUnused, TargetHoldsReport, RedisTypeOK, WriterTypeOK, Served
  <2>7. ReadIsConsistent'
    BY <1>22 DEF ReadGet, Flag, ReadIsConsistent, RequestKnows, RequestTypeOK, Served
  <2>8. QED
    BY <2>1, <2>2, <2>3, <2>4, <2>5, <2>6, <2>7
<1>23. ASSUME NEW r \in Readers, ReadRange(r) PROVE IInv'
  <2>1. RedisTypeOK' /\ WriterTypeOK'
    BY <1>23, StoreAssumption DEF ReadRange, RedisTypeOK, WriterTypeOK
  <2>2. RequestTypeOK' /\ GhostTypeOK'
    BY <1>23, StoreAssumption DEF ReadRange, RequestTypeOK, GhostTypeOK, RedisTypeOK, WriterTypeOK
  <2>3. TargetIsUnused' /\ TargetHoldsReport'
    BY <1>23, StoreAssumption DEF ReadRange, TargetIsUnused, TargetHoldsReport, RedisTypeOK, WriterTypeOK
  <2>4. OnlyInitOverruns'
    BY <1>23, StoreAssumption DEF ReadRange, OnlyInitOverruns, WriterTypeOK
  <2>5. RequestKnows'
    BY <1>23, StoreAssumption DEF ReadRange, RequestKnows, RequestTypeOK, RedisTypeOK, WriterTypeOK, TargetIsUnused, Served
  <2>6. TornOnlyByInit'
    BY <1>23, StoreAssumption DEF ReadRange, TornOnlyByInit, OnlyInitOverruns, TargetIsUnused, TargetHoldsReport, RedisTypeOK, WriterTypeOK, Served
  <2>7. ReadIsConsistent'
    BY <1>23, StoreAssumption DEF ReadRange, ReadIsConsistent, RequestKnows, RequestTypeOK
  <2>8. QED
    BY <2>1, <2>2, <2>3, <2>4, <2>5, <2>6, <2>7
<1>24. ASSUME UNCHANGED vars PROVE IInv'
  <2>1. RedisTypeOK' /\ WriterTypeOK'
    BY <1>24, StoreAssumption DEF vars, RedisTypeOK, WriterTypeOK
  <2>2. RequestTypeOK' /\ GhostTypeOK'
    BY <1>24, StoreAssumption DEF vars, RequestTypeOK, GhostTypeOK, RedisTypeOK, WriterTypeOK
  <2>3. TargetIsUnused' /\ TargetHoldsReport'
    BY <1>24, StoreAssumption DEF vars, TargetIsUnused, TargetHoldsReport, RedisTypeOK, WriterTypeOK
  <2>4. OnlyInitOverruns'
    BY <1>24, StoreAssumption DEF vars, OnlyInitOverruns, WriterTypeOK
  <2>5. RequestKnows'
    BY <1>24, StoreAssumption DEF vars, RequestKnows, RequestTypeOK, RedisTypeOK, WriterTypeOK, TargetIsUnused, Served
  <2>6. TornOnlyByInit'
    BY <1>24, StoreAssumption DEF vars, TornOnlyByInit, OnlyInitOverruns, TargetIsUnused, TargetHoldsReport, RedisTypeOK, WriterTypeOK, Served
  <2>7. ReadIsConsistent'
    BY <1>24, StoreAssumption DEF vars, ReadIsConsistent, RequestKnows, RequestTypeOK
  <2>8. QED
    BY <2>1, <2>2, <2>3, <2>4, <2>5, <2>6, <2>7
<1>25. QED
  BY <1>1, <1>2, <1>3, <1>4, <1>5, <1>6, <1>7, <1>8, <1>9, <1>10, <1>11, <1>12, <1>13, <1>14, <1>15, <1>16, <1>17, <1>18, <1>19, <1>20, <1>21, <1>22, <1>23, <1>24 DEF Next, Main, Deal, Script, Read

(* Type correctness of the store. *)
THEOREM TypeCorrect == Spec => []TypeOK
<1>1. IInv => TypeOK
  BY DEF IInv
<1>2. QED
  BY InitIInv, NextIInv, <1>1, PTL DEF Spec

(* A flush during a report damages one slot at most, until its next report. *)
THEOREM InitDamageIsBounded == Spec => []TornOnlyByInit
<1>1. IInv => TornOnlyByInit
  BY DEF IInv
<1>2. QED
  BY InitIInv, NextIInv, <1>1, PTL DEF Spec

(* As long as redis_init.py runs only while detecttoredis.py is down, what a *)
(* slot serves is always the whole list of one report.                       *)
THEOREM ServedAlwaysComplete ==
  ASSUME ~LiveInit
  PROVE  Spec => []ServedIsComplete
<1>1. IInv => ServedIsComplete
  BY ~LiveInit DEF IInv, OnlyInitOverruns, TornOnlyByInit, ServedIsComplete
<1>2. QED
  BY InitIInv, NextIInv, <1>1, PTL DEF Spec

(* A request is answered from one whole report unless its flag was set again *)
(* while it was being served.                                                *)
THEOREM ReadsAreConsistent == Spec => []ReadIsConsistent
<1>1. IInv => ReadIsConsistent
  BY DEF IInv
<1>2. QED
  BY InitIInv, NextIInv, <1>1, PTL DEF Spec

-----------------------------------------------------------------------------
(* The averages *)

Zero(s) == <<s[1], s[2], 0>>

LEMMA SlotFacts ==
  ASSUME NEW s \in Slots
  PROVE  /\ s = <<s[1], s[2], s[3]>> /\ s[3] \in RegionsOf[s[2]]
         /\ Zero(s) \in GameSlots /\ Zero(s) \notin Slots
         /\ \A t \in Slots : Zero(t) = Zero(s) /\ RegionsOf[t[2]] = {t[3]} => t = s
<1>1. /\ s \in Vpns \X Games \X Regions /\ s[3] \in RegionsOf[s[2]]
      /\ \A t \in Slots : t \in Vpns \X Games \X Regions /\ t[3] \in RegionsOf[t[2]]
  BY DEF Slots
<1>2. s[1] \in Vpns /\ s[2] \in Games /\ s = <<s[1], s[2], s[3]>>
  BY <1>1
<1>3. \A t \in Slots : t = <<t[1], t[2], t[3]>> /\ t[2] \in Games
  BY <1>1
<1>4. Zero(s)[2] = s[2] /\ Zero(s)[3] = 0
  BY DEF Zero
<1>5. Zero(s) \in GameSlots
  BY <1>2 DEF Zero, GameSlots
<1>6. \A g \in Games : 0 \notin RegionsOf[g]
  BY StoreAssumption
<1>7. Zero(s) \notin Slots
  BY <1>1, <1>2, <1>4, <1>6
<1>8. ASSUME NEW t \in Slots, Zero(t) = Zero(s), RegionsOf[t[2]] = {t[3]}
      PROVE  t = s
  <2>1. t[1] = s[1] /\ t[2] = s[2]
    BY <1>8 DEF Zero
  <2>2. s[3] = t[3]
    BY <1>1, <1>8, <2>1
  <2> QED BY <1>2, <1>3, <2>1, <2>2
<1> QED BY <1>1, <1>2, <1>5, <1>7, <1>8

(* What AverageMatchesServed says of one slot. *)
AverageAt(s) ==
  IF Served(s) = None
    THEN rtt[s] \in {0, None} /\ cnt[s] \in {0, None}
    ELSE /\ rtt[s] = AvaAverage(Served(s))
         /\ cnt[s] = AvaCounter(Served(s))
         /\ RegionsOf[s[2]] = {s[3]} => rtt[Zero(s)] = rtt[s]

(* Averages, count and flag are written one after the other: what has been   *)
(* written so far, while the slot is torn; and while the script is under way *)
(* nothing is served that they could disagree with.                          *)
AverageInv ==
  /\ \A s \in Slots \ torn : AverageAt(s)
  /\ ipc # "off" => torn = {} /\ \A s \in Slots : activeid[s] \in {-1, None}
  /\ mpc \in {"setcnt", "setrtt0", "flip"} =>
       cur.slot \in torn /\ rtt[cur.slot] = AvaAverage(cur.data)
  /\ mpc \in {"setrtt0", "flip"} => cnt[cur.slot] = AvaCounter(cur.data)
  /\ mpc = "flip" => rtt[Zero(cur.slot)] = AvaAverage(cur.data)

LEMMA AverageInit == Init => AverageInv
<1> SUFFICES ASSUME Init PROVE AverageInv
  OBVIOUS
<1>1. \A s \in Slots : rtt[s] = 0 /\ cnt[s] = 0 /\ activeid[s] = -1
  BY DEF Init
<1>2. \A s \in Slots : Served(s) = None
  BY <1>1 DEF Served
<1> QED BY <1>1, <1>2 DEF AverageInv, AverageAt, Init

(* A report is written into the buffer that its slot does not serve. *)
LEMMA WritesAside ==
  ASSUME IInv, DealDelete \/ DealAdd
  PROVE  \A s \in Slots : Served(s)' = Served(s)
<1> USE DEF redis, writer, script, reader, ghost
<1>1. /\ cur.slot \in Slots /\ newid \in {0, 1} /\ activeid[cur.slot] # newid
      /\ buffer \in [Slots -> [{0, 1} -> SUBSET UNION Data]]
  BY DEF DealDelete, DealAdd, DealSteps, IInv, TypeOK, RedisTypeOK, WriterTypeOK, Reports,
         TargetIsUnused
<1>2. /\ UNCHANGED activeid
      /\ \/ buffer' = buffer
         \/ \E z : buffer' = [buffer EXCEPT ![cur.slot][newid] = z]
  BY DEF DealDelete, DealAdd
<1>3. \A s \in Slots, i \in {0, 1} :
        s # cur.slot \/ i # newid => buffer'[s][i] = buffer[s][i]
  <2>1. CASE buffer' = buffer
    BY <2>1
  <2>2. ASSUME NEW z, buffer' = [buffer EXCEPT ![cur.slot][newid] = z]
        PROVE  \A s \in Slots, i \in {0, 1} :
                 s # cur.slot \/ i # newid => buffer'[s][i] = buffer[s][i]
    <3> DEFINE row == [buffer[cur.slot] EXCEPT ![newid] = z]
    <3>1. \A s \in Slots : buffer'[s] = IF s = cur.slot THEN row ELSE buffer[s]
      BY <1>1, <2>2
    <3>2. \A i \in {0, 1} : i # newid => row[i] = buffer[cur.slot][i]
      BY <1>1, <2>2
    <3> HIDE DEF row
    <3> QED BY <3>1, <3>2
  <2> QED BY <1>2, <2>1, <2>2
<1> QED BY <1>1, <1>2, <1>3 DEF Served

(* A step that writes none of the keys concerned, and does not go forward. *)
LEMMA AverageKept ==
  ASSUME AverageInv, UNCHANGED <<activeid, rtt, cnt, torn>>,
         \A s \in Slots : Served(s)' = Served(s),
         mpc' \notin {"setcnt", "setrtt0", "flip"} \/ UNCHANGED <<mpc, cur>>,
         ipc' # "off" => ipc # "off"
  PROVE  AverageInv'
  BY DEF AverageInv, AverageAt

LEMMA AverageNext ==
  ASSUME ~LiveInit, IInv, AverageInv, [Next]_vars
  PROVE  AverageInv'
<1> USE DEF redis, writer, script, reader, ghost
<1>1. /\ mpc \in DealSteps => cur \in Reports /\ cur.slot \in Slots /\ cur.data \in Data
      /\ mpc \in {"delete", "add"} => activeid[cur.slot] # newid
      /\ mpc \in DealSteps \ {"exists", "getid"} => newid \in {0, 1}
      /\ ipc # "off" => mpc = "dead"
      /\ DOMAIN rtt = Slots \cup GameSlots /\ DOMAIN cnt = Slots
      /\ activeid \in [Slots -> {-1, 0, 1, None}]
      /\ buffer \in [Slots -> [{0, 1} -> SUBSET UNION Data]]
  BY DEF IInv, TypeOK, RedisTypeOK, WriterTypeOK, TargetIsUnused, OnlyInitOverruns, Reports, Written
<1>2. CASE UNCHANGED <<activeid, buffer, rtt, cnt, torn>>
           /\ (mpc' \notin {"setcnt", "setrtt0", "flip"} \/ UNCHANGED <<mpc, cur>>)
           /\ (ipc' # "off" => ipc # "off")
  BY <1>2, AverageKept DEF Served
<1>3. CASE DealDelete \/ DealAdd
  <2>1. UNCHANGED <<activeid, rtt, cnt, torn, ipc>> /\ mpc' \notin {"setcnt", "setrtt0", "flip"}
    BY <1>3 DEF DealDelete, DealAdd
  <2>2. \A s \in Slots : Served(s)' = Served(s)
    BY <1>3, WritesAside
  <2> QED BY <2>1, <2>2, AverageKept
<1>4. CASE DealSetRtt
  <2>1. /\ cur.slot \in Slots /\ torn' = torn \cup {cur.slot} /\ mpc' = "setcnt" /\ cur' = cur
        /\ rtt' = [rtt EXCEPT ![cur.slot] = AvaAverage(cur.data)] /\ ipc' = ipc /\ ipc = "off"
        /\ UNCHANGED <<activeid, buffer, cnt>>
    BY <1>1, <1>4 DEF DealSetRtt, DealSteps
  <2>2. /\ rtt'[cur.slot] = AvaAverage(cur.data)
        /\ \A x \in Slots \cup GameSlots : x # cur.slot => rtt'[x] = rtt[x]
    BY <1>1, <2>1
  <2>3. \A s \in Slots \ torn' : /\ rtt'[s] = rtt[s] /\ rtt'[Zero(s)] = rtt[Zero(s)]
                                 /\ s \in Slots \ torn
    BY <2>1, <2>2, SlotFacts
  <2>4. \A s \in Slots \ torn' : AverageAt(s)'
    BY <2>1, <2>3 DEF AverageInv, AverageAt, Served
  <2> QED BY <2>1, <2>2, <2>4 DEF AverageInv
<1>5. CASE DealSetCnt
  <2>1. /\ cur.slot \in Slots /\ mpc = "setcnt" /\ mpc' = "setrtt0" /\ cur' = cur
        /\ cnt' = [cnt EXCEPT ![cur.slot] = AvaCounter(cur.data)] /\ ipc' = ipc /\ ipc = "off"
        /\ UNCHANGED <<activeid, buffer, rtt, torn>>
    BY <1>1, <1>5 DEF DealSetCnt, DealSteps
  <2>2. /\ cnt'[cur.slot] = AvaCounter(cur.data)
        /\ \A s \in Slots : s # cur.slot => cnt'[s] = cnt[s]
    BY <1>1, <2>1
  <2>3. cur.slot \in torn
    BY <2>1 DEF AverageInv
  <2>4. \A s \in Slots \ torn' : AverageAt(s)'
    BY <2>1, <2>2, <2>3 DEF AverageInv, AverageAt, Served
  <2> QED BY <2>1, <2>2, <2>4 DEF AverageInv
<1>6. CASE DealSetRtt0
  <2>1. /\ cur.slot \in Slots /\ mpc = "setrtt0" /\ mpc' = "flip" /\ cur' = cur
        /\ rtt' = [rtt EXCEPT ![Zero(cur.slot)] = AvaAverage(cur.data)] /\ ipc' = ipc /\ ipc = "off"
        /\ UNCHANGED <<activeid, buffer, cnt, torn>>
    BY <1>1, <1>6 DEF DealSetRtt0, DealSteps, Zero
  <2>2. /\ rtt'[Zero(cur.slot)] = AvaAverage(cur.data)
        /\ \A x \in Slots \cup GameSlots : x # Zero(cur.slot) => rtt'[x] = rtt[x]
    BY <1>1, <2>1, SlotFacts
  <2>3. cur.slot \in torn /\ rtt[cur.slot] = AvaAverage(cur.data)
        /\ cnt[cur.slot] = AvaCounter(cur.data)
    BY <2>1 DEF AverageInv
  <2>4. \A s \in Slots : rtt'[s] = rtt[s]
    BY <2>1, <2>2, SlotFacts
  <2>5. \A s \in Slots \ torn :
          RegionsOf[s[2]] = {s[3]} => rtt'[Zero(s)] = rtt[Zero(s)]
    BY <2>1, <2>2, <2>3, SlotFacts
  <2>6. \A s \in Slots \ torn' : AverageAt(s)'
    BY <2>1, <2>4, <2>5 DEF AverageInv, AverageAt, Served
  <2> QED BY <2>1, <2>2, <2>3, <2>4, <2>6 DEF AverageInv
<1>7. CASE DealFlip
  <2>1. PICK c \in Slots, d \in Data : c = cur.slot /\ d = cur.data
    BY <1>1, <1>7 DEF DealFlip, DealSteps
  <2>2. /\ mpc = "flip" /\ mpc' = "drain" /\ newid \in {0, 1} /\ cur # None
        /\ activeid' = [activeid EXCEPT ![c] = newid] /\ torn' = torn \ {c}
        /\ ipc' = ipc /\ ipc = "off" /\ UNCHANGED <<buffer, rtt, cnt>>
    BY <1>1, <1>7, <2>1, StoreAssumption DEF DealFlip, DealSteps, Return
  <2>3. buffer[c][newid] = d
    BY <2>1, <2>2 DEF IInv, OnlyInitOverruns, TargetHoldsReport, Written
  <2>4. rtt[c] = AvaAverage(d) /\ cnt[c] = AvaCounter(d) /\ rtt[Zero(c)] = AvaAverage(d)
    BY <2>1, <2>2 DEF AverageInv
  <2>5. activeid'[c] = newid
    BY <1>1, <2>2
  <2>6. Served(c)' = d /\ d # None
    BY <2>2, <2>3, <2>5, StoreAssumption DEF Served
  <2>7. AverageAt(c)'
    BY <2>2, <2>4, <2>6 DEF AverageAt
  <2>8. ASSUME NEW s \in Slots \ torn', s # c PROVE AverageAt(s)'
    <3>1. s \in Slots \ torn /\ activeid'[s] = activeid[s]
      BY <1>1, <2>2, <2>8
    <3> QED BY <2>2, <3>1 DEF AverageInv, AverageAt, Served
  <2> QED BY <2>2, <2>7, <2>8 DEF AverageInv
<1>8. CASE InitFlush
  <2>1. /\ \A s \in Slots : activeid'[s] = None /\ rtt'[s] = None /\ cnt'[s] = None
        /\ torn' = {} /\ mpc' = mpc /\ mpc = "dead"
    BY <1>8 DEF InitFlush
  <2>2. \A s \in Slots : Served(s)' = None
    BY <2>1, StoreAssumption DEF Served
  <2> QED BY <2>1, <2>2 DEF AverageInv, AverageAt
<1>9. CASE InitSlot
  <2>1. /\ mpc' = mpc /\ mpc = "dead" /\ torn' = torn /\ torn = {}
        /\ \A s \in Slots : activeid[s] \in {-1, None}
    BY <1>1, <1>9 DEF InitSlot, AverageInv
  <2>2. \A s \in Slots : /\ activeid'[s] \in {-1, None}
                         /\ rtt'[s] \in {0, rtt[s]} /\ cnt'[s] \in {0, cnt[s]}
    <3>1. CASE itodo = {}
      BY <1>9, <2>1, <3>1 DEF InitSlot
    <3>2. CASE itodo # {}
      <4>1. PICK s \in itodo :
              /\ rtt' = [rtt EXCEPT ![s] = 0, ![Zero(s)] = 0]
              /\ cnt' = [cnt EXCEPT ![s] = 0]
              /\ activeid' = [activeid EXCEPT ![s] = -1]
        BY <1>9, <3>2 DEF InitSlot, Zero
      <4> QED BY <1>1, <2>1, <4>1
    <3> QED BY <3>1, <3>2
  <2>3. \A s \in Slots : Served(s) = None /\ Served(s)' = None
    BY <2>1, <2>2, StoreAssumption DEF Served
  <2>4. \A s \in Slots : AverageAt(s)
    BY <2>1 DEF AverageInv
  <2> QED BY <2>1, <2>2, <2>3, <2>4 DEF AverageInv, AverageAt
<1>10. CASE (\E report \in Reports : DoPost(report)) \/ ServerFails \/ MainTop \/ MainDrain
  BY <1>2, <1>10 DEF DoPost, ServerFails, MainTop, MainDrain
<1>11. CASE DealExists \/ DealGetId \/ DealMembers \/ DealRaises
  BY <1>2, <1>11 DEF DealExists, DealGetId, DealMembers, DealRaises, LoopOverRegions, Return
<1>12. CASE Crash \/ Restart \/ InitRegions
  BY <1>2, <1>12 DEF Crash, Restart, InitRegions
<1>13. ASSUME NEW r \in Readers, Read(r) PROVE AverageInv'
  BY <1>2, <1>13 DEF Read, ReadStart, ReadExists, ReadGet, ReadRange
<1>14. CASE UNCHANGED vars
  BY <1>2, <1>14 DEF vars
<1> QED
  BY <1>3, <1>4, <1>5, <1>6, <1>7, <1>8, <1>9, <1>10, <1>11, <1>12, <1>13, <1>14
     DEF Next, Main, Deal, Script

(* As long as redis_init.py runs only while detecttoredis.py is down, the    *)
(* average a vpn is chosen by is the average of the list its clients are     *)
(* served, for every slot whose report did not fail between the two writes.  *)
THEOREM AverageIsServed ==
  ASSUME ~LiveInit
  PROVE  Spec => []AverageMatchesServed
<1>1. Init => IInv /\ AverageInv
  BY InitIInv, AverageInit
<1>2. (IInv /\ AverageInv) /\ [Next]_vars => (IInv /\ AverageInv)'
  BY ~LiveInit, NextIInv, AverageNext
<1>3. AverageInv => AverageMatchesServed
  BY DEF AverageInv, AverageAt, AverageMatchesServed, Zero
<1>4. QED
  BY <1>1, <1>2, <1>3, PTL DEF Spec

-----------------------------------------------------------------------------
(* DetectStore implements ReportStore. *)

Snapshot == [s \in Slots |-> Served(s)]

(* The abstract queue loses its head when the report at hand is finished. *)
LEMMA PendingBusy ==
  ASSUME cur \in Reports, reports \in Seq(Reports)
  PROVE  /\ Pending # <<>>
         /\ Head(Pending) = cur
         /\ Tail(Pending) = reports
<1>1. cur # None
  BY StoreAssumption
<1>2. Pending = <<cur>> \o reports
  BY <1>1 DEF Pending
<1>3. QED
  BY <1>2

LEMMA PendingIdle ==
  ASSUME cur = None, reports \in Seq(Reports)
  PROVE  Pending = reports
  BY DEF Pending

(* A step that changes neither the queue nor the flags and buffers stutters. *)
LEMMA StoreStutters ==
  ASSUME UNCHANGED <<activeid, buffer, cur, reports>>
  PROVE  UNCHANGED Abstract!vars
  BY DEF Abstract!vars, Pending, Served

(* Returning from deal_report without a flag is an abstract Drop. *)
LEMMA ReturnDrops ==
  ASSUME TypeOK, mpc \in DealSteps, Return, UNCHANGED <<activeid, buffer, reports>>
  PROVE  Abstract!Drop
<1>1. cur \in Reports /\ reports \in Seq(Reports)
  BY DEF TypeOK, WriterTypeOK
<1>2. Pending # <<>> /\ Tail(Pending) = reports
  BY <1>1, PendingBusy
<1>3. Pending' = reports
  <2>1. cur' = None /\ reports' = reports
    BY DEF Return
  <2>2. Pending' = <<>> \o reports
    BY <2>1 DEF Pending
  <2>3. QED
    BY <2>2, <1>1
<1>4. Snapshot' = Snapshot
  BY DEF Snapshot, Served
<1>5. QED
  BY <1>2, <1>3, <1>4 DEF Abstract!Drop, Snapshot

(* Losing the queue and the report at hand is an abstract Lose. *)
LEMMA QueueLost ==
  ASSUME cur' = None, reports' = <<>>, UNCHANGED <<activeid, buffer>>
  PROVE  Abstract!Lose
<1>1. Pending' = <<>>
  BY DEF Pending
<1>2. Snapshot' = Snapshot
  BY DEF Snapshot, Served
<1>3. QED
  BY <1>1, <1>2 DEF Abstract!Lose, Snapshot

LEMMA InitRefines == Init => Abstract!Init
<1> SUFFICES ASSUME Init PROVE Abstract!Init
  OBVIOUS
<1>1. Pending = <<>>
  BY DEF Init, Pending
<1>2. \A s \in Slots : Served(s) = None
  BY DEF Init, Served
<1>3. QED
  BY <1>1, <1>2 DEF Abstract!Init

LEMMA NextRefines ==
  ASSUME ~LiveInit, IInv, IInv', [Next]_vars
  PROVE  [Abstract!Next]_(Abstract!vars)
<1> USE DEF redis, writer, script, reader, ghost
<1>0. TypeOK /\ RedisTypeOK /\ WriterTypeOK
  BY DEF IInv, TypeOK
<1>1. ASSUME NEW report \in Reports, DoPost(report)
      PROVE  Abstract!Accept(report)
  <2>1. reports' = Append(reports, report) /\ cur' = cur
    BY <1>1 DEF DoPost
  <2>2. reports \in Seq(Reports)
    BY <1>0 DEF WriterTypeOK
  <2>3. Pending' = Append(Pending, report)
    <3>1. CASE cur = None
      <4>1. Pending = reports /\ Pending' = <<>> \o reports'
        BY <2>1, <2>2, <3>1 DEF Pending
      <4>2. QED
        BY <4>1, <2>1, <2>2
    <3>2. CASE cur # None
      <4>1. Pending = <<cur>> \o reports /\ Pending' = <<cur>> \o reports'
        BY <2>1, <3>2 DEF Pending
      <4>2. cur \in Reports
        BY <1>0, <3>2 DEF WriterTypeOK
      <4>3. QED
        BY <4>1, <4>2, <2>1, <2>2
    <3>3. QED
      BY <3>1, <3>2
  <2>4. Snapshot' = Snapshot
    BY <1>1 DEF DoPost, Snapshot, Served
  <2>5. QED
    BY <2>3, <2>4 DEF Abstract!Accept, Snapshot
<1>2. ASSUME MainTop PROVE Abstract!Lose \/ UNCHANGED Abstract!vars
  <2>1. cur = None /\ cur' = None
    BY <1>2, <1>0 DEF MainTop, WriterTypeOK, DealSteps
  <2>2. CASE needexit
    BY <1>2, <2>1, <2>2, QueueLost DEF MainTop
  <2>3. CASE ~needexit
    BY <1>2, <2>3, StoreStutters DEF MainTop
  <2>4. QED
    BY <2>2, <2>3
<1>3. ASSUME MainDrain PROVE UNCHANGED Abstract!vars
  <2>1. cur = None /\ reports \in Seq(Reports)
    BY <1>3, <1>0 DEF MainDrain, WriterTypeOK, DealSteps
  <2>2. CASE reports = <<>>
    BY <1>3, <2>2, StoreStutters DEF MainDrain
  <2>3. CASE reports # <<>>
    <3>1. cur' = Head(reports) /\ reports' = Tail(reports)
      BY <1>3, <2>3 DEF MainDrain
    <3>2. Head(reports) \in Reports
      BY <2>1, <2>3, QueueType
    <3>3. Pending' = <<Head(reports)>> \o Tail(reports)
      BY <3>1, <3>2, StoreAssumption DEF Pending
    <3>4. Pending' = Pending
      BY <2>1, <2>3, <3>3, PendingIdle
    <3>5. Snapshot' = Snapshot
      BY <1>3 DEF MainDrain, Snapshot, Served
    <3>6. QED
      BY <3>4, <3>5 DEF Abstract!vars, Snapshot
  <2>4. QED
    BY <2>2, <2>3
<1>4. ASSUME DealExists \/ DealGetId \/ DealMembers
      PROVE  Abstract!Drop \/ UNCHANGED Abstract!vars
  <2>1. mpc \in DealSteps /\ UNCHANGED <<activeid, buffer, reports>>
    BY <1>4 DEF DealExists, DealGetId, DealMembers, DealSteps
  <2>2. Return \/ UNCHANGED cur
    BY <1>4 DEF DealExists, DealGetId, DealMembers, LoopOverRegions
  <2>3. QED
    BY <1>0, <2>1, <2>2, ReturnDrops, StoreStutters
<1>5. ASSUME DealDelete \/ DealAdd PROVE UNCHANGED Abstract!vars
  <2>1. UNCHANGED <<activeid, cur, reports>>
    BY <1>5 DEF DealDelete, DealAdd
  <2>2. \A s \in Slots : Served(s)' = Served(s)
    BY <1>5, WritesAside
  <2>3. QED
    BY <2>1, <2>2 DEF Abstract!vars, Pending
<1>6. ASSUME DealFlip PROVE Abstract!Publish
  <2>1. cur \in Reports /\ reports \in Seq(Reports) /\ newid \in {0, 1}
    BY <1>0, <1>6 DEF DealFlip, WriterTypeOK, DealSteps
  <2>2. Pending # <<>> /\ Head(Pending) = cur /\ Tail(Pending) = reports
    BY <2>1, PendingBusy
  <2>3. ~overrun
    BY <2>1, StoreAssumption DEF IInv, OnlyInitOverruns
  <2>4. buffer[cur.slot][newid] = cur.data
    BY <1>6, <2>3 DEF DealFlip, IInv, TargetHoldsReport, Written
  <2>5. Pending' = reports
    <3>1. Pending' = <<>> \o reports
      BY <1>6 DEF DealFlip, Return, Pending
    <3>2. QED
      BY <3>1, <2>1
  <2>6. Snapshot' = [Snapshot EXCEPT ![cur.slot] = cur.data]
    <3>1. activeid' = [activeid EXCEPT ![cur.slot] = newid] /\ buffer' = buffer
      BY <1>6 DEF DealFlip
    <3>2. cur.slot \in Slots
      BY <2>1 DEF Reports
    <3>3. \A s \in Slots : Served(s)' = IF s = cur.slot THEN cur.data ELSE Served(s)
      BY <1>0, <2>1, <2>4, <3>1, <3>2 DEF Served, RedisTypeOK
    <3>4. QED
      BY <3>2, <3>3 DEF Snapshot
  <2>7. QED
    BY <2>2, <2>5, <2>6 DEF Abstract!Publish, Snapshot
<1>7. ASSUME DealRaises PROVE Abstract!Drop
  BY <1>0, <1>7, ReturnDrops DEF DealRaises
<1>8. ASSUME Crash PROVE Abstract!Lose
  BY <1>8, QueueLost DEF Crash
<1>9. ASSUME InitFlush PROVE Abstract!Reset
  <2>1. \A s \in Slots : Served(s)' = None
    BY <1>9, StoreAssumption DEF InitFlush, Served
  <2>2. Pending' = Pending
    BY <1>9 DEF InitFlush, Pending
  <2>3. QED
    BY <2>1, <2>2 DEF Abstract!Reset
<1>10. ASSUME InitSlot PROVE UNCHANGED Abstract!vars
  <2>1. \A s \in itodo : activeid[s] = None
    BY <1>10 DEF InitSlot, IInv, OnlyInitOverruns
  <2>2. \A s \in Slots : Served(s)' = Served(s)
    <3>1. CASE itodo = {}
      BY <1>10, <3>1 DEF InitSlot, Served
    <3>2. CASE itodo # {}
      <4>1. PICK s \in itodo : activeid' = [activeid EXCEPT ![s] = -1]
        BY <1>10, <3>2 DEF InitSlot
      <4>2. buffer' = buffer
        BY <1>10 DEF InitSlot
      <4>3. s \in Slots /\ activeid[s] = None
        BY <1>0, <2>1, <4>1 DEF WriterTypeOK
      <4>4. None \notin {0, 1}
        BY StoreAssumption
      <4>5. QED
        BY <1>0, <4>1, <4>2, <4>3, <4>4 DEF Served, RedisTypeOK
    <3>3. QED
      BY <3>1, <3>2
  <2>3. Pending' = Pending
    BY <1>10 DEF InitSlot, Pending
  <2>4. QED
    BY <2>2, <2>3 DEF Abstract!vars
<1>11. ASSUME \/ ServerFails \/ DealSetRtt \/ DealSetCnt \/ DealSetRtt0
              \/ Restart \/ InitRegions \/ UNCHANGED vars
              \/ \E r \in Readers : Read(r)
       PROVE  UNCHANGED Abstract!vars
  BY <1>11, StoreStutters DEF ServerFails, DealSetRtt, DealSetCnt, DealSetRtt0,
     Restart, InitRegions, vars, Read, ReadStart, ReadExists, ReadGet, ReadRange
<1>12. QED
  BY <1>1, <1>2, <1>3, <1>4, <1>5, <1>6, <1>7, <1>8, <1>9, <1>10, <1>11
     DEF Next, Main, Deal, Script, Abstract!Next, Abstract!Reports, Reports

(* With redis_init.py run offline, the sorted sets, the flag and the queue   *)
(* behave as if each report were published in one indivisible step, in the   *)
(* order in which the reports were acknowledged.                             *)
THEOREM StoreRefinement ==
  ASSUME ~LiveInit
  PROVE  Spec => ImplementsReportStore
<1>1. IInv /\ IInv' /\ [Next]_vars => [Abstract!Next]_(Abstract!vars)
  BY ~LiveInit, NextRefines
<1>2. QED
  BY InitIInv, NextIInv, InitRefines, <1>1, PTL
     DEF Spec, ImplementsReportStore, Abstract!Spec

=============================================================================
