----------------------------- MODULE DetectStore -----------------------------
(***************************************************************************)
(* The detection store of one cache node (ccserver):                       *)
(*   - detecttoredis.py: the HTTP thread that queues reports, and the main *)
(*     loop whose deal_report writes one report into Redis, one Redis      *)
(*     command per step (each command is atomic, the sequence is not);     *)
(*   - cc_getgamelistporttext.lua: the nginx workers that answer a client  *)
(*     from the sorted set the flag names, again one command per step;     *)
(*   - redis_init.py: the script that flushes and rebuilds the keys.       *)
(* A sorted set is a set of <<member, score>> pairs with distinct members. *)
(***************************************************************************)
EXTENDS Integers, Sequences, FiniteSets, FiniteSetsExt

CONSTANTS
  Vpns,        \* vpn node ids
  Games,       \* game ids
  RegionsOf,   \* the region ids of each game (game_region_tbl)
  Data,        \* the lists a report can carry, as sets of <<member, rtt>>
  Readers,     \* requests being served by the nginx workers
  ClientRtts,  \* the rtts a client reports for its vpn
  None,        \* a missing key
  LiveInit,    \* may redis_init.py run while detecttoredis.py is running?
  MaxPosts,    \* bound: reports posted in a behaviour
  MaxFaults    \* bound: Redis errors, crashes and re-initialisations

AVA_INF     == 99999
MINVPNRTT   == 30
MAXTRANSRTT == 100

Regions == UNION {RegionsOf[g] : g \in Games}
Slots == {s \in Vpns \X Games \X Regions : s[3] \in RegionsOf[s[2]]}
GameSlots == {<<v, g, 0>> : v \in Vpns, g \in Games}
Members   == {e[1] : e \in UNION Data}
Reports   == [slot : Slots, data : Data]

ASSUME StoreAssumption ==
  /\ RegionsOf \in [Games -> SUBSET (Nat \ {0})]
  /\ \A d \in Data : \A x, y \in d : x[1] = y[1] => x = y
  /\ None \notin Data \cup Reports \cup {-1, 0, 1}
  /\ LiveInit \in BOOLEAN
  /\ MaxPosts \in Nat /\ MaxFaults \in Nat

VARIABLES
  (* Redis *)
  activeid,    \* vpn_X_detect_activeid, field game_Y_region_Z_activeid
  buffer,      \* vpn_X_game_Y_region_Z_detect_data_{0,1}
  rtt,         \* vpn_X_ava_rtt, fields game_Y_region_Z_rtt; region 0 is the game
  cnt,         \* vpn_X_ava_rtt, fields game_Y_region_Z_rtt_cnt
  regions,     \* the sets game_Y_region
  (* detecttoredis.py *)
  reports,     \* the in-memory queue between the HTTP thread and the main loop
  mpc,         \* what the main loop does next
  cur,         \* the report deal_report works on
  newid,       \* its activeid local: first what was read, then the target
  todo,        \* entries of the report not yet written
  needexit,    \* p_need_exit
  (* redis_init.py *)
  ipc,         \* what the script does next
  itodo,       \* the slots it has not initialised yet
  (* the requests of the nginx workers *)
  rpc, rslot, rmax, rid, rout,
  (* bounds and history *)
  posts, faults,
  held,        \* the list the slot of a request served when it read the flag
  flips,       \* 1 if the flag of that slot was set or flushed since then
  torn,        \* slots whose averages were written and whose flag never was
  last,        \* the list last posted for each slot
  overrun,     \* did a flush overtake the report being dealt with?
  crossed      \* slots that serve a report a flush overtook

redis  == <<activeid, buffer, rtt, cnt, regions>>
writer == <<reports, mpc, cur, newid, todo, needexit>>
script == <<ipc, itodo>>
reader == <<rpc, rslot, rmax, rid, rout>>
ghost  == <<posts, faults, held, flips, torn, last, overrun, crossed>>
vars   == <<redis, writer, script, reader, ghost>>

(* Redis commands *)
ZAdd(z, e)            == {x \in z : x[1] # e[1]} \cup {e}
ZRangeByScore(z, max) == {x[1] : x \in {y \in z : 0 <= y[2] /\ y[2] <= max}}

(* The average of a report: entries with rtt AVA_INF do not count. *)
Reached(d) == {e \in d : e[2] # AVA_INF}
AvaCounter(d) == Cardinality(Reached(d))
AvaAverage(d) ==
  IF Reached(d) = {} THEN AVA_INF
  ELSE MapThenSumSet(LAMBDA e : e[2], Reached(d)) \div AvaCounter(d)

(* The list a slot serves: the sorted set its flag names. *)
Served(s) == IF activeid[s] \in {0, 1} THEN buffer[s][activeid[s]] ELSE None

Init ==
  /\ activeid = [s \in Slots |-> -1]
  /\ buffer = [s \in Slots |-> [i \in {0, 1} |-> {}]]
  /\ rtt = [s \in Slots \cup GameSlots |-> 0]
  /\ cnt = [s \in Slots |-> 0]
  /\ regions = RegionsOf
  /\ reports = <<>> /\ mpc = "top" /\ cur = None /\ newid = None /\ todo = {}
  /\ needexit = FALSE
  /\ ipc = "off" /\ itodo = {}
  /\ rpc = [r \in Readers |-> "idle"]
  /\ rslot = [r \in Readers |-> None]
  /\ rmax = [r \in Readers |-> 0]
  /\ rid = [r \in Readers |-> None]
  /\ rout = [r \in Readers |-> None]
  /\ posts = 0 /\ faults = 0
  /\ held = [r \in Readers |-> None]
  /\ flips = [r \in Readers |-> 0]
  /\ torn = {}
  /\ last = [s \in Slots |-> None]
  /\ overrun = FALSE /\ crossed = {}

-----------------------------------------------------------------------------
(* The HTTP thread: a well-formed report is queued in memory, then answered *)
(* 200; the agent never resends it.                                         *)
DoPost(report) ==
  /\ mpc # "dead" /\ ~needexit
  /\ posts < MaxPosts
  /\ reports' = Append(reports, report)
  /\ posts' = posts + 1
  /\ last' = [last EXCEPT ![report.slot] = report.data]
  /\ UNCHANGED <<redis, mpc, cur, newid, todo, needexit, script, reader,
                 faults, held, flips, torn, overrun, crossed>>

(* serve_forever raised: the thread ends and asks the main loop to exit. *)
ServerFails ==
  /\ mpc # "dead" /\ ~needexit
  /\ faults < MaxFaults
  /\ needexit' = TRUE
  /\ faults' = faults + 1
  /\ UNCHANGED <<redis, reports, mpc, cur, newid, todo, script, reader,
                 posts, held, flips, torn, last, overrun, crossed>>

(* Mutant: the loop tests the exit flag but never drains. *)
MainTopNeverDrains ==
  /\ mpc = "top"
  /\ IF needexit THEN mpc' = "dead" /\ reports' = <<>>
                 ELSE UNCHANGED <<mpc, reports>>
  /\ UNCHANGED <<redis, cur, newid, todo, needexit, script, reader, ghost>>

(* The main loop tests p_need_exit once per turn; the queue dies with it. *)
MainTop ==
  /\ mpc = "top"
  /\ IF needexit
       THEN mpc' = "dead" /\ reports' = <<>>
       ELSE mpc' = "drain" /\ UNCHANGED reports
  /\ UNCHANGED <<redis, cur, newid, todo, needexit, script, reader, ghost>>

(* Mutant: the newest report first. *)
MainDrainNewestFirst ==
  /\ mpc = "drain"
  /\ IF reports = <<>>
       THEN mpc' = "top" /\ UNCHANGED <<reports, cur>>
       ELSE /\ cur' = reports[Len(reports)]
            /\ reports' = SubSeq(reports, 1, Len(reports) - 1)
            /\ mpc' = "exists"
  /\ overrun' = FALSE
  /\ UNCHANGED <<redis, newid, todo, needexit, script, reader, posts, faults,
                 held, flips, torn, last, crossed>>

(* while not reports.empty(): deal_report(r, reports.get()) *)
MainDrain ==
  /\ mpc = "drain"
  /\ IF reports = <<>>
       THEN mpc' = "top" /\ UNCHANGED <<reports, cur>>
       ELSE /\ cur' = Head(reports)
            /\ reports' = Tail(reports)
            /\ mpc' = "exists"
  /\ overrun' = FALSE
  /\ UNCHANGED <<redis, newid, todo, needexit, script, reader, posts, faults,
                 held, flips, torn, last, crossed>>

-----------------------------------------------------------------------------
(* deal_report, one Redis command per step. *)

(* Mutant: the report is not forgotten on return. *)
ReturnKeepsReport ==
  /\ mpc' = "drain"
  /\ newid' = None /\ todo' = {}
  /\ UNCHANGED cur

(* deal_report returns to the while loop. *)
Return ==
  /\ mpc' = "drain"
  /\ cur' = None /\ newid' = None /\ todo' = {}

DealExists ==
  /\ mpc = "exists"
  /\ IF activeid[cur.slot] = None
       THEN Return
       ELSE mpc' = "getid" /\ UNCHANGED <<cur, newid, todo>>
  /\ UNCHANGED <<redis, reports, needexit, script, reader, ghost>>

(* Mutant: the buffers are not swapped. *)
TargetNotSwapped(id) == IF id = -1 THEN 0 ELSE id

(* int(None) raises if the flag vanished; otherwise the other buffer is the *)
(* target.                                                                  *)
Target(id) == IF id = 0 THEN 1 ELSE 0

(* Mutant: the flag is set before the buffer is written. *)
DealGetIdFlipsFirst ==
  /\ mpc = "getid"
  /\ IF activeid[cur.slot] = None
       THEN Return /\ UNCHANGED activeid
       ELSE /\ newid' = Target(activeid[cur.slot])
            /\ activeid' = [activeid EXCEPT ![cur.slot] = Target(activeid[cur.slot])]
            /\ mpc' = "delete"
            /\ UNCHANGED <<cur, todo>>
  /\ UNCHANGED <<buffer, rtt, cnt, regions, reports, needexit, script, reader,
                 ghost>>

DealGetId ==
  /\ mpc = "getid"
  /\ IF activeid[cur.slot] = None
       THEN Return
       ELSE /\ newid' = Target(activeid[cur.slot])
            /\ mpc' = "delete"
            /\ UNCHANGED <<cur, todo>>
  /\ UNCHANGED <<redis, reports, needexit, script, reader, ghost>>

(* Mutant: the target buffer is not emptied first. *)
DealDeleteSkipped ==
  /\ mpc = "delete"
  /\ todo' = cur.data
  /\ mpc' = "add"
  /\ UNCHANGED <<redis, reports, cur, newid, needexit, script, reader, ghost>>

DealDelete ==
  /\ mpc = "delete"
  /\ buffer' = [buffer EXCEPT ![cur.slot][newid] = {}]
  /\ todo' = cur.data
  /\ mpc' = "add"
  /\ UNCHANGED <<activeid, rtt, cnt, regions, reports, cur, newid, needexit,
                 script, reader, ghost>>

DealAdd ==
  /\ mpc = "add"
  /\ IF todo = {}
       THEN mpc' = "members" /\ UNCHANGED <<buffer, todo>>
       ELSE \E e \in todo :
              /\ buffer' = [buffer EXCEPT ![cur.slot][newid] = ZAdd(@, e)]
              /\ todo' = todo \ {e}
              /\ UNCHANGED mpc
  /\ UNCHANGED <<activeid, rtt, cnt, regions, reports, cur, newid, needexit,
                 script, reader, ghost>>

(* smembers, then the loop over the game's other regions.  Its body names an *)
(* undefined variable (gameid), so one other region is enough for the        *)
(* exception that ends deal_report.                                          *)
OtherRegions(s) == regions[s[2]] \ {s[3]}
LoopOverRegions(s) ==
  IF OtherRegions(s) # {}
    THEN Return
    ELSE mpc' = "setrtt" /\ UNCHANGED <<cur, newid, todo>>

DealMembers ==
  /\ mpc = "members"
  /\ LoopOverRegions(cur.slot)
  /\ UNCHANGED <<redis, reports, needexit, script, reader, ghost>>

DealSetRtt ==
  /\ mpc = "setrtt"
  /\ rtt' = [rtt EXCEPT ![cur.slot] = AvaAverage(cur.data)]
  /\ torn' = torn \cup {cur.slot}
  /\ mpc' = "setcnt"
  /\ UNCHANGED <<activeid, buffer, cnt, regions, reports, cur, newid, todo,
                 needexit, script, reader, posts, faults, held, flips, last,
                 overrun, crossed>>

(* Mutant: the count is not written. *)
DealSetCntSkipped ==
  /\ mpc = "setcnt"
  /\ mpc' = "setrtt0"
  /\ UNCHANGED <<redis, reports, cur, newid, todo, needexit, script, reader,
                 ghost>>

DealSetCnt ==
  /\ mpc = "setcnt"
  /\ cnt' = [cnt EXCEPT ![cur.slot] = AvaCounter(cur.data)]
  /\ mpc' = "setrtt0"
  /\ UNCHANGED <<activeid, buffer, rtt, regions, reports, cur, newid, todo,
                 needexit, script, reader, ghost>>

(* With no other region the game's average is the report's own. *)
DealSetRtt0 ==
  /\ mpc = "setrtt0"
  /\ rtt' = [rtt EXCEPT ![<<cur.slot[1], cur.slot[2], 0>>] = AvaAverage(cur.data)]
  /\ mpc' = "flip"
  /\ UNCHANGED <<activeid, buffer, cnt, regions, reports, cur, newid, todo,
                 needexit, script, reader, ghost>>

DealFlip ==
  /\ mpc = "flip"
  /\ activeid' = [activeid EXCEPT ![cur.slot] = newid]
  /\ flips' = [r \in Readers |-> IF rslot[r] = cur.slot THEN 1 ELSE flips[r]]
  /\ torn' = torn \ {cur.slot}
  /\ crossed' = IF overrun THEN crossed \cup {cur.slot} ELSE crossed \ {cur.slot}
  /\ Return
  /\ UNCHANGED <<buffer, rtt, cnt, regions, reports, needexit, script, reader,
                 posts, faults, held, last, overrun>>

DealSteps == {"exists", "getid", "delete", "add", "members", "setrtt",
              "setcnt", "setrtt0", "flip"}

(* A Redis command raises: the handler logs and returns, nothing is undone. *)
DealRaises ==
  /\ mpc \in DealSteps
  /\ faults < MaxFaults
  /\ faults' = faults + 1
  /\ Return
  /\ UNCHANGED <<redis, reports, needexit, script, reader, posts, held, flips,
                 torn, last, overrun, crossed>>

(* The process is killed: Redis keeps what was written, the queue is lost. *)
Crash ==
  /\ mpc # "dead"
  /\ faults < MaxFaults
  /\ faults' = faults + 1
  /\ mpc' = "dead" /\ reports' = <<>>
  /\ cur' = None /\ newid' = None /\ todo' = {}
  /\ UNCHANGED <<redis, needexit, script, reader, posts, held, flips, torn,
                 last, overrun, crossed>>

Restart ==
  /\ mpc = "dead"
  /\ LiveInit \/ ipc = "off"
  /\ mpc' = "top" /\ needexit' = FALSE
  /\ UNCHANGED <<redis, reports, cur, newid, todo, script, reader, ghost>>

Deal ==
  \/ DealExists \/ DealGetId \/ DealDelete \/ DealAdd \/ DealMembers
  \/ DealSetRtt \/ DealSetCnt \/ DealSetRtt0 \/ DealFlip

Main == MainTop \/ MainDrain \/ Deal

-----------------------------------------------------------------------------
(* redis_init.py: flush everything, then set the keys of every slot, then   *)
(* the region sets.  The commands of one slot are one step.                  *)
InitFlush ==
  /\ ipc = "off"
  /\ LiveInit \/ mpc = "dead"
  /\ faults < MaxFaults
  /\ faults' = faults + 1
  /\ activeid' = [s \in Slots |-> None]
  /\ buffer' = [s \in Slots |-> [i \in {0, 1} |-> {}]]
  /\ rtt' = [s \in Slots \cup GameSlots |-> None]
  /\ cnt' = [s \in Slots |-> None]
  /\ regions' = [g \in Games |-> {}]
  /\ ipc' = "detect" /\ itodo' = Slots
  /\ torn' = {} /\ crossed' = {} /\ overrun' = TRUE
  /\ flips' = [r \in Readers |-> 1]
  /\ UNCHANGED <<writer, reader, posts, held, last>>

InitSlot ==
  /\ ipc = "detect"
  /\ IF itodo = {}
       THEN ipc' = "regions" /\ UNCHANGED <<activeid, rtt, cnt, itodo, flips>>
       ELSE \E s \in itodo :
              /\ rtt' = [rtt EXCEPT ![s] = 0, ![<<s[1], s[2], 0>>] = 0]
              /\ cnt' = [cnt EXCEPT ![s] = 0]
              /\ activeid' = [activeid EXCEPT ![s] = -1]
              /\ itodo' = itodo \ {s}
              /\ flips' = [r \in Readers |-> IF rslot[r] = s THEN 1 ELSE flips[r]]
              /\ UNCHANGED ipc
  /\ UNCHANGED <<buffer, regions, writer, reader, posts, faults, held, torn,
                 last, overrun, crossed>>

InitRegions ==
  /\ ipc = "regions"
  /\ regions' = RegionsOf
  /\ ipc' = "off"
  /\ UNCHANGED <<activeid, buffer, rtt, cnt, itodo, writer, reader, ghost>>

Script == InitFlush \/ InitSlot \/ InitRegions

-----------------------------------------------------------------------------
(* A getgamelistporttext request.  It always asks for region 1 of its game. *)
Flag(s) == IF s \in Slots THEN activeid[s] ELSE None

(* validategameregion, then the rtt test: a client close to its vpn gets    *)
(* the empty list without a look at the flag.                                *)
ReadStart(r, v, g, clientrtt) ==
  /\ rpc[r] = "idle"
  /\ regions[g] # {}
  /\ rslot' = [rslot EXCEPT ![r] = <<v, g, 1>>]
  /\ rmax' = [rmax EXCEPT ![r] = MAXTRANSRTT - clientrtt]
  /\ IF clientrtt < MINVPNRTT
       THEN rout' = [rout EXCEPT ![r] = {}] /\ UNCHANGED rpc
       ELSE /\ rout' = [rout EXCEPT ![r] = None]
            /\ rpc' = [rpc EXCEPT ![r] = "exists"]
  /\ rid' = [rid EXCEPT ![r] = None]
  /\ held' = [held EXCEPT ![r] = None]
  /\ flips' = [flips EXCEPT ![r] = 0]
  /\ UNCHANGED <<redis, writer, script, posts, faults, torn, last, overrun,
                 crossed>>

(* Without a flag that is 0 or 1 the request is answered from the static    *)
(* list instead: rout stays None.                                            *)
ReadExists(r) ==
  /\ rpc[r] = "exists"
  /\ rpc' = [rpc EXCEPT ![r] = IF Flag(rslot[r]) = None THEN "idle" ELSE "get"]
  /\ UNCHANGED <<redis, writer, script, rslot, rmax, rid, rout, ghost>>

ReadGet(r) ==
  /\ rpc[r] = "get"
  /\ rid' = [rid EXCEPT ![r] = Flag(rslot[r])]
  /\ rpc' = [rpc EXCEPT ![r] =
               IF Flag(rslot[r]) \in {0, 1} THEN "range" ELSE "idle"]
  /\ held' = [held EXCEPT ![r] = Served(rslot[r])]
  /\ flips' = [flips EXCEPT ![r] = 0]
  /\ UNCHANGED <<redis, writer, script, rslot, rmax, rout, posts, faults, torn,
                 last, overrun, crossed>>

ReadRange(r) ==
  /\ rpc[r] = "range"
  /\ rout' = [rout EXCEPT ![r] = ZRangeByScore(buffer[rslot[r]][rid[r]], rmax[r])]
  /\ rpc' = [rpc EXCEPT ![r] = "idle"]
  /\ UNCHANGED <<redis, writer, script, rslot, rmax, rid, ghost>>

Read(r) ==
  \/ \E v \in Vpns, g \in Games, c \in ClientRtts : ReadStart(r, v, g, c)
  \/ ReadExists(r)
  \/ ReadGet(r)
  \/ ReadRange(r)

-----------------------------------------------------------------------------
Next ==
  \/ \E report \in Reports : DoPost(report)
  \/ ServerFails
  \/ Main
  \/ DealRaises
  \/ Crash
  \/ Restart
  \/ Script
  \/ \E r \in Readers : Read(r)

Spec == Init /\ [][Next]_vars

(* The main loop keeps running, the script finishes once started and a dead *)
(* process is started again; requests, posts and faults need not happen.    *)
FairSpec ==
  /\ Spec
  /\ WF_vars(Main)
  /\ WF_vars(Restart)
  /\ WF_vars(InitSlot \/ InitRegions)

-----------------------------------------------------------------------------
RedisTypeOK ==
  /\ activeid \in [Slots -> {-1, 0, 1, None}]
  /\ buffer \in [Slots -> [{0, 1} -> SUBSET UNION Data]]
  /\ DOMAIN rtt = Slots \cup GameSlots /\ DOMAIN cnt = Slots
  /\ regions \in [Games -> SUBSET Regions]

WriterTypeOK ==
  /\ reports \in Seq(Reports)
  /\ mpc \in DealSteps \cup {"top", "drain", "dead"}
  /\ IF mpc \in DealSteps THEN cur \in Reports ELSE cur = None
  /\ mpc \in DealSteps \ {"exists", "getid"} => newid \in {0, 1}
  /\ todo \in SUBSET UNION Data
  /\ needexit \in BOOLEAN
  /\ ipc \in {"off", "detect", "regions"} /\ itodo \in SUBSET Slots

RequestTypeOK ==
  /\ rpc \in [Readers -> {"idle", "exists", "get", "range"}]
  /\ rid \in [Readers -> {-1, 0, 1, None}]
  /\ DOMAIN rslot = Readers /\ DOMAIN rmax = Readers /\ DOMAIN rout = Readers
  /\ DOMAIN held = Readers /\ flips \in [Readers -> {0, 1}]

GhostTypeOK ==
  /\ torn \in SUBSET Slots /\ posts \in Nat /\ faults \in Nat
  /\ last \in [Slots -> Data \cup {None}]
  /\ overrun \in BOOLEAN /\ crossed \in SUBSET Slots

TypeOK == RedisTypeOK /\ WriterTypeOK /\ RequestTypeOK /\ GhostTypeOK

(* What a slot serves is the whole list of some report, whatever the writer *)
(* is in the middle of and wherever it failed or was killed.                 *)
ServedIsComplete == \A s \in Slots : Served(s) \in Data \cup {None}

(* A request answers from one whole report, the one its slot served when it *)
(* read the flag, as long as the flag was not set again before it ended:    *)
(* a report being written never shows through.                               *)
ReadIsConsistent ==
  \A r \in Readers :
    rpc[r] = "idle" /\ held[r] # None /\ flips[r] = 0 =>
      rout[r] = ZRangeByScore(held[r], rmax[r])

(* The average of a slot, used to choose a vpn, is the average of the list  *)
(* the slot serves, except between the two writes and after a failure there *)
(* (torn); region 0 follows for a game with a single region.                 *)
AverageMatchesServed ==
  \A s \in Slots \ torn :
    IF Served(s) = None
      THEN rtt[s] \in {0, None} /\ cnt[s] \in {0, None}
      ELSE /\ rtt[s] = AvaAverage(Served(s))
           /\ cnt[s] = AvaCounter(Served(s))
           /\ RegionsOf[s[2]] = {s[3]} => rtt[<<s[1], s[2], 0>>] = rtt[s]

(* A flush while a report is being written can make its slot serve a part   *)
(* of it: that slot only, and until its next report.                         *)
TornOnlyByInit ==
  /\ \A s \in Slots \ crossed : Served(s) \in Data \cup {None}
  /\ \A s, t \in crossed : s = t

(* The inductive strengthening of ServedIsComplete and TornOnlyByInit: the   *)
(* buffer being written is not the one the flag names, it holds what has     *)
(* been written so far, and only a flush can get between the two.            *)
Written == {"members", "setrtt", "setcnt", "setrtt0", "flip"}

TargetIsUnused ==
  mpc \in Written \cup {"delete", "add"} => activeid[cur.slot] # newid

TargetHoldsReport ==
  ~overrun =>
    /\ mpc = "add" => /\ todo \subseteq cur.data
                      /\ buffer[cur.slot][newid] = cur.data \ todo
    /\ mpc \in Written => buffer[cur.slot][newid] = cur.data

OnlyInitOverruns ==
  /\ overrun /\ cur # None => crossed = {}
  /\ ~LiveInit => /\ ipc # "off" => mpc = "dead"
                  /\ overrun => cur = None
                  /\ ipc = "detect" => \A s \in itodo : activeid[s] = None
                  /\ crossed = {}

(* What a request that is about to read the list knows of its buffer. *)
RequestKnows ==
  \A r \in Readers :
    /\ rpc[r] \in {"get", "range"} => rslot[r] \in Slots
    /\ rpc[r] = "range" => rid[r] \in {0, 1}
    /\ rpc[r] = "range" /\ flips[r] = 0 =>
         /\ activeid[rslot[r]] = rid[r]
         /\ held[r] = buffer[rslot[r]][rid[r]]
    /\ rpc[r] \in {"exists", "get"} => held[r] = None

IInv == /\ TypeOK
        /\ TargetIsUnused
        /\ TargetHoldsReport
        /\ OnlyInitOverruns
        /\ RequestKnows
        /\ TornOnlyByInit
        /\ ReadIsConsistent

(* An acknowledged report never stays queued for ever: it is dealt with, or *)
(* lost with the process.                                                    *)
ReportsSettled == (cur # None \/ reports # <<>>) ~> (cur = None /\ reports = <<>>)

(* Without a fault, a slot of a game with one region ends up serving the    *)
(* last list posted for it.                                                  *)
ServesLastPosted ==
  \/ <>(faults > 0)
  \/ <>[](\A s \in Slots : RegionsOf[s[2]] = {s[3]} => Served(s) = last[s])

(* A report being dealt with ends with its flag set, unless Redis raised or *)
(* the process was killed.                                                   *)
DealEndsInPublish ==
  [][cur # None /\ cur' = None /\ faults' = faults =>
       activeid'[cur.slot] = newid]_vars

(* The implementation of ReportStore. *)
Pending == (IF cur = None THEN <<>> ELSE <<cur>>) \o reports
Abstract == INSTANCE ReportStore WITH
  pending  <- Pending,
  snapshot <- [s \in Slots |-> Served(s)]
ImplementsReportStore == Abstract!Spec
=============================================================================
