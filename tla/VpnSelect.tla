------------------------------ MODULE VpnSelect ------------------------------
(***************************************************************************)
(* A getvpnip request (cc_getvpnip.lua) beside the writer of the detection *)
(* store: the client lists the vpns it measured, the request adds to each  *)
(* the average the store holds for it, one Redis command per step, and     *)
(* answers with one of the best.  The keys redis_init.py fills that        *)
(* DetectStore does not need are added here.                               *)
(***************************************************************************)
EXTENDS DetectStore

CONSTANTS
  VpnOf,  \* the node of each ip of an enabled vpn (vpn_node_ip_tbl)
  Asks    \* the requests: the ip fixed for the user or None, a game or None,
          \* a region, and the list of [ip, rtt, lose] (qos)

Ips == DOMAIN VpnOf
MAX_AVA_DIFF == 5

(* The ips clients may list, known or not, and what they list. *)
Listable == UNION {{a.qos[i].ip : i \in DOMAIN a.qos} : a \in Asks}
Entries  == [ip : Listable, rtt : Nat, lose : Nat]

(* Averages are milliseconds; a game without a region would have none.       *)
ASSUME SelectAssumption ==
  /\ VpnOf \in [Ips -> Vpns]
  /\ {None, "none", "invalid", "raised", "failed", "null"} \cap Ips = {}
  /\ None \notin {"none", "invalid", "raised", "failed", "null"}
  /\ \A a \in Asks : /\ a.qos \in Seq(Entries)
                     /\ a.spec \notin {"raised", "null"}
  /\ \A g \in Games : RegionsOf[g] # {}
  /\ None \notin Games
  /\ None \notin 0..AVA_INF
  /\ \A d \in Data : AvaAverage(d) \in 0..AVA_INF

VARIABLES
  switch,   \* game_redis_options, field redis_enable
  known,    \* the fields of vpn_active_ip_to_id
  special,  \* is spec_user_to_spec_vpnip filled?
  games,    \* active_game_id
  qpc,      \* what the request does next
  ask,      \* userreq
  at,       \* how far a loop over the list got
  lst,      \* filterqos; own and ava are history: the client's rtt, and the
            \* average that was read
  best,     \* minrtt and filtervpnip
  qout,     \* the answer
  moved,    \* history: did the store change since the request began?
  upset     \* history: was it flushed, or the connection to it lost?

keys    == <<switch, known, special, games>>
request == <<qpc, ask, at, lst, best, qout>>
selvars == <<keys, request, moved, upset>>

(* minrtt is 0 until the first vpn that counts. *)
Unset == [min |-> 0, ips |-> {}]

SelectInit ==
  /\ Init
  /\ switch = 0 /\ known = Ips /\ special = TRUE /\ games = Games
  /\ qpc = "idle" /\ ask = None /\ at = 1 /\ lst = <<>> /\ best = Unset
  /\ qout = None
  /\ moved = FALSE /\ upset = FALSE

-----------------------------------------------------------------------------
(* The request *)
Answer(out) ==
  qpc' = "done" /\ qout' = out /\ at' = 1 /\ lst' = <<>> /\ best' = Unset
Go(pc) == qpc' = pc /\ UNCHANGED <<at, lst, best, qout>>

(* init_redis may return nil: then MySQL answers. *)
AskStart ==
  /\ qpc = "idle"
  /\ ask' \in Asks
  /\ qpc' \in {"switch", "mysql"}
  /\ at' = 1 /\ lst' = <<>> /\ best' = Unset /\ qout' = None
  /\ moved' = FALSE /\ upset' = FALSE

AskSwitch == qpc = "switch" /\ Go(IF switch = 1 THEN "spec" ELSE "mysql")

Filter == IF ask.game = None THEN "exists" ELSE "game"

AskSpec ==
  qpc = "spec" /\ Go(IF special /\ ask.spec # None THEN "getspec" ELSE Filter)

(* A field that vanished since HEXISTS is ngx.null, which is not nil. *)
AskGetSpec == qpc = "getspec" /\ Answer(IF special THEN ask.spec ELSE "null")

AskGame ==
  /\ qpc = "game"
  /\ IF ask.game \notin games THEN Answer("invalid")
     ELSE Go(IF ask.region = 0 THEN "exists" ELSE "region")

AskRegion ==
  /\ qpc = "region"
  /\ IF ask.region \in regions[ask.game] THEN Go("exists") ELSE Answer("invalid")

(* filteractivevpn: HEXISTS and HGET for every ip of the list. *)
AskExists ==
  /\ qpc = "exists" /\ at <= Len(ask.qos)
  /\ IF ask.qos[at].ip \in known
       THEN qpc' = "getid" /\ UNCHANGED at
       ELSE at' = at + 1 /\ UNCHANGED qpc
  /\ UNCHANGED <<lst, best, qout>>

Item(q) == [ip |-> q.ip, rtt |-> q.rtt, loss |-> q.lose, valid |-> TRUE,
            own |-> q.rtt, ava |-> 0]

(* An id that vanished since HEXISTS is ngx.null, and naming its averages     *)
(* will raise; without a game nobody looks at it.                            *)
AskGetId ==
  /\ qpc = "getid"
  /\ IF ask.game # None /\ ask.qos[at].ip \notin known THEN Answer("raised")
     ELSE /\ lst' = Append(lst, Item(ask.qos[at]))
          /\ at' = at + 1 /\ qpc' = "exists"
          /\ UNCHANGED <<best, qout>>

(* A request that names a game goes on to the averages. *)
AskFiltered ==
  /\ qpc = "exists" /\ at > Len(ask.qos)
  /\ at' = 1
  /\ qpc' = IF ask.game = None THEN "choose" ELSE "rtt"
  /\ UNCHANGED <<lst, best, qout>>

-----------------------------------------------------------------------------
(* Mutant: a vpn that was never measured, or not reached, stays valid. *)
WithAvaAlways(x, ava) == [x EXCEPT !.ava = ava, !.rtt = @ + ava]

(* updateqosredis: an average of 0 was never set, AVA_INF reached nobody. *)
WithAva(x, ava) ==
  IF ava \in {0, AVA_INF}
    THEN [x EXCEPT !.ava = ava, !.rtt = AVA_INF, !.valid = FALSE]
    ELSE [x EXCEPT !.ava = ava, !.rtt = @ + ava]

Slot(ip) == <<VpnOf[ip], ask.game, ask.region>>

(* A missing average is ngx.null: tonumber gives nil, and adding it raises. *)
AskRtt ==
  /\ qpc = "rtt" /\ at <= Len(lst)
  /\ IF rtt[Slot(lst[at].ip)] = None THEN Answer("raised")
     ELSE /\ lst' = [lst EXCEPT ![at] = WithAva(@, rtt[Slot(@.ip)])]
          /\ at' = at + 1
          /\ UNCHANGED <<qpc, best, qout>>

(* Mutant: the list is taken in the client's order. *)
AskSortSkipped ==
  /\ qpc = "choose" \/ (qpc = "rtt" /\ at > Len(lst))
  /\ qpc' = "take" /\ at' = 1
  /\ UNCHANGED <<lst, best, qout>>

(* table.sort by rtt, in any order among equals. *)
AskSort ==
  /\ qpc = "choose" \/ (qpc = "rtt" /\ at > Len(lst))
  /\ \E p \in Bijection(DOMAIN lst, DOMAIN lst) :
       /\ lst' = [i \in DOMAIN lst |-> lst[p[i]]]
       /\ \A i, j \in DOMAIN lst : i < j => lst'[i].rtt <= lst'[j].rtt
  /\ qpc' = "take" /\ at' = 1
  /\ UNCHANGED <<best, qout>>

(* One turn of updatesortqosredis. *)
Take(b, x) ==
  IF ~x.valid \/ x.loss # 0 THEN b
  ELSE IF b.min = 0 THEN [min |-> x.rtt, ips |-> b.ips \cup {x.ip}]
  ELSE IF x.rtt - b.min <= MAX_AVA_DIFF THEN [b EXCEPT !.ips = @ \cup {x.ip}]
  ELSE b

AskTake ==
  /\ qpc = "take" /\ at <= Len(lst)
  /\ best' = Take(best, lst[at])
  /\ at' = at + 1
  /\ UNCHANGED <<qpc, lst, qout>>

(* getrandomvpnip, or nil for an empty list. *)
AskChoose ==
  /\ qpc = "take" /\ at > Len(lst)
  /\ qout' \in IF best.ips = {} THEN {"none"} ELSE best.ips
  /\ qpc' = "chosen"
  /\ UNCHANGED <<at, lst, best>>

(* getvpnip: the first with the least rtt, below 99999, among the enabled    *)
(* vpns without loss.                                                        *)
Least(qos, enabled) ==
  LET Usable == {j \in DOMAIN qos : /\ qos[j].ip \in enabled /\ qos[j].lose = 0
                                    /\ qos[j].rtt < AVA_INF}
      Before(j, k) == qos[j].rtt < qos[k].rtt \/ (qos[j].rtt = qos[k].rtt /\ j <= k)
  IN IF Usable = {} THEN {"none"}
     ELSE {qos[j].ip : j \in {i \in Usable : \A k \in Usable : Before(i, k)}}

(* loadvalidvpnip yields the enabled vpns, or nothing if the query failed;   *)
(* init_conn may fail too.                                                   *)
AskMysql ==
  /\ qpc = "mysql"
  /\ \/ qpc' = "least" /\ qout' \in Least(ask.qos, Ips)
     \/ qpc' = "done" /\ qout' \in {"none", "failed"}
  /\ UNCHANGED <<at, lst, best>>

(* A command fails and closes the connection: before the switch is known    *)
(* MySQL answers; later the commands that follow yield nil, which averages   *)
(* still to be added raise on, and else deinit_redis fails.                  *)
AskRedisFails ==
  /\ qpc \notin {"idle", "mysql", "choose", "take", "done", "chosen",
              "least"}
  /\ faults < MaxFaults
  /\ faults' = faults + 1
  /\ IF qpc = "switch" THEN Go("mysql")
     ELSE IF ask.game # None /\ lst # <<>> /\ (qpc = "rtt" => at <= Len(lst))
       THEN Answer("raised")
     ELSE Answer("failed")
  /\ upset' = TRUE
  /\ UNCHANGED <<redis, writer, script, reader, posts, held, flips, torn, last,
                 overrun, crossed>>

(* The answer is out: nothing of the request is left. *)
Answered == qpc \in {"done", "chosen", "least"}
AskEnd ==
  /\ Answered
  /\ qpc' = "idle" /\ ask' = None /\ at' = 1 /\ lst' = <<>> /\ best' = Unset
  /\ qout' = None
  /\ moved' = FALSE /\ upset' = FALSE

Select ==
  \/ AskSwitch \/ AskSpec \/ AskGetSpec \/ AskGame \/ AskRegion
  \/ AskExists \/ AskGetId \/ AskFiltered \/ AskRtt \/ AskSort
  \/ AskTake \/ AskChoose \/ AskMysql

-----------------------------------------------------------------------------
(* The script with all its keys: options, users and vpns, then DetectStore's *)
(* averages and flags, then the games.                                       *)

(* Mutant: only the keys of the detection are deleted. *)
FlushDetectOnly ==
  /\ InitFlush
  /\ UNCHANGED keys
  /\ upset' = (qpc # "idle")

(* deleteallkeys is FLUSHDB. *)
FlushKeys ==
  /\ InitFlush
  /\ switch' = None /\ known' = {} /\ special' = FALSE /\ games' = {}
  /\ upset' = (qpc # "idle")

(* init_redis_options *)
InitOptions ==
  /\ ipc = "detect" /\ switch = None
  /\ switch' = 0
  /\ UNCHANGED <<vars, known, special, games, upset>>

(* init_spec_user_to_spec_vpnip and init_vpn_info *)
InitVpnInfo ==
  /\ ipc = "detect" /\ switch # None /\ ~special
  /\ special' = TRUE /\ known' = Ips
  /\ UNCHANGED <<vars, switch, games, upset>>

InitDetect == special /\ InitSlot /\ UNCHANGED <<keys, upset>>

InitGames ==
  /\ InitRegions
  /\ games' = Games
  /\ UNCHANGED <<switch, known, special, upset>>

(* The administrator turns the use of Redis on, once the script is done.     *)
Administrator ==
  /\ ipc = "off" /\ switch = 0
  /\ switch' = 1
  /\ UNCHANGED <<vars, known, special, games, upset>>

Writer ==
  /\ \/ \E report \in Reports : DoPost(report)
     \/ ServerFails \/ Main \/ DealRaises \/ Crash \/ Restart
  /\ UNCHANGED <<keys, upset>>

Store ==
  \/ Writer
  \/ FlushKeys \/ InitOptions \/ InitVpnInfo \/ InitDetect \/ InitGames
  \/ Administrator

SelectNext ==
  \/ /\ Store /\ ~Answered
     /\ moved' = (qpc # "idle" /\ (moved \/ redis' # redis))
     /\ UNCHANGED request
  \/ /\ Select
     /\ UNCHANGED <<vars, keys, ask, moved, upset>>
  \/ /\ AskStart \/ AskEnd
     /\ UNCHANGED <<vars, keys>>
  \/ /\ AskRedisFails
     /\ UNCHANGED <<keys, ask, moved>>

SelectSpec == SelectInit /\ [][SelectNext]_<<vars, selvars>>

-----------------------------------------------------------------------------
Answers == Ips \cup {None, "none", "invalid", "raised", "failed", "null"}
           \cup {a.spec : a \in Asks}

Items == [ip : Ips, rtt : Nat, loss : Nat, valid : BOOLEAN, own : Nat, ava : 0..AVA_INF]

SelectTypeOK ==
  /\ TypeOK
  /\ switch \in {0, 1, None} /\ known \in SUBSET Ips /\ special \in BOOLEAN
  /\ games \in {{}, Games}
  /\ qpc # "idle" => ask \in Asks
  /\ at \in Nat \ {0} /\ lst \in Seq(Items) /\ qout \in Answers
  /\ best \in [min : Nat, ips : SUBSET Ips]
  /\ moved \in BOOLEAN /\ upset \in BOOLEAN

(* What updatesortqosredis is for: among the vpns without loss that were    *)
(* measured, the answer is at most MAX_AVA_DIFF behind the best, and there   *)
(* is none only if there is no such vpn.  Without a game the averages do     *)
(* not count; a best rtt of 0, which minrtt takes for unset, is left out.    *)
Counts(x) == x.loss = 0 /\ (ask.game # None => x.ava \notin {0, AVA_INF})

AnswersBest ==
  LET Found == {i \in DOMAIN lst : Counts(lst[i])}
      Total(i) == lst[i].own + lst[i].ava
  IN qpc = "chosen" =>
       IF Found = {} THEN qout = "none"
       ELSE \/ \E i \in Found : Total(i) = 0
            \/ \E i \in Found : /\ lst[i].ip = qout
                                /\ \A j \in Found : Total(i) <= Total(j) + MAX_AVA_DIFF

(* The choice is right for what the clients of the vpns are served: if the  *)
(* store did not change during the request and no report failed half way,   *)
(* the vpn it names is within MAX_AVA_DIFF of the best by the lists their    *)
(* slots serve, an average of 0 counting as none.                            *)
ServedRtt(ip) ==
  LET region == IF ask.region = 0 THEN CHOOSE r \in RegionsOf[ask.game] : TRUE
                ELSE ask.region
      list   == Served(<<VpnOf[ip], ask.game, region>>)
  IN IF list = None THEN AVA_INF ELSE AvaAverage(list)

ChoiceMatchesServed ==
  qpc = "chosen" /\ ask.game # None /\ ~moved /\ torn = {} =>
    LET Found == {q \in {ask.qos[j] : j \in DOMAIN ask.qos} :
                    /\ q.ip \in Ips /\ q.lose = 0
                    /\ ServedRtt(q.ip) \notin {0, AVA_INF}}
    IN IF Found = {} THEN qout = "none"
       ELSE \E p \in Found : /\ p.ip = qout
                             /\ \A q \in Found : p.rtt + ServedRtt(p.ip)
                                  <= q.rtt + ServedRtt(q.ip) + MAX_AVA_DIFF

(* A request raises, or answers null, only if redis_init.py flushed the      *)
(* store, or Redis failed, while it ran: the script deletes the switch with  *)
(* the rest, leaves it off, and fills in the games last.                     *)
RaisesOnlyIfUpset == qout \in {"raised", "null"} => upset
=============================================================================
