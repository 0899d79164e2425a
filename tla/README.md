# gameacc: a verification project

TLA+ models of gameacc, the TLC configurations that check them, and theorems
about them that TLAPS checks. gameacc accelerates game traffic: clients tunnel
it through vpn nodes (xl2tpd, an L2TP daemon, with pppd), and ask cache nodes
(nginx with Lua, Redis, Python daemons) which games, addresses and vpn to use.

Three parts of the repository have a life of their own and are modelled: the
path of detection results (the agents that measure, the store on a cache node,
the choice made from it), xl2tpd, and pppd's negotiation of a link. The rest is
SQL behind HTTP, data conversion, configuration, and the parts of ppp that talk
to one peer or to the kernel.

## 1. Inventory

### Cache node (`src/ccserver`)

| Component | State | Operations | What is hard | What makes it correct |
|---|---|---|---|---|
| Detection agent, `detectagent.py` (one per vpn node) | the lists of games, regions and addresses; the results of a round | probe every address of a region, post the result to every cache node, round after round | posts that fail; lists that change during a round | the lists of a round agree with one another on every node; no node goes back to an older list; every enabled node keeps up |
| Detection store, `detecttoredis.py` | an in-memory queue of reports; the Redis keys: two sorted sets per (vpn, game, region), the flag that names the one to serve, averages | HTTP thread: queue a report. Main loop: take one, write it into the unused sorted set, then set the flag | many Redis commands per report, each of which may raise; crashes; requests served meanwhile | a slot serves one whole report; reports of a slot are published in order; nothing acknowledged is left in the queue |
| `redis_init.py` | the same keys | flush and rebuild | run on a live node it interleaves with everything else | damage is bounded |
| Game list request, `cc_getgamelistporttext.lua` | none | read the flag, then the sorted set it names | the two reads are not atomic | the answer is one whole report |
| Choice of a vpn, `cc_getvpnip.lua` | none | read an average per vpn, add the client's own rtt, pick among the best | reads during a publication; zero and missing values | the vpn picked is one of the best by what was read |
| Other endpoints (`*_entry.lua`, ...), billing | none | one SQL statement each | nothing between two requests | - |

### vpn node (`src/vpn/xl2tpd`)

xl2tpd is one thread. `network_thread` runs expired events
(`process_schedule`), signals, `build_fdset` (which closes what handlers marked),
then `select`, and handles packets, pppd output or a command of its fifo. A
handler runs to completion; what interleaves is the order of handlers, the two
daemons, the network and the children.

| Component | State | Operations | What is hard | What makes it correct |
|---|---|---|---|---|
| Control connection: `control.c` (`check_control`, `handle_packet`, `handle_special`, `control_finish` for CDN and StopCCN), `network.c` (`control_xmit`, `build_fdset`), `call.c` (`call_close`) | `control_seq_num`, `control_rec_seq_num`, `cLr`, the scheduled retransmissions, `needclose`, `closing`, `closeSs`, `cnu` | number, send, retransmit, acknowledge, give up, close a call or the tunnel | UDP loses, repeats and reorders; numbers of 16 bits wrap; both ends close at once; packets for calls that are gone | every message is taken once, in order, or the tunnel is closed; a closing tunnel ends; a dead peer is noticed |
| LNS: the set-up cases of `control_finish`, `destroy_call`, `destroy_tunnel`, `get_addr` / `reserve_addr` / `unreserve_addr` of `aaa.c`, `child_handler` | the list of tunnels, their calls, the addresses in use, one `localaddr` per section | SCCRQ .. OCCN, refusals, CDN, StopCCN, pppd's exit | calls end in many ways; requests repeat; `needclose` and `closing` are set by several sources | no address leaks or is used twice; no call without tunnel; no second session; what closes ends |
| LAC dialling: `magic_lac_dial`, `magic_lac_tunnel`, `lac_call`, `lac_disconnect`, the redial in `destroy_call` and `destroy_tunnel`, the fifo's commands | `lac->active`, `rtries`, `rsched`, `t`, `c`, the redial events | connect, disconnect, autodial, redial | events, commands and messages in any order; `lac->c` and `rsched` outlive what they point to | pointers stay valid; one dial at a time; redials until the limit and no further; silence after disconnect |
| Messages, authentication | per call and tunnel fields | read and write AVPs, challenge | - | conversions; their outcomes are inputs above |
| Configuration, terminals, fifo client, `contrib/pfc.c` | - | - | - | - |
| Payload path | per call counters | forward or drop | - | - |
| Scheduler | an ordered list of events | `schedule`, `deschedule`, `process_schedule` | events freed by their own handler | part of each model |

### pppd (`src/vpn/ppp-2.4.5`, `src/vpn/ppp-2.4.7`)

Two releases of ppp; `fsm.c` is the same in both, and line numbers are those of
2.4.7. xl2tpd starts a pppd per call and notices its exit. A pppd is one
thread: packets, timers and signals are handled one after the other, and what
interleaves is the two ends of a line.

| Component | State | Operations | What is hard | What makes it correct |
|---|---|---|---|---|
| Automaton of the control protocols, `fsm.c`, with the options of LCP, `lcp.c` | state, the identifier of the last request, retransmissions left, `seen_ack`, a timer, the options still asked for and those agreed to | open, close, line up and down, timeout, the six kinds of packet | requests and answers cross; either end may start again on an open link; packets are lost | one timer exactly while an answer is awaited; both ends open with the same options |
| Phases of the link, `auth.c`, and the main loop, `main.c` | the phase, `auth_pending`, network protocols open, `unsuccess`, `asked_to_quit` | establish, authenticate, network, terminate; retry (`persist`, `maxfail`); signals, hang-ups, echo requests that fail | callbacks that close the link from within the automaton; signals in any phase; passive and silent ends | no packets before authentication, unless the peer is exempt; SIGTERM ends the process; both ends run or neither does |
| CHAP, PAP, EAP, IPCP, CCP, plugins, the kernel interface | - | - | - | reduced to what they report |

How they interact: agents post to the store over HTTP; the two Lua requests
read what the store publishes through Redis; nothing else is shared. In
xl2tpd the LNS and the LAC use the control connection to exchange messages; a
call or tunnel that ends tells the lac or lns section it came from. A pppd's
exit is an input of both, and its own life is `PppLink`.
`PROJECT.json` lists under "hazards" where each difficulty bites and
which property looks for it.

## 2. Modules

| Module | Models | Abstract specification | Proofs |
|---|---|---|---|
| `DetectStore` | detection store, its script, game list requests | `ReportStore` | `DetectStoreProofs` |
| `DetectAgent` | one agent and the cache nodes it reports to | - | `DetectAgentProofs` |
| `VpnSelect` | a getvpnip request beside the store; EXTENDS `DetectStore` | - | `VpnSelectProofs` |
| `ControlChannel` | two ends of the control connection | `ReliableChannel` | `ControlChannelProofs` |
| `LnsCalls` | the LNS | `AddressPool` | `LnsCallsProofs` |
| `LacDial` | the LAC's dialling | - | `LacDialProofs` |
| `PppFsm` | the automaton of fsm.c with LCP's options, as operators on records | - | `PppFsmProofs` (lemmas) |
| `PppLink` | two pppds on a line; EXTENDS `PppFsm` | - | `PppLinkProofs` |

`MCx` gives module `x` the values TLC needs. Definitions commented "Mutant"
are wrong variants of the definition that follows them; each stands for a bug
that the property named beside it in `PROJECT.json` must find.

### DetectStore

One action is one Redis command: `DealExists`, `DealGetId`, `DealDelete`,
`DealAdd` (one entry at a time), `DealMembers`, `DealSetRtt`, `DealSetCnt`,
`DealSetRtt0`, `DealFlip` are `deal_report` in order, and `DealRaises` is the
exception any of them may end in. `DoPost` is the HTTP thread, `MainTop` and
`MainDrain` the main loop, `ServerFails`, `Crash` and `Restart` what stops it
and starts it again. `ReadStart` .. `ReadRange` is a
request, `InitFlush` .. `InitRegions` the script, which `LiveInit` allows to run
while the daemon does. A sorted set is a set of member and score; the lists a
report carries are two (`MCData`), different in members, in scores, and in
whether an address was reached. Ghosts `held`, `flips`, `torn`, `crossed`,
`last` only remember what the properties speak of.

`ReportStore` says what it is for: a queue of acknowledged reports and, per
slot, a snapshot that changes in one step to the report published; a crash may
lose reports, a failure may drop one, never part of one.

### DetectAgent

`Start`, `GetCCLst`, `GetGameLst`, `BeginRound`, `DetectRegion`, `Post`,
`Reported`, `Sleep`, `Wake` are the agent's `main` loop in order: ids and
lists from the database, then for every game a probe of each address, one post
per node, and eight hours of sleep. Every request may fail (`Fault`), or never
be answered (`Hangs`: none has a timeout). `GetCCLst` empties the list of nodes before
it parses the answer, so a failure leaves the old list or part of the new one. `cache` is `ip_detect_data`, by which an
address shared by two games is probed once a round. A node is not modelled a second
time: it takes the steps that `ReportStore` allows (`Publish`, `Drop`, `Crash`, `Restart`,
`Flush`), by definition, and it is `DetectStore` that is shown to implement that module.
How many rounds ago a list was measured (`age`) is history.

### VpnSelect

`AskStart` .. `AskEnd` are `process` of `cc_getvpnip.lua`, one Redis command per
step: `AskSwitch` (is Redis to be used at all), `AskSpec` and `AskGetSpec` (a
user with a vpn of its own), `AskGame` and `AskRegion`, `AskExists` and
`AskGetId` for every ip the client measured, `AskRtt` for every average. Without
Redis `AskMysql` answers. `AskSort` is the sort by rtt, `AskTake` one turn of the
loop that keeps the items within `MAX_AVA_DIFF` of the best so far (`best`), and
`AskChoose` the random pick: any of those kept. `AskRedisFails` is a
command that fails: lua-resty-redis then closes the connection, so everything
after it fails too, and the action goes straight to where that ends. The writer
of `DetectStore` and the whole script, with the keys only this request reads
(`FlushKeys`, `InitOptions`, `InitVpnInfo`, `InitGames`), run in between;
`Administrator` (external) turns Redis on. The store waits only while an answer
is out, when nothing of the request is left to be disturbed.

### ControlChannel

Two daemons (`Peers`), their calls on one tunnel, and `net`, the set of packets
ever sent: any of them may be received at any time, again, or never, so loss,
duplication and reordering are all there. `Send` is any message of the
established state with a number (Hello, WEN, SLI: the handlers do nothing else
that matters here), `CloseCall` and `CloseTunnel` are `call_close`, run
by `BuildFdset`. `Timer` is `control_xmit` run as an event (`Toss` what was
acknowledged, send `Again`, `GiveUp`). `Receive` is
`handle_packet`, or `handle_special` for a call that is gone. Sequence numbers are
integers modulo `Wrap`. `IsOld` keeps what the C does: the difference of two
`_u16` is an `int`.

`ReliableChannel`: each end takes the other's messages in order, once; an
open end that has sent is owed delivery; either may close.

### LnsCalls

Tunnels and calls are records with the fields the code tests. `FinishSCCRQ`,
`FinishSCCCN`, `FinishICRQ`, `FinishICCN`, `FinishCDN`, `FinishCDNSelf`,
`FinishStopCCN` are the cases of `control_finish` for the messages an LNS
takes, `BadMessage` and `BadCallMessage` all the refusals that mark a tunnel or
call for closing, `ZlbCall` and `ZlbTunnel` the acknowledgements `handle_packet`
waits for, `ChildHandler` a SIGCHLD, `ReadFails` a read error from pppd,
`BuildFdset` and `CloseTunnel` what closes them. `needclose` alone asks
for a CDN or StopCCN; both flags wait for the answer; `closing` alone asks for
destruction. A packet for a tunnel is handled only when the last one's
consequences are settled (`Settled`), as the main loop runs `build_fdset` first;
signals and pppd's output need not wait.

`AddressPool`: free addresses and leases, an address is leased from the free
ones and returned by its holder, several at once when a tunnel ends.

### LacDial

`Fire` runs the oldest redial event (`magic_lac_dial`), `Connect`,
`Disconnect` and `DisconnectTid` are the fifo's commands, `RecvSccrp`,
`RecvIcrp`, `Answered`, `RecvCdn`, `RecvStopCCN` the LNS's messages,
`PppdExit` the child, `GiveUp` retransmission running out, `CloseTunnel`
the end of a tunnel that is on its way out. `DestroyCall` and `DestroyTunnel`
hold the redial rules. Pending redial events have one delay, so a number is
enough; `rsched` is the place of the event it points to, or -1 when that event
has fired and its memory is freed.

### PppFsm and PppLink

In `PppFsm` an automaton is a record, and `LowerUp`, `LowerDown`, `Open`,
`Close`, `Expire` and `Input` (`RConfReq` .. `RTermAck`) are the functions of
`fsm.c` as operators from record to record; packets sent and callbacks made are
left in it. Of LCP's options the protocol by which the peer authenticates itself
is kept, as a set of preferences that Naks and Rejects make smaller.
The option `exempt` stands for what lets a peer through that refuses to authenticate
itself (auth.c:798-800): `allow-ip`, or a PAP secret for an empty name (`null_login`).
`timers` counts pending `fsm_timeout` calls, since each handler starts and
cancels its own.

`PppLink` is two such ends with their phases. `Settle` does what the callbacks
`lcp_up`, `lcp_down` and `lcp_finished` do at once, inside the handler. `Start`
and `Loop` are the outer loop of `main`, `Signal`, `Eof`, `Deliver`, `TimedOut`
its inner one; `HangUp`, `Redial`, `Lose` are the line's. The line keeps order and may lose.
`StartCutOff` is the hang-up between `connect` and `lcp_lowerup`, which then returns early
(lcp.c:441) and leaves LCP in STARTING until the end of file is read. `MaxFail` 0 is no
limit, as `maxfail 0` is (`MayTryAgain`). The
three seconds of a timer are longer than a packet takes: `Timer` waits for an empty
line, `EarlyTimer`, which does not, is one of the bounded faults. Authentication
and IPCP end well only with the other end's part (`AuthSucceeds`, `NetUp`).

## 3. Runs

| Run | Configuration | Shows |
|---|---|---|
| `detect_store` | 1 vpn, games of one and of two regions, 1 reader, 3 posts, 2 faults | A slot serves a whole report or nothing; a request answers from one whole report unless its slot was republished meanwhile; averages match what is served except between two writes; `ReportStore` is implemented |
| `detect_live` | `LiveInit`, two games, 2 posts, 2 faults, fair | the script on a live node may tear one slot, until its next report; every acknowledged report is settled; without faults the last post is served in the end |
| `detection` | 2 nodes, 2 games that share an address, 1 fault, fair | lists of one round agree on all nodes; no node goes back to an older list; enabled nodes keep up unless the agent hangs or is dead |
| `detect_multi_region` | game of two regions | *finding*: its report is written, then dropped before the flag |
| `vpn_select` | 2 vpns, 3 ips, 4 requests, 2 posts, 2 faults | the vpn named is one of the best by what was read, and by what is served when nothing changed meanwhile; a request raises only when the store was flushed or lost under it |
| `channel` | no calls, 2 messages from one end and 1 from the other, 2 tries, fair | types, nothing lost, retransmissions recognised, `ReliableChannel` implemented; delivery or closing, closing ends, a dead peer is noticed |
| `channel_calls` | 1 call, one end at the wrap, 1 try | nothing taken twice or out of order even across the wrap; no half-open call |
| `channel_special` | 1 call | *finding*: a late ZLB for a closed call consumes a number and a message is lost |
| `lns_calls` | 2 tunnels of one peer, 3 calls, 2 addresses, 1 local address, fair | the pool is exact and addresses unique, calls have tunnels, no second session, `AddressPool` implemented; a tunnel that is closing ends, with its calls |
| `lns_local` | 1 tunnel, 3 calls, 2 local addresses | *finding*: two running calls get one local address |
| `lac_dial` | limit of 3 redials, 4 calls, 3 connects, fair | pointers, dials, limit, silence after disconnect, and the lac goes on dialling |
| `ppp_link` | 5 pairs of configurations, 2 tries, 2 attempts, 4 identifiers, 1 signal or hang-up, 2 faults, fair | one timer while waiting; open ends agree; nothing passes unauthenticated, unless exempt; no end lingers; SIGTERM ends; both run or neither does |

### Bounds, and why they are enough

- DetectStore: in `detect_store` `MaxPosts` 3 lets a report queue behind one being written
  while a third overwrites the slot a second time, so both sorted sets are reused; two faults are a
  failure and its repair, or a crash during recovery. One vpn: slots of
  different vpns share only the queue, and two games give two slots already.
- VpnSelect: two vpns, the first with two ips; averages 14 and 22, and 0 for
  what was never measured. The client's own times put the three ips into the band,
  on its edge, outside it, and into a chain where each is in the band of the
  one before but not of the best; one has loss, one is unknown, one request names no
  game, one a region its game does not have, for a user with a vpn of its own. An
  average of 99999 takes the branch of 0. Two faults are a crash of the
  daemon and the flush that needs it down, or a failure of the writer and one
  of Redis under the request; a flush and a Redis failure in one request are not
  reached. A best time of 0 is left out by
  `AnswersBest`: `minrtt` takes 0 for unset, and nothing in the repository says
  what is meant.
- ControlChannel: `Wrap` is 2^16 in the code; 16 leaves the few numbers
  in flight on one side of the wrap with room for the half-range test, 8 with
  `AtWrap` puts one end just before it. `MaxRetries` is 5 in the code, 1 or 2
  here: the first try, a retransmission, and giving up are there.
  `MaxSends` bounds the messages besides CDN and StopCCN, per end; a message in order, one
  overtaken, and closings on top are in the runs.
- DetectAgent: one fault at a time is enough for a lost post, a missed round, a
  crash of a node or of the agent, a flush, and a change of the node list; two nodes
  can differ, two games that share their address meet in `cache`. `Backlog`
  1: a node may be a whole report behind when the next round starts.
- LnsCalls: three calls want two addresses and one local address, so both pools
  run out, addresses are reused, and a request, for a tunnel or a call, repeats while
  its first session is there, closing, or gone; the second tunnel is there to be that
  repetition. A free record or address is the first of the free ones (`First`), as in the
  code. Identities are freed and used again, so runs are infinite without a counter.
- LacDial: `rtries` and the ghost `redials` saturate above the limit;
  `MaxConnects` bounds commands that dial, since each may add a call or event
  to those there; three reach three events and three calls (four are provided).
- PppLink: the pairs are a server that would take CHAP or PAP and a client that knows
  PAP (a Nak), a passive server that insists on CHAP (a refusal), two
  persistent ends of which one is silent and the other sends echo requests, and a server
  that exempts whoever refuses, with a client that does not refuse and with one that does. `MaxFail`
  is 2 in the run (one more try); without a limit and with persistent ends nothing would end. `MaxConf`,
  `MaxTerm` 2: a retransmission and giving up. `Wrap` 4 of 256 identifiers, so that
  they come round. Two faults lose both Terminate-Requests, or a request and the answer to its
  repetition; one call is a signal, a hang-up or IPCP closed.

### Fairness

- DetectStore: the main loop, a restart of the daemon and the script run on: WF
  each. Nothing is assumed of posts, faults or requests.
- ControlChannel: timers are scheduled with a time and the main loop runs them;
  `build_fdset` is run before every `select`; a Hello is always scheduled on a
  live tunnel: WF of `Timer`, `BuildFdset`, `Send`. Nothing of the network.
- LnsCalls: WF of `BuildFdset`. SF of the end of a tunnel that waits for its
  answer (`ZlbTunnel` or `CloseTunnel` by giving up): retransmission of the StopCCN
  ends, answered or not (`ClosingEnds` of ControlChannel), at a moment when
  `build_fdset` has settled everything; packets of the same peer may put the
  tunnel in and out of that state, hence strong.
- DetectAgent: the agent and each node's loop run on (WF), and a node that died is
  started again. Nothing restarts the agent, and a request may hang for ever.
- PppLink: each process runs (WF of `Work`). SF of `Timer`: it is due after three seconds
  of the clock, and with weak fairness the packets of one end's repeated negotiation could keep
  the line busy, and so put off the other end's timer, for ever. That both ends run or neither
  does (`Settles`) takes echo requests at the end that stays: when both Terminate-Requests of the
  other are lost and it starts again silently, nothing else would ever tell.
- LacDial: WF of the scheduler, of bounded retransmission, and an LNS
  that took an ICRQ answers it or fails.

Deadlock is checked except in the ControlChannel runs, where nothing is left to
happen when both ends have destroyed the tunnel, and in `ppp_link`, where nothing is
when both processes have ended.

### Assumptions of the models

- `StoreAssumption`: a report has one score per member (the agent's results
  come from a dictionary keyed by address); region 0 is not a region's id.
- `SelectAssumption`: types; the words for the other answers are not ips; averages are
  milliseconds, and every game has a region: of one without, `redis_init.py` would
  fill in no average, and a request for it would raise.
- `ChannelAssumption`: two ends, `Wrap` and `MaxRetries` positive.
- `LnsAssumption`: `ip range` and `local ip range` do not overlap; with an
  overlap a local address given back could be some peer's, which xl2tpd leaves to the
  configuration. `assign ip` is on, which is the default.
- `LacAssumption`, `AgentAssumption`, `FsmAssumption`: types only, and at least one try
  and one identifier.
- `LinkAssumption`: there are two ends, with any options for each; `MaxFail` is any natural number.
- LnsCalls, besides `LnsAssumption`: a peer sets the M bit on the message type and the
  session ids, as L2TP has it. From one that does not, a bad value is logged and the message
  handled all the same (avp.c:1740-1758), while `BadMessage` and `BadCallMessage` always close.

## 4. Proofs

For every value of the constants that satisfies the named assumption:

- `DetectStoreProofs`: `IInv` is inductive. Besides types it says that the
  sorted set being written is not the one the flag names (`TargetIsUnused`), that
  it holds what was written so far (`TargetHoldsReport`), and what an
  overrunning script may have disturbed (`OnlyInitOverruns`); what a request knows
  between two reads (`RequestKnows`) is needed for `ReadsAreConsistent`. The refinement of
  `ReportStore` and `ServedAlwaysComplete` need that the script runs offline
  (`~LiveInit`).
- `ControlChannelProofs`: types, and order (`TakenInOrder`) from an invariant that
  relates the index of every packet ever sent to those taken: a number
  stands for one index as long as no end has used every number (`FewSent`, which
  goes on across the wrap). `ChannelRefinement` holds as far. `NothingIsLost` and
  `TakenAreRecognised` end at the wrap (`NoWrap`): `control_xmit` and the half-range test
  compare numbers plainly, and `MCControlChannel_toss.cfg` and `_old.cfg` show what
  becomes of that. `NothingIsLost` and `ChannelRefinement` also take `Calls = {}`:
  with calls they are false (`channel_special`). `CallsEndAtBothEnds` is for at most one
  call; `HalfInv` says that whoever sends the CDN of a call, or answers for it, has given the call
  up, that an end past the number of a CDN has too, and that an end that a counted ZLB
  put a number ahead cannot miss a CDN, the call being gone at both ends. With two
  calls the last is what fails (section 5). `WithinHalf` keeps the half-range test from
  taking an old CDN for a future one.
- `LnsCallsProofs`: most steps end some set of calls and give their
  addresses back, which one lemma covers for any set; the rest take an
  address for a new call. `IInv` is types, `AddressesExact` and `SessionsSound` with the
  fact that a free call's record holds nothing, without which the next call in it
  would start with an address.
- `LacDialProofs`: pointers (`PointersLive`), one dial at a time, no
  lost redial, the limit, and silence when disconnected, for any limit, any calls
  and any number of commands. `SingleInv` is the inductive form of one dial:
  a call, a pending redial or a handshake, never two of them, until a command dials into
  a dial under way.
- `PppFsmProofs`, `PppLinkProofs`: for any options, numbers of tries and identifiers.
  The lemmas say of each function of the automaton that it keeps one timer exactly
  in the states that wait, and which packets it sends and callbacks it makes in which
  state. `LinkInv` adds what the phase says about the automaton (`Sound`, for each
  end, and with the line: LCP is left in STARTING only when that has hung up), what is on the line, and that a callback is never left undone; from it follow
  `TimerDiscipline`, `NetworkGuarded` and `NeverStuck`. `OptionsAgree` (`SameOptions`) needs
  what each end remembers of packets that are gone: of every function of the automaton it is shown that
  it is `Honest` (it goes on with its request under the same identifier or takes the
  next one, is confirmed only by an Ack of that request, and agrees to what it
  acknowledges, nothing else), and that what a callback does after it only ends
  things (`Trails`). `PairInv` then says that once the last request of an end is acknowledged,
  or an Ack of it on the way, its peer has agreed to what it asks and no other request
  is on the line. The identifiers are 256 and come round, so the theorem has a premise:
  more than one identifier, and none is taken again while a request or an Ack on the line
  still carries it (`FreshIds`). The proof needs it; the run `ppp_link` does without
  and finds no violation.
- `DetectAgentProofs`: `RoundsConsistent` is not inductive alone: `RoundInv` adds that
  the cache and the results of the game being probed hold one rtt per address, and that a
  list measured in this round comes from them. `ServedNeverOlder` follows from
  `QueueOrder`: a node's queue is in the order of the rounds, and behind what it serves.
- `DetectStoreProofs` again, `AverageIsServed`: with the script offline, `AverageInv` says
  which of a slot's values were written while it is being filled (the flag last), so that
  outside the list `torn` the average is that of what is served. It treats the average of a
  report as an uninterpreted function of the report.
- `VpnSelectProofs`: `RaisesOnlyIfUpset` for any requests and with the script live or not.
  `KeysInv` is the order in which the script fills its keys (the switch is on only after
  all are there, `Averages` included), and `RequestInv` that a request that got as far as
  asking is under that switch, unless the store was flushed since. `NamesOneOfTheBest`
  (`AnswersBest`) is the invariant of the loop (`BestInv`): what has been kept is within the band
  of the least rtt of the items taken, and the list still to be taken is in order.
  `ChoiceIsOfWhatIsServed` (`ChoiceMatchesServed`) is for a script that runs offline (`~LiveInit`):
  what a request has read of an average nobody wrote since is still the one served
  (`UnmovedInv`), and a writer disturbs the keys of the one slot it fills (lemma `WritesAside`).

Only model-checked: the liveness properties (`ClosingEnds`, `DeadPeerNoticed`,
`DeliveredOrClosed`, `KeepsUp`, `ReportsSettled`, `ServesLastPosted`, `KeepsDialling`,
`TunnelEnds`, `Settles`, `Terminates`), which are out of the prover's reach. Every invariant
and every action property of the runs is stated by a theorem, some under a premise that
its run does not need (`~LiveInit`, `NoWrap`, `WithinHalf`, `Calls = {}`, one call, `FreshIds`);
each is named above with its reason.

## 5. Findings

In `PROJECT.json`, each with its run: `deal_report` and the undefined
`gameid` (`detect_multi_region`), the ZLB that `handle_special` counts
(`channel_special`), and the local address kept per section (`lns_local`).

Found on the way and kept as configurations to run by hand
(`tlc -config <cfg> <module>`), each refuting the one property it names:

| Configuration | Property | What happens |
|---|---|---|
| `MCControlChannel_toss.cfg` | `NothingLost` | at the wrap, `pkt->ns < cLr` (network.c:219) tosses a buffer nobody took |
| `MCControlChannel_old.cfg` | `OldRecognised` | at the wrap, the half-range test on an `int` takes an old message for a future one |
| `MCControlChannel_stop.cfg` | `StopAcked` | a closing tunnel takes an earlier message's ZLB for its StopCCN's (control.c:1795) |
| `MCControlChannel_half.cfg` | `NoHalfOpenCall` | with two calls, `handle_special` counts a late ZLB for a destroyed call, so the CDN of the other call bears a number that is already consumed: it is acknowledged and not acted upon, and that call stays open at one end |
| `MCControlChannel_call.cfg` | `ClosingCallEnds` | a call waits for a ZLB with one exact number; if it is lost or overtaken the call stays |
| `MCLacDial_limit.cfg` | `GivesUpAfterMaxRedials` | tries are counted by the dialler, not by redials, so the limit is used up early |
| `MCLacDial_lookup.cfg` | `RedialsWhenDisconnected` | after a failed lookup nothing schedules the next redial |
| `MCLnsCalls_race.cfg` | `WaitsOnlyForItsOwnCdn` | pppd's exit between the peer's CDN and `build_fdset` makes a call wait for the answer to a CDN that was not sent, until its tunnel ends |

## 6. Not modelled

Payload packets; AVP parsing and challenges (outcomes only); outgoing calls
(OCRQ) and several sections in the LNS; adding and removing lac sections at
run time; hellos as timers of their own; files, terminals, logging; SQL and what nginx does
besides running the handlers. Of pppd: CHAP, PAP and EAP, IPCP, CCP and the
other network protocols (what they report is an input of `PppLink`), LCP's other
options, demand dialling, multilink, plugins and the kernel interface. With EAP goes the refusal of
a peer that has no certificate (`need_peer_eap`, auth.c:808).

Two kinds of fault are outside the models because they are about the machine, not the
protocol. Memory: `call_close` compares the data of a tunnel's events as buffer or tunnel,
whatever it is (call.c:235), and a lac that is removed is freed while its redial is still scheduled
(xl2tpd.c:1527). Process ids: `child_handler` leaves `c->pppd`, so `destroy_call` may
signal a process that is no longer the call's (xl2tpd.c:273), and a call without a pppd
sends its signal to process 0 (xl2tpd.c:846).

## 7. Plan

Done, in this order because the first two carry everything else: `DetectStore`,
`ControlChannel`, `LacDial`, `LnsCalls`, `VpnSelect`, `DetectAgent`, `PppFsm` and
`PppLink`, each with its proofs. What could follow:

1. `TunnelSetup`: the handshake of both ends over `ReliableChannel`, composing
   the LAC and the LNS: both agree on ids, no end is established alone for
   ever; simultaneous close.
2. `SchedulerQueue`: `schedule` and `deschedule` as an ordered queue against a
   set of timed events.
3. Authentication in `PppLink`: CHAP as challenges, answers and retransmissions
   between the two ends, instead of its outcome.
4. Proofs: `NothingIsLost` across the wrap for a corrected `control_xmit`, to show that
   the plain comparison is all that is wrong; `OptionsAgree` without `FreshIds`.
