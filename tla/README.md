# A verification project for weft-warp-loop's fanout server

The repository holds a QUIC fanout server (`flow-toolchain/examples`), the Lean
kernels that make its decisions (`flow-toolchain/fanout-core`,
`flow-toolchain/sketch-core`), a load client, RISC-V guests with game content,
and a large amount of vendored code.  This project models the server's own
logic in TLA+: TLC checks small instances, TLAPS proves the theorems listed
below for every value of the constants.  Paths are relative to
`flow-toolchain/`.

## Inventory

| Component | State | Operations | What makes it correct |
|---|---|---|---|
| Slot map (`fanout-core/Fanoutcore/SlotMap.lean`) | slots with generation and optional value, free stack | alloc, free, find, update, liveEntries | exact free stack; a stale id never aliases a new occupant |
| Room registry (`FanoutCore.lean`, `Ffi.lean`) | slot map of rooms, each a set of connections | alloc/free room, sub, unsub, pub targets | behaves as a directory with unique ids, for any ids a caller passes |
| Octree (`Partition.lean`) | none (pure) | cell depth, children, parent, split cost | children tile the parent |
| Zone world (`Zone.lean`, `ZoneDispatch.lean`, zone half of `Ffi.lean`) | slot map of zones, each a curve range and entity records | entity move, entity remove, zone alloc/free, with split and merge inside | one authority per index, one record per entity, nobody lost, ceilings respected |
| Interest (`targetsForIndex`, `adjacentZones`, `withinGhostRange`) | none (query) | zone targets | nobody twice, zone-mates always, interest mutual, computed from the publisher's own position |
| Hysteresis move (`moveEntityToIndexHysteresisV`) | pending zone and streak per record | move | a boundary oscillation does not migrate; a steady crossing does |
| Hilbert curve (`hilbert3D`) | none (pure) | position to index | a bijection whose aligned ranges are octree cells |
| Bridge (`examples/picoquic_fanout_server.actor.cpp`, stream callback) | parser state per stream, delivery table, topic table | stream data, fin, reset, close | deliveries to the stream that asked; nothing outlives its connection |
| Server loop (same file, `fanoutServer`) | one pending receive, wake timer, send drain | receive, timer, send | the loop never dies and no receive is dropped |
| Sketch history (`sketch-core/SketchCore/History.lean`, `Ffi.lean`) | accepted packets and dedup keys per room | apply, history | late joiners converge |
| Sketch codec and geometry (`Codec`, `Fit`, `Graph`, `Vec3`) | none (pure, floats) | decode, fit, build graph | (not modelled) |
| Load client (`fanout_load_client.actor.cpp`) | player states, one pending receive, deadline | connect, queue ticks, receive, send, give up | a Done player was accepted; ticks leave; the client returns |
| Load coordinator (`fanout_load_client_main.actor.cpp`) | shard and worker processes, ramp | start, poll, kill, judge a round | no worker outlives its round, successes are real, the ramp ends |
| s7 host, guest content, planners, shrubbery reader, IR experiments, MMO client | various | various | (not modelled) |

How they interact.  picoquic calls the bridge's stream callback from Flow's
single reactor thread.  The callback parses header lines (SUB, PUB, SKB, ZPB)
and payloads and calls the kernels through C exports, one at a time; it writes
to the streams of the connections the kernels name, through the delivery table.
Rooms and zones are separate halves of one Lean state.  Sketch history is keyed
by the room ids that fanout-core hands out.

What is hard.  Nothing runs in parallel, but the events of many streams of many
connections interleave, connection ids are pointers that are used again,
streams end by fin, reset or close in any order, and slot maps, zones and rooms
have hard limits at which one step of several can fail.  Server and load client
are separate processes over a wire that loses, repeats and reorders; each loop
races a receive against a timer, and any call on a socket may fail.  The
coordinator polls processes that exit when they like.  `PROJECT.json` lists each
hazard at its line.

## Modules

`SlotMap` holds pure operators on a slot-map value: a function from indices to
generation and value, and the free stack as a sequence (its last element is the
top, as in the code).  An id is the pair that the code packs in 64 bits.
`GenMod` is the generation counter's modulus, 2^32 in the code.

`RoomRegistry` (extends `SlotMap`) has one action per room export.  The id
argument ranges over everything a caller can name, live, stale or out of range.
A room's subscriber array is a set: `Room.sub` never adds a duplicate, and order
plays no part.  `call` and `ret` are the last call and its reply, so that the
refinement compares answers to the same question.  `allocs` and `retired` are
history variables: how often a slot was allocated, and the ids that were freed.

`RoomDirectory` is the abstract specification: a function from live ids to
subscribers, with ids that are never reused and an allocation that fails only at
capacity.  `RoomRegistry!ImplementsDirectory` is the refinement: a live room is
a resolving id, the used ids are the live and the retired ones.  Every step that
leaves no generation wrapped is a step of the directory or none; after a wrap
ids do repeat, and nothing is claimed.

`Octree` defines curve ranges as octree cells, and the cost comparison.
`zoneRangeDepth`'s bit-length loop is the closed form `CellAt`.

`ZoneWorld` (extends `Octree`) has one action per zone export.  `EntityMove` is
the whole of `fanout_entity_move(_v)`, its trailing split included;
`EntityRemove` is the whole of `fanout_entity_remove`, its trailing merge
included.  The zones are a function from live ranges to records.  That drops the
slot ids, which is sound because live ranges are disjoint (proved) and because
the slot map allocates exactly while a slot is free (proved of `SlotMap`).  A
record keeps the connection and the curve index; position, velocity and RTT are
always written with the index and never decide a transition here.  Positions are
curve indices.  `reported` is a history variable.

`FanoutBridge` models the callback.  Bytes arrive as whole header lines,
payloads and frames: a callback with several is several steps, a callback that
completes none is `Fragment`.  A stream's parser state keeps all four flags of
`StreamState`, because they survive from one header to the next.  A room is
named by its topic (the server never frees a room), and a full registry gives
none.  Of the zone world only membership is kept: a zone publish may place the
entity, be refused, or take it or others out of the world, and reaches any of
the other placed entities.  Sketch
frames carry a dedup key, and history, replay and relay are kept in full.
`Connect` opens a connection on any pointer that is free, a used one included.
`got` and `own` are history variables.  The text after ZPB is kept as the
stream's topic like any other, since a stream that is still `isPub` publishes to
it.  The client's behaviour is a parameter: `Verbs`, `OneVerb` (one kind of header per stream, the "one line per
stream" of the wire comment) and `OneReceiver` (one receiving stream per
connection).

`ZoneInterest` (extends `ZoneWorld`) is the query behind a zone publish: the
zones next to the authority in curve order, the ghost-range test, the cap.  Its
promises are invariants of the zone world, so every world that moves, splits and
merges can reach is queried.  The three axes are tested alike and one stands for
them; a record's position, speed and RTT are written with its index and are
functions of it (`PosAt`, `SpeedAt`, `RttAt`).  Products and sums are words of
`Width` bits, 64 in the code.  Which entities the cap keeps depends on the order
of arrays, so the query is the set of its possible results.

`ZoneHysteresis` (extends `ZoneWorld`) is `moveEntityToIndexHysteresisV`: one
sub-action per branch, the pending zone and the streak of a record kept per
connection.  No export calls it and it does not split or merge, so the zones are
fixed.  `steady` and `sample` are history variables: the run of reports in one
zone and the last RTT.  A streak is capped at `StreakBound`, which is at least
the largest threshold and beyond which it makes no difference.

`DatagramSocket` holds what the two processes share: the wire, a set that only
grows, from which any datagram may be delivered any number of times, in any
order or never; Flow's UDP socket, in which a posted receive stays posted until
a datagram or an error completes it; picoquic's wake list; and the failures, of at
most `MaxFaults` kinds, each of which may come at any time and come back for ever.

`ServerLoop` (extends it) is the loop of `fanoutServer`, and `LoadClient`
(extends it) `runOnePlayer` and `runManyPlayers`, which share their steps and
differ in the order of them and in how they wait (`AfterTop`, `AfterWait`,
`AfterDrain`).  Each actor has one action per stretch between two awaits.
picoquic is external and kept to what decides the loops' control: which
connections are due, earliest first, and what each has to send.  The QUIC
handshake is one datagram each way; the ticks of a player are `TickPackets`
packets of one stream, sent in order.  picoquic may hold them back: the pacing
of `picoquic_prepare_packet_ready` and the congestion window end the send loop
with packets queued (`sendLength == 0`), as an error of
`picoquic_prepare_next_packet` does, and the connection has a later wake time
(`heldBack` in `ClientBreak`).  The server's answers are handshake packets, to
which neither applies; a refusal goes out before the answer to a later first
packet.  After a packet picoquic makes the connection due again at once, which is
how both send loops come to ask it a second time.  `LoadRun` composes server and client;
which kind of client runs is chosen in `Init`.

`LoadCoordinator` is the coordinator process of the load client, as built for
POSIX: one action per iteration of each of its loops, with the workers, the
shard servers and the clock taking steps in between.  Ports are left out, but
not the case that none is left (`ModuloByZero`).  A worker is here a process that
exits with some code or never; `LoadRun` is what happens inside it.

`MCZoneWorld`, `MCZoneInterest`, `MCZoneHysteresis` and `MCFanoutBridge` give
constants and symmetry for TLC.  `RoomRegistryProofs`, `ZoneWorldProofs`,
`ZoneInterestProofs`, `ZoneHysteresisProofs`, `FanoutBridgeProofs`,
`SketchRelayProofs`, `LoadRunProofs` and `LoadCoordinatorProofs` hold the
theorems.

Operators introduced as mutants stand just before the definition they change and
are used by no specification; each changes one definition the way a slip in the
code would, and breaks the property that `PROJECT.json` pairs it with.

## Runs

| Run | Checks | Bounds |
|---|---|---|
| `room_registry` | free stack exact; freed ids stay dead, and why; the registry implements the directory | 2 slots, generations mod 3, 4 allocations of a slot (so that a wrap happens), 2 connections, one index out of range |
| `zone_server` | unique and total authority, one record per entity, records filed right, every split finds its slots, nobody lost, bystanders untouched | two octree levels, 4 entities, 5 positions in three octants (three of them in one octant, so that splits nest), slots for both splits |
| `zone_interest` | both ceilings and nobody lost while the host frees and allocates zones; nobody a target twice, interest mutual, zone-mates always reached, when a publish is computed from the origin | one level, 6 entities against an authority capacity of 4, so that moves and merges are refused; interest capacity 1, so that the cap cuts; 3-bit words and distances that make one sum of reaches wrap and another reach exactly |
| `zone_hysteresis` | records fresh, staging names the owner, nobody lost to a full zone, no early migration, sustained crossings commit | 3 zones and positions in all of them and in none, 2 entities, authority capacity 1, so that a target is full; thresholds 3 and 1 |
| `zone_split_at_capacity` | violated: a split without enough slots loses its entities | as `zone_server`, one slot fewer |
| `zone_stale_index` | violated: an entity held by a zone that does not own its position | as `zone_server` |
| `bridge_clients` | subscriptions exact, deliveries on the right stream, sketch streams converge | 2 well-behaved connections, 2 streams each, 2 topics, 1 room, so that the registry fills; 2 frames, which are sent again with a key the room has seen |
| `bridge_any_client` | delivery table and entities never outlive their streams | 1 connection, 3 streams, any headers in any order |
| `load_run` | one receive outstanding; Done means accepted; a worker's ticks leave unless picoquic keeps them; what the server has to send is sent; a worker returns | 2 players (one for a worker), ticks of 2 packets, any one kind of failure, recurring |
| `server_send_error` | violated: a failed send ends the server | 1 player, 1 kind of failure |
| `multi_client` | violated: a client of many players may never return | 2 players, no failure, only lost datagrams |
| `load_coordinator` | no worker outlives its round, successes are real, the ramp ends | rounds of 1, 2 and 4 workers, 2 shards |

Why the bounds are enough.  A slot's life is alloc, free, alloc; wrap-around
needs one allocation more than the modulus.  A zone's life is split, nested
split, merge; a split needs four entities spread over two octants, the least
population at which the cost comparison favours it.  The two invariants of
`bridge_any_client` relate a connection to its own streams only, so one
connection is enough; three streams let one be superseded while two others live.
Two players are the least with which a send loop can stop at one connection
while another is due.  Two packets are the least of which some
can be sent and the rest held back.  One kind of failure is enough to take each
error path, any number of times, from every state that has seen no other kind;
with three kinds and one player the same properties hold.  In `load_coordinator` a round of up
to four workers fails with its first failure: that a ramp goes on after a round
of ten or more with a tolerated failure happens only in the proofs of the safety
properties, which hold for any round.

Fairness.  `LoadRun` assumes weak fairness of each actor's own steps, because
Flow's reactor runs whatever is ready, and of `Expire`, because time passes.
Nothing is assumed of the wire or of the retransmission timers, and no failure is
required to happen.  One is required to stop: strong fairness of `ServerDrain`
says that `picoquic_prepare_next_packet` does not fail for ever in the server.
Without it `RequestAnswered` is false: an error leaves its connection the
earliest, and one that came back each time would keep every other connection
from sending.  The failures of the receive, of the client and of its connections
may recur for ever.  `LoadCoordinator` assumes that the
coordinator runs and that its deadline comes; no worker need ever exit.
`ZoneHysteresis` assumes that each client goes on reporting: the code moves
nobody by itself, and "sustained" means nothing otherwise.  The other modules are
passive services whose steps are their callers' choices and have no liveness
property.

Deadlock is checked where the system goes on for ever.  It is not in the runs of
`LoadRun` and `LoadCoordinator`: the client and the coordinator end, the server
of `server_send_error` exits, and the client of `multi_client` is stuck, which
is what the run shows.

## What the violated runs say

- `maybeSplitZone` frees the zone before allocating its children.  When the slot
  map runs out in between, the zone's entities and the rest of its range are
  gone.  The server has 64 slots and a split adds seven zones, so the tenth
  split fails.
- `Zone.sub` keeps an existing record, so a move within a zone does not update
  the stored index, position, velocity or RTT, although the comment of
  `moveEntityToIndexV` says they are carried forward.  A later split files the
  entity by the old index.  (`zone_hysteresis` shows that the hysteresis move,
  which leaves the zone first, does keep its records fresh.)
- `fanoutServer` guards its receive against errors, with a comment that the loop
  must never die of one, but awaits `sendTo` directly: one failed send ends the
  loop, and `runServerOrReport` then the process.
- `runManyPlayers` takes a wake delay of 0 for "nothing to do" and waits on the
  receive alone.  But its send loop stops at the first connection with nothing
  to send, and another may still be due.  If the server's answers are lost, or
  there is no server, nothing wakes it: it neither retransmits nor looks at its
  deadline.

Divergences of comments from code that have no run:

- `alloc` reuses the index freed last; the comment of `SlotMap` says the lowest.
- `rebalanceAfterMove` never merges; its comment (`Ffi.lean:76`) says it does.
- One delivery stream per connection serves all of its topics; the wire comment
  (`picoquic_fanout_server.actor.cpp:16`) promises the stream of each SUB.
  `bridge_clients` has one receiving stream per connection, where they agree.
- The refusals commented "stop parsing this stream" (`:356`, `:372`, `:377`) only
  return from the current call.
- `withinGhostRange` compares with the sum of both reaches; its comment speaks of
  either entity's own.
- `runManyPlayers` may return with ticks queued and unsent, its test for the end
  being before its send loop; the comment of `sendAllTicks` says that every
  tick's ZPB goes out.
- So may `runOnePlayer`, in one case.  It sends what was queued before it looks
  at the state, but its send loop also ends while picoquic holds packets back,
  and Done means queued: with more ticks than the initial congestion window of
  ten packets takes (some 130 of them), the worker deletes the connection with
  ticks unsent and exits with 0.  `fanout_load_client_main.actor.cpp:36` says
  that it "exits 0 if it completed every ZPB tick before the deadline".  The five
  ticks of the default fit one packet.  `WorkerSentItsTicks` is what does hold:
  only this and an error of prepare leave ticks behind.

## Proofs

Every safety property of a passing run is also a theorem, for every value of the
constants.  `SplitsFit`, which some capacities violate, is proved for every
capacity that has a slot for each zone the reported positions can call for, and
is a hypothesis of four other theorems.  `PROJECT.json` pairs each theorem with
the property it states.

`RoomRegistryProofs`, for every capacity, modulus, bound and set of connections:
`RegistryTypeOK`, `RegistryFreeListExact`, `RegistryStaleIds`,
`RegistryRetiredIds` and the refinement `RegistryImplementsDirectory`.

- `FreeListExact` and `StaleIdNeverResolves` are not inductive alone.  `IInv`
  adds `RetiredIdsBehind`: until a slot wraps its generation counts its
  allocations, and a retired id is older than its slot's generation, or equal to
  it while the slot is free.  The lemmas `EmptyWellFormed`, `AllocWellFormed`,
  `FreeWellFormed` and `UpdateWellFormed` show that the operators keep a slot map
  well formed whatever it stores.
- The refinement has one lemma per export.  A new id is fresh because retired
  ids are behind, an allocation fails exactly at capacity because the free stack
  is exact (`FullIffNoneFree`), and storing a room touches one live id only.

`ZoneWorldProofs`, for every depth, capacity, authority capacity, finite set of
connections, reported positions and host ranges: `WorldTypeOK`, `AuthorityUnique`
(`RangesDisjoint`), `EntityUnique` (`OneRecordPerEntity`), `RecordsFiled`
(`RecordsInRange`), `CeilingsKept` (`CeilingsHold`), and as long as splits find
their slots `BystandersUndisturbed` (`BystandersStay`), `EntitiesKept`
(`NoEntityVanishes`) and `WorldStaysTiled` (`WorldTiled`, without host ranges).

- The invariant is `Sound`: typed, disjoint, one record per entity, records
  filed by index.  The parts need each other: a move finds the one authority
  because ranges are disjoint, a split keeps records unique because children are
  disjoint and records are in range, a merge keeps ranges disjoint because the
  eight siblings tile the parent (`ChildrenCover`).  `Fits` adds the two
  ceilings.  One lemma per operation on a world (`RemoveSound`, `MoveSound`,
  `SplitSound`, `MergeSound`, and the same with `Fits`) carries the proof.
- The last three theorems have the hypothesis `[]SplitsFit`: whatever move comes
  next, the split it may cause finds its slots.  The code does not ensure it, and
  `zone_split_at_capacity` shows what is lost without it.  `zone_server` checks
  that its instance satisfies it, and `SevenSlotsSuffice` that seven free slots
  are enough.
- When it is satisfied, where the host allocates no zones of its own: a cell
  branches if positions are reported in two of its children (`BranchingCells`).
  `ZonesBounded` says that there are never more than one zone and seven for each
  branching cell, whatever the number of entities; `SplitsFindSlots` that a slot
  map of that size makes `SplitsFit` an invariant; `RoomyWorldKeepsAll` that then
  `NoEntityVanishes`, `BystandersStay` and `WorldTiled` hold without hypothesis.
  The bound is met: `zone_server` has two branching cells and the 15 slots this
  asks for, `zone_split_at_capacity` has 14 and loses entities.  The 64 slots of
  the server are enough for nine branching cells, and no number of entities
  matters beside that.
- The inductive invariant for it is `CInv`: records are filed under reported
  positions, and the live zones are at most one and seven for each branching
  cell that lies in no live zone (`SplitCells`).  A split takes its own cell out,
  which branches because a cell whose entities share a child is never worth
  splitting (`LopsidedSplit`, `SplitNeedsBranching`); a merge puts back one cell
  and frees seven zones; both need that cells nest (`CellsNest`).  What is true
  of all powers of eight up to `Bits` is proved by a least counterexample
  (`LeastElement`, from the well-foundedness of `<`), since induction itself is
  not available.
- `MergeUndoesSplit` and `SplitUndoesMerge`: on every sound world a merge gives
  back exactly the world before a complete split, records included, and a split
  the world before a merge, however full the slot map is.  `NoFlapping`
  (`StepsSettle`): what a step itself split should not merge again, nor what it
  merged split again; zones that moves emptied are outside of it and stay split.
  This holds because both decisions compare
  the same costs of the same records and a split cut short for want of slots
  leaves too few siblings to merge.

`ZoneInterestProofs`, for every word width, interest capacity and assignment of
position, speed and RTT to an index: `NoDuplicateTargets` (`NobodyTwice`),
`ZoneMatesReached` (`ZoneMatesAlwaysReached`), `InterestIsMutual`
(`MutualInterest`) and, with `[]SplitsFit`, `OriginExplained`
(`OriginOnlyIfRefusedOrStale`), which `RoomyWorldExplained` has for every slot
map of the size above instead.

- They rest on `Sound` and on `Reported`, that a record's index was reported.
  Interest is mutual because adjacency in curve order is (`AdjacencyMutual`), and
  because the test adds both reaches, so that even a sum that wraps does so for
  both (`RangeSymmetric`).

`ZoneHysteresisProofs`, for all disjoint host zones, capacities and RTTs:
`RecordsStayFresh` (`RecordsAreFresh`), `StagedWhileCrossing` (`StagedForOwner`),
`CrossingIsSafe` (`CrossingKeepsEntity`), `MigrationIsSustained`
(`NoEarlyMigration`), `StreakNeverDrifts` and `MigrationIsPrompt`.

- Each of the five outcomes of a report is a `Filing` of one entity, in one zone
  or in none (`LeaveFiles` to `CommitFiles`).  The invariant `HInv` adds to the
  two properties that the world is sound, that a record's index is owned, and
  that a streak never exceeds the run of reports in one zone (`Counters`,
  `StreakCounted`): the streak is what the code compares, the run what the
  property speaks of.
- `StreaksExact` is the converse: while something is staged the streak is the
  run, also after a waver, a change of the staged zone or a full target.
  `MigrationIsPrompt` needs it: a report that
  completes the run passes authority there and then unless the target is full.
  It is the safety half of `SteadyCrossingCommits`; with `NoEarlyMigration` it
  fixes the moment of every migration.

`FanoutBridgeProofs`, for every number of connections, streams, topics and rooms.
Whatever clients send: `BridgeTypeOK`, `DeliveryIsLive`
(`DeliveryNamesLiveStream`), `EntityIsBacked` (`EntityHasZoneStream`).  For
`WellBehaved` clients: `SubscriptionsAreExact` (`SubscriptionsExact`) and
`DeliveriesAskedFor` (`DeliveredOnOwnStream`).

- `IInv` adds to the first three that a parsed header left a text in the topic,
  without which a publish could enter the sentinel in the topic table.
- `WellBehaved` says that a stream carries one kind of header, that a connection
  receives on one stream, and that no line has an unknown verb; a line without a
  space is allowed.  These are the clients of `bridge_clients`; without them the
  one delivery stream per connection makes the properties false.
- `Exact` strengthens `SubscriptionsExact` by what a full room table needs: a
  topic without a room has no subscriber in fanout-core, and no stream either
  unless the slot map is full, so that a room that is made later starts exact.

`SketchRelayProofs`, for the same clients and any frames, several with one key
included: `LateJoinersConverge` (`SketchConverges`).

- `RelayInv` says of every sketch stream that it follows the history of its room
  (`Follows`: the frames but its own, in order, each once), that a refused one
  has no room, and of every history that no frame is in it twice.  A frame
  reaches each subscriber on the stream that follows the room because
  subscriptions are `Exact`.

`LoadRunProofs`, for every number of players, of packets their ticks take and of
kinds of failure, each as often as it likes: `LoadRunTypeOK`,
`OneReceiveOutstanding` (`NoReceiveAbandoned`), `DoneOnlyIfAccepted`
(`DoneWasAccepted`), `WorkerSendsBeforeItReturns` (`WorkerSentItsTicks`),
`NoWakeupLost` and `WorkerRunsDown`.

- `SocketsSound` says of each socket that its posted receives match the future
  the loop holds: the timer steps post nothing, the receive steps find nothing
  posted.  `Accepted` says that a reply, on the wire, in a buffer or queued, is
  of a connection the server has.  `Ticks` says that a worker that is Done with
  something to send is in its send loop with its connection due, unless picoquic
  held packets back or failed to prepare one (`Withheld`); for this the wake
  lists must name nobody twice (`WakeList`).
- `NoWakeupLost` (`Scheduled`): in either process, whoever has something to send
  is in the wake list, whatever break, error, refusal or close came before; in the
  client it may also be a ready connection whose packets are held back until its
  next timer.  It is the safety half of `RequestAnswered`.
- `WorkerRunsDown` is the variant behind `WorkerReturns`: an iteration of
  `runOnePlayer` is at most `TickPackets` + 5 steps, each brings the next look at the deadline
  closer, and nothing from outside puts it off (`DeadlineIsLookedAt`).  It needs
  `AlwaysTimed`, that only `runManyPlayers` ever waits without a timer, and that
  only while a connection is due: which is the state in which `multi_client`
  leaves it.

`LoadCoordinatorProofs`, for every ramp, limit and number of shards:
`CoordinatorTypeOK`, `StragglersEnd` (`NoWorkerOutlivesItsRound`),
`SuccessesCounted` (`SuccessesAreExits`), all from `RoundInvariant`, and from it
`RampRunsDown` and `RampResultEarned`.

- The two properties speak of the end of a round only.  The invariant `IInv`
  adds `Progress`, which says what each loop has established up to its index:
  while polling with `allReaped`, the workers before the index are gone; while
  killing, those before it are waited for.  It is stated for what workers do in
  between: an exit after the last look at a worker changes neither.
- `RampRunsDown` is the variant behind `RampEnds`: the pair of the rounds left
  and the looks left in this one decreases with every step of the coordinator,
  except where another sweep begins, in a round that is not late and after a
  worker was seen running (`OnlySweepsRepeat`).  The deadline ends those.
- `RampResultEarned` (`ResultEarned`): `lastGood` only grows, and only to the
  size of a finished round of whose workers nine in ten did exit with 0.  The
  arithmetic of the tolerated tenth, which no small instance reaches, is covered
  for every size.

Assumptions: the constants' types; `PowersOfEight`, the recurrence of powers of
eight up to `Bits`, and `WordSizeAssumption`, that 2^`Width` is a positive
number, which the provers do not know of `^` and TLC evaluates; that marks such
as `Nothing`, `Nowhere`, `NoTopic` and `Absent` are none of the values they stand
beside; that the host allocates only cells that no live zone overlaps (the guard
of `ZoneAlloc`, and `HostRangesDisjoint` where the zones are fixed); and that a
ramp starts with at least one player and one shard, which the code does not
check.

Only model-checked, being out of the prover's reach: liveness under fairness
(`RequestAnswered`, `WorkerReturns`, `RampEnds`, `SteadyCrossingCommits`).  Each
has its safety half among the theorems: `NoWakeupLost`, `WorkerRunsDown`,
`RampRunsDown` and `MigrationIsPrompt`.  What is missing is the step from a
variant and fairness to the end.  The four violated runs are counterexamples and
have no theorem.

## Plan

1. `Hilbert`, for TLC only: bijection, continuity and alignment at small depth,
   and the saturation of `quantizeAxis`.
2. A bound on the zones where the host allocates ranges of its own: each adds its
   own branching cells, and the same argument should count them.

## Not modelled

The sketch codec and geometry (byte layouts and floating point), the regrouping
of packets into strokes, the Hilbert curve (planned), the s7 host and its guests
(sequential programs with golden tests of their own), the shrubbery reader and
the IR experiments (text in, text out), the MMO client, start-up code, the
Windows side of the coordinator, and everything vendored, which is all but a few
thousand lines of the repository (Flow, the actor compiler,
picoquic, libriscv, s7).
