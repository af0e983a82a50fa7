# Eidolon in TLA+

A verification project for the Eidolon MMO server engine (`src/`): TLA+ modules
translated from the Rust sources, TLC configurations that check them on small
instances, and theorems that TLAPS proves for every value of the constants.
`PROJECT.json` maps every definition that models code to the lines it stands
for, and lists runs, mutants, findings, hazards and theorems.

Contents: [the system](#the-system), [modules](#modules-and-the-code),
[runs](#runs), [fairness](#fairness), [proofs](#proofs),
[known disagreements](#known-disagreements-between-the-code-and-its-documentation),
[abstractions](#abstractions-and-assumptions),
[not modelled](#what-is-not-modelled), [plan](#plan).

## The system

Eidolon is a Cargo workspace of seven crates. One server process runs a 20 Hz
simulation (`facade.rs`) fed by a UDP worker thread (`io.rs`), persists
transactions through a journal, and hands entities to neighbouring zones or
processes. Clients connect over UDP with a challenge-response handshake.

| Part | State it keeps | Operations | Talks to | Hard behaviours | Correct when |
|---|---|---|---|---|---|
| Journal (`wal.rs`, `durable_journal.rs`) | ring of pending records, `current_lsn`, `durable_lsn`, the file | append, flush_pending, open, recover | transactions above, a file below | the ring is peeked, written and evicted in separate critical sections; writes and syncs fail half-way; the machine stops anywhere | no LSN is skipped or repeated between ring and file; what was confirmed survives a crash |
| Asynchronous journal (`sqpoll_journal.rs`) | two buffers, a switch, the fence | push, flush_sync, a background drain | a file | pushes race the switch; two drainers; writes fail inside a batch | no record lost or written twice; the fence follows the file |
| Snapshots (`flight_recorder.rs`, `replay.rs`, `hibernation.rs`) | rings of input frames and keyframes; images of accounts | record, scrub, step, compare; serialize, deserialize, hydrate | storage, operators | rings wrap under a running replay; images are damaged | what is read back is what was recorded, or an error |
| Replicated journal (`replicated_journal.rs`) | a primary and several replica files | append_and_replicate in three modes, promote, recover_quorum | files on other hosts | replicas fail one by one, hosts are lost, refused records are retried | a confirmed record is on a quorum; recovery returns what a quorum holds |
| Locks (`lock.rs`) | slots with holder, generation and lease | acquire, validate, release | transactions | leases expire, takeovers race renewals, holders keep old tokens | one writer per resource; superseded tokens are shut out |
| Fencing and identity (`authority.rs`, `identity.rs`) | epoch and sequence; sessions, characters, authorizations | validate_and_advance, login, select, revoke | every command path | commands of old servers and old logins arrive late | accepted commands are ordered; only the latest login acts |
| Transactions (`transaction.rs`, `equipment.rs`) | accounts, executed ids | execute_transaction, with durability | locks, journal | the append may fail after the change; clients retry; answers wait for a sync | nothing is minted; an id executes once; the journal explains the accounts |
| Transport (`channel.rs`, `auth.rs`, `queue.rs`, `backpressure.rs`, `io.rs`) | windows, bitfields, ring buffers | send, acknowledge, retransmit, shed, drain | sockets, the simulation thread | loss, duplication, reordering, wrap-around of u16 sequences, full queues | delivery in order and once; nothing accepted twice; reliable packets shed last |
| Client session (`client.rs`, `facade.rs`) | handshake state, session id, world view | connect, poll, disconnect, broadcast | each other over UDP | packets told apart by length and state; retries; late updates | both ends agree on the session; the view does not go back |
| Scheduler (`work_stealing.rs`) | the deque's slots, top, bottom | push, pop, steal, submit, shutdown | worker threads | lock-free races for the last job; slots that are reused | linearizable; every job handled once |
| Storage (`soa_storage.rs`, `sector_parallel.rs`) | dense arrays and a table of positions; sector buckets | spawn, despawn, step, convert, migrate between sectors | the simulation, worker threads | removal moves the last entity; phases of a parallel step | every lookup by id is exact; one bucket per entity |
| Operations (`admin.rs`, `clock.rs`, `tick.rs`, `alerting.rs`, `agones.rs`, `rolling.rs`) | command queue, schedule, alerts, pod state, sessions of nodes | enqueue, drain, pace, evaluate, migrate | administrators, the orchestrator | pauses of the machine, bursts of alerts, mixed versions | promised commands are executed once; the loop keeps to the clock |
| Behaviours (`npc_ecosystem.rs`, `threat.rs`, `behavior_tree.rs`, `event_bus.rs`, `script_engine.rs`) | creatures with threat tables, trees, an event ring, a virtual machine | tick, damage, taunt, publish, dispatch, execute | the simulation | eviction, evasion and taunts crossing; state left from an earlier run | creatures reset when they give up; a script's answer depends on the script |
| Traffic control (`admission.rs`, `quota.rs`, `impairment.rs`) | allowances, token buckets, a delay buffer | try_admit, check_ingress, track_allocation, process_egress | sockets | pressure changes within a tick, full buffers | strict priority; no more than the rate; nothing lost unnoticed |
| Continent (`adaptive_shard.rs`, `predictive_migration.rs`, `continental.rs`, `partition.rs`, `cluster.rs`) | shard of every sector with counters, crossing tokens, leases, boxes | assign, rebalance, predict, commit, announce, renew, step | other shards | announcements lost, late and out of order; full tables; split brain | counters are exact; a token is used once and in time |
| Cluster (`multi_process.rs`) | residents, pending migrations | dispatch, adopt, acknowledge, time out | other zone servers | lost and late datagrams, partitions | an entity is neither copied nor lost |
| World (`grid.rs`, `quadtree.rs`, `zone.rs`, `interior.rs`, `building.rs`, `chunk_manifest.rs`) | linked buckets, hotspots, zones, rooms, pieces, manifests | insert, move, remove, split, merge, hand over, build, collapse | the simulation | intrusive lists, capacity limits, stale caches, crash between checkpoint and log | queries exact; one zone per entity; caches coherent |
| Economy (`market.rs`, `market_coordinator.rs`, `item_graph.rs`, `item_transaction.rs`) | books, holdings, containers, item locks | place, match, cancel, settle, move, split, merge | the simulation | partial fills, full books, retries, nested containers | no quantity or item created or lost; holdings back the book |
| Society (`social.rs`, `territory.rs`, `instance.rs`, `companion.rs`) | guilds, standings, plots, dungeon rooms, patch states | promote, claim, refresh, allocate, join, leave, tick | clients, the simulation | claims lapse between refreshes; rooms are reused | ranks and claims are respected; rooms are handed out once |
| Awareness (`aoi.rs`, `tier.rs`, `voice_router.rs`) | tracked entities with tiers; listeners, emitters, channels | update, shed, register, evaluate | clients | more in range than is tracked, full output slices | the client's copy is the server's set; the loudest are heard |
| Play (`ability.rs`, `party.rs`, `chat.rs`, `governor.rs` behind `facade.rs`) | casts, cooldowns, parties, buckets | cast, damage, invite, accept, leave, speak, broadcast | clients | interruption and completion in one tick, crossing invitations, table collisions, budget limits | effects paid for; index and membership agree; rates kept |

The hazards list of `PROJECT.json` names the lines where these bite and the
properties that would notice.

## Modules and the code

Every component module declares its parameters as CONSTANTS, its state as
VARIABLES, one action per operation of the code under the operation's own name
where TLA+ allows it, a type invariant, and the properties. Definitions called
"Mutated form" are deliberately wrong versions of the definition that follows
them; they show that a property can fail (see *mutants* below) and take no part
in any specification.

| Module | Code | State and actions |
|---|---|---|
| `WalRingBuffer` | `wal.rs` WalRingBuffer | the slot array with both cursors; `try_push` by the simulation, `peek_batch` / `advance_head` by the flusher as separate steps |
| `AbstractQueue` | abstract | one sequence with the steps of a bounded FIFO queue (`FifoSpec`), of a queue that sheds (`ShedSpec`) and of a deque (`DequeSpec`): what `WalRingBuffer`, the packet queues and the deque of `WorkStealingPool` implement |
| `WriteAheadJournal` | `wal.rs` WriteAheadJournal, `durable_journal.rs` | ring, LSNs, the file as frames (whole or torn) with its synced prefix; `flush_pending` is `BeginFlush`, `WriteBatch`, `EndWrites`, `SyncOk`, each of which may fail; `Crash` and `Restart` run recovery |
| `ReplicatedJournal` | `replicated_journal.rs` | one frame sequence per node; an append is one step per file |
| `SqpollJournal` | `sqpoll_journal.rs` | both buffers with their locks, the numbers, the file as half frames; every push and every drain (the flusher's and `flush_sync`'s) is a sequence of steps, the load and the store of the active index among them |
| `Snapshots` | `flight_recorder.rs`, `replay.rs`, `hibernation.rs` | both rings, keyframes cut to their capacity, a replay session and the referee's comparison; images with damage |
| `TransactionManager` | `transaction.rs`, `equipment.rs` | accounts, executed ids and callers that wait; EXTENDS the journal and INSTANCEs the locks, so a transaction, a flush step and a takeover interleave |
| `GenerationLock` | `lock.rs` | slots by key, tokens handed out so far, the tick |
| `AuthorityFencer` | `authority.rs` | epoch, highest sequence, accepted tokens (history) |
| `IdentityRegistry` | `identity.rs` | sessions, ownership and every authorization given out |
| `ReliableChannel` | `channel.rs` | both ends and the packets and acknowledgements in flight |
| `ReplayWindow` | `auth.rs` ReplayWindow | highest sequence and the mask as a set of distances |
| `PacketQueues` | both `queue.rs`, `backpressure.rs`, `io.rs` | the circular buffers, batches pushed packet by packet, and the queues with two classes, with removal from the middle of the ring; both implement `AbstractQueue`'s `ShedSpec`. The UDP worker and the simulation, in steps between their critical sections |
| `ClientSession` | `client.rs`, `facade.rs` | per client: handshake state, view, datagrams in both directions; the server's sessions and entities |
| `WorkStealingPool` | `work_stealing.rs` | the deque, one action per shared memory access, reaching `AbstractQueue`'s `DequeSpec` through a linearization history; the pool's injector deque and the loops of its workers |
| `TrafficControl` | `admission.rs`, `quota.rs`, `impairment.rs` | the controller's allowances, the policer and the memory account, the harness with its delay slots |
| `EntityStorage` | `soa_storage.rs`, `sector_parallel.rs` | arrays, blocks, chunk and sectors, each beside a record of what was stored |
| `Operations` | `admin.rs`, `clock.rs`, `tick.rs`, `alerting.rs`, `agones.rs`, `rolling.rs`, `version.rs`, `facade.rs`, `main.rs` | the command queue, the pacing of the loop, alerts and the pod, sessions on nodes of two versions |
| `Behaviours` | `npc_ecosystem.rs`, `threat.rs`, `perception.rs`, `behavior_tree.rs`, `event_bus.rs`, `script_engine.rs` | one creature and its foes, a tree, the bus, the virtual machine instruction by instruction |
| `Continent` | `adaptive_shard.rs`, `predictive_migration.rs`, `continental.rs`, `partition.rs`, `cluster.rs` | per shard: manager, predictor, inbound tokens; both sides of a boundary; the boxes between zone nodes |
| `ZoneCluster` | `multi_process.rs` | residents, pending migrations, datagrams |
| `SpatialGrid` | `grid.rs`, `quadtree.rs` | the intrusive lists with their links, hotspots with tracked entities |
| `WorldZones` | `zone.rs`, `reconstruction.rs` | two zones, log and checkpoint |
| `Buildings` | `interior.rs`, `building.rs`, `chunk_manifest.rs`, `structure.rs`, `facade.rs` | rooms, occupants, locations and items; pieces with parents and stability, manifests, a client's cache |
| `OrderBook` | `market.rs` | two slot arrays, issued orders, trades |
| `MarketEscrow` | `market_coordinator.rs` | EXTENDS the book with holdings and settlement |
| `ItemGraph` | `item_graph.rs`, `item_transaction.rs` | containers, slots, locks, processed ids |
| `CastCombat` | `facade.rs`, `ability.rs` | entities with health, mana, cast and cooldowns |
| `AoiEgress` | `governor.rs`, `facade.rs` | one client's bucket and the packing loop |
| `Society` | `social.rs`, `territory.rs`, `instance.rs`, `companion.rs`, `chat.rs`, `party.rs`, `facade.rs` | a guild and its alliance, standings, plots, the pool of rooms, a patch negotiation; the probed table of chat buckets; parties, the account index and invitations |
| `VoiceInterest` | `voice_router.rs`, `aoi.rs`, `tier.rs` | listeners and emitters among walls; an observer's tracked set and what its client was told |
| `MCJournals`, `MCServer`, `MCTransactions`, `MCTransport`, `MCEconomy`, `MCWorld`, `MCPlay` | model checking | the groups of the runs below |
| `PartialFunctions` | helper | maps with keys added and removed |
| `ServerProofs` | proofs | theorems about `GenerationLock` and its use in `MCServer`, `IdentityRegistry`, the deque, `AuthorityFencer` and `Operations` |
| `JournalProofs` | proofs | theorems about `WalRingBuffer`, `WriteAheadJournal`, `ReplicatedJournal`, `SqpollJournal`, and `TransactionManager` over its journal |
| `TransportProofs` | proofs | theorems about `ReliableChannel`, `PacketQueues` and `ReplayWindow` |
| `PlayProofs` | proofs | theorems about `Society` and `ItemGraph` |
| `WorldProofs` | proofs | theorems about `ZoneCluster`, `Buildings`, `WorldZones` and the composed world |
| `ContinentProofs` | proofs | the inductive invariants of `Continent`, which `WorldProofs` states for the composed world |
| `DataLemmas` | proofs | what `%` does for a divisor that is a parameter, the slots of a ring, least and greatest elements, folds over sequences and recursive functions on numbers; sums over finite sets; `ClientSession` carries its own theorems |

`TransactionManager` composes locks, journal and accounts; `MarketEscrow`
composes book and escrow; the pool of `WorkStealingPool` runs on its deque. Properties
that relate two components are stated there.

## Runs

A run checks one group of components. An `MC` module puts the components of a
group side by side with a variable that says which of them this behaviour
exercises; the others stay in their initial state. The components share no
variables, so the reachable states are the disjoint union of each component's
reachable states, and an invariant, action property or refinement of one
component holds in the run exactly if it holds in the component alone (the
frozen component stutters). Some properties hold only for one way of using a
component (for instance the locks without `release_lock`, as the transaction
manager uses them); the MC module then states them for that scenario, and a
second instance of the same module with other constants supplies it.

| Run | Components and bounds | Shows |
|---|---|---|
| `journals` | ring of 3 slots, batches of 2; journal with a ring of 2, 3 LSNs, 2 process lives, 5 frames; 3 nodes, 2 LSNs, quorums 0, 2 and 3, every mode; SQPOLL buffers of 2 with 2 pushing threads, 3 numbers and failing writes; recorder rings of 3 frames and 2 keyframes of one entity of two, with up to 4 frames in a tick of which 2 are applied; 2 blueprints | `RingIsFifo`: the ring refines `FifoSpec` across the wrap-around and across pushes between peek and acknowledge, and the batch being written stays its prefix. `ConfirmedSurvives`: no LSN lost or repeated between ring and file while writes fail (`FlushLosesNothing`), and confirmed records keep a whole, synced copy, which recovery returns unless a torn frame of a record that is not later stands in front of it (`ConfirmedSurvivesCrash`; that recovery returns every confirmed record is refuted, see `ConfirmedIsRecovered` below). `SteadyWritten`: while flushes keep coming, every record gets written. `QuorumIsKept` for the replicas (parts `ConfirmedOnQuorum`, `PrimaryFirst`, `ConfirmedRecovered`, `RecoveredOnQuorum`, `PromotedHasConfirmed`). `SqpollSound` (parts `RecordsHeldOnce`, `ClosedIsWritten`, `FenceExact`). `SnapshotsFaithful`: a replay gives back what a keyframe holds as far as its frames are there, fit and lie in order (`ReplayFaithful`), an image what was saved or an error |
| `server` | 1 account with 2 locks over 1 slot, 2 sessions, leases of 1 and 2 ticks; epochs up to 3; 3 players, 2 characters, 3 tickets; 1 owner, 2 thieves, 4 jobs in 4 fresh slots or in 2 that wrap; 2 entities in 2 sectors; queues of 2 commands; ticks of 4 units; nodes of versions 1 and 2; 1 creature with 3 foes; trees of up to 4 nodes in 4 slots; 5 scripts | `LockConsistent` (the table and its count), `OneWriter` (`SingleWriter` always; as the transaction manager uses the locks, superseded tokens stay rejected and a generation names one session). `FencedBelowLastEpoch`, `EpochMonotone`. `OnlyLatestLoginActs` (parts `LatestLoginOnly`, `ActiveWasAuthorized`). `Linearizable`, `TakenOnce` (with wrapping), `JobsHandled`. `StorageIsMap` (parts `LookupsExact`, `BlocksExact`, `ChunkPacked`, `LanesCoverOnce`, `SectorsExact`). `OperationsSound` (parts `CommandsKept`, `PacingSound`, `PodSound`, `RollingSound`). `BehavioursSound` (parts `NpcSound`, `TreeSound`, `BusSound`, `VmSound`) |
| `transactions` | 2 sessions, 2 wallets, 2 ids; or 1 session, 2 inventories of 2 slots, 3 ids over a ring of 2 | `AccountsExplained`: nothing is minted and replaying the journal gives the wallets (parts `NothingMinted`, `WalletsExplained`). `RecordedOnce`: ids execute once, answers follow the sync of their record (parts `ExactlyOnce`, `AckedIsSynced`) |
| `transport` | 8 sequence numbers, 9 messages, windows of 3 and 1; replay window of 3; queues of 3 and 4 slots; 4 datagrams in, 2 replies out; allowances of 4 bytes and 2 packets; buckets of 3 packets and 4 bytes; a delay buffer of 2 for 3 packets | `DeliveryExact` across the wrap-around (parts `InOrderExactlyOnce`, `RetiredWasReceived`, `WindowBounded`, `ReorderAhead`); `SteadyDelivered`: delivered or timed out. `WindowInv`, the inductive invariant of the proof (parts `AcceptedOnce`, `WindowIsHistory`). `QueuesShed`: both packet queues refine `ShedSpec`. `QueuesConsistent` (parts `SlotsMatch`, `CountsAgree`, `ReliableRefusedOnlyWhenFull`, `AllAccounted`, `RepliesSent`); `IngressFair` between the two threads (parts `IngressInOrder`, `ReliableShedOnlyWhenFull`). `TrafficSound` (parts `AdmissionSound`, `QuotasSound`, `ImpairmentSound`) |
| `session` | 2 clients, 2 attempts together (both connect, or one connects again), 3 ticks, 2 datagrams in flight, networks that lose or reorder (repeated datagrams, which `Rest` models, multiply the states twentyfold and only the timer answers to them) | `SessionAgreed` on a clean network for a connect that found nothing of an earlier one left (`afresh`), `ViewNeverGoesBack` without reordering, `HandshakeEnds` on all |
| `economy` | book of 2 slots a side, 4 orders at 2 prices; with escrow 1 slot a side, 4 orders of quantities 0 to 2 and 3 holdings, so the book fills up, before and after trades, and orders are turned down with their escrow locked; 2 containers of 3 slots with a stack of 2 each, any or a named target slot, 3 transfers past phase 1, slots locked from outside, so the rollback is met | `MarketSound`: matching (parts `QuantitiesAddUp`, `NeverCrossed`, `PriceTimePriority`, `FillOrKillWhole`) and settlement (parts `EscrowBacksBook`, `SettlementComplete`); `ItemsSound` (parts `ItemsConserved`, `AppliedOnce`, `InstanceIdsUnique`, `WithinWeightLimit`) |
| `world` | 3 entities in 3 cells; seam of 2 between zones of 2 and 1 entities; 2 nodes, 3 migrations, 1 partition; 2 shards with 2 sectors and tables of one token; boxes of 2; 2 visitors, 2 rooms; 2 structures of 3 pieces | `GridExact` (parts `LinksConsistent`, `HotspotIndexExact`, `QueryExact`); `OnePlace`: one zone, exactly recovered (`OneZone`, `OwnSideOfSeam`, `RecoveryExact`), and one living copy in the cluster (`OneActiveCopy`, `NoPacedEntityLost`); `MigrationsSettle`; `ContinentSound` (parts `AggregatesExact`, `Balanced`, `TokensSound`, `NoticesTrue`, `SplitBrainAvoided`, `SingleWriter`); `BuildingsSound`: rooms (`RoomsConsistent`) and structures (`PiecesSupported`, `ManifestExact`, `CacheCoherent`) |
| `play` | one caster with two casts of different lengths and an instant, 4 steps of the clock, and a duel; buckets for two packets of two records; 3 emitters for 2 channels of a listener; 3 beings, of whom 2 are ranked and 1 is tracked; 3 players in groups of 2; 2 accounts that collide; a guild of 3; 2 plots; 2 rooms for 3 raiders | `CastsFair` (parts `CastUndisturbed`, `EffectsArePaidFor`, `CooldownHonoured`, `DueCastsResolve`); `ClientsInformed`: updates (`EgressWithinAllowance`, `RecordsSentOnce`), voice and interest (`VoiceSound`, `InterestSound`); `GroupsSound`: parties (`PartiesWellFormed`, `IndexNamesMembership`) and chat (`AcceptedWithinRate`, `RefusedOnlyWhenRecent`); `SocietySound` (parts `GuildsSound`, `ClaimsKept`, `RoomsSound`) |
| `tx_full` | ring of 1 record | violated: `AbortChangesNothing` |
| `cluster_stale` | 2 nodes, 1 entity, 3 migrations | violated: `NoEntityLost` |
| `pool_reuse` | deque of 2 slots | violated: `JobsRun` |
| `sqpoll_fence` | 2 pushing threads, buffers of 2 | violated: `DurableIsWritten` |

A property with parts is the conjunction of a component's type invariant and
the named invariants, each stated and explained in the component's module.

The bounds are the smallest at which the interesting case happens: rings wrap
and fill, a window is passed, two callers meet in one slot, a table is full, a
crash falls between any two writes, one more message than the sequence space
is sent. Counters that the code lets grow are capped by a constant named in the
guard (`MaxLsn`, `MaxTick`, `MaxGeneration`, ...). `CHECK_DEADLOCK FALSE` stands
where callers may simply stop calling or the bounds end the behaviour;
`session` and `economy` check for deadlock.

**Mutants.** For every property of every passing run `PROJECT.json` names a
mutated definition of the model, as a plausible slip in that code would have it
(a dropped guard, a missing reset, an off-by-one); with it TLC reports that
property violated.

## Fairness

Liveness is checked under these assumptions only.

* `SteadyWritten` (`MCJournals`): weak fairness of `EndWrites`, strong fairness
  of `WriteBatch` and `SyncOk`: the steps of a flush follow one another in one
  call, and the storage does not fail for ever. Nothing is assumed of who calls
  `flush_pending`: in `src/` only a transaction that wants durability does
  (`transaction.rs:651`), so a record appended without it can stay in the ring
  for as long as no such transaction comes. The property is about behaviours in
  which flushes keep coming (`KeepsFlushing`).
* `SteadyDelivered` (`ReliableChannel`, `ChanLiveSpec`): both ends call their
  functions every tick, and the receiving one drains what is buffered (weak
  fairness of `drain_next_ordered_packet`); a packet or acknowledgement sent again and again gets
  through (strong fairness of `receive` and `process_remote_ack`).
* `HandshakeEnds` (`ClientSession`, `SessionLiveSpec`): the client polls every
  frame, the server drains its socket and broadcasts every tick, timers expire.
  Nothing is assumed of the network.
* `JobsHandled` (`ServerSpec`), `JobsRun` (`PoolSpec`): a runnable
  worker thread runs.
* `MigrationsSettle` (`WorldSpec`, as in `ClusterLiveSpec`): every node's loop polls its socket and
  checks its timeouts.

## Proofs

TLAPS checks the following for every value of the constants allowed by the
named ASSUMEs: any number of threads, sessions, players or replicas, any
capacity, any number of crashes and any length of the behaviour.

| Theorem | Statement | Inductive invariant and why it is needed |
|---|---|---|
| `ServerProofs!LockConsistency` | `LockSpec => []LockConsistent` | `CountInv`, the type invariant with the finiteness of the occupied slots: cardinality changes by one where `count` does |
| `ServerProofs!WritersExclude` | `ServerSpec => []OneWriter`, of the composed server | `ManagerInv`: no issued token has a generation above its slot's, and one of the slot's generation names the slot's holder; rejection depends on every token ever issued, not on the slot alone. `Fencing` and `GenerationNamesSession` state the two halves for the lock on its own |
| `ServerProofs!ManagerGenerationsGrow` | under the manager's operations generations never go back | an action property, from `ManagerInv`; with releases it is false (`GenerationsNeverRegress` in the table of disagreements) |
| `ServerProofs!LatestLoginActs` | `TicketsOnce /\ IdentitySpec => []OnlyLatestLoginActs` | `IdentityInv`: a session carries the ticket of its account's last login, an authorization that of the login it was given under, and the tables are finite. `TicketsOnce` is the promise of the login service under which the code is used; without it the property is false (`LatestLoginOnly` below) |
| `ServerProofs!NothingTakenTwice` | `DequeSpec => []TakenOnce`, access by access, for any capacity | `DequeInv`: what the owner read is still right up to what it claimed (`OwnerInv`), a thief that can still win its compare-exchange holds a job nobody has (`ThiefInv`), every slot between top and bottom holds a job of its own (`SlotInv`). `DataLemmas!SlotsApart` keeps two positions of one round in different slots when the ring wraps |
| `JournalProofs!RingImplementsFifo` | `RingSpec => RingIsFifo`: the ring implements `AbstractQueue`'s `FifoSpec` | `RingInv`: head, tail and length agree modulo the capacity; `PushIsPush`, `AdvanceIsTake` and `PeekKeepsQueue` map each step to a push, a take or a stutter |
| `JournalProofs!FlushLossless` | `WalSpec => []ConfirmedSurvives` | `WalInv`: the file has no gaps across lives, ring and file meet without a gap or an overlap, and every frame of this process is that of a waiting record or has a whole frame of the same record (`FramesExplained`); the last is what lets a torn write be retried without losing a record. `TornInv`: behind a torn frame stands no record appended after the torn one, unless a whole copy of it is in front too, which is what recovery can be promised (`TornHidesLater`) |
| `JournalProofs!QuorumKept` | `ReplSpec => []QuorumIsKept` | `ReplInv`: acknowledgements counted during an append are copies that exist (`DoneWithCopy`), a journal not yet written has only earlier frames (`FramesAreEarlier`), one frame per LSN while nothing is torn or retried. Recovery counts frames, not nodes: `HoldersAreCounted` and `CountedAreHolders` are the injections that relate the two. For a quorum of zero `recover_quorum` returns nothing (166), and the part about recovery says nothing |
| `TransportProofs!NoReplay`, `WindowExact` | `WindowSpec => []WindowInv` | `WindowInv`: the mask is exactly the accepted numbers within the width and nothing accepted lies above the highest; the exactness is what makes the single acceptance inductive |
| `ServerProofs!OperationsKept` | `ServerSpec => []OperationsSound`, of the composed server | `AdminInv` (the requests in order are what was carried out, taken and queued), `PaceInv` (every tick began at most one interval before the schedule, so a rebase after a suspension never puts the loop ahead of the clock), `PodInv` (counters equal the lengths of their conditions up to the thresholds), `RollingInv` (counts are cardinalities, and the versions agreed on know what both know). Assumed of the constants: a suspension is at least two ticks long, as 200 ms is for the 20 Hz the server runs at; at rates below 10 Hz a tick that follows a short one can be taken for a suspension and the loop gets ahead |
| `ServerProofs!FenceOrdered`, `EpochNeverGoesBack` | accepted commands are strictly increasing below the last epoch; the epoch never decreases | `FenceInv`: every accepted token is at or below the current epoch and, in it, at or below the highest sequence |
| `JournalProofs!TransactionsRecorded` | `Spec => []RecordedOnce`, of the transaction manager with its locks and journal | `TxInv`: over `WalInv`, every record, also one of a torn frame, is that of an executed transaction at its LSN, and every executed transaction waits in the ring or is whole in the file. That a sync reaches only an empty ring is what makes the answer after it true. Assumes that the journal can hold the records (`Commands \subseteq Payloads`) |
| `JournalProofs!NothingIsMinted` | `SomeItems => (Spec => [](TxTypeOK /\ NoMintedCurrency /\ NoMintedItems))`, for every kind of operation, a full ring included | `MintInv`: no stack is empty, LSNs number the executed transactions, and the totals of each currency and item are at most what they were. Every operation, and every rollback, changes one account or two: `HoldingsAreNumbers`, `SlotChanged` and `GearChanged` say what that does to a sum over slots, `OneChanged` and `TwoChanged` to one over accounts. At most, not equal: credits and stacks saturate. `SomeItems`, that items are not transferred by the zero, is necessary: the source lets such a transfer leave an empty stack, which can be worn (`NoMintedItems` below) |
| `JournalProofs!AccountsAreExplained` | `TransactionsSpec /\ [][ledger = "wallet" => ~TurnedAway]_<<ledger, vars>> => []AccountsExplained` | `LedgerInv`: `TxInv` and `MintInv`, and for wallets `ExplainInv`: ring and file hold one record of each LSN and replaying them gives the wallets (`ReplayedInOrder`: the fold over LSNs applies one record after the other, so a new record applies last). The hypothesis is about the behaviour, not about the constants: no step turns a record away (`TurnedAway`). It is necessary, because an append that finds the ring full leaves the accounts changed without a record (run `tx_full`); every other failure, of a flush, a lock or an operation, is allowed. The kinds of behaviour are those of the run: operations on wallets (`WalletsOnly`) and on the traders' bags, none of which holds an empty stack (`TraderBags`) |
| `PlayProofs!ItemsKept` | `GraphSpec => []ItemsSound`, whatever target slot is asked for | `GraphInv`: the recorded weight covers the contents, ids in use are those of the first items or below the next one, a transaction was applied once exactly if it is marked as processed, no bag is in itself. `SlotIsFound`: what phase 1 let through finds a slot, or any slot was asked for and none is open. In the first case the transfer commits (`TransferCommits`; `TotalStays` and `IdsStayApart` follow what moved) or puts an item where it was; in the second a whole stack is rolled back into its slot, which the weight allows because the source gave up at most what returns (`NothingMoves`), and a part of a stack is gone (`SplitIsLost`), which `ItemsConserved` counts as `wasted` |
| `JournalProofs!NoRecordLost` | `SqpollSpec => []SqpollSound` | `SqInv`, in four layers, each inductive over the ones before: the calls follow one another (`CallInv`); a record waits in one place, and its halves are in the file as far as its batch has come (`HeldInv`); the last two passes empty both buffers (`ClosedInv`); until something disturbs the journal, batch, inactive and active buffer continue the numbers of the file (`OrderInv`) |
| `JournalProofs!SqpollInvariant` | `SqpollSpec => []SqInv` | the strengthening on its own |
| `TransportProofs!DeliveryIsExact` | `ChanSpec => []DeliveryExact`, for any sequence space, window and reorder buffer with `EagerAcks = FALSE` | `ChanInv`: every acknowledgement stands for one message and names only received ones, and while it travels the message after it is still kept (`AckInv`), so neither the sender's window nor a retired number can get half the sequence space away from it; packets on the wire are near what is kept (`WireInv`). `SequencesApart` turns numbers back into messages, `DrainedRun` says what one arrival sets free. An acknowledgement sent before anything was received names message 1, which is why the theorem excludes it |
| `TransportProofs!RingsImplementShedding` | `QueueSpec /\ BackpressureSpec => QueuesShed`: both rings implement `AbstractQueue`'s `ShedSpec` | `RingOfPackets` and `ClassesInv`: head, tail and length agree modulo the capacity and exactly the slots between them are used. `RingAppend`, `RingTake` and `RingRemove` say what storing at the tail, moving the head and closing a gap do to the sequence a ring stands for; `TargetIsOldest` and `EvictionCloses` that the shift over the wrap-around closes the gap of the oldest unreliable packet |
| `TransportProofs!QueueCountersExact` | `QueueSpec /\ BackpressureSpec /\ IoSpec => []QueuesConsistent` | the same two and, for the worker, `WorkerInv` and `RepliesInv`. The eviction decides by `unreliable_count`, so the refusal of a reliable packet is right only because the count is exact: `ClosedCounts` finds the slots of a class again after the shift by a bijection (`ShiftCount`), `StretchCount` counts what a drain takes |
| `ClientSession!SessionsAgree` | `SessionSpec => []SessionAgreed`, for any number of attempts | `HandshakeInv`: over a perfect network one datagram of the handshake is on the way at a time, and the finalize response comes before every state update, because the entity that updates are sent to appears with it. A connect made while a datagram of an earlier attempt is on the way, or while its entity is still sent updates, can take one of them for the answer it waits for (`SessionAgreed` below); the property is about the others, which `afresh` records |
| `ClientSession!ViewsGoForward` | `SessionSpec => ViewNeverGoesBack`, without a bound on attempts | `ViewInv`: the updates on the way are in the order of their ticks and none is older than what the view shows; `ThinnedInOrder` and `ExtendedInOrder` say that this survives losses, deliveries and sends |
| `WorldProofs!MigrationsKeepOneCopy` | `ClusterSpec => []OneLivingCopy`, the cluster's part of `OnePlace` | `ClusterInv`: on a benign network an entity is in one zone or in one datagram, and a zone that keeps it while it is active elsewhere has an acknowledgement on its way (`OneToken`, `KeepersAnswered`), so a rollback, which comes after every datagram, brings back the only copy; with migrations apart the sender of an acknowledgement still has the entity (`StillAlive`), so what an acknowledgement releases is not the last copy |
| `PlayProofs!PartiesKept`, `ChatKept`, `GroupsKept` | `PartySpec => []PartiesConsistent`; `ChatSpec /\ []ChatRoom => []ChatRateKept`; `PlaySpec /\ []ChatRoom => []GroupsSound` | `PartyInv`: the index names exactly the members of the parties, each at one position, and the leader is one of them; `TakenOut` says what `Vec::remove` leaves. `ChatInv`: an account that ever sent a message has one bucket, where its probing meets it, and what was let through and what is left in it come from one filling and one token per interval since the first message (`BucketOf`); a bucket that stays empty after its refill is less than an interval old, so a refusal is deserved (`Refilled`). The table gives up an account whose probed slots are all taken, so the rate is proved while each account has room where it probes (`ChatRoom`); without it the code does not keep the rate (`AcceptedWithinRate` below) |
| `PlayProofs!SocietyKept` | `PlaySpec => []SocietySound` | `SocietyInv`: a guild within its size whose master alone has all permissions, an alliance with each guild once and its leader among them (`GuildInv`), standings within their range, plots that say what was paid for (`ClaimsInv`), and a pool whose free slots are exactly those of no room, without repetition, with counters that are cardinalities (`GoodPool`); the tick over all rooms is a fold whose every step keeps the pool good (`PoolTicked`) |
| `WorldProofs!BuildingsKept` | `WorldSpec => []BuildingsSound` | `InteriorInv` (occupants and locations are inverse to each other), `BuiltInv` (a piece above the ground has a parent that stands: the cascade of a destruction, a recursive function, is shown to take everything above what fell), `ManifestInv` and `CacheInv` (a manifest lists what stands or was reclaimed; a copy with the manifest's hash holds it, because every change of a chunk raises its revision) |
| `WorldProofs!OnePlaceKept` | `NoLeap => (WorldSpec => []OnePlace)` | `ZonesInv`: an entity alive is in one zone, past its side of the seam's midpoint, and checkpoint and log rebuild the zone (`Recoverable`: the log continues the checkpoint, and replaying it, a fold that `FoldExists` unrolls, gives the grid); with `ClusterInv` for what migrates between processes. `NoLeap`, that nobody crosses half of the seam in one tick, is necessary: who jumps over the region in which the crossing is looked for is handed to no zone (`OwnSideOfSeam` below) |
| `WorldProofs!ContinentKept` | `Wilderness < Hotspot => (WorldSpec => []ContinentSound)` | `SeamInv`, `BoundaryInv` and `HarnessInv` of `ContinentProofs`. A shard's counters are sums over its sectors (`ExactManagers`); the passes of a rebalancing are folds whose every step keeps them (`MergedStep`, `ContractedStep`), and `SeamMoved` to `SeamAnnounced` follow a token from its issue to its commit at the peers: a token is in the table of its issuer until it is spent, used or evicted, no other token of its entity is live for the same target (`Rivals`), and a datagram says what its sender did (`DatagramTrue`). A partner's last heartbeat is from before the cut (`BoundaryInv`). An entity has one spot among grids and boxes and one ticket, however the tick flushes, routes and adopts (`Flushed`, `Routed`, `HarnessTicked`). The hypothesis says that a sector quiet enough to be merged is not crowded enough to be moved out again; these are 10 and 500 in the code, and the tests pass the same to `configure_thresholds`, which does not ask for it |

Lemmas on data are stated once: `DataLemmas` on quotients and remainders and on
recursion (`FoldExists`, `ClimbExists`: the functions that a fold over a sequence
and a recursion along links stand for exist and satisfy their equations),
`SumsExist`, `SumIs` and `SumWithout` (a sum over a finite set is any one value
and the sum of the others, whichever order CHOOSE takes them in), `FoldSteps`
(the folds of the community modules take a sequence one position at a time),
`ContentsProperties` on the contents of the ring, `FramesProperties` and
`CutGapless` on the file, `NodeSetGrows` on quorums. `LargestOf` and
`SmallestOf`, that a bounded set of numbers has a largest and a set of numbers a
smallest element, come from the well-foundedness of `<`. They also stand in for
induction, which the prover does not have with an operator as a parameter
(`UpTo`): a claim is followed to the least number at which it could fail.

The assumptions are those the modules declare: constants are of their kind,
window and packet age are below half the sequence space,
capacities are positive (a quorum may be 0), accounts start within their limits without
empty stacks, the sets of nodes, players and keys that the
code counts are finite. Where a component is composed with others in
an `MC` module the proof covers the steps in which it stutters.

**Only model-checked**, and why:

* liveness (`SteadyWritten`, `SteadyDelivered`, `HandshakeEnds`, `JobsHandled`,
  `MigrationsSettle`): the prover has neither fairness nor ENABLED;
* what SelectSeq, SortSeq, SetToSortSeq and FlattenSeq compute, which are defined by
  recursions of their own: the buckets of the spatial grid (`GridExact`), the
  phases of the sector coordinator (`StorageIsMap`), matching and settlement
  (`MarketSound`), what is replayed of a recording (`SnapshotsFaithful`), how
  updates are packed (`ClientsInformed`), what came in of a class (`TrafficSound`);
* the checksum of a snapshot (`SnapshotsFaithful`): that no changed field keeps it
  holds for the values of the instance, not for every number;
* the virtual machine and the trees (`BehavioursSound`);
* `Linearizable`: its history is ordered by a sort, which is again a fold;
  `TakenOnce`, the part of it that the pool rests on, is proved;
* the order of the worker's ingress queue (of which `QueueCountersExact` states the
  length).

## Known disagreements between the code and its documentation

While modelling, these statements of the repository's comments and docs turned
out not to describe the code. The first four are kept as runs that TLC must
find violated; the others are properties of the named module (or a checked
property under other constants) that TLC refutes under the instance given, which
the passing runs exclude and say so.

| Property | Instance | What the code does and what the source says |
|---|---|---|
| `AbortChangesNothing` | run `tx_full` | The accounts are changed before journal.append, whose WalBufferFull is returned with the change in place and the transaction id unrecorded, so a retry applies it twice; transaction.rs:327 says "Performs atomic mutation or complete rollback on error." (eidolon-world/src/transaction.rs:372) |
| `NoEntityLost` | run `cluster_stale` | An acknowledgement names the entity only, so one that is late settles a newer migration of the same entity; when that migration's datagram is lost nothing can be rolled back, while multi_process.rs:273 says the rollback works by "preventing entity loss under network partitions." (eidolon-server/src/multi_process.rs:359) |
| `JobsRun` | run `pool_reuse` | steal stores EMPTY_SLOT after top has moved on, when push may already have put another job into the same slot: that job is erased, and every later steal of the position finds the sentinel and returns Abort, which work_stealing.rs:43 documents as "The steal attempt lost a race with the owner or another thief; caller should retry." No retry ever succeeds. (eidolon-server/src/work_stealing.rs:192) |
| `DurableIsWritten` | run `sqpoll_fence` | A thread that checked the active buffer just before the flusher switches it takes its number, in the old buffer, after a thread that already pushed into the new one; the flusher writes the old buffer and raises committed_sequence to the later number, so is_durable is true of the earlier record, which is still in memory. (The same happens when flush_sync and the flusher drain at once, and the fence is raised before sync_data.) sqpoll_journal.rs:101-102 says: 'Returns true if the specified transaction sequence number has been physically written and synchronized to disk via fdatasync.' (eidolon-world/src/sqpoll_journal.rs:74) |
| `GenerationsNeverRegress` | `GenerationLock`, `LockSpec` with `release_lock` | release_lock frees the slot and the next acquire_lock starts again at generation 1; lock.rs:99 says of the field "Monotonically increasing generation sequence number." (eidolon-core/src/lock.rs:246) |
| `DurableLsnIsSynced` | `WriteAheadJournal`, `WalSpec` | flush_pending advances durable_lsn and evicts each batch right after write_batch, before sink.flush; wal.rs:466 says "Advances `durable_lsn` and evicts records from the buffer only upon successful storage synchronization." (eidolon-world/src/wal.rs:485) |
| `EventuallySynced` | `WriteAheadJournal`, `WalLiveSpec`, `FileSink = FALSE` | When sink.flush fails the records have already left the ring, so the retry finds it empty, skips the sync and returns Ok(0); wal.rs:467 says "If storage fails, all pending records remain intact in memory for subsequent retry." (eidolon-world/src/wal.rs:492) |
| `ConfirmedIsRecovered` | `WriteAheadJournal`, `WalSpec`, 2 lives | open appends behind a torn tail and a failed write_batch is retried behind its torn frame, while recover_from_journal stops at the first bad frame: records synced and confirmed later are not recovered; durable_journal.rs:4-5 says "guarantees POSIX `fdatasync` execution before the server acknowledges an operation to the client, delivering RPO = 0 under process `SIGKILL` or host crash." (eidolon-world/src/durable_journal.rs:130) |
| `AbortChangesNothing` | `TransactionManager`, `Kinds = {"item"}`, the target inventory full, the source stack behind an empty slot | When the target inventory is full the removed stack is added back to the first empty slot, which need not be the one it came from: a failed transfer rearranges the inventory without a journal record; transaction.rs:327 says "Performs atomic mutation or complete rollback on error." (eidolon-world/src/transaction.rs:514) |
| `ItemsConserved` | `TransactionManager`, `Kinds = {"equip"}`, a stack of 2 | equip_item clears or overwrites the inventory slot whatever its quantity, so equipping one of a stack of two destroys the other; equipment.rs:3-4 says "Enforces server-authoritative equipment slot rules, item stat aggregation, and atomic item transitions between character bags and worn gear." (eidolon-world/src/transaction.rs:173) |
| `NoMintedItems` | `TransactionManager`, `Amounts = {0, 1}`, items | ItemTransfer with quantity 0 passes every check and leaves a stack of quantity 0 at the target, which equip_item accepts as an item; transaction.rs:3 says "Enforces two-phase atomic transactional boundaries for currency and inventory transfers." (eidolon-world/src/transaction.rs:119) |
| `ConfirmedSurvivesHostLoss` | `ReplicatedJournal`, `MaxLost = 1` | recover_quorum counts copies in the surviving journals against the same required_acks, so a record confirmed by exactly required_acks nodes is dropped when one of them is lost; replicated_journal.rs:4-6 says "transactions are synchronous across a majority of storage nodes before client confirmation, delivering RPO = 0 across complete host death or availability zone partition." (eidolon-world/src/replicated_journal.rs:191) |
| `ConfirmedRecovered` | `ReplicatedJournal`, `retrying = FALSE` | A record that missed the quorum leaves a gap in the LSNs at which recover_quorum stops, dropping every confirmed record behind it; replicated_journal.rs:161 says "Incomplete transactions that failed to reach quorum are safely discarded without panics." (eidolon-world/src/replicated_journal.rs:199) |
| `RecoveredOnQuorum` | `ReplicatedJournal`, `retrying = TRUE` | recover_quorum counts records, not journals: a record refused twice by the replicas is twice in the primary's journal and passes for a quorum of two; replicated_journal.rs:159-160 says "a transaction is considered durably committed if and only if it was persisted to at least `required_acks` replica journals with valid checksums." (eidolon-world/src/replicated_journal.rs:177) |
| `RetiredWasReceived` | `ReliableChannel`, `EagerAcks = TRUE` | ack_data returns (0, 0) before anything was received, and process_remote_ack takes it as the acknowledgement of sequence 0, so the first reliable packet is dropped from the retransmission buffer; channel.rs:193 says of process_remote_ack "Ingests remote acknowledgment data (`ack` and `ack_bitfield`), retiring confirmed packets." (eidolon-net/src/channel.rs:55) |
| `StrictlyIncreasing` | `AuthorityFencer`, `InitialEpoch = U32Max` | increment_epoch saturates at u32::MAX and still clears highest_sequence, so commands already processed in that epoch are accepted again; authority.rs:167 says of validate_and_advance "Enforces strictly increasing sequences within the same epoch." (eidolon-core/src/authority.rs:196) |
| `OwnsTheCharacter` | `IdentityRegistry` | validate_character_action never looks at the ownership table, so after register_character hands the character to another account the former owner's authorization still passes; identity.rs:248 says it verifies "3. The character belongs to the authenticated account." (eidolon-core/src/identity.rs:280) |
| `LatestLoginOnly` | `IdentityRegistry`, `TicketsOnce = FALSE` | revoke_session drops the slot and the next login starts at generation 1 again, so with the same ticket the authorizations of the earlier login pass; identity.rs:42 calls the field "Monotonic session generation fence." and identity.rs:4 promises "monotonic generation fencing" (eidolon-core/src/identity.rs:177) |
| `OnePartyPerPlayer` | `Society`, 3 players | accept_invite does not ask whether the account has joined or created another party since it was invited, so it becomes a member of both; create_party (party.rs:155) and invite_player (party.rs:191) refuse with "Player already in a party" and "Target player already in a party" (eidolon-world/src/party.rs:217) |
| `QueryExact` | `SpatialGrid`, `max_hotspots` below the number of hot cells | insert discards the hotspot manager's CapacityExceeded, and an entity that was not tracked is never tracked again, so when it moves into a split cell query_radius_squared (which reads a split cell only through the hotspots) misses it; grid.rs:340 says "Queries all entities within a squared radius of a continuous point." (eidolon-spatial/src/grid.rs:272) |
| `AcceptedWithinRate` | `Society`, 3 accounts with the same first slot | when the 16 probed slots belong to other accounts the bucket is written to the slot after them, which the account's own next check never probes, so every message starts from a full bucket; chat.rs:101 says "Verifies if an account is permitted to send a message, consuming 1 token." and "Err(...) if empty" (eidolon-world/src/chat.rs:132) |
| `ImmediateTierServed` | `AoiEgress`, `MAX_PACKET_SIZE` of 8 records, `Profiles = {1200}`, 8 records in view | records are admitted against the bucket one by one but the packet is charged as a whole, so a crowd of eight near entities (12 + 8 * 22 = 188 bytes, bucket 180) is dropped every tick and the client gets no update at all; governor.rs:3-4 says "prioritizing high-relevance combat entities and shedding distant tiers when egress budgets are saturated" (eidolon-server/src/facade.rs:1838) |
| `DeathReportedOnce` | `CastCombat` | damage_entity answers whether the target has no health left, not whether this blow killed it, so every further blow at a dead entity broadcasts its death and sends a loot event again; facade.rs:712 says it "returns `true` if target entity was killed" (eidolon-server/src/facade.rs:734) |
| `ManifestExact` | `Buildings`, without the exemption of `reclaimed` | run_structure_maintenance removes structures without unregistering them from the chunk manifests (destroy_structure does), so clients whose hash matches keep showing them; chunk_manifest.rs:131 says the manifest holds "Active structure IDs resident in this chunk." (eidolon-world/src/building.rs:370) |
| `CollapseDownstreamOnly` | `Buildings`, `PieceTypes` with snapped foundations | place_piece gives a snapped foundation full stability as grounded, while destroy_piece recomputes it as an ordinary child, so destroying an unrelated piece collapses it and all it carries; building.rs:279 says "traverses the downstream connection graph and collapses any child pieces whose stability drops to 0" (eidolon-world/src/building.rs:326) |
| `OccupantsPresent` | `Buildings` | despawn_entity does not take the entity out of its interior cell, so a despawned player stays an occupant and, respawned outdoors under the same id, is still invisible to everyone outside; interior.rs:28 says "Player entity IDs currently occupying this interior room." (eidolon-server/src/facade.rs:689) |
| `FillOrKillWhole` | `OrderBook`, `TradesOut = 1` | the matching loop also stops when trades_out is full, after the volume check has passed, and the rest of the order is dropped; market.rs:17 says a Fill-or-Kill "must be filled completely immediately, or the entire order is rejected" (eidolon-core/src/market.rs:313) |
| `NoExpiredFill` | `OrderBook`, `Duration = 0` | place_order matches a resting order whatever its expiration_tick, which nothing reads; market.rs:61 says "Server tick when the order expires." (eidolon-core/src/market.rs:293) |
| `SettlementComplete` | `MarketEscrow` as in `economy`, without the exemption of `forfeited` | place_order returns OrderBookFull after it has executed trades, and submit_and_match returns on that error before settling them, with the new holding still locked (as it is for a quantity or price of zero and a Fill-or-Kill the book turns down first); market_coordinator.rs:4 promises "atomic trade settlement" (eidolon-core/src/market.rs:448) |
| `RefundedNotResting` | `MarketEscrow`, `CancelFirst = FALSE` | the coordinator hands back the holding without touching the book, where the order still rests and can be matched with nothing in escrow; market_coordinator.rs:229 says it "Cancels a resting order and returns the locked escrow holding for refund." (eidolon-world/src/market_coordinator.rs:230) |
| `OwnSideOfSeam` | `WorldZones`, `MaxStep` wider than the seam | the handoff also requires the new position to be inside the seam, so an entity that passes the whole seam in one tick stays in its old zone for good; zone.rs:220 says the call "executes atomic migration if seam midpoint is crossed" (eidolon-world/src/zone.rs:235) |
| `SessionAgreed` | `ClientSession`, `Attempts = 2`, without the condition on `afresh` | In ConnectingFinalize any payload of at least 44 bytes is parsed as the finalize response. After a second connect call the client holds two 48-byte challenge responses: the first moves it to ConnectingFinalize, the second connects it with part of the server nonce as session id; crates/eidolon-client/src/client.rs:99 says "Returns the session ID assigned by the server if connected." (eidolon-client/src/client.rs:279) |
| `ViewNeverGoesBack` | `ClientSession`, a network that reorders | The client stores the header's sequence number and applies every state update, whatever its sequence; docs/WIRE_PROTOCOL.md:82 says of this channel "Stale out-of-order packets are dropped instantly" and docs/OPERATIONS_AND_SECURITY.md:38 that such channels "strictly reject out-of-order and duplicate packets". (eidolon-client/src/client.rs:294) |
| `OrderlyTermination` | `ClientSession` | The server's match on the packet type has no arm for Disconnect, so the entity of a client that left stays until an administrator kicks it; crates/eidolon-net/src/protocol.rs:65 calls the packet an "Orderly connection termination handshake." (eidolon-server/src/facade.rs:1172) |
| `DespawnReachesView` | `ClientSession` | State updates only insert or update entities and nothing ever produces EntityDespawned, which crates/eidolon-client/src/event.rs:33 documents as "An entity left the local client's Area of Interest (AoI) or despawned." (eidolon-client/src/client.rs:721) |
| `OneActiveCopy` | `ZoneCluster`, `benign = FALSE` | poll_network drops the acknowledgement of a zone declared partitioned, and check_migration_timeouts then restores the entity although the target has adopted it; multi_process.rs:220 says that if the target is partitioned or unreachable, the call "safely rolls back ownership to the local node." (eidolon-server/src/multi_process.rs:335) |
| `ReservedForReliable` | `PacketQueues` | Whether to shed is decided once per batch from the length before it, so a batch that starts one slot below the threshold may fill the rest of the queue with unreliable packets; io.rs:215 says that above 80% the call drops unreliable packets, "reserving queue space strictly for reliable messages and connection control." (eidolon-server/src/io.rs:252) |
| `RepliesSent` | `PacketQueues`, `sendFails # {}` | flush_egress has already popped the packet when the send would block and drops it (flush_egress_batch drops the rest of its batch as well); the comment at io.rs:139 says "Socket send buffer full: yield until next cycle". (eidolon-server/src/io.rs:139) |
| `NothingLost` | `ItemGraph` as in `economy` | A split inside one full container passes phase 1 (a full target is refused only when the containers differ), takes the part off the stack, and returns the insertion's CapacityFull with `?`, dropping the part; item_transaction.rs:180 says "On any failure: Automatically releases all locks without altering state." (eidolon-world/src/item_transaction.rs:342) |
| `WeightExact` | `ItemGraph` | split_stack and commit_split_stack never lower the source container's weight while the target's grows; item_graph.rs:218 says of the field "Current aggregated weight in grams." (eidolon-core/src/item_graph.rs:401) |
| `NoNestingCycle` | `ItemGraph`, `Bags` not empty | Only an item whose own container is the target is refused, so bag x can be moved into bag y after bag y was moved into x; item_transaction.rs:32 describes the error as "Recursive container nesting cycle detected." (eidolon-world/src/item_transaction.rs:245) |


Further behaviours of the code that a reader of its comments would not expect.
The models follow the code, and the properties say what holds all the same:

* `sqpoll_journal.rs`: the fence is raised when a batch is written, before
  `sync_data` (169, 217); the records of a batch whose write failed are dropped.
  `FenceExact` is stated for journals where neither happened.
* `flight_recorder.rs`: `earliest_tick` does not move when frames are
  overwritten (106), so a tick may be announced that cannot be replayed; frames
  of one tick split by the end of the ring replay in slot order (183), and of
  more than 64 in a tick the rest are left out (184, 287): a scrub across such
  ticks succeeds with other entities than the live ones, in spite of the "100%
  determinism" of 262. A keyframe keeps the first 16 entities (`replay.rs:103`),
  so the checksum of a fuller live world always differs (340).
  `SnapshotsFaithful` states what is left (`Covered`).
* `channel.rs`: `receive_and_drain_ordered` drops the packet it received if the
  output slice is empty (317); with a short one, or if a caller receives the
  next packet before it has drained, the copy of a number already handed over
  stays in the reorder buffer (292) until the sequence wraps around.
  `ReliableChannel` receives one packet and drains one packet at a time and
  lets its caller drain before it receives again.
* `hibernation.rs`: the checksum does not cover the account id and the epoch.
* `soa_storage.rs:578`: `update_from_aligned_blocks` writes back by position, so
  a block exported before a despawn lands on another entity.
* `sector_parallel.rs:275`: worker threads look for an entity at its id minus
  one; no bucket forgets a despawned id. `StorageIsMap` exempts such ids
  (`unclear`).
* `continental.rs`: token numbers of different sources coincide; a late
  announcement makes a consumed token fresh (394); a crossing is committed to a
  target that is out of date. `predictive_migration.rs:250`: a full table gives
  up slot 0.
* `cluster.rs`: a ticket whose entity does not fit is dropped uncounted.
  `partition.rs`: a lease renewed with an older tick becomes shorter.
* `social.rs:230`: only the new rank is compared with the promoter's, so a
  member may demote one above itself. `territory.rs`: a lapsed claim is revived
  by `refresh_upkeep` (209) and an owner's claim may shorten its own (197);
  `instance.rs`: the grace period counts from the allocation.
  `companion.rs:154`: a patch completes from any state.
* `admin.rs`: a request is answered with success although the queue was full; a
  checkpoint is logged as flushed even if it failed.
* `alerting.rs`: an overrun of 10 ticks raises the alert documented for more
  than 10; asking again for a drain starts it anew (293).
* `clock.rs`: after a pause the metrics say four ticks are caught up, but the
  schedule forgives all of them.
* `admission.rs:107`: `advance_tick` renews the allowances for any other tick,
  an earlier one too. `quota.rs`: a full bucket and a second of refills let
  twice the documented rate through. `impairment.rs:307`: a clone that finds
  no slot is counted as duplicated. `quota.rs:64` cuts the elapsed
  ticks to 32 bits, which the model, whose ticks are few, does not show.
* `npc_ecosystem.rs`: a taunt on an idle creature sets a target and leaves it
  idle; a creature that becomes dormant while it evades stays so; the manager
  never ticks behaviour trees. `behavior_tree.rs:125`: a cyclic tree recurses
  without end. `event_bus.rs:156`: one may subscribe twice.
* `aoi.rs:305`: the unranked update reports entities beyond `max_tracked` as
  entering, each time; events beyond the output slice are lost. `InterestSound`
  is stated for views without either.

## Abstractions and assumptions

* Data are model values or small sets; formatting, logging, statistics and
  metrics are left out, and so are all encodings except where a component
  depends on a length (`ClientSession` tells packets apart by length).
* `SpatialGrid` and `WorldZones` work along one axis. `WorldZones` takes the
  logging of a zone from its recovery tests, and a step of an entity from
  `MaxStep`.
* `CastCombat`: one step of the clock is 10 ticks, health and mana are in fives,
  an entity is at one of two places.
* `AoiEgress`: the sizes of header and record are the code's, the packet limit
  is scaled to two records.
* `Buildings`: the manifest hash has no collisions; stability is scaled
  to 3.
* Chat buckets (`Society`): 4 slots with 2 probes for 256 with 16.
* `PacketQueues`: with 4 slots the 95% threshold coincides with full.
* `ReliableChannel`: u16 sequence numbers are scaled to 8; the network forgets a
  packet before half the sequence space has gone by.
* `WorkStealingPool`: sequentially consistent memory; the fences of the code are
  taken to provide it. One submitter, as in the repository's callers.
* `SqpollJournal`: a frame is its header and its record, each written whole or not.
* `Snapshots`: an image is its sections; damage hits one of them. Positions are
  on one axis, one byte each in the checksum; the live entities are listed by id.
* `EntityStorage`: positions and speeds are one number; sector indices have 3
  bits for 16, chunks 2 lanes for 8. The loops over lanes of 16 and 8 are checked
  for up to 41 entities.
* `Operations`: time is in quarters of a tick; a bearer token is configured. The
  interval is shorter than the first threshold of shedding, as the 33 ms of 30 Hz
  are than 40 ms, so a tick can overrun without any.
* `TrafficControl`: the random generator of the harness may answer anything.
* `Behaviours`: one creature on a line, threat in steps of one blow, the level of
  detail by three distances; scripts are the samples of `MCServer`, over
  integers up to 3 that saturate as the code's 64-bit ones do; trees are built node by node from `add_node`, with
  children after their parent, which may name slots nobody filled (action 0) or
  that do not exist.
* `Continent`: sectors are on one axis, a crossing is predicted from the speed
  and the lookahead; processing time is not modelled, so `cpu_overload`, which
  the code never reads, is left out.
* `Society`: a permission mask is a set of names, standings move in three steps.
* `VoiceInterest`: a street instead of a town: walls are intervals between two
  voices; gains are whole thousandths, distances whole metres on a line.
* `OrderBook`: statuses and counts are derived from the quantities. Order ids are
  unique, as the code's callers promise, so `DuplicateOrderId` is not met.
* `MarketEscrow`: an order the book turns down leaves its holding locked, and one
  that traded before the book was full leaves its trades unsettled; `failed` and
  `forfeited` record those calls, and the escrow is exact for all other orders.
* `ItemGraph`: an item weighs its quantity; soulbinding, wear and crafting
  attributes are left out. What a failed transfer drops is counted in `wasted`.
* `ClientSession`: everybody is in range of everybody; the server never sends
  Disconnect, as in the code.
* Callers behave as the constants say: the login service gives a ticket out once
  (`TicketsOnce`), acknowledgement headers are sent only after something was
  received (`EagerAcks = FALSE`), cancelling goes to the book first
  (`CancelFirst`), the slice for trades is long enough (`TradesOut`). The table
  of disagreements says what happens otherwise.

## What is not modelled

See `PROJECT.json`, components with status `not_modelled`, for every part and
the reason: the cryptographic primitives (taken as perfect), fixed-point
mathematics and bit-level codecs (pure functions over wide integers), telemetry
and benchmarks, system-call wrappers, terrain and ray casting, the web client,
the C interface and the language bindings.

## Plan

Modelled: persistence, authority, transactions, transport, sessions, the
scheduler, the cluster and the continent, the world and its storages, the
economy, play, society, operations, behaviours and awareness; the theorems above.

What remains is proof. In the order of their weight: `EntityStorage`'s
`LookupsExact` and `BlocksExact`, the storages as maps whatever swap-removal
packs; `GridExact`, whose buckets want lemmas on what sorting and flattening
compute.

Left to model, should it be wanted: the individual intents of the C interface,
radius queries in Morton order, codecs against a reference over bounded inputs.
