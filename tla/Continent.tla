------------------------------ MODULE Continent ------------------------------
(*****************************************************************************)
(* Worker shards that share a continent: the map of sectors to shards each   *)
(* orchestrator keeps and rebalances (eidolon-world/src/adaptive_shard.rs),  *)
(* the tokens that authorize crossing a seam (predictive_migration.rs), the  *)
(* datagrams between orchestrators (eidolon-server/src/continental.rs), the  *)
(* lease and the heartbeats of a zone boundary (partition.rs), and the       *)
(* in-process cluster of zone nodes with their boxes (cluster.rs).           *)
(*                                                                           *)
(* The network is a set of datagrams that are never taken out: each may be   *)
(* delivered late, in any order, twice or not at all.                        *)
(*****************************************************************************)
EXTENDS Integers, Sequences, SequencesExt, FiniteSets, FiniteSetsExt, PartialFunctions

CONSTANTS
    ShardCount,             \* shard_count
    Leaders,                \* shards whose orchestrators are called; the others only listen
    Regions,                \* sector coordinates, numbers
    Crowds,                 \* entity counts a sector may have
    Hotspot, Wilderness,    \* hotspot_threshold, wilderness_threshold
    Riders,                 \* entities that cross seams
    Drives,                 \* pairs <<position, velocity>> they may have
    Lookahead, SectorWidth, \* projection window and width of a sector
    MAX_ACTIVE_PRE_AUTHS, TokenTtl,
    MaxContinentTick, MaxSeamTokens,    \* bounds: ticks and tokens of an orchestrator
    PARTITION_TIMEOUT, LEASE_DURATION,  \* in ticks
    MaxBoundaryTick,        \* bound: ticks of the boundary
    ZoneNodes,              \* node index -> ids its grid was made for
    BOX,                    \* MAX_IN_FLIGHT_MIGRATIONS
    STAGED                  \* tickets one tick may stage

ASSUME ContinentAssumption ==
    /\ ShardCount \in Nat \ {0} /\ Leaders \subseteq 0..(ShardCount - 1)
    /\ Regions \subseteq Int /\ Crowds \subseteq Nat
    /\ {Hotspot, Wilderness, Lookahead, TokenTtl, PARTITION_TIMEOUT, LEASE_DURATION,
        MaxContinentTick, MaxSeamTokens, MaxBoundaryTick, BOX, STAGED} \subseteq Nat
    /\ SectorWidth \in Nat \ {0} /\ MAX_ACTIVE_PRE_AUTHS \in Nat \ {0}
    /\ ZoneNodes \in Seq(Nat)

VARIABLES
    orch,           \* shard -> its ContinentalOrchestrator
    datagrams,      \* what was ever sent between them
    issuedTokens,   \* shard -> the tokens it ever issued (history)
    crossings,      \* shard -> token id -> the ticks it was committed at (history)
    evicted,        \* shard -> tokens overwritten while they were live (history)
    rebalanced,     \* shard -> no sector changed since its latest evaluation (history)
    boundary,       \* zone -> ZonePartitionManager and its latest answer
    boundaryTick, linkUp, cutAt,    \* time, the link between the zones and when it was cut
    grids, outbox, inbox,           \* node -> its entities and its tickets
    spawned, droppedTickets, refusedTickets     \* entities of the cluster (history)

seamVars == <<orch, datagrams, issuedTokens, crossings, evicted, rebalanced>>
boundaryVars == <<boundary, boundaryTick, linkUp, cutAt>>
harnessVars == <<grids, outbox, inbox, spawned, droppedTickets, refusedTickets>>
continentVars == <<seamVars, boundaryVars, harnessVars>>

Shards == 0..(ShardCount - 1)
Saturating(a, b) == IF a > b THEN a - b ELSE 0

(* ------------------------- the map of the sectors ------------------------- *)

ShardMetrics == [active_sectors |-> 0, total_entities |-> 0]

NewShardManager ==
    [sectors |-> [s \in {} |-> 0], shards |-> [h \in Shards |-> ShardMetrics], background |-> 0]

get_shard_for_sector(m, s) == IF s \in DOMAIN m.sectors THEN {m.sectors[s].shard_id} ELSE {}

\* Mutated form: the shard a sector leaves keeps its entities on its account.
Reassigned_kept(m, s, to) ==
    LET from == m.sectors[s].shard_id
        count == m.sectors[s].entity_count
    IN  IF from = to THEN m
        ELSE [m EXCEPT !.sectors[s].shard_id = to,
                       !.shards[from].active_sectors = Saturating(@, 1),
                       !.shards[to].active_sectors = @ + 1,
                       !.shards[to].total_entities = @ + count]

\* A sector goes to another shard with its entities.
Reassigned(m, s, to) ==
    LET from == m.sectors[s].shard_id
        count == m.sectors[s].entity_count
    IN  IF from = to THEN m
        ELSE [m EXCEPT !.sectors[s].shard_id = to,
                       !.shards[from] = [active_sectors |-> Saturating(@.active_sectors, 1),
                                         total_entities |-> Saturating(@.total_entities, count)],
                       !.shards[to] = [active_sectors |-> @.active_sectors + 1,
                                       total_entities |-> @.total_entities + count]]

assign_sector(m, s, shard) ==
    IF shard >= ShardCount THEN m
    ELSE IF s \in DOMAIN m.sectors THEN Reassigned(m, s, shard)
    ELSE [m EXCEPT !.sectors = With(@, s, [shard_id |-> shard, entity_count |-> 0]),
                   !.shards[shard].active_sectors = @ + 1]

update_sector_entity_count(m, s, count) ==
    LET meta == m.sectors[s]
    IN  [m EXCEPT !.sectors[s].entity_count = count,
                  !.shards[meta.shard_id].total_entities =
                      Saturating(@, meta.entity_count) + count]

merge_wilderness_to_background(m, s) == Reassigned(m, s, m.background)
contract_hotspot_to_shard(m, s, shard) == Reassigned(m, s, shard)

OnBackground(m, s) == m.sectors[s].shard_id = m.background
IsHotspot(m, s) == m.sectors[s].entity_count >= Hotspot /\ OnBackground(m, s)
IsWilderness(m, s) ==
    /\ ~ IsHotspot(m, s)
    /\ m.sectors[s].entity_count <= Wilderness
    /\ ~ OnBackground(m, s)

\* The first of the shards with the fewest entities, the background aside.
LeastLoaded(m) ==
    LET others == Shards \ {m.background}
        least == {h \in others : \A k \in others :
                      m.shards[h].total_entities <= m.shards[k].total_entities}
    IN  IF others = {} THEN {} ELSE {Min(least)}

\* Candidates are those of the map as it was before any sector moved; `order` is that
\* of the map's iteration.
Merged(m, n, s) == IF IsWilderness(m, s) THEN merge_wilderness_to_background(n, s) ELSE n
Contracted(m, n, s) ==
    IF IsHotspot(m, s) /\ LeastLoaded(n) # {}
    THEN contract_hotspot_to_shard(n, s, CHOOSE h \in LeastLoaded(n) : TRUE) ELSE n

merge_candidates(m, order) == FoldLeft(LAMBDA n, s : Merged(m, n, s), m, order)
contract_candidates(m, merged, order) ==
    FoldLeft(LAMBDA n, s : Contracted(m, n, s), merged, order)

evaluate_rebalance(m, order) == contract_candidates(m, merge_candidates(m, order), order)

(* ---------------------------- crossing tokens ----------------------------- *)

NoToken == [token_id |-> 0]

Token(id, e, source, target, sector, now) ==
    [token_id |-> id, entity_id |-> e, source_shard |-> source, target_shard |-> target,
     target_sector |-> sector, issued_tick |-> now, expiry_tick |-> now + TokenTtl,
     is_consumed |-> FALSE]

NewPredictor == [tokens |-> [i \in 1..MAX_ACTIVE_PRE_AUTHS |-> NoToken], next_token_id |-> 1]

project_entity_trajectory(drive) == (drive[1] + drive[2] * Lookahead) \div SectorWidth

Spent(t, now) == t.is_consumed \/ now > t.expiry_tick
SlotsOf(p) == {p.tokens[i] : i \in DOMAIN p.tokens} \ {NoToken}

\* store_token: an empty slot, else one whose token is spent, else slot 0.
TokenSlot(p, now) ==
    LET free == {i \in DOMAIN p.tokens : p.tokens[i] = NoToken}
        spent == {i \in DOMAIN p.tokens : p.tokens[i] # NoToken /\ Spent(p.tokens[i], now)}
    IN  IF free # {} THEN Min(free) ELSE IF spent # {} THEN Min(spent) ELSE 1

purge_expired(p, now) ==
    [p EXCEPT !.tokens = [i \in DOMAIN @ |->
        IF @[i] # NoToken /\ Spent(@[i], now) THEN NoToken ELSE @[i]]]

LiveFor(p, e, target, now) ==
    {t \in SlotsOf(p) : t.entity_id = e /\ t.target_shard = target /\ ~ Spent(t, now)}

(* ------------------------------ orchestrators ----------------------------- *)

NewOrchestrator ==
    [manager |-> NewShardManager, predictor |-> NewPredictor,
     inbound |-> [id \in {} |-> NoToken], current_tick |-> 0]

Peers(n) == Shards \ {n}
SendTo(n, body) == [to |-> n, body |-> body]

\* A sector is assigned, an entity count comes in, another shard is the background.
administer(n, s) ==
    /\ \/ \E shard \in Shards \cup {ShardCount} :
              orch' = [orch EXCEPT ![n].manager = assign_sector(@, s, shard)]
       \/ /\ s \in DOMAIN orch[n].manager.sectors
          /\ \E count \in Crowds :
              orch' = [orch EXCEPT ![n].manager = update_sector_entity_count(@, s, count)]
    /\ rebalanced' = [rebalanced EXCEPT ![n] = FALSE]
    /\ UNCHANGED <<datagrams, issuedTokens, crossings, evicted>>

configure_thresholds(n, shard) ==
    /\ orch' = [orch EXCEPT ![n].manager.background = IF shard < ShardCount THEN shard ELSE @]
    /\ rebalanced' = [rebalanced EXCEPT ![n] = FALSE]
    /\ UNCHANGED <<datagrams, issuedTokens, crossings, evicted>>

\* A live token for the entity and the shard is used again, and sent again.
evaluate_entity_movement(n, e, drive) ==
    LET o == orch[n]
        sector == project_entity_trajectory(drive)
    IN  \E target \in get_shard_for_sector(o.manager, sector) \ {n} :
            LET live == LiveFor(o.predictor, e, target, o.current_tick)
                id == o.predictor.next_token_id
                fresh == Token(id, e, n, target, sector, o.current_tick)
                slot == TokenSlot(o.predictor, o.current_tick)
                token == IF live # {} THEN CHOOSE t \in live : TRUE ELSE fresh
                old == o.predictor.tokens[slot]
            IN  /\ datagrams' = datagrams \cup {SendTo(target, [kind |-> "PRE_AUTH", token |-> token])}
                /\ IF live # {}
                   THEN UNCHANGED <<orch, issuedTokens, evicted>>
                   ELSE /\ id <= MaxSeamTokens
                        /\ orch' = [orch EXCEPT ![n].predictor.tokens[slot] = fresh,
                                                ![n].predictor.next_token_id = id + 1]
                        /\ issuedTokens' = [issuedTokens EXCEPT ![n] = @ \cup {fresh}]
                        /\ evicted' = [evicted EXCEPT ![n] =
                               IF old # NoToken /\ Cardinality({t \in SlotsOf(o.predictor) :
                                                       ~ Spent(t, o.current_tick)})
                                                   = MAX_ACTIVE_PRE_AUTHS
                               THEN @ \cup {old.token_id} ELSE @]
                /\ UNCHANGED <<crossings, rebalanced>>

\* validate_and_consume, then the notice to the target.
commit_migration(n, id, e, target) ==
    \E slot \in DOMAIN orch[n].predictor.tokens :
        LET t == orch[n].predictor.tokens[slot]
        IN  /\ t.token_id = id
            /\ t.entity_id = e /\ t.target_shard = target
            /\ ~ t.is_consumed
            /\ orch[n].current_tick <= t.expiry_tick
            /\ orch' = [orch EXCEPT ![n].predictor.tokens[slot].is_consumed = TRUE]
            /\ crossings' = [crossings EXCEPT ![n] = With(@, id,
                   IF id \in DOMAIN @ THEN Append(@[id], orch[n].current_tick)
                                      ELSE <<orch[n].current_tick>>)]
            /\ datagrams' = datagrams \cup {SendTo(target, [kind |-> "COMMIT", id |-> id])}
            /\ UNCHANGED <<issuedTokens, evicted, rebalanced>>

\* What peers are told of the sectors that went to another shard.
Announcements(n, before, after) ==
    LET moved == {s \in DOMAIN after.sectors :
                      after.sectors[s].shard_id # before.sectors[s].shard_id}
    IN  {SendTo(p, [kind |-> "REBALANCE", sector |-> s, shard |-> after.sectors[s].shard_id]) :
            p \in Peers(n), s \in moved}

\* The tick is set, tokens are purged, sectors rebalanced, and every move announced.
continent_step_tick(n) ==
    LET o == orch[n]
        now == o.current_tick + 1
    IN  /\ now <= MaxContinentTick
        /\ \E order \in SetToSeqs(DOMAIN o.manager.sectors) :
               LET after == evaluate_rebalance(o.manager, order)
               IN  /\ orch' = [orch EXCEPT ![n] =
                          [o EXCEPT !.current_tick = now, !.manager = after,
                                    !.predictor = purge_expired(o.predictor, now)]]
                   /\ datagrams' = datagrams \cup Announcements(n, o.manager, after)
        /\ rebalanced' = [rebalanced EXCEPT ![n] = TRUE]
        /\ UNCHANGED <<issuedTokens, crossings, evicted>>

\* The receiver computes the expiry anew from the tick of the issue.
handle_cluster_packet(n, body) ==
    LET o == orch[n]
    IN  /\ orch' = [orch EXCEPT ![n] =
               CASE body.kind = "PRE_AUTH" ->
                        [o EXCEPT !.inbound = With(@, body.token.token_id,
                            [body.token EXCEPT !.expiry_tick = body.token.issued_tick + TokenTtl,
                                               !.is_consumed = FALSE])]
                 [] body.kind = "COMMIT" ->
                        IF body.id \in DOMAIN o.inbound
                        THEN [o EXCEPT !.inbound[body.id].is_consumed = TRUE] ELSE o
                 [] body.kind = "REBALANCE" ->
                        [o EXCEPT !.manager = assign_sector(@, body.sector, body.shard)]]
        /\ rebalanced' = [rebalanced EXCEPT ![n] = @ /\ orch'[n].manager = o.manager]
        /\ UNCHANGED <<datagrams, issuedTokens, crossings, evicted>>

SeamInit ==
    /\ orch = [n \in Shards |-> NewOrchestrator]
    /\ datagrams = {}
    /\ issuedTokens = [n \in Shards |-> {}]
    /\ crossings = [n \in Shards |-> [id \in {} |-> <<>>]]
    /\ evicted = [n \in Shards |-> {}]
    /\ rebalanced = [n \in Shards |-> FALSE]

SeamNext ==
    \/ \E n \in Leaders :
        \/ \E s \in Regions : administer(n, s)
        \/ \E shard \in Shards \cup {ShardCount} : configure_thresholds(n, shard)
        \/ \E e \in Riders, drive \in Drives : evaluate_entity_movement(n, e, drive)
        \/ \E id \in 1..MaxSeamTokens, e \in Riders, target \in Shards :
               commit_migration(n, id, e, target)
        \/ continent_step_tick(n)
    \/ \E d \in datagrams : handle_cluster_packet(d.to, d.body)

-------------------------------------------------------------------------------
(* ---------------------------- zone boundaries ----------------------------- *)

BoundaryZones == {"local", "remote"}

\* new: the detector hears of the partner now, the lease runs from now.
NewBoundary ==
    [last_heartbeat_tick |-> 0, expires_tick |-> LEASE_DURATION, answer |-> "none", frozen |-> FALSE]

is_partitioned(z) ==
    Saturating(boundaryTick, boundary[z].last_heartbeat_tick) > PARTITION_TIMEOUT

is_valid(z) == boundaryTick <= boundary[z].expires_tick

record_heartbeat(b, now) ==
    [b EXCEPT !.last_heartbeat_tick = IF now > @ THEN now ELSE @]

renew(b, now) == [b EXCEPT !.expires_tick = now + LEASE_DURATION]

\* A heartbeat of the partner arrives, over a link that is up.
handle_heartbeat(z) ==
    /\ linkUp
    /\ boundary' = [boundary EXCEPT ![z] =
           [renew(record_heartbeat(@, boundaryTick), boundaryTick) EXCEPT !.answer = "none"]]
    /\ UNCHANGED <<boundaryTick, linkUp, cutAt>>

validate_migration(z) ==
    /\ boundary' = [boundary EXCEPT ![z].answer =
           CASE is_partitioned(z) -> "PartitionSevered"
             [] ~ is_partitioned(z) /\ ~ is_valid(z) -> "LeaseExpired"
             [] OTHER -> "Ok"]
    /\ UNCHANGED <<boundaryTick, linkUp, cutAt>>

\* The entity is frozen while the link is severed and authoritative once it healed.
resolve_partition_rollback(z) ==
    /\ boundary' = [boundary EXCEPT ![z].frozen = is_partitioned(z), ![z].answer = "none"]
    /\ UNCHANGED <<boundaryTick, linkUp, cutAt>>

\* Time passes; answers are about the tick they were given at.
BoundaryTicks ==
    /\ boundaryTick < MaxBoundaryTick
    /\ boundaryTick' = boundaryTick + 1
    /\ boundary' = [z \in BoundaryZones |-> [boundary[z] EXCEPT !.answer = "none"]]
    /\ UNCHANGED <<linkUp, cutAt>>

LinkChanges ==
    /\ linkUp' = ~ linkUp
    /\ cutAt' = IF linkUp THEN boundaryTick ELSE cutAt
    /\ UNCHANGED <<boundary, boundaryTick>>

BoundaryInit ==
    /\ boundary = [z \in BoundaryZones |-> NewBoundary]
    /\ boundaryTick = 0 /\ linkUp = TRUE /\ cutAt = 0

BoundaryNext ==
    \/ \E z \in BoundaryZones :
        handle_heartbeat(z) \/ validate_migration(z) \/ resolve_partition_rollback(z)
    \/ BoundaryTicks
    \/ LinkChanges

-------------------------------------------------------------------------------
(* ------------------------- the in-process cluster ------------------------- *)

ZoneNodeIds == DOMAIN ZoneNodes
CitizenIds == 0..(Max({0} \cup {ZoneNodes[n] : n \in ZoneNodeIds}) - 1)

spawn_entity(n, e) ==
    /\ e \notin spawned /\ e < ZoneNodes[n]
    /\ grids' = [grids EXCEPT ![n] = @ \cup {e}]
    /\ spawned' = spawned \cup {e}
    /\ UNCHANGED <<outbox, inbox, droppedTickets, refusedTickets>>

\* The caller takes the entity out of its zone and queues its ticket, to a node that
\* may not be registered (index 0).
queue_outbox(n, e, to) ==
    /\ e \in grids[n] /\ Len(outbox[n]) < BOX
    /\ grids' = [grids EXCEPT ![n] = @ \ {e}]
    /\ outbox' = [outbox EXCEPT ![n] = Append(@, [entity |-> e, to |-> to])]
    /\ UNCHANGED <<inbox, spawned, droppedTickets, refusedTickets>>

\* A neighbour hands its ticket over outside the tick.
queue_inbox(n, e, to) ==
    /\ e \in grids[n] /\ to \in ZoneNodeIds /\ Len(inbox[to]) < BOX
    /\ grids' = [grids EXCEPT ![n] = @ \ {e}]
    /\ inbox' = [inbox EXCEPT ![to] = Append(@, [entity |-> e, to |-> to])]
    /\ UNCHANGED <<outbox, spawned, droppedTickets, refusedTickets>>

EntitiesOf(tickets) == {tickets[i].entity : i \in DOMAIN tickets}

\* Tickets of the outboxes, node by node, as far as the staging array goes.
flush_outbox == FoldLeft(LAMBDA all, n : all \o outbox[n], <<>>, [n \in ZoneNodeIds |-> n])

\* Each ticket goes into its node's inbox while there is room.
RouteTicket(boxes, t) ==
    IF t.to \in ZoneNodeIds /\ Len(boxes[t.to]) < BOX
    THEN [boxes EXCEPT ![t.to] = Append(@, t)] ELSE boxes

route_tickets(boxes, tickets) == FoldLeft(RouteTicket, boxes, tickets)

\* A ticket whose entity the zone does not take is gone.
adopt_inbox(n, tickets) ==
    {e \in EntitiesOf(tickets) : e < ZoneNodes[n] /\ e \notin grids[n]}

harness_step_tick ==
    LET all == flush_outbox
        staged == SubSeq(all, 1, IF Len(all) < STAGED THEN Len(all) ELSE STAGED)
        routed == route_tickets(inbox, staged)
        arriving == UNION {EntitiesOf(routed[n]) : n \in ZoneNodeIds}
        adopted == UNION {adopt_inbox(n, routed[n]) : n \in ZoneNodeIds}
    IN  /\ grids' = [n \in ZoneNodeIds |-> grids[n] \cup adopt_inbox(n, routed[n])]
        /\ outbox' = [n \in ZoneNodeIds |-> <<>>]
        /\ inbox' = [n \in ZoneNodeIds |-> <<>>]
        /\ droppedTickets' = droppedTickets \cup (EntitiesOf(all) \ arriving)
        /\ refusedTickets' = refusedTickets \cup (arriving \ adopted)
        /\ UNCHANGED spawned

HarnessInit ==
    /\ grids = [n \in ZoneNodeIds |-> {}]
    /\ outbox = [n \in ZoneNodeIds |-> <<>>] /\ inbox = outbox
    /\ spawned = {} /\ droppedTickets = {} /\ refusedTickets = {}

HarnessNext ==
    \/ \E n \in ZoneNodeIds, e \in CitizenIds :
        \/ spawn_entity(n, e)
        \/ \E to \in ZoneNodeIds \cup {0} : queue_outbox(n, e, to) \/ queue_inbox(n, e, to)
    \/ harness_step_tick

ContinentInit == SeamInit /\ BoundaryInit /\ HarnessInit

-------------------------------------------------------------------------------
(* Each shard's account is the sum over the sectors it has, through          *)
(* reassignments, merges, contractions and announcements of peers.           *)
AggregatesExact ==
    \A n \in Shards, h \in Shards :
        LET m == orch[n].manager
            own == {s \in DOMAIN m.sectors : m.sectors[s].shard_id = h}
        IN  /\ m.shards[h].active_sectors = Cardinality(own)
            /\ m.shards[h].total_entities =
                   SumFunctionOnSet([s \in DOMAIN m.sectors |-> m.sectors[s].entity_count], own)

(* Right after an evaluation no crowd is on the background and no wilderness *)
(* off it, whatever the order the sectors were visited in.                   *)
Balanced ==
    \A n \in Shards : rebalanced[n] /\ ShardCount > 1 =>
        \A s \in DOMAIN orch[n].manager.sectors :
            ~ IsHotspot(orch[n].manager, s) /\ ~ IsWilderness(orch[n].manager, s)

(* A token is committed once, before it expires; an entity has one live      *)
(* token to a shard; a live token is gone only if a full table overwrote it. *)
TokensSound ==
    \A n \in Shards :
        LET p == orch[n].predictor
            now == orch[n].current_tick
        IN  \A t \in issuedTokens[n] :
                /\ t.token_id \in DOMAIN crossings[n] =>
                       /\ Len(crossings[n][t.token_id]) = 1
                       /\ crossings[n][t.token_id][1] <= t.expiry_tick
                /\ Cardinality(LiveFor(p, t.entity_id, t.target_shard, now)) <= 1
                /\ (/\ t.token_id \notin DOMAIN crossings[n] \cup evicted[n]
                    /\ now <= t.expiry_tick) => t \in SlotsOf(p)

(* What a shard was told of is a token some peer issued to it, expiry        *)
(* included, and it is consumed only if a peer committed that id.            *)
NoticesTrue ==
    \A n \in Shards : \A id \in DOMAIN orch[n].inbound :
        LET t == orch[n].inbound[id]
        IN  /\ [t EXCEPT !.is_consumed = FALSE] \in UNION {issuedTokens[p] : p \in Peers(n)}
            /\ t.target_shard = n
            /\ t.is_consumed => \E p \in Peers(n) : id \in DOMAIN crossings[p]

(* Once the link has been down longer than the timeout neither side lets an  *)
(* entity migrate, and an entity of a side that asked is frozen.             *)
SplitBrainAvoided ==
    ~ linkUp /\ boundaryTick > cutAt + PARTITION_TIMEOUT =>
        \A z \in BoundaryZones : boundary[z].answer # "Ok" /\ is_partitioned(z)

(* An entity of the cluster is on one node or in one box, unless its ticket  *)
(* found no room or no grid for it.                                          *)
SingleWriter ==
    \A e \in spawned :
        Cardinality({n \in ZoneNodeIds : e \in grids[n]})
      + Cardinality({c \in ZoneNodeIds \X {"in", "out"} :
                        e \in EntitiesOf(IF c[2] = "in" THEN inbox[c[1]] ELSE outbox[c[1]])})
      = IF e \in droppedTickets \cup refusedTickets THEN 0 ELSE 1

(* The continent's bookkeeping: the shard maps, the crossing tokens and what *)
(* peers are told of them (adaptive_shard.rs, predictive_migration.rs,       *)
(* continental.rs), the boundary's partition detector (partition.rs), and    *)
(* the cluster's boxes (cluster.rs).                                         *)
ContinentSound ==
    AggregatesExact /\ Balanced /\ TokensSound /\ NoticesTrue /\ SplitBrainAvoided /\ SingleWriter
===============================================================================
