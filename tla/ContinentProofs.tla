---------------------------- MODULE ContinentProofs ----------------------------
(*****************************************************************************)
(* Proofs about the continent, for any number of shards, sectors, riders,    *)
(* tokens, zone nodes and ticks: the sector map and its counts               *)
(* (adaptive_shard.rs), the tokens that cross a seam                         *)
(* (predictive_migration.rs) and the datagrams about them (continental.rs),  *)
(* the lease at a boundary (partition.rs) and the boxes of the in-process    *)
(* cluster (cluster.rs).  The boundary, the shards and the boxes each have   *)
(* an inductive invariant: BoundaryInv, SeamInv and HarnessInv.              *)
(*****************************************************************************)
EXTENDS Continent, DataLemmas, FiniteSetTheorems, TLAPS

(* ------------------------------- the boundary ------------------------------ *)

(* A partner's latest heartbeat came before the link was cut, and a permission *)
(* to migrate is of the tick it was given at.                                  *)
BoundaryInv ==
    /\ boundaryTick \in Nat /\ cutAt \in Nat /\ linkUp \in BOOLEAN /\ cutAt <= boundaryTick
    /\ boundary \in [BoundaryZones -> [last_heartbeat_tick : Nat, expires_tick : Nat,
                         answer : {"none", "Ok", "LeaseExpired", "PartitionSevered"},
                         frozen : BOOLEAN]]
    /\ \A z \in BoundaryZones :
           /\ boundary[z].last_heartbeat_tick <= boundaryTick
           /\ ~ linkUp => boundary[z].last_heartbeat_tick <= cutAt
           /\ boundary[z].answer = "Ok" => ~ is_partitioned(z)

\* The bounds and limits of the model are numbers.
LEMMA BoundaryLimits ==
    /\ PARTITION_TIMEOUT \in Nat /\ LEASE_DURATION \in Nat /\ MaxBoundaryTick \in Nat
    /\ TokenTtl \in Nat /\ MaxContinentTick \in Nat /\ MaxSeamTokens \in Nat
    /\ BOX \in Nat /\ STAGED \in Nat /\ Hotspot \in Nat /\ Wilderness \in Nat
  BY ContinentAssumption

\* Leases start on a link that is up (partition.rs).
LEMMA BoundaryStart == BoundaryInit => BoundaryInv
<1> SUFFICES ASSUME BoundaryInit PROVE BoundaryInv
  OBVIOUS
<1>1. boundary = [z \in BoundaryZones |-> NewBoundary] /\ boundaryTick = 0 /\ linkUp = TRUE
      /\ cutAt = 0
  BY DEF BoundaryInit
<1>2. boundary \in [BoundaryZones -> [last_heartbeat_tick : Nat, expires_tick : Nat,
                         answer : {"none", "Ok", "LeaseExpired", "PartitionSevered"},
                         frozen : BOOLEAN]]
  BY <1>1, BoundaryLimits DEF NewBoundary
<1>3. \A z \in BoundaryZones : boundary[z].last_heartbeat_tick = 0 /\ boundary[z].answer = "none"
  BY <1>1 DEF NewBoundary
<1> QED BY <1>1, <1>2, <1>3 DEF BoundaryInv

\* A heartbeat, a check of a migration, a rollback, a tick and a cut keep it
\* (partition.rs).
LEMMA BoundaryStep == BoundaryInv /\ [BoundaryNext]_boundaryVars => BoundaryInv'
<1> SUFFICES ASSUME BoundaryInv, [BoundaryNext]_boundaryVars PROVE BoundaryInv'
  OBVIOUS
<1> USE BoundaryLimits
<1> DEFINE B == [last_heartbeat_tick : Nat, expires_tick : Nat,
                 answer : {"none", "Ok", "LeaseExpired", "PartitionSevered"}, frozen : BOOLEAN]
<1>0. /\ boundaryTick \in Nat /\ cutAt \in Nat /\ linkUp \in BOOLEAN /\ cutAt <= boundaryTick
      /\ boundary \in [BoundaryZones -> B]
      /\ \A z \in BoundaryZones :
           /\ boundary[z].last_heartbeat_tick <= boundaryTick
           /\ ~ linkUp => boundary[z].last_heartbeat_tick <= cutAt
           /\ boundary[z].answer = "Ok" => ~ is_partitioned(z)
  BY DEF BoundaryInv
<1>1. ASSUME NEW z \in BoundaryZones, handle_heartbeat(z) PROVE BoundaryInv'
  <2> DEFINE b == boundary[z]
             hb == IF boundaryTick > b.last_heartbeat_tick THEN boundaryTick
                   ELSE b.last_heartbeat_tick
             heard == [last_heartbeat_tick |-> hb, expires_tick |-> b.expires_tick,
                       answer |-> b.answer, frozen |-> b.frozen]
             next == [last_heartbeat_tick |-> hb, expires_tick |-> boundaryTick + LEASE_DURATION,
                      answer |-> "none", frozen |-> b.frozen]
  <2>1. b \in B /\ b.last_heartbeat_tick <= boundaryTick
    BY <1>0
  <2>2. boundary' = [boundary EXCEPT ![z] = next]
        /\ linkUp /\ boundaryTick' = boundaryTick /\ linkUp' = linkUp /\ cutAt' = cutAt
    <3>1. boundary' = [boundary EXCEPT ![z] =
              [renew(record_heartbeat(b, boundaryTick), boundaryTick) EXCEPT !.answer = "none"]]
          /\ linkUp /\ boundaryTick' = boundaryTick /\ linkUp' = linkUp /\ cutAt' = cutAt
      BY <1>1 DEF handle_heartbeat
    <3>2. record_heartbeat(b, boundaryTick) = heard
      <4>1. b = [last_heartbeat_tick |-> b.last_heartbeat_tick, expires_tick |-> b.expires_tick,
                 answer |-> b.answer, frozen |-> b.frozen]
        BY <2>1
      <4> HIDE DEF b, B
      <4> QED BY <4>1 DEF record_heartbeat
    <3>3. renew(heard, boundaryTick) = [heard EXCEPT !.expires_tick = boundaryTick + LEASE_DURATION]
      BY DEF renew
    <3>4. [renew(heard, boundaryTick) EXCEPT !.answer = "none"] = next
      <4> HIDE DEF hb, b, B
      <4> QED BY <3>3
    <3> HIDE DEF b, heard, next
    <3> QED BY <3>1, <3>2, <3>4
  <2>3. next \in B /\ next.last_heartbeat_tick <= boundaryTick /\ next.answer = "none"
    <3>1. hb \in Nat /\ hb <= boundaryTick /\ boundaryTick + LEASE_DURATION \in Nat
          /\ b.frozen \in BOOLEAN
      BY <2>1, <1>0
    <3> HIDE DEF hb, b
    <3> QED BY <3>1
  <2> HIDE DEF next, B
  <2>4. boundary' \in [BoundaryZones -> B] /\ boundary'[z] = next
        /\ \A y \in BoundaryZones : y # z => boundary'[y] = boundary[y]
    BY <2>2, <2>3, <1>0
  <2>5. \A y \in BoundaryZones : y # z => is_partitioned(y)' = is_partitioned(y)
    BY <2>2, <2>4 DEF is_partitioned
  <2>6. ASSUME NEW y \in BoundaryZones
        PROVE  /\ boundary'[y].last_heartbeat_tick <= boundaryTick'
               /\ boundary'[y].answer = "Ok" => ~ is_partitioned(y)'
    <3>1. CASE y = z
      BY <3>1, <2>2, <2>3, <2>4
    <3>2. CASE y # z
      BY <3>2, <2>2, <2>4, <2>5, <1>0
    <3> QED BY <3>1, <3>2
  <2> QED BY <2>2, <2>4, <2>6, <1>0 DEF BoundaryInv, B
<1>2. ASSUME NEW z \in BoundaryZones, NEW a \in {"none", "Ok", "LeaseExpired", "PartitionSevered"},
             NEW f \in BOOLEAN, a = "Ok" => ~ is_partitioned(z),
             boundary' = [boundary EXCEPT ![z] = [@ EXCEPT !.answer = a, !.frozen = f]],
             UNCHANGED <<boundaryTick, linkUp, cutAt>>
      PROVE  BoundaryInv'
  <2> DEFINE b == boundary[z]
             next == [b EXCEPT !.answer = a, !.frozen = f]
  <2>1. b \in B
    BY <1>0
  <2>2. next \in B /\ next.last_heartbeat_tick = b.last_heartbeat_tick /\ next.answer = a
    BY <2>1
  <2>3. boundary' = [boundary EXCEPT ![z] = next]
    BY <1>2
  <2> HIDE DEF next, B
  <2>4. boundary' \in [BoundaryZones -> B] /\ boundary'[z] = next
        /\ \A y \in BoundaryZones : y # z => boundary'[y] = boundary[y]
    BY <2>2, <2>3, <1>0
  <2>5. \A y \in BoundaryZones : boundary'[y].last_heartbeat_tick = boundary[y].last_heartbeat_tick
    BY <2>2, <2>4
  <2>6. \A y \in BoundaryZones : is_partitioned(y)' = is_partitioned(y)
    BY <1>2, <2>5 DEF is_partitioned
  <2>7. \A y \in BoundaryZones : boundary'[y].answer = "Ok" => ~ is_partitioned(y)'
    BY <1>0, <1>2, <2>2, <2>4, <2>6
  <2> QED BY <1>0, <1>2, <2>4, <2>5, <2>7 DEF BoundaryInv, B
<1>3. ASSUME NEW z \in BoundaryZones, validate_migration(z) PROVE BoundaryInv'
  <2> DEFINE a == CASE is_partitioned(z) -> "PartitionSevered"
                    [] ~ is_partitioned(z) /\ ~ is_valid(z) -> "LeaseExpired"
                    [] OTHER -> "Ok"
             f == boundary[z].frozen
  <2>1. a \in {"none", "Ok", "LeaseExpired", "PartitionSevered"} /\ (a = "Ok" => ~ is_partitioned(z))
        /\ f \in BOOLEAN
    BY <1>0
  <2>2. boundary' = [boundary EXCEPT ![z] = [@ EXCEPT !.answer = a, !.frozen = f]]
        /\ UNCHANGED <<boundaryTick, linkUp, cutAt>>
    <3>1. boundary' = [boundary EXCEPT ![z].answer = a] /\ UNCHANGED <<boundaryTick, linkUp, cutAt>>
      BY <1>3 DEF validate_migration
    <3> HIDE DEF a
    <3> QED BY <3>1, <1>0
  <2> HIDE DEF a, f
  <2> QED BY <1>2, <2>1, <2>2
<1>4. ASSUME NEW z \in BoundaryZones, resolve_partition_rollback(z) PROVE BoundaryInv'
  <2> DEFINE f == is_partitioned(z)
             a == "none"
  <2>1. a \in {"none", "Ok", "LeaseExpired", "PartitionSevered"} /\ (a = "Ok" => ~ is_partitioned(z))
        /\ f \in BOOLEAN
    BY DEF is_partitioned
  <2>2. boundary' = [boundary EXCEPT ![z] = [@ EXCEPT !.answer = a, !.frozen = f]]
        /\ UNCHANGED <<boundaryTick, linkUp, cutAt>>
    <3>1. boundary' = [boundary EXCEPT ![z].frozen = f, ![z].answer = "none"]
          /\ UNCHANGED <<boundaryTick, linkUp, cutAt>>
      BY <1>4 DEF resolve_partition_rollback
    <3> HIDE DEF f
    <3> QED BY <3>1, <1>0
  <2> HIDE DEF a, f
  <2> QED BY <1>2, <2>1, <2>2
<1>5. ASSUME BoundaryTicks PROVE BoundaryInv'
  <2>1. /\ boundaryTick' = boundaryTick + 1 /\ linkUp' = linkUp /\ cutAt' = cutAt
        /\ boundary' = [z \in BoundaryZones |-> [boundary[z] EXCEPT !.answer = "none"]]
    BY <1>5 DEF BoundaryTicks
  <2>2. \A z \in BoundaryZones : boundary'[z] = [boundary[z] EXCEPT !.answer = "none"]
    BY <2>1
  <2>3. \A z \in BoundaryZones : boundary[z] \in B
    BY <1>0
  <2>4. \A z \in BoundaryZones :
            /\ boundary'[z] \in B /\ boundary'[z].answer = "none"
            /\ boundary'[z].last_heartbeat_tick = boundary[z].last_heartbeat_tick
    BY <2>2, <2>3
  <2>5. boundary' \in [BoundaryZones -> B]
    <3> HIDE DEF B
    <3> QED BY <2>1, <2>4
  <2>6. \A z \in BoundaryZones : boundary[z].last_heartbeat_tick \in Nat
    BY <2>3
  <2> HIDE DEF B
  <2> QED BY <1>0, <2>1, <2>4, <2>5, <2>6 DEF BoundaryInv, B
<1>6. ASSUME LinkChanges PROVE BoundaryInv'
  <2>1. /\ boundaryTick' = boundaryTick /\ boundary' = boundary /\ linkUp' = ~ linkUp
        /\ cutAt' = IF linkUp THEN boundaryTick ELSE cutAt
    BY <1>6 DEF LinkChanges
  <2>2. \A z \in BoundaryZones : is_partitioned(z)' = is_partitioned(z)
    BY <2>1 DEF is_partitioned
  <2> QED BY <1>0, <2>1, <2>2 DEF BoundaryInv
<1>7. CASE UNCHANGED boundaryVars
  BY <1>7 DEF BoundaryInv, boundaryVars, is_partitioned
<1> QED BY <1>1, <1>3, <1>4, <1>5, <1>6, <1>7 DEF BoundaryNext

\* Once the timeout has gone by since the cut both zones know of it
\* (partition.rs).
LEMMA BoundarySuffices == BoundaryInv => SplitBrainAvoided
<1> SUFFICES ASSUME BoundaryInv, ~ linkUp, boundaryTick > cutAt + PARTITION_TIMEOUT,
                    NEW z \in BoundaryZones
             PROVE  boundary[z].answer # "Ok" /\ is_partitioned(z)
  BY DEF SplitBrainAvoided
<1>1. /\ boundaryTick \in Nat /\ cutAt \in Nat /\ boundary[z].last_heartbeat_tick \in Nat
      /\ boundary[z].last_heartbeat_tick <= cutAt
      /\ boundary[z].answer = "Ok" => ~ is_partitioned(z)
  BY DEF BoundaryInv
<1>2. is_partitioned(z)
  BY <1>1, BoundaryLimits DEF is_partitioned, Saturating
<1> QED BY <1>1, <1>2

-------------------------------------------------------------------------------
(* -------------------------- the map of the sectors ------------------------ *)

SectorMetas == [shard_id : Shards, entity_count : Nat]
MetricsOf == [active_sectors : Nat, total_entities : Nat]
ManagersOf(D) == [sectors : [D -> SectorMetas], shards : [Shards -> MetricsOf], background : Shards]

OwnSectors(m, h) == {s \in DOMAIN m.sectors : m.sectors[s].shard_id = h}
CountsIn(m) == [s \in DOMAIN m.sectors |-> m.sectors[s].entity_count]

(* Each shard's account is the sum over its sectors. *)
ExactMap(m) ==
    \A h \in Shards :
        /\ m.shards[h].active_sectors = Cardinality(OwnSectors(m, h))
        /\ m.shards[h].total_entities = SumFunctionOnSet(CountsIn(m), OwnSectors(m, h))

ExactManagers(D) == {m \in ManagersOf(D) : ExactMap(m)}

\* A record is its fields.
LEMMA ManagerFields ==
    ASSUME NEW D, NEW m \in ManagersOf(D)
    PROVE  /\ m = [sectors |-> m.sectors, shards |-> m.shards, background |-> m.background]
           /\ m.sectors \in [D -> SectorMetas] /\ DOMAIN m.sectors = D
           /\ m.shards \in [Shards -> MetricsOf] /\ m.background \in Shards
           /\ \A s \in D : /\ m.sectors[s].shard_id \in Shards /\ m.sectors[s].entity_count \in Nat
                           /\ m.sectors[s] = [shard_id |-> m.sectors[s].shard_id,
                                              entity_count |-> m.sectors[s].entity_count]
           /\ \A h \in Shards : /\ m.shards[h].active_sectors \in Nat
                                /\ m.shards[h].total_entities \in Nat
                                /\ m.shards[h] = [active_sectors |-> m.shards[h].active_sectors,
                                                  total_entities |-> m.shards[h].total_entities]
<1>1. /\ m = [sectors |-> m.sectors, shards |-> m.shards, background |-> m.background]
      /\ m.sectors \in [D -> SectorMetas]
      /\ m.shards \in [Shards -> MetricsOf] /\ m.background \in Shards
  BY DEF ManagersOf
<1>2. \A s \in D : m.sectors[s] \in SectorMetas
  BY <1>1
<1>3. \A h \in Shards : m.shards[h] \in MetricsOf
  BY <1>1
<1>4. \A x \in SectorMetas : /\ x.shard_id \in Shards /\ x.entity_count \in Nat
                             /\ x = [shard_id |-> x.shard_id, entity_count |-> x.entity_count]
  BY DEF SectorMetas
<1>5. \A x \in MetricsOf : /\ x.active_sectors \in Nat /\ x.total_entities \in Nat
                           /\ x = [active_sectors |-> x.active_sectors,
                                   total_entities |-> x.total_entities]
  BY DEF MetricsOf
<1>6. DOMAIN m.sectors = D
  BY <1>1
<1> QED BY <1>1, <1>2, <1>3, <1>4, <1>5, <1>6

\* The counts are a function to sum, and what a shard has is a finite set.
LEMMA Countable ==
    ASSUME NEW D, IsFiniteSet(D), NEW m \in ManagersOf(D)
    PROVE  /\ CountsIn(m) \in [D -> Int] /\ \A s \in D : CountsIn(m)[s] = m.sectors[s].entity_count
           /\ \A h : OwnSectors(m, h) \in SUBSET D /\ IsFiniteSet(OwnSectors(m, h))
           /\ \A h : \A s \in D : s \in OwnSectors(m, h) <=> m.sectors[s].shard_id = h
<1>1. DOMAIN m.sectors = D /\ \A s \in D : m.sectors[s].entity_count \in Nat
  BY ManagerFields
<1>2. CountsIn(m) = [s \in D |-> m.sectors[s].entity_count]
  BY <1>1 DEF CountsIn
<1>3. \A h : OwnSectors(m, h) \in SUBSET D
  BY <1>1 DEF OwnSectors
<1>4. \A h : IsFiniteSet(OwnSectors(m, h))
  BY <1>3, FS_Subset
<1>5. \A h : \A s \in D : s \in OwnSectors(m, h) <=> m.sectors[s].shard_id = h
  BY <1>1 DEF OwnSectors
<1>6. CountsIn(m) \in [D -> Int] /\ \A s \in D : CountsIn(m)[s] = m.sectors[s].entity_count
  BY <1>1, <1>2
<1> QED BY <1>3, <1>4, <1>5, <1>6

\* A sector takes its entities along, and both accounts stay exact
\* (adaptive_shard.rs, assign_sector and the two moves of evaluate_rebalance).
LEMMA ReassignedExactly ==
    ASSUME NEW D, IsFiniteSet(D), NEW m \in ExactManagers(D), NEW s \in D, NEW to \in Shards
    PROVE  /\ Reassigned(m, s, to) \in ExactManagers(D)
           /\ Reassigned(m, s, to).background = m.background
           /\ Reassigned(m, s, to).sectors =
                  [m.sectors EXCEPT ![s] = [shard_id |-> to,
                                            entity_count |-> m.sectors[s].entity_count]]
<1> DEFINE from == m.sectors[s].shard_id
           count == m.sectors[s].entity_count
           r == Reassigned(m, s, to)
           left == [active_sectors |-> Saturating(m.shards[from].active_sectors, 1),
                    total_entities |-> Saturating(m.shards[from].total_entities, count)]
           met == [active_sectors |-> m.shards[to].active_sectors + 1,
                   total_entities |-> m.shards[to].total_entities + count]
           moved == [shard_id |-> to, entity_count |-> count]
<1>0. m \in ManagersOf(D) /\ ExactMap(m)
  BY DEF ExactManagers
<1>1. /\ m = [sectors |-> m.sectors, shards |-> m.shards, background |-> m.background]
      /\ m.sectors \in [D -> SectorMetas] /\ DOMAIN m.sectors = D
      /\ m.shards \in [Shards -> MetricsOf] /\ m.background \in Shards
      /\ from \in Shards /\ count \in Nat
      /\ m.sectors[s] = [shard_id |-> from, entity_count |-> count]
      /\ \A h \in Shards : /\ m.shards[h].active_sectors \in Nat
                           /\ m.shards[h].total_entities \in Nat
  BY <1>0, ManagerFields
<1>2. CASE from = to
  <2>1. r = m
    BY <1>2 DEF Reassigned
  <2>2. m.sectors = [m.sectors EXCEPT ![s] = moved]
    <3>1. m.sectors[s] = moved
      BY <1>1, <1>2
    <3> HIDE DEF moved
    <3> QED BY <1>1, <3>1
  <2> QED BY <2>1, <2>2
<1>3. CASE from # to
  <2> DEFINE sec == [m.sectors EXCEPT ![s] = moved]
             acc == [m.shards EXCEPT ![from] = left, ![to] = met]
  <2>1. r = [sectors |-> sec, shards |-> acc, background |-> m.background]
    <3>1. r = [m EXCEPT !.sectors[s].shard_id = to,
                       !.shards[from] = [active_sectors |-> Saturating(@.active_sectors, 1),
                                         total_entities |-> Saturating(@.total_entities, count)],
                       !.shards[to] = [active_sectors |-> @.active_sectors + 1,
                                       total_entities |-> @.total_entities + count]]
      BY <1>3 DEF Reassigned
    <3>2. [m.sectors EXCEPT ![s].shard_id = to] = sec
      <4>1. [m.sectors[s] EXCEPT !.shard_id = to] = moved
        <5> HIDE DEF from, count
        <5> QED BY <1>1
      <4> HIDE DEF moved
      <4> QED BY <4>1
    <3>3. r = [sectors |-> [m.sectors EXCEPT ![s].shard_id = to], shards |-> acc,
               background |-> m.background]
      <4>1. [m.shards EXCEPT ![from] = left][to] = m.shards[to]
        BY <1>1, <1>3
      <4> HIDE DEF from, count, r
      <4> QED BY <1>1, <1>3, <3>1, <4>1
    <3> HIDE DEF r, sec, acc
    <3> QED BY <3>2, <3>3
  <2>2. left \in MetricsOf /\ met \in MetricsOf /\ moved \in SectorMetas
    <3> HIDE DEF from, count
    <3> QED BY <1>1 DEF MetricsOf, SectorMetas, Saturating
  <2>3. sec \in [D -> SectorMetas] /\ acc \in [Shards -> MetricsOf]
        /\ sec[s] = moved /\ (\A x \in D : x # s => sec[x] = m.sectors[x])
        /\ acc[from] = left /\ acc[to] = met
        /\ \A h \in Shards : h # from /\ h # to => acc[h] = m.shards[h]
    <3> HIDE DEF from, count, moved, left, met
    <3> QED BY <1>1, <1>3, <2>2
  <2> HIDE DEF sec, acc
  <2>4. r \in ManagersOf(D) /\ r.background = m.background /\ r.sectors = sec /\ r.shards = acc
    BY <1>1, <2>1, <2>3 DEF ManagersOf
  <2> DEFINE f == CountsIn(m)
  <2>5. f \in [D -> Int] /\ f[s] = count /\ CountsIn(r) = f
    <3>1. \A x \in D : sec[x].entity_count = m.sectors[x].entity_count
      <4>1. moved.entity_count = count
        OBVIOUS
      <4> HIDE DEF moved
      <4> QED BY <2>3, <4>1
    <3>2. DOMAIN r.sectors = D
      BY <2>3, <2>4
    <3>3. CountsIn(r) = [x \in D |-> m.sectors[x].entity_count]
      <4> HIDE DEF r
      <4> QED BY <2>4, <3>1, <3>2 DEF CountsIn
    <3>4. f = [x \in D |-> m.sectors[x].entity_count]
      BY <1>1 DEF CountsIn
    <3> HIDE DEF r, f
    <3> QED BY <3>3, <3>4, <1>0, Countable DEF f
  <2> DEFINE a == OwnSectors(m, from)  b == OwnSectors(m, to)
  <2>6. /\ OwnSectors(r, from) = a \ {s} /\ OwnSectors(r, to) = b \union {s} /\ s \in a /\ s \in D \ b
        /\ \A h \in Shards : h # from /\ h # to => OwnSectors(r, h) = OwnSectors(m, h)
    <3>1. \A h : OwnSectors(r, h) = {x \in D : sec[x].shard_id = h}
      <4>1. DOMAIN sec = D
        BY <2>3
      <4> HIDE DEF r
      <4> QED BY <2>4, <4>1 DEF OwnSectors
    <3>2. \A h : OwnSectors(m, h) = {x \in D : m.sectors[x].shard_id = h}
      BY <1>1 DEF OwnSectors
    <3>3. sec[s].shard_id = to /\ m.sectors[s].shard_id = from
          /\ \A x \in D : x # s => sec[x].shard_id = m.sectors[x].shard_id
      <4>1. moved.shard_id = to
        OBVIOUS
      <4> HIDE DEF moved
      <4> QED BY <2>3, <4>1
    <3>4. from # to
      BY <1>3
    <3> HIDE DEF r, from
    <3>5. OwnSectors(r, from) = a \ {s}
      BY <3>1, <3>2, <3>3, <3>4
    <3>6. OwnSectors(r, to) = b \union {s}
      BY <3>1, <3>2, <3>3
    <3>7. s \in a /\ s \in D \ b
      BY <3>2, <3>3, <3>4
    <3>8. \A h \in Shards : h # from /\ h # to => OwnSectors(r, h) = OwnSectors(m, h)
      BY <3>1, <3>2, <3>3
    <3> QED BY <3>5, <3>6, <3>7, <3>8
  <2>7. a \in SUBSET D /\ IsFiniteSet(a) /\ b \in SUBSET D /\ IsFiniteSet(b)
    BY <1>0, Countable
  <2> HIDE DEF a, b, f, r
  <2>8. /\ SumFunctionOnSet(f, a) = f[s] + SumFunctionOnSet(f, a \ {s})
        /\ SumFunctionOnSet(f, a \ {s}) \in Int
    BY <2>5, <2>6, <2>7, SumWithout
  <2>9. SumFunctionOnSet(f, b \union {s}) = SumFunctionOnSet(f, b) + f[s]
    BY <2>5, <2>6, <2>7, SumWith
  <2>10. SumFunctionOnSet(f, a \ {s}) >= 0
    <3> DEFINE c == a \ {s}
    <3>1. c \in SUBSET D /\ IsFiniteSet(c)
      BY <2>7, FS_Subset
    <3>2. \A x \in c : f[x] >= 0
      <4>1. \A x \in D : f[x] = m.sectors[x].entity_count /\ m.sectors[x].entity_count \in Nat
        <5>1. \A x \in D : CountsIn(m)[x] = m.sectors[x].entity_count
          BY <1>0, Countable
        <5>2. \A x \in D : m.sectors[x].entity_count \in Nat
          BY <1>0, ManagerFields
        <5> QED BY <5>1, <5>2 DEF f
      <4> QED BY <3>1, <4>1
    <3> HIDE DEF c
    <3>3. SumFunctionOnSet(f, c) \in Nat
      BY <2>5, <3>1, <3>2, SumOfNats
    <3> QED BY <3>3 DEF c
  <2>11. Cardinality(a \ {s}) = Cardinality(a) - 1 /\ Cardinality(a) \in Nat
         /\ Cardinality(b \union {s}) = Cardinality(b) + 1 /\ Cardinality(a \ {s}) \in Nat
    <3>1. IsFiniteSet(a \ {s})
      BY <2>7, FS_Subset
    <3> QED BY <2>6, <2>7, <3>1, FS_RemoveElement, FS_AddElement, FS_CardinalityType
  <2>12. /\ m.shards[from].active_sectors = Cardinality(a)
         /\ m.shards[from].total_entities = SumFunctionOnSet(f, a)
         /\ m.shards[to].active_sectors = Cardinality(b)
         /\ m.shards[to].total_entities = SumFunctionOnSet(f, b)
    BY <1>0, <1>1 DEF ExactMap, a, b, f
  <2>13. left.active_sectors = Cardinality(a \ {s}) /\ left.total_entities = SumFunctionOnSet(f, a \ {s})
    <3> DEFINE x == m.shards[from].active_sectors  y == m.shards[from].total_entities
               p == Cardinality(a \ {s})  q == SumFunctionOnSet(f, a \ {s})
    <3>1. x \in Nat /\ x - 1 = p /\ p \in Nat
      BY <2>11, <2>12
    <3>2. y \in Nat /\ y = count + q /\ q \in Nat /\ count \in Nat
      <4> HIDE DEF count, from
      <4> QED BY <1>1, <2>5, <2>8, <2>10, <2>12
    <3>3. left.active_sectors = Saturating(x, 1) /\ left.total_entities = Saturating(y, count)
      OBVIOUS
    <3> HIDE DEF x, y, p, q, count, left
    <3>4. Saturating(x, 1) = p
      BY <3>1 DEF Saturating
    <3>5. Saturating(y, count) = q
      BY <3>2 DEF Saturating
    <3>6. left.active_sectors = p /\ left.total_entities = q
      BY <3>3, <3>4, <3>5
    <3> QED BY <3>6 DEF p, q
  <2>14. met.active_sectors = Cardinality(b \union {s})
         /\ met.total_entities = SumFunctionOnSet(f, b \union {s})
    <3> HIDE DEF count
    <3> QED BY <2>5, <2>9, <2>11, <2>12
  <2> HIDE DEF left, met, from, moved
  <2>15. ExactMap(r)
    <3> SUFFICES ASSUME NEW h \in Shards
                 PROVE  /\ acc[h].active_sectors = Cardinality(OwnSectors(r, h))
                        /\ acc[h].total_entities = SumFunctionOnSet(f, OwnSectors(r, h))
      BY <2>4, <2>5 DEF ExactMap
    <3>1. CASE h = from
      BY <3>1, <2>3, <2>6, <2>13
    <3>2. CASE h = to
      BY <3>2, <2>3, <2>6, <2>14
    <3>3. CASE h # from /\ h # to
      BY <3>3, <2>3, <2>6, <1>0 DEF ExactMap, f
    <3> QED BY <3>1, <3>2, <3>3
  <2>16. r \in ExactManagers(D)
    BY <2>4, <2>15 DEF ExactManagers
  <2> QED BY <2>4, <2>16 DEF r, sec, moved, count
<1> HIDE DEF r
<1> QED BY <1>2, <1>3 DEF r

\* The count of a sector changes, and its shard's account by as much
\* (adaptive_shard.rs, update_sector_entity_count).
LEMMA CountedExactly ==
    ASSUME NEW D, IsFiniteSet(D), NEW m \in ExactManagers(D), NEW s \in D, NEW count \in Nat
    PROVE  update_sector_entity_count(m, s, count) \in ExactManagers(D)
<1> DEFINE holder == m.sectors[s].shard_id
           old == m.sectors[s].entity_count
           r == update_sector_entity_count(m, s, count)
           meta == [shard_id |-> holder, entity_count |-> count]
           total == Saturating(m.shards[holder].total_entities, old) + count
           account == [active_sectors |-> m.shards[holder].active_sectors, total_entities |-> total]
           sec == [m.sectors EXCEPT ![s] = meta]
           acc == [m.shards EXCEPT ![holder] = account]
           f == CountsIn(m)  g == CountsIn(r)
<1>0. m \in ManagersOf(D) /\ ExactMap(m)
  BY DEF ExactManagers
<1>1. /\ m = [sectors |-> m.sectors, shards |-> m.shards, background |-> m.background]
      /\ m.sectors \in [D -> SectorMetas] /\ DOMAIN m.sectors = D
      /\ m.shards \in [Shards -> MetricsOf] /\ m.background \in Shards
      /\ holder \in Shards /\ old \in Nat
      /\ m.sectors[s] = [shard_id |-> holder, entity_count |-> old]
      /\ m.shards[holder] = [active_sectors |-> m.shards[holder].active_sectors,
                         total_entities |-> m.shards[holder].total_entities]
      /\ \A h \in Shards : /\ m.shards[h].active_sectors \in Nat
                           /\ m.shards[h].total_entities \in Nat
  <2>1. /\ m = [sectors |-> m.sectors, shards |-> m.shards, background |-> m.background]
        /\ m.sectors \in [D -> SectorMetas] /\ DOMAIN m.sectors = D
        /\ m.shards \in [Shards -> MetricsOf] /\ m.background \in Shards
    BY <1>0, ManagerFields
  <2>2. /\ holder \in Shards /\ old \in Nat
        /\ m.sectors[s] = [shard_id |-> holder, entity_count |-> old]
    BY <1>0, ManagerFields
  <2>3. \A h \in Shards : /\ m.shards[h].active_sectors \in Nat
                          /\ m.shards[h].total_entities \in Nat
                          /\ m.shards[h] = [active_sectors |-> m.shards[h].active_sectors,
                                            total_entities |-> m.shards[h].total_entities]
    BY <1>0, ManagerFields
  <2> HIDE DEF holder, old
  <2> QED BY <2>1, <2>2, <2>3
<1>2. r = [sectors |-> sec, shards |-> acc, background |-> m.background]
  <2>1. r = [m EXCEPT !.sectors[s].entity_count = count, !.shards[holder].total_entities = total]
    BY DEF update_sector_entity_count
  <2>2. [m.sectors EXCEPT ![s].entity_count = count] = sec
    <3>1. [m.sectors[s] EXCEPT !.entity_count = count] = meta
      <4> HIDE DEF holder, old
      <4> QED BY <1>1
    <3> HIDE DEF meta
    <3> QED BY <3>1
  <2>3. [m.shards EXCEPT ![holder].total_entities = total] = acc
    <3>1. [m.shards[holder] EXCEPT !.total_entities = total] = account
      <4> DEFINE x == m.shards[holder].active_sectors  y == m.shards[holder].total_entities  z == m.shards[holder]
      <4>1. z = [active_sectors |-> x, total_entities |-> y]
        BY <1>1
      <4> HIDE DEF total, x, y, z
      <4>2. [z EXCEPT !.total_entities = total] = [active_sectors |-> x, total_entities |-> total]
        BY <4>1
      <4> QED BY <4>2 DEF x, z
    <3> HIDE DEF account, total, holder
    <3> QED BY <3>1
  <2>4. r = [sectors |-> [m.sectors EXCEPT ![s].entity_count = count],
             shards |-> [m.shards EXCEPT ![holder].total_entities = total],
             background |-> m.background]
    <3> HIDE DEF r, holder, total
    <3> QED BY <1>1, <2>1
  <2> HIDE DEF r, sec, acc
  <2> QED BY <2>2, <2>3, <2>4
<1>3. total \in Nat
  <2> DEFINE y == m.shards[holder].total_entities
  <2>1. y \in Nat /\ old \in Nat
    BY <1>1
  <2> HIDE DEF y, old
  <2>2. Saturating(y, old) \in Nat
    BY <2>1 DEF Saturating
  <2> QED BY <2>2 DEF y
<1>4. meta \in SectorMetas /\ account \in MetricsOf
  <2> HIDE DEF total, holder
  <2> QED BY <1>1, <1>3 DEF SectorMetas, MetricsOf
<1> HIDE DEF meta, account
<1>5. /\ sec \in [D -> SectorMetas] /\ acc \in [Shards -> MetricsOf]
      /\ sec[s] = meta /\ \A x \in D : x # s => sec[x] = m.sectors[x]
      /\ acc[holder] = account /\ \A h \in Shards : h # holder => acc[h] = m.shards[h]
  <2> HIDE DEF holder, old
  <2> QED BY <1>1, <1>4
<1> HIDE DEF sec, acc
<1>6. r \in ManagersOf(D) /\ r.sectors = sec /\ r.shards = acc
  BY <1>1, <1>2, <1>5 DEF ManagersOf
<1>7. \A h : OwnSectors(r, h) = OwnSectors(m, h)
  <2>1. \A h : OwnSectors(r, h) = {x \in D : sec[x].shard_id = h}
    <3>1. DOMAIN sec = D
      BY <1>5
    <3> HIDE DEF r
    <3> QED BY <1>6, <3>1 DEF OwnSectors
  <2>2. \A x \in D : sec[x].shard_id = m.sectors[x].shard_id
    <3>1. meta.shard_id = m.sectors[s].shard_id
      BY DEF meta
    <3> QED BY <1>5, <3>1
  <2>3. \A h : OwnSectors(m, h) = {x \in D : m.sectors[x].shard_id = h}
    BY <1>1 DEF OwnSectors
  <2> HIDE DEF r
  <2> SUFFICES ASSUME NEW h PROVE OwnSectors(r, h) = OwnSectors(m, h)
    OBVIOUS
  <2>4. {x \in D : sec[x].shard_id = h} = {x \in D : m.sectors[x].shard_id = h}
    BY <2>2
  <2> QED BY <2>1, <2>3, <2>4
<1>8. /\ f \in [D -> Int] /\ g \in [D -> Int] /\ f[s] = old /\ g[s] = count
      /\ \A x \in D : x # s => g[x] = f[x]
  <2>1. f \in [D -> Int] /\ \A x \in D : f[x] = m.sectors[x].entity_count
    BY <1>0, Countable
  <2>2. g \in [D -> Int] /\ \A x \in D : g[x] = r.sectors[x].entity_count
    <3> HIDE DEF r
    <3> QED BY <1>6, Countable
  <2>3. meta.entity_count = count
    BY DEF meta
  <2> HIDE DEF r, f, g
  <2> QED BY <2>1, <2>2, <2>3, <1>5, <1>6
<1> DEFINE a == OwnSectors(m, holder)
<1>9. a \in SUBSET D /\ IsFiniteSet(a) /\ s \in a
      /\ \A h : h # holder => OwnSectors(m, h) \in SUBSET (D \intersect D) /\ s \notin OwnSectors(m, h)
                          /\ IsFiniteSet(OwnSectors(m, h))
  BY <1>0, Countable
<1>10. m.shards[holder].total_entities = SumFunctionOnSet(f, a)
  BY <1>0, <1>1 DEF ExactMap
<1> HIDE DEF r, f, g, a
<1>11. SumFunctionOnSet(g, a) = SumFunctionOnSet(f, a) - old + count
  <2>1. \A y \in a \ {s} : g[y] = f[y]
    BY <1>8, <1>9
  <2>2. SumFunctionOnSet(g, a) = SumFunctionOnSet(f, a) - f[s] + g[s]
    BY <1>8, <1>9, <2>1, SumChanged
  <2> QED BY <2>2, <1>8
<1>12. SumFunctionOnSet(f, a) >= old
  <2> DEFINE c == a \ {s}
  <2>1. c \in SUBSET D /\ IsFiniteSet(c)
    BY <1>9, FS_Subset
  <2>2. \A x \in c : f[x] >= 0
    <3>1. \A x \in D : CountsIn(m)[x] = m.sectors[x].entity_count
      BY <1>0, Countable
    <3>2. \A x \in D : m.sectors[x].entity_count \in Nat
      BY <1>0, ManagerFields
    <3> QED BY <2>1, <3>1, <3>2 DEF f
  <2> HIDE DEF c
  <2>3. SumFunctionOnSet(f, c) \in Nat
    BY <1>8, <2>1, <2>2, SumOfNats
  <2>4. SumFunctionOnSet(f, a) = f[s] + SumFunctionOnSet(f, a \ {s})
    BY <1>8, <1>9, SumWithout
  <2>5. SumFunctionOnSet(f, a) = old + SumFunctionOnSet(f, c)
    BY <2>4, <1>8 DEF c
  <2> HIDE DEF old
  <2> QED BY <1>1, <2>3, <2>5
<1>13. account.active_sectors = Cardinality(a) /\ account.total_entities = SumFunctionOnSet(g, a)
  <2>1. account.active_sectors = Cardinality(a)
    BY <1>0, <1>1 DEF account, ExactMap, a
  <2>2. total = SumFunctionOnSet(g, a)
    <3> DEFINE y == m.shards[holder].total_entities  u == SumFunctionOnSet(g, a)
    <3>1. y \in Nat /\ old \in Nat /\ y >= old /\ u = y - old + count
      BY <1>1, <1>10, <1>11, <1>12
    <3>2. total = Saturating(y, old) + count
      OBVIOUS
    <3> HIDE DEF y, old, u, total
    <3>3. Saturating(y, old) = y - old
      BY <3>1 DEF Saturating
    <3> QED BY <3>1, <3>2, <3>3 DEF u
  <2> HIDE DEF total
  <2> QED BY <2>1, <2>2 DEF account
<1>14. ExactMap(r)
  <2> SUFFICES ASSUME NEW h \in Shards
               PROVE  /\ acc[h].active_sectors = Cardinality(OwnSectors(m, h))
                      /\ acc[h].total_entities = SumFunctionOnSet(g, OwnSectors(m, h))
    BY <1>6, <1>7 DEF ExactMap, g
  <2>1. CASE h = holder
    BY <2>1, <1>5, <1>13 DEF a
  <2>2. CASE h # holder
    <3> DEFINE o == OwnSectors(m, h)
    <3>1. o \in SUBSET (D \intersect D) /\ IsFiniteSet(o) /\ s \notin o
      BY <2>2, <1>9
    <3>2. acc[h] = m.shards[h] /\ m.shards[h].active_sectors = Cardinality(o)
          /\ m.shards[h].total_entities = SumFunctionOnSet(f, o)
      BY <2>2, <1>0, <1>5 DEF ExactMap, f
    <3> HIDE DEF o
    <3>3. \A x \in o : f[x] = g[x]
      BY <3>1, <1>8
    <3>4. SumFunctionOnSet(f, o) = SumFunctionOnSet(g, o)
      BY <3>1, <3>3, <1>8, SumSame
    <3>5. acc[h].active_sectors = Cardinality(o) /\ acc[h].total_entities = SumFunctionOnSet(g, o)
      BY <3>2, <3>4
    <3> QED BY <3>5 DEF o
  <2> QED BY <2>1, <2>2
<1> QED BY <1>6, <1>14 DEF ExactManagers, r

\* A sector that was in no shard comes empty.
LEMMA AddedExactly ==
    ASSUME NEW D, IsFiniteSet(D), NEW m \in ExactManagers(D), NEW s, s \notin D, NEW h0 \in Shards,
           NEW r, r = [sectors |-> With(m.sectors, s, [shard_id |-> h0, entity_count |-> 0]),
                       shards |-> [m.shards EXCEPT ![h0] =
                           [active_sectors |-> m.shards[h0].active_sectors + 1,
                            total_entities |-> m.shards[h0].total_entities]],
                       background |-> m.background]
    PROVE  r \in ExactManagers(D \union {s})
<1> DEFINE E == D \union {s}
           meta == [shard_id |-> h0, entity_count |-> 0]
           x0 == m.shards[h0].active_sectors  y0 == m.shards[h0].total_entities
           account == [active_sectors |-> x0 + 1, total_entities |-> y0]
           sec == With(m.sectors, s, meta)
           acc == [m.shards EXCEPT ![h0] = account]
           f == CountsIn(m)  g == CountsIn(r)
<1>0. m \in ManagersOf(D) /\ ExactMap(m)
  BY DEF ExactManagers
<1>1. /\ m = [sectors |-> m.sectors, shards |-> m.shards, background |-> m.background]
      /\ m.sectors \in [D -> SectorMetas] /\ DOMAIN m.sectors = D
      /\ m.shards \in [Shards -> MetricsOf] /\ m.background \in Shards
      /\ m.shards[h0] = [active_sectors |-> x0, total_entities |-> y0]
      /\ x0 \in Nat /\ y0 \in Nat
  BY <1>0, ManagerFields
<1>2. r = [sectors |-> sec, shards |-> acc, background |-> m.background]
  OBVIOUS
<1>3. meta \in SectorMetas /\ account \in MetricsOf
  <2> HIDE DEF x0, y0
  <2> QED BY <1>1 DEF SectorMetas, MetricsOf
<1>4. /\ sec \in [E -> SectorMetas] /\ acc \in [Shards -> MetricsOf] /\ DOMAIN sec = E
      /\ sec[s] = meta /\ \A x \in D : sec[x] = m.sectors[x]
      /\ acc[h0] = account /\ \A h \in Shards : h # h0 => acc[h] = m.shards[h]
  <2> HIDE DEF meta, account
  <2> QED BY <1>1, <1>3 DEF With
<1> HIDE DEF sec, acc
<1>5. r \in ManagersOf(E) /\ r.sectors = sec /\ r.shards = acc
  <2> DEFINE q == [sectors |-> sec, shards |-> acc, background |-> m.background]
  <2>1. q \in ManagersOf(E) /\ q.sectors = sec /\ q.shards = acc
    <3> HIDE DEF E
    <3> QED BY <1>1, <1>4 DEF ManagersOf
  <2>2. r = q
    BY <1>2
  <2> HIDE DEF q
  <2> QED BY <2>1, <2>2
<1>6. IsFiniteSet(E) /\ D \in SUBSET E
  BY FS_AddElement
<1>7. /\ f \in [D -> Int] /\ g \in [E -> Int] /\ g[s] = 0 /\ \A x \in D : g[x] = f[x]
  <2>1. f \in [D -> Int] /\ \A x \in D : f[x] = m.sectors[x].entity_count
    BY <1>0, Countable
  <2>2. g \in [E -> Int] /\ \A x \in E : g[x] = sec[x].entity_count
    <3>1. CountsIn(r) \in [E -> Int] /\ \A x \in E : CountsIn(r)[x] = r.sectors[x].entity_count
      <4>1. IsFiniteSet(E) /\ r \in ManagersOf(E)
        BY <1>5, <1>6
      <4> HIDE DEF E
      <4> HIDE DEF f, g, meta, account
      <4> QED BY <4>1, Countable
    <3>2. \A x \in E : g[x] = sec[x].entity_count
      BY <3>1, <1>5
    <3> QED BY <3>1, <3>2
  <2>3. s \in E /\ meta.entity_count = 0
    OBVIOUS
  <2> HIDE DEF meta, f, g
  <2> QED BY <2>1, <2>2, <2>3, <1>4
<1>8. /\ OwnSectors(r, h0) = OwnSectors(m, h0) \union {s}
      /\ \A h : h # h0 => OwnSectors(r, h) = OwnSectors(m, h)
  <2>1. \A h : OwnSectors(r, h) = {x \in E : sec[x].shard_id = h}
    BY <1>4, <1>5 DEF OwnSectors
  <2>2. \A h : OwnSectors(m, h) = {x \in D : m.sectors[x].shard_id = h}
    BY <1>1 DEF OwnSectors
  <2>3. sec[s].shard_id = h0 /\ \A x \in D : sec[x].shard_id = m.sectors[x].shard_id
    <3>1. meta.shard_id = h0
      OBVIOUS
    <3> HIDE DEF meta
    <3> QED BY <3>1, <1>4
  <2>4. {x \in E : sec[x].shard_id = h0} = {x \in D : m.sectors[x].shard_id = h0} \union {s}
    BY <2>3
  <2>5. \A h : h # h0 => {x \in E : sec[x].shard_id = h} = {x \in D : m.sectors[x].shard_id = h}
    BY <2>3
  <2> QED BY <2>1, <2>2, <2>4, <2>5
<1> HIDE DEF f, g, meta
<1>9. ASSUME NEW h \in Shards
      PROVE  /\ OwnSectors(m, h) \in SUBSET D /\ IsFiniteSet(OwnSectors(m, h))
             /\ SumFunctionOnSet(g, OwnSectors(m, h)) = SumFunctionOnSet(f, OwnSectors(m, h))
             /\ m.shards[h].active_sectors = Cardinality(OwnSectors(m, h))
             /\ m.shards[h].total_entities = SumFunctionOnSet(f, OwnSectors(m, h))
  <2> DEFINE o == OwnSectors(m, h)
  <2>1. o \in SUBSET D /\ IsFiniteSet(o)
    BY <1>0, Countable
  <2>2. m.shards[h].active_sectors = Cardinality(o) /\ m.shards[h].total_entities = SumFunctionOnSet(f, o)
    BY <1>0 DEF ExactMap, f
  <2> HIDE DEF o
  <2>3. o \in SUBSET (E \intersect D) /\ \A x \in o : g[x] = f[x]
    BY <2>1, <1>6, <1>7
  <2>4. SumFunctionOnSet(g, o) = SumFunctionOnSet(f, o)
    <3> HIDE DEF E
    <3> QED BY <2>1, <2>3, <1>7, SumSame
  <2>5. /\ o \in SUBSET D /\ IsFiniteSet(o)
        /\ SumFunctionOnSet(g, o) = SumFunctionOnSet(f, o)
        /\ m.shards[h].active_sectors = Cardinality(o)
        /\ m.shards[h].total_entities = SumFunctionOnSet(f, o)
    BY <2>1, <2>2, <2>4
  <2> QED BY <2>5 DEF o
<1>10. ASSUME NEW h \in Shards
       PROVE  /\ acc[h].active_sectors = Cardinality(OwnSectors(r, h))
              /\ acc[h].total_entities = SumFunctionOnSet(g, OwnSectors(r, h))
  <2>1. CASE h # h0
    BY <2>1, <1>4, <1>8, <1>9
  <2>2. CASE h = h0
    <3> DEFINE b == OwnSectors(m, h0)
    <3>1. b \in SUBSET D /\ IsFiniteSet(b) /\ SumFunctionOnSet(g, b) = y0 /\ Cardinality(b) = x0
      BY <1>9
    <3> HIDE DEF b
    <3>2. s \in E \ b /\ b \in SUBSET E
      BY <3>1
    <3>3. SumFunctionOnSet(g, b \union {s}) = SumFunctionOnSet(g, b) + g[s]
      <4> HIDE DEF E
      <4> QED BY <3>1, <3>2, <1>7, SumWith
    <3>4. Cardinality(b \union {s}) = Cardinality(b) + 1
      BY <3>1, <3>2, FS_AddElement
    <3>5. account.active_sectors = x0 + 1 /\ account.total_entities = y0
      OBVIOUS
    <3>6. OwnSectors(r, h) = b \union {s}
      BY <1>8, <2>2 DEF b
    <3> HIDE DEF account, x0, y0
    <3>7. SumFunctionOnSet(g, b \union {s}) = y0
      BY <1>1, <1>7, <3>1, <3>3
    <3> QED BY <2>2, <1>4, <3>1, <3>4, <3>5, <3>6, <3>7
  <2> QED BY <2>1, <2>2
<1>11. ExactMap(r)
  BY <1>5, <1>10 DEF ExactMap, g
<1> QED BY <1>5, <1>11 DEF ExactManagers

\* A sector is put on a shard, a new one or a known one
\* (adaptive_shard.rs, assign_sector).
LEMMA AssignedExactly ==
    ASSUME NEW D, IsFiniteSet(D), NEW m \in ExactManagers(D), NEW s, NEW shard \in Nat
    PROVE  assign_sector(m, s, shard) \in ExactManagers(D) \union ExactManagers(D \union {s})
<1> DEFINE r == assign_sector(m, s, shard)
<1>0. m \in ManagersOf(D) /\ DOMAIN m.sectors = D
  BY ManagerFields DEF ExactManagers
<1>1. CASE shard >= ShardCount
  BY <1>1 DEF assign_sector
<1>2. ASSUME ~ (shard >= ShardCount) PROVE shard \in Shards
  BY <1>2, ContinentAssumption DEF Shards
<1>3. CASE ~ (shard >= ShardCount) /\ s \in D
  <2>1. r = Reassigned(m, s, shard)
    BY <1>0, <1>3 DEF assign_sector
  <2>2. Reassigned(m, s, shard) \in ExactManagers(D)
    BY <1>2, <1>3, ReassignedExactly
  <2> QED BY <2>1, <2>2
<1>4. CASE ~ (shard >= ShardCount) /\ s \notin D
  <2> DEFINE x0 == m.shards[shard].active_sectors  y0 == m.shards[shard].total_entities
             z == m.shards[shard]
             account == [active_sectors |-> x0 + 1, total_entities |-> y0]
             sec == With(m.sectors, s, [shard_id |-> shard, entity_count |-> 0])
             acc == [m.shards EXCEPT ![shard] = account]
             q == [sectors |-> sec, shards |-> acc, background |-> m.background]
  <2>1. r = [m EXCEPT !.sectors = sec, !.shards[shard].active_sectors = @ + 1]
    BY <1>0, <1>4 DEF assign_sector
  <2>2. /\ m = [sectors |-> m.sectors, shards |-> m.shards, background |-> m.background]
        /\ m.shards \in [Shards -> MetricsOf]
    BY <1>0, ManagerFields
  <2>3. shard \in Shards /\ z = [active_sectors |-> x0, total_entities |-> y0]
    BY <1>0, <1>2, <1>4, ManagerFields
  <2>4. [m.shards EXCEPT ![shard].active_sectors = @ + 1] = acc
    <3>1. [z EXCEPT !.active_sectors = @ + 1] = account
      <4>1. z.active_sectors = x0
        OBVIOUS
      <4> HIDE DEF z, x0, y0
      <4> QED BY <2>3, <4>1
    <3> HIDE DEF account
    <3> QED BY <3>1
  <2> HIDE DEF sec
  <2>5. r = [sectors |-> sec, shards |-> [m.shards EXCEPT ![shard].active_sectors = @ + 1],
             background |-> m.background]
    <3> HIDE DEF r
    <3> QED BY <2>1, <2>2
  <2>6. r = q
    <3> HIDE DEF r, acc
    <3> QED BY <2>4, <2>5
  <2>7. q \in ExactManagers(D \union {s})
    <3>1. q = [sectors |-> With(m.sectors, s, [shard_id |-> shard, entity_count |-> 0]),
               shards |-> [m.shards EXCEPT ![shard] =
                   [active_sectors |-> m.shards[shard].active_sectors + 1,
                    total_entities |-> m.shards[shard].total_entities]],
               background |-> m.background]
      BY DEF sec
    <3> HIDE DEF q
    <3> QED BY <3>1, <2>3, <1>4, AddedExactly
  <2> HIDE DEF r, q
  <2> QED BY <2>6, <2>7 DEF r
<1> QED BY <1>1, <1>3, <1>4

\* A worker other than the background is the least loaded, when there is one.
LEMMA LeastLoadedIs ==
    ASSUME NEW D, NEW m \in ManagersOf(D)
    PROVE  /\ LeastLoaded(m) \subseteq Shards \ {m.background}
           /\ ShardCount > 1 => LeastLoaded(m) # {}
<1> DEFINE others == Shards \ {m.background}
           load == [h \in Shards |-> m.shards[h].total_entities]
           least == {h \in others : \A k \in others : load[h] <= load[k]}
<1>0. /\ \A h \in Shards : load[h] \in Nat /\ h \in Nat
      /\ m.background \in Shards
  <2>1. \A h \in Shards : m.shards[h].total_entities \in Nat
    BY ManagerFields
  <2>2. m.background \in Shards
    BY ManagerFields
  <2> QED BY <2>1, <2>2, ContinentAssumption DEF Shards
<1>1. LeastLoaded(m) = IF others = {} THEN {} ELSE {Min(least)}
  <2>1. least = {h \in others : \A k \in others :
                     m.shards[h].total_entities <= m.shards[k].total_entities}
    OBVIOUS
  <2> HIDE DEF least
  <2> QED BY <2>1 DEF LeastLoaded
<1>2. ASSUME others # {} PROVE Min(least) \in others
  <2> DEFINE L == {load[h] : h \in others}
  <2>1. L \subseteq Nat /\ L # {}
    BY <1>0, <1>2
  <2>2. PICK x \in L : \A y \in L : x <= y
    <3> HIDE DEF L
    <3> QED BY <2>1, SmallestOf
  <2>3. PICK h \in others : x = load[h]
    BY <2>2
  <2>4. h \in least
    <3>1. \A k \in others : load[k] \in L
      OBVIOUS
    <3> HIDE DEF L, load
    <3> QED BY <2>2, <2>3, <3>1
  <2>5. least \subseteq Nat /\ least # {} /\ least \subseteq others
    BY <2>4, <1>0
  <2> HIDE DEF least
  <2>6. Min(least) \in least
    BY <2>5, MinOf
  <2> QED BY <2>5, <2>6
<1>3. ShardCount > 1 => others # {}
  <2> SUFFICES ASSUME ShardCount > 1 PROVE others # {}
    OBVIOUS
  <2>1. 0 \in Shards /\ 1 \in Shards
    BY ContinentAssumption DEF Shards
  <2> QED BY <2>1
<1> HIDE DEF others, least
<1> QED BY <1>1, <1>2, <1>3 DEF others

\* What a step of the two passes leaves of a map.
KeptBut(m, n, s) ==
    /\ n.background = m.background
    /\ \A x \in DOMAIN m.sectors : /\ n.sectors[x].entity_count = m.sectors[x].entity_count
                                   /\ x # s => n.sectors[x] = m.sectors[x]

\* A sector that goes to another shard keeps its count, and the others stay
\* (adaptive_shard.rs).
LEMMA ReassignedKeeps ==
    ASSUME NEW D, IsFiniteSet(D), NEW n \in ExactManagers(D), NEW s \in D, NEW to \in Shards
    PROVE  /\ KeptBut(n, Reassigned(n, s, to), s)
           /\ Reassigned(n, s, to).sectors[s].shard_id = to
<1> DEFINE r == Reassigned(n, s, to)
           meta == [shard_id |-> to, entity_count |-> n.sectors[s].entity_count]
<1>1. r.background = n.background /\ r.sectors = [n.sectors EXCEPT ![s] = meta]
  BY ReassignedExactly
<1>2. DOMAIN n.sectors = D
  BY ManagerFields DEF ExactManagers
<1>3. meta.shard_id = to /\ meta.entity_count = n.sectors[s].entity_count
  OBVIOUS
<1> HIDE DEF r, meta
<1>4. r.sectors[s] = meta /\ \A x \in D : x # s => r.sectors[x] = n.sectors[x]
  BY <1>1, <1>2
<1> QED BY <1>1, <1>2, <1>3, <1>4 DEF KeptBut, r

\* A candidate for merging goes to the background shard, another sector stays
\* (merge_wilderness_to_background).
LEMMA MergedStep ==
    ASSUME NEW D, IsFiniteSet(D), NEW m, NEW n \in ExactManagers(D), NEW s \in D
    PROVE  /\ Merged(m, n, s) \in ExactManagers(D) /\ KeptBut(n, Merged(m, n, s), s)
           /\ IsWilderness(m, s) => Merged(m, n, s).sectors[s].shard_id = n.background
           /\ ~ IsWilderness(m, s) => Merged(m, n, s) = n
<1>1. CASE IsWilderness(m, s)
  <2> DEFINE to == n.background
  <2>1. to \in Shards
    BY ManagerFields DEF ExactManagers
  <2>2. Merged(m, n, s) = Reassigned(n, s, to)
    BY <1>1 DEF Merged, merge_wilderness_to_background
  <2> HIDE DEF to
  <2>3. Reassigned(n, s, to) \in ExactManagers(D)
    BY <2>1, ReassignedExactly
  <2>4. KeptBut(n, Reassigned(n, s, to), s) /\ Reassigned(n, s, to).sectors[s].shard_id = to
    BY <2>1, ReassignedKeeps
  <2> QED BY <1>1, <2>2, <2>3, <2>4 DEF to
<1>2. CASE ~ IsWilderness(m, s)
  BY <1>2 DEF Merged, KeptBut
<1> QED BY <1>1, <1>2

\* A candidate for contraction leaves the background shard, another sector stays
\* (contract_hotspot_to_shard).
LEMMA ContractedStep ==
    ASSUME NEW D, IsFiniteSet(D), NEW m, NEW n \in ExactManagers(D), NEW s \in D
    PROVE  /\ Contracted(m, n, s) \in ExactManagers(D) /\ KeptBut(n, Contracted(m, n, s), s)
           /\ ~ IsHotspot(m, s) => Contracted(m, n, s) = n
           /\ IsHotspot(m, s) /\ ShardCount > 1 =>
                  Contracted(m, n, s).sectors[s].shard_id # n.background
<1>0. /\ LeastLoaded(n) \subseteq Shards \ {n.background}
      /\ ShardCount > 1 => LeastLoaded(n) # {}
  BY LeastLoadedIs DEF ExactManagers
<1>1. CASE IsHotspot(m, s) /\ LeastLoaded(n) # {}
  <2> DEFINE to == CHOOSE h \in LeastLoaded(n) : TRUE
  <2>1. to \in Shards \ {n.background}
    BY <1>0, <1>1
  <2>2. Contracted(m, n, s) = Reassigned(n, s, to)
    BY <1>1 DEF Contracted, contract_hotspot_to_shard
  <2> HIDE DEF to
  <2>3. Reassigned(n, s, to) \in ExactManagers(D)
    BY <2>1, ReassignedExactly
  <2>4. KeptBut(n, Reassigned(n, s, to), s) /\ Reassigned(n, s, to).sectors[s].shard_id = to
    BY <2>1, ReassignedKeeps
  <2> QED BY <1>1, <2>1, <2>2, <2>3, <2>4
<1>2. CASE ~ (IsHotspot(m, s) /\ LeastLoaded(n) # {})
  <2>1. Contracted(m, n, s) = n
    BY <1>2 DEF Contracted
  <2> QED BY <2>1, <1>0, <1>2 DEF KeptBut
<1> QED BY <1>1, <1>2

(* The passes, one sector after the other. *)
MergesInSteps(h, D, n, m, order) ==
    /\ h \in [0..n -> ExactManagers(D)]
    /\ h[0] = m /\ h[n] = merge_candidates(m, order)
    /\ \A k \in 1..n : h[k] = Merged(m, h[k - 1], order[k])
ContractsInSteps(h, D, n, m, b, order) ==
    /\ h \in [0..n -> ExactManagers(D)]
    /\ h[0] = b /\ h[n] = contract_candidates(m, b, order)
    /\ \A k \in 1..n : h[k] = Contracted(m, h[k - 1], order[k])

\* The first pass.
LEMMA MergePass ==
    ASSUME NEW D, IsFiniteSet(D), NEW n \in Nat, NEW order \in [1..n -> D],
           NEW m \in ExactManagers(D)
    PROVE  \E h : MergesInSteps(h, D, n, m, order)
<1> DEFINE T == ExactManagers(D)
           F == [x \in (1..n) \X T |-> Merged(m, x[2], order[x[1]])]
           Step(g) == [S \in SUBSET (1..n) |->
                         IF S = {} THEN m
                         ELSE LET k == Max(S) IN Merged(m, g[S \ {k}], order[k])]
           it == CHOOSE g : g = Step(g)
<1>1. merge_candidates(m, order) = it[1..n]
  <2>1. DOMAIN order = 1..n
    OBVIOUS
  <2> QED BY <2>1 DEF merge_candidates, FoldLeft, MapThenFoldSet
<1>2. F \in [(1..n) \X T -> T]
  <2> SUFFICES ASSUME NEW i \in 1..n, NEW x \in T PROVE Merged(m, x, order[i]) \in T
    OBVIOUS
  <2>1. order[i] \in D
    OBVIOUS
  <2> QED BY <2>1, MergedStep
<1>3. PICK g \in [SUBSET (1..n) -> T] :
          /\ FoldsByMax(g, n, T, m, F)
          /\ \A S \in SUBSET (1..n) : S # {} => Max(S) \in 1..n /\ g[S \ {Max(S)}] \in T
  <2>1. m \in T
    OBVIOUS
  <2> HIDE DEF F, T
  <2> QED BY <1>2, <2>1, FoldFixed
<1>4. g = Step(g)
  <2>1. \A S \in SUBSET (1..n) : g[S] = IF S = {} THEN m
                   ELSE LET k == Max(S) IN Merged(m, g[S \ {k}], order[k])
    <3> HIDE DEF T
    <3> QED BY <1>3 DEF FoldsByMax
  <2> HIDE DEF T
  <2> QED BY <2>1
<1>5. it = Step(it)
  <2> HIDE DEF Step
  <2> QED BY <1>4
<1> HIDE DEF it
<1>6. it[{}] = m
  BY <1>5
<1>7. ASSUME NEW S \in SUBSET (1..n), S # {}, it[S \ {Max(S)}] \in T
      PROVE  it[S] = F[<<Max(S), it[S \ {Max(S)}]>>]
  <2>1. it[S] = Merged(m, it[S \ {Max(S)}], order[Max(S)])
    BY <1>5, <1>7
  <2>2. Max(S) \in 1..n
    BY <1>3, <1>7
  <2> HIDE DEF T
  <2> QED BY <1>7, <2>1, <2>2
<1>8. PICK h : FoldsInSteps(h, it, n, T, m, F)
  <2>1. m \in T
    OBVIOUS
  <2> HIDE DEF F, T
  <2>2. FoldsByMax(it, n, T, m, F)
    BY <1>6, <1>7 DEF FoldsByMax
  <2> QED BY <1>2, <2>1, <2>2, FoldSteps
<1>9. /\ h \in [0..n -> T] /\ h[0] = m /\ h[n] = it[1..n]
       /\ \A k \in 1..n : h[k] = F[<<k, h[k - 1]>>]
  <2> HIDE DEF F, T
  <2> QED BY <1>8 DEF FoldsInSteps
<1>10. \A k \in 1..n : h[k] = Merged(m, h[k - 1], order[k])
  <2>1. \A k \in 1..n : k - 1 \in 0..n
    OBVIOUS
  <2>2. \A k \in 1..n : <<k, h[k - 1]>> \in (1..n) \X T
    <3> HIDE DEF T
    <3> QED BY <1>9, <2>1
  <2> HIDE DEF T
  <2> QED BY <1>9, <2>2
<1> QED BY <1>1, <1>9, <1>10 DEF MergesInSteps

\* The second pass.
LEMMA ContractPass ==
    ASSUME NEW D, IsFiniteSet(D), NEW n \in Nat, NEW order \in [1..n -> D], NEW m,
           NEW b \in ExactManagers(D)
    PROVE  \E h : ContractsInSteps(h, D, n, m, b, order)
<1> DEFINE T == ExactManagers(D)
           F == [x \in (1..n) \X T |-> Contracted(m, x[2], order[x[1]])]
           Step(g) == [S \in SUBSET (1..n) |->
                         IF S = {} THEN b
                         ELSE LET k == Max(S) IN Contracted(m, g[S \ {k}], order[k])]
           it == CHOOSE g : g = Step(g)
<1>1. contract_candidates(m, b, order) = it[1..n]
  <2>1. DOMAIN order = 1..n
    OBVIOUS
  <2> QED BY <2>1 DEF contract_candidates, FoldLeft, MapThenFoldSet
<1>2. F \in [(1..n) \X T -> T]
  <2> SUFFICES ASSUME NEW i \in 1..n, NEW x \in T PROVE Contracted(m, x, order[i]) \in T
    OBVIOUS
  <2>1. order[i] \in D
    OBVIOUS
  <2> QED BY <2>1, ContractedStep
<1>3. PICK g \in [SUBSET (1..n) -> T] :
          /\ FoldsByMax(g, n, T, b, F)
          /\ \A S \in SUBSET (1..n) : S # {} => Max(S) \in 1..n /\ g[S \ {Max(S)}] \in T
  <2>1. b \in T
    OBVIOUS
  <2> HIDE DEF F, T
  <2> QED BY <1>2, <2>1, FoldFixed
<1>4. g = Step(g)
  <2>1. \A S \in SUBSET (1..n) : g[S] = IF S = {} THEN b
                   ELSE LET k == Max(S) IN Contracted(m, g[S \ {k}], order[k])
    <3> HIDE DEF T
    <3> QED BY <1>3 DEF FoldsByMax
  <2> HIDE DEF T
  <2> QED BY <2>1
<1>5. it = Step(it)
  <2> HIDE DEF Step
  <2> QED BY <1>4
<1> HIDE DEF it
<1>6. it[{}] = b
  BY <1>5
<1>7. ASSUME NEW S \in SUBSET (1..n), S # {}, it[S \ {Max(S)}] \in T
      PROVE  it[S] = F[<<Max(S), it[S \ {Max(S)}]>>]
  <2>1. it[S] = Contracted(m, it[S \ {Max(S)}], order[Max(S)])
    BY <1>5, <1>7
  <2>2. Max(S) \in 1..n
    BY <1>3, <1>7
  <2> HIDE DEF T
  <2> QED BY <1>7, <2>1, <2>2
<1>8. PICK h : FoldsInSteps(h, it, n, T, b, F)
  <2>1. b \in T
    OBVIOUS
  <2> HIDE DEF F, T
  <2>2. FoldsByMax(it, n, T, b, F)
    BY <1>6, <1>7 DEF FoldsByMax
  <2> QED BY <1>2, <2>1, <2>2, FoldSteps
<1>9. /\ h \in [0..n -> T] /\ h[0] = b /\ h[n] = it[1..n]
       /\ \A k \in 1..n : h[k] = F[<<k, h[k - 1]>>]
  <2> HIDE DEF F, T
  <2> QED BY <1>8 DEF FoldsInSteps
<1>10. \A k \in 1..n : h[k] = Contracted(m, h[k - 1], order[k])
  <2>1. \A k \in 1..n : k - 1 \in 0..n
    OBVIOUS
  <2>2. \A k \in 1..n : <<k, h[k - 1]>> \in (1..n) \X T
    <3> HIDE DEF T
    <3> QED BY <1>9, <2>1
  <2> HIDE DEF T
  <2> QED BY <1>9, <2>2
<1> QED BY <1>1, <1>9, <1>10 DEF ContractsInSteps

\* An order of a set visits each of its elements.
LEMMA OrderVisits ==
    ASSUME NEW D, IsFiniteSet(D), NEW order \in SetToSeqs(D)
    PROVE  /\ Cardinality(D) \in Nat /\ order \in [1..Cardinality(D) -> D]
           /\ \A s \in D : \E i \in 1..Cardinality(D) : order[i] = s
<1> DEFINE n == Cardinality(D)  I == 1..n
<1>1. n \in Nat
  BY FS_CardinalityType
<1>2. order \in [I -> D] /\ \A i, j \in I : i # j => order[i] # order[j]
  BY DEF SetToSeqs
<1>3. IsFiniteSet(I) /\ Cardinality(I) = n
  <2> HIDE DEF n
  <2>1. 1 \in Int /\ n \in Int
    BY <1>1
  <2>2. Cardinality(1..n) = IF 1 > n THEN 0 ELSE n - 1 + 1
    BY <2>1, FS_Interval
  <2> QED BY <1>1, <2>1, <2>2, FS_Interval
<1>4. order \in Injection(I, D)
  <2> HIDE DEF I, n
  <2> QED BY <1>2 DEF Injection, IsInjective
<1>5. order \in Surjection(I, D)
  <2>1. Cardinality(I) = Cardinality(D)
    BY <1>3
  <2> HIDE DEF I, n
  <2> QED BY <1>4, <2>1, FS_Injection
<1> HIDE DEF n
<1> QED BY <1>1, <1>2, <1>5 DEF Surjection, n

\* A rebalancing keeps the accounts, and leaves no crowd on the background and
\* no wilderness off it (adaptive_shard.rs, evaluate_rebalance).
LEMMA RebalancedExactly ==
    ASSUME NEW D, IsFiniteSet(D), NEW m \in ExactManagers(D), NEW order \in SetToSeqs(D)
    PROVE  /\ evaluate_rebalance(m, order) \in ExactManagers(D)
           /\ Wilderness < Hotspot /\ ShardCount > 1 =>
                  \A s \in D : /\ ~ IsHotspot(evaluate_rebalance(m, order), s)
                               /\ ~ IsWilderness(evaluate_rebalance(m, order), s)
<1> DEFINE n == Cardinality(D)  T == ExactManagers(D)  bg == m.background
           Alike(x, s) == x.sectors[s].entity_count = m.sectors[s].entity_count
<1>0. /\ n \in Nat /\ order \in [1..n -> D] /\ \A s \in D : \E i \in 1..n : order[i] = s
  BY OrderVisits
<1> HIDE DEF n
<1>1. PICK h \in [0..n -> T] :
          /\ h[0] = m /\ h[n] = merge_candidates(m, order)
          /\ \A k \in 1..n : h[k] = Merged(m, h[k - 1], order[k])
  <2>1. PICK h : MergesInSteps(h, D, n, m, order)
    BY <1>0, MergePass
  <2> QED BY <2>1 DEF MergesInSteps
<1> DEFINE b == h[n]
<1>2. b \in T
  <2>1. n \in 0..n
    BY <1>0
  <2> HIDE DEF T
  <2> QED BY <1>1, <2>1
<1>3. PICK g \in [0..n -> T] :
          /\ g[0] = b /\ g[n] = contract_candidates(m, b, order)
          /\ \A k \in 1..n : g[k] = Contracted(m, g[k - 1], order[k])
  <2> HIDE DEF b
  <2>1. PICK g : ContractsInSteps(g, D, n, m, b, order)
    BY <1>0, <1>2, ContractPass
  <2> QED BY <2>1 DEF ContractsInSteps
<1> DEFINE e == g[n]
<1>4. e = evaluate_rebalance(m, order) /\ e \in T
  <2>1. n \in 0..n
    BY <1>0
  <2>2. e \in T
    <3> HIDE DEF T
    <3> QED BY <1>3, <2>1
  <2>3. b = merge_candidates(m, order)
    BY <1>1
  <2> HIDE DEF b
  <2>4. e = evaluate_rebalance(m, order)
    BY <1>3, <2>3 DEF evaluate_rebalance
  <2> QED BY <2>2, <2>4
<1>5. \A x \in T : DOMAIN x.sectors = D
  BY ManagerFields DEF ExactManagers
<1> DEFINE Good(k, x) ==
               /\ x.background = bg /\ \A s \in D : Alike(x, s)
               /\ \A s \in D : IsWilderness(m, s) /\ (\E i \in 1..k : order[i] = s) =>
                                   x.sectors[s].shard_id = bg
               /\ \A s \in D : ~ IsWilderness(m, s) => x.sectors[s] = m.sectors[s]
           G == {k \in 0..n : Good(k, h[k])}
<1>6. 0 \in G
  <2>1. h[0] = m /\ 0 \in 0..n
    BY <1>0, <1>1
  <2>2. Good(0, m)
    OBVIOUS
  <2> HIDE DEF Good
  <2> QED BY <2>1, <2>2
<1>7. ASSUME NEW k \in 1..n, k - 1 \in G PROVE k \in G
  <2> DEFINE p == h[k - 1]  q == h[k]  s == order[k]
  <2>1. Good(k - 1, p) /\ k \in 0..n /\ k - 1 \in 0..n /\ k \in Nat
    BY <1>7, <1>0
  <2>2. p \in T /\ s \in D /\ q = Merged(m, p, s)
    <3> HIDE DEF T
    <3> QED BY <1>0, <1>1, <2>1
  <2>3. /\ KeptBut(p, q, s)
        /\ IsWilderness(m, s) => q.sectors[s].shard_id = p.background
        /\ ~ IsWilderness(m, s) => q = p
    <3> HIDE DEF p, q, s
    <3> QED BY <2>2, MergedStep
  <2>4. /\ q.background = p.background
        /\ \A x \in D : /\ q.sectors[x].entity_count = p.sectors[x].entity_count
                        /\ x # s => q.sectors[x] = p.sectors[x]
    <3> HIDE DEF p, q, s, T
    <3> QED BY <2>2, <2>3, <1>5 DEF KeptBut
  <2>5. \A x \in D : x # s /\ (\E i \in 1..k : order[i] = x) => \E i \in 1..(k - 1) : order[i] = x
    <3> SUFFICES ASSUME NEW x \in D, x # s, NEW i \in 1..k, order[i] = x
                 PROVE  i \in 1..(k - 1)
      OBVIOUS
    <3>1. i # k
      OBVIOUS
    <3> QED BY <3>1, <2>1
  <2> HIDE DEF p, q, s
  <2>6. Good(k, q)
    <3>1. /\ p.background = bg /\ \A x \in D : Alike(p, x)
          /\ \A x \in D : IsWilderness(m, x) /\ (\E i \in 1..(k - 1) : order[i] = x) =>
                               p.sectors[x].shard_id = bg
          /\ \A x \in D : ~ IsWilderness(m, x) => p.sectors[x] = m.sectors[x]
      BY <2>1
    <3>2. q.background = bg /\ \A x \in D : Alike(q, x)
      BY <2>4, <3>1
    <3>3. ASSUME NEW x \in D, IsWilderness(m, x), \E i \in 1..k : order[i] = x
          PROVE  q.sectors[x].shard_id = bg
      <4>1. CASE x = s
        BY <4>1, <3>1, <3>3, <2>3
      <4>2. CASE x # s
        <5>1. \E i \in 1..(k - 1) : order[i] = x
          BY <2>5, <3>3, <4>2
        <5>2. p.sectors[x].shard_id = bg
          BY <3>1, <3>3, <5>1
        <5> QED BY <2>4, <4>2, <5>2
      <4> QED BY <4>1, <4>2
    <3>4. ASSUME NEW x \in D, ~ IsWilderness(m, x) PROVE q.sectors[x] = m.sectors[x]
      <4>1. CASE x = s
        BY <4>1, <3>1, <3>4, <2>3
      <4>2. CASE x # s
        BY <4>2, <3>1, <3>4, <2>4
      <4> QED BY <4>1, <4>2
    <3> QED BY <3>2, <3>3, <3>4
  <2> HIDE DEF Good
  <2> QED BY <2>1, <2>6 DEF q
<1>8. Good(n, b)
  <2>1. \A k \in 0..n : k \in G
    <3> HIDE DEF G
    <3> QED BY <1>0, <1>6, <1>7, UpTo
  <2>2. n \in 0..n
    BY <1>0
  <2> HIDE DEF Good
  <2> QED BY <2>1, <2>2
<1> DEFINE Fine(k, x) ==
               /\ x.background = bg /\ \A s \in D : Alike(x, s)
               /\ \A s \in D : IsHotspot(m, s) /\ (\E i \in 1..k : order[i] = s) =>
                                   x.sectors[s].shard_id # bg
               /\ \A s \in D : ~ IsHotspot(m, s) => x.sectors[s] = b.sectors[s]
           H == {k \in 0..n : Fine(k, g[k])}
<1>9. ASSUME ShardCount > 1 PROVE Fine(n, e)
  <2>1. 0 \in H
    <3>1. g[0] = b /\ 0 \in 0..n
      BY <1>0, <1>3
    <3>2. Fine(0, b)
      <4> HIDE DEF b
      <4> QED BY <1>8
    <3> HIDE DEF Fine, b
    <3> QED BY <3>1, <3>2
  <2>2. ASSUME NEW k \in 1..n, k - 1 \in H PROVE k \in H
    <3> DEFINE p == g[k - 1]  q == g[k]  s == order[k]
    <3>1. Fine(k - 1, p) /\ k \in 0..n /\ k - 1 \in 0..n /\ k \in Nat
      BY <2>2, <1>0
    <3>2. p \in T /\ s \in D /\ q = Contracted(m, p, s)
      <4> HIDE DEF T
      <4> QED BY <1>0, <1>3, <3>1
    <3>3. /\ KeptBut(p, q, s)
          /\ IsHotspot(m, s) => q.sectors[s].shard_id # p.background
          /\ ~ IsHotspot(m, s) => q = p
      <4> HIDE DEF p, q, s
      <4> QED BY <1>9, <3>2, ContractedStep
    <3>4. /\ q.background = p.background
          /\ \A x \in D : /\ q.sectors[x].entity_count = p.sectors[x].entity_count
                          /\ x # s => q.sectors[x] = p.sectors[x]
      <4> HIDE DEF p, q, s, T
      <4> QED BY <3>2, <3>3, <1>5 DEF KeptBut
    <3>5. \A x \in D : x # s /\ (\E i \in 1..k : order[i] = x) => \E i \in 1..(k - 1) : order[i] = x
      <4> SUFFICES ASSUME NEW x \in D, x # s, NEW i \in 1..k, order[i] = x
                   PROVE  i \in 1..(k - 1)
        OBVIOUS
      <4>1. i # k
        OBVIOUS
      <4> QED BY <4>1, <3>1
    <3> HIDE DEF p, q, s, b
    <3>6. Fine(k, q)
      <4>1. /\ p.background = bg /\ \A x \in D : Alike(p, x)
            /\ \A x \in D : IsHotspot(m, x) /\ (\E i \in 1..(k - 1) : order[i] = x) =>
                                 p.sectors[x].shard_id # bg
            /\ \A x \in D : ~ IsHotspot(m, x) => p.sectors[x] = b.sectors[x]
        BY <3>1
      <4>2. q.background = bg /\ \A x \in D : Alike(q, x)
        BY <3>4, <4>1
      <4>3. ASSUME NEW x \in D, IsHotspot(m, x), \E i \in 1..k : order[i] = x
            PROVE  q.sectors[x].shard_id # bg
        <5>1. CASE x = s
          BY <5>1, <4>1, <4>3, <3>3
        <5>2. CASE x # s
          <6>1. \E i \in 1..(k - 1) : order[i] = x
            BY <3>5, <4>3, <5>2
          <6>2. p.sectors[x].shard_id # bg
            BY <4>1, <4>3, <6>1
          <6> QED BY <3>4, <5>2, <6>2
        <5> QED BY <5>1, <5>2
      <4>4. ASSUME NEW x \in D, ~ IsHotspot(m, x) PROVE q.sectors[x] = b.sectors[x]
        <5>1. CASE x = s
          BY <5>1, <4>1, <4>4, <3>3
        <5>2. CASE x # s
          BY <5>2, <4>1, <4>4, <3>4
        <5> QED BY <5>1, <5>2
      <4> QED BY <4>2, <4>3, <4>4
    <3> HIDE DEF Fine
    <3> QED BY <3>1, <3>6 DEF q
  <2>3. \A k \in 0..n : k \in H
    <3> HIDE DEF H
    <3> QED BY <1>0, <2>1, <2>2, UpTo
  <2>4. n \in 0..n
    BY <1>0
  <2> HIDE DEF Fine
  <2> QED BY <2>3, <2>4
<1> HIDE DEF b, e
<1>10. ASSUME Wilderness < Hotspot, ShardCount > 1, NEW s \in D
       PROVE  ~ IsHotspot(e, s) /\ ~ IsWilderness(e, s)
  <2>1. /\ e.background = bg /\ e.sectors[s].entity_count = m.sectors[s].entity_count
        /\ IsHotspot(m, s) => e.sectors[s].shard_id # bg
        /\ ~ IsHotspot(m, s) => e.sectors[s] = b.sectors[s]
    BY <1>0, <1>9, <1>10
  <2>2. /\ IsWilderness(m, s) => b.sectors[s].shard_id = bg
        /\ ~ IsWilderness(m, s) => b.sectors[s] = m.sectors[s]
    BY <1>0, <1>8
  <2>3. m.sectors[s].entity_count \in Nat /\ Wilderness \in Nat /\ Hotspot \in Nat
    BY ManagerFields, ContinentAssumption DEF ExactManagers
  <2>4. CASE IsHotspot(m, s)
    BY <2>4, <2>1, <2>3, <1>10 DEF IsHotspot, IsWilderness, OnBackground
  <2>5. CASE IsWilderness(m, s)
    BY <2>5, <2>1, <2>2, <2>3, <1>10 DEF IsHotspot, IsWilderness, OnBackground
  <2>6. CASE ~ IsHotspot(m, s) /\ ~ IsWilderness(m, s)
    BY <2>6, <2>1, <2>2 DEF IsHotspot, IsWilderness, OnBackground
  <2> QED BY <2>4, <2>5, <2>6
<1> QED BY <1>4, <1>10
-------------------------------------------------------------------------------
(* ------------------------------ crossing tokens --------------------------- *)

SeamTokens == [token_id : Nat \ {0}, entity_id : Riders, source_shard : Shards,
               target_shard : Shards, target_sector : Regions, issued_tick : Nat,
               expiry_tick : Nat, is_consumed : BOOLEAN]
TokenTable == 1..MAX_ACTIVE_PRE_AUTHS
Predictors == [tokens : [TokenTable -> SeamTokens \union {NoToken}], next_token_id : Nat \ {0}]
CrossingLogs == UNION {[I -> Seq(Nat)] : I \in SUBSET (Nat \ {0})}

Fresh(t) == [t EXCEPT !.is_consumed = FALSE]

(* What an orchestrator issued, S, what it committed, C, and what a full     *)
(* table overwrote, V, tell what its table p holds.                          *)
IssuedWell(n, p, now, S) ==
    /\ S \subseteq SeamTokens
    /\ \A t \in S : /\ t.target_shard # n /\ ~ t.is_consumed
                    /\ t.expiry_tick = t.issued_tick + TokenTtl /\ t.issued_tick <= now
                    /\ t.token_id < p.next_token_id
    /\ \A t, u \in S : t.token_id = u.token_id => t = u

(* Live tokens of one entity to one shard. *)
Rivals(p, now, i, j) ==
    /\ p.tokens[i] # NoToken /\ ~ Spent(p.tokens[i], now)
    /\ p.tokens[j] # NoToken /\ ~ Spent(p.tokens[j], now)
    /\ p.tokens[i].entity_id = p.tokens[j].entity_id
    /\ p.tokens[i].target_shard = p.tokens[j].target_shard

HeldWell(p, now, S, C, V) ==
    /\ \A i \in TokenTable : p.tokens[i] # NoToken =>
           /\ Fresh(p.tokens[i]) \in S
           /\ p.tokens[i].is_consumed <=> p.tokens[i].token_id \in DOMAIN C
    /\ \A i, j \in TokenTable : p.tokens[i] # NoToken /\ p.tokens[j] # NoToken
                                /\ p.tokens[i].token_id = p.tokens[j].token_id => i = j
    /\ \A i, j \in TokenTable : Rivals(p, now, i, j) => i = j
    /\ \A t \in S : t.token_id \notin DOMAIN C \union V /\ now <= t.expiry_tick =>
           \E i \in TokenTable : p.tokens[i] = t

CommittedWell(p, S, C) ==
    /\ C \in CrossingLogs
    /\ \A id \in DOMAIN C : id < p.next_token_id
    /\ \A t \in S : t.token_id \in DOMAIN C =>
           Len(C[t.token_id]) = 1 /\ C[t.token_id][1] <= t.expiry_tick

TokensInv(n, p, now, S, C, V) ==
    /\ p \in Predictors /\ now \in Nat /\ V \subseteq Nat
    /\ IssuedWell(n, p, now, S) /\ HeldWell(p, now, S, C, V) /\ CommittedWell(p, S, C)

\* A token and what is left of it when its flag is cleared.
LEMMA TokenFields ==
    /\ NoToken \notin SeamTokens
    /\ \A t \in SeamTokens :
           /\ t.token_id \in Nat \ {0} /\ t.target_shard \in Shards /\ t.issued_tick \in Nat
           /\ t.expiry_tick \in Nat /\ t.is_consumed \in BOOLEAN
           /\ Fresh(t) \in SeamTokens /\ Fresh(t).token_id = t.token_id
           /\ Fresh(t).entity_id = t.entity_id /\ Fresh(t).target_shard = t.target_shard
           /\ Fresh(t).expiry_tick = t.expiry_tick /\ Fresh(t).issued_tick = t.issued_tick
           /\ ~ Fresh(t).is_consumed
           /\ ~ t.is_consumed => Fresh(t) = t
<1>1. NoToken.token_id = 0
  BY DEF NoToken
<1>2. \A t \in SeamTokens :
          /\ t.token_id \in Nat \ {0} /\ t.target_shard \in Shards /\ t.issued_tick \in Nat
          /\ t.expiry_tick \in Nat /\ t.is_consumed \in BOOLEAN
  BY DEF SeamTokens
<1>3. ASSUME NEW t \in SeamTokens
      PROVE  /\ Fresh(t) \in SeamTokens /\ Fresh(t).token_id = t.token_id
             /\ Fresh(t).entity_id = t.entity_id /\ Fresh(t).target_shard = t.target_shard
             /\ Fresh(t).expiry_tick = t.expiry_tick /\ Fresh(t).issued_tick = t.issued_tick
             /\ ~ Fresh(t).is_consumed
  BY DEF SeamTokens, Fresh
<1>4. ASSUME NEW t \in SeamTokens, ~ t.is_consumed PROVE Fresh(t) = t
  BY <1>4 DEF SeamTokens, Fresh
<1> QED BY <1>1, <1>2, <1>3, <1>4

\* The table of a predictor has a token or none in every slot.
LEMMA PredictorFields ==
    ASSUME NEW p \in Predictors
    PROVE  /\ p = [tokens |-> p.tokens, next_token_id |-> p.next_token_id]
           /\ p.tokens \in [TokenTable -> SeamTokens \union {NoToken}]
           /\ DOMAIN p.tokens = TokenTable /\ p.next_token_id \in Nat \ {0}
           /\ \A i \in TokenTable : p.tokens[i] # NoToken => p.tokens[i] \in SeamTokens
<1>1. /\ p = [tokens |-> p.tokens, next_token_id |-> p.next_token_id]
      /\ p.tokens \in [TokenTable -> SeamTokens \union {NoToken}]
      /\ p.next_token_id \in Nat \ {0}
  BY DEF Predictors
<1> QED BY <1>1

\* The slot a token goes to is empty, or its token is spent, or no slot's is.
LEMMA SlotChosen ==
    ASSUME NEW p \in Predictors, NEW now
    PROVE  LET slot == TokenSlot(p, now)
           IN  /\ slot \in TokenTable
               /\ \/ p.tokens[slot] = NoToken
                  \/ p.tokens[slot] # NoToken /\ Spent(p.tokens[slot], now)
                  \/ \A i \in TokenTable : p.tokens[i] # NoToken /\ ~ Spent(p.tokens[i], now)
<1> DEFINE free == {i \in TokenTable : p.tokens[i] = NoToken}
           spent == {i \in TokenTable : p.tokens[i] # NoToken /\ Spent(p.tokens[i], now)}
           slot == TokenSlot(p, now)
<1>1. slot = IF free # {} THEN Min(free) ELSE IF spent # {} THEN Min(spent) ELSE 1
  BY PredictorFields DEF TokenSlot
<1>2. free \subseteq Nat /\ spent \subseteq Nat /\ 1 \in TokenTable
  BY ContinentAssumption DEF TokenTable
<1>3. CASE free # {}
  <2>1. Min(free) \in free
    <3> HIDE DEF free
    <3> QED BY <1>2, <1>3, MinOf
  <2>2. slot \in free
    <3> HIDE DEF free, spent, slot
    <3> QED BY <1>1, <1>3, <2>1
  <2> HIDE DEF slot
  <2> QED BY <2>2 DEF slot
<1>4. CASE free = {} /\ spent # {}
  <2>1. Min(spent) \in spent
    <3> HIDE DEF spent
    <3> QED BY <1>2, <1>4, MinOf
  <2>2. slot \in spent
    <3> HIDE DEF free, spent, slot
    <3> QED BY <1>1, <1>4, <2>1
  <2> HIDE DEF slot
  <2> QED BY <2>2 DEF slot
<1>5. CASE free = {} /\ spent = {}
  <2>1. slot = 1
    <3> HIDE DEF free, spent, slot
    <3> QED BY <1>1, <1>5
  <2>2. \A i \in TokenTable : p.tokens[i] # NoToken /\ ~ Spent(p.tokens[i], now)
    BY <1>5
  <2> HIDE DEF slot
  <2> QED BY <1>2, <2>1, <2>2 DEF slot
<1> QED BY <1>3, <1>4, <1>5

\* A table without an empty slot or a spent token is full of live ones.
LEMMA TableFull ==
    ASSUME NEW p \in Predictors, NEW now,
           \A i \in TokenTable : p.tokens[i] # NoToken /\ ~ Spent(p.tokens[i], now),
           \A i, j \in TokenTable : p.tokens[i].token_id = p.tokens[j].token_id => i = j
    PROVE  Cardinality({t \in SlotsOf(p) : ~ Spent(t, now)}) = MAX_ACTIVE_PRE_AUTHS
<1> DEFINE R == {t \in SlotsOf(p) : ~ Spent(t, now)}
           f == p.tokens
<1>0. f \in [TokenTable -> SeamTokens \union {NoToken}] /\ DOMAIN f = TokenTable
  BY PredictorFields
<1>1. R = {f[i] : i \in TokenTable}
  <2>1. SlotsOf(p) = {f[i] : i \in TokenTable} \ {NoToken}
    BY <1>0 DEF SlotsOf
  <2> HIDE DEF f
  <2>2. \A i \in TokenTable : f[i] # NoToken /\ ~ Spent(f[i], now)
    BY DEF f
  <2> QED BY <2>1, <2>2
<1> HIDE DEF R
<1>2. f \in Bijection(TokenTable, R)
  <2>1. f \in [TokenTable -> R]
    BY <1>0, <1>1
  <2>2. \A i, j \in TokenTable : f[i] = f[j] => i = j
    OBVIOUS
  <2>3. \A t \in R : \E i \in TokenTable : f[i] = t
    BY <1>1
  <2> HIDE DEF f
  <2>4. IsInjective(f)
    BY <2>1, <2>2 DEF IsInjective
  <2> QED BY <2>1, <2>3, <2>4 DEF Bijection, Injection, Surjection, IsInjective
<1>3. ExistsBijection(TokenTable, R)
  BY <1>2 DEF ExistsBijection
<1>4. IsFiniteSet(TokenTable) /\ Cardinality(TokenTable) = MAX_ACTIVE_PRE_AUTHS
  <2>1. 1 \in Int /\ MAX_ACTIVE_PRE_AUTHS \in Int /\ MAX_ACTIVE_PRE_AUTHS >= 1
    BY ContinentAssumption
  <2>2. /\ IsFiniteSet(1..MAX_ACTIVE_PRE_AUTHS)
        /\ Cardinality(1..MAX_ACTIVE_PRE_AUTHS) =
               IF 1 > MAX_ACTIVE_PRE_AUTHS THEN 0 ELSE MAX_ACTIVE_PRE_AUTHS - 1 + 1
    BY <2>1, FS_Interval
  <2> QED BY <2>1, <2>2 DEF TokenTable
<1>5. Cardinality(R) = MAX_ACTIVE_PRE_AUTHS
  BY <1>3, <1>4, FS_Bijection
<1> QED BY <1>5 DEF R

\* A new token is stored, over a live one only if the table was full
\* (predictive_migration.rs, evaluate_entity_movement and store_token).
LEMMA TokenStored ==
    ASSUME NEW n \in Shards, NEW p, NEW now, NEW S, NEW C, NEW V, TokensInv(n, p, now, S, C, V),
           NEW e \in Riders, NEW target \in Shards \ {n}, NEW sector \in Regions,
           LiveFor(p, e, target, now) = {},
           NEW fresh, fresh = Token(p.next_token_id, e, n, target, sector, now),
           NEW slot, slot = TokenSlot(p, now),
           NEW q, q = [tokens |-> [p.tokens EXCEPT ![slot] = fresh],
                       next_token_id |-> p.next_token_id + 1],
           NEW W, W = IF p.tokens[slot] # NoToken
                         /\ Cardinality({t \in SlotsOf(p) : ~ Spent(t, now)}) = MAX_ACTIVE_PRE_AUTHS
                      THEN V \union {p.tokens[slot].token_id} ELSE V
    PROVE  TokensInv(n, q, now, S \union {fresh}, C, W)
<1> DEFINE id == p.next_token_id  R == S \union {fresh}  old == p.tokens[slot]
           full == Cardinality({t \in SlotsOf(p) : ~ Spent(t, now)}) = MAX_ACTIVE_PRE_AUTHS
<1>1. /\ p \in Predictors /\ now \in Nat /\ V \subseteq Nat
      /\ IssuedWell(n, p, now, S) /\ HeldWell(p, now, S, C, V) /\ CommittedWell(p, S, C)
  BY DEF TokensInv
<1>2. /\ p.tokens \in [TokenTable -> SeamTokens \union {NoToken}] /\ id \in Nat \ {0}
      /\ DOMAIN p.tokens = TokenTable
      /\ \A i \in TokenTable : p.tokens[i] # NoToken => p.tokens[i] \in SeamTokens
  BY <1>1, PredictorFields
<1>3. /\ fresh \in SeamTokens /\ fresh # NoToken /\ fresh.token_id = id
      /\ fresh.entity_id = e /\ fresh.target_shard = target /\ ~ fresh.is_consumed
      /\ fresh.issued_tick = now /\ fresh.expiry_tick = now + TokenTtl /\ Fresh(fresh) = fresh
  <2>1. TokenTtl \in Nat
    BY ContinentAssumption
  <2>2. fresh = [token_id |-> id, entity_id |-> e, source_shard |-> n, target_shard |-> target,
                 target_sector |-> sector, issued_tick |-> now, expiry_tick |-> now + TokenTtl,
                 is_consumed |-> FALSE]
    BY DEF Token
  <2> HIDE DEF id
  <2>3. fresh \in SeamTokens
    BY <1>1, <1>2, <2>1, <2>2 DEF SeamTokens
  <2>4. /\ fresh.token_id = id /\ fresh.entity_id = e /\ fresh.target_shard = target
        /\ ~ fresh.is_consumed /\ fresh.issued_tick = now /\ fresh.expiry_tick = now + TokenTtl
    BY <2>2
  <2> QED BY <2>3, <2>4, TokenFields
<1>4. /\ S \subseteq SeamTokens
      /\ \A t \in S : /\ t.target_shard # n /\ ~ t.is_consumed
                      /\ t.expiry_tick = t.issued_tick + TokenTtl /\ t.issued_tick <= now
                      /\ t.token_id < id
      /\ \A t, u \in S : t.token_id = u.token_id => t = u
  BY <1>1 DEF IssuedWell
<1>5. /\ slot \in TokenTable
      /\ \/ old = NoToken
         \/ old # NoToken /\ Spent(old, now)
         \/ \A i \in TokenTable : p.tokens[i] # NoToken /\ ~ Spent(p.tokens[i], now)
  BY <1>1, SlotChosen
<1>6. /\ q \in Predictors /\ q.next_token_id = id + 1 /\ q.tokens[slot] = fresh
      /\ \A i \in TokenTable : i # slot => q.tokens[i] = p.tokens[i]
  <2> DEFINE T == [p.tokens EXCEPT ![slot] = fresh]
  <2>1. T \in [TokenTable -> SeamTokens \union {NoToken}] /\ T[slot] = fresh
        /\ \A i \in TokenTable : i # slot => T[i] = p.tokens[i]
    BY <1>2, <1>3, <1>5
  <2> HIDE DEF T
  <2>2. q = [tokens |-> T, next_token_id |-> id + 1]
    BY DEF T
  <2>3. id + 1 \in Nat \ {0}
    <3> HIDE DEF id
    <3> QED BY <1>2
  <2>4. [tokens |-> T, next_token_id |-> id + 1] \in Predictors
    <3> HIDE DEF id
    <3> QED BY <2>1, <2>3 DEF Predictors
  <2> DEFINE r == [tokens |-> T, next_token_id |-> id + 1]
  <2>5. r.tokens = T /\ r.next_token_id = id + 1 /\ r \in Predictors
    <3> HIDE DEF id
    <3> QED BY <2>4
  <2>6. q = r
    BY <2>2
  <2> HIDE DEF r
  <2>7. q.tokens = T /\ q.next_token_id = id + 1 /\ q \in Predictors
    BY <2>5, <2>6, Zenon
  <2>8. q.tokens[slot] = fresh /\ \A i \in TokenTable : i # slot => q.tokens[i] = p.tokens[i]
    BY <2>1, <2>7, Zenon
  <2> QED BY <2>7, <2>8, Zenon
<1> HIDE DEF id
<1>7. \A t \in S : t.token_id \in Nat /\ t.token_id < id /\ id \in Nat /\ t.token_id # id
  BY <1>2, <1>4, TokenFields
<1>8. IssuedWell(n, q, now, R)
  <2>1. R \subseteq SeamTokens
    BY <1>3, <1>4
  <2>2. \A t \in R : /\ t.target_shard # n /\ ~ t.is_consumed
                     /\ t.expiry_tick = t.issued_tick + TokenTtl /\ t.issued_tick <= now
                     /\ t.token_id < id + 1
    <3> SUFFICES ASSUME NEW t \in R
                 PROVE  /\ t.target_shard # n /\ ~ t.is_consumed
                        /\ t.expiry_tick = t.issued_tick + TokenTtl /\ t.issued_tick <= now
                        /\ t.token_id < id + 1
      OBVIOUS
    <3>1. CASE t \in S
      BY <3>1, <1>4, <1>7
    <3>2. CASE t = fresh
      BY <3>2, <1>1, <1>2, <1>3
    <3> QED BY <3>1, <3>2
  <2>3. \A t, u \in R : t.token_id = u.token_id => t = u
    BY <1>3, <1>4, <1>7
  <2> QED BY <1>6, <2>1, <2>2, <2>3 DEF IssuedWell
<1>9. CommittedWell(q, R, C)
  <2>1. /\ C \in CrossingLogs
        /\ \A x \in DOMAIN C : x < id
        /\ \A t \in S : t.token_id \in DOMAIN C =>
               Len(C[t.token_id]) = 1 /\ C[t.token_id][1] <= t.expiry_tick
    BY <1>1 DEF CommittedWell, id
  <2>2. \A x \in DOMAIN C : x \in Nat
    BY <2>1 DEF CrossingLogs
  <2>3. \A x \in DOMAIN C : x < id + 1
    BY <1>2, <2>1, <2>2
  <2>4. id \notin DOMAIN C
    BY <1>2, <2>1, <2>2
  <2>5. \A t \in R : t.token_id \in DOMAIN C => t \in S
    BY <1>3, <2>4
  <2> QED BY <1>6, <2>1, <2>3, <2>5 DEF CommittedWell
<1>10. id \notin DOMAIN C
  <2>1. C \in CrossingLogs /\ \A x \in DOMAIN C : x < id
    BY <1>1 DEF CommittedWell, id
  <2>2. \A x \in DOMAIN C : x \in Nat
    BY <2>1 DEF CrossingLogs
  <2> QED BY <1>2, <2>1, <2>2
<1>11. /\ \A i \in TokenTable : p.tokens[i] # NoToken =>
              /\ Fresh(p.tokens[i]) \in S
              /\ p.tokens[i].is_consumed <=> p.tokens[i].token_id \in DOMAIN C
       /\ \A i, j \in TokenTable : p.tokens[i] # NoToken /\ p.tokens[j] # NoToken
                                   /\ p.tokens[i].token_id = p.tokens[j].token_id => i = j
       /\ \A i, j \in TokenTable : Rivals(p, now, i, j) => i = j
       /\ \A t \in S : t.token_id \notin DOMAIN C \union V /\ now <= t.expiry_tick =>
              \E i \in TokenTable : p.tokens[i] = t
  BY <1>1 DEF HeldWell
<1>12. \A i \in TokenTable : p.tokens[i] # NoToken => p.tokens[i].token_id # id
  <2> SUFFICES ASSUME NEW i \in TokenTable, p.tokens[i] # NoToken PROVE p.tokens[i].token_id # id
    OBVIOUS
  <2> DEFINE t == p.tokens[i]
  <2>1. t \in SeamTokens /\ Fresh(t) \in S
    BY <1>2, <1>11
  <2> HIDE DEF t
  <2>2. t.token_id # id
    BY <2>1, <1>7, TokenFields
  <2> QED BY <2>2 DEF t
<1>13. \A i \in TokenTable : p.tokens[i] # NoToken /\ ~ Spent(p.tokens[i], now) =>
           ~ (p.tokens[i].entity_id = e /\ p.tokens[i].target_shard = target)
  <2> SUFFICES ASSUME NEW i \in TokenTable, p.tokens[i] # NoToken, ~ Spent(p.tokens[i], now),
                      p.tokens[i].entity_id = e, p.tokens[i].target_shard = target
               PROVE  FALSE
    OBVIOUS
  <2>1. p.tokens[i] \in SlotsOf(p)
    BY <1>2 DEF SlotsOf
  <2> QED BY <2>1 DEF LiveFor
<1>14. HeldWell(q, now, R, C, W)
  <2>1. ASSUME NEW i \in TokenTable, q.tokens[i] # NoToken
        PROVE  /\ Fresh(q.tokens[i]) \in R
               /\ q.tokens[i].is_consumed <=> q.tokens[i].token_id \in DOMAIN C
    <3>1. CASE i = slot
      BY <3>1, <1>3, <1>6, <1>10
    <3>2. CASE i # slot
      BY <3>2, <2>1, <1>6, <1>11
    <3> QED BY <3>1, <3>2
  <2>2. ASSUME NEW i \in TokenTable, NEW j \in TokenTable, q.tokens[i] # NoToken,
               q.tokens[j] # NoToken, q.tokens[i].token_id = q.tokens[j].token_id
        PROVE  i = j
    <3>1. CASE i # slot /\ j # slot
      BY <3>1, <2>2, <1>6, <1>11
    <3>2. CASE i = slot /\ j # slot
      BY <3>2, <2>2, <1>3, <1>6, <1>12
    <3>3. CASE i # slot /\ j = slot
      BY <3>3, <2>2, <1>3, <1>6, <1>12
    <3> QED BY <3>1, <3>2, <3>3
  <2>3. ASSUME NEW i \in TokenTable, NEW j \in TokenTable, Rivals(q, now, i, j)
        PROVE  i = j
    <3>1. CASE i # slot /\ j # slot
      BY <3>1, <2>3, <1>6, <1>11 DEF Rivals
    <3>2. CASE i = slot /\ j # slot
      BY <3>2, <2>3, <1>3, <1>6, <1>13 DEF Rivals
    <3>3. CASE i # slot /\ j = slot
      BY <3>3, <2>3, <1>3, <1>6, <1>13 DEF Rivals
    <3> QED BY <3>1, <3>2, <3>3
  <2>4. ASSUME NEW t \in R, t.token_id \notin DOMAIN C \union W, now <= t.expiry_tick
        PROVE  \E i \in TokenTable : q.tokens[i] = t
    <3>1. CASE t = fresh
      BY <3>1, <1>5, <1>6
    <3>2. CASE t \in S /\ t # fresh
      <4>1. V \subseteq W
        OBVIOUS
      <4>2. PICK i \in TokenTable : p.tokens[i] = t
        BY <2>4, <3>2, <4>1, <1>11
      <4>3. CASE i # slot
        BY <4>2, <4>3, <1>6
      <4>4. CASE i = slot
        <5>1. old = t /\ t \in SeamTokens /\ t # NoToken
          BY <3>2, <4>2, <4>4, <1>4, TokenFields
        <5>2. ~ Spent(t, now)
          <6>1. ~ t.is_consumed
            BY <3>2, <1>4
          <6>2. t.expiry_tick \in Nat
            BY <5>1, TokenFields
          <6> QED BY <6>1, <6>2, <2>4, <1>1 DEF Spent
        <5>3. \A k \in TokenTable : p.tokens[k] # NoToken /\ ~ Spent(p.tokens[k], now)
          BY <5>1, <5>2, <1>5
        <5>4. full
          <6>1. \A k, j \in TokenTable : p.tokens[k].token_id = p.tokens[j].token_id => k = j
            BY <5>3, <1>11
          <6> QED BY <5>3, <6>1, <1>1, TableFull
        <5>5. t.token_id \in W
          BY <5>1, <5>4
        <5> QED BY <5>5, <2>4
      <4> QED BY <4>3, <4>4
    <3> QED BY <3>1, <3>2
  <2>5. \A i \in TokenTable : q.tokens[i] # NoToken =>
             /\ Fresh(q.tokens[i]) \in R
             /\ q.tokens[i].is_consumed <=> q.tokens[i].token_id \in DOMAIN C
    BY <2>1
  <2>6. \A i, j \in TokenTable : q.tokens[i] # NoToken /\ q.tokens[j] # NoToken
                                 /\ q.tokens[i].token_id = q.tokens[j].token_id => i = j
    BY <2>2
  <2>7. \A i, j \in TokenTable : Rivals(q, now, i, j) => i = j
    BY <2>3
  <2>8. \A t \in R : t.token_id \notin DOMAIN C \union W /\ now <= t.expiry_tick =>
            \E i \in TokenTable : q.tokens[i] = t
    BY <2>4
  <2> HIDE DEF R
  <2> QED BY <2>5, <2>6, <2>7, <2>8, Zenon DEF HeldWell
<1>15. W \subseteq Nat
  <2>1. old # NoToken => old.token_id \in Nat
    BY <1>2, <1>5, TokenFields
  <2> QED BY <2>1, <1>1
<1> QED BY <1>1, <1>6, <1>8, <1>9, <1>14, <1>15 DEF TokensInv

\* A token is committed while it is live (predictive_migration.rs,
\* validate_and_consume).
LEMMA TokenCommitted ==
    ASSUME NEW n \in Shards, NEW p, NEW now, NEW S, NEW C, NEW V, TokensInv(n, p, now, S, C, V),
           NEW slot \in TokenTable, NEW id \in Nat \ {0}, p.tokens[slot].token_id = id,
           ~ p.tokens[slot].is_consumed, now <= p.tokens[slot].expiry_tick,
           NEW q, q = [tokens |-> [p.tokens EXCEPT ![slot] =
                                     [p.tokens[slot] EXCEPT !.is_consumed = TRUE]],
                       next_token_id |-> p.next_token_id],
           NEW B, B = With(C, id, IF id \in DOMAIN C THEN Append(C[id], now) ELSE <<now>>)
    PROVE  /\ TokensInv(n, q, now, S, B, V)
           /\ p.tokens[slot] \in SeamTokens /\ p.tokens[slot].target_shard # n
           /\ DOMAIN C \subseteq DOMAIN B /\ id \in DOMAIN B
<1> DEFINE t == p.tokens[slot]  u == [t EXCEPT !.is_consumed = TRUE]
<1>1. /\ p \in Predictors /\ now \in Nat /\ V \subseteq Nat
      /\ IssuedWell(n, p, now, S) /\ HeldWell(p, now, S, C, V) /\ CommittedWell(p, S, C)
  BY DEF TokensInv
<1>2. /\ p.tokens \in [TokenTable -> SeamTokens \union {NoToken}] /\ p.next_token_id \in Nat \ {0}
      /\ DOMAIN p.tokens = TokenTable
      /\ \A i \in TokenTable : p.tokens[i] # NoToken => p.tokens[i] \in SeamTokens
  BY <1>1, PredictorFields
<1>3. t # NoToken /\ t \in SeamTokens
  <2>1. NoToken.token_id = 0
    BY DEF NoToken
  <2> QED BY <2>1, <1>2
<1>4. /\ \A i \in TokenTable : p.tokens[i] # NoToken =>
             /\ Fresh(p.tokens[i]) \in S
             /\ p.tokens[i].is_consumed <=> p.tokens[i].token_id \in DOMAIN C
      /\ \A i, j \in TokenTable : p.tokens[i] # NoToken /\ p.tokens[j] # NoToken
                                  /\ p.tokens[i].token_id = p.tokens[j].token_id => i = j
      /\ \A i, j \in TokenTable : Rivals(p, now, i, j) => i = j
      /\ \A x \in S : x.token_id \notin DOMAIN C \union V /\ now <= x.expiry_tick =>
             \E i \in TokenTable : p.tokens[i] = x
  BY <1>1 DEF HeldWell
<1>5. id \notin DOMAIN C /\ Fresh(t) = t /\ t \in S
  <2>1. ~ t.is_consumed /\ t.token_id = id
    OBVIOUS
  <2>2. Fresh(t) \in S /\ (t.is_consumed <=> t.token_id \in DOMAIN C)
    BY <1>3, <1>4
  <2> HIDE DEF t
  <2> QED BY <1>3, <2>1, <2>2, TokenFields
<1>6. /\ S \subseteq SeamTokens
      /\ \A x \in S : /\ x.target_shard # n /\ ~ x.is_consumed
                      /\ x.expiry_tick = x.issued_tick + TokenTtl /\ x.issued_tick <= now
                      /\ x.token_id < p.next_token_id
      /\ \A x, y \in S : x.token_id = y.token_id => x = y
  BY <1>1 DEF IssuedWell
<1>7. /\ u \in SeamTokens /\ u.is_consumed /\ u.token_id = id /\ Fresh(u) = t
      /\ u # NoToken /\ Spent(u, now)
  <2>1. t.token_id = id /\ ~ t.is_consumed
    OBVIOUS
  <2> HIDE DEF t
  <2>2. /\ u \in SeamTokens /\ u.is_consumed /\ u.token_id = t.token_id
        /\ [u EXCEPT !.is_consumed = FALSE] = [t EXCEPT !.is_consumed = FALSE]
    BY <1>3 DEF SeamTokens
  <2> HIDE DEF u
  <2>3. Fresh(u) = Fresh(t)
    BY <2>2 DEF Fresh
  <2> QED BY <2>1, <2>2, <2>3, <1>5, TokenFields DEF Spent
<1>8. /\ q \in Predictors /\ q.next_token_id = p.next_token_id /\ q.tokens[slot] = u
      /\ \A i \in TokenTable : i # slot => q.tokens[i] = p.tokens[i]
  <2> DEFINE T == [p.tokens EXCEPT ![slot] = u]
  <2>1. q = [tokens |-> T, next_token_id |-> p.next_token_id]
    OBVIOUS
  <2> HIDE DEF u
  <2>2. T \in [TokenTable -> SeamTokens \union {NoToken}] /\ T[slot] = u
        /\ \A i \in TokenTable : i # slot => T[i] = p.tokens[i]
    BY <1>2, <1>7
  <2> HIDE DEF T
  <2> DEFINE r == [tokens |-> T, next_token_id |-> p.next_token_id]
  <2>3. r.tokens = T /\ r.next_token_id = p.next_token_id /\ r \in Predictors
    BY <1>2, <2>2 DEF Predictors
  <2>4. q = r
    BY <2>1
  <2> HIDE DEF r
  <2>5. q.tokens = T /\ q.next_token_id = p.next_token_id /\ q \in Predictors
    BY <2>3, <2>4, Zenon
  <2>6. q.tokens[slot] = u /\ \A i \in TokenTable : i # slot => q.tokens[i] = p.tokens[i]
    BY <2>2, <2>5, Zenon
  <2> QED BY <2>5, <2>6, Zenon
<1>9. /\ C \in CrossingLogs
      /\ \A x \in DOMAIN C : x < p.next_token_id
      /\ \A x \in S : x.token_id \in DOMAIN C =>
             Len(C[x.token_id]) = 1 /\ C[x.token_id][1] <= x.expiry_tick
  BY <1>1 DEF CommittedWell
<1>10. /\ DOMAIN B = DOMAIN C \union {id} /\ B[id] = <<now>>
       /\ \A x \in DOMAIN C : B[x] = C[x]
  <2>1. B = [y \in DOMAIN C \union {id} |-> IF y = id THEN <<now>> ELSE C[y]]
    BY <1>5 DEF With
  <2> QED BY <2>1, <1>5
<1>11. CommittedWell(q, S, B)
  <2>1. B \in CrossingLogs
    <3>1. PICK I \in SUBSET (Nat \ {0}) : C \in [I -> Seq(Nat)]
      BY <1>9 DEF CrossingLogs
    <3> DEFINE J == I \union {id}
    <3>2. J \in SUBSET (Nat \ {0})
      OBVIOUS
    <3>3. B \in [J -> Seq(Nat)]
      <4>1. B = [y \in DOMAIN C \union {id} |-> IF y = id THEN <<now>> ELSE C[y]]
        BY <1>5 DEF With
      <4>2. <<now>> \in Seq(Nat) /\ DOMAIN C = I /\ \A y \in I : C[y] \in Seq(Nat)
        BY <1>1, <3>1
      <4> QED BY <4>1, <4>2
    <3> HIDE DEF J
    <3> QED BY <3>2, <3>3 DEF CrossingLogs
  <2>2. \A x \in DOMAIN B : x < q.next_token_id
    <3>1. id < p.next_token_id
      BY <1>5, <1>6
    <3> QED BY <3>1, <1>8, <1>9, <1>10
  <2>3. ASSUME NEW x \in S, x.token_id \in DOMAIN B
        PROVE  Len(B[x.token_id]) = 1 /\ B[x.token_id][1] <= x.expiry_tick
    <3>1. CASE x.token_id = id
      <4>1. x = t
        BY <3>1, <1>5, <1>6
      <4>2. B[x.token_id] = <<now>>
        BY <3>1, <1>10
      <4>3. Len(<<now>>) = 1 /\ <<now>>[1] = now
        OBVIOUS
      <4>4. now <= x.expiry_tick
        BY <4>1
      <4> QED BY <4>2, <4>3, <4>4
    <3>2. CASE x.token_id # id
      BY <3>2, <2>3, <1>9, <1>10
    <3> QED BY <3>1, <3>2
  <2> QED BY <2>1, <2>2, <2>3 DEF CommittedWell
<1>12. HeldWell(q, now, S, B, V)
  <2>1. ASSUME NEW i \in TokenTable, q.tokens[i] # NoToken
        PROVE  /\ Fresh(q.tokens[i]) \in S
               /\ q.tokens[i].is_consumed <=> q.tokens[i].token_id \in DOMAIN B
    <3>1. CASE i = slot
      <4> HIDE DEF t, u
      <4> QED BY <3>1, <1>5, <1>7, <1>8, <1>10
    <3>2. CASE i # slot
      <4>1. q.tokens[i] = p.tokens[i] /\ p.tokens[i].token_id # id
        BY <3>2, <2>1, <1>3, <1>4, <1>8
      <4> QED BY <4>1, <2>1, <1>4, <1>10
    <3> QED BY <3>1, <3>2
  <2>2. \A i \in TokenTable : q.tokens[i].token_id = p.tokens[i].token_id
                              /\ (q.tokens[i] # NoToken <=> p.tokens[i] # NoToken)
    <3>1. t.token_id = id
      OBVIOUS
    <3>2. ASSUME NEW i \in TokenTable
          PROVE  q.tokens[i].token_id = p.tokens[i].token_id
                 /\ (q.tokens[i] # NoToken <=> p.tokens[i] # NoToken)
      <4>1. CASE i = slot
        <5> HIDE DEF u
        <5> QED BY <4>1, <1>3, <1>7, <1>8
      <4>2. CASE i # slot
        BY <4>2, <1>8
      <4> QED BY <4>1, <4>2
    <3> QED BY <3>2
  <2>3. \A i, j \in TokenTable : q.tokens[i] # NoToken /\ q.tokens[j] # NoToken
                                 /\ q.tokens[i].token_id = q.tokens[j].token_id => i = j
    BY <2>2, <1>4
  <2>4. \A i \in TokenTable : q.tokens[i] # NoToken /\ ~ Spent(q.tokens[i], now) =>
            i # slot /\ q.tokens[i] = p.tokens[i]
    <3> HIDE DEF u
    <3> QED BY <1>7, <1>8
  <2>5. ASSUME NEW i \in TokenTable, NEW j \in TokenTable, Rivals(q, now, i, j)
        PROVE  i = j
    <3>1. q.tokens[i] = p.tokens[i] /\ q.tokens[j] = p.tokens[j]
      BY <2>4, <2>5 DEF Rivals
    <3>2. Rivals(p, now, i, j)
      BY <3>1, <2>5 DEF Rivals
    <3> QED BY <3>2, <1>4
  <2>6. ASSUME NEW x \in S, x.token_id \notin DOMAIN B \union V, now <= x.expiry_tick
        PROVE  \E i \in TokenTable : q.tokens[i] = x
    <3>1. x.token_id # id /\ x.token_id \notin DOMAIN C \union V
      BY <2>6, <1>10
    <3>2. PICK i \in TokenTable : p.tokens[i] = x
      BY <3>1, <2>6, <1>4
    <3>3. i # slot
      BY <3>1, <3>2
    <3> QED BY <3>2, <3>3, <1>8
  <2>7. \A i \in TokenTable : q.tokens[i] # NoToken =>
             /\ Fresh(q.tokens[i]) \in S
             /\ q.tokens[i].is_consumed <=> q.tokens[i].token_id \in DOMAIN B
    BY <2>1
  <2>8. \A i, j \in TokenTable : Rivals(q, now, i, j) => i = j
    BY <2>5
  <2>9. \A x \in S : x.token_id \notin DOMAIN B \union V /\ now <= x.expiry_tick =>
            \E i \in TokenTable : q.tokens[i] = x
    BY <2>6
  <2> QED BY <2>3, <2>7, <2>8, <2>9, Zenon DEF HeldWell
<1>13. IssuedWell(n, q, now, S)
  BY <1>6, <1>8 DEF IssuedWell
<1>14. TokensInv(n, q, now, S, B, V)
  BY <1>1, <1>8, <1>11, <1>12, <1>13 DEF TokensInv
<1>15. t.target_shard # n
  BY <1>5, <1>6
<1> QED BY <1>3, <1>10, <1>14, <1>15

\* A tick passes, and what is spent leaves the table (predictive_migration.rs,
\* purge_expired).
LEMMA TokensPurged ==
    ASSUME NEW n \in Shards, NEW p, NEW was, NEW S, NEW C, NEW V, TokensInv(n, p, was, S, C, V),
           NEW now, now = was + 1
    PROVE  TokensInv(n, purge_expired(p, now), now, S, C, V)
<1> DEFINE q == purge_expired(p, now)
           kept(i) == IF p.tokens[i] # NoToken /\ Spent(p.tokens[i], now) THEN NoToken ELSE p.tokens[i]
<1>1. /\ p \in Predictors /\ was \in Nat /\ V \subseteq Nat
      /\ IssuedWell(n, p, was, S) /\ HeldWell(p, was, S, C, V) /\ CommittedWell(p, S, C)
  BY DEF TokensInv
<1>2. /\ p.tokens \in [TokenTable -> SeamTokens \union {NoToken}] /\ p.next_token_id \in Nat \ {0}
      /\ DOMAIN p.tokens = TokenTable
      /\ p = [tokens |-> p.tokens, next_token_id |-> p.next_token_id]
      /\ \A i \in TokenTable : p.tokens[i] # NoToken => p.tokens[i] \in SeamTokens
  BY <1>1, PredictorFields
<1>3. /\ q \in Predictors /\ q.next_token_id = p.next_token_id
      /\ \A i \in TokenTable : q.tokens[i] = kept(i)
  <2> DEFINE T == [i \in TokenTable |-> kept(i)]
  <2>1. \A i \in TokenTable : kept(i) \in SeamTokens \union {NoToken}
    BY <1>2
  <2> HIDE DEF kept
  <2>2. T \in [TokenTable -> SeamTokens \union {NoToken}] /\ \A i \in TokenTable : T[i] = kept(i)
    BY <2>1
  <2>3. q = [p EXCEPT !.tokens = T]
    BY <1>2 DEF purge_expired, kept
  <2> HIDE DEF T
  <2>4. q = [tokens |-> T, next_token_id |-> p.next_token_id]
    <3> HIDE DEF q
    <3> QED BY <1>2, <2>3
  <2> HIDE DEF q
  <2>5. [tokens |-> T, next_token_id |-> p.next_token_id] \in Predictors
    BY <1>2, <2>2 DEF Predictors
  <2> QED BY <2>2, <2>4, <2>5
<1> HIDE DEF q
<1>4. \A i \in TokenTable : q.tokens[i] # NoToken =>
          q.tokens[i] = p.tokens[i] /\ p.tokens[i] # NoToken /\ ~ Spent(p.tokens[i], was)
  <2> SUFFICES ASSUME NEW i \in TokenTable, q.tokens[i] # NoToken
               PROVE  q.tokens[i] = p.tokens[i] /\ p.tokens[i] # NoToken /\ ~ Spent(p.tokens[i], was)
    OBVIOUS
  <2>1. q.tokens[i] = p.tokens[i] /\ p.tokens[i] # NoToken /\ ~ Spent(p.tokens[i], now)
    BY <1>3
  <2>2. p.tokens[i].expiry_tick \in Nat
    BY <2>1, <1>2, TokenFields
  <2>3. ~ Spent(p.tokens[i], was)
    BY <2>1, <2>2, <1>1 DEF Spent
  <2> QED BY <2>1, <2>3
<1>5. /\ \A i \in TokenTable : p.tokens[i] # NoToken =>
             /\ Fresh(p.tokens[i]) \in S
             /\ p.tokens[i].is_consumed <=> p.tokens[i].token_id \in DOMAIN C
      /\ \A i, j \in TokenTable : p.tokens[i] # NoToken /\ p.tokens[j] # NoToken
                                  /\ p.tokens[i].token_id = p.tokens[j].token_id => i = j
      /\ \A i, j \in TokenTable : Rivals(p, was, i, j) => i = j
      /\ \A x \in S : x.token_id \notin DOMAIN C \union V /\ was <= x.expiry_tick =>
             \E i \in TokenTable : p.tokens[i] = x
  BY <1>1 DEF HeldWell
<1>6. HeldWell(q, now, S, C, V)
  <2>1. \A i \in TokenTable : q.tokens[i] # NoToken =>
             /\ Fresh(q.tokens[i]) \in S
             /\ q.tokens[i].is_consumed <=> q.tokens[i].token_id \in DOMAIN C
    BY <1>4, <1>5
  <2>2. \A i, j \in TokenTable : q.tokens[i] # NoToken /\ q.tokens[j] # NoToken
                                 /\ q.tokens[i].token_id = q.tokens[j].token_id => i = j
    BY <1>4, <1>5
  <2>3. ASSUME NEW i \in TokenTable, NEW j \in TokenTable, Rivals(q, now, i, j)
        PROVE  i = j
    <3>1. /\ q.tokens[i] = p.tokens[i] /\ p.tokens[i] # NoToken /\ ~ Spent(p.tokens[i], was)
          /\ q.tokens[j] = p.tokens[j] /\ p.tokens[j] # NoToken /\ ~ Spent(p.tokens[j], was)
      BY <1>4, <2>3 DEF Rivals
    <3>2. Rivals(p, was, i, j)
      BY <3>1, <2>3 DEF Rivals
    <3> QED BY <3>2, <1>5
  <2>4. ASSUME NEW x \in S, x.token_id \notin DOMAIN C \union V, now <= x.expiry_tick
        PROVE  \E i \in TokenTable : q.tokens[i] = x
    <3>1. x \in SeamTokens /\ ~ x.is_consumed /\ x.expiry_tick \in Nat
      BY <1>1, TokenFields DEF IssuedWell
    <3>2. was <= x.expiry_tick
      BY <2>4, <3>1, <1>1
    <3>3. PICK i \in TokenTable : p.tokens[i] = x
      BY <2>4, <3>2, <1>5
    <3>4. ~ Spent(x, now)
      BY <2>4, <3>1, <1>1 DEF Spent
    <3> QED BY <3>3, <3>4, <1>3
  <2>5. \A i, j \in TokenTable : Rivals(q, now, i, j) => i = j
    BY <2>3
  <2>6. \A x \in S : x.token_id \notin DOMAIN C \union V /\ now <= x.expiry_tick =>
            \E i \in TokenTable : q.tokens[i] = x
    BY <2>4
  <2> QED BY <2>1, <2>2, <2>5, <2>6, Zenon DEF HeldWell
<1>7. IssuedWell(n, q, now, S)
  <2>1. \A t \in S : t.issued_tick \in Nat /\ t.issued_tick <= was => t.issued_tick <= now
    BY <1>1
  <2>2. \A t \in S : t.issued_tick \in Nat
    BY <1>1, TokenFields DEF IssuedWell
  <2> QED BY <1>1, <1>3, <2>1, <2>2 DEF IssuedWell
<1>8. CommittedWell(q, S, C)
  BY <1>1, <1>3 DEF CommittedWell
<1>9. now \in Nat
  BY <1>1
<1> QED BY <1>1, <1>3, <1>6, <1>7, <1>8, <1>9 DEF TokensInv, q

(* ------------------------------ orchestrators ----------------------------- *)

Finites == {D \in SUBSET Regions : IsFiniteSet(D)}
Managers == UNION {ExactManagers(D) : D \in Finites}
Notices == UNION {[I -> SeamTokens] : I \in SUBSET (Nat \ {0})}
Orchestrators == [manager : Managers, predictor : Predictors, inbound : Notices,
                  current_tick : Nat]

(* A crowd is no wilderness, and there is a worker besides the background. *)
Thresholds == Wilderness < Hotspot /\ ShardCount > 1
BalancedMap(m) == \A s \in DOMAIN m.sectors : ~ IsHotspot(m, s) /\ ~ IsWilderness(m, s)

(* A peer of n issued the token, and committed the id. *)
IssuedElsewhere(n, t) == \E p \in Peers(n) : Fresh(t) \in issuedTokens[p]
CommittedElsewhere(n, id) == \E p \in Peers(n) : id \in DOMAIN crossings[p]

NoticeTrue(n, id, t) ==
    /\ t.target_shard = n /\ IssuedElsewhere(n, t)
    /\ t.is_consumed => CommittedElsewhere(n, id)

PreAuthOf(to, t) == SendTo(to, [kind |-> "PRE_AUTH", token |-> t])
CommitOf(to, id) == SendTo(to, [kind |-> "COMMIT", id |-> id])
RebalanceOf(to, s, h) == SendTo(to, [kind |-> "REBALANCE", sector |-> s, shard |-> h])

DatagramTrue(d) ==
    \E to \in Shards :
        \/ \E t \in SeamTokens :
               /\ d = PreAuthOf(to, t) /\ t.target_shard = to /\ IssuedElsewhere(to, t)
               /\ t.expiry_tick = t.issued_tick + TokenTtl
        \/ \E id \in Nat \ {0} : d = CommitOf(to, id) /\ CommittedElsewhere(to, id)
        \/ \E s \in Regions, h \in Shards : d = RebalanceOf(to, s, h)

SeamTypes ==
    /\ orch \in [Shards -> Orchestrators]
    /\ issuedTokens \in [Shards -> SUBSET SeamTokens] /\ crossings \in [Shards -> CrossingLogs]
    /\ evicted \in [Shards -> SUBSET Nat] /\ rebalanced \in [Shards -> BOOLEAN]

TokensOf(n) ==
    TokensInv(n, orch[n].predictor, orch[n].current_tick, issuedTokens[n], crossings[n], evicted[n])
BalancedAt(n) == rebalanced[n] /\ Thresholds => BalancedMap(orch[n].manager)
NoticesOf(n) == \A id \in DOMAIN orch[n].inbound : NoticeTrue(n, id, orch[n].inbound[id])

(* What is known of every orchestrator, and of what was ever sent. *)
SeamInv ==
    /\ SeamTypes
    /\ \A n \in Shards : TokensOf(n) /\ BalancedAt(n) /\ NoticesOf(n)
    /\ \A d \in datagrams : DatagramTrue(d)

\* The four fields of an orchestrator.
LEMMA OrchestratorFields ==
    ASSUME NEW o \in Orchestrators
    PROVE  /\ o = [manager |-> o.manager, predictor |-> o.predictor, inbound |-> o.inbound,
                   current_tick |-> o.current_tick]
           /\ o.manager \in Managers /\ o.predictor \in Predictors /\ o.inbound \in Notices
           /\ o.current_tick \in Nat
  BY DEF Orchestrators

\* The four fields of an orchestrator, one of them changed.
LEMMA OrchestratorChanged ==
    ASSUME NEW o \in Orchestrators
    PROVE  /\ \A m \in Managers : /\ [o EXCEPT !.manager = m] \in Orchestrators
                                  /\ [o EXCEPT !.manager = m].manager = m
                                  /\ [o EXCEPT !.manager = m].predictor = o.predictor
                                  /\ [o EXCEPT !.manager = m].inbound = o.inbound
                                  /\ [o EXCEPT !.manager = m].current_tick = o.current_tick
           /\ \A q \in Predictors : /\ [o EXCEPT !.predictor = q] \in Orchestrators
                                    /\ [o EXCEPT !.predictor = q].manager = o.manager
                                    /\ [o EXCEPT !.predictor = q].predictor = q
                                    /\ [o EXCEPT !.predictor = q].inbound = o.inbound
                                    /\ [o EXCEPT !.predictor = q].current_tick = o.current_tick
           /\ \A b \in Notices : /\ [o EXCEPT !.inbound = b] \in Orchestrators
                                 /\ [o EXCEPT !.inbound = b].manager = o.manager
                                 /\ [o EXCEPT !.inbound = b].predictor = o.predictor
                                 /\ [o EXCEPT !.inbound = b].inbound = b
                                 /\ [o EXCEPT !.inbound = b].current_tick = o.current_tick
<1>1. ASSUME NEW m \in Managers
      PROVE  /\ [o EXCEPT !.manager = m] \in Orchestrators
             /\ [o EXCEPT !.manager = m].manager = m
             /\ [o EXCEPT !.manager = m].predictor = o.predictor
             /\ [o EXCEPT !.manager = m].inbound = o.inbound
             /\ [o EXCEPT !.manager = m].current_tick = o.current_tick
  BY DEF Orchestrators
<1>2. ASSUME NEW q \in Predictors
      PROVE  /\ [o EXCEPT !.predictor = q] \in Orchestrators
             /\ [o EXCEPT !.predictor = q].manager = o.manager
             /\ [o EXCEPT !.predictor = q].predictor = q
             /\ [o EXCEPT !.predictor = q].inbound = o.inbound
             /\ [o EXCEPT !.predictor = q].current_tick = o.current_tick
  BY DEF Orchestrators
<1>3. ASSUME NEW b \in Notices
      PROVE  /\ [o EXCEPT !.inbound = b] \in Orchestrators
             /\ [o EXCEPT !.inbound = b].manager = o.manager
             /\ [o EXCEPT !.inbound = b].predictor = o.predictor
             /\ [o EXCEPT !.inbound = b].inbound = b
             /\ [o EXCEPT !.inbound = b].current_tick = o.current_tick
  BY DEF Orchestrators
<1> QED BY <1>1, <1>2, <1>3

\* What peers issued and committed grows, so what was told of it stays true.
LEMMA TruthStays ==
    ASSUME NEW n \in Shards, SeamTypes, SeamTypes',
           \A p \in Shards : issuedTokens[p] \subseteq issuedTokens'[p]
                             /\ DOMAIN crossings[p] \subseteq DOMAIN crossings'[p]
    PROVE  /\ \A t : IssuedElsewhere(n, t) => IssuedElsewhere(n, t)'
           /\ \A id : CommittedElsewhere(n, id) => CommittedElsewhere(n, id)'
           /\ \A d : DatagramTrue(d) => DatagramTrue(d)'
<1>1. \A k \in Shards : \A t : IssuedElsewhere(k, t) => IssuedElsewhere(k, t)'
  BY DEF IssuedElsewhere, Peers
<1>2. \A k \in Shards : \A id : CommittedElsewhere(k, id) => CommittedElsewhere(k, id)'
  BY DEF CommittedElsewhere, Peers
<1>3. \A d : DatagramTrue(d) => DatagramTrue(d)'
  BY <1>1, <1>2 DEF DatagramTrue
<1> QED BY <1>1, <1>2, <1>3

\* One orchestrator acts.
LEMMA SeamChange ==
    ASSUME NEW n \in Shards, SeamInv, SeamTypes',
           \A k \in Shards \ {n} :
               /\ orch'[k] = orch[k] /\ issuedTokens'[k] = issuedTokens[k]
               /\ crossings'[k] = crossings[k] /\ evicted'[k] = evicted[k]
               /\ rebalanced'[k] = rebalanced[k],
           issuedTokens[n] \subseteq issuedTokens'[n],
           DOMAIN crossings[n] \subseteq DOMAIN crossings'[n],
           TokensOf(n)', BalancedAt(n)', NoticesOf(n)',
           \A d \in datagrams' : d \in datagrams \/ DatagramTrue(d)'
    PROVE  SeamInv'
<1>1. \A p \in Shards : issuedTokens[p] \subseteq issuedTokens'[p]
                        /\ DOMAIN crossings[p] \subseteq DOMAIN crossings'[p]
  OBVIOUS
<1>2. SeamTypes /\ \A k \in Shards : TokensOf(k) /\ BalancedAt(k) /\ NoticesOf(k)
  BY DEF SeamInv
<1>3. \A d \in datagrams' : DatagramTrue(d)'
  <2>1. \A d \in datagrams : DatagramTrue(d)
    BY DEF SeamInv
  <2>2. \A d : DatagramTrue(d) => DatagramTrue(d)'
    BY <1>1, <1>2, TruthStays
  <2> QED BY <2>1, <2>2
<1>4. ASSUME NEW k \in Shards, k # n PROVE TokensOf(k)' /\ BalancedAt(k)' /\ NoticesOf(k)'
  <2>0. /\ orch'[k] = orch[k] /\ issuedTokens'[k] = issuedTokens[k]
        /\ crossings'[k] = crossings[k] /\ evicted'[k] = evicted[k]
        /\ rebalanced'[k] = rebalanced[k]
    BY <1>4
  <2>1. TokensOf(k)'
    BY <1>2, <2>0 DEF TokensOf
  <2>2. BalancedAt(k)'
    BY <1>2, <2>0 DEF BalancedAt
  <2>3. NoticesOf(k)'
    <3>1. /\ \A t : IssuedElsewhere(k, t) => IssuedElsewhere(k, t)'
          /\ \A id : CommittedElsewhere(k, id) => CommittedElsewhere(k, id)'
      BY <1>1, <1>2, TruthStays
    <3> QED BY <1>2, <2>0, <3>1 DEF NoticesOf, NoticeTrue
  <2> QED BY <2>1, <2>2, <2>3
<1>5. \A k \in Shards : TokensOf(k)' /\ BalancedAt(k)' /\ NoticesOf(k)'
  BY <1>4
<1> QED BY <1>3, <1>5 DEF SeamInv

\* What a shard manager does keeps its counts exact, and a rebalanced one is
\* balanced (adaptive_shard.rs).
LEMMA ManagersKeep ==
    ASSUME NEW m \in Managers
    PROVE  /\ \A s \in Regions, h \in Nat : assign_sector(m, s, h) \in Managers
           /\ \A s \in DOMAIN m.sectors, c \in Nat : update_sector_entity_count(m, s, c) \in Managers
           /\ \A h \in Shards : [m EXCEPT !.background = h] \in Managers
           /\ \A order \in SetToSeqs(DOMAIN m.sectors) :
                  /\ evaluate_rebalance(m, order) \in Managers
                  /\ DOMAIN evaluate_rebalance(m, order).sectors = DOMAIN m.sectors
                  /\ Thresholds => BalancedMap(evaluate_rebalance(m, order))
           /\ DOMAIN m.sectors \subseteq Regions
           /\ \A s \in DOMAIN m.sectors : m.sectors[s].shard_id \in Shards
           /\ m.background \in Shards
<1>1. PICK D \in Finites : m \in ExactManagers(D)
  BY DEF Managers
<1>2. D \subseteq Regions /\ IsFiniteSet(D)
  BY DEF Finites
<1>3. m \in ManagersOf(D)
  BY <1>1 DEF ExactManagers
<1>4. DOMAIN m.sectors = D /\ m.background \in Shards
      /\ \A s \in D : m.sectors[s].shard_id \in Shards
  BY <1>3, ManagerFields
<1>5. ASSUME NEW s \in Regions, NEW h \in Nat PROVE assign_sector(m, s, h) \in Managers
  <2> DEFINE E == D \union {s}
  <2>1. E \in Finites
    BY <1>2, FS_AddElement DEF Finites
  <2>2. assign_sector(m, s, h) \in ExactManagers(D) \union ExactManagers(E)
    BY <1>1, <1>2, AssignedExactly
  <2> HIDE DEF E
  <2> QED BY <1>1, <2>1, <2>2 DEF Managers
<1>6. ASSUME NEW s \in DOMAIN m.sectors, NEW c \in Nat
      PROVE  update_sector_entity_count(m, s, c) \in Managers
  <2>1. update_sector_entity_count(m, s, c) \in ExactManagers(D)
    BY <1>1, <1>2, <1>4, CountedExactly
  <2> QED BY <1>1, <2>1 DEF Managers
<1>7. ASSUME NEW h \in Shards PROVE [m EXCEPT !.background = h] \in Managers
  <2> DEFINE r == [sectors |-> m.sectors, shards |-> m.shards, background |-> h]
  <2>1. /\ m = [sectors |-> m.sectors, shards |-> m.shards, background |-> m.background]
        /\ m.sectors \in [D -> SectorMetas] /\ m.shards \in [Shards -> MetricsOf]
    BY <1>3, ManagerFields
  <2>2. [m EXCEPT !.background = h] = r
    BY <2>1
  <2>3. r \in ManagersOf(D) /\ r.sectors = m.sectors /\ r.shards = m.shards
    BY <2>1 DEF ManagersOf
  <2> HIDE DEF r
  <2>4. ExactMap(m)
    BY <1>1 DEF ExactManagers
  <2>5. ExactMap(r)
    <3>1. CountsIn(r) = CountsIn(m) /\ \A k : OwnSectors(r, k) = OwnSectors(m, k)
      BY <2>3 DEF CountsIn, OwnSectors
    <3> QED BY <2>3, <2>4, <3>1 DEF ExactMap
  <2> QED BY <1>1, <2>2, <2>3, <2>5 DEF Managers, ExactManagers
<1>8. ASSUME NEW order \in SetToSeqs(DOMAIN m.sectors)
      PROVE  /\ evaluate_rebalance(m, order) \in Managers
             /\ DOMAIN evaluate_rebalance(m, order).sectors = DOMAIN m.sectors
             /\ Thresholds => BalancedMap(evaluate_rebalance(m, order))
  <2> DEFINE r == evaluate_rebalance(m, order)
  <2>1. order \in SetToSeqs(D)
    BY <1>4
  <2>2. /\ r \in ExactManagers(D)
        /\ Wilderness < Hotspot /\ ShardCount > 1 =>
               \A s \in D : ~ IsHotspot(r, s) /\ ~ IsWilderness(r, s)
    BY <1>1, <1>2, <2>1, RebalancedExactly
  <2> HIDE DEF r
  <2>3. r \in ManagersOf(D)
    BY <2>2 DEF ExactManagers
  <2>4. DOMAIN r.sectors = D
    BY <2>3, ManagerFields
  <2>5. r \in Managers
    BY <1>1, <2>2 DEF Managers
  <2>6. Thresholds => BalancedMap(r)
    BY <2>2, <2>4 DEF Thresholds, BalancedMap
  <2> QED BY <1>4, <2>4, <2>5, <2>6 DEF r
<1> QED BY <1>2, <1>4, <1>5, <1>6, <1>7, <1>8

\* Only the map of one orchestrator changes.
LEMMA MapChange ==
    ASSUME NEW n \in Shards, SeamInv, NEW m \in Managers,
           orch' = [orch EXCEPT ![n] = [orch[n] EXCEPT !.manager = m]],
           UNCHANGED <<issuedTokens, crossings, evicted>>,
           NEW b \in BOOLEAN, rebalanced' = [rebalanced EXCEPT ![n] = b],
           b /\ Thresholds => BalancedMap(m),
           \A d \in datagrams' : d \in datagrams \/ DatagramTrue(d)'
    PROVE  SeamInv'
<1> DEFINE o == orch[n]  r == [o EXCEPT !.manager = m]
<1>0. SeamTypes /\ TokensOf(n) /\ BalancedAt(n) /\ NoticesOf(n)
  BY DEF SeamInv
<1>1. o \in Orchestrators
  BY <1>0 DEF SeamTypes
<1>2. /\ r \in Orchestrators /\ r.manager = m /\ r.predictor = o.predictor
      /\ r.inbound = o.inbound /\ r.current_tick = o.current_tick
  BY <1>1, OrchestratorChanged
<1> HIDE DEF r
<1>3. orch' = [orch EXCEPT ![n] = r]
  BY DEF r
<1>4. orch \in [Shards -> Orchestrators] /\ rebalanced \in [Shards -> BOOLEAN]
  BY <1>0 DEF SeamTypes
<1>5. /\ orch' \in [Shards -> Orchestrators] /\ orch'[n] = r
      /\ \A k \in Shards \ {n} : orch'[k] = orch[k]
  BY <1>2, <1>3, <1>4
<1>6. /\ rebalanced' \in [Shards -> BOOLEAN] /\ rebalanced'[n] = b
      /\ \A k \in Shards \ {n} : rebalanced'[k] = rebalanced[k]
  BY <1>4
<1>7. issuedTokens' = issuedTokens /\ crossings' = crossings /\ evicted' = evicted
  OBVIOUS
<1>8. SeamTypes'
  BY <1>0, <1>5, <1>6, <1>7 DEF SeamTypes
<1>9. TokensOf(n)'
  BY <1>0, <1>2, <1>5, <1>7 DEF TokensOf
<1>10. BalancedAt(n)'
  BY <1>2, <1>5, <1>6 DEF BalancedAt
<1>11. NoticesOf(n)'
  <2>1. \A t : IssuedElsewhere(n, t)' = IssuedElsewhere(n, t)
    BY <1>7 DEF IssuedElsewhere
  <2>2. \A id : CommittedElsewhere(n, id)' = CommittedElsewhere(n, id)
    BY <1>7 DEF CommittedElsewhere
  <2> QED BY <1>0, <1>2, <1>5, <2>1, <2>2 DEF NoticesOf, NoticeTrue
<1>12. \A k \in Shards \ {n} :
           /\ orch'[k] = orch[k] /\ issuedTokens'[k] = issuedTokens[k]
           /\ crossings'[k] = crossings[k] /\ evicted'[k] = evicted[k]
           /\ rebalanced'[k] = rebalanced[k]
  BY <1>5, <1>6, <1>7
<1>13. issuedTokens[n] \subseteq issuedTokens'[n] /\ DOMAIN crossings[n] \subseteq DOMAIN crossings'[n]
  BY <1>7
<1> QED BY <1>8, <1>9, <1>10, <1>11, <1>12, <1>13, SeamChange

\* administer and configure_thresholds (adaptive_shard.rs).
LEMMA SeamAdministered ==
    ASSUME SeamInv, NEW n \in Shards, NEW s \in Regions, administer(n, s)
    PROVE  SeamInv'
<1> DEFINE o == orch[n]
<1>0. SeamTypes /\ rebalanced' = [rebalanced EXCEPT ![n] = FALSE]
      /\ UNCHANGED <<datagrams, issuedTokens, crossings, evicted>>
  BY DEF SeamInv, administer
<1>1. o \in Orchestrators /\ o.manager \in Managers
  BY <1>0, OrchestratorFields DEF SeamTypes
<1>2. ASSUME NEW m \in Managers, orch' = [orch EXCEPT ![n] = [orch[n] EXCEPT !.manager = m]]
      PROVE  SeamInv'
  BY <1>0, <1>2, MapChange
<1>3. CASE \E shard \in Shards \cup {ShardCount} :
              orch' = [orch EXCEPT ![n].manager = assign_sector(@, s, shard)]
  <2>1. PICK shard \in Shards \cup {ShardCount} :
              orch' = [orch EXCEPT ![n].manager = assign_sector(@, s, shard)]
    BY <1>3
  <2> DEFINE m == assign_sector(o.manager, s, shard)
  <2>2. shard \in Nat
    BY ContinentAssumption DEF Shards
  <2>3. m \in Managers
    BY <1>1, <2>2, ManagersKeep
  <2>4. orch' = [orch EXCEPT ![n] = [orch[n] EXCEPT !.manager = m]]
    BY <2>1
  <2> HIDE DEF m
  <2> QED BY <1>2, <2>3, <2>4
<1>4. CASE /\ s \in DOMAIN orch[n].manager.sectors
           /\ \E count \in Crowds :
              orch' = [orch EXCEPT ![n].manager = update_sector_entity_count(@, s, count)]
  <2>1. PICK count \in Crowds :
              orch' = [orch EXCEPT ![n].manager = update_sector_entity_count(@, s, count)]
    BY <1>4
  <2> DEFINE m == update_sector_entity_count(o.manager, s, count)
  <2>2. count \in Nat
    BY ContinentAssumption
  <2>3. m \in Managers
    BY <1>1, <1>4, <2>2, ManagersKeep
  <2>4. orch' = [orch EXCEPT ![n] = [orch[n] EXCEPT !.manager = m]]
    BY <2>1
  <2> HIDE DEF m
  <2> QED BY <1>2, <2>3, <2>4
<1> QED BY <1>3, <1>4 DEF administer

\* Another shard becomes the background (configure_thresholds).
LEMMA SeamConfigured ==
    ASSUME SeamInv, NEW n \in Shards, NEW shard \in Shards \union {ShardCount},
           configure_thresholds(n, shard)
    PROVE  SeamInv'
<1> DEFINE o == orch[n]  b == IF shard < ShardCount THEN shard ELSE o.manager.background
           m == [o.manager EXCEPT !.background = b]
<1>0. SeamTypes /\ rebalanced' = [rebalanced EXCEPT ![n] = FALSE]
      /\ UNCHANGED <<datagrams, issuedTokens, crossings, evicted>>
      /\ orch' = [orch EXCEPT ![n].manager.background = IF shard < ShardCount THEN shard ELSE @]
  BY DEF SeamInv, configure_thresholds
<1>1. o \in Orchestrators /\ o.manager \in Managers
  BY <1>0, OrchestratorFields DEF SeamTypes
<1>2. b \in Shards
  <2>1. o.manager.background \in Shards
    BY <1>1, ManagersKeep
  <2>2. shard < ShardCount => shard \in Shards
    BY ContinentAssumption DEF Shards
  <2> QED BY <2>1, <2>2
<1>3. orch' = [orch EXCEPT ![n] = [orch[n] EXCEPT !.manager = m]]
  BY <1>0
<1> HIDE DEF b
<1>4. m \in Managers
  BY <1>1, <1>2, ManagersKeep
<1> HIDE DEF m
<1> QED BY <1>0, <1>3, <1>4, MapChange

\* Only the table of one orchestrator changes.
LEMMA TableChange ==
    ASSUME NEW n \in Shards, SeamInv, NEW q, NEW S, NEW C, NEW V,
           orch' = [orch EXCEPT ![n] = [orch[n] EXCEPT !.predictor = q]],
           issuedTokens' = [issuedTokens EXCEPT ![n] = S],
           crossings' = [crossings EXCEPT ![n] = C],
           evicted' = [evicted EXCEPT ![n] = V], rebalanced' = rebalanced,
           issuedTokens[n] \subseteq S, DOMAIN crossings[n] \subseteq DOMAIN C,
           TokensInv(n, q, orch[n].current_tick, S, C, V),
           \A d \in datagrams' : d \in datagrams \/ DatagramTrue(d)'
    PROVE  SeamInv'
<1> DEFINE o == orch[n]  r == [o EXCEPT !.predictor = q]
<1>0. SeamTypes /\ TokensOf(n) /\ BalancedAt(n) /\ NoticesOf(n)
  BY DEF SeamInv
<1>1. o \in Orchestrators
  BY <1>0 DEF SeamTypes
<1>2. q \in Predictors /\ S \subseteq SeamTokens /\ C \in CrossingLogs /\ V \subseteq Nat
  BY DEF TokensInv, IssuedWell, CommittedWell
<1>3. /\ r \in Orchestrators /\ r.manager = o.manager /\ r.predictor = q
      /\ r.inbound = o.inbound /\ r.current_tick = o.current_tick
  BY <1>1, <1>2, OrchestratorChanged
<1> HIDE DEF r
<1>4. orch' = [orch EXCEPT ![n] = r]
  BY DEF r
<1>5. /\ orch \in [Shards -> Orchestrators] /\ issuedTokens \in [Shards -> SUBSET SeamTokens]
      /\ crossings \in [Shards -> CrossingLogs] /\ evicted \in [Shards -> SUBSET Nat]
      /\ rebalanced \in [Shards -> BOOLEAN]
  BY <1>0 DEF SeamTypes
<1>6. /\ orch' \in [Shards -> Orchestrators] /\ orch'[n] = r
      /\ \A k \in Shards \ {n} : orch'[k] = orch[k]
  BY <1>3, <1>4, <1>5
<1>7. /\ issuedTokens' \in [Shards -> SUBSET SeamTokens] /\ issuedTokens'[n] = S
      /\ \A k \in Shards \ {n} : issuedTokens'[k] = issuedTokens[k]
  BY <1>2, <1>5
<1>8. /\ crossings' \in [Shards -> CrossingLogs] /\ crossings'[n] = C
      /\ \A k \in Shards \ {n} : crossings'[k] = crossings[k]
  BY <1>2, <1>5
<1>9. /\ evicted' \in [Shards -> SUBSET Nat] /\ evicted'[n] = V
      /\ \A k \in Shards \ {n} : evicted'[k] = evicted[k]
  BY <1>2, <1>5
<1>10. rebalanced' = rebalanced
  OBVIOUS
<1>11. SeamTypes'
  BY <1>5, <1>6, <1>7, <1>8, <1>9, <1>10 DEF SeamTypes
<1>12. TokensOf(n)'
  BY <1>3, <1>6, <1>7, <1>8, <1>9 DEF TokensOf
<1>13. BalancedAt(n)'
  BY <1>0, <1>3, <1>6, <1>10 DEF BalancedAt
<1>14. issuedTokens[n] \subseteq issuedTokens'[n] /\ DOMAIN crossings[n] \subseteq DOMAIN crossings'[n]
  BY <1>7, <1>8
<1>15. \A k \in Shards \ {n} :
           /\ orch'[k] = orch[k] /\ issuedTokens'[k] = issuedTokens[k]
           /\ crossings'[k] = crossings[k] /\ evicted'[k] = evicted[k]
           /\ rebalanced'[k] = rebalanced[k]
  BY <1>6, <1>7, <1>8, <1>9, <1>10
<1>16. NoticesOf(n)'
  <2>1. \A p \in Shards : issuedTokens[p] \subseteq issuedTokens'[p]
                          /\ DOMAIN crossings[p] \subseteq DOMAIN crossings'[p]
    BY <1>14, <1>15
  <2>2. /\ \A t : IssuedElsewhere(n, t) => IssuedElsewhere(n, t)'
        /\ \A id : CommittedElsewhere(n, id) => CommittedElsewhere(n, id)'
    BY <1>0, <1>11, <2>1, TruthStays
  <2> QED BY <1>0, <1>3, <1>6, <2>2 DEF NoticesOf, NoticeTrue
<1> QED BY <1>11, <1>12, <1>13, <1>14, <1>15, <1>16, SeamChange

\* evaluate_entity_movement: a live token is announced again, or a new one is
\* stored and announced (predictive_migration.rs, continental.rs).
LEMMA SeamMoved ==
    ASSUME SeamInv, NEW n \in Shards, NEW e \in Riders, NEW drive,
           evaluate_entity_movement(n, e, drive)
    PROVE  SeamInv'
<1> DEFINE o == orch[n]  p == o.predictor  now == o.current_tick
           sector == project_entity_trajectory(drive)  id == p.next_token_id
<1>0. SeamTypes /\ TokensOf(n) /\ BalancedAt(n) /\ NoticesOf(n)
  BY DEF SeamInv
<1>1. /\ o \in Orchestrators /\ o.manager \in Managers /\ p \in Predictors /\ now \in Nat
  BY <1>0, OrchestratorFields DEF SeamTypes
<1>2. PICK target \in get_shard_for_sector(o.manager, sector) \ {n} :
          LET live == LiveFor(p, e, target, now)
              fresh == Token(id, e, n, target, sector, now)
              slot == TokenSlot(p, now)
              token == IF live # {} THEN CHOOSE t \in live : TRUE ELSE fresh
              old == p.tokens[slot]
          IN  /\ datagrams' = datagrams \cup {SendTo(target, [kind |-> "PRE_AUTH", token |-> token])}
              /\ IF live # {}
                 THEN UNCHANGED <<orch, issuedTokens, evicted>>
                 ELSE /\ id <= MaxSeamTokens
                      /\ orch' = [orch EXCEPT ![n].predictor.tokens[slot] = fresh,
                                              ![n].predictor.next_token_id = id + 1]
                      /\ issuedTokens' = [issuedTokens EXCEPT ![n] = @ \cup {fresh}]
                      /\ evicted' = [evicted EXCEPT ![n] =
                             IF old # NoToken /\ Cardinality({t \in SlotsOf(p) :
                                                     ~ Spent(t, now)})
                                                 = MAX_ACTIVE_PRE_AUTHS
                             THEN @ \cup {old.token_id} ELSE @]
              /\ UNCHANGED <<crossings, rebalanced>>
  BY DEF evaluate_entity_movement
<1> DEFINE live == LiveFor(p, e, target, now)
           fresh == Token(id, e, n, target, sector, now)
           slot == TokenSlot(p, now)
           token == IF live # {} THEN CHOOSE t \in live : TRUE ELSE fresh
           old == p.tokens[slot]
           full == Cardinality({t \in SlotsOf(p) : ~ Spent(t, now)}) = MAX_ACTIVE_PRE_AUTHS
<1>3. target \in Shards \ {n} /\ sector \in Regions
  <2>1. sector \in DOMAIN o.manager.sectors /\ target = o.manager.sectors[sector].shard_id
    BY <1>2 DEF get_shard_for_sector
  <2> QED BY <1>1, <1>2, <2>1, ManagersKeep
<1>4. datagrams' = datagrams \union {PreAuthOf(target, token)}
  BY <1>2 DEF PreAuthOf
<1>5. crossings' = crossings /\ rebalanced' = rebalanced
  BY <1>2
<1>6. TokensInv(n, p, now, issuedTokens[n], crossings[n], evicted[n])
  BY <1>0 DEF TokensOf
<1>7. n \in Peers(target)
  BY <1>3 DEF Peers
<1>8. ASSUME NEW t \in SeamTokens, t = token, Fresh(t) \in issuedTokens'[n],
             t.target_shard = target, t.expiry_tick = t.issued_tick + TokenTtl
      PROVE  \A d \in datagrams' : d \in datagrams \/ DatagramTrue(d)'
  <2>1. IssuedElsewhere(target, t)'
    BY <1>7, <1>8 DEF IssuedElsewhere
  <2>2. DatagramTrue(PreAuthOf(target, t))'
    BY <1>3, <1>8, <2>1 DEF DatagramTrue
  <2>3. datagrams' = datagrams \union {PreAuthOf(target, t)}
    <3> HIDE DEF token
    <3> QED BY <1>4, <1>8
  <2> QED BY <2>2, <2>3
<1>9. CASE live # {}
  <2>1. orch' = orch /\ issuedTokens' = issuedTokens /\ evicted' = evicted
    BY <1>2, <1>9
  <2>2. token \in live
    <3> HIDE DEF live
    <3> QED BY <1>9
  <2> HIDE DEF token
  <2>3. /\ token \in SlotsOf(p) /\ token.target_shard = target /\ ~ Spent(token, now)
    BY <2>2 DEF LiveFor
  <2>4. PICK i \in TokenTable : token = p.tokens[i] /\ token # NoToken
    BY <1>1, <2>3, PredictorFields DEF SlotsOf
  <2>5. token \in SeamTokens /\ ~ token.is_consumed
    BY <1>1, <2>3, <2>4, PredictorFields DEF Spent
  <2>6. Fresh(token) = token /\ Fresh(token) \in issuedTokens[n]
    BY <1>6, <2>4, <2>5, TokenFields DEF TokensInv, HeldWell
  <2>7. token.expiry_tick = token.issued_tick + TokenTtl
    BY <1>6, <2>6 DEF TokensInv, IssuedWell
  <2>10. \A d \in datagrams' : d \in datagrams \/ DatagramTrue(d)'
    BY <1>8, <2>1, <2>3, <2>5, <2>6, <2>7
  <2>11. SeamTypes' /\ TokensOf(n)' /\ BalancedAt(n)' /\ NoticesOf(n)'
    BY <1>0, <1>5, <2>1 DEF SeamTypes, TokensOf, BalancedAt, NoticesOf, NoticeTrue,
                            IssuedElsewhere, CommittedElsewhere
  <2> QED BY <1>5, <2>1, <2>10, <2>11, SeamChange
<1>10. CASE live = {}
  <2> DEFINE T == [p.tokens EXCEPT ![slot] = fresh]
             q == [tokens |-> T, next_token_id |-> id + 1]
             S == issuedTokens[n] \union {fresh}
             W == IF old # NoToken /\ full THEN evicted[n] \union {old.token_id} ELSE evicted[n]
  <2>1. token = fresh
    BY <1>10
  <2>2. /\ orch' = [orch EXCEPT ![n].predictor.tokens[slot] = fresh,
                                ![n].predictor.next_token_id = id + 1]
        /\ issuedTokens' = [issuedTokens EXCEPT ![n] = S]
        /\ evicted' = [evicted EXCEPT ![n] = W]
    BY <1>2, <1>10
  <2>3. TokensInv(n, q, now, S, crossings[n], W)
    <3> HIDE DEF live
    <3>1. q = [tokens |-> [p.tokens EXCEPT ![slot] = fresh], next_token_id |-> p.next_token_id + 1]
      OBVIOUS
    <3>2. W = IF p.tokens[slot] # NoToken
                 /\ Cardinality({t \in SlotsOf(p) : ~ Spent(t, now)}) = MAX_ACTIVE_PRE_AUTHS
              THEN evicted[n] \union {p.tokens[slot].token_id} ELSE evicted[n]
      OBVIOUS
    <3>3. fresh = Token(p.next_token_id, e, n, target, sector, now) /\ slot = TokenSlot(p, now)
      OBVIOUS
    <3>4. LiveFor(p, e, target, now) = {}
      BY <1>10 DEF live
    <3>5. S = issuedTokens[n] \union {fresh}
      OBVIOUS
    <3> HIDE DEF q, W, fresh, slot, S
    <3>6. TokensInv(n, q, now, issuedTokens[n] \union {fresh}, crossings[n], W)
      <4> HIDE DEF p, now, sector
      <4> QED BY <1>3, <1>6, <3>1, <3>2, <3>3, <3>4, TokenStored
    <3> QED BY <3>5, <3>6
  <2>4. orch' = [orch EXCEPT ![n] = [orch[n] EXCEPT !.predictor = q]]
    <3>1. orch' = [orch EXCEPT ![n] = [o EXCEPT !.predictor = [p EXCEPT !.tokens = T,
                                                                        !.next_token_id = id + 1]]]
      <4> HIDE DEF fresh, slot
      <4> QED BY <2>2
    <3>2. p = [tokens |-> p.tokens, next_token_id |-> p.next_token_id]
      BY <1>1, PredictorFields
    <3>3. [p EXCEPT !.tokens = T, !.next_token_id = id + 1] = q
      <4> DEFINE a == p.tokens  r == [p EXCEPT !.tokens = T]
      <4>1. r = [tokens |-> T, next_token_id |-> id]
        <5>1. p = [tokens |-> a, next_token_id |-> id]
          BY <3>2
        <5> HIDE DEF p, T, id, a
        <5> QED BY <5>1
      <4> HIDE DEF r, T, id
      <4>2. [r EXCEPT !.next_token_id = id + 1] = q
        BY <4>1
      <4> QED BY <4>2 DEF r
    <3> HIDE DEF T, id, q
    <3> QED BY <3>1, <3>3
  <2> HIDE DEF q
  <2>5. fresh \in SeamTokens /\ ~ fresh.is_consumed /\ fresh.target_shard = target
        /\ fresh.expiry_tick = fresh.issued_tick + TokenTtl
    <3>1. S \subseteq SeamTokens /\ \A t \in S : t.expiry_tick = t.issued_tick + TokenTtl
                                                /\ ~ t.is_consumed
      BY <2>3 DEF TokensInv, IssuedWell
    <3>2. fresh.target_shard = target
      BY DEF Token
    <3> QED BY <3>1, <3>2
  <2> HIDE DEF W
  <2>6. issuedTokens'[n] = S
    <3>1. issuedTokens \in [Shards -> SUBSET SeamTokens]
      BY <1>0 DEF SeamTypes
    <3> HIDE DEF S
    <3> QED BY <2>2, <3>1
  <2>7. Fresh(fresh) \in issuedTokens'[n]
    <3>1. Fresh(fresh) = fresh
      BY <2>5, TokenFields
    <3> QED BY <2>6, <3>1
  <2> HIDE DEF fresh, token
  <2>9. \A d \in datagrams' : d \in datagrams \/ DatagramTrue(d)'
    BY <1>8, <2>1, <2>5, <2>7
  <2>10. issuedTokens[n] \subseteq S
    OBVIOUS
  <2>11. crossings' = [crossings EXCEPT ![n] = crossings[n]]
    BY <1>0, <1>5 DEF SeamTypes
  <2> HIDE DEF S
  <2>12. DOMAIN crossings[n] \subseteq DOMAIN crossings[n]
    OBVIOUS
  <2> QED BY <1>5, <2>2, <2>3, <2>4, <2>9, <2>10, <2>11, <2>12, TableChange
<1> QED BY <1>9, <1>10

\* commit_migration: a live token is consumed, and the target told
\* (predictive_migration.rs, validate_and_consume).
LEMMA SeamCommitted ==
    ASSUME SeamInv, NEW n \in Shards, NEW id \in 1..MaxSeamTokens, NEW e, NEW target,
           commit_migration(n, id, e, target)
    PROVE  SeamInv'
<1> DEFINE o == orch[n]  p == o.predictor  now == o.current_tick
<1>0. SeamTypes /\ TokensOf(n) /\ BalancedAt(n) /\ NoticesOf(n)
  BY DEF SeamInv
<1>1. /\ o \in Orchestrators /\ p \in Predictors /\ now \in Nat
      /\ DOMAIN p.tokens = TokenTable /\ id \in Nat \ {0}
      /\ p = [tokens |-> p.tokens, next_token_id |-> p.next_token_id]
  <2>1. o \in Orchestrators /\ p \in Predictors /\ now \in Nat
    BY <1>0, OrchestratorFields DEF SeamTypes
  <2>2. id \in Nat \ {0}
    BY BoundaryLimits
  <2> QED BY <2>1, <2>2, PredictorFields
<1>2. PICK slot \in DOMAIN p.tokens :
          LET t == p.tokens[slot]
          IN  /\ t.token_id = id
              /\ t.entity_id = e /\ t.target_shard = target
              /\ ~ t.is_consumed
              /\ now <= t.expiry_tick
              /\ orch' = [orch EXCEPT ![n].predictor.tokens[slot].is_consumed = TRUE]
              /\ crossings' = [crossings EXCEPT ![n] = With(@, id,
                     IF id \in DOMAIN @ THEN Append(@[id], now) ELSE <<now>>)]
              /\ datagrams' = datagrams \cup {SendTo(target, [kind |-> "COMMIT", id |-> id])}
              /\ UNCHANGED <<issuedTokens, evicted, rebalanced>>
  BY DEF commit_migration
<1> DEFINE t == p.tokens[slot]
           u == [t EXCEPT !.is_consumed = TRUE]
           T == [p.tokens EXCEPT ![slot] = u]
           q == [tokens |-> T, next_token_id |-> p.next_token_id]
           C == crossings[n]
           B == With(C, id, IF id \in DOMAIN C THEN Append(C[id], now) ELSE <<now>>)
<1>3. /\ t.token_id = id /\ t.target_shard = target /\ ~ t.is_consumed /\ now <= t.expiry_tick
      /\ orch' = [orch EXCEPT ![n].predictor.tokens[slot].is_consumed = TRUE]
      /\ crossings' = [crossings EXCEPT ![n] = B]
      /\ datagrams' = datagrams \union {CommitOf(target, id)}
      /\ issuedTokens' = issuedTokens /\ evicted' = evicted /\ rebalanced' = rebalanced
  BY <1>2 DEF CommitOf
<1>4. slot \in TokenTable
  BY <1>1
<1>5. /\ TokensInv(n, q, now, issuedTokens[n], B, evicted[n])
      /\ t \in SeamTokens /\ target # n
      /\ DOMAIN C \subseteq DOMAIN B /\ id \in DOMAIN B
  <2>1. TokensInv(n, p, now, issuedTokens[n], C, evicted[n])
    BY <1>0 DEF TokensOf
  <2>2. q = [tokens |-> [p.tokens EXCEPT ![slot] = [p.tokens[slot] EXCEPT !.is_consumed = TRUE]],
             next_token_id |-> p.next_token_id]
    OBVIOUS
  <2>3. B = With(C, id, IF id \in DOMAIN C THEN Append(C[id], now) ELSE <<now>>)
    OBVIOUS
  <2>4. p.tokens[slot].token_id = id /\ ~ p.tokens[slot].is_consumed
        /\ now <= p.tokens[slot].expiry_tick
    BY <1>3
  <2> HIDE DEF q, B
  <2>5. /\ TokensInv(n, q, now, issuedTokens[n], B, evicted[n])
        /\ p.tokens[slot] \in SeamTokens /\ p.tokens[slot].target_shard # n
        /\ DOMAIN C \subseteq DOMAIN B /\ id \in DOMAIN B
    <3> HIDE DEF p, now, C
    <3> QED BY <1>1, <1>4, <2>1, <2>2, <2>3, <2>4, TokenCommitted
  <2> QED BY <1>3, <2>5
<1>6. orch' = [orch EXCEPT ![n] = [orch[n] EXCEPT !.predictor = q]]
  <2>1. orch' = [orch EXCEPT ![n] = [o EXCEPT !.predictor = [p EXCEPT !.tokens = T]]]
    BY <1>3
  <2>2. [p EXCEPT !.tokens = T] = q
    <3> DEFINE a == p.tokens  id0 == p.next_token_id
    <3>1. p = [tokens |-> a, next_token_id |-> id0]
      BY <1>1
    <3> HIDE DEF p, T, a, id0
    <3>2. [p EXCEPT !.tokens = T] = [tokens |-> T, next_token_id |-> id0]
      BY <3>1
    <3> QED BY <3>2 DEF id0
  <2> HIDE DEF T, q
  <2> QED BY <2>1, <2>2
<1> HIDE DEF q, B
<1>7. target \in Shards /\ n \in Peers(target)
  BY <1>3, <1>5, TokenFields DEF Peers
<1>8. crossings'[n] = B
  BY <1>0, <1>3 DEF SeamTypes
<1>9. CommittedElsewhere(target, id)'
  <2>1. id \in DOMAIN (crossings'[n])
    BY <1>5, <1>8
  <2> QED BY <1>7, <2>1 DEF CommittedElsewhere
<1>10. DatagramTrue(CommitOf(target, id))'
  BY <1>1, <1>7, <1>9 DEF DatagramTrue
<1>11. \A d \in datagrams' : d \in datagrams \/ DatagramTrue(d)'
  BY <1>3, <1>10
<1>12. /\ issuedTokens' = [issuedTokens EXCEPT ![n] = issuedTokens[n]]
       /\ evicted' = [evicted EXCEPT ![n] = evicted[n]]
  BY <1>0, <1>3 DEF SeamTypes
<1>13. issuedTokens[n] \subseteq issuedTokens[n]
  OBVIOUS
<1> QED BY <1>3, <1>5, <1>6, <1>11, <1>12, <1>13, TableChange

\* continent_step_tick: the tick is set, spent tokens go, sectors move
\* (continental.rs, step_tick).
LEMMA SeamTicked ==
    ASSUME SeamInv, NEW n \in Shards, continent_step_tick(n)
    PROVE  SeamInv'
<1> DEFINE o == orch[n]  now == o.current_tick + 1
<1>0. SeamTypes /\ TokensOf(n) /\ BalancedAt(n) /\ NoticesOf(n)
  BY DEF SeamInv
<1>1. /\ o \in Orchestrators /\ o.manager \in Managers /\ o.predictor \in Predictors
      /\ o.inbound \in Notices /\ o.current_tick \in Nat
      /\ o = [manager |-> o.manager, predictor |-> o.predictor, inbound |-> o.inbound,
              current_tick |-> o.current_tick]
  <2>1. o \in Orchestrators
    BY <1>0 DEF SeamTypes
  <2> QED BY <2>1, OrchestratorFields
<1>2. PICK order \in SetToSeqs(DOMAIN o.manager.sectors) :
          LET after == evaluate_rebalance(o.manager, order)
          IN  /\ orch' = [orch EXCEPT ![n] =
                     [o EXCEPT !.current_tick = now, !.manager = after,
                               !.predictor = purge_expired(o.predictor, now)]]
              /\ datagrams' = datagrams \cup Announcements(n, o.manager, after)
  BY DEF continent_step_tick
<1> DEFINE after == evaluate_rebalance(o.manager, order)
           moved == {s \in DOMAIN after.sectors :
                         after.sectors[s].shard_id # o.manager.sectors[s].shard_id}
           P == purge_expired(o.predictor, now)
           r == [manager |-> after, predictor |-> P, inbound |-> o.inbound, current_tick |-> now]
<1>3. after \in Managers /\ (Thresholds => BalancedMap(after))
  BY <1>1, ManagersKeep
<1>4. TokensInv(n, P, now, issuedTokens[n], crossings[n], evicted[n])
  <2>1. TokensInv(n, o.predictor, o.current_tick, issuedTokens[n], crossings[n], evicted[n])
    BY <1>0 DEF TokensOf
  <2> DEFINE k == now
  <2>2. k = o.current_tick + 1
    OBVIOUS
  <2> HIDE DEF k
  <2>3. TokensInv(n, purge_expired(o.predictor, k), k, issuedTokens[n], crossings[n], evicted[n])
    BY <2>1, <2>2, TokensPurged
  <2> QED BY <2>3 DEF k
<1>5. P \in Predictors /\ now \in Nat
  BY <1>4 DEF TokensInv
<1>6. orch' = [orch EXCEPT ![n] = r]
  <2>1. orch' = [orch EXCEPT ![n] = [o EXCEPT !.current_tick = now, !.manager = after,
                                              !.predictor = P]]
    BY <1>2
  <2>2. [o EXCEPT !.current_tick = now, !.manager = after, !.predictor = P] = r
    <3> DEFINE m == o.manager  p == o.predictor  b == o.inbound  c == o.current_tick
               x == [o EXCEPT !.current_tick = now]  y == [x EXCEPT !.manager = after]
               k == now
    <3>1. o = [manager |-> m, predictor |-> p, inbound |-> b, current_tick |-> c]
      BY <1>1
    <3>2. x = [manager |-> m, predictor |-> p, inbound |-> b, current_tick |-> k]
      <4>1. x = [o EXCEPT !.current_tick = k]
        OBVIOUS
      <4> HIDE DEF x, m, p, b, c, k, o
      <4> QED BY <3>1, <4>1
    <3>3. y = [manager |-> after, predictor |-> p, inbound |-> b, current_tick |-> k]
      <4> HIDE DEF x, m, p, b, c, k, o, after
      <4> QED BY <3>2
    <3>4. [y EXCEPT !.predictor = P] = [manager |-> after, predictor |-> P, inbound |-> b,
                                        current_tick |-> k]
      <4> HIDE DEF x, y, m, p, b, c, k, o, after, P
      <4> QED BY <3>3
    <3> QED BY <3>4
  <2> HIDE DEF after, P, r
  <2> QED BY <2>1, <2>2
<1> HIDE DEF after, P, now
<1>7. /\ r \in Orchestrators /\ r.manager = after /\ r.predictor = P /\ r.inbound = o.inbound
      /\ r.current_tick = now
  BY <1>1, <1>3, <1>5 DEF Orchestrators
<1> HIDE DEF r
<1>8. /\ rebalanced' = [rebalanced EXCEPT ![n] = TRUE]
      /\ issuedTokens' = issuedTokens /\ crossings' = crossings /\ evicted' = evicted
  BY DEF continent_step_tick
<1>9. orch \in [Shards -> Orchestrators] /\ rebalanced \in [Shards -> BOOLEAN]
  BY <1>0 DEF SeamTypes
<1>10. /\ orch' \in [Shards -> Orchestrators] /\ orch'[n] = r
       /\ \A k \in Shards \ {n} : orch'[k] = orch[k]
  BY <1>6, <1>7, <1>9
<1>11. /\ rebalanced' \in [Shards -> BOOLEAN] /\ rebalanced'[n] = TRUE
       /\ \A k \in Shards \ {n} : rebalanced'[k] = rebalanced[k]
  BY <1>8, <1>9
<1>12. SeamTypes'
  BY <1>0, <1>8, <1>10, <1>11 DEF SeamTypes
<1>13. TokensOf(n)'
  BY <1>4, <1>7, <1>8, <1>10 DEF TokensOf
<1>14. BalancedAt(n)'
  BY <1>3, <1>7, <1>10 DEF BalancedAt
<1>15. NoticesOf(n)'
  BY <1>0, <1>7, <1>8, <1>10 DEF NoticesOf, NoticeTrue, IssuedElsewhere, CommittedElsewhere
<1>16. ASSUME NEW d \in datagrams' PROVE d \in datagrams \/ DatagramTrue(d)'
  <2>1. datagrams' = datagrams \cup Announcements(n, o.manager, after)
    BY <1>2 DEF after
  <2>2. CASE d \notin datagrams
    <3>1. PICK p \in Peers(n), s \in moved :
              d = SendTo(p, [kind |-> "REBALANCE", sector |-> s,
                             shard |-> after.sectors[s].shard_id])
      BY <1>16, <2>1, <2>2 DEF Announcements
    <3>2. s \in Regions /\ after.sectors[s].shard_id \in Shards
      BY <1>3, ManagersKeep
    <3>3. PICK h \in Shards : h = after.sectors[s].shard_id
      BY <3>2
    <3>4. d = RebalanceOf(p, s, h) /\ p \in Shards
      BY <3>1, <3>3 DEF RebalanceOf, Peers
    <3> QED BY <3>2, <3>4 DEF DatagramTrue
  <2> QED BY <2>2
<1>17. \A k \in Shards \ {n} :
           /\ orch'[k] = orch[k] /\ issuedTokens'[k] = issuedTokens[k]
           /\ crossings'[k] = crossings[k] /\ evicted'[k] = evicted[k]
           /\ rebalanced'[k] = rebalanced[k]
  BY <1>8, <1>10, <1>11
<1>18. issuedTokens[n] \subseteq issuedTokens'[n] /\ DOMAIN crossings[n] \subseteq DOMAIN crossings'[n]
  BY <1>8
<1> QED BY <1>12, <1>13, <1>14, <1>15, <1>16, <1>17, <1>18, SeamChange

\* Only the notices of one orchestrator change.
LEMMA NoticesChange ==
    ASSUME NEW n \in Shards, SeamInv, NEW b \in Notices,
           orch' = [orch EXCEPT ![n] = [orch[n] EXCEPT !.inbound = b]],
           UNCHANGED <<datagrams, issuedTokens, crossings, evicted>>,
           rebalanced' = [rebalanced EXCEPT ![n] = rebalanced[n] /\ orch'[n].manager = orch[n].manager],
           \A id \in DOMAIN b : NoticeTrue(n, id, b[id])
    PROVE  SeamInv'
<1> DEFINE o == orch[n]  r == [o EXCEPT !.inbound = b]
<1>0. SeamTypes /\ TokensOf(n) /\ BalancedAt(n) /\ NoticesOf(n)
  BY DEF SeamInv
<1>1. o \in Orchestrators
  BY <1>0 DEF SeamTypes
<1>2. /\ r \in Orchestrators /\ r.manager = o.manager /\ r.predictor = o.predictor
      /\ r.inbound = b /\ r.current_tick = o.current_tick
  BY <1>1, OrchestratorChanged
<1> HIDE DEF r
<1>3. orch' = [orch EXCEPT ![n] = r]
  BY DEF r
<1>4. orch \in [Shards -> Orchestrators] /\ rebalanced \in [Shards -> BOOLEAN]
  BY <1>0 DEF SeamTypes
<1>5. /\ orch' \in [Shards -> Orchestrators] /\ orch'[n] = r
      /\ \A k \in Shards \ {n} : orch'[k] = orch[k]
  BY <1>2, <1>3, <1>4
<1>6. rebalanced' = rebalanced
  <2> DEFINE c == rebalanced[n] /\ orch'[n].manager = orch[n].manager
  <2>1. c = rebalanced[n]
    <3>1. orch'[n].manager = orch[n].manager /\ rebalanced[n] \in BOOLEAN
      BY <1>2, <1>4, <1>5
    <3> QED BY <3>1
  <2>2. rebalanced' = [rebalanced EXCEPT ![n] = c]
    OBVIOUS
  <2> HIDE DEF c
  <2> QED BY <1>4, <2>1, <2>2
<1>7. /\ issuedTokens' = issuedTokens /\ crossings' = crossings /\ evicted' = evicted
      /\ datagrams' = datagrams
  OBVIOUS
<1>8. SeamTypes'
  BY <1>0, <1>5, <1>6, <1>7 DEF SeamTypes
<1>9. TokensOf(n)'
  BY <1>0, <1>2, <1>5, <1>7 DEF TokensOf
<1>10. BalancedAt(n)'
  BY <1>0, <1>2, <1>5, <1>6 DEF BalancedAt
<1>11. NoticesOf(n)'
  <2>1. \A t : IssuedElsewhere(n, t)' = IssuedElsewhere(n, t)
    BY <1>7 DEF IssuedElsewhere
  <2>2. \A id : CommittedElsewhere(n, id)' = CommittedElsewhere(n, id)
    BY <1>7 DEF CommittedElsewhere
  <2> QED BY <1>2, <1>5, <2>1, <2>2 DEF NoticesOf, NoticeTrue
<1>12. \A k \in Shards \ {n} :
           /\ orch'[k] = orch[k] /\ issuedTokens'[k] = issuedTokens[k]
           /\ crossings'[k] = crossings[k] /\ evicted'[k] = evicted[k]
           /\ rebalanced'[k] = rebalanced[k]
  BY <1>5, <1>6, <1>7
<1>13. issuedTokens[n] \subseteq issuedTokens'[n] /\ DOMAIN crossings[n] \subseteq DOMAIN crossings'[n]
  BY <1>7
<1>14. \A d \in datagrams' : d \in datagrams \/ DatagramTrue(d)'
  BY <1>7
<1> QED BY <1>8, <1>9, <1>10, <1>11, <1>12, <1>13, <1>14, SeamChange

\* A token, with the expiry it has and its flag as it may be.
LEMMA TokenCopies ==
    ASSUME NEW t \in SeamTokens
    PROVE  /\ t.expiry_tick = t.issued_tick + TokenTtl =>
                  [t EXCEPT !.expiry_tick = t.issued_tick + TokenTtl, !.is_consumed = FALSE] = Fresh(t)
           /\ [t EXCEPT !.is_consumed = TRUE] \in SeamTokens
           /\ Fresh([t EXCEPT !.is_consumed = TRUE]) = Fresh(t)
           /\ [t EXCEPT !.is_consumed = TRUE].target_shard = t.target_shard
           /\ Fresh(Fresh(t)) = Fresh(t)
<1> DEFINE u == [t EXCEPT !.is_consumed = TRUE]  x == t.issued_tick + TokenTtl
<1>1. /\ u \in SeamTokens /\ u.target_shard = t.target_shard
      /\ [u EXCEPT !.is_consumed = FALSE] = [t EXCEPT !.is_consumed = FALSE]
  BY DEF SeamTokens
<1> HIDE DEF u
<1>2. Fresh(u) = Fresh(t)
  BY <1>1 DEF Fresh
<1>3. Fresh(Fresh(t)) = Fresh(t)
  BY TokenFields
<1>4. ASSUME t.expiry_tick = x
      PROVE  [t EXCEPT !.expiry_tick = x, !.is_consumed = FALSE] = Fresh(t)
  <2> DEFINE v == [t EXCEPT !.expiry_tick = x]
  <2>1. v = t
    <3> HIDE DEF x
    <3> QED BY <1>4 DEF SeamTokens
  <2> HIDE DEF v
  <2>2. [v EXCEPT !.is_consumed = FALSE] = Fresh(t)
    BY <2>1 DEF Fresh
  <2> QED BY <2>2 DEF v
<1> QED BY <1>1, <1>2, <1>3, <1>4 DEF u

\* handle_cluster_packet, for each kind of datagram (continental.rs).
LEMMA SeamTold ==
    ASSUME SeamInv, NEW n \in Shards, NEW t \in SeamTokens, NEW body,
           body = [kind |-> "PRE_AUTH", token |-> t], t.target_shard = n, IssuedElsewhere(n, t),
           t.expiry_tick = t.issued_tick + TokenTtl, handle_cluster_packet(n, body)
    PROVE  SeamInv'
<1> DEFINE o == orch[n]  b == With(o.inbound, t.token_id, Fresh(t))
<1>0. SeamTypes /\ NoticesOf(n)
  BY DEF SeamInv
<1>1. body.kind = "PRE_AUTH" /\ body.token = t
  OBVIOUS
<1>2. orch' = [orch EXCEPT ![n] = [o EXCEPT !.inbound = With(o.inbound, body.token.token_id,
                  [body.token EXCEPT !.expiry_tick = body.token.issued_tick + TokenTtl,
                                     !.is_consumed = FALSE])]]
  BY <1>1 DEF handle_cluster_packet
<1>3. orch' = [orch EXCEPT ![n] = [orch[n] EXCEPT !.inbound = b]]
  BY <1>1, <1>2, TokenCopies
<1>4. o \in Orchestrators /\ o.inbound \in Notices
  BY <1>0, OrchestratorFields DEF SeamTypes
<1>5. /\ b \in Notices /\ DOMAIN b = DOMAIN o.inbound \union {t.token_id}
      /\ b[t.token_id] = Fresh(t) /\ \A id \in DOMAIN o.inbound : id # t.token_id => b[id] = o.inbound[id]
  <2>1. PICK I \in SUBSET (Nat \ {0}) : o.inbound \in [I -> SeamTokens]
    BY <1>4 DEF Notices
  <2> DEFINE J == I \union {t.token_id}
  <2>2. J \in SUBSET (Nat \ {0}) /\ Fresh(t) \in SeamTokens
    BY TokenFields
  <2>3. b = [y \in J |-> IF y = t.token_id THEN Fresh(t) ELSE o.inbound[y]]
    BY <2>1 DEF With
  <2>4. b \in [J -> SeamTokens]
    BY <2>1, <2>2, <2>3
  <2>5. DOMAIN o.inbound = I
    BY <2>1
  <2> QED BY <2>2, <2>3, <2>4, <2>5 DEF Notices
<1> HIDE DEF b
<1>6. ASSUME NEW id \in DOMAIN b PROVE NoticeTrue(n, id, b[id])
  <2>1. CASE id = t.token_id
    <3>1. b[id] = Fresh(t) /\ Fresh(t).target_shard = n /\ ~ Fresh(t).is_consumed
      BY <2>1, <1>5, TokenFields
    <3>2. IssuedElsewhere(n, Fresh(t))
      BY TokenCopies DEF IssuedElsewhere
    <3> QED BY <3>1, <3>2 DEF NoticeTrue
  <2>2. CASE id # t.token_id
    <3>1. id \in DOMAIN o.inbound /\ b[id] = o.inbound[id]
      BY <1>5, <2>2
    <3> QED BY <1>0, <3>1 DEF NoticesOf
  <2> QED BY <2>1, <2>2
<1>7. /\ UNCHANGED <<datagrams, issuedTokens, crossings, evicted>>
      /\ rebalanced' = [rebalanced EXCEPT ![n] = rebalanced[n] /\ orch'[n].manager = orch[n].manager]
  BY DEF handle_cluster_packet
<1> QED BY <1>3, <1>5, <1>6, <1>7, NoticesChange

\* The commit of a crossing arrives (continental.rs, handle_cluster_packet).
LEMMA SeamNoticed ==
    ASSUME SeamInv, NEW n \in Shards, NEW id \in Nat \ {0}, NEW body,
           body = [kind |-> "COMMIT", id |-> id], CommittedElsewhere(n, id),
           handle_cluster_packet(n, body)
    PROVE  SeamInv'
<1> DEFINE o == orch[n]  t == o.inbound[id]  u == [t EXCEPT !.is_consumed = TRUE]
           b == [o.inbound EXCEPT ![id] = u]
<1>0. SeamTypes /\ NoticesOf(n)
  BY DEF SeamInv
<1>1. body.kind = "COMMIT" /\ body.id = id /\ "COMMIT" # "PRE_AUTH"
  OBVIOUS
<1>2. orch' = [orch EXCEPT ![n] =
                  IF body.id \in DOMAIN o.inbound
                  THEN [o EXCEPT !.inbound[body.id].is_consumed = TRUE] ELSE o]
  BY <1>1 DEF handle_cluster_packet
<1>3. /\ o \in Orchestrators /\ o.inbound \in Notices
      /\ o = [manager |-> o.manager, predictor |-> o.predictor, inbound |-> o.inbound,
              current_tick |-> o.current_tick]
  <2>1. o \in Orchestrators
    BY <1>0 DEF SeamTypes
  <2> QED BY <2>1, OrchestratorFields
<1>4. /\ UNCHANGED <<datagrams, issuedTokens, crossings, evicted>>
      /\ rebalanced' = [rebalanced EXCEPT ![n] = rebalanced[n] /\ orch'[n].manager = orch[n].manager]
  BY DEF handle_cluster_packet
<1>5. CASE id \in DOMAIN o.inbound
  <2>1. orch' = [orch EXCEPT ![n] = [orch[n] EXCEPT !.inbound = b]]
    BY <1>1, <1>2, <1>5
  <2>2. PICK I \in SUBSET (Nat \ {0}) : o.inbound \in [I -> SeamTokens]
    BY <1>3 DEF Notices
  <2>3. t \in SeamTokens /\ id \in I
    BY <1>5, <2>2
  <2>4. u \in SeamTokens /\ Fresh(u) = Fresh(t) /\ u.target_shard = t.target_shard
    <3> HIDE DEF t
    <3> QED BY <2>3, TokenCopies
  <2> HIDE DEF u
  <2>5. /\ b \in [I -> SeamTokens] /\ b[id] = u
        /\ \A k \in I : k # id => b[k] = o.inbound[k]
    BY <2>2, <2>3, <2>4
  <2>6. DOMAIN b = I /\ DOMAIN o.inbound = I /\ b \in Notices
    BY <2>2, <2>5 DEF Notices
  <2> HIDE DEF b
  <2>7. ASSUME NEW k \in DOMAIN b PROVE NoticeTrue(n, k, b[k])
    <3>1. NoticeTrue(n, k, o.inbound[k])
      BY <1>0, <2>6 DEF NoticesOf
    <3>2. CASE k = id
      <4>1. b[k] = u /\ NoticeTrue(n, k, t)
        BY <2>5, <3>1, <3>2
      <4>2. IssuedElsewhere(n, u) /\ u.target_shard = n /\ CommittedElsewhere(n, k)
        BY <2>4, <3>2, <4>1 DEF NoticeTrue, IssuedElsewhere
      <4> QED BY <4>1, <4>2 DEF NoticeTrue
    <3>3. CASE k # id
      BY <2>5, <2>6, <3>1, <3>3
    <3> QED BY <3>2, <3>3
  <2> QED BY <1>4, <2>1, <2>6, <2>7, NoticesChange
<1>6. CASE id \notin DOMAIN o.inbound
  <2> DEFINE c == o.inbound
  <2>1. [o EXCEPT !.inbound = c] = o
    BY <1>3
  <2>2. orch' = [orch EXCEPT ![n] = [orch[n] EXCEPT !.inbound = c]]
    <3>1. orch' = [orch EXCEPT ![n] = o]
      BY <1>1, <1>2, <1>6
    <3> QED BY <2>1, <3>1
  <2>3. \A k \in DOMAIN c : NoticeTrue(n, k, c[k])
    BY <1>0 DEF NoticesOf
  <2>4. c \in Notices
    BY <1>3
  <2> HIDE DEF c
  <2> QED BY <1>4, <2>2, <2>3, <2>4, NoticesChange
<1> QED BY <1>5, <1>6

\* A reassigned sector is announced (continental.rs, handle_cluster_packet).
LEMMA SeamAnnounced ==
    ASSUME SeamInv, NEW n \in Shards, NEW s \in Regions, NEW h \in Shards, NEW body,
           body = [kind |-> "REBALANCE", sector |-> s, shard |-> h],
           handle_cluster_packet(n, body)
    PROVE  SeamInv'
<1> DEFINE o == orch[n]  m == assign_sector(o.manager, s, h)
           c == rebalanced[n] /\ orch'[n].manager = orch[n].manager
<1>0. SeamTypes /\ BalancedAt(n)
  BY DEF SeamInv
<1>1. /\ body.kind = "REBALANCE" /\ body.sector = s /\ body.shard = h
      /\ "REBALANCE" # "PRE_AUTH" /\ "REBALANCE" # "COMMIT"
  OBVIOUS
<1>2. orch' = [orch EXCEPT ![n] = [o EXCEPT !.manager = assign_sector(o.manager, body.sector, body.shard)]]
  BY <1>1 DEF handle_cluster_packet
<1>3. orch' = [orch EXCEPT ![n] = [orch[n] EXCEPT !.manager = m]]
  BY <1>1, <1>2
<1>4. o \in Orchestrators /\ o.manager \in Managers
  BY <1>0, OrchestratorFields DEF SeamTypes
<1>5. h \in Nat
  BY ContinentAssumption DEF Shards
<1>6. m \in Managers
  BY <1>4, <1>5, ManagersKeep
<1> HIDE DEF m
<1>7. /\ UNCHANGED <<datagrams, issuedTokens, crossings, evicted>>
      /\ rebalanced' = [rebalanced EXCEPT ![n] = c]
  BY DEF handle_cluster_packet
<1>8. orch'[n].manager = m
  <2> DEFINE r == [o EXCEPT !.manager = m]
  <2>1. r.manager = m /\ orch' = [orch EXCEPT ![n] = r]
    BY <1>3, <1>4, <1>6, OrchestratorChanged
  <2> HIDE DEF r
  <2>2. orch'[n] = r
    BY <1>0, <2>1 DEF SeamTypes
  <2> QED BY <2>1, <2>2
<1>9. c \in BOOLEAN
  OBVIOUS
<1>10. c /\ Thresholds => BalancedMap(m)
  <2>1. SUFFICES ASSUME c, Thresholds PROVE BalancedMap(m)
    OBVIOUS
  <2>2. rebalanced[n] /\ m = o.manager
    BY <1>8, <2>1
  <2> QED BY <1>0, <2>1, <2>2 DEF BalancedAt
<1> HIDE DEF c
<1>11. \A d \in datagrams' : d \in datagrams \/ DatagramTrue(d)'
  BY <1>7
<1> QED BY <1>3, <1>6, <1>7, <1>9, <1>10, <1>11, MapChange

\* Nothing was issued, told or assigned.
LEMMA SeamStart == SeamInit => SeamInv
<1> SUFFICES ASSUME SeamInit PROVE SeamInv
  OBVIOUS
<1> DEFINE m == NewShardManager  p == NewPredictor  C == [id \in {} |-> <<>>]
           b == [id \in {} |-> NoToken]  o == NewOrchestrator
<1>1. /\ orch = [n \in Shards |-> o] /\ datagrams = {}
      /\ issuedTokens = [n \in Shards |-> {}] /\ crossings = [n \in Shards |-> C]
      /\ evicted = [n \in Shards |-> {}] /\ rebalanced = [n \in Shards |-> FALSE]
  BY DEF SeamInit
<1>2. m \in Managers
  <2> DEFINE D == {}  sec == [s \in {} |-> 0]  acc == [h \in Shards |-> ShardMetrics]
  <2>1. m = [sectors |-> sec, shards |-> acc, background |-> 0]
    BY DEF NewShardManager
  <2>2. sec \in [D -> SectorMetas] /\ DOMAIN sec = D /\ acc \in [Shards -> MetricsOf] /\ 0 \in Shards
        /\ \A h \in Shards : acc[h].active_sectors = 0 /\ acc[h].total_entities = 0
    BY ContinentAssumption DEF ShardMetrics, MetricsOf, Shards
  <2> HIDE DEF sec, acc, m
  <2>3. m \in ManagersOf(D) /\ m.sectors = sec /\ m.shards = acc
    BY <2>1, <2>2 DEF ManagersOf
  <2>4. ASSUME NEW h \in Shards PROVE OwnSectors(m, h) = D
    BY <2>2, <2>3 DEF OwnSectors
  <2>5. CountsIn(m) \in [D -> Int]
    BY <2>2, <2>3 DEF CountsIn
  <2>6. Cardinality(D) = 0 /\ IsFiniteSet(D)
    BY FS_EmptySet
  <2>7. SumFunctionOnSet(CountsIn(m), D) = 0
    BY <2>5, SumOfNone
  <2>8. ExactMap(m)
    <3> HIDE DEF D
    <3> QED BY <2>2, <2>3, <2>4, <2>6, <2>7 DEF ExactMap
  <2>9. D \in Finites
    BY <2>6 DEF Finites
  <2> HIDE DEF D
  <2> QED BY <2>3, <2>8, <2>9 DEF Managers, ExactManagers
<1>3. p \in Predictors /\ \A i \in TokenTable : p.tokens[i] = NoToken
  BY DEF NewPredictor, Predictors, TokenTable
<1>4. C \in CrossingLogs /\ DOMAIN C = {} /\ b \in Notices /\ DOMAIN b = {}
  <2> DEFINE I == {}
  <2>1. C \in [I -> Seq(Nat)] /\ b \in [I -> SeamTokens] /\ I \in SUBSET (Nat \ {0})
    OBVIOUS
  <2>2. DOMAIN C = I /\ DOMAIN b = I
    OBVIOUS
  <2> HIDE DEF I, C, b
  <2>3. C \in CrossingLogs /\ b \in Notices
    BY <2>1 DEF CrossingLogs, Notices
  <2> QED BY <2>2, <2>3 DEF I
<1>5. o = [manager |-> m, predictor |-> p, inbound |-> b, current_tick |-> 0]
  BY DEF NewOrchestrator
<1> HIDE DEF m, p, C, b, o
<1>6. /\ o \in Orchestrators /\ o.manager = m /\ o.predictor = p /\ o.inbound = b
      /\ o.current_tick = 0
  BY <1>2, <1>3, <1>4, <1>5 DEF Orchestrators
<1>7. SeamTypes
  BY <1>1, <1>4, <1>6 DEF SeamTypes
<1>8. ASSUME NEW n \in Shards PROVE TokensOf(n) /\ BalancedAt(n) /\ NoticesOf(n)
  <2>1. /\ orch[n] = o /\ issuedTokens[n] = {} /\ crossings[n] = C /\ evicted[n] = {}
        /\ rebalanced[n] = FALSE
    BY <1>1
  <2>2. IssuedWell(n, p, 0, {}) /\ CommittedWell(p, {}, C)
    BY <1>4 DEF IssuedWell, CommittedWell
  <2>3. HeldWell(p, 0, {}, C, {})
    BY <1>3 DEF HeldWell, Rivals
  <2>4. TokensInv(n, p, 0, {}, C, {})
    BY <1>3, <2>2, <2>3 DEF TokensInv
  <2> QED BY <1>4, <1>6, <2>1, <2>4 DEF TokensOf, BalancedAt, NoticesOf
<1> QED BY <1>1, <1>7, <1>8 DEF SeamInv

\* Every step of an orchestrator, and every delivery of a datagram.
LEMMA SeamStep == SeamInv /\ [SeamNext]_seamVars => SeamInv'
<1> SUFFICES ASSUME SeamInv, [SeamNext]_seamVars PROVE SeamInv'
  OBVIOUS
<1>1. CASE UNCHANGED seamVars
  <2>1. /\ orch' = orch /\ datagrams' = datagrams /\ issuedTokens' = issuedTokens
        /\ crossings' = crossings /\ evicted' = evicted /\ rebalanced' = rebalanced
    BY <1>1 DEF seamVars
  <2>2. SeamTypes'
    BY <2>1 DEF SeamInv, SeamTypes
  <2>3. ASSUME NEW n \in Shards PROVE TokensOf(n)' /\ BalancedAt(n)' /\ NoticesOf(n)'
    BY <2>1 DEF SeamInv, TokensOf, BalancedAt, NoticesOf, NoticeTrue, IssuedElsewhere,
                CommittedElsewhere
  <2>4. ASSUME NEW d \in datagrams' PROVE DatagramTrue(d)'
    BY <2>1 DEF SeamInv, DatagramTrue, IssuedElsewhere, CommittedElsewhere
  <2> QED BY <2>2, <2>3, <2>4 DEF SeamInv
<1>2. ASSUME NEW n \in Leaders,
             \/ \E s \in Regions : administer(n, s)
             \/ \E shard \in Shards \cup {ShardCount} : configure_thresholds(n, shard)
             \/ \E e \in Riders, drive \in Drives : evaluate_entity_movement(n, e, drive)
             \/ \E id \in 1..MaxSeamTokens, e \in Riders, target \in Shards :
                    commit_migration(n, id, e, target)
             \/ continent_step_tick(n)
      PROVE  SeamInv'
  <2>1. n \in Shards
    BY ContinentAssumption DEF Shards
  <2>2. ASSUME NEW s \in Regions, administer(n, s) PROVE SeamInv'
    BY <2>1, <2>2, SeamAdministered
  <2>3. ASSUME NEW shard \in Shards \cup {ShardCount}, configure_thresholds(n, shard)
        PROVE  SeamInv'
    BY <2>1, <2>3, SeamConfigured
  <2>4. ASSUME NEW e \in Riders, NEW drive \in Drives, evaluate_entity_movement(n, e, drive)
        PROVE  SeamInv'
    BY <2>1, <2>4, SeamMoved
  <2>5. ASSUME NEW id \in 1..MaxSeamTokens, NEW e \in Riders, NEW target \in Shards,
               commit_migration(n, id, e, target)
        PROVE  SeamInv'
    BY <2>1, <2>5, SeamCommitted
  <2>6. CASE continent_step_tick(n)
    BY <2>1, <2>6, SeamTicked
  <2> QED BY <1>2, <2>2, <2>3, <2>4, <2>5, <2>6
<1>3. ASSUME NEW d \in datagrams, handle_cluster_packet(d.to, d.body) PROVE SeamInv'
  <2>1. DatagramTrue(d)
    BY DEF SeamInv
  <2>2. PICK to \in Shards :
            \/ \E t \in SeamTokens :
                   /\ d = PreAuthOf(to, t) /\ t.target_shard = to /\ IssuedElsewhere(to, t)
                   /\ t.expiry_tick = t.issued_tick + TokenTtl
            \/ \E id \in Nat \ {0} : d = CommitOf(to, id) /\ CommittedElsewhere(to, id)
            \/ \E s \in Regions, h \in Shards : d = RebalanceOf(to, s, h)
    BY <2>1 DEF DatagramTrue
  <2>3. ASSUME NEW body, d = SendTo(to, body) PROVE handle_cluster_packet(to, body)
    <3>1. d.to = to /\ d.body = body
      BY <2>3 DEF SendTo
    <3> QED BY <1>3, <3>1
  <2>4. ASSUME NEW t \in SeamTokens, d = PreAuthOf(to, t), t.target_shard = to,
               IssuedElsewhere(to, t), t.expiry_tick = t.issued_tick + TokenTtl
        PROVE  SeamInv'
    <3> DEFINE body == [kind |-> "PRE_AUTH", token |-> t]
    <3>1. handle_cluster_packet(to, body)
      BY <2>3, <2>4 DEF PreAuthOf
    <3>2. body = [kind |-> "PRE_AUTH", token |-> t]
      OBVIOUS
    <3> HIDE DEF body
    <3> QED BY <2>4, <3>1, <3>2, SeamTold
  <2>5. ASSUME NEW id \in Nat \ {0}, d = CommitOf(to, id), CommittedElsewhere(to, id)
        PROVE  SeamInv'
    <3> DEFINE body == [kind |-> "COMMIT", id |-> id]
    <3>1. handle_cluster_packet(to, body)
      BY <2>3, <2>5 DEF CommitOf
    <3>2. body = [kind |-> "COMMIT", id |-> id]
      OBVIOUS
    <3> HIDE DEF body
    <3> QED BY <2>5, <3>1, <3>2, SeamNoticed
  <2>6. ASSUME NEW s \in Regions, NEW h \in Shards, d = RebalanceOf(to, s, h)
        PROVE  SeamInv'
    <3> DEFINE body == [kind |-> "REBALANCE", sector |-> s, shard |-> h]
    <3>1. handle_cluster_packet(to, body)
      BY <2>3, <2>6 DEF RebalanceOf
    <3>2. body = [kind |-> "REBALANCE", sector |-> s, shard |-> h]
      OBVIOUS
    <3> HIDE DEF body
    <3> QED BY <3>1, <3>2, SeamAnnounced
  <2> QED BY <2>2, <2>4, <2>5, <2>6
<1> QED BY <1>1, <1>2, <1>3 DEF SeamNext

\* The properties of the continent's books follow from the invariant.
LEMMA SeamSuffices ==
    ASSUME Wilderness < Hotspot, SeamInv
    PROVE  AggregatesExact /\ Balanced /\ TokensSound /\ NoticesTrue
<1>0. SeamTypes /\ \A n \in Shards : TokensOf(n) /\ BalancedAt(n) /\ NoticesOf(n)
  BY DEF SeamInv
<1>1. ASSUME NEW n \in Shards
      PROVE  /\ orch[n].manager \in Managers /\ orch[n].predictor \in Predictors
             /\ orch[n].inbound \in Notices /\ orch[n].current_tick \in Nat
  BY <1>0, OrchestratorFields DEF SeamTypes
<1>2. AggregatesExact
  <2>1. ASSUME NEW n \in Shards, NEW h \in Shards
        PROVE  /\ orch[n].manager.shards[h].active_sectors
                      = Cardinality(OwnSectors(orch[n].manager, h))
               /\ orch[n].manager.shards[h].total_entities
                      = SumFunctionOnSet(CountsIn(orch[n].manager), OwnSectors(orch[n].manager, h))
    <3>1. ExactMap(orch[n].manager)
      BY <1>1 DEF Managers, ExactManagers
    <3> QED BY <3>1 DEF ExactMap
  <2> QED BY <2>1 DEF AggregatesExact, OwnSectors, CountsIn
<1>3. Balanced
  <2>1. ASSUME NEW n \in Shards, rebalanced[n], ShardCount > 1
        PROVE  BalancedMap(orch[n].manager)
    BY <1>0, <2>1 DEF BalancedAt, Thresholds
  <2> QED BY <2>1 DEF Balanced, BalancedMap
<1>4. TokensSound
  <2>1. ASSUME NEW n \in Shards, NEW t \in issuedTokens[n]
        PROVE  /\ t.token_id \in DOMAIN crossings[n] =>
                      /\ Len(crossings[n][t.token_id]) = 1
                      /\ crossings[n][t.token_id][1] <= t.expiry_tick
               /\ Cardinality(LiveFor(orch[n].predictor, t.entity_id, t.target_shard,
                                      orch[n].current_tick)) <= 1
               /\ (/\ t.token_id \notin DOMAIN crossings[n] \cup evicted[n]
                   /\ orch[n].current_tick <= t.expiry_tick) => t \in SlotsOf(orch[n].predictor)
    <3> DEFINE p == orch[n].predictor  now == orch[n].current_tick
               L == LiveFor(p, t.entity_id, t.target_shard, now)
    <3>1. TokensInv(n, p, now, issuedTokens[n], crossings[n], evicted[n])
      BY <1>0 DEF TokensOf
    <3>2. t.token_id \in DOMAIN crossings[n] =>
              Len(crossings[n][t.token_id]) = 1 /\ crossings[n][t.token_id][1] <= t.expiry_tick
      BY <3>1 DEF TokensInv, CommittedWell
    <3> HIDE DEF p, now
    <3>3. SlotsOf(p) = {p.tokens[i] : i \in TokenTable} \ {NoToken}
      BY <1>1, PredictorFields DEF SlotsOf, p
    <3>4. ASSUME t.token_id \notin DOMAIN crossings[n] \cup evicted[n], now <= t.expiry_tick
          PROVE  t \in SlotsOf(p)
      <4>1. \E i \in TokenTable : p.tokens[i] = t
        BY <3>1, <3>4 DEF TokensInv, HeldWell
      <4>2. t # NoToken
        BY <3>1, TokenFields DEF TokensInv, IssuedWell
      <4> QED BY <3>3, <4>1, <4>2
    <3>5. ASSUME NEW x \in L, NEW y \in L PROVE x = y
      <4>1. /\ x \in SlotsOf(p) /\ x.entity_id = t.entity_id /\ x.target_shard = t.target_shard
            /\ ~ Spent(x, now)
            /\ y \in SlotsOf(p) /\ y.entity_id = t.entity_id /\ y.target_shard = t.target_shard
            /\ ~ Spent(y, now)
        BY DEF LiveFor
      <4>2. PICK i \in TokenTable, j \in TokenTable :
                x = p.tokens[i] /\ x # NoToken /\ y = p.tokens[j] /\ y # NoToken
        BY <3>3, <4>1
      <4>3. Rivals(p, now, i, j)
        BY <4>1, <4>2 DEF Rivals
      <4>4. i = j
        BY <3>1, <4>3 DEF TokensInv, HeldWell
      <4> QED BY <4>2, <4>4
    <3> HIDE DEF L
    <3>6. Cardinality(L) <= 1
      <4>1. CASE L = {}
        <5>1. Cardinality({}) = 0
          BY FS_EmptySet
        <5> QED BY <4>1, <5>1
      <4>2. CASE L # {}
        <5>1. PICK x \in L : TRUE
          BY <4>2
        <5>2. L = {x}
          BY <3>5, <5>1
        <5>3. Cardinality({x}) = 1
          BY FS_Singleton
        <5> QED BY <5>2, <5>3
      <4> QED BY <4>1, <4>2
    <3> QED BY <3>2, <3>4, <3>6 DEF p, now, L
  <2> QED BY <2>1 DEF TokensSound
<1>5. NoticesTrue
  <2>1. ASSUME NEW n \in Shards, NEW id \in DOMAIN orch[n].inbound
        PROVE  /\ Fresh(orch[n].inbound[id]) \in UNION {issuedTokens[p] : p \in Peers(n)}
               /\ orch[n].inbound[id].target_shard = n
               /\ orch[n].inbound[id].is_consumed => \E p \in Peers(n) : id \in DOMAIN crossings[p]
    <3>1. NoticeTrue(n, id, orch[n].inbound[id])
      BY <1>0 DEF NoticesOf
    <3> QED BY <3>1 DEF NoticeTrue, IssuedElsewhere, CommittedElsewhere
  <2> QED BY <2>1 DEF NoticesTrue, Fresh
<1> QED BY <1>2, <1>3, <1>4, <1>5

(* ---------------------------- the cluster's boxes ------------------------- *)

Tickets == [entity : CitizenIds, to : ZoneNodeIds \union {0}]
Boxes == [ZoneNodeIds -> Seq(Tickets)]
TicketsIn(s) == {s[i] : i \in DOMAIN s}
Lost == droppedTickets \union refusedTickets

InGrid(e, n) == e \in grids[n]
InInbox(e, n) == e \in EntitiesOf(inbox[n])
InOutbox(e, n) == e \in EntitiesOf(outbox[n])

(* An entity in two places is in one. *)
OneSpot ==
    /\ \A e \in CitizenIds, n, m \in ZoneNodeIds :
           /\ InGrid(e, n) /\ InGrid(e, m) => n = m
           /\ InInbox(e, n) /\ InInbox(e, m) => n = m
           /\ InOutbox(e, n) /\ InOutbox(e, m) => n = m
           /\ ~ (InGrid(e, n) /\ InInbox(e, m))
           /\ ~ (InGrid(e, n) /\ InOutbox(e, m))
           /\ ~ (InInbox(e, n) /\ InOutbox(e, m))

Somewhere(e) == \E n \in ZoneNodeIds : InGrid(e, n) \/ InInbox(e, n) \/ InOutbox(e, n)

OneTicket == \A n \in ZoneNodeIds : \A i, j \in DOMAIN outbox[n] :
                 outbox[n][i].entity = outbox[n][j].entity => i = j

HarnessInv ==
    /\ grids \in [ZoneNodeIds -> SUBSET CitizenIds] /\ outbox \in Boxes /\ inbox \in Boxes
    /\ Lost \subseteq spawned /\ spawned \subseteq CitizenIds
    /\ OneSpot /\ OneTicket
    /\ \A e \in CitizenIds : Somewhere(e) <=> e \in spawned \ Lost

\* What a sequence of tickets names.
LEMMA TicketFields ==
    /\ \A t \in Tickets : t.entity \in CitizenIds /\ t.to \in ZoneNodeIds \union {0}
    /\ \A e \in CitizenIds, to \in ZoneNodeIds \union {0} : [entity |-> e, to |-> to] \in Tickets
    /\ \A s \in Seq(Tickets) : /\ TicketsIn(s) \subseteq Tickets
                               /\ EntitiesOf(s) = {t.entity : t \in TicketsIn(s)}
                               /\ EntitiesOf(s) \subseteq CitizenIds
<1>1. \A t \in Tickets : t.entity \in CitizenIds /\ t.to \in ZoneNodeIds \union {0}
  BY DEF Tickets
<1>2. \A e \in CitizenIds, to \in ZoneNodeIds \union {0} : [entity |-> e, to |-> to] \in Tickets
  BY DEF Tickets
<1>3. ASSUME NEW s \in Seq(Tickets)
      PROVE  /\ TicketsIn(s) \subseteq Tickets
             /\ EntitiesOf(s) = {t.entity : t \in TicketsIn(s)}
             /\ EntitiesOf(s) \subseteq CitizenIds
  <2>1. \A i \in DOMAIN s : s[i] \in Tickets
    OBVIOUS
  <2>2. TicketsIn(s) \subseteq Tickets
    BY <2>1 DEF TicketsIn
  <2>3. EntitiesOf(s) = {t.entity : t \in TicketsIn(s)}
    BY DEF EntitiesOf, TicketsIn
  <2> QED BY <1>1, <2>2, <2>3
<1> QED BY <1>1, <1>2, <1>3

\* A ticket more, and two sequences one after the other.
LEMMA TicketsJoined ==
    /\ TicketsIn(<< >>) = {} /\ EntitiesOf(<< >>) = {}
    /\ \A s \in Seq(Tickets), u \in Seq(Tickets) :
           s \o u \in Seq(Tickets) /\ TicketsIn(s \o u) = TicketsIn(s) \union TicketsIn(u)
    /\ \A s \in Seq(Tickets), t \in Tickets :
           /\ Append(s, t) \in Seq(Tickets)
           /\ TicketsIn(Append(s, t)) = TicketsIn(s) \union {t}
           /\ EntitiesOf(Append(s, t)) = EntitiesOf(s) \union {t.entity}
<1>1. TicketsIn(<< >>) = {} /\ EntitiesOf(<< >>) = {}
  BY DEF TicketsIn, EntitiesOf
<1>2. ASSUME NEW s \in Seq(Tickets), NEW u \in Seq(Tickets)
      PROVE  s \o u \in Seq(Tickets) /\ TicketsIn(s \o u) = TicketsIn(s) \union TicketsIn(u)
  <2> DEFINE w == s \o u  a == Len(s)  b == Len(u)
  <2>1. /\ w \in Seq(Tickets) /\ DOMAIN s = 1..a /\ DOMAIN u = 1..b /\ DOMAIN w = 1..(a + b)
        /\ a \in Nat /\ b \in Nat
    OBVIOUS
  <2>2. \A i \in 1..a : w[i] = s[i]
    OBVIOUS
  <2>3. \A i \in (a + 1)..(a + b) : w[i] = u[i - a]
    OBVIOUS
  <2> HIDE DEF w, a, b
  <2>4. ASSUME NEW i \in DOMAIN w PROVE w[i] \in TicketsIn(s) \union TicketsIn(u)
    <3>1. CASE i \in 1..a
      BY <2>1, <2>2, <3>1 DEF TicketsIn
    <3>2. CASE i \in (a + 1)..(a + b)
      <4>1. i - a \in DOMAIN u
        BY <2>1, <3>2
      <4> QED BY <2>3, <3>2, <4>1 DEF TicketsIn
    <3> QED BY <2>1, <3>1, <3>2
  <2>5. ASSUME NEW i \in DOMAIN u PROVE u[i] \in TicketsIn(w)
    <3>1. a + i \in (a + 1)..(a + b) /\ (a + i) - a = i /\ a + i \in DOMAIN w
      BY <2>1
    <3>2. w[a + i] = u[i]
      BY <2>3, <3>1
    <3> QED BY <3>1, <3>2 DEF TicketsIn
  <2>7. ASSUME NEW i \in DOMAIN s PROVE s[i] \in TicketsIn(w)
    <3>1. i \in DOMAIN w /\ w[i] = s[i]
      BY <2>1, <2>2
    <3> QED BY <3>1 DEF TicketsIn
  <2>6. TicketsIn(w) = TicketsIn(s) \union TicketsIn(u)
    BY <2>4, <2>5, <2>7 DEF TicketsIn
  <2> QED BY <2>1, <2>6 DEF w
<1>3. ASSUME NEW s \in Seq(Tickets), NEW t \in Tickets
      PROVE  /\ Append(s, t) \in Seq(Tickets)
             /\ TicketsIn(Append(s, t)) = TicketsIn(s) \union {t}
             /\ EntitiesOf(Append(s, t)) = EntitiesOf(s) \union {t.entity}
  <2> DEFINE w == Append(s, t)
  <2>1. /\ w \in Seq(Tickets) /\ DOMAIN s = 1..Len(s) /\ DOMAIN w = 1..(Len(s) + 1)
        /\ Len(s) \in Nat /\ w[Len(s) + 1] = t /\ \A i \in 1..Len(s) : w[i] = s[i]
    OBVIOUS
  <2> HIDE DEF w
  <2>2. TicketsIn(w) = TicketsIn(s) \union {t}
    <3>1. ASSUME NEW i \in DOMAIN w PROVE w[i] \in TicketsIn(s) \union {t}
      <4>1. i = Len(s) + 1 \/ i \in 1..Len(s)
        BY <2>1
      <4> QED BY <2>1, <4>1 DEF TicketsIn
    <3>2. ASSUME NEW i \in DOMAIN s PROVE s[i] \in TicketsIn(w)
      <4>1. i \in DOMAIN w /\ w[i] = s[i]
        BY <2>1
      <4> QED BY <4>1 DEF TicketsIn
    <3>3. t \in TicketsIn(w)
      <4>1. Len(s) + 1 \in DOMAIN w
        BY <2>1
      <4> QED BY <2>1, <4>1 DEF TicketsIn
    <3> QED BY <3>1, <3>2, <3>3 DEF TicketsIn
  <2>3. EntitiesOf(w) = {x.entity : x \in TicketsIn(w)}
        /\ EntitiesOf(s) = {x.entity : x \in TicketsIn(s)}
    BY <2>1, TicketFields
  <2> QED BY <2>1, <2>2, <2>3 DEF w
<1> QED BY <1>1, <1>2, <1>3

\* Nobody was spawned.
LEMMA HarnessStart == HarnessInit => HarnessInv
<1> SUFFICES ASSUME HarnessInit PROVE HarnessInv
  OBVIOUS
<1>1. /\ grids = [n \in ZoneNodeIds |-> {}] /\ outbox = [n \in ZoneNodeIds |-> <<>>]
      /\ inbox = outbox /\ spawned = {} /\ Lost = {}
  BY DEF HarnessInit, Lost
<1>2. <<>> \in Seq(Tickets) /\ DOMAIN <<>> = {}
  OBVIOUS
<1>3. grids \in [ZoneNodeIds -> SUBSET CitizenIds] /\ outbox \in Boxes /\ inbox \in Boxes
  BY <1>1, <1>2 DEF Boxes
<1>4. \A e \in CitizenIds, n \in ZoneNodeIds : ~ InGrid(e, n) /\ ~ InInbox(e, n) /\ ~ InOutbox(e, n)
  BY <1>1, TicketsJoined DEF InGrid, InInbox, InOutbox
<1>5. OneSpot /\ \A e \in CitizenIds : ~ Somewhere(e)
  BY <1>4 DEF OneSpot, Somewhere
<1>6. OneTicket
  BY <1>1, <1>2 DEF OneTicket
<1> QED BY <1>1, <1>3, <1>5, <1>6 DEF HarnessInv

\* An entity is spawned in a zone (cluster.rs, spawn_entity).
LEMMA HarnessSpawned ==
    ASSUME HarnessInv, NEW n \in ZoneNodeIds, NEW e \in CitizenIds, spawn_entity(n, e)
    PROVE  HarnessInv'
<1>1. /\ grids \in [ZoneNodeIds -> SUBSET CitizenIds] /\ outbox \in Boxes /\ inbox \in Boxes
      /\ Lost \subseteq spawned /\ spawned \subseteq CitizenIds
      /\ OneSpot /\ OneTicket
      /\ \A x \in CitizenIds : Somewhere(x) <=> x \in spawned \ Lost
  BY DEF HarnessInv
<1>2. /\ e \notin spawned /\ grids' = [grids EXCEPT ![n] = @ \cup {e}]
      /\ spawned' = spawned \cup {e} /\ outbox' = outbox /\ inbox' = inbox /\ Lost' = Lost
  BY DEF spawn_entity, Lost
<1>3. /\ grids' \in [ZoneNodeIds -> SUBSET CitizenIds] /\ outbox' \in Boxes /\ inbox' \in Boxes
      /\ Lost' \subseteq spawned' /\ spawned' \subseteq CitizenIds
  BY <1>1, <1>2
<1>4. \A x \in CitizenIds, m \in ZoneNodeIds :
          /\ InGrid(x, m)' <=> InGrid(x, m) \/ (x = e /\ m = n)
          /\ InInbox(x, m)' <=> InInbox(x, m)
          /\ InOutbox(x, m)' <=> InOutbox(x, m)
  BY <1>1, <1>2 DEF InGrid, InInbox, InOutbox
<1>5. \A m \in ZoneNodeIds : ~ InGrid(e, m) /\ ~ InInbox(e, m) /\ ~ InOutbox(e, m)
  BY <1>1, <1>2 DEF Somewhere
<1>6. OneSpot'
  BY <1>1, <1>4, <1>5 DEF OneSpot
<1>7. OneTicket'
  BY <1>1, <1>2 DEF OneTicket
<1>8. ASSUME NEW x \in CitizenIds PROVE Somewhere(x)' <=> x \in spawned' \ Lost'
  BY <1>1, <1>2, <1>4 DEF Somewhere
<1> QED BY <1>3, <1>6, <1>7, <1>8 DEF HarnessInv

\* An entity leaves for the outbox of its node (cluster.rs, queue_outbox).
LEMMA HarnessSent ==
    ASSUME HarnessInv, NEW n \in ZoneNodeIds, NEW e \in CitizenIds, NEW to \in ZoneNodeIds \union {0},
           queue_outbox(n, e, to)
    PROVE  HarnessInv'
<1> DEFINE t == [entity |-> e, to |-> to]
<1>1. /\ grids \in [ZoneNodeIds -> SUBSET CitizenIds] /\ outbox \in Boxes /\ inbox \in Boxes
      /\ Lost \subseteq spawned /\ spawned \subseteq CitizenIds
      /\ OneSpot /\ OneTicket
      /\ \A x \in CitizenIds : Somewhere(x) <=> x \in spawned \ Lost
  BY DEF HarnessInv
<1>2. /\ e \in grids[n] /\ grids' = [grids EXCEPT ![n] = @ \ {e}]
      /\ outbox' = [outbox EXCEPT ![n] = Append(@, t)]
      /\ spawned' = spawned /\ inbox' = inbox /\ Lost' = Lost
  BY DEF queue_outbox, Lost
<1>3. t \in Tickets /\ t.entity = e /\ outbox[n] \in Seq(Tickets)
  BY <1>1, TicketFields DEF Boxes
<1> HIDE DEF t
<1>4. /\ outbox' \in Boxes /\ outbox'[n] = Append(outbox[n], t)
      /\ \A m \in ZoneNodeIds : m # n => outbox'[m] = outbox[m]
  BY <1>1, <1>2, <1>3, TicketsJoined DEF Boxes
<1>5. grids' \in [ZoneNodeIds -> SUBSET CitizenIds] /\ inbox' \in Boxes
      /\ Lost' \subseteq spawned' /\ spawned' \subseteq CitizenIds
  BY <1>1, <1>2
<1>6. \A x \in CitizenIds, m \in ZoneNodeIds :
          /\ InGrid(x, m)' <=> InGrid(x, m) /\ ~ (x = e /\ m = n)
          /\ InInbox(x, m)' <=> InInbox(x, m)
          /\ InOutbox(x, m)' <=> InOutbox(x, m) \/ (x = e /\ m = n)
  <2>1. EntitiesOf(outbox'[n]) = EntitiesOf(outbox[n]) \union {e}
    BY <1>3, <1>4, TicketsJoined
  <2> QED BY <1>1, <1>2, <1>4, <2>1 DEF InGrid, InInbox, InOutbox
<1>7. /\ InGrid(e, n) /\ \A m \in ZoneNodeIds : /\ InGrid(e, m) => m = n
                                               /\ ~ InInbox(e, m) /\ ~ InOutbox(e, m)
  BY <1>1, <1>2 DEF OneSpot, InGrid
<1>8. OneSpot'
  BY <1>1, <1>6, <1>7 DEF OneSpot
<1>9. OneTicket'
  <2>1. ASSUME NEW m \in ZoneNodeIds, NEW i \in DOMAIN (outbox'[m]), NEW j \in DOMAIN (outbox'[m]),
               outbox'[m][i].entity = outbox'[m][j].entity
        PROVE  i = j
    <3>1. CASE m # n
      BY <1>1, <1>4, <2>1, <3>1 DEF OneTicket
    <3>2. CASE m = n
      <4> DEFINE s == outbox[n]  w == Append(s, t)
      <4>1. /\ Len(s) \in Nat /\ DOMAIN s = 1..Len(s) /\ DOMAIN w = 1..(Len(s) + 1)
            /\ w[Len(s) + 1] = t /\ \A k \in 1..Len(s) : w[k] = s[k]
        BY <1>3
      <4>2. \A k \in DOMAIN s : s[k].entity # e
        BY <1>7 DEF InOutbox, EntitiesOf
      <4>3. \A k, l \in DOMAIN s : s[k].entity = s[l].entity => k = l
        BY <1>1 DEF OneTicket
      <4>4. outbox'[m] = w
        BY <1>4, <3>2
      <4> HIDE DEF s, w
      <4>5. i \in DOMAIN w /\ j \in DOMAIN w /\ w[i].entity = w[j].entity
        BY <2>1, <4>4
      <4>6. CASE i \in DOMAIN s /\ j \in DOMAIN s
        BY <4>1, <4>3, <4>5, <4>6
      <4>7. CASE i \in DOMAIN s /\ j \notin DOMAIN s
        <5>1. j = Len(s) + 1
          BY <4>1, <4>5, <4>7
        <5>2. w[j].entity = e /\ w[i].entity = s[i].entity
          BY <1>3, <4>1, <4>7, <5>1
        <5> QED BY <4>2, <4>5, <4>7, <5>2
      <4>8. CASE i \notin DOMAIN s /\ j \in DOMAIN s
        <5>1. i = Len(s) + 1
          BY <4>1, <4>5, <4>8
        <5>2. w[i].entity = e /\ w[j].entity = s[j].entity
          BY <1>3, <4>1, <4>8, <5>1
        <5> QED BY <4>2, <4>5, <4>8, <5>2
      <4>9. CASE i \notin DOMAIN s /\ j \notin DOMAIN s
        BY <4>1, <4>5, <4>9
      <4> QED BY <4>6, <4>7, <4>8, <4>9
    <3> QED BY <3>1, <3>2
  <2> QED BY <2>1 DEF OneTicket
<1>10. ASSUME NEW x \in CitizenIds PROVE Somewhere(x)' <=> x \in spawned' \ Lost'
  <2>1. Somewhere(x)' <=> Somewhere(x)
    BY <1>6, <1>7 DEF Somewhere
  <2> QED BY <1>1, <1>2, <2>1
<1> QED BY <1>4, <1>5, <1>8, <1>9, <1>10 DEF HarnessInv

\* An entity is put into another node's inbox (cluster.rs, queue_inbox).
LEMMA HarnessHanded ==
    ASSUME HarnessInv, NEW n \in ZoneNodeIds, NEW e \in CitizenIds, NEW to, queue_inbox(n, e, to)
    PROVE  HarnessInv'
<1> DEFINE t == [entity |-> e, to |-> to]
<1>1. /\ grids \in [ZoneNodeIds -> SUBSET CitizenIds] /\ outbox \in Boxes /\ inbox \in Boxes
      /\ Lost \subseteq spawned /\ spawned \subseteq CitizenIds
      /\ OneSpot /\ OneTicket
      /\ \A x \in CitizenIds : Somewhere(x) <=> x \in spawned \ Lost
  BY DEF HarnessInv
<1>2. /\ e \in grids[n] /\ to \in ZoneNodeIds /\ grids' = [grids EXCEPT ![n] = @ \ {e}]
      /\ inbox' = [inbox EXCEPT ![to] = Append(@, t)]
      /\ spawned' = spawned /\ outbox' = outbox /\ Lost' = Lost
  BY DEF queue_inbox, Lost
<1>3. t \in Tickets /\ t.entity = e /\ inbox[to] \in Seq(Tickets)
  BY <1>1, <1>2, TicketFields DEF Boxes
<1> HIDE DEF t
<1>4. /\ inbox' \in Boxes /\ inbox'[to] = Append(inbox[to], t)
      /\ \A m \in ZoneNodeIds : m # to => inbox'[m] = inbox[m]
  BY <1>1, <1>2, <1>3, TicketsJoined DEF Boxes
<1>5. grids' \in [ZoneNodeIds -> SUBSET CitizenIds] /\ outbox' \in Boxes
      /\ Lost' \subseteq spawned' /\ spawned' \subseteq CitizenIds
  BY <1>1, <1>2
<1>6. \A x \in CitizenIds, m \in ZoneNodeIds :
          /\ InGrid(x, m)' <=> InGrid(x, m) /\ ~ (x = e /\ m = n)
          /\ InInbox(x, m)' <=> InInbox(x, m) \/ (x = e /\ m = to)
          /\ InOutbox(x, m)' <=> InOutbox(x, m)
  <2>1. EntitiesOf(inbox'[to]) = EntitiesOf(inbox[to]) \union {e}
    BY <1>3, <1>4, TicketsJoined
  <2> QED BY <1>1, <1>2, <1>4, <2>1 DEF InGrid, InInbox, InOutbox
<1>7. /\ InGrid(e, n) /\ \A m \in ZoneNodeIds : /\ InGrid(e, m) => m = n
                                               /\ ~ InInbox(e, m) /\ ~ InOutbox(e, m)
  BY <1>1, <1>2 DEF OneSpot, InGrid
<1>8. OneSpot'
  BY <1>1, <1>6, <1>7 DEF OneSpot
<1>9. OneTicket'
  BY <1>1, <1>2 DEF OneTicket
<1>10. ASSUME NEW x \in CitizenIds PROVE Somewhere(x)' <=> x \in spawned' \ Lost'
  <2>1. Somewhere(x)' <=> Somewhere(x)
    BY <1>2, <1>6, <1>7 DEF Somewhere
  <2> QED BY <1>1, <1>2, <2>1
<1> QED BY <1>4, <1>5, <1>8, <1>9, <1>10 DEF HarnessInv

(* The two passes of a tick, a node or a ticket at a time. *)
FlushesInSteps(h, n) ==
    /\ h \in [0..n -> Seq(Tickets)] /\ h[0] = <<>> /\ h[n] = flush_outbox
    /\ \A k \in 1..n : h[k] = h[k - 1] \o outbox[k]
RoutesInSteps(h, n, staged) ==
    /\ h \in [0..n -> Boxes] /\ h[0] = inbox /\ h[n] = route_tickets(inbox, staged)
    /\ \A k \in 1..n : h[k] = RouteTicket(h[k - 1], staged[k])

\* The outboxes are emptied one after the other (cluster.rs, flush_outbox).
LEMMA FlushPass ==
    ASSUME outbox \in Boxes
    PROVE  \E h : FlushesInSteps(h, Len(ZoneNodes))
<1> DEFINE n == Len(ZoneNodes)  T == Seq(Tickets)  b == <<>>
           order == [k \in ZoneNodeIds |-> k]
           F == [x \in (1..n) \X T |-> x[2] \o outbox[x[1]]]
           Step(g) == [S \in SUBSET (1..n) |->
                         IF S = {} THEN b
                         ELSE LET k == Max(S) IN g[S \ {k}] \o outbox[order[k]]]
           it == CHOOSE g : g = Step(g)
<1>0. n \in Nat /\ ZoneNodeIds = 1..n /\ b \in T
  BY ContinentAssumption DEF ZoneNodeIds
<1>1. flush_outbox = it[1..n]
  <2>1. DOMAIN order = 1..n
    BY <1>0
  <2> QED BY <1>0, <2>1 DEF flush_outbox, FoldLeft, MapThenFoldSet
<1>2. F \in [(1..n) \X T -> T]
  <2> SUFFICES ASSUME NEW i \in 1..n, NEW x \in T PROVE x \o outbox[i] \in T
    OBVIOUS
  <2>1. outbox[i] \in T
    BY <1>0 DEF Boxes
  <2> QED BY <2>1, TicketsJoined
<1> HIDE DEF n
<1>3. PICK g \in [SUBSET (1..n) -> T] :
          /\ FoldsByMax(g, n, T, b, F)
          /\ \A S \in SUBSET (1..n) : S # {} => Max(S) \in 1..n /\ g[S \ {Max(S)}] \in T
  <2> HIDE DEF F, T, b
  <2> QED BY <1>0, <1>2, FoldFixed
<1>4. g = Step(g)
  <2>1. \A S \in SUBSET (1..n) : g[S] = IF S = {} THEN b
                   ELSE LET k == Max(S) IN g[S \ {k}] \o outbox[order[k]]
    <3>1. \A k \in 1..n : order[k] = k
      BY <1>0
    <3> HIDE DEF T, order, b
    <3> QED BY <1>3, <3>1 DEF FoldsByMax
  <2> HIDE DEF T, order, b
  <2> QED BY <2>1
<1>5. it = Step(it)
  <2> HIDE DEF Step
  <2> QED BY <1>4
<1> HIDE DEF it
<1>6. it[{}] = b
  BY <1>5
<1>7. ASSUME NEW S \in SUBSET (1..n), S # {}, it[S \ {Max(S)}] \in T
      PROVE  it[S] = F[<<Max(S), it[S \ {Max(S)}]>>]
  <2>1. it[S] = it[S \ {Max(S)}] \o outbox[order[Max(S)]]
    BY <1>5, <1>7
  <2>2. Max(S) \in 1..n
    BY <1>3, <1>7
  <2>3. order[Max(S)] = Max(S)
    BY <1>0, <2>2
  <2> HIDE DEF T, order
  <2> QED BY <1>7, <2>1, <2>2, <2>3
<1>8. PICK h : FoldsInSteps(h, it, n, T, b, F)
  <2> HIDE DEF F, T, b
  <2>2. FoldsByMax(it, n, T, b, F)
    BY <1>6, <1>7 DEF FoldsByMax
  <2> QED BY <1>0, <1>2, <2>2, FoldSteps
<1>9. /\ h \in [0..n -> T] /\ h[0] = b /\ h[n] = it[1..n]
      /\ \A k \in 1..n : h[k] = F[<<k, h[k - 1]>>]
  <2> HIDE DEF F, T, b
  <2> QED BY <1>8 DEF FoldsInSteps
<1>10. \A k \in 1..n : h[k] = h[k - 1] \o outbox[k]
  <2>1. \A k \in 1..n : k - 1 \in 0..n
    BY <1>0
  <2>2. \A k \in 1..n : <<k, h[k - 1]>> \in (1..n) \X T
    <3> HIDE DEF T
    <3> QED BY <1>9, <2>1
  <2> HIDE DEF T
  <2> QED BY <1>9, <2>2
<1>11. FlushesInSteps(h, n)
  BY <1>1, <1>9, <1>10 DEF FlushesInSteps
<1> QED BY <1>11 DEF n

\* Tickets are routed one after the other (cluster.rs, step_tick).
LEMMA RoutePass ==
    ASSUME inbox \in Boxes, NEW n \in Nat, NEW staged \in [1..n -> Tickets]
    PROVE  \E h : RoutesInSteps(h, n, staged)
<1> DEFINE T == Boxes  b == inbox
           F == [x \in (1..n) \X T |-> RouteTicket(x[2], staged[x[1]])]
           Step(g) == [S \in SUBSET (1..n) |->
                         IF S = {} THEN b
                         ELSE LET k == Max(S) IN RouteTicket(g[S \ {k}], staged[k])]
           it == CHOOSE g : g = Step(g)
<1>0. b \in T
  OBVIOUS
<1>1. route_tickets(b, staged) = it[1..n]
  <2>1. DOMAIN staged = 1..n
    OBVIOUS
  <2> QED BY <2>1 DEF route_tickets, FoldLeft, MapThenFoldSet
<1>2. F \in [(1..n) \X T -> T]
  <2> SUFFICES ASSUME NEW i \in 1..n, NEW x \in T PROVE RouteTicket(x, staged[i]) \in T
    OBVIOUS
  <2> DEFINE t == staged[i]
  <2>1. t \in Tickets
    OBVIOUS
  <2> HIDE DEF t
  <2>2. t.to \in ZoneNodeIds => Append(x[t.to], t) \in Seq(Tickets)
    BY <2>1, TicketsJoined DEF Boxes
  <2>3. RouteTicket(x, t) \in T
    BY <2>2 DEF RouteTicket, Boxes
  <2> QED BY <2>3 DEF t
<1>3. PICK g \in [SUBSET (1..n) -> T] :
          /\ FoldsByMax(g, n, T, b, F)
          /\ \A S \in SUBSET (1..n) : S # {} => Max(S) \in 1..n /\ g[S \ {Max(S)}] \in T
  <2> HIDE DEF F, T, b
  <2> QED BY <1>0, <1>2, FoldFixed
<1>4. g = Step(g)
  <2>1. \A S \in SUBSET (1..n) : g[S] = IF S = {} THEN b
                   ELSE LET k == Max(S) IN RouteTicket(g[S \ {k}], staged[k])
    <3> HIDE DEF T, b
    <3> QED BY <1>3 DEF FoldsByMax
  <2> HIDE DEF T, b
  <2> QED BY <2>1
<1>5. it = Step(it)
  <2> HIDE DEF Step
  <2> QED BY <1>4
<1> HIDE DEF it
<1>6. it[{}] = b
  BY <1>5
<1>7. ASSUME NEW S \in SUBSET (1..n), S # {}, it[S \ {Max(S)}] \in T
      PROVE  it[S] = F[<<Max(S), it[S \ {Max(S)}]>>]
  <2>1. it[S] = RouteTicket(it[S \ {Max(S)}], staged[Max(S)])
    BY <1>5, <1>7
  <2>2. Max(S) \in 1..n
    BY <1>3, <1>7
  <2> HIDE DEF T
  <2> QED BY <1>7, <2>1, <2>2
<1>8. PICK h : FoldsInSteps(h, it, n, T, b, F)
  <2> HIDE DEF F, T, b
  <2>2. FoldsByMax(it, n, T, b, F)
    BY <1>6, <1>7 DEF FoldsByMax
  <2> QED BY <1>0, <1>2, <2>2, FoldSteps
<1>9. /\ h \in [0..n -> T] /\ h[0] = b /\ h[n] = it[1..n]
      /\ \A k \in 1..n : h[k] = F[<<k, h[k - 1]>>]
  <2> HIDE DEF F, T, b
  <2> QED BY <1>8 DEF FoldsInSteps
<1>10. \A k \in 1..n : h[k] = RouteTicket(h[k - 1], staged[k])
  <2>1. \A k \in 1..n : k - 1 \in 0..n
    OBVIOUS
  <2>2. \A k \in 1..n : <<k, h[k - 1]>> \in (1..n) \X T
    <3> HIDE DEF T
    <3> QED BY <1>9, <2>1
  <2> HIDE DEF T
  <2> QED BY <1>9, <2>2
<1> QED BY <1>1, <1>9, <1>10 DEF RoutesInSteps

\* What is flushed is what the outboxes held (cluster.rs).
LEMMA Flushed ==
    ASSUME outbox \in Boxes
    PROVE  /\ flush_outbox \in Seq(Tickets)
           /\ \A t : t \in TicketsIn(flush_outbox) <=>
                         \E n \in ZoneNodeIds : t \in TicketsIn(outbox[n])
<1> DEFINE n == Len(ZoneNodes)
<1>0. n \in Nat /\ ZoneNodeIds = 1..n
  BY ContinentAssumption DEF ZoneNodeIds
<1>1. PICK h : FlushesInSteps(h, n)
  BY FlushPass
<1> HIDE DEF n
<1>2. /\ h \in [0..n -> Seq(Tickets)] /\ h[0] = <<>> /\ h[n] = flush_outbox
      /\ \A k \in 1..n : h[k] = h[k - 1] \o outbox[k]
  BY <1>1 DEF FlushesInSteps
<1> DEFINE Done(k) == \A t : t \in TicketsIn(h[k]) <=> \E m \in 1..k : t \in TicketsIn(outbox[m])
           H == {k \in 0..n : Done(k)}
<1>3. 0 \in H
  <2>1. TicketsIn(h[0]) = {} /\ 1..0 = {} /\ 0 \in 0..n
    BY <1>0, <1>2, TicketsJoined
  <2> QED BY <2>1
<1>4. ASSUME NEW k \in 1..n, k - 1 \in H PROVE k \in H
  <2>0. k \in 0..n /\ k - 1 \in 0..n /\ k \in ZoneNodeIds
    BY <1>0
  <2>1. h[k - 1] \in Seq(Tickets) /\ outbox[k] \in Seq(Tickets) /\ k \in 0..n
    BY <1>2, <2>0 DEF Boxes
  <2>2. TicketsIn(h[k]) = TicketsIn(h[k - 1]) \union TicketsIn(outbox[k])
    BY <1>2, <2>1, TicketsJoined
  <2>3. Done(k - 1)
    BY <1>4
  <2>4. \A m : m \in 1..k <=> m \in 1..(k - 1) \/ m = k
    BY <1>0
  <2>5. Done(k)
    BY <2>2, <2>3, <2>4
  <2> HIDE DEF Done
  <2> QED BY <2>1, <2>5
<1>5. \A k \in 0..n : k \in H
  <2> HIDE DEF H
  <2> QED BY <1>0, <1>3, <1>4, UpTo
<1>6. n \in 0..n
  BY <1>0
<1>7. Done(n)
  BY <1>5, <1>6
<1> QED BY <1>0, <1>2, <1>6, <1>7

RoutedWell(r, staged) ==
    /\ r \in Boxes
    /\ \A m \in ZoneNodeIds :
           /\ TicketsIn(inbox[m]) \subseteq TicketsIn(r[m])
           /\ \A t \in TicketsIn(r[m]) :
                  t \in TicketsIn(inbox[m]) \/ (t \in TicketsIn(staged) /\ t.to = m)

\* What ends up in an inbox was in it, or was addressed to it.
LEMMA Routed ==
    ASSUME inbox \in Boxes, NEW staged \in Seq(Tickets), NEW r,
           r = route_tickets(inbox, staged)
    PROVE  RoutedWell(r, staged)
<1> DEFINE n == Len(staged)
<1>0. n \in Nat /\ staged \in [1..n -> Tickets] /\ DOMAIN staged = 1..n
  OBVIOUS
<1>1. PICK h : RoutesInSteps(h, n, staged)
  <2> HIDE DEF n
  <2> QED BY <1>0, RoutePass
<1> HIDE DEF n
<1>2. /\ h \in [0..n -> Boxes] /\ h[0] = inbox /\ h[n] = r
      /\ \A k \in 1..n : h[k] = RouteTicket(h[k - 1], staged[k])
  BY <1>1 DEF RoutesInSteps
<1> DEFINE Done(b) == \A m \in ZoneNodeIds :
                          /\ TicketsIn(inbox[m]) \subseteq TicketsIn(b[m])
                          /\ \A t \in TicketsIn(b[m]) :
                                 t \in TicketsIn(inbox[m]) \/ (t \in TicketsIn(staged) /\ t.to = m)
           H == {k \in 0..n : Done(h[k])}
<1>3. 0 \in H
  BY <1>0, <1>2
<1>4. ASSUME NEW k \in 1..n, k - 1 \in H PROVE k \in H
  <2> DEFINE b == h[k - 1]  t == staged[k]
  <2>1. b \in Boxes /\ k \in 0..n /\ t \in Tickets /\ h[k] = RouteTicket(b, t)
    BY <1>0, <1>2, <1>4
  <2>2. t \in TicketsIn(staged)
    BY <1>0 DEF TicketsIn
  <2>3. Done(b)
    BY <1>4
  <2> HIDE DEF b, t
  <2>4. Done(h[k])
    <3>1. CASE t.to \in ZoneNodeIds /\ Len(b[t.to]) < BOX
      <4> DEFINE c == [b EXCEPT ![t.to] = Append(b[t.to], t)]
      <4>1. h[k] = c
        BY <2>1, <3>1 DEF RouteTicket
      <4>2. \A m \in ZoneNodeIds : m # t.to => c[m] = b[m]
        BY <2>1 DEF Boxes
      <4>3. c[t.to] = Append(b[t.to], t)
        BY <2>1, <3>1 DEF Boxes
      <4>4. TicketsIn(c[t.to]) = TicketsIn(b[t.to]) \union {t}
        BY <2>1, <3>1, <4>3, TicketsJoined DEF Boxes
      <4> HIDE DEF c
      <4>5. Done(c)
        BY <2>2, <2>3, <4>2, <4>4
      <4> HIDE DEF Done
      <4> QED BY <4>1, <4>5
    <3>2. CASE ~ (t.to \in ZoneNodeIds /\ Len(b[t.to]) < BOX)
      <4>1. h[k] = b
        BY <2>1, <3>2 DEF RouteTicket
      <4> HIDE DEF Done
      <4> QED BY <2>3, <4>1
    <3> QED BY <3>1, <3>2
  <2> HIDE DEF Done
  <2> QED BY <2>1, <2>4
<1>5. \A k \in 0..n : k \in H
  <2> HIDE DEF H
  <2> QED BY <1>0, <1>3, <1>4, UpTo
<1>6. n \in 0..n
  BY <1>0
<1>7. Done(h[n]) /\ h[n] \in Boxes
  BY <1>2, <1>5, <1>6
<1> QED BY <1>2, <1>7 DEF RoutedWell

\* A tick: what the boxes hold is adopted by one zone, or lost
\* (cluster.rs, step_tick).
LEMMA HarnessTicked == ASSUME HarnessInv, harness_step_tick PROVE HarnessInv'
<1> DEFINE all == flush_outbox
           staged == SubSeq(all, 1, IF Len(all) < STAGED THEN Len(all) ELSE STAGED)
           routed == route_tickets(inbox, staged)
           arriving == UNION {EntitiesOf(routed[n]) : n \in ZoneNodeIds}
           adopted == UNION {adopt_inbox(n, routed[n]) : n \in ZoneNodeIds}
<1>1. /\ grids \in [ZoneNodeIds -> SUBSET CitizenIds] /\ outbox \in Boxes /\ inbox \in Boxes
      /\ Lost \subseteq spawned /\ spawned \subseteq CitizenIds
      /\ OneSpot /\ OneTicket
      /\ \A x \in CitizenIds : Somewhere(x) <=> x \in spawned \ Lost
  BY DEF HarnessInv
<1>2. /\ grids' = [n \in ZoneNodeIds |-> grids[n] \cup adopt_inbox(n, routed[n])]
      /\ outbox' = [n \in ZoneNodeIds |-> <<>>] /\ inbox' = [n \in ZoneNodeIds |-> <<>>]
      /\ droppedTickets' = droppedTickets \cup (EntitiesOf(all) \ arriving)
      /\ refusedTickets' = refusedTickets \cup (arriving \ adopted)
      /\ spawned' = spawned
  BY DEF harness_step_tick
<1>3. /\ all \in Seq(Tickets)
      /\ \A t : t \in TicketsIn(all) <=> \E n \in ZoneNodeIds : t \in TicketsIn(outbox[n])
  BY <1>1, Flushed
<1> HIDE DEF all
<1>4. staged \in Seq(Tickets) /\ TicketsIn(staged) \subseteq TicketsIn(all)
  <2> DEFINE k == IF Len(all) < STAGED THEN Len(all) ELSE STAGED
  <2>1. k \in Nat /\ k <= Len(all)
    BY <1>3, BoundaryLimits
  <2>2. staged = SubSeq(all, 1, k)
    OBVIOUS
  <2> HIDE DEF k, staged
  <2>3. staged \in Seq(Tickets) /\ DOMAIN staged = 1..k
        /\ \A i \in 1..k : staged[i] = all[i] /\ i \in DOMAIN all
    BY <1>3, <2>1, <2>2
  <2> QED BY <2>3 DEF TicketsIn
<1> HIDE DEF staged
<1>5. /\ routed \in Boxes
      /\ \A m \in ZoneNodeIds :
             /\ TicketsIn(inbox[m]) \subseteq TicketsIn(routed[m])
             /\ \A t \in TicketsIn(routed[m]) :
                    t \in TicketsIn(inbox[m]) \/ (t \in TicketsIn(staged) /\ t.to = m)
  <2> DEFINE r == routed
  <2>1. r = route_tickets(inbox, staged)
    OBVIOUS
  <2> HIDE DEF r
  <2>2. RoutedWell(r, staged)
    BY <1>1, <1>4, <2>1, Routed
  <2> QED BY <2>2 DEF r, RoutedWell
<1> HIDE DEF routed
<1>6. \A n \in ZoneNodeIds :
          /\ EntitiesOf(outbox[n]) = {t.entity : t \in TicketsIn(outbox[n])}
          /\ EntitiesOf(inbox[n]) = {t.entity : t \in TicketsIn(inbox[n])}
          /\ EntitiesOf(routed[n]) = {t.entity : t \in TicketsIn(routed[n])}
          /\ EntitiesOf(routed[n]) \subseteq CitizenIds
  BY <1>1, <1>5, TicketFields DEF Boxes
<1>7. EntitiesOf(all) = {t.entity : t \in TicketsIn(all)} /\ EntitiesOf(all) \subseteq CitizenIds
  BY <1>3, TicketFields
\* The tickets of an entity that leaves are one.
<1>8. ASSUME NEW n \in ZoneNodeIds, NEW m \in ZoneNodeIds, NEW t \in TicketsIn(outbox[n]),
             NEW u \in TicketsIn(outbox[m]), t.entity = u.entity
      PROVE  t = u
  <2>1. t.entity \in CitizenIds /\ t.entity \in EntitiesOf(outbox[n]) /\ u.entity \in EntitiesOf(outbox[m])
    BY <1>1, <1>6, TicketFields DEF Boxes
  <2>2. n = m
    BY <1>1, <1>8, <2>1 DEF OneSpot, InOutbox
  <2>3. PICK i \in DOMAIN outbox[n], j \in DOMAIN outbox[n] : t = outbox[n][i] /\ u = outbox[n][j]
    BY <2>2 DEF TicketsIn
  <2>4. i = j
    BY <1>1, <1>8, <2>3 DEF OneTicket
  <2> QED BY <2>3, <2>4
\* An arrival was in that inbox, or is the one ticket of an outbox.
<1>9. ASSUME NEW e \in CitizenIds, NEW m \in ZoneNodeIds, e \in EntitiesOf(routed[m])
      PROVE  \/ InInbox(e, m)
             \/ \E n \in ZoneNodeIds : \E t \in TicketsIn(outbox[n]) : t.entity = e /\ t.to = m
  <2>1. PICK t \in TicketsIn(routed[m]) : t.entity = e
    BY <1>6, <1>9
  <2>2. CASE t \in TicketsIn(inbox[m])
    BY <1>6, <2>1, <2>2 DEF InInbox
  <2>3. CASE t \in TicketsIn(staged) /\ t.to = m
    BY <1>3, <1>4, <2>1, <2>3
  <2> QED BY <1>5, <2>1, <2>2, <2>3
<1>10. ASSUME NEW e \in CitizenIds, NEW n \in ZoneNodeIds, NEW t \in TicketsIn(outbox[n]),
              t.entity = e
       PROVE  InOutbox(e, n)
  BY <1>6, <1>10 DEF InOutbox
<1>11. ASSUME NEW e \in CitizenIds, NEW m \in ZoneNodeIds, NEW k \in ZoneNodeIds,
              e \in EntitiesOf(routed[m]), e \in EntitiesOf(routed[k])
       PROVE  m = k
  <2>1. CASE InInbox(e, m)
    <3>1. \A n \in ZoneNodeIds : ~ InOutbox(e, n)
      BY <1>1, <2>1 DEF OneSpot
    <3>2. InInbox(e, k)
      BY <1>9, <1>10, <1>11, <3>1
    <3> QED BY <1>1, <2>1, <3>2 DEF OneSpot
  <2>2. CASE ~ InInbox(e, m)
    <3>1. PICK n \in ZoneNodeIds : \E t \in TicketsIn(outbox[n]) : t.entity = e /\ t.to = m
      BY <1>9, <1>11, <2>2
    <3>2. PICK t \in TicketsIn(outbox[n]) : t.entity = e /\ t.to = m
      BY <3>1
    <3>3. ~ InInbox(e, k)
      BY <1>1, <1>10, <3>2 DEF OneSpot
    <3>4. PICK l \in ZoneNodeIds : \E u \in TicketsIn(outbox[l]) : u.entity = e /\ u.to = k
      BY <1>9, <1>11, <3>3
    <3>5. PICK u \in TicketsIn(outbox[l]) : u.entity = e /\ u.to = k
      BY <3>4
    <3> QED BY <1>8, <3>2, <3>5
  <2> QED BY <2>1, <2>2
<1>12. \A e \in CitizenIds : e \in EntitiesOf(all) <=> \E n \in ZoneNodeIds : InOutbox(e, n)
  <2>1. ASSUME NEW e \in EntitiesOf(all) PROVE \E n \in ZoneNodeIds : InOutbox(e, n)
    <3>1. PICK t \in TicketsIn(all) : t.entity = e
      BY <1>7
    <3>2. PICK n \in ZoneNodeIds : t \in TicketsIn(outbox[n])
      BY <1>3
    <3> QED BY <1>6, <3>1, <3>2 DEF InOutbox
  <2>2. ASSUME NEW e, NEW n \in ZoneNodeIds, InOutbox(e, n) PROVE e \in EntitiesOf(all)
    <3>1. PICK t \in TicketsIn(outbox[n]) : t.entity = e
      BY <1>6, <2>2 DEF InOutbox
    <3>2. t \in TicketsIn(all)
      BY <1>3
    <3> QED BY <1>7, <3>1, <3>2
  <2> QED BY <2>1, <2>2
<1>13. ASSUME NEW e \in CitizenIds, NEW n \in ZoneNodeIds
       PROVE  /\ InGrid(e, n)' <=> InGrid(e, n) \/ (e \in EntitiesOf(routed[n]) /\ e < ZoneNodes[n])
              /\ ~ InInbox(e, n)' /\ ~ InOutbox(e, n)'
  <2>1. grids'[n] = grids[n] \union adopt_inbox(n, routed[n]) /\ inbox'[n] = <<>> /\ outbox'[n] = <<>>
    BY <1>2
  <2> QED BY <2>1, TicketsJoined DEF InGrid, InInbox, InOutbox, adopt_inbox
<1>14. ASSUME NEW e \in CitizenIds, NEW n \in ZoneNodeIds, NEW m \in ZoneNodeIds,
              e \in EntitiesOf(routed[n])
       PROVE  ~ InGrid(e, m)
  BY <1>1, <1>9, <1>10, <1>14 DEF OneSpot
<1>15. OneSpot'
  BY <1>1, <1>11, <1>13, <1>14 DEF OneSpot
<1>16. OneTicket'
  BY <1>2 DEF OneTicket
<1>17. /\ grids' \in [ZoneNodeIds -> SUBSET CitizenIds] /\ outbox' \in Boxes /\ inbox' \in Boxes
  <2>1. <<>> \in Seq(Tickets)
    OBVIOUS
  <2>2. \A n \in ZoneNodeIds : adopt_inbox(n, routed[n]) \subseteq CitizenIds
    BY <1>6 DEF adopt_inbox
  <2> QED BY <1>1, <1>2, <2>1, <2>2 DEF Boxes
<1>18. \A e \in CitizenIds :
           /\ e \in arriving <=> \E n \in ZoneNodeIds : e \in EntitiesOf(routed[n])
           /\ e \in adopted <=> \E n \in ZoneNodeIds : e \in EntitiesOf(routed[n]) /\ e < ZoneNodes[n]
                                                      /\ ~ InGrid(e, n)
  BY DEF adopt_inbox, InGrid
<1> HIDE DEF arriving, adopted
<1>19. \A e \in CitizenIds : e \in Lost' <=> e \in Lost \/ (e \in EntitiesOf(all) /\ e \notin arriving)
                                                       \/ (e \in arriving /\ e \notin adopted)
  BY <1>2 DEF Lost
<1>20. \A e \in CitizenIds : e \in arriving => Somewhere(e)
  BY <1>9, <1>10, <1>18 DEF Somewhere
<1>21. arriving \subseteq CitizenIds
  BY <1>6 DEF arriving
<1>22. Lost' \subseteq spawned' /\ spawned' \subseteq CitizenIds
  <2>1. EntitiesOf(all) \subseteq spawned /\ arriving \subseteq spawned
    BY <1>1, <1>7, <1>12, <1>20, <1>21 DEF Somewhere
  <2>2. Lost' \subseteq Lost \union EntitiesOf(all) \union arriving
    BY <1>2 DEF Lost
  <2> QED BY <1>1, <1>2, <2>1, <2>2
<1>23. ASSUME NEW e \in CitizenIds PROVE Somewhere(e)' <=> e \in spawned' \ Lost'
  <2>0. Somewhere(e)' <=> \E n \in ZoneNodeIds : InGrid(e, n)'
    BY <1>13 DEF Somewhere
  <2>1. CASE \E n \in ZoneNodeIds : InGrid(e, n)
    <3>1. PICK n \in ZoneNodeIds : InGrid(e, n)
      BY <2>1
    <3>2. e \notin arriving
      BY <1>14, <1>18, <3>1
    <3>3. e \notin EntitiesOf(all)
      BY <1>1, <1>12, <3>1 DEF OneSpot
    <3>4. e \in spawned \ Lost
      BY <1>1, <3>1 DEF Somewhere
    <3>5. Somewhere(e)'
      BY <1>13, <2>0, <3>1
    <3> QED BY <1>2, <1>19, <3>2, <3>3, <3>4, <3>5
  <2>2. CASE ~ (\E n \in ZoneNodeIds : InGrid(e, n)) /\ Somewhere(e)
    <3>1. e \in spawned \ Lost
      BY <1>1, <2>2
    <3>2. Somewhere(e)' <=> e \in adopted
      BY <1>13, <1>18, <2>0, <2>2
    <3>3. e \in adopted => e \in arriving
      BY <1>18
    <3>4. e \in EntitiesOf(all) \/ e \in arriving
      <4>1. PICK n \in ZoneNodeIds : InInbox(e, n) \/ InOutbox(e, n)
        BY <2>2 DEF Somewhere
      <4>2. CASE InOutbox(e, n)
        BY <1>12, <4>2
      <4>3. CASE InInbox(e, n)
        <5>1. EntitiesOf(inbox[n]) \subseteq EntitiesOf(routed[n])
          BY <1>5, <1>6
        <5> QED BY <1>18, <4>3, <5>1 DEF InInbox
      <4> QED BY <4>1, <4>2, <4>3
    <3> QED BY <1>2, <1>19, <3>1, <3>2, <3>3, <3>4
  <2>3. CASE ~ Somewhere(e)
    <3>1. e \notin spawned \/ e \in Lost
      BY <1>1, <2>3
    <3>2. e \notin arriving /\ \A n \in ZoneNodeIds : ~ InGrid(e, n)
      BY <1>20, <2>3 DEF Somewhere
    <3>3. ~ Somewhere(e)'
      BY <1>13, <1>18, <2>0, <3>2
    <3> QED BY <1>2, <1>19, <3>1, <3>3
  <2> QED BY <2>1, <2>2, <2>3
<1> QED BY <1>15, <1>16, <1>17, <1>22, <1>23 DEF HarnessInv

\* Every step of the harness keeps what is known of its boxes (cluster.rs).
LEMMA HarnessStep == HarnessInv /\ [HarnessNext]_harnessVars => HarnessInv'
<1> SUFFICES ASSUME HarnessInv, [HarnessNext]_harnessVars PROVE HarnessInv'
  OBVIOUS
<1>1. ASSUME NEW n \in ZoneNodeIds, NEW e \in CitizenIds, spawn_entity(n, e)
      PROVE  HarnessInv'
  BY <1>1, HarnessSpawned
<1>2. ASSUME NEW n \in ZoneNodeIds, NEW e \in CitizenIds, NEW to \in ZoneNodeIds \union {0},
             queue_outbox(n, e, to)
      PROVE  HarnessInv'
  BY <1>2, HarnessSent
<1>3. ASSUME NEW n \in ZoneNodeIds, NEW e \in CitizenIds, NEW to \in ZoneNodeIds \union {0},
             queue_inbox(n, e, to)
      PROVE  HarnessInv'
  BY <1>3, HarnessHanded
<1>4. CASE harness_step_tick
  BY <1>4, HarnessTicked
<1>5. CASE UNCHANGED harnessVars
  BY <1>5 DEF harnessVars, HarnessInv, Lost, OneSpot, OneTicket, Somewhere, InGrid, InInbox, InOutbox
<1> QED BY <1>1, <1>2, <1>3, <1>4, <1>5 DEF HarnessNext

\* One box or one zone holds an entity that was spawned, and none that was lost.
LEMMA HarnessSuffices == ASSUME HarnessInv PROVE SingleWriter
<1> SUFFICES ASSUME NEW e \in spawned
             PROVE  Cardinality({n \in ZoneNodeIds : e \in grids[n]})
                  + Cardinality({c \in ZoneNodeIds \X {"in", "out"} :
                        e \in EntitiesOf(IF c[2] = "in" THEN inbox[c[1]] ELSE outbox[c[1]])})
                  = IF e \in droppedTickets \union refusedTickets THEN 0 ELSE 1
  BY DEF SingleWriter
<1> DEFINE G == {n \in ZoneNodeIds : e \in grids[n]}
           B == {c \in ZoneNodeIds \X {"in", "out"} :
                   e \in EntitiesOf(IF c[2] = "in" THEN inbox[c[1]] ELSE outbox[c[1]])}
<1>1. e \in CitizenIds /\ OneSpot /\ (Somewhere(e) <=> e \notin Lost)
  BY DEF HarnessInv
<1>9. \A n, m \in ZoneNodeIds :
          /\ InGrid(e, n) /\ InGrid(e, m) => n = m
          /\ InInbox(e, n) /\ InInbox(e, m) => n = m
          /\ InOutbox(e, n) /\ InOutbox(e, m) => n = m
          /\ ~ (InGrid(e, n) /\ InInbox(e, m))
          /\ ~ (InGrid(e, n) /\ InOutbox(e, m))
          /\ ~ (InInbox(e, n) /\ InOutbox(e, m))
  BY <1>1, Zenon DEF OneSpot
<1>2. \A n : n \in G <=> n \in ZoneNodeIds /\ InGrid(e, n)
  BY DEF InGrid
<1>3. /\ \A c \in B : c \in ZoneNodeIds \X {"in", "out"}
      /\ \A n \in ZoneNodeIds : /\ <<n, "in">> \in B <=> InInbox(e, n)
                                /\ <<n, "out">> \in B <=> InOutbox(e, n)
  BY DEF InInbox, InOutbox
<1>4. \A c \in ZoneNodeIds \X {"in", "out"} :
          \E n \in ZoneNodeIds : c = <<n, "in">> \/ c = <<n, "out">>
  OBVIOUS
<1>10. \A c \in B : \E n \in ZoneNodeIds : (c = <<n, "in">> /\ InInbox(e, n))
                                          \/ (c = <<n, "out">> /\ InOutbox(e, n))
  <2> HIDE DEF B
  <2> QED BY <1>3, <1>4
<1>5. Cardinality({}) = 0 /\ \A x : Cardinality({x}) = 1
  BY FS_EmptySet, FS_Singleton
<1> HIDE DEF G, B
<1>6. CASE ~ Somewhere(e)
  <2>1. G = {} /\ B = {}
    BY <1>2, <1>3, <1>4, <1>6 DEF Somewhere
  <2>2. Cardinality(G) + Cardinality(B) = 0
    BY <1>5, <2>1
  <2> QED BY <1>1, <1>6, <2>2 DEF G, B, Lost
<1>7. CASE \E n \in ZoneNodeIds : InGrid(e, n)
  <2>1. PICK n \in ZoneNodeIds : InGrid(e, n)
    BY <1>7
  <2>2. G = {n}
    BY <1>2, <1>9, <2>1
  <2>3. B = {}
    BY <1>9, <1>10, <2>1
  <2>4. Cardinality(G) + Cardinality(B) = 1
    <3>1. Cardinality(G) = 1 /\ Cardinality(B) = 0
      BY <1>5, <2>2, <2>3
    <3> QED BY <3>1
  <2>5. e \notin Lost
    BY <1>1, <2>1 DEF Somewhere
  <2> QED BY <2>4, <2>5 DEF G, B, Lost
<1>8. CASE \E n \in ZoneNodeIds : InInbox(e, n) \/ InOutbox(e, n)
  <2>1. PICK n \in ZoneNodeIds : InInbox(e, n) \/ InOutbox(e, n)
    BY <1>8
  <2>2. G = {}
    BY <1>2, <1>9, <2>1
  <2>3. PICK c : B = {c}
    <3>1. CASE InInbox(e, n)
      <4>1. \A c \in B : c = <<n, "in">>
        BY <1>9, <1>10, <2>1, <3>1
      <4>2. <<n, "in">> \in B
        BY <1>3, <2>1, <3>1
      <4> QED BY <4>1, <4>2
    <3>2. CASE InOutbox(e, n)
      <4>1. \A c \in B : c = <<n, "out">>
        BY <1>9, <1>10, <2>1, <3>2
      <4>2. <<n, "out">> \in B
        BY <1>3, <2>1, <3>2
      <4> QED BY <4>1, <4>2
    <3> QED BY <2>1, <3>1, <3>2
  <2>4. Cardinality(G) + Cardinality(B) = 1
    <3>1. Cardinality(G) = 0 /\ Cardinality(B) = 1
      BY <1>5, <2>2, <2>3
    <3> QED BY <3>1
  <2>5. e \notin Lost
    BY <1>1, <2>1 DEF Somewhere
  <2> QED BY <2>4, <2>5 DEF G, B, Lost
<1> QED BY <1>6, <1>7, <1>8 DEF Somewhere
===============================================================================
