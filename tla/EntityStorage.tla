---------------------------- MODULE EntityStorage ----------------------------
(*****************************************************************************)
(* The world's dense entity storage (crates/eidolon-world/src/soa_storage.rs)*)
(* and the sector coordinator that steps it (sector_parallel.rs): parallel   *)
(* arrays packed by swap-removal behind a table from ids to positions in     *)
(* them, the same entities as 64-byte blocks and as a fixed chunk of lanes,  *)
(* and buckets of ids by sector.  Positions in the arrays count from 0.      *)
(*****************************************************************************)
EXTENDS Integers, Sequences, SequencesExt, FiniteSets, PartialFunctions

CONSTANTS
    StoredIds,          \* entity ids, numbers from 0
    Places, Speeds,     \* where entities are spawned and put, and how fast
    Dt,                 \* length of a step; even, so that Dt * Dt / 2 is whole
    Horizon,            \* bound on the positions that are stepped
    MaxAssigned,        \* bound on the ids in the buckets
    SectorSize,         \* CELL_HORIZONTAL_SIZE
    SECTOR_BITS,        \* width of a sector index (16 in the code)
    U16_MAX,            \* largest health of a block
    LANES               \* slots of a chunk (8 in the code)

ASSUME StorageAssumption ==
    /\ StoredIds \subseteq Nat /\ Places \subseteq Int /\ Speeds \subseteq Int
    /\ Dt % 2 = 0 /\ {Horizon, MaxAssigned} \subseteq Nat /\ SectorSize \in Nat \ {0}
    /\ SECTOR_BITS \in Nat \ {0} /\ U16_MAX \in Nat /\ LANES \in Nat \ {0}

VARIABLES
    soa,            \* SoaEntityStorage: component -> its dense array
    sparse,         \* sparse_to_dense: id -> index, for the ids that have one
    blocks,         \* AlignedBlockStorage: its dense array of blocks,
    block_cold,     \*   the metadata beside it
    block_sparse,   \*   and its own table
    chunk,          \* AlignedSoAChunk8
    sectors,        \* the coordinator's buckets, in the order of creation
    truth,          \* id -> what was last stored under it (history)
    block_truth,    \* id -> the same for the blocks (history)
    exported,       \* the blocks an export holds, and whether an entity left since
    unclear         \* ids that were not handled as the code expects (history)

soaVars == <<soa, sparse, truth>>
blockVars == <<blocks, block_cold, block_sparse, block_truth>>
storageVars == <<soaVars, blockVars, chunk, sectors, exported, unclear>>

(* ------------------------------- components ------------------------------ *)

Components == {"id", "position", "velocity", "acceleration", "heading",
               "flags", "health", "max_health", "cold"}

DefaultMetadata == "none"

EntitySpawnParams(i, pos, vel, acc) ==
    [id |-> i, position |-> pos, velocity |-> vel, acceleration |-> acc,
     heading |-> vel, flags |-> 0, health |-> U16_MAX, max_health |-> U16_MAX,
     cold |-> DefaultMetadata]

with_health(p, hp, cold) == [p EXCEPT !.health = hp, !.max_health = hp, !.cold = cold]

AlignedEntityBlock64(i, pos, vel, heading, flags, hp, max) ==
    [entity_id |-> i, position |-> pos, velocity |-> vel, heading |-> heading,
     flags |-> flags, health |-> hp, max_health |-> max]

NewBlock(i, pos, vel) == AlignedEntityBlock64(i, pos, vel, vel, 0, U16_MAX, U16_MAX)

AtMost(n, max) == IF n < max THEN n ELSE max

(* --------------------- packed arrays and their tables -------------------- *)

at(s, i) == s[i + 1]

\* Vec::swap_remove: the last element fills the hole.
swap_remove(s, i) ==
    IF i = Len(s) - 1 THEN Front(s) ELSE [Front(s) EXCEPT ![i + 1] = Last(s)]

NewStorage == [c \in Components |-> <<>>]

len == Len(soa["id"])
SoaIndices == 0..(len - 1)

lookup_index(i) == IF i \in DOMAIN sparse THEN {sparse[i]} ELSE {}

get_transform(i) ==
    {[c \in {"position", "velocity", "heading"} |-> at(soa[c], d)] : d \in lookup_index(i)}
get_transform_2nd_order(i) ==
    {[c \in {"position", "velocity", "acceleration", "heading"} |-> at(soa[c], d)] :
        d \in lookup_index(i)}
get_health(i) ==
    {[c \in {"health", "max_health"} |-> at(soa[c], d)] : d \in lookup_index(i)}
get_cold_data(i) == {at(soa["cold"], d) : d \in lookup_index(i)}

components(d) == [c \in Components |-> at(soa[c], d)]

get_block(i) == IF i \in DOMAIN block_sparse THEN {at(blocks, block_sparse[i])} ELSE {}

spawn(p) ==
    /\ p.id \notin DOMAIN sparse
    /\ soa' = [c \in Components |-> Append(soa[c], p[c])]
    /\ sparse' = With(sparse, p.id, len)
    /\ truth' = With(truth, p.id, p)

\* Mutated form: the entity moved into the hole keeps its table entry.
despawn_no_relink(i) ==
    /\ i \in DOMAIN sparse
    /\ soa' = [c \in Components |-> swap_remove(soa[c], sparse[i])]
    /\ sparse' = Without(sparse, {i})
    /\ truth' = Without(truth, {i})

despawn(i) ==
    /\ i \in DOMAIN sparse
    /\ LET dense_idx == sparse[i]
           packed == [c \in Components |-> swap_remove(soa[c], dense_idx)]
           cleared == Without(sparse, {i})
       IN  /\ soa' = packed
           /\ sparse' = IF dense_idx < len - 1
                        THEN [cleared EXCEPT ![at(packed["id"], dense_idx)] = dense_idx]
                        ELSE cleared
    /\ truth' = Without(truth, {i})

\* Components of an entity written through its table entry.
Stored(i, new) ==
    /\ i \in DOMAIN sparse
    /\ soa' = [c \in Components |->
                  IF c \in DOMAIN new THEN [soa[c] EXCEPT ![sparse[i] + 1] = new[c]] ELSE soa[c]]
    /\ truth' = [truth EXCEPT ![i] = new @@ @]
    /\ UNCHANGED sparse

set_transform(i, pos, vel) ==
    Stored(i, [position |-> pos, velocity |-> vel, heading |-> vel])
set_transform_2nd_order(i, pos, vel, acc) ==
    Stored(i, [position |-> pos, velocity |-> vel, acceleration |-> acc, heading |-> vel])
get_cold_data_mut(i, new) == Stored(i, [cold |-> new])
\* Combat writes health through the slice, at an index it looked up.
health_mut(i, hp) == Stored(i, [health |-> hp])

(* ------------------------------- kinematics ------------------------------ *)

half_dt_sq == (Dt * Dt) \div 2

step_2nd_order(r, acc) ==
    [r EXCEPT !.position = @ + r.velocity * Dt + acc * half_dt_sq,
              !.velocity = @ + acc * Dt]

step_block(r) == [r EXCEPT !.position = @ + r.velocity * Dt]

\* The runs of indices the loops over n entities cover, in lanes of 16 with at
\* most one of 8, in lanes of 8, and one by one.
Lanes(start, width) == start..(start + width - 1)
step_kinematics_simd_16x(n) ==
    LET offset == (n \div 16) * 16
        tail == IF n - offset >= 8 THEN offset + 8 ELSE offset
    IN  [c \in 1..(n \div 16) |-> Lanes((c - 1) * 16, 16)]
        \o (IF n - offset >= 8 THEN <<Lanes(offset, 8)>> ELSE <<>>)
        \o [k \in 1..(n - tail) |-> {tail + k - 1}]
step_kinematics_simd_8x(n) ==
    [c \in 1..(n \div 8) |-> Lanes((c - 1) * 8, 8)]
    \o [k \in 1..(n - (n \div 8) * 8) |-> {(n \div 8) * 8 + k - 1}]
step_kinematics_scalar(n) == [k \in 1..n |-> {k - 1}]

\* How often index d is stepped by the loops that cover the given runs.
Times(runs, d) == Cardinality({k \in DOMAIN runs : d \in runs[k]})

PositionsAfter(runs) ==
    [k \in 1..len |-> soa["position"][k] + Times(runs, k - 1) * soa["velocity"][k] * Dt]

WithinHorizon ==
    \A k \in 1..len : {soa["position"][k], truth[soa["id"][k]].position} \subseteq (-Horizon)..Horizon

\* One tick with constant velocities, in lanes of 16.
step_kinematics ==
    /\ WithinHorizon /\ len > 0
    /\ soa' = [soa EXCEPT !["position"] = PositionsAfter(step_kinematics_simd_16x(len))]
    /\ truth' = [i \in DOMAIN truth |-> step_block(truth[i])]
    /\ UNCHANGED sparse

step_kinematics_2nd_order ==
    /\ WithinHorizon /\ len > 0
    /\ LET moved == [d \in SoaIndices |->
                        step_2nd_order(components(d), at(soa["acceleration"], d))]
       IN  soa' = [c \in Components |-> [k \in 1..len |-> moved[k - 1][c]]]
    /\ truth' = [i \in DOMAIN truth |-> step_2nd_order(truth[i], truth[i].acceleration)]
    /\ UNCHANGED sparse

(* ------------------------- 64-byte blocks and chunks --------------------- *)

BlockOf(r) ==
    AlignedEntityBlock64(r.id, r.position, r.velocity, r.heading, r.flags,
                         AtMost(r.health, U16_MAX), AtMost(r.max_health, U16_MAX))

NoExport == [blocks |-> <<>>, fresh |-> TRUE]

to_aligned_blocks == [k \in 1..len |-> BlockOf(components(k - 1))]

\* An export is taken, and its blocks are stepped.
ExportBlocks ==
    /\ len > 0 /\ WithinHorizon /\ exported = NoExport
    /\ exported' = [blocks |-> [k \in 1..len |-> step_block(to_aligned_blocks[k])], fresh |-> TRUE]
    /\ UNCHANGED <<soaVars, blockVars, chunk, sectors, unclear>>

WrittenBack == {"position", "velocity", "heading", "flags"}

\* The export is written back, by position and not by id: once an entity has
\* left, a block may land on another.
update_from_aligned_blocks ==
    LET count == AtMost(len, Len(exported.blocks))
    IN  /\ exported.blocks # <<>>
        /\ soa' = [c \in Components |->
                      [k \in 1..len |-> IF k <= count /\ c \in WrittenBack
                                        THEN exported.blocks[k][c] ELSE soa[c][k]]]
        /\ truth' = [i \in DOMAIN truth |->
                        IF \E b \in ToSet(exported.blocks) : b.entity_id = i
                        THEN LET b == CHOOSE b \in ToSet(exported.blocks) : b.entity_id = i
                             IN  [c \in WrittenBack |-> b[c]] @@ truth[i]
                        ELSE truth[i]]
        /\ unclear' = IF exported.fresh THEN unclear ELSE StoredIds
        /\ exported' = NoExport
        /\ UNCHANGED <<sparse, blockVars, chunk, sectors>>

spawn_block(b, cold) ==
    /\ b.entity_id \notin DOMAIN block_sparse
    /\ blocks' = Append(blocks, b)
    /\ block_cold' = Append(block_cold, cold)
    /\ block_sparse' = With(block_sparse, b.entity_id, Len(blocks))
    /\ block_truth' = With(block_truth, b.entity_id, [block |-> b, cold |-> cold])

despawn_block(i) ==
    /\ i \in DOMAIN block_sparse
    /\ LET dense_idx == block_sparse[i]
           packed == swap_remove(blocks, dense_idx)
           cleared == Without(block_sparse, {i})
       IN  /\ blocks' = packed
           /\ block_cold' = swap_remove(block_cold, dense_idx)
           /\ block_sparse' = IF dense_idx < Len(blocks) - 1
                              THEN [cleared EXCEPT ![at(packed, dense_idx).entity_id] = dense_idx]
                              ELSE cleared
    /\ block_truth' = Without(block_truth, {i})

get_block_mut(i, hp) ==
    /\ i \in DOMAIN block_sparse
    /\ blocks' = [blocks EXCEPT ![block_sparse[i] + 1].health = hp]
    /\ block_truth' = [block_truth EXCEPT ![i].block.health = hp]
    /\ UNCHANGED <<block_cold, block_sparse>>

step_blocks ==
    /\ \A k \in DOMAIN blocks : blocks[k].position \in (-Horizon)..Horizon
    /\ blocks # <<>>
    /\ blocks' = [k \in DOMAIN blocks |-> step_block(blocks[k])]
    /\ block_truth' = [i \in DOMAIN block_truth |->
                          [block_truth[i] EXCEPT !.block = step_block(@)]]
    /\ UNCHANGED <<block_cold, block_sparse>>

\* Accelerations beside the blocks, as many as are given.
step_blocks_2nd_order(accels) ==
    /\ \A k \in DOMAIN blocks : blocks[k].position \in (-Horizon)..Horizon
    /\ blocks # <<>>
    /\ blocks' = [k \in DOMAIN blocks |->
                     IF k <= Len(accels) THEN step_2nd_order(blocks[k], accels[k]) ELSE blocks[k]]
    /\ block_truth' = [i \in DOMAIN block_truth |->
           IF block_sparse[i] < Len(accels)
           THEN [block_truth[i] EXCEPT !.block = step_2nd_order(@, at(accels, block_sparse[i]))]
           ELSE block_truth[i]]
    /\ UNCHANGED <<block_cold, block_sparse>>

\* The arrays a conversion builds by spawning entity after entity.
to_soa_storage ==
    [c \in Components |-> [k \in 1..Len(blocks) |->
        LET b == blocks[k]
        IN  CASE c = "id" -> b.entity_id
              [] c = "acceleration" -> 0
              [] c = "cold" -> block_cold[k]
              [] OTHER -> b[c]]]

\* Positions go by index here, health and metadata by id.
from_soa_storage ==
    [k \in 1..len |->
        LET r == components(k - 1)
            hp == CHOOSE h \in get_health(r.id) : TRUE
        IN  [block |-> BlockOf(hp @@ r), cold |-> CHOOSE c \in get_cold_data(r.id) : TRUE]]

EmptyChunk ==
    [lanes |-> [s \in 0..(LANES - 1) |-> EntitySpawnParams(0, 0, 0, 0)],
     count |-> 0, active_mask |-> {}]

is_full == chunk.count = LANES

\* push, and push_with_accel when an acceleration is given.
push_with_accel(i, pos, vel, acc, hp) ==
    /\ ~ is_full
    /\ chunk' = [lanes |-> [chunk.lanes EXCEPT ![chunk.count] =
                               with_health(EntitySpawnParams(i, pos, vel, acc), hp, DefaultMetadata)],
                 count |-> chunk.count + 1,
                 active_mask |-> chunk.active_mask \union {chunk.count}]

chunk_swap_remove(slot) ==
    /\ slot < chunk.count
    /\ chunk' = [lanes |-> [chunk.lanes EXCEPT ![slot] = chunk.lanes[chunk.count - 1]],
                 count |-> chunk.count - 1,
                 active_mask |-> chunk.active_mask \ {chunk.count - 1}]

get_entity(slot) == IF slot < chunk.count THEN {chunk.lanes[slot]} ELSE {}

ChunkWithin == \A s \in DOMAIN chunk.lanes : chunk.lanes[s].position \in (-Horizon)..Horizon

chunk_step_kinematics ==
    /\ ChunkWithin /\ chunk.count > 0
    /\ chunk' = [chunk EXCEPT !.lanes = [s \in DOMAIN @ |->
                    IF s < chunk.count THEN step_block(@[s]) ELSE @[s]]]

chunk_step_kinematics_2nd_order ==
    /\ ChunkWithin /\ chunk.count > 0
    /\ chunk' = [chunk EXCEPT !.lanes = [s \in DOMAIN @ |->
                    IF s < chunk.count THEN step_2nd_order(@[s], @[s].acceleration) ELSE @[s]]]

(* --------------------------------- sectors ------------------------------- *)

\* An unbounded index cut to SECTOR_BITS, two's complement.
AsIndex(n) ==
    LET m == n % (2 ^ SECTOR_BITS)
    IN  IF m >= 2 ^ (SECTOR_BITS - 1) THEN m - 2 ^ SECTOR_BITS ELSE m

\* div_euclid rounds down, as \div does for a positive divisor.
from_position(pos) == AsIndex(pos \div SectorSize)

\* A job's four 16-bit fields in one word, and back.
pack(job) ==
    LET w == 2 ^ SECTOR_BITS
    IN  (job.x % w) + (job.z % w) * w + job.start_idx * w * w + job.count * w * w * w
unpack(packed) ==
    LET w == 2 ^ SECTOR_BITS
    IN  [x |-> AsIndex(packed % w), z |-> AsIndex((packed \div w) % w),
         start_idx |-> (packed \div (w * w)) % w, count |-> (packed \div (w * w * w)) % w]

SectorBucket(coord, ids) == [coord |-> coord, entity_ids |-> ids]

\* The buckets with that coordinate (find takes the first; there is one).
BucketAt(buckets, coord) == {k \in DOMAIN buckets : buckets[k].coord = coord}

add_sector(coord) ==
    /\ BucketAt(sectors, coord) = {}
    /\ sectors' = Append(sectors, SectorBucket(coord, <<>>))

PushedInto(buckets, coord, i) ==
    IF BucketAt(buckets, coord) = {} THEN Append(buckets, SectorBucket(coord, <<i>>))
    ELSE [k \in DOMAIN buckets |-> IF buckets[k].coord = coord
                                   THEN [buckets[k] EXCEPT !.entity_ids = Append(@, i)]
                                   ELSE buckets[k]]

assign_entity(i, pos) ==
    LET coord == from_position(pos)
    IN  sectors' = IF \E k \in BucketAt(sectors, coord) :
                          Contains(sectors[k].entity_ids, i)
                   THEN sectors ELSE PushedInto(sectors, coord, i)

\* The ids of every bucket with their bucket's coordinate, in order.
Assigned ==
    FlattenSeq([k \in DOMAIN sectors |->
        [j \in DOMAIN sectors[k].entity_ids |->
            [id |-> sectors[k].entity_ids[j], coord |-> sectors[k].coord]]])

Migration(a, pos) ==
    IF from_position(pos) = a.coord THEN <<>>
    ELSE <<[entity_id |-> a.id, old_sector |-> a.coord, new_sector |-> from_position(pos)]>>

\* One worker: every assigned entity that is stored is moved through its
\* table entry, one after the other.
SequentialPhase ==
    FoldLeft(LAMBDA acc, a :
                IF a.id \notin DOMAIN sparse THEN acc
                ELSE LET k == sparse[a.id] + 1
                         pos == acc.positions[k] + soa["velocity"][k] * Dt
                     IN  [positions |-> [acc.positions EXCEPT ![k] = pos],
                          migrations |-> acc.migrations \o Migration(a, pos)],
             [positions |-> soa["position"], migrations |-> <<>>], Assigned)

\* The index a worker thread takes for an id: "sequentially assigned".
IndexOfThread(i) == IF i = 0 THEN 0 ELSE i - 1

\* Several workers, over views of the arrays that nobody writes meanwhile:
\* what they report does not depend on how the buckets are shared out.  The
\* storage then steps everything it holds.
ParallelPhase ==
    [positions |-> PositionsAfter(step_kinematics_simd_16x(len)),
     migrations |-> FoldLeft(LAMBDA acc, a :
         LET k == IndexOfThread(a.id) + 1
         IN  IF k > len THEN acc
             ELSE acc \o Migration(a, soa["position"][k] + soa["velocity"][k] * Dt),
         <<>>, Assigned)]

\* Phase B: the migrations in the order of their ids.
RemovedFrom(buckets, coord, i) ==
    [k \in DOMAIN buckets |->
        IF buckets[k].coord = coord /\ Contains(buckets[k].entity_ids, i)
        THEN [buckets[k] EXCEPT !.entity_ids =
                 swap_remove(@, (CHOOSE j \in DOMAIN @ :
                     @[j] = i /\ \A l \in 1..(j - 1) : @[l] # i) - 1)]
        ELSE buckets[k]]

ResolveMigrations(migrations) ==
    FoldLeft(LAMBDA buckets, m :
                PushedInto(RemovedFrom(buckets, m.old_sector, m.entity_id),
                           m.new_sector, m.entity_id),
             sectors, SortSeq(migrations, LAMBDA m, n : m.entity_id < n.entity_id))

\* The ids whose entity the threads do not look at.
Misplaced == {i \in DOMAIN sparse : sparse[i] # IndexOfThread(i)}

step_simulation_parallel(num_workers) ==
    LET parallel == num_workers > 1 /\ Len(sectors) > 1
        result == IF parallel THEN ParallelPhase ELSE SequentialPhase
    IN  /\ WithinHorizon /\ Assigned # <<>>
        /\ soa' = [soa EXCEPT !["position"] = result.positions]
        /\ truth' = [i \in DOMAIN truth |->
                        IF parallel \/ \E a \in ToSet(Assigned) : a.id = i
                        THEN step_block(truth[i]) ELSE truth[i]]
        /\ sectors' = ResolveMigrations(result.migrations)
        /\ unclear' = IF parallel THEN unclear \union Misplaced ELSE unclear
        /\ UNCHANGED <<sparse, blockVars, chunk, exported>>

(* --------------------------------- machines ------------------------------ *)

StorageInit ==
    /\ soa = NewStorage /\ sparse = <<>> /\ truth = <<>>
    /\ blocks = <<>> /\ block_cold = <<>> /\ block_sparse = <<>> /\ block_truth = <<>>
    /\ chunk = EmptyChunk
    /\ sectors = <<>>
    /\ exported = NoExport
    /\ unclear = {}

\* The arrays: entities come and go, are written by id and stepped.  While an
\* export is out, entities only come and go.
SoaNext ==
    \/ /\ \/ /\ exported = NoExport
             /\ \/ \E i \in StoredIds, pos \in Places, v \in Speeds :
                       set_transform(i, pos, v) \/ set_transform_2nd_order(i, pos, v, 1)
                \/ \E i \in StoredIds : health_mut(i, 1) \/ get_cold_data_mut(i, "guild")
                \/ step_kinematics
                \/ step_kinematics_2nd_order
          \/ \E i \in StoredIds, pos \in Places, v \in Speeds :
                 spawn(with_health(EntitySpawnParams(i, pos, v, 0), U16_MAX + i, "named"))
       /\ UNCHANGED <<blockVars, chunk, sectors, exported, unclear>>
    \/ /\ \E i \in StoredIds : despawn(i)
       /\ exported' = [exported EXCEPT !.fresh = exported = NoExport]
       /\ UNCHANGED <<blockVars, chunk, sectors, unclear>>
    \/ ExportBlocks
    \/ update_from_aligned_blocks

BlocksNext ==
    /\ \/ \E i \in StoredIds, pos \in Places, v \in Speeds :
              spawn_block(NewBlock(i, pos, v), i)
       \/ \E i \in StoredIds : despawn_block(i) \/ get_block_mut(i, 1)
       \/ step_blocks
       \/ \E n \in 0..2 : step_blocks_2nd_order([k \in 1..n |-> 1])
    /\ UNCHANGED <<soaVars, chunk, sectors, exported, unclear>>

ChunkNext ==
    /\ \/ \E i \in StoredIds, pos \in Places, a \in {0, 1} : push_with_accel(i, pos, 1, a, i)
       \/ \E slot \in 0..LANES : chunk_swap_remove(slot)
       \/ chunk_step_kinematics
       \/ chunk_step_kinematics_2nd_order
    /\ UNCHANGED <<soaVars, blockVars, sectors, exported, unclear>>

\* The coordinator over the arrays: an entity is spawned and assigned where it
\* is.  Nothing takes a despawned id out of its bucket.
Enter(i, pos, v) ==
    /\ Len(Assigned) < MaxAssigned
    /\ spawn(EntitySpawnParams(i, pos, v, 0))
    /\ assign_entity(i, pos)
    /\ UNCHANGED <<blockVars, chunk, exported, unclear>>
Leave(i) ==
    /\ despawn(i)
    /\ unclear' = unclear \union {i}
    /\ UNCHANGED <<blockVars, chunk, sectors, exported>>

SectorsNext ==
    \/ \E i \in StoredIds, pos \in Places, v \in Speeds : Enter(i, pos, v)
    \/ \E i \in StoredIds : Leave(i)
    \/ \E coord \in {from_position(p) : p \in Places} :
           add_sector(coord) /\ UNCHANGED <<soaVars, blockVars, chunk, exported, unclear>>
    \/ \E n \in {1, 2} : step_simulation_parallel(n)

-------------------------------------------------------------------------------
StorageTypeOK ==
    /\ DOMAIN sparse \subseteq StoredIds /\ DOMAIN block_sparse \subseteq StoredIds
    /\ \A c \in Components : Len(soa[c]) = Cardinality(DOMAIN sparse)
    /\ Len(blocks) = Cardinality(DOMAIN block_sparse) /\ Len(block_cold) = Len(blocks)
    /\ \A i \in DOMAIN sparse : sparse[i] \in SoaIndices
    /\ \A i \in DOMAIN block_sparse : block_sparse[i] \in 0..(Len(blocks) - 1)
    /\ unclear \subseteq StoredIds

Only(r, names) == [c \in names |-> r[c]]

\* Every lookup by id answers with what was last stored under that id, in all
\* the parallel arrays at once, whatever swap-removals have packed in between;
\* an id that left is found nowhere (soa_storage.rs).
LookupsExact ==
    \A i \in StoredIds \ unclear :
        IF i \notin DOMAIN truth
        THEN get_transform(i) = {} /\ get_health(i) = {} /\ get_cold_data(i) = {}
        ELSE LET r == truth[i]
             IN  /\ {components(d) : d \in lookup_index(i)} = {r}
                 /\ get_transform(i) = {Only(r, {"position", "velocity", "heading"})}
                 /\ get_transform_2nd_order(i) =
                        {Only(r, {"position", "velocity", "acceleration", "heading"})}
                 /\ get_health(i) = {Only(r, {"health", "max_health"})}
                 /\ get_cold_data(i) = {r.cold}

\* The blocks keep the same promise, and the two storages convert into each
\* other entity by entity: only health above a block's width and accelerations
\* are lost (soa_storage.rs).
BlocksExact ==
    /\ \A i \in StoredIds :
           get_block(i) = IF i \in DOMAIN block_truth THEN {block_truth[i].block} ELSE {}
    /\ \A k \in DOMAIN blocks :
           LET r == [c \in Components |-> to_soa_storage[c][k]]
           IN  [block |-> BlockOf(r), cold |-> r.cold] = block_truth[r.id]
    /\ \A k \in DOMAIN from_soa_storage :
           LET i == from_soa_storage[k].block.entity_id
           IN  i \notin unclear =>
                   from_soa_storage[k] = [block |-> BlockOf(truth[i]), cold |-> truth[i].cold]

\* The occupied lanes of a chunk are its first ones (soa_storage.rs).
ChunkPacked ==
    /\ chunk.active_mask = 0..(chunk.count - 1)
    /\ \A s \in 0..LANES : get_entity(s) # {} <=> s \in chunk.active_mask

\* The loops in lanes of 16 and of 8 step every entity exactly once, as the
\* scalar loop does, for every number of entities (soa_storage.rs).
LanesCoverOnce ==
    \A n \in 0..41, d \in 0..41 :
        LET once == Times(step_kinematics_scalar(n), d)
        IN  /\ Times(step_kinematics_simd_16x(n), d) = once
            /\ Times(step_kinematics_simd_8x(n), d) = once

\* Every entity is in exactly one bucket, that of the sector it is in, unless
\* its id was despawned while assigned (nothing takes it out of its bucket) or
\* the threads looked for it at the index its id suggests and it was stored
\* elsewhere (sector_parallel.rs).
InOwnSector ==
    \A i \in DOMAIN truth \ unclear : sectors # <<>> =>
        /\ Cardinality({k \in DOMAIN Assigned : Assigned[k].id = i}) = 1
        /\ [id |-> i, coord |-> from_position(truth[i].position)] \in ToSet(Assigned)

\* One worker and many compute the same positions and the same buckets, as
\* long as no id was reused and every entity is stored at the index its id
\* suggests: "bit-exact deterministic order" (sector_parallel.rs:307).
PathsAgree ==
    unclear = {} /\ Misplaced = {} /\ sectors # <<>> =>
        /\ SequentialPhase.positions = ParallelPhase.positions
        /\ ResolveMigrations(SequentialPhase.migrations)
               = ResolveMigrations(ParallelPhase.migrations)

\* A job survives the word it is packed into (sector_parallel.rs).
JobRoundTrip ==
    \A x, z \in {AsIndex(n) : n \in 0..(2 ^ SECTOR_BITS - 1)}, s, c \in 0..(2 ^ SECTOR_BITS - 1) :
        LET job == [x |-> x, z |-> z, start_idx |-> s, count |-> c]
        IN  unpack(pack(job)) = job

\* Stepping by sectors moves every entity once and files it where it went.
SectorsExact == InOwnSector /\ PathsAgree /\ JobRoundTrip

\* The dense storage is a map from ids to entities, in each of its layouts
\* (soa_storage.rs), and stepping by sectors moves every entity once and files
\* it where it went (sector_parallel.rs).
StorageIsMap ==
    /\ StorageTypeOK /\ LookupsExact /\ BlocksExact
    /\ ChunkPacked /\ LanesCoverOnce
    /\ SectorsExact
===============================================================================
