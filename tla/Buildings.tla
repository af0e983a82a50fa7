------------------------------- MODULE Buildings -------------------------------
(*****************************************************************************)
(* What players build and enter, as the server facade runs it                *)
(* (crates/eidolon-server/src/facade.rs): interior rooms and player          *)
(* structures.  The two share no state.                                      *)
(*****************************************************************************)
EXTENDS Naturals, FiniteSets, PartialFunctions

(* ---------------------------- interior rooms ----------------------------- *)
(* InteriorCellManager (crates/eidolon-world/src/interior.rs): rooms, who is  *)
(* in them, the items placed there, and the players that come and go          *)
(* meanwhile.  What a player sees is decided by the rooms of both             *)
(* (broadcast_aoi_updates).                                                   *)

CONSTANTS
    Visitors, Items,
    MAX_INTERIOR_ITEMS_PER_BUILDING,
    MaxCells             \* bound on the rooms ever created

ASSUME InteriorAssumption ==
    {MAX_INTERIOR_ITEMS_PER_BUILDING, MaxCells} \subseteq Nat

VARIABLES
    present,            \* the entities in the world
    cells,               \* cell id -> [items, occupants]
    entity_locations,    \* entity -> cell id, for the entities inside
    next_cell_id

interiorVars == <<present, cells, entity_locations, next_cell_id>>

InteriorTypeOK ==
    /\ present \subseteq Visitors
    /\ next_cell_id \in 1..(MaxCells + 1)
    /\ DOMAIN cells \subseteq 1..MaxCells
    /\ \A c \in DOMAIN cells :
           /\ cells[c].items \subseteq Items
           /\ Cardinality(cells[c].items) <= MAX_INTERIOR_ITEMS_PER_BUILDING
           /\ cells[c].occupants \subseteq Visitors
    /\ DOMAIN entity_locations \subseteq Visitors

InteriorInit ==
    /\ present = {}
    /\ cells = << >>
    /\ entity_locations = << >>
    /\ next_cell_id = 1

\* The occupant leaves whatever room it is in.
Evict(e) ==
    [c \in DOMAIN cells |->
        IF e \in DOMAIN entity_locations /\ entity_locations[e] = c
        THEN [cells[c] EXCEPT !.occupants = @ \ {e}] ELSE cells[c]]

create_cell ==
    /\ next_cell_id <= MaxCells
    /\ cells' = With(cells, next_cell_id, [items |-> {}, occupants |-> {}])
    /\ next_cell_id' = next_cell_id + 1
    /\ UNCHANGED <<present, entity_locations>>

\* Mutated form: the room is dropped with its occupants still located in it.
destroy_cell_keeps_locations(c) ==
    /\ c \in DOMAIN cells
    /\ cells' = Without(cells, {c})
    /\ UNCHANGED <<present, next_cell_id, entity_locations>>

destroy_cell(c) ==
    /\ c \in DOMAIN cells
    /\ entity_locations' = Without(entity_locations, cells[c].occupants)
    /\ cells' = Without(cells, {c})
    /\ UNCHANGED <<present, next_cell_id>>

place_item(c, i) ==
    /\ c \in DOMAIN cells
    /\ Cardinality(cells[c].items) < MAX_INTERIOR_ITEMS_PER_BUILDING \/ i \in cells[c].items
    /\ cells' = [cells EXCEPT ![c].items = @ \union {i}]
    /\ UNCHANGED <<present, entity_locations, next_cell_id>>

remove_item(c, i) ==
    /\ c \in DOMAIN cells
    /\ i \in cells[c].items
    /\ cells' = [cells EXCEPT ![c].items = @ \ {i}]
    /\ UNCHANGED <<present, entity_locations, next_cell_id>>

\* The entity is first taken out of the room it is in, if any.
enter_cell(e, c) ==
    /\ c \in DOMAIN cells
    /\ cells' = [Evict(e) EXCEPT ![c].occupants = @ \union {e}]
    /\ entity_locations' = With(entity_locations, e, c)
    /\ UNCHANGED <<present, next_cell_id>>

exit_cell(e) ==
    /\ e \in DOMAIN entity_locations
    /\ cells' = Evict(e)
    /\ entity_locations' = Without(entity_locations, {e})
    /\ UNCHANGED <<present, next_cell_id>>

spawn(e) ==
    /\ e \notin present
    /\ present' = present \union {e}
    /\ UNCHANGED <<cells, entity_locations, next_cell_id>>

\* The interior manager is not told.
despawn_entity(e) ==
    /\ e \in present
    /\ present' = present \ {e}
    /\ UNCHANGED <<cells, entity_locations, next_cell_id>>

InteriorNext ==
    \/ create_cell
    \/ \E c \in DOMAIN cells :
           \/ destroy_cell(c)
           \/ \E i \in Items : place_item(c, i) \/ remove_item(c, i)
           \/ \E e \in present : enter_cell(e, c)
    \/ \E e \in present : exit_cell(e)
    \/ \E e \in Visitors : spawn(e) \/ despawn_entity(e)

InteriorSpec == InteriorInit /\ [][InteriorNext]_interiorVars

-------------------------------------------------------------------------------
get_entity_cell(e) == IF e \in DOMAIN entity_locations THEN entity_locations[e] ELSE 0

\* The two views of who is where agree, rooms destroyed under their occupants
\* included (interior.rs:115-188).
LocationsMatchOccupants ==
    \A e \in Visitors, c \in 1..MaxCells :
        get_entity_cell(e) = c <=> c \in DOMAIN cells /\ e \in cells[c].occupants

\* Whoever occupies a room is in the world: "Player entity IDs currently
\* occupying this interior room" (interior.rs:28).
OccupantsPresent ==
    \A c \in DOMAIN cells : cells[c].occupants \subseteq present

\* Rooms and locations are well formed and agree (interior.rs:60-188).
RoomsConsistent == InteriorTypeOK /\ LocationsMatchOccupants

(* -------------------------- player structures ---------------------------- *)
(* StructureManager (crates/eidolon-world/src/building.rs) with its stability *)
(* rules, the chunk manifests (chunk_manifest.rs), and a client that keeps    *)
(* what it was streamed for a chunk as long as the manifest hash matches.     *)
(* The hash is the pair it is computed from, so it has no collisions.         *)

CONSTANTS
    Chunks,              \* chunk coordinates
    Materials,
    MaxStructures, MaxPieces, MaxRevision, MaxCycles,   \* bounds
    MAX_STABILITY,
    max_health,          \* of a structure, in units of the decay
    PieceTypes           \* piece types snapped on: "Wall", "Foundation"

ASSUME StructAssumption ==
    /\ {MaxStructures, MaxPieces, MaxRevision, MaxCycles} \subseteq Nat
    /\ {MAX_STABILITY, max_health} \subseteq Nat \ {0}
    /\ Materials \subseteq {"Wood", "Stone"}

VARIABLES
    structures,          \* id -> [chunk, health, pieces]
    next_structure_id, next_piece_id,
    chunks,              \* chunk -> [structure_ids, revision]
    cache,               \* the client's copy: chunk -> [hash, content]
    cycles,              \* maintenance cycles run
    reclaimed            \* history: structures that maintenance took away

structVars == <<structures, next_structure_id, next_piece_id, chunks, cache, cycles, reclaimed>>

stability_decay(m) == IF m = "Wood" THEN 2 ELSE 1

StructTypeOK ==
    /\ next_structure_id \in 1..(MaxStructures + 1)
    /\ next_piece_id \in 1..(MaxPieces + 1)
    /\ DOMAIN structures \subseteq 1..MaxStructures
    /\ \A s \in DOMAIN structures :
           /\ structures[s].chunk \in Chunks
           /\ structures[s].health \in 1..max_health
           /\ DOMAIN structures[s].pieces \subseteq 1..MaxPieces
           /\ \A p \in DOMAIN structures[s].pieces :
                  structures[s].pieces[p].stability \in 1..MAX_STABILITY
    /\ \A c \in Chunks : chunks[c].structure_ids \subseteq 1..MaxStructures

\* recompute_hash, and what the client would be streamed.
EmptyHash == <<0, {}>>
manifest_hash(ch) ==
    IF ch.structure_ids = {} THEN EmptyHash ELSE <<ch.revision, ch.structure_ids>>

Content(c) ==
    {<<s, DOMAIN structures[s].pieces>> : s \in {x \in DOMAIN structures : structures[x].chunk = c}}

StructInit ==
    /\ structures = << >>
    /\ next_structure_id = 1
    /\ next_piece_id = 1
    /\ chunks = [c \in Chunks |-> [structure_ids |-> {}, revision |-> 0]]
    /\ cache = [c \in Chunks |-> [hash |-> EmptyHash, content |-> {}]]
    /\ cycles = 0
    /\ reclaimed = {}

-------------------------------------------------------------------------------
(* Chunk manifests.                                                         *)

register_structure(ch, s) ==
    [structure_ids |-> ch.structure_ids \union {s}, revision |-> ch.revision + 1]

unregister_structure(ch, s) ==
    [structure_ids |-> ch.structure_ids \ {s}, revision |-> ch.revision + 1]

mark_chunk_modified(ch) == [ch EXCEPT !.revision = @ + 1]

-------------------------------------------------------------------------------
(* Structures.                                                              *)

calculate_stability(is_grounded, parent_stability, m) ==
    IF is_grounded THEN MAX_STABILITY
    ELSE IF parent_stability > stability_decay(m)
    THEN parent_stability - stability_decay(m) ELSE 0

Root(m) == [parent |-> 0, piece_type |-> "Foundation", material |-> m,
            stability |-> MAX_STABILITY]

\* place_modular_prefab and place_foundation: a structure with one grounded
\* piece, registered in its chunk.
place_foundation(c, m) ==
    /\ next_structure_id <= MaxStructures
    /\ next_piece_id <= MaxPieces
    /\ chunks[c].revision < MaxRevision
    /\ structures' = With(structures, next_structure_id,
           [chunk |-> c, health |-> max_health,
            pieces |-> With(<< >>, next_piece_id, Root(m))])
    /\ chunks' = [chunks EXCEPT ![c] = register_structure(@, next_structure_id)]
    /\ next_structure_id' = next_structure_id + 1
    /\ next_piece_id' = next_piece_id + 1
    /\ UNCHANGED <<cache, cycles, reclaimed>>

\* A piece that would not stand is refused (StructurallyUnsound).
snap_piece(s, parent, t, m) ==
    LET stability == calculate_stability(
                         t = "Foundation", structures[s].pieces[parent].stability, m)
        c == structures[s].chunk
    IN  /\ next_piece_id <= MaxPieces
        /\ chunks[c].revision < MaxRevision
        /\ stability # 0
        /\ structures' = [structures EXCEPT ![s].pieces = With(@, next_piece_id,
               [parent |-> parent, piece_type |-> t, material |-> m,
                stability |-> stability])]
        /\ chunks' = [chunks EXCEPT ![c] = mark_chunk_modified(@)]
        /\ next_piece_id' = next_piece_id + 1
        /\ UNCHANGED <<next_structure_id, cache, cycles, reclaimed>>

\* The stability the pieces have when it is propagated from the grounded
\* roots; a snapped foundation counts as any other piece.
stability_map(pieces) ==
    LET stab[p \in DOMAIN pieces] ==
            IF pieces[p].parent = 0 THEN MAX_STABILITY
            ELSE IF pieces[p].parent \notin DOMAIN pieces THEN 0
            ELSE calculate_stability(FALSE, stab[pieces[p].parent], pieces[p].material)
    IN  stab

Standing(pieces) == {p \in DOMAIN pieces : stability_map(pieces)[p] > 0}

\* The piece is removed, and with it every piece left without stability.
destroy_piece(s, target) ==
    LET rest == Without(structures[s].pieces, {target})
        c    == structures[s].chunk
    IN  /\ chunks[c].revision < MaxRevision
        /\ structures' = [structures EXCEPT ![s].pieces =
               Without(rest, DOMAIN rest \ Standing(rest))]
        /\ chunks' = [chunks EXCEPT ![c] = mark_chunk_modified(@)]
        /\ UNCHANGED <<next_structure_id, next_piece_id, cache, cycles, reclaimed>>

destroy_structure(s) ==
    LET c == structures[s].chunk
    IN  /\ chunks[c].revision < MaxRevision
        /\ chunks' = [chunks EXCEPT ![c] = unregister_structure(@, s)]
        /\ structures' = Without(structures, {s})
        /\ UNCHANGED <<next_structure_id, next_piece_id, cache, cycles, reclaimed>>

\* One unit of decay for every structure; those without health are reclaimed.
\* The manifests are not told.
run_structure_maintenance ==
    /\ cycles < MaxCycles
    /\ cycles' = cycles + 1
    /\ LET gone == {s \in DOMAIN structures : structures[s].health <= 1}
       IN  /\ structures' = [s \in DOMAIN structures \ gone |->
                                 [structures[s] EXCEPT !.health = @ - 1]]
           /\ reclaimed' = reclaimed \union gone
    /\ UNCHANGED <<next_structure_id, next_piece_id, chunks, cache>>

\* The client asks with its hash (validate_client_cache) and is streamed the
\* chunk if the server's differs.
refresh_cache(c) ==
    /\ cache' = IF cache[c].hash = manifest_hash(chunks[c]) THEN cache
                ELSE [cache EXCEPT ![c] = [hash |-> manifest_hash(chunks[c]),
                                           content |-> Content(c)]]
    /\ UNCHANGED <<structures, next_structure_id, next_piece_id, chunks, cycles, reclaimed>>

StructNext ==
    \/ \E c \in Chunks, m \in Materials : place_foundation(c, m)
    \/ \E s \in DOMAIN structures :
           \/ \E p \in DOMAIN structures[s].pieces, t \in PieceTypes, m \in Materials :
                  snap_piece(s, p, t, m)
           \/ \E p \in DOMAIN structures[s].pieces : destroy_piece(s, p)
           \/ destroy_structure(s)
    \/ run_structure_maintenance
    \/ \E c \in Chunks : refresh_cache(c)

StructSpec == StructInit /\ [][StructNext]_structVars

-------------------------------------------------------------------------------
\* Every piece stands on the ground or on a piece of its structure that still
\* exists, with the stability that follows from it, after any sequence of
\* building and collapses (building.rs:224-356).
PiecesSupported ==
    \A s \in DOMAIN structures :
        LET ps == structures[s].pieces
        IN  \A p \in DOMAIN ps :
                \/ ps[p].parent = 0 /\ ps[p].stability = MAX_STABILITY
                \/ /\ ps[p].parent \in DOMAIN ps
                   /\ ps[p].stability =
                          IF ps[p].piece_type = "Foundation" THEN MAX_STABILITY
                          ELSE ps[ps[p].parent].stability - stability_decay(ps[p].material)

\* A chunk's manifest lists the structures that stand in it ("Active structure
\* IDs resident in this chunk", chunk_manifest.rs:129) and, besides them, only
\* structures that maintenance has reclaimed.
ManifestExact ==
    \A c \in Chunks :
        chunks[c].structure_ids \ reclaimed = {s \in DOMAIN structures : structures[s].chunk = c}

\* A client whose hash matches has what stands in the chunk, and besides it
\* only structures that maintenance has reclaimed: "When a client's
\* local disk cache matches the server's chunk hash, 0 bytes of structure
\* geometry are transferred" (chunk_manifest.rs:4-5).
CacheCoherent ==
    \A c \in Chunks :
        cache[c].hash = manifest_hash(chunks[c]) =>
            {x \in cache[c].content : x[1] \notin reclaimed} = Content(c)

\* The piece and those it rests on, down to the ground.
Supports(pieces) ==
    LET below[p \in DOMAIN pieces] ==
            {p} \union (IF pieces[p].parent \in DOMAIN pieces
                        THEN below[pieces[p].parent] ELSE {})
    IN  below

\* What disappears from a structure rested on one piece that was destroyed:
\* "When a supporting wall or foundation is removed, traverses the downstream
\* connection graph and collapses any child pieces whose stability drops to
\* 0" (building.rs:278-280).
CollapseDownstreamOnly ==
    [][\A s \in DOMAIN structures \intersect DOMAIN structures' :
          LET before == structures[s].pieces
              lost   == DOMAIN before \ DOMAIN structures'[s].pieces
          IN  lost # {} => \E t \in lost : \A p \in lost : t \in Supports(before)[p]]_structVars

\* After any sequence of building, demolition, maintenance and downloads the
\* pieces stand, the manifests list the structures and a matching cache holds
\* them (building.rs, chunk_manifest.rs).
StructuresSound ==
    /\ StructTypeOK
    /\ PiecesSupported
    /\ ManifestExact
    /\ CacheCoherent
================================================================================
