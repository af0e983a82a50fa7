----------------------------- MODULE SpatialGrid -----------------------------
(*****************************************************************************)
(* SpatialHashGrid (crates/eidolon-spatial/src/grid.rs) and the              *)
(* HotspotManager it feeds (quadtree.rs), on one axis: a position is a       *)
(* number, a cell spans CellSize of them, a quadrant half and a micro-       *)
(* quadrant leaf a quarter of a cell.  The grid's buckets are the intrusive  *)
(* doubly linked lists of the code; the hotspot lists, which are linked in   *)
(* the same way, are kept as sequences, newest first.                        *)
(*****************************************************************************)
EXTENDS Naturals, Sequences, FiniteSets, SequencesExt, FiniteSetsExt

CONSTANTS
    max_entities,            \* entity ids are 0 .. max_entities - 1
    num_cells,               \* cells of the axis
    CellSize,                \* a multiple of 4
    num_buckets,
    max_hotspots,            \* hotspot entries in the pool
    SPLIT_THRESHOLD, MERGE_THRESHOLD,
    Visited,                 \* the positions entities move to
    Radii                    \* the radii queried

ASSUME GridAssumption ==
    /\ {max_entities, num_cells, num_buckets, max_hotspots} \subseteq Nat \ {0}
    /\ CellSize \in Nat \ {0} /\ CellSize % 4 = 0
    /\ MERGE_THRESHOLD < SPLIT_THRESHOLD
    /\ Visited \subseteq 0..(num_cells * CellSize - 1)
    /\ Radii \subseteq Nat

VARIABLES
    positions,               \* entity -> position, or Absent (active_mask unset)
    next_in_cell, prev_in_cell, bucket_heads,
    hotspots                 \* the HotspotManager

gridVars == <<positions, next_in_cell, prev_in_cell, bucket_heads, hotspots>>

Entities == 0..(max_entities - 1)
Cells == 0..(num_cells - 1)
Buckets == 0..(num_buckets - 1)
Leaves == 0..3
Positions == 0..(num_cells * CellSize - 1)
Absent == num_cells * CellSize
TERMINAL_INDEX == max_entities

from_position(p) == p \div CellSize
Bucket(p) == from_position(p) % num_buckets
compute_leaf_index(p) == (p % CellSize) \div (CellSize \div 4)

ActiveSet == {e \in Entities : positions[e] # Absent}

GridTypeOK ==
    /\ positions \in [Entities -> Positions \union {Absent}]
    /\ next_in_cell \in [Entities -> 0..TERMINAL_INDEX]
    /\ prev_in_cell \in [Entities -> 0..TERMINAL_INDEX]
    /\ bucket_heads \in [Buckets -> 0..TERMINAL_INDEX]
    /\ Len(hotspots.cells) <= max_hotspots
    /\ hotspots.leaf \in [Entities -> Leaves]
    /\ hotspots.id \in [Entities -> 0..max_hotspots]

-------------------------------------------------------------------------------
(* The hotspot manager: hs.cells is the pool's active part, hs.pos and   *)
(* hs.id the position and the 1-based hotspot index kept for each entity *)
(* (0: not tracked), hs.leaf its micro-quadrant.                         *)

EmptyCell(c) ==
    [cell |-> c, is_split |-> FALSE, flat |-> << >>,
     leaves |-> [l \in Leaves |-> << >>]]

EmptyHotspots ==
    [cells |-> << >>,
     pos  |-> [e \in Entities |-> 0],
     id   |-> [e \in Entities |-> 0],
     leaf |-> [e \in Entities |-> 0]]

find_hotspot(hs, c) == {i \in DOMAIN hs.cells : hs.cells[i].cell = c}

Members(h) == ToSet(h.flat) \union UNION {ToSet(h.leaves[l]) : l \in Leaves}

entity_count(h) ==
    Len(h.flat) + FoldFunction(LAMBDA s, n : Len(s) + n, 0, h.leaves)

\* Every entity is prepended to the leaf of its position.
split_cell(hs, i) ==
    LET h == hs.cells[i]
        leafOf(e) == compute_leaf_index(hs.pos[e])
    IN  [hs EXCEPT
           !.cells[i] = [h EXCEPT
               !.is_split = TRUE, !.flat = << >>,
               !.leaves = [l \in Leaves |->
                   Reverse(SelectSeq(h.flat, LAMBDA e : leafOf(e) = l))]],
           !.leaf = [e \in Entities |->
               IF e \in ToSet(h.flat) THEN leafOf(e) ELSE hs.leaf[e]]]

\* The leaves are spliced, one after the other, into one list.
merge_cell(hs, i) ==
    LET h == hs.cells[i]
    IN  [hs EXCEPT !.cells[i] = [EmptyCell(h.cell) EXCEPT
            !.flat = Reverse(h.leaves[0] \o h.leaves[1] \o h.leaves[2] \o h.leaves[3])]]

\* Mutated form: the entities of the moved entry keep its old index.
reclaim_without_renumbering(hs, i) ==
    LET last == Len(hs.cells)
    IN  [hs EXCEPT !.cells = SubSeq([hs.cells EXCEPT ![i] = hs.cells[last]], 1, last - 1)]

\* The last entry of the pool takes the place of the empty one.
reclaim_hotspot(hs, i) ==
    LET last == Len(hs.cells)
    IN  [hs EXCEPT
           !.cells = SubSeq([hs.cells EXCEPT ![i] = hs.cells[last]], 1, last - 1),
           !.id = [e \in Entities |->
               IF i # last /\ e \in Members(hs.cells[last]) THEN i ELSE hs.id[e]]]

\* The pool entry for a cell, created if there is room; hs as it is if not.
get_or_create_hotspot(hs, c) ==
    IF find_hotspot(hs, c) # {} \/ Len(hs.cells) >= max_hotspots THEN hs
    ELSE [hs EXCEPT !.cells = Append(@, EmptyCell(c))]

\* An entity whose cell gets no entry stays untracked (CapacityExceeded,
\* which the grid ignores).
HotspotInsert(hs0, e, p) ==
    LET hs == get_or_create_hotspot(hs0, from_position(p))
        at == find_hotspot(hs, from_position(p))
    IN  IF at = {} THEN hs0
        ELSE LET i    == CHOOSE j \in at : TRUE
                 l    == compute_leaf_index(p)
                 h    == hs.cells[i]
                 h2   == IF h.is_split THEN [h EXCEPT !.leaves[l] = <<e>> \o @]
                         ELSE [h EXCEPT !.flat = <<e>> \o @]
                 done == [hs EXCEPT !.cells[i] = h2, !.pos[e] = p,
                                    !.id[e] = i, !.leaf[e] = l]
             IN  IF ~h.is_split /\ entity_count(h2) >= SPLIT_THRESHOLD
                 THEN split_cell(done, i) ELSE done

HotspotRemove(hs, e) ==
    IF hs.id[e] = 0 THEN hs
    ELSE LET i  == hs.id[e]
             h  == hs.cells[i]
             h2 == IF h.is_split
                   THEN [h EXCEPT !.leaves[hs.leaf[e]] = SelectSeq(@, LAMBDA x : x # e)]
                   ELSE [h EXCEPT !.flat = SelectSeq(@, LAMBDA x : x # e)]
             out == [hs EXCEPT !.cells[i] = h2, !.id[e] = 0]
             merged == IF h2.is_split /\ entity_count(h2) <= MERGE_THRESHOLD
                       THEN merge_cell(out, i) ELSE out
         IN  IF entity_count(h2) = 0 THEN reclaim_hotspot(merged, i) ELSE merged

\* A move within a split cell changes the leaf; a move to another cell is a
\* removal and an insertion, which may fail.
HotspotUpdate(hs, e, p) ==
    IF hs.id[e] = 0 THEN hs
    ELSE IF from_position(hs.pos[e]) # from_position(p)
    THEN HotspotInsert(HotspotRemove(hs, e), e, p)
    ELSE LET i  == hs.id[e]
             l  == compute_leaf_index(p)
             h  == hs.cells[i]
             moved == [hs EXCEPT !.pos[e] = p]
         IN  IF ~h.is_split \/ hs.leaf[e] = l THEN moved
             ELSE [moved EXCEPT !.leaf[e] = l,
                       !.cells[i] = [h EXCEPT
                           !.leaves[hs.leaf[e]] = SelectSeq(@, LAMBDA x : x # e),
                           !.leaves[l] = <<e>> \o @]]

-------------------------------------------------------------------------------
(* The grid.                                                                *)

links == [next |-> next_in_cell, prev |-> prev_in_cell, heads |-> bucket_heads]

detach_from_bucket(k, e, b) ==
    [next  |-> [x \in Entities |->
                   IF x = e THEN TERMINAL_INDEX
                   ELSE IF x = k.prev[e] THEN k.next[e] ELSE k.next[x]],
     prev  |-> [x \in Entities |->
                   IF x = e THEN TERMINAL_INDEX
                   ELSE IF x = k.next[e] THEN k.prev[e] ELSE k.prev[x]],
     heads |-> IF k.prev[e] = TERMINAL_INDEX THEN [k.heads EXCEPT ![b] = k.next[e]]
               ELSE k.heads]

attach_to_bucket(k, e, b) ==
    [next  |-> [k.next EXCEPT ![e] = k.heads[b]],
     prev  |-> [x \in Entities |->
                   IF x = e THEN TERMINAL_INDEX
                   ELSE IF x = k.heads[b] THEN e ELSE k.prev[x]],
     heads |-> [k.heads EXCEPT ![b] = e]]

SetLinks(k) ==
    /\ next_in_cell' = k.next
    /\ prev_in_cell' = k.prev
    /\ bucket_heads' = k.heads

GridInit ==
    /\ positions = [e \in Entities |-> Absent]
    /\ next_in_cell = [e \in Entities |-> TERMINAL_INDEX]
    /\ prev_in_cell = [e \in Entities |-> TERMINAL_INDEX]
    /\ bucket_heads = [b \in Buckets |-> TERMINAL_INDEX]
    /\ hotspots = EmptyHotspots

insert(e, p) ==
    /\ positions[e] = Absent
    /\ positions' = [positions EXCEPT ![e] = p]
    /\ SetLinks(attach_to_bucket(links, e, Bucket(p)))
    /\ hotspots' = HotspotInsert(hotspots, e, p)

update_position(e, p) ==
    /\ positions[e] # Absent
    /\ positions' = [positions EXCEPT ![e] = p]
    /\ hotspots' = HotspotUpdate(hotspots, e, p)
    /\ IF from_position(p) = from_position(positions[e]) THEN SetLinks(links)
       ELSE SetLinks(attach_to_bucket(
                detach_from_bucket(links, e, Bucket(positions[e])), e, Bucket(p)))

remove(e) ==
    /\ positions[e] # Absent
    /\ positions' = [positions EXCEPT ![e] = Absent]
    /\ SetLinks(detach_from_bucket(links, e, Bucket(positions[e])))
    /\ hotspots' = HotspotRemove(hotspots, e)

GridNext ==
    \/ \E e \in Entities, p \in Visited : insert(e, p) \/ update_position(e, p)
    \/ \E e \in Entities : remove(e)

GridSpec == GridInit /\ [][GridNext]_gridVars

-------------------------------------------------------------------------------
(* Queries.  A result is the sequence written to the output buffer.         *)

Distance(p, q) == IF p > q THEN p - q ELSE q - p

\* The entities met by following a bucket's links, at most one more than
\* there are entities.
Chain(b) ==
    LET walk[n \in 0..max_entities] ==
            IF n = 0 THEN bucket_heads[b]
            ELSE IF walk[n - 1] = TERMINAL_INDEX THEN TERMINAL_INDEX
            ELSE next_in_cell[walk[n - 1]]
    IN  SelectSeq([n \in 1..(max_entities + 1) |-> walk[n - 1]],
                  LAMBDA x : x # TERMINAL_INDEX)

\* The cells a query visits around its centre.
Neighbourhood(p, r) ==
    LET d == Max({1, (r + CellSize - 1) \div CellSize})
    IN  {c \in Cells : Distance(c, from_position(p)) <= d}

\* One cell through its bucket.
cell_query(c, p, r) ==
    SelectSeq(Chain(c % num_buckets),
              LAMBDA e : /\ positions[e] # Absent
                         /\ from_position(positions[e]) = c
                         /\ Distance(positions[e], p) <= r)

\* The part [lo, hi] of the axis, bounds included, is within r of p.
intersects_circle(lo, hi, p, r) ==
    (IF p < lo THEN lo - p ELSE IF p > hi THEN p - hi ELSE 0) <= r

\* One split cell through its quadrants and leaves, pruning those out of
\* reach.
query_cell_hierarchical(h, p, r) ==
    LET quarter == CellSize \div 4
        lo(l) == h.cell * CellSize + l * quarter
        keep(l) ==
            /\ intersects_circle(lo(2 * (l \div 2)), lo(2 * (l \div 2) + 2), p, r)
            /\ intersects_circle(lo(l), lo(l + 1), p, r)
        found(l) == IF keep(l)
                    THEN SelectSeq(h.leaves[l],
                             LAMBDA e : Distance(hotspots.pos[e], p) <= r)
                    ELSE << >>
    IN  found(0) \o found(1) \o found(2) \o found(3)

\* query_radius_squared, and the batches of four, which meet the same entities
\* in another order: split cells through the hotspots, the others through the
\* buckets.
query_radius_squared(p, r) ==
    LET one(c) ==
            LET at == {i \in find_hotspot(hotspots, c) : hotspots.cells[i].is_split}
            IN  IF at # {} THEN query_cell_hierarchical(
                                    hotspots.cells[CHOOSE i \in at : TRUE], p, r)
                ELSE cell_query(c, p, r)
    IN  FlattenSeq([n \in 1..num_cells |->
            IF n - 1 \in Neighbourhood(p, r) THEN one(n - 1) ELSE << >>])

\* The batches of 8 and of 16 go through the buckets only.
query_radius_squared_batched_8x(p, r) ==
    FlattenSeq([n \in 1..num_cells |->
        IF n - 1 \in Neighbourhood(p, r) THEN cell_query(n - 1, p, r) ELSE << >>])

-------------------------------------------------------------------------------
\* The buckets' lists are well linked and hold every active entity in the
\* bucket of its cell, through boundary crossings in any order
\* (grid.rs:242-338, 990-1024).
LinksConsistent ==
    /\ \A e \in Entities :
           next_in_cell[e] # TERMINAL_INDEX => prev_in_cell[next_in_cell[e]] = e
    /\ \A b \in Buckets :
           /\ ToSet(Chain(b)) = {e \in ActiveSet : Bucket(positions[e]) = b}
           /\ IsInjective(Chain(b))

\* What the hotspot manager keeps for a tracked entity is where it is: its
\* pool entry is the one of its cell, and it is in exactly that entry's lists
\* (quadtree.rs:300-560).
HotspotIndexExact ==
    /\ \A i, j \in DOMAIN hotspots.cells :
           i # j => hotspots.cells[i].cell # hotspots.cells[j].cell
    /\ \A e \in Entities :
           /\ hotspots.id[e] # 0 => hotspots.pos[e] = positions[e]
           /\ \A i \in DOMAIN hotspots.cells :
                  e \in Members(hotspots.cells[i]) <=> hotspots.id[e] = i
    /\ \A i \in DOMAIN hotspots.cells :
           Members(hotspots.cells[i]) # {}

\* Both queries report exactly the entities within the radius, each once:
\* "Queries all entities within a squared radius of a continuous point"
\* (grid.rs:340).
QueryExact ==
    \A p \in Positions, r \in Radii :
        LET all == {e \in ActiveSet : Distance(positions[e], p) <= r}
        IN  \A q \in {query_radius_squared(p, r), query_radius_squared_batched_8x(p, r)} :
                ToSet(q) = all /\ Len(q) = Cardinality(all)
===============================================================================
