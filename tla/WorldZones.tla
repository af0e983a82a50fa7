----------------------------- MODULE WorldZones ------------------------------
(* Two neighbouring open-world zones, the migration of entities across their *)
(* seam, and the rebuilding of a zone from a checkpoint and its log          *)
(* (eidolon-world/src/zone.rs, reconstruction.rs).                           *)
(*                                                                           *)
(* One axis is modelled: zone 1 lies below the seam, zone 2 above, and the   *)
(* two overlap in the seam.  An entity id fits in a zone whose grid was made *)
(* for more ids than that.  The zone server's logging is the protocol the    *)
(* recovery tests follow: one record for every spatial change, with          *)
(* consecutive LSNs.                                                         *)
EXTENDS Integers, Sequences, FiniteSets, SequencesExt

CONSTANTS
    MaxEntities1,   \* ids the grid of zone 1 is made for
    MaxEntities2,   \* ids the grid of zone 2 is made for
    Extent,         \* positions are 0..Extent
    SeamMin,        \* lower edge of the seam
    SeamMax,        \* upper edge of the seam
    MaxStep,        \* the farthest an entity moves in one tick
    MaxLsn          \* bound: records of one zone's log

ASSUME ZonesAssumption ==
    /\ MaxEntities1 \in Nat /\ MaxEntities2 \in Nat
    /\ SeamMin \in Nat /\ SeamMax \in Nat /\ Extent \in Nat
    /\ 0 < SeamMin /\ SeamMin < SeamMax /\ SeamMax < Extent
    /\ MaxStep \in Nat /\ MaxLsn \in Nat

VARIABLES
    zones,          \* the registered zones
    at,             \* [zone -> [entity -> position or Nowhere]]: the spatial grids
    wal,            \* [zone -> log of spatial records]
    checkpoint,     \* [zone -> last_lsn and entities of its latest checkpoint]
    alive           \* history: entities spawned and not despawned

zoneVars == <<zones, at, wal, checkpoint, alive>>

ZoneIds == {1, 2}
MaxEntities == <<MaxEntities1, MaxEntities2>>
ZoneEntities == 0 .. (IF MaxEntities[1] > MaxEntities[2] THEN MaxEntities[1] ELSE MaxEntities[2]) - 1
ZonePositions == 0..Extent
Nowhere == -1

Neighbour(z) == 3 - z
In(e, z) == at[z][e] # Nowhere

-----------------------------------------------------------------------------
(* ZoneBounds *)
in_seam(pos) == SeamMin <= pos /\ pos <= SeamMax
seam_midpoint == (SeamMin + SeamMax) \div 2
is_past_midpoint(pos, towards_positive) ==
    IF towards_positive THEN pos >= seam_midpoint ELSE pos <= seam_midpoint

(* WorldZone::insert_entity succeeds. *)
Insertable(grid, z, e) == e < MaxEntities[z] /\ grid[e] = Nowhere

Log(z, op, e, pos) ==
    Append(wal[z], [lsn |-> Len(wal[z]) + 1, op |-> op, entity |-> e, pos |-> pos])

Room(z) == Len(wal[z]) < MaxLsn

(* A zone joins the topology. *)
add_zone(z) ==
    /\ z \notin zones
    /\ zones' = zones \cup {z}
    /\ UNCHANGED <<at, wal, checkpoint, alive>>

(* An entity enters the world in the zone that holds the position. *)
insert_entity(e, z, pos) ==
    /\ z \in zones /\ Room(z)
    /\ e \notin alive
    /\ is_past_midpoint(pos, z = 2)
    /\ Insertable(at[z], z, e)
    /\ at' = [at EXCEPT ![z][e] = pos]
    /\ wal' = [wal EXCEPT ![z] = Log(z, "SPAWN", e, pos)]
    /\ alive' = alive \cup {e}
    /\ UNCHANGED <<zones, checkpoint>>

(* An entity leaves the world. *)
remove_entity(e, z) ==
    /\ z \in zones /\ Room(z)
    /\ In(e, z)
    /\ at' = [at EXCEPT ![z][e] = Nowhere]
    /\ wal' = [wal EXCEPT ![z] = Log(z, "DESPAWN", e, 0)]
    /\ alive' = alive \ {e}
    /\ UNCHANGED <<zones, checkpoint>>

(* Mutated form: a failed insertion is not rolled back. *)
Handoff_no_rollback(e, z, t, pos) ==
    LET source == [at[z] EXCEPT ![e] = Nowhere]
    IN  IF t \in zones /\ Insertable(at[t], t, e)
        THEN [ok |-> TRUE,  grids |-> [at EXCEPT ![z] = source, ![t][e] = pos]]
        ELSE [ok |-> FALSE, grids |-> [at EXCEPT ![z] = source]]

(* Steps 2 and 3 of tick_entity_movement: the entity is removed from the    *)
(* source, inserted in the target and, if there is no target or it refuses, *)
(* put back where it was.                                                   *)
Handoff(e, z, t, pos) ==
    LET source == [at[z] EXCEPT ![e] = Nowhere]
    IN  IF t \in zones /\ Insertable(at[t], t, e)
        THEN [ok |-> TRUE,  grids |-> [at EXCEPT ![z] = source, ![t][e] = pos]]
        ELSE [ok |-> FALSE, grids |-> [at EXCEPT ![z][e] = at[z][e]]]

(* should_migrate *)
ShouldMigrate(z, pos) == in_seam(pos) /\ is_past_midpoint(pos, z = 1)

(* tick_entity_movement, called with the zone the caller believes the entity *)
(* is in: EntityNotFound if it is not there.                                 *)
tick_entity_movement(e, z, pos) ==
    /\ z \in zones /\ Room(z) /\ Room(Neighbour(z))
    /\ In(e, z)
    /\ pos \in at[z][e] - MaxStep .. at[z][e] + MaxStep
    /\ \/ /\ ShouldMigrate(z, pos)
          /\ LET h == Handoff(e, z, Neighbour(z), pos)
             IN  /\ at' = h.grids
                 /\ wal' = IF h.ok
                           THEN [wal EXCEPT ![z] = Log(z, "DESPAWN", e, 0),
                                            ![Neighbour(z)] = Log(Neighbour(z), "SPAWN", e, pos)]
                           ELSE wal
       \/ /\ ~ ShouldMigrate(z, pos)
          /\ at' = [at EXCEPT ![z][e] = pos]
          /\ wal' = [wal EXCEPT ![z] = Log(z, "TRANSFORM", e, pos)]
    /\ UNCHANGED <<zones, checkpoint, alive>>

(* ZoneCheckpoint::capture, between two ticks, of every active entity. *)
capture(z) ==
    /\ checkpoint' = [checkpoint EXCEPT ![z] = [last_lsn |-> Len(wal[z]), entities |-> at[z]]]
    /\ UNCHANGED <<zones, at, wal, alive>>

-----------------------------------------------------------------------------
(* The replay of one record: skipped up to the checkpoint's LSN; refused if *)
(* it is not the next one or cannot be applied; otherwise applied.          *)
Replay(cp, s, rec) ==
    LET applies == CASE rec.op = "SPAWN" -> s.grid[rec.entity] = Nowhere
                     [] OTHER            -> s.grid[rec.entity] # Nowhere
    IN  IF ~ s.ok \/ rec.lsn <= cp.last_lsn THEN s
        ELSE [ok |-> rec.lsn = s.expected + 1 /\ applies, expected |-> rec.lsn,
              grid |-> [s.grid EXCEPT ![rec.entity] =
                           IF rec.op = "DESPAWN" THEN Nowhere ELSE rec.pos]]

(* reconstruct_zone_from_wal *)
Rebuilt(cp, log) ==
    LET step(s, rec) == Replay(cp, s, rec)
    IN  FoldLeft(step, [ok |-> TRUE, expected |-> cp.last_lsn, grid |-> cp.entities], log)

reconstruct(z) == Rebuilt(checkpoint[z], wal[z])

(* The zone's worker dies and a replacement takes over what it rebuilt. *)
crash(z) ==
    /\ reconstruct(z).ok
    /\ at' = [at EXCEPT ![z] = reconstruct(z).grid]
    /\ UNCHANGED <<zones, wal, checkpoint, alive>>

ZonesInit ==
    /\ zones = {1}
    /\ at = [z \in ZoneIds |-> [e \in ZoneEntities |-> Nowhere]]
    /\ wal = [z \in ZoneIds |-> <<>>]
    /\ checkpoint = [z \in ZoneIds |-> [last_lsn |-> 0, entities |-> at[z]]]
    /\ alive = {}

ZonesNext ==
    \/ \E z \in ZoneIds : add_zone(z) \/ capture(z) \/ crash(z)
    \/ \E e \in ZoneEntities, z \in ZoneIds :
           \/ remove_entity(e, z)
           \/ \E pos \in ZonePositions : insert_entity(e, z, pos) \/ tick_entity_movement(e, z, pos)

ZonesSpec == ZonesInit /\ [][ZonesNext]_zoneVars

-----------------------------------------------------------------------------
(* A grid holds only ids it was made for, inside the world. *)
ZonesTypeOK ==
    \A z \in ZoneIds, e \in ZoneEntities :
        In(e, z) => z \in zones /\ e < MaxEntities[z] /\ at[z][e] \in ZonePositions

(* A migration neither loses nor duplicates: every living entity is in *)
(* exactly one zone and no other entity is in any, whether the handoff *)
(* succeeds, finds no target or is refused by it.                      *)
OneZone ==
    \A e \in ZoneEntities :
        Cardinality({z \in ZoneIds : In(e, z)}) = IF e \in alive THEN 1 ELSE 0

(* An entity that crosses the midpoint of the seam is handed over: each *)
(* zone's entities stand on its side of the midpoint.                   *)
OwnSideOfSeam ==
    \A e \in ZoneEntities, z \in ZoneIds :
        In(e, z) => is_past_midpoint(at[z][e], z = 2)

(* Whenever the worker dies, the checkpoint and the log rebuild the zone it *)
(* had: the replay is accepted, and gives the same entities in the same     *)
(* places, whatever was spawned, moved, migrated in or out since.           *)
RecoveryExact ==
    \A z \in ZoneIds : reconstruct(z).ok /\ reconstruct(z).grid = at[z]

(* Every living entity is in exactly one zone, on that zone's side of the   *)
(* seam, and a zone whose worker dies is rebuilt exactly (zone.rs,          *)
(* reconstruction.rs).                                                      *)
ZonesSound ==
    /\ ZonesTypeOK
    /\ OneZone
    /\ OwnSideOfSeam
    /\ RecoveryExact
=============================================================================
