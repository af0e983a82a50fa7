------------------------------- MODULE MCWorld --------------------------------
(*****************************************************************************)
(* The world for TLC: the spatial grid, two zones and their seam, a cluster  *)
(* of zone servers, the shards of a continent with their seam tokens, zone   *)
(* boundary and boxes, interior cells and player structures.  They share no  *)
(* state, so every behaviour exercises one of them while the others stay as  *)
(* they were created.                                                        *)
(*****************************************************************************)
EXTENDS SpatialGrid, WorldZones, ZoneCluster, Continent, Buildings

VARIABLE place      \* the part this behaviour exercises

worldVars == <<place, gridVars, zoneVars, clusterVars, continentVars, interiorVars, structVars>>

WorldInit ==
    /\ place \in {"grid", "zones", "cluster", "seam", "boundary", "boxes", "interior",
                  "structures"}
    /\ GridInit /\ ZonesInit /\ ClusterInit /\ ContinentInit /\ InteriorInit /\ StructInit
    /\ place # "cluster" => benign /\ paced /\ \E n \in Nodes : residents[n] = Travellers

ContinentNext ==
    \/ place = "seam" /\ SeamNext /\ UNCHANGED <<boundaryVars, harnessVars>>
    \/ place = "boundary" /\ BoundaryNext /\ UNCHANGED <<seamVars, harnessVars>>
    \/ place = "boxes" /\ HarnessNext /\ UNCHANGED <<seamVars, boundaryVars>>

WorldNext ==
    /\ UNCHANGED place
    /\ \/ /\ place = "grid" /\ GridNext
          /\ UNCHANGED <<zoneVars, clusterVars, continentVars, interiorVars, structVars>>
       \/ /\ place = "zones" /\ ZonesNext
          /\ UNCHANGED <<gridVars, clusterVars, continentVars, interiorVars, structVars>>
       \/ /\ place = "cluster" /\ ClusterNext
          /\ UNCHANGED <<gridVars, zoneVars, continentVars, interiorVars, structVars>>
       \/ /\ ContinentNext
          /\ UNCHANGED <<gridVars, zoneVars, clusterVars, interiorVars, structVars>>
       \/ /\ place = "interior" /\ InteriorNext
          /\ UNCHANGED <<gridVars, zoneVars, clusterVars, continentVars, structVars>>
       \/ /\ place = "structures" /\ StructNext
          /\ UNCHANGED <<gridVars, zoneVars, clusterVars, continentVars, interiorVars>>

(* The fairness of ClusterLiveSpec. *)
WorldSpec ==
    /\ WorldInit /\ [][WorldNext]_worldVars
    /\ \A n \in Nodes :
           /\ WF_clusterVars(place = "cluster" /\ poll_network(n))
           /\ \A e \in Travellers :
                  WF_clusterVars(place = "cluster" /\ check_migration_timeouts(n, e))

\* An entity at the seam that stays, and one that moves over it.
AtTheSeam == {<<0, 0>>, <<0, 1>>}

\* Ids 0..2 fit the grid of one zone node, 0..1 that of the other.
UnequalGrids == <<3, 2>>

-------------------------------------------------------------------------------
(* The buckets' lists are well linked and hold every active entity in the *)
(* bucket of its cell, the hotspot index is exact, and both radius        *)
(* queries report exactly the entities within the radius, each once,      *)
(* through boundary crossings, splits and merges (grid.rs, quadtree.rs).  *)
GridExact ==
    place = "grid" => GridTypeOK /\ LinksConsistent /\ HotspotIndexExact /\ QueryExact

(* An entity is in one place: in exactly one zone on its side of the seam,   *)
(* which is rebuilt exactly when its worker dies, and alive in at most one   *)
(* process while it migrates (zone.rs, reconstruction.rs, multi_process.rs). *)
OnePlace ==
    /\ place = "zones" => ZonesSound
    /\ place = "cluster" => OneLivingCopy

(* What is built stays whole: rooms and the locations of their occupants    *)
(* agree, the pieces of a structure stand, the manifests list them and a    *)
(* matching cache holds them (interior.rs, building.rs, chunk_manifest.rs). *)
BuildingsSound ==
    /\ place = "interior" => RoomsConsistent
    /\ place = "structures" => StructuresSound

(* Every migration is settled, by an acknowledgement or by the rollback, *)
(* whatever the network loses (multi_process.rs).                        *)
MigrationsSettle == place = "cluster" => MigrationEnds
===============================================================================
