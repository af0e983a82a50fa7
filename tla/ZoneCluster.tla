----------------------------- MODULE ZoneCluster -----------------------------
(* Zone servers that hand entities to each other over UDP sockets         *)
(* (eidolon-server/src/multi_process.rs): a migration is sent once, kept  *)
(* pending until the answer or a timeout, and rolled back by the timeout. *)
(* Every node has a route to every other; heartbeats and journal          *)
(* transactions are WriteAheadJournal's.                                  *)
EXTENDS Naturals, Bags

LOCAL INSTANCE BagsExt

CONSTANTS
    Nodes, Travellers,
    MaxDispatch,    \* bound: migrations dispatched
    MaxCuts         \* bound: partitions declared

NoTarget == "none"

ASSUME ClusterAssumption == MaxDispatch \in Nat /\ MaxCuts \in Nat /\ NoTarget \notin Nodes

VARIABLES
    benign,         \* TRUE: the timeout is longer than any datagram is on its
                    \* way, acknowledgements arrive and no zone is cut off
    paced,          \* TRUE: an entity is handed on only when no datagram about
                    \* it is on its way
    residents,       \* [node -> entities active in its zone]
    pending,        \* [node -> [entity -> target zone, or None]]
    blocked,        \* [node -> zones it drops traffic from and to]
    net,            \* bag of datagrams on their way
    dispatched, cuts

assumed == <<benign, paced>>
clusterVars == <<assumed, residents, pending, blocked, net, dispatched, cuts>>

(* sequence carries the sender's zone. *)
Packet(op, from, to, e) == [opcode |-> op, sequence |-> from, to |-> to, identifier |-> e]

OnItsWay(e) == \E m \in BagToSet(net) : m.identifier = e

-----------------------------------------------------------------------------
dispatch_migration_to(n, to, e) ==
    /\ dispatched < MaxDispatch
    /\ n # to /\ to \notin blocked[n] /\ e \in residents[n]
    /\ paced => ~ OnItsWay(e)
    /\ residents' = [residents EXCEPT ![n] = @ \ {e}]
    /\ pending' = [pending EXCEPT ![n][e] = to]
    /\ net' = BagAdd(net, Packet("OP_MIGRATE", n, to, e))
    /\ dispatched' = dispatched + 1
    /\ UNCHANGED <<assumed, blocked, cuts>>

(* Mutated form: migrations to a partitioned zone are left waiting for it. *)
check_migration_timeouts_waits(n, e) ==
    /\ pending[n][e] # NoTarget /\ pending[n][e] \notin blocked[n]
    /\ benign => ~ OnItsWay(e)
    /\ pending' = [pending EXCEPT ![n][e] = NoTarget]
    /\ residents' = [residents EXCEPT ![n] = @ \cup {e}]
    /\ UNCHANGED <<assumed, blocked, net, dispatched, cuts>>

(* check_migration_timeouts, for one migration that has timed out. *)
check_migration_timeouts(n, e) ==
    /\ pending[n][e] # NoTarget
    /\ benign => ~ OnItsWay(e)
    /\ pending' = [pending EXCEPT ![n][e] = NoTarget]
    /\ residents' = [residents EXCEPT ![n] = @ \cup {e}]
    /\ UNCHANGED <<assumed, blocked, net, dispatched, cuts>>

(* poll_network, for one datagram *)

Adopt(n, m) ==
    /\ m.opcode = "OP_MIGRATE"
    /\ residents' = [residents EXCEPT ![n] = @ \cup {m.identifier}]
    /\ net' = BagAdd(BagRemove(net, m), Packet("OP_MIGRATE_ACK", n, m.sequence, m.identifier))
    /\ UNCHANGED pending

(* Any acknowledgement of the entity confirms the migration that is pending. *)
Confirm(n, m) ==
    /\ m.opcode = "OP_MIGRATE_ACK"
    /\ pending' = [pending EXCEPT ![n][m.identifier] = NoTarget]
    /\ net' = BagRemove(net, m)
    /\ UNCHANGED residents

(* Traffic from a zone declared partitioned is dropped. *)
Refuse(n, m) == net' = BagRemove(net, m) /\ UNCHANGED <<residents, pending>>

Inbox(n) == {m \in BagToSet(net) : m.to = n}

poll_network(n) ==
    /\ \/ \E m \in Inbox(n) :
              IF m.sequence \in blocked[n] THEN Refuse(n, m) ELSE Adopt(n, m) \/ Confirm(n, m)
       \/ Inbox(n) = {} /\ UNCHANGED <<residents, pending, net>>
    /\ UNCHANGED <<assumed, blocked, dispatched, cuts>>

partition_zone(n, z) ==
    /\ ~ benign /\ cuts < MaxCuts /\ n # z /\ z \notin blocked[n]
    /\ blocked' = [blocked EXCEPT ![n] = @ \cup {z}]
    /\ cuts' = cuts + 1
    /\ UNCHANGED <<assumed, residents, pending, net, dispatched>>

heal_zone(n, z) ==
    /\ z \in blocked[n]
    /\ blocked' = [blocked EXCEPT ![n] = @ \ {z}]
    /\ UNCHANGED <<assumed, residents, pending, net, dispatched, cuts>>

Lose ==
    /\ \E m \in BagToSet(net) :
           /\ benign => m.opcode = "OP_MIGRATE"
           /\ net' = BagRemove(net, m)
    /\ UNCHANGED <<assumed, residents, pending, blocked, dispatched, cuts>>

-----------------------------------------------------------------------------
(* Every entity is spawned in one zone; which one is left open. *)
ClusterInit ==
    /\ benign \in BOOLEAN /\ paced \in BOOLEAN
    /\ \E home \in [Travellers -> Nodes] :
           residents = [n \in Nodes |-> {e \in Travellers : home[e] = n}]
    /\ pending = [n \in Nodes |-> [e \in Travellers |-> NoTarget]]
    /\ blocked = [n \in Nodes |-> {}]
    /\ net = EmptyBag
    /\ dispatched = 0 /\ cuts = 0

ClusterNext ==
    \/ \E n \in Nodes, e \in Travellers :
           \/ \E to \in Nodes : dispatch_migration_to(n, to, e)
           \/ check_migration_timeouts(n, e)
    \/ \E n \in Nodes : poll_network(n)
    \/ \E n, z \in Nodes : partition_zone(n, z) \/ heal_zone(n, z)
    \/ Lose

ClusterSpec == ClusterInit /\ [][ClusterNext]_clusterVars

(* Every node's loop polls its socket and checks its timeouts every 10 ms. *)
ClusterLiveSpec ==
    /\ ClusterSpec
    /\ \A n \in Nodes : /\ WF_clusterVars(poll_network(n))
                        /\ \A e \in Travellers : WF_clusterVars(check_migration_timeouts(n, e))

-----------------------------------------------------------------------------
(* Where an entity is: active in a zone, or kept by the zone that sent it. *)
Homes(e) == {n \in Nodes : e \in residents[n]}
Keepers(e) == {n \in Nodes : pending[n][e] # NoTarget}

(* On a network whose acknowledgements arrive before the timeout, an entity *)
(* is active in at most one zone: a rollback never meets a migration that   *)
(* was adopted (multi_process.rs).                                          *)
OneActiveCopy ==
    benign => \A e \in Travellers : \A n, k \in Homes(e) : n = k

(* No entity vanishes: a zone has it active or pending, or a migration that *)
(* carries it is on its way, whatever was lost, refused or timed out.       *)
NoEntityLost ==
    \A e \in Travellers :
        \/ Homes(e) \cup Keepers(e) # {}
        \/ \E m \in BagToSet(net) : m.opcode = "OP_MIGRATE" /\ m.identifier = e

(* The same, when the migrations of an entity are far enough apart that no *)
(* acknowledgement of one is taken for another's (multi_process.rs).       *)
NoPacedEntityLost == paced => NoEntityLost

(* Every migration is settled, by an acknowledgement or by the rollback, *)
(* whatever the network loses.                                           *)
MigrationEnds ==
    \A n \in Nodes, e \in Travellers : pending[n][e] # NoTarget ~> pending[n][e] = NoTarget

(* A migration neither copies nor loses an entity, on the networks for which *)
(* each part claims it (multi_process.rs).                                   *)
OneLivingCopy == OneActiveCopy /\ NoPacedEntityLost
=============================================================================
