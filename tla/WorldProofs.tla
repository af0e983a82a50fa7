------------------------------ MODULE WorldProofs ------------------------------
(*****************************************************************************)
(* Proofs about the world: interior rooms, player structures and the zones   *)
(* with their recovery (interior.rs, building.rs, chunk_manifest.rs,         *)
(* zone.rs, reconstruction.rs), and what they and ContinentProofs say of a   *)
(* world that exercises them.  First the zone servers that hand entities to  *)
(* each other (multi_process.rs).                                            *)
(*****************************************************************************)
EXTENDS MCWorld, ContinentProofs, DataLemmas, FiniteSetTheorems, TLAPS

LOCAL INSTANCE BagsExt

(* --------------------------- the zone cluster ----------------------------- *)

Datagrams == [opcode : {"OP_MIGRATE", "OP_MIGRATE_ACK"}, sequence : Nodes, to : Nodes,
              identifier : Travellers]

InTransit(B) == DOMAIN B \subseteq Datagrams /\ B \in [DOMAIN B -> Nat \ {0}]

ClusterTypeInv ==
    /\ assumed \in BOOLEAN \X BOOLEAN
    /\ residents \in [Nodes -> SUBSET Travellers]
    /\ pending \in [Nodes -> [Travellers -> Nodes \cup {NoTarget}]]
    /\ blocked \in [Nodes -> SUBSET Nodes]
    /\ InTransit(net)
    /\ dispatched \in Nat /\ cuts \in Nat

(* The datagrams about an entity that are on their way. *)
Migrations(e) == {m \in BagToSet(net) : m.opcode = "OP_MIGRATE" /\ m.identifier = e}
Acknowledgements(e) == {m \in BagToSet(net) : m.opcode = "OP_MIGRATE_ACK" /\ m.identifier = e}
Answered(e) == {m.to : m \in Acknowledgements(e)}

(* On a benign network an entity is active in one zone or in one datagram,  *)
(* or it was lost with that datagram: then, and only then, does a zone keep *)
(* it that no acknowledgement is on its way to.                             *)
OneToken(e) ==
    /\ \A m, k \in Migrations(e) : m = k /\ net[m] = 1
    /\ Migrations(e) # {} => Homes(e) = {}
    /\ \A n, k \in Homes(e) : n = k
KeepersAnswered(e) ==
    /\ Homes(e) # {} => Keepers(e) \subseteq Answered(e)
    /\ \A m \in Migrations(e) : Keepers(e) \subseteq Answered(e) \cup {m.sequence}
    /\ \A n, k \in Keepers(e) \ Answered(e) : n = k

(* With migrations far apart, the zone that sent an acknowledgement has the *)
(* entity as long as the acknowledgement is on its way.                     *)
StillAlive(e) ==
    /\ Homes(e) \cup Keepers(e) # {}
    /\ \A m \in Acknowledgements(e) : m.sequence \in Homes(e)

EntityInv(e) ==
    /\ benign => OneToken(e) /\ KeepersAnswered(e)
    /\ paced => StillAlive(e)

(* The inductive invariant of the cluster. *)
ClusterInv ==
    /\ ClusterTypeInv
    /\ benign => \A n \in Nodes : blocked[n] = {}
    /\ \A e \in Travellers : EntityInv(e)

(* A datagram put on its way or taken off it. *)
LEMMA Sent ==
    ASSUME NEW B, InTransit(B), NEW m \in Datagrams
    PROVE  /\ InTransit(BagAdd(B, m))
           /\ DOMAIN BagAdd(B, m) = DOMAIN B \cup {m}
           /\ \A k \in DOMAIN B : k # m => BagAdd(B, m)[k] = B[k]
           /\ m \notin DOMAIN B => BagAdd(B, m)[m] = 1
  BY DEF BagAdd, InTransit

\* A datagram is taken from the network.
LEMMA Taken ==
    ASSUME NEW B, InTransit(B), NEW m \in DOMAIN B
    PROVE  /\ InTransit(BagRemove(B, m))
           /\ DOMAIN BagRemove(B, m) = IF B[m] = 1 THEN DOMAIN B \ {m} ELSE DOMAIN B
           /\ \A k \in DOMAIN B : k # m => BagRemove(B, m)[k] = B[k]
  BY DEF BagRemove, InTransit

(* What a datagram says is what was put into it. *)
LEMMA PacketType ==
    ASSUME NEW op \in {"OP_MIGRATE", "OP_MIGRATE_ACK"}, NEW from \in Nodes, NEW to \in Nodes,
           NEW e \in Travellers
    PROVE  LET m == Packet(op, from, to, e)
           IN  /\ m \in Datagrams /\ m.opcode = op /\ m.sequence = from /\ m.to = to
               /\ m.identifier = e
  BY DEF Packet, Datagrams

(* Every step of the cluster keeps the types. *)
LEMMA ClusterTypeStep == ClusterTypeInv /\ [ClusterNext]_clusterVars => ClusterTypeInv'
  <1> SUFFICES ASSUME ClusterTypeInv, [ClusterNext]_clusterVars PROVE ClusterTypeInv'
    OBVIOUS
  <1> USE DEF ClusterTypeInv, BagToSet
  <1>0. CASE UNCHANGED clusterVars
    BY <1>0 DEF clusterVars, assumed
  <1>1. ASSUME NEW n \in Nodes, NEW e \in Travellers, NEW to \in Nodes, dispatch_migration_to(n, to, e)
        PROVE  ClusterTypeInv'
    <2>1. Packet("OP_MIGRATE", n, to, e) \in Datagrams
      BY PacketType
    <2>2. InTransit(net')
      BY <1>1, <2>1, Sent DEF dispatch_migration_to
    <2> QED
      BY <1>1, <2>2 DEF dispatch_migration_to, assumed
  <1>2. ASSUME NEW n \in Nodes, NEW e \in Travellers, check_migration_timeouts(n, e)
        PROVE  ClusterTypeInv'
    BY <1>2 DEF check_migration_timeouts, assumed
  <1>3. ASSUME NEW n \in Nodes, poll_network(n) PROVE ClusterTypeInv'
    <2>1. UNCHANGED <<assumed, blocked, dispatched, cuts>>
      BY <1>3 DEF poll_network
    <2>2. ASSUME NEW m \in DOMAIN net, m.to = n, Adopt(n, m) PROVE ClusterTypeInv'
      <3>1. m \in Datagrams /\ m.sequence \in Nodes /\ m.identifier \in Travellers
        BY DEF Datagrams, InTransit
      <3>2. Packet("OP_MIGRATE_ACK", n, m.sequence, m.identifier) \in Datagrams
        BY <3>1, PacketType
      <3>3. InTransit(BagRemove(net, m))
        BY Taken
      <3>4. InTransit(net')
        BY <2>2, <3>2, <3>3, Sent DEF Adopt
      <3> QED
        BY <2>1, <2>2, <3>1, <3>4 DEF Adopt, assumed
    <2>3. ASSUME NEW m \in DOMAIN net, Confirm(n, m) PROVE ClusterTypeInv'
      <3>1. m.identifier \in Travellers
        BY DEF Datagrams, InTransit
      <3>2. InTransit(net) /\ net' = BagRemove(net, m)
        BY <2>3 DEF Confirm
      <3>3. InTransit(net')
        BY <3>2, Taken
      <3> QED
        BY <2>1, <2>3, <3>1, <3>3 DEF Confirm, assumed
    <2>5. ASSUME NEW m \in DOMAIN net, Refuse(n, m) PROVE ClusterTypeInv'
      <3>1. InTransit(net) /\ net' = BagRemove(net, m)
        BY <2>5 DEF Refuse
      <3>2. InTransit(net')
        BY <3>1, Taken
      <3> QED
        BY <2>1, <2>5, <3>2 DEF Refuse, assumed
    <2>4. CASE UNCHANGED <<residents, pending, net>>
      BY <2>1, <2>4 DEF assumed
    <2> QED
      BY <1>3, <2>2, <2>3, <2>4, <2>5 DEF poll_network, Inbox
  <1>4. ASSUME NEW n \in Nodes, NEW z \in Nodes, partition_zone(n, z) \/ heal_zone(n, z)
        PROVE  ClusterTypeInv'
    BY <1>4 DEF partition_zone, heal_zone, assumed
  <1>5. CASE Lose
    <2>1. PICK m \in DOMAIN net : net' = BagRemove(net, m)
      BY <1>5 DEF Lose
    <2>2. InTransit(net')
      BY <2>1, Taken
    <2> QED
      BY <1>5, <2>2 DEF Lose, assumed
  <1> QED
    BY <1>0, <1>1, <1>2, <1>3, <1>4, <1>5 DEF ClusterNext

(* A step that does not touch an entity keeps what holds of it. *)
LEMMA Untouched ==
    ASSUME ClusterTypeInv, ClusterTypeInv', UNCHANGED assumed,
           NEW e \in Travellers, EntityInv(e),
           \A n \in Nodes : e \in residents'[n] <=> e \in residents[n],
           \A n \in Nodes : pending'[n][e] = pending[n][e],
           \A m \in Datagrams : m.identifier = e => (m \in DOMAIN net' <=> m \in DOMAIN net),
           \A m \in DOMAIN net : m.identifier = e => net'[m] = net[m]
    PROVE  EntityInv(e)'
  <1>1. Homes(e)' = Homes(e) /\ Keepers(e)' = Keepers(e)
    BY DEF Homes, Keepers
  <1>2. DOMAIN net \subseteq Datagrams /\ DOMAIN net' \subseteq Datagrams
    BY DEF ClusterTypeInv, InTransit
  <1>3. Migrations(e)' = Migrations(e)
    BY <1>2 DEF Migrations, BagToSet
  <1>4. Acknowledgements(e)' = Acknowledgements(e)
    BY <1>2 DEF Acknowledgements, BagToSet
  <1>5. Answered(e)' = Answered(e)
    BY <1>4 DEF Answered
  <1>6. \A m \in Migrations(e) : net'[m] = net[m]
    BY DEF Migrations, BagToSet
  <1>7. OneToken(e) => OneToken(e)'
    BY <1>1, <1>3, <1>6 DEF OneToken
  <1>8. KeepersAnswered(e) => KeepersAnswered(e)'
    BY <1>1, <1>3, <1>5 DEF KeepersAnswered
  <1>9. StillAlive(e) => StillAlive(e)'
    BY <1>1, <1>4 DEF StillAlive
  <1> QED
    BY <1>7, <1>8, <1>9 DEF EntityInv, assumed

(* An entity that is handed on leaves its only zone, which keeps it. *)
LEMMA DispatchKeeps ==
    ASSUME ClusterInv, ClusterTypeInv', NEW n \in Nodes, NEW to \in Nodes, NEW e \in Travellers,
           dispatch_migration_to(n, to, e), NEW d \in Travellers
    PROVE  EntityInv(d)'
  <1> DEFINE p == Packet("OP_MIGRATE", n, to, e)
  <1>1. /\ p \in Datagrams /\ p.opcode = "OP_MIGRATE" /\ p.sequence = n /\ p.to = to
        /\ p.identifier = e
    BY PacketType
  <1>2. /\ DOMAIN net' = DOMAIN net \cup {p}
        /\ \A k \in DOMAIN net : k # p => net'[k] = net[k]
        /\ p \notin DOMAIN net => net'[p] = 1
    <2>1. InTransit(net) /\ net' = BagAdd(net, p)
      BY DEF dispatch_migration_to, ClusterInv, ClusterTypeInv
    <2> QED
      BY <1>1, <2>1, Sent
  <1>3. /\ residents' = [residents EXCEPT ![n] = @ \ {e}] /\ e \in residents[n]
        /\ pending' = [pending EXCEPT ![n][e] = to]
        /\ UNCHANGED assumed
        /\ paced => ~ OnItsWay(e)
    BY DEF dispatch_migration_to
  <1>4. ClusterTypeInv /\ EntityInv(d) /\ EntityInv(e)
    BY DEF ClusterInv
  <1> HIDE DEF p
  <1>5. CASE d # e
    <2>1. \A k \in Nodes : d \in residents'[k] <=> d \in residents[k]
      BY <1>3, <1>4, <1>5 DEF ClusterTypeInv
    <2>2. \A k \in Nodes : pending'[k][d] = pending[k][d]
      BY <1>3, <1>4, <1>5 DEF ClusterTypeInv
    <2> QED
      BY <1>1, <1>2, <1>3, <1>4, <1>5, <2>1, <2>2, Untouched
  <1>6. CASE d = e
    <2>1. /\ Homes(e)' = Homes(e) \ {n} /\ n \in Homes(e)
          /\ Keepers(e)' = Keepers(e) \cup {n}
      <3>1. to # NoTarget
        BY ClusterAssumption
      <3> QED
        BY <1>3, <1>4, <3>1 DEF Homes, Keepers, ClusterTypeInv
    <2>2. Migrations(e)' = Migrations(e) \cup {p}
      BY <1>1, <1>2 DEF Migrations, BagToSet
    <2>3. Acknowledgements(e)' = Acknowledgements(e)
      BY <1>1, <1>2 DEF Acknowledgements, BagToSet
    <2>4. Answered(e)' = Answered(e)
      BY <2>3 DEF Answered
    <2>5. ASSUME benign PROVE OneToken(e)' /\ KeepersAnswered(e)'
      <3>1. OneToken(e) /\ KeepersAnswered(e)
        BY <1>4, <2>5 DEF EntityInv
      <3>2. Migrations(e) = {} /\ Homes(e)' = {}
        BY <2>1, <3>1 DEF OneToken
      <3>3. p \notin DOMAIN net
        BY <1>1, <3>2 DEF Migrations, BagToSet
      <3>4. OneToken(e)'
        BY <1>2, <2>2, <3>2, <3>3 DEF OneToken
      <3>5. Keepers(e) \subseteq Answered(e)
        BY <2>1, <3>1 DEF KeepersAnswered
      <3>6. KeepersAnswered(e)'
        BY <1>1, <2>1, <2>2, <2>4, <3>2, <3>5 DEF KeepersAnswered
      <3> QED
        BY <3>4, <3>6
    <2>6. ASSUME paced PROVE StillAlive(e)'
      <3>1. Acknowledgements(e) = {}
        BY <1>3, <2>6 DEF Acknowledgements, OnItsWay
      <3> QED
        BY <2>1, <2>3, <3>1 DEF StillAlive
    <2> QED
      BY <1>3, <1>6, <2>5, <2>6 DEF EntityInv, assumed
  <1> QED
    BY <1>5, <1>6

(* A rollback brings back the only copy there is. *)
LEMMA TimeoutKeeps ==
    ASSUME ClusterInv, ClusterTypeInv', NEW n \in Nodes, NEW e \in Travellers,
           check_migration_timeouts(n, e), NEW d \in Travellers
    PROVE  EntityInv(d)'
  <1>1. /\ residents' = [residents EXCEPT ![n] = @ \cup {e}]
        /\ pending' = [pending EXCEPT ![n][e] = NoTarget] /\ pending[n][e] # NoTarget
        /\ UNCHANGED assumed /\ net' = net
        /\ benign => ~ OnItsWay(e)
    BY DEF check_migration_timeouts
  <1>2. ClusterTypeInv /\ EntityInv(d) /\ EntityInv(e)
    BY DEF ClusterInv
  <1>3. CASE d # e
    <2>1. \A k \in Nodes : d \in residents'[k] <=> d \in residents[k]
      BY <1>1, <1>2, <1>3 DEF ClusterTypeInv
    <2>2. \A k \in Nodes : pending'[k][d] = pending[k][d]
      BY <1>1, <1>2, <1>3 DEF ClusterTypeInv
    <2> QED
      BY <1>1, <1>2, <2>1, <2>2, Untouched
  <1>4. CASE d = e
    <2>1. /\ Homes(e)' = Homes(e) \cup {n}
          /\ Keepers(e)' = Keepers(e) \ {n} /\ n \in Keepers(e)
      BY <1>1, <1>2 DEF Homes, Keepers, ClusterTypeInv
    <2>2. Migrations(e)' = Migrations(e) /\ Acknowledgements(e)' = Acknowledgements(e)
      BY <1>1 DEF Migrations, Acknowledgements
    <2>3. ASSUME benign PROVE OneToken(e)' /\ KeepersAnswered(e)'
      <3>1. OneToken(e) /\ KeepersAnswered(e)
        BY <1>2, <2>3 DEF EntityInv
      <3>2. Migrations(e) = {} /\ Acknowledgements(e) = {}
        BY <1>1, <2>3 DEF OnItsWay, Migrations, Acknowledgements
      <3>3. Answered(e) = {}
        BY <3>2 DEF Answered
      <3>4. Homes(e) = {} /\ Keepers(e) = {n}
        BY <2>1, <3>1, <3>3 DEF KeepersAnswered
      <3>5. OneToken(e)'
        BY <2>1, <2>2, <3>2, <3>4 DEF OneToken
      <3>6. KeepersAnswered(e)'
        BY <2>1, <2>2, <3>2, <3>4 DEF KeepersAnswered
      <3> QED
        BY <3>5, <3>6
    <2>4. ASSUME paced PROVE StillAlive(e)'
      BY <1>2, <2>1, <2>2, <2>4 DEF EntityInv, StillAlive
    <2> QED
      BY <1>1, <1>4, <2>3, <2>4 DEF EntityInv, assumed
  <1> QED
    BY <1>3, <1>4

(* A migration that is adopted turns into a copy and an acknowledgement. *)
LEMMA AdoptKeeps ==
    ASSUME ClusterInv, ClusterTypeInv', UNCHANGED assumed, NEW n \in Nodes,
           NEW m \in DOMAIN net, m.to = n, Adopt(n, m), NEW d \in Travellers
    PROVE  EntityInv(d)'
  <1> DEFINE e == m.identifier
             p == Packet("OP_MIGRATE_ACK", n, m.sequence, e)
             B == BagRemove(net, m)
  <1>1. /\ ClusterTypeInv /\ InTransit(net) /\ EntityInv(d)
        /\ m \in Datagrams /\ m.sequence \in Nodes /\ e \in Travellers
    BY DEF ClusterInv, ClusterTypeInv, InTransit, Datagrams
  <1>2. /\ p \in Datagrams /\ p.opcode = "OP_MIGRATE_ACK" /\ p.sequence = n
        /\ p.to = m.sequence /\ p.identifier = e
    BY <1>1, PacketType
  <1>3. /\ m.opcode = "OP_MIGRATE" /\ pending' = pending
        /\ residents' = [residents EXCEPT ![n] = @ \cup {e}]
        /\ net' = BagAdd(B, p)
    BY DEF Adopt
  <1>4. /\ InTransit(B)
        /\ DOMAIN B = IF net[m] = 1 THEN DOMAIN net \ {m} ELSE DOMAIN net
        /\ \A k \in DOMAIN net : k # m => B[k] = net[k]
    BY <1>1, Taken
  <1> HIDE DEF p, B, e
  <1>5. /\ DOMAIN net' = DOMAIN B \cup {p}
        /\ \A k \in DOMAIN B : k # p => net'[k] = B[k]
    BY <1>2, <1>3, <1>4, Sent
  <1>6. CASE d # e
    <2>1. \A k \in Nodes : d \in residents'[k] <=> d \in residents[k]
      BY <1>1, <1>3, <1>6 DEF ClusterTypeInv
    <2>2. \A k \in Datagrams : k.identifier = d => k # m /\ k # p
      BY <1>2, <1>6 DEF e
    <2>3. \A k \in Datagrams : k.identifier = d => (k \in DOMAIN net' <=> k \in DOMAIN net)
      BY <1>4, <1>5, <2>2
    <2>4. \A k \in DOMAIN net : k.identifier = d => net'[k] = net[k]
      BY <1>1, <1>4, <1>5, <2>2 DEF InTransit
    <2> QED
      BY <1>1, <1>3, <2>1, <2>3, <2>4, Untouched
  <1>7. CASE d = e
    <2>1. Homes(d)' = Homes(d) \cup {n} /\ Keepers(d)' = Keepers(d)
      BY <1>1, <1>3, <1>7 DEF Homes, Keepers, ClusterTypeInv
    <2>2. m \in Migrations(d)
      BY <1>3, <1>7 DEF Migrations, BagToSet, e
    <2>3. Migrations(d)' \subseteq Migrations(d)
      BY <1>2, <1>4, <1>5 DEF Migrations, BagToSet
    <2>4. Acknowledgements(d)' = Acknowledgements(d) \cup {p}
      BY <1>2, <1>3, <1>4, <1>5, <1>7 DEF Acknowledgements, BagToSet
    <2>5. Answered(d)' = Answered(d) \cup {m.sequence}
      BY <1>2, <2>4 DEF Answered
    <2>6. ASSUME benign PROVE OneToken(d)' /\ KeepersAnswered(d)'
      <3>1. OneToken(d) /\ KeepersAnswered(d)
        BY <1>1, <2>6 DEF EntityInv
      <3>2. Homes(d) = {} /\ Migrations(d) = {m} /\ net[m] = 1
        BY <2>2, <3>1 DEF OneToken
      <3>3. Migrations(d)' = {}
        <4>1. m # p
          BY <1>2, <1>3
        <4>2. m \notin Migrations(d)'
          BY <1>4, <1>5, <3>2, <4>1 DEF Migrations, BagToSet
        <4> QED
          BY <2>3, <3>2, <4>2
      <3>4. OneToken(d)'
        BY <2>1, <3>2, <3>3 DEF OneToken
      <3>5. Keepers(d)' \subseteq Answered(d)'
        BY <2>1, <2>2, <2>5, <3>1 DEF KeepersAnswered
      <3>6. KeepersAnswered(d)'
        BY <3>3, <3>5 DEF KeepersAnswered
      <3> QED
        BY <3>4, <3>6
    <2>7. ASSUME paced PROVE StillAlive(d)'
      BY <1>1, <1>2, <2>1, <2>4, <2>7 DEF EntityInv, StillAlive
    <2> QED
      BY <2>6, <2>7 DEF EntityInv, assumed
  <1> QED
    BY <1>6, <1>7

(* An acknowledgement releases a zone that does not have to keep the entity. *)
LEMMA ConfirmKeeps ==
    ASSUME ClusterInv, ClusterTypeInv', UNCHANGED assumed, NEW n \in Nodes,
           NEW m \in DOMAIN net, m.to = n, Confirm(n, m), NEW d \in Travellers
    PROVE  EntityInv(d)'
  <1>1. /\ ClusterTypeInv /\ InTransit(net) /\ EntityInv(d)
        /\ m \in Datagrams /\ m.identifier \in Travellers
    BY DEF ClusterInv, ClusterTypeInv, InTransit, Datagrams
  <1>2. /\ m.opcode = "OP_MIGRATE_ACK" /\ residents' = residents
        /\ pending' = [pending EXCEPT ![n][m.identifier] = NoTarget]
        /\ net' = BagRemove(net, m)
    BY DEF Confirm
  <1>3. /\ DOMAIN net' = IF net[m] = 1 THEN DOMAIN net \ {m} ELSE DOMAIN net
        /\ \A k \in DOMAIN net : k # m => net'[k] = net[k]
    BY <1>1, <1>2, Taken
  <1>4. CASE d # m.identifier
    <2>1. \A k \in Nodes : pending'[k][d] = pending[k][d]
      BY <1>1, <1>2, <1>4 DEF ClusterTypeInv
    <2>2. \A k \in Datagrams : k.identifier = d => (k \in DOMAIN net' <=> k \in DOMAIN net)
      BY <1>3, <1>4
    <2>3. \A k \in DOMAIN net : k.identifier = d => net'[k] = net[k]
      BY <1>3, <1>4
    <2> QED
      BY <1>1, <1>2, <2>1, <2>2, <2>3, Untouched
  <1>5. CASE d = m.identifier
    <2>1. Homes(d)' = Homes(d) /\ Keepers(d)' = Keepers(d) \ {n}
      BY <1>1, <1>2, <1>5 DEF Homes, Keepers, ClusterTypeInv
    <2>2. /\ Migrations(d)' = Migrations(d)
          /\ \A k \in Migrations(d) : net'[k] = net[k]
      BY <1>2, <1>3 DEF Migrations, BagToSet
    <2>3. /\ Acknowledgements(d)' \subseteq Acknowledgements(d)
          /\ Acknowledgements(d) \subseteq Acknowledgements(d)' \cup {m}
          /\ m \in Acknowledgements(d)
      BY <1>2, <1>3, <1>5 DEF Acknowledgements, BagToSet
    <2>4. Answered(d) \subseteq Answered(d)' \cup {n}
      BY <2>3 DEF Answered
    <2>5. ASSUME benign PROVE OneToken(d)' /\ KeepersAnswered(d)'
      <3>1. OneToken(d) /\ KeepersAnswered(d)
        BY <1>1, <2>5 DEF EntityInv
      <3>2. OneToken(d)'
        BY <2>1, <2>2, <3>1 DEF OneToken
      <3>3. KeepersAnswered(d)'
        BY <2>1, <2>2, <2>4, <3>1 DEF KeepersAnswered
      <3> QED
        BY <3>2, <3>3
    <2>6. ASSUME paced PROVE StillAlive(d)'
      <3>1. StillAlive(d) /\ Homes(d) # {}
        BY <1>1, <2>3, <2>6 DEF EntityInv, StillAlive
      <3> QED
        BY <2>1, <2>3, <3>1 DEF StillAlive
    <2> QED
      BY <2>5, <2>6 DEF EntityInv, assumed
  <1> QED
    BY <1>4, <1>5

(* A datagram that is dropped: on a benign network a migration, and the zone *)
(* that sent it has the entity back at its timeout.                          *)
LEMMA DropKeeps ==
    ASSUME ClusterInv, ClusterTypeInv', UNCHANGED <<assumed, residents, pending>>,
           NEW m \in DOMAIN net, net' = BagRemove(net, m),
           benign => m.opcode = "OP_MIGRATE", NEW d \in Travellers
    PROVE  EntityInv(d)'
  <1>1. ClusterTypeInv /\ InTransit(net) /\ EntityInv(d) /\ m \in Datagrams
    BY DEF ClusterInv, ClusterTypeInv, InTransit
  <1>2. /\ DOMAIN net' = IF net[m] = 1 THEN DOMAIN net \ {m} ELSE DOMAIN net
        /\ \A k \in DOMAIN net : k # m => net'[k] = net[k]
    BY <1>1, Taken
  <1>3. Homes(d)' = Homes(d) /\ Keepers(d)' = Keepers(d)
    BY DEF Homes, Keepers
  <1>4. Acknowledgements(d)' \subseteq Acknowledgements(d)
    BY <1>2 DEF Acknowledgements, BagToSet
  <1>5. Migrations(d)' \subseteq Migrations(d)
    BY <1>2 DEF Migrations, BagToSet
  <1>6. ASSUME benign PROVE OneToken(d)' /\ KeepersAnswered(d)'
    <2>1. OneToken(d) /\ KeepersAnswered(d)
      BY <1>1, <1>6 DEF EntityInv
    <2>2. Acknowledgements(d)' = Acknowledgements(d)
      BY <1>2, <1>6 DEF Acknowledgements, BagToSet
    <2>3. Answered(d)' = Answered(d)
      BY <2>2 DEF Answered
    <2>4. \A k \in Migrations(d)' : net'[k] = net[k]
      <3> SUFFICES ASSUME NEW k \in Migrations(d)' PROVE net'[k] = net[k]
        OBVIOUS
      <3>1. k \in DOMAIN net /\ k \in DOMAIN net' /\ k \in Migrations(d)
        BY <1>2, <1>5 DEF Migrations, BagToSet
      <3>2. net[k] = 1
        BY <2>1, <3>1 DEF OneToken
      <3>3. k # m
        BY <1>2, <3>1, <3>2
      <3> QED
        BY <1>2, <3>1, <3>3
    <2>5. OneToken(d)'
      BY <1>3, <1>5, <2>1, <2>4 DEF OneToken
    <2>6. KeepersAnswered(d)'
      BY <1>3, <1>5, <2>1, <2>3 DEF KeepersAnswered
    <2> QED
      BY <2>5, <2>6
  <1>7. ASSUME paced PROVE StillAlive(d)'
    BY <1>1, <1>3, <1>4, <1>7 DEF EntityInv, StillAlive
  <1> QED
    BY <1>6, <1>7 DEF EntityInv, assumed

(* The invariant is inductive: what a step does to each of the entities. *)
LEMMA ClusterStep == ClusterInv /\ [ClusterNext]_clusterVars => ClusterInv'
  <1> SUFFICES ASSUME ClusterInv, [ClusterNext]_clusterVars PROVE ClusterInv'
    OBVIOUS
  <1>1. ClusterTypeInv'
    BY ClusterTypeStep DEF ClusterInv
  <1>2. ClusterTypeInv /\ UNCHANGED assumed
    BY DEF ClusterInv, ClusterNext, clusterVars, dispatch_migration_to, check_migration_timeouts,
           poll_network, partition_zone, heal_zone, Lose
  <1>3. benign' => \A n \in Nodes : blocked'[n] = {}
    <2> SUFFICES ASSUME benign PROVE \A n \in Nodes : blocked'[n] = {}
      BY <1>2 DEF assumed
    <2>1. \A n \in Nodes : blocked[n] = {}
      BY DEF ClusterInv
    <2>2. blocked' = blocked
      BY <2>1 DEF ClusterNext, clusterVars, dispatch_migration_to, check_migration_timeouts,
                  poll_network, partition_zone, heal_zone, Lose
    <2> QED
      BY <2>1, <2>2
  <1>4. ASSUME NEW d \in Travellers PROVE EntityInv(d)'
    <2>0. EntityInv(d)
      BY DEF ClusterInv
    <2>1. CASE UNCHANGED <<residents, pending, net>>
      BY <1>1, <1>2, <2>0, <2>1, Untouched
    <2>2. ASSUME NEW n \in Nodes, NEW e \in Travellers, NEW to \in Nodes,
                 dispatch_migration_to(n, to, e)
          PROVE  EntityInv(d)'
      BY <1>1, <2>2, DispatchKeeps
    <2>3. ASSUME NEW n \in Nodes, NEW e \in Travellers, check_migration_timeouts(n, e)
          PROVE  EntityInv(d)'
      BY <1>1, <2>3, TimeoutKeeps
    <2>4. ASSUME NEW n \in Nodes, poll_network(n) PROVE EntityInv(d)'
      <3>1. ASSUME NEW m \in DOMAIN net, m.to = n, m.sequence \in blocked[n], Refuse(n, m)
            PROVE  EntityInv(d)'
        <4>1. ~ benign
          BY <3>1 DEF ClusterInv
        <4> QED
          BY <1>1, <1>2, <3>1, <4>1, DropKeeps DEF Refuse
      <3>2. ASSUME NEW m \in DOMAIN net, m.to = n, Adopt(n, m) PROVE EntityInv(d)'
        BY <1>1, <1>2, <3>2, AdoptKeeps
      <3>3. ASSUME NEW m \in DOMAIN net, m.to = n, Confirm(n, m) PROVE EntityInv(d)'
        BY <1>1, <1>2, <3>3, ConfirmKeeps
      <3> QED
        BY <2>1, <2>4, <3>1, <3>2, <3>3 DEF poll_network, Inbox, BagToSet
    <2>5. CASE Lose
      <3>1. PICK m \in DOMAIN net : /\ benign => m.opcode = "OP_MIGRATE"
                                    /\ net' = BagRemove(net, m)
        BY <2>5 DEF Lose, BagToSet
      <3>2. UNCHANGED <<residents, pending>>
        BY <2>5 DEF Lose
      <3> QED
        BY <1>1, <1>2, <3>1, <3>2, DropKeeps
    <2>6. ASSUME NEW n \in Nodes, NEW z \in Nodes, partition_zone(n, z) \/ heal_zone(n, z)
          PROVE  EntityInv(d)'
      BY <2>1, <2>6 DEF partition_zone, heal_zone
    <2>7. CASE UNCHANGED clusterVars
      BY <2>1, <2>7 DEF clusterVars
    <2> QED
      BY <2>2, <2>3, <2>4, <2>5, <2>6, <2>7 DEF ClusterNext
  <1> QED
    BY <1>1, <1>3, <1>4 DEF ClusterInv

(* Every entity starts in its home, and nothing is on its way. *)
LEMMA ClusterStart == ClusterInit => ClusterInv
  <1> SUFFICES ASSUME ClusterInit PROVE ClusterInv
    OBVIOUS
  <1>1. PICK home \in [Travellers -> Nodes] :
            residents = [n \in Nodes |-> {e \in Travellers : home[e] = n}]
    BY DEF ClusterInit
  <1>2. DOMAIN net = {}
    BY DEF ClusterInit, EmptyBag, SetToBag
  <1>3. /\ pending = [n \in Nodes |-> [e \in Travellers |-> NoTarget]]
        /\ blocked = [n \in Nodes |-> {}] /\ benign \in BOOLEAN /\ paced \in BOOLEAN
        /\ dispatched = 0 /\ cuts = 0
    BY DEF ClusterInit
  <1>4. InTransit(net)
    BY <1>2 DEF ClusterInit, EmptyBag, SetToBag, InTransit
  <1>5. ClusterTypeInv
    BY <1>1, <1>3, <1>4 DEF ClusterTypeInv, assumed
  <1>6. ASSUME NEW e \in Travellers PROVE EntityInv(e)
    <2>1. Homes(e) = {home[e]} /\ Keepers(e) = {}
      BY <1>1, <1>3 DEF Homes, Keepers
    <2>2. Migrations(e) = {} /\ Acknowledgements(e) = {}
      BY <1>2 DEF Migrations, Acknowledgements, BagToSet
    <2> QED
      BY <2>1, <2>2 DEF EntityInv, OneToken, KeepersAnswered, StillAlive
  <1> QED
    BY <1>3, <1>5, <1>6 DEF ClusterInv

(* The invariant holds of every cluster (multi_process.rs). *)
THEOREM ClusterInvariant == ClusterSpec => []ClusterInv
  BY ClusterStart, ClusterStep, PTL DEF ClusterSpec

(* What the invariant says of the entities. *)
LEMMA InvariantKeepsCopies == ClusterInv => OneLivingCopy
  <1> SUFFICES ASSUME ClusterInv PROVE OneActiveCopy /\ NoPacedEntityLost
    BY DEF OneLivingCopy
  <1>1. OneActiveCopy
    BY DEF OneActiveCopy, ClusterInv, EntityInv, OneToken
  <1>2. ASSUME paced PROVE NoEntityLost
    BY <1>2 DEF ClusterInv, EntityInv, StillAlive, NoEntityLost
  <1> QED
    BY <1>1, <1>2 DEF NoPacedEntityLost

(* However many zones, entities and migrations: a migration over a network   *)
(* that is faster than the timeout never leaves two active copies, and one   *)
(* that does not overlap another of its entity never loses it, whatever is   *)
(* dropped, late or cut off (multi_process.rs).                              *)
THEOREM MigrationsKeepOneCopy == ClusterSpec => []OneLivingCopy
  BY ClusterInvariant, InvariantKeepsCopies, PTL


(* ----------------------------- interior rooms ----------------------------- *)

Interiors == [items : SUBSET Items, occupants : SUBSET Visitors]

\* Who is located in a room occupies it, and the other way round; ids are given
\* in order, so a room that goes is never met again.
InteriorInv ==
    /\ present \subseteq Visitors
    /\ next_cell_id \in 1..(MaxCells + 1)
    /\ DOMAIN cells \subseteq 1..(next_cell_id - 1)
    /\ \A c \in DOMAIN cells :
           /\ cells[c] \in Interiors
           /\ IsFiniteSet(cells[c].items)
           /\ Cardinality(cells[c].items) <= MAX_INTERIOR_ITEMS_PER_BUILDING
    /\ DOMAIN entity_locations \subseteq Visitors
    /\ \A e \in DOMAIN entity_locations :
           entity_locations[e] \in DOMAIN cells /\ e \in cells[entity_locations[e]].occupants
    /\ \A c \in DOMAIN cells : \A e \in cells[c].occupants :
           e \in DOMAIN entity_locations /\ entity_locations[e] = c

\* Nobody and nothing is there at first.
LEMMA InteriorStart == InteriorInit => InteriorInv
<1> SUFFICES ASSUME InteriorInit PROVE InteriorInv
  OBVIOUS
<1>1. MaxCells \in Nat
  BY InteriorAssumption
<1> QED BY <1>1 DEF InteriorInit, InteriorInv

\* What leaving a room does to the rooms (interior.rs:150-188).
LEMMA Evicted ==
    ASSUME InteriorInv, NEW e
    PROVE  /\ DOMAIN Evict(e) = DOMAIN cells
           /\ \A c \in DOMAIN cells : /\ Evict(e)[c] \in Interiors
                                      /\ Evict(e)[c].items = cells[c].items
                                      /\ Evict(e)[c].occupants = cells[c].occupants \ {e}
<1>1. DOMAIN Evict(e) = DOMAIN cells
  BY DEF Evict
<1>2. ASSUME NEW c \in DOMAIN cells
      PROVE  /\ Evict(e)[c] \in Interiors /\ Evict(e)[c].items = cells[c].items
             /\ Evict(e)[c].occupants = cells[c].occupants \ {e}
  <2> DEFINE cell == cells[c]
  <2>1. cell \in Interiors /\ cell.occupants \subseteq Visitors
    BY DEF InteriorInv, Interiors
  <2>2. CASE e \in DOMAIN entity_locations /\ entity_locations[e] = c
    <3>1. Evict(e)[c] = [cell EXCEPT !.occupants = cell.occupants \ {e}]
      BY <2>2 DEF Evict
    <3> DEFINE left == cell.occupants \ {e}
    <3>2. left \in SUBSET Visitors
      BY <2>1
    <3> HIDE DEF left, cell
    <3>3. /\ [cell EXCEPT !.occupants = left] \in Interiors
          /\ [cell EXCEPT !.occupants = left].items = cell.items
          /\ [cell EXCEPT !.occupants = left].occupants = left
      BY <2>1, <3>2 DEF Interiors
    <3> QED BY <3>1, <3>3 DEF left, cell
  <2>3. CASE ~ (e \in DOMAIN entity_locations /\ entity_locations[e] = c)
    <3>1. Evict(e)[c] = cell
      BY <2>3 DEF Evict
    <3>2. e \notin cell.occupants
      BY <2>3 DEF InteriorInv
    <3> QED BY <2>1, <3>1, <3>2
  <2> QED BY <2>2, <2>3
<1> QED BY <1>1, <1>2

\* Players and items come and go, and rooms with them.
LEMMA InteriorStep ==
    ASSUME InteriorInv, [InteriorNext]_interiorVars
    PROVE  InteriorInv'
<1>1. /\ MaxCells \in Nat /\ MAX_INTERIOR_ITEMS_PER_BUILDING \in Nat
      /\ next_cell_id \in Nat /\ DOMAIN cells \subseteq Nat
      /\ \A c \in DOMAIN cells : c < next_cell_id
  BY InteriorAssumption DEF InteriorInv
<1>2. ASSUME NEW c \in DOMAIN cells
      PROVE  /\ cells[c].items \subseteq Items /\ cells[c].occupants \subseteq Visitors
             /\ IsFiniteSet(cells[c].items) /\ Cardinality(cells[c].items) \in Nat
             /\ Cardinality(cells[c].items) <= MAX_INTERIOR_ITEMS_PER_BUILDING
  <2>1. cells[c] \in Interiors /\ IsFiniteSet(cells[c].items)
        /\ Cardinality(cells[c].items) <= MAX_INTERIOR_ITEMS_PER_BUILDING
    BY DEF InteriorInv
  <2>2. Cardinality(cells[c].items) \in Nat
    <3> DEFINE S == cells[c].items
    <3>1. IsFiniteSet(S)
      BY <2>1
    <3> HIDE DEF S
    <3>2. Cardinality(S) \in Nat
      BY <3>1, FS_CardinalityType
    <3> QED BY <3>2 DEF S
  <2> QED BY <2>1, <2>2 DEF Interiors
<1>3. CASE create_cell
  <2> DEFINE n == next_cell_id  new == [items |-> {}, occupants |-> {}]
  <2>1. /\ DOMAIN cells' = DOMAIN cells \union {n} /\ cells'[n] = new /\ n \notin DOMAIN cells
        /\ \A c \in DOMAIN cells : cells'[c] = cells[c]
        /\ next_cell_id' = n + 1 /\ n <= MaxCells
        /\ present' = present /\ entity_locations' = entity_locations
    BY <1>1, <1>3 DEF create_cell, With
  <2>2. new \in Interiors /\ IsFiniteSet(new.items) /\ Cardinality(new.items) = 0 /\ new.occupants = {}
    <3>1. new.items = {} /\ new.occupants = {} /\ new \in Interiors
      BY DEF Interiors
    <3> HIDE DEF new
    <3> QED BY <3>1, FS_EmptySet
  <2> HIDE DEF new
  <2>3. n + 1 \in 1..(MaxCells + 1) /\ DOMAIN cells' \subseteq 1..(n + 1 - 1)
    BY <1>1, <2>1 DEF InteriorInv
  <2> QED BY <1>1, <2>1, <2>2, <2>3 DEF InteriorInv
<1>4. ASSUME NEW c \in DOMAIN cells, destroy_cell(c) PROVE InteriorInv'
  <2>1. /\ DOMAIN cells' = DOMAIN cells \ {c}
        /\ \A d \in DOMAIN cells \ {c} : cells'[d] = cells[d]
        /\ DOMAIN entity_locations' = DOMAIN entity_locations \ cells[c].occupants
        /\ \A e \in DOMAIN entity_locations' : entity_locations'[e] = entity_locations[e]
        /\ present' = present /\ next_cell_id' = next_cell_id
    BY <1>4 DEF destroy_cell, Without
  <2> QED BY <2>1 DEF InteriorInv
<1>5. ASSUME NEW c \in DOMAIN cells, NEW i \in Items, place_item(c, i) \/ remove_item(c, i)
      PROVE  InteriorInv'
  <2> DEFINE cell == cells[c]
             kept == IF place_item(c, i) THEN cell.items \union {i} ELSE cell.items \ {i}
             next == [cell EXCEPT !.items = kept]
  <2>1. cells' = [cells EXCEPT ![c] = next]
    BY <1>5 DEF place_item, remove_item
  <2>2. kept \subseteq Items /\ IsFiniteSet(kept)
        /\ Cardinality(kept) <= MAX_INTERIOR_ITEMS_PER_BUILDING
    <3>1. CASE place_item(c, i)
      <4>1. Cardinality(cell.items) < MAX_INTERIOR_ITEMS_PER_BUILDING \/ i \in cell.items
        BY <3>1 DEF place_item
      <4>2. IsFiniteSet(cell.items \union {i})
            /\ Cardinality(cell.items \union {i})
                   = IF i \in cell.items THEN Cardinality(cell.items) ELSE Cardinality(cell.items) + 1
        <5> DEFINE S == cell.items
        <5>1. IsFiniteSet(S)
          BY <1>2
        <5> HIDE DEF S
        <5>2. IsFiniteSet(S \union {i})
              /\ Cardinality(S \union {i})
                     = IF i \in S THEN Cardinality(S) ELSE Cardinality(S) + 1
          BY <5>1, FS_AddElement
        <5> QED BY <5>2 DEF S
      <4> HIDE DEF cell
      <4> QED BY <3>1, <4>1, <4>2, <1>1, <1>2 DEF cell
    <3>2. CASE ~ place_item(c, i)
      <4>1. i \in cell.items
        BY <1>5, <3>2 DEF remove_item
      <4>2. IsFiniteSet(cell.items \ {i})
            /\ Cardinality(cell.items \ {i}) = Cardinality(cell.items) - 1
        <5> DEFINE S == cell.items
        <5>1. IsFiniteSet(S) /\ i \in S
          BY <1>2, <4>1
        <5> HIDE DEF S
        <5>2. IsFiniteSet(S \ {i}) /\ Cardinality(S \ {i}) = Cardinality(S) - 1
          BY <5>1, FS_RemoveElement
        <5> QED BY <5>2 DEF S
      <4> HIDE DEF cell
      <4> QED BY <3>2, <4>2, <1>1, <1>2 DEF cell
    <3> QED BY <3>1, <3>2
  <2> HIDE DEF kept
  <2>3. cell \in Interiors
    BY DEF InteriorInv
  <2>4. next \in Interiors /\ next.items = kept /\ next.occupants = cell.occupants
    BY <2>2, <2>3 DEF Interiors
  <2> HIDE DEF next
  <2>5. /\ DOMAIN cells' = DOMAIN cells /\ cells'[c] = next
        /\ \A d \in DOMAIN cells : d # c => cells'[d] = cells[d]
        /\ UNCHANGED <<present, entity_locations, next_cell_id>>
    BY <2>1, <1>5 DEF place_item, remove_item
  <2>6. \A d \in DOMAIN cells : cells'[d].occupants = cells[d].occupants
    BY <2>4, <2>5
  <2> QED BY <2>2, <2>4, <2>5, <2>6 DEF InteriorInv
<1>6. ASSUME NEW e \in present, NEW c \in DOMAIN cells, enter_cell(e, c) PROVE InteriorInv'
  <2> DEFINE out == Evict(e)  cell == out[c]  in == cell.occupants \union {e}
             next == [cell EXCEPT !.occupants = in]
  <2>1. /\ DOMAIN out = DOMAIN cells
        /\ \A d \in DOMAIN cells : /\ out[d] \in Interiors /\ out[d].items = cells[d].items
                                   /\ out[d].occupants = cells[d].occupants \ {e}
    BY Evicted
  <2>2. cells' = [out EXCEPT ![c] = next]
    BY <1>6 DEF enter_cell
  <2>3. e \in Visitors /\ in \subseteq Visitors
    BY <2>1 DEF InteriorInv, Interiors
  <2> HIDE DEF out, in
  <2>4. next \in Interiors /\ next.items = cells[c].items /\ next.occupants = in
    BY <2>1, <2>3 DEF Interiors
  <2> HIDE DEF next
  <2>5. /\ DOMAIN cells' = DOMAIN cells /\ cells'[c] = next
        /\ \A d \in DOMAIN cells : d # c => cells'[d] = out[d]
    BY <2>1, <2>2
  <2>6. /\ DOMAIN entity_locations' = DOMAIN entity_locations \union {e}
        /\ entity_locations'[e] = c
        /\ \A f \in DOMAIN entity_locations : f # e => entity_locations'[f] = entity_locations[f]
        /\ present' = present /\ next_cell_id' = next_cell_id
    BY <1>6 DEF enter_cell, With
  <2>7. /\ \A d \in DOMAIN cells : cells'[d] \in Interiors /\ cells'[d].items = cells[d].items
        /\ cells'[c].occupants = (cells[c].occupants \ {e}) \union {e}
        /\ \A d \in DOMAIN cells : d # c => cells'[d].occupants = cells[d].occupants \ {e}
    BY <2>1, <2>4, <2>5 DEF in
  <2>8. \A d \in DOMAIN cells : \A f \in cells'[d].occupants :
            f \in DOMAIN entity_locations' /\ entity_locations'[f] = d
    BY <2>6, <2>7 DEF InteriorInv
  <2>9. \A f \in DOMAIN entity_locations' :
            entity_locations'[f] \in DOMAIN cells' /\ f \in cells'[entity_locations'[f]].occupants
    BY <2>5, <2>6, <2>7 DEF InteriorInv
  <2> QED BY <2>3, <2>5, <2>6, <2>7, <2>8, <2>9 DEF InteriorInv
<1>7. ASSUME NEW e \in present, exit_cell(e) PROVE InteriorInv'
  <2>1. /\ DOMAIN cells' = DOMAIN cells
        /\ \A d \in DOMAIN cells : /\ cells'[d] \in Interiors /\ cells'[d].items = cells[d].items
                                   /\ cells'[d].occupants = cells[d].occupants \ {e}
    BY <1>7, Evicted DEF exit_cell
  <2>2. /\ DOMAIN entity_locations' = DOMAIN entity_locations \ {e}
        /\ \A f \in DOMAIN entity_locations' : entity_locations'[f] = entity_locations[f]
        /\ present' = present /\ next_cell_id' = next_cell_id
    BY <1>7 DEF exit_cell, Without
  <2> QED BY <2>1, <2>2 DEF InteriorInv
<1>8. ASSUME NEW e \in Visitors, spawn(e) \/ despawn_entity(e) PROVE InteriorInv'
  BY <1>8 DEF spawn, despawn_entity, InteriorInv
<1>9. CASE UNCHANGED interiorVars
  BY <1>9 DEF interiorVars, InteriorInv
<1> QED BY <1>3, <1>4, <1>5, <1>6, <1>7, <1>8, <1>9 DEF InteriorNext

\* Rooms and locations agree.
LEMMA InteriorSuffices ==
    ASSUME InteriorInv
    PROVE  RoomsConsistent
<1>1. MaxCells \in Nat /\ DOMAIN cells \subseteq 1..MaxCells
  BY InteriorAssumption DEF InteriorInv
<1>2. InteriorTypeOK
  BY <1>1 DEF InteriorInv, InteriorTypeOK, Interiors
<1>3. LocationsMatchOccupants
  <2> SUFFICES ASSUME NEW e \in Visitors, NEW c \in 1..MaxCells
               PROVE  get_entity_cell(e) = c <=> c \in DOMAIN cells /\ e \in cells[c].occupants
    BY DEF LocationsMatchOccupants
  <2>1. c # 0
    BY <1>1
  <2> QED BY <2>1 DEF get_entity_cell, InteriorInv
<1> QED BY <1>2, <1>3 DEF RoomsConsistent

(* ------------------- zones, their logs and their recovery ----------------- *)

Places == ZonePositions \union {Nowhere}
Grids == [ZoneEntities -> Places]
Records == [lsn : Nat, op : {"SPAWN", "DESPAWN", "TRANSFORM"}, entity : ZoneEntities,
            pos : ZonePositions]
Checkpoints == [last_lsn : Nat, entities : Grids]
Rebuilding == [ok : BOOLEAN, expected : Nat, grid : Grids]

\* A log numbers its records by their places.
Numbered(log) == log \in Seq(Records) /\ \A i \in 1..Len(log) : log[i].lsn = i

\* From the checkpoint and the log the grid is rebuilt, with every record read.
Recoverable(cp, log, grid) ==
    /\ cp \in Checkpoints /\ Numbered(log) /\ grid \in Grids
    /\ cp.last_lsn <= Len(log)
    /\ Rebuilt(cp, log) = [ok |-> TRUE, expected |-> Len(log), grid |-> grid]

\* One record keeps what was rebuilt well formed (reconstruction.rs).
LEMMA Replayed ==
    ASSUME NEW cp \in Checkpoints, NEW s \in Rebuilding, NEW rec \in Records
    PROVE  Replay(cp, s, rec) \in Rebuilding
<1> DEFINE place0 == IF rec.op = "DESPAWN" THEN Nowhere ELSE rec.pos
           grid == [s.grid EXCEPT ![rec.entity] = place0]
           applies == CASE rec.op = "SPAWN" -> s.grid[rec.entity] = Nowhere
                        [] OTHER            -> s.grid[rec.entity] # Nowhere
           ok == rec.lsn = s.expected + 1 /\ applies
<1>1. s.grid \in Grids /\ rec.entity \in ZoneEntities /\ rec.lsn \in Nat /\ place0 \in Places
  BY DEF Rebuilding, Records, Places
<1> HIDE DEF place0
<1>2. grid \in Grids
  BY <1>1 DEF Grids
<1>3. ok \in BOOLEAN
  BY DEF ok, applies
<1> HIDE DEF grid, ok
<1>4. [ok |-> ok, expected |-> rec.lsn, grid |-> grid] \in Rebuilding
  BY <1>1, <1>2, <1>3 DEF Rebuilding
<1>5. Replay(cp, s, rec) = s \/ Replay(cp, s, rec) = [ok |-> ok, expected |-> rec.lsn, grid |-> grid]
  BY DEF Replay, grid, ok, place0
<1> QED BY <1>4, <1>5

\* The states of a rebuilding, record by record.
Rebuilds(h, cp, log) ==
    /\ h \in [0..Len(log) -> Rebuilding]
    /\ h[0] = [ok |-> TRUE, expected |-> cp.last_lsn, grid |-> cp.entities]
    /\ \A k \in 1..Len(log) : h[k] = Replay(cp, h[k - 1], log[k])

\* A zone is rebuilt record by record (reconstruct_zone_from_wal).
LEMMA RecordByRecord ==
    ASSUME NEW cp \in Checkpoints, NEW log \in Seq(Records)
    PROVE  \E h : Rebuilds(h, cp, log) /\ Rebuilt(cp, log) = h[Len(log)]
<1> DEFINE n == Len(log)
           T == Rebuilding
           base == [ok |-> TRUE, expected |-> cp.last_lsn, grid |-> cp.entities]
           F == [x \in (1..n) \X T |-> Replay(cp, x[2], log[x[1]])]
           Step(g) == [S \in SUBSET (1..n) |->
                         IF S = {} THEN base
                         ELSE LET m == Max(S) IN Replay(cp, g[S \ {m}], log[m])]
           it == CHOOSE g : g = Step(g)
<1>1. n \in Nat /\ DOMAIN log = 1..n /\ \A i \in 1..n : log[i] \in Records
  OBVIOUS
<1>2. Rebuilt(cp, log) = it[1..n]
  <2>1. Rebuilt(cp, log) = FoldLeft(LAMBDA s, rec : Replay(cp, s, rec), base, log)
    BY DEF Rebuilt
  <2> HIDE DEF n, base
  <2>2. DOMAIN log = 1..n
    BY <1>1
  <2> QED BY <2>1, <2>2 DEF FoldLeft, MapThenFoldSet
<1>3. F \in [(1..n) \X T -> T]
  <2> SUFFICES ASSUME NEW i \in 1..n, NEW p \in T PROVE Replay(cp, p, log[i]) \in T
    OBVIOUS
  <2> QED BY <1>1, Replayed
<1>4. base \in T
  BY DEF Checkpoints, Rebuilding
<1> HIDE DEF base
<1>5. \A S \in SUBSET (1..n) : S # {} => Max(S) \in S /\ \A y \in S : Max(S) >= y
  <2> SUFFICES ASSUME NEW S \in SUBSET (1..n), S # {}
               PROVE  Max(S) \in S /\ \A y \in S : Max(S) >= y
    OBVIOUS
  <2>1. \E m \in S : \A y \in S : m >= y
    <3>1. S \subseteq 0..n
      BY <1>1
    <3>2. n \in Nat
      BY <1>1
    <3> HIDE DEF n
    <3> QED BY <3>1, <3>2, LargestOf
  <2> QED BY <2>1 DEF Max
<1>6. it = Step(it)
  <2>0. PICK g : FoldsAs(g, n, T, base, F)
    <3>1. n \in Nat
      BY <1>1
    <3> HIDE DEF n, T, F
    <3> QED BY <3>1, <1>3, <1>4, FoldExists
  <2>1. /\ g \in [SUBSET (1..n) -> T] /\ g[{}] = base
        /\ \A S \in SUBSET (1..n) : \A m \in S :
               (\A y \in S : m >= y) => g[S] = F[<<m, g[S \ {m}]>>]
    <3> HIDE DEF n, T, F
    <3> QED BY <2>0 DEF FoldsAs
  <2>2. ASSUME NEW S \in SUBSET (1..n)
        PROVE  g[S] = IF S = {} THEN base
                      ELSE LET m == Max(S) IN Replay(cp, g[S \ {m}], log[m])
    <3>1. CASE S # {}
      <4> DEFINE m == Max(S)
      <4>1. m \in S /\ m \in 1..n /\ g[S \ {m}] \in T /\ \A y \in S : m >= y
        BY <3>1, <1>5, <2>1
      <4> HIDE DEF m, n, T
      <4>2. g[S] = F[<<m, g[S \ {m}]>>]
        BY <4>1, <2>1
      <4>3. F[<<m, g[S \ {m}]>>] = Replay(cp, g[S \ {m}], log[m])
        BY <4>1
      <4> QED BY <3>1, <4>2, <4>3 DEF m
    <3> QED BY <3>1, <2>1
  <2>3. g = Step(g)
    <3> HIDE DEF T, F, n
    <3> QED BY <2>1, <2>2
  <2> HIDE DEF Step
  <2> QED BY <2>3
<1> HIDE DEF it
<1> DEFINE h == [k \in 0..n |-> it[1..k]]
<1>7. h[0] = base
  <2>1. 1..0 = {} /\ 1..0 \in SUBSET (1..n) /\ 0 \in 0..n
    BY <1>1
  <2>2. it[1..0] = base
    BY <2>1, <1>6
  <2> QED BY <2>1, <2>2
<1>8. ASSUME NEW k \in 1..n PROVE h[k] = Replay(cp, h[k - 1], log[k])
  <2> DEFINE S == 1..k  m == Max(S)
  <2>1. S \in SUBSET (1..n) /\ S # {} /\ k \in S /\ k \in 0..n /\ k - 1 \in 0..n
    <3>1. n \in Nat /\ k \in 1..n
      BY <1>1
    <3> HIDE DEF n
    <3>2. k \in Nat \ {0} /\ k <= n
      BY <3>1
    <3>3. \A x \in 1..k : x \in 1..n
      BY <3>1, <3>2
    <3>4. k \in S /\ k \in 0..n /\ k - 1 \in 0..n
      BY <3>1, <3>2
    <3>5. S \in SUBSET (1..n)
      BY <3>3
    <3> QED BY <3>4, <3>5
  <2>2. m = k
    <3>1. m \in S /\ m >= k
      BY <2>1, <1>5
    <3> HIDE DEF m
    <3> QED BY <3>1
  <2>3. S \ {k} = 1..(k - 1)
    OBVIOUS
  <2>4. it[S] = Replay(cp, it[S \ {k}], log[k])
    <3> HIDE DEF S, n
    <3>1. it[S] = Replay(cp, it[S \ {m}], log[m])
      BY <2>1, <1>6
    <3> QED BY <3>1, <2>2
  <2> QED BY <2>1, <2>3, <2>4
<1>9. \A k \in 0..n : h[k] \in T
  <2> DEFINE G == {k \in 0..n : h[k] \in T}
  <2>1. 0 \in G
    <3>1. 0 \in 0..n
      BY <1>1
    <3> HIDE DEF h
    <3> QED BY <3>1, <1>4, <1>7
  <2>2. ASSUME NEW k \in 1..n, k - 1 \in G PROVE k \in G
    <3>1. k \in 0..n /\ h[k - 1] \in T /\ log[k] \in Records
      BY <1>1, <2>2
    <3> HIDE DEF h
    <3> QED BY <3>1, <1>8, Replayed
  <2> HIDE DEF G, n
  <2>3. \A k \in 0..n : k \in G
    BY <1>1, <2>1, <2>2, UpTo
  <2> QED BY <2>3 DEF G
<1>10. h \in [0..n -> T] /\ h[n] = it[1..n]
  BY <1>1, <1>9
<1>11. Rebuilds(h, cp, log)
  <2> HIDE DEF h, it
  <2> QED BY <1>7, <1>8, <1>10 DEF Rebuilds, base
<1> QED BY <1>2, <1>10, <1>11

\* A record at the end of the log is replayed last.
LEMMA RebuiltAppend ==
    ASSUME NEW cp \in Checkpoints, NEW log \in Seq(Records), NEW rec \in Records
    PROVE  Rebuilt(cp, Append(log, rec)) = Replay(cp, Rebuilt(cp, log), rec)
<1> DEFINE n == Len(log)  more == Append(log, rec)
<1>1. /\ n \in Nat /\ more \in Seq(Records) /\ Len(more) = n + 1 /\ more[n + 1] = rec
      /\ \A k \in 1..n : more[k] = log[k]
  OBVIOUS
<1>2. PICK h : Rebuilds(h, cp, log) /\ Rebuilt(cp, log) = h[n]
  BY RecordByRecord
<1>3. PICK g : Rebuilds(g, cp, more) /\ Rebuilt(cp, more) = g[n + 1]
  <2> HIDE DEF more
  <2> QED BY <1>1, RecordByRecord
<1> DEFINE G == {k \in 0..n : h[k] = g[k]}
<1>4. 0 \in G
  <2>1. h[0] = g[0]
    BY <1>2, <1>3 DEF Rebuilds
  <2> HIDE DEF n
  <2> QED BY <2>1, <1>1
<1>5. ASSUME NEW k \in 1..n, k - 1 \in G PROVE k \in G
  <2>1. h[k - 1] = g[k - 1] /\ more[k] = log[k] /\ k \in 1..(n + 1)
    BY <1>1, <1>5
  <2>2. h[k] = Replay(cp, h[k - 1], log[k])
    BY <1>2 DEF Rebuilds
  <2>3. g[k] = Replay(cp, g[k - 1], more[k])
    <3> HIDE DEF more
    <3> QED BY <2>1, <1>1, <1>3 DEF Rebuilds
  <2> HIDE DEF more
  <2> QED BY <2>1, <2>2, <2>3
<1>6. h[n] = g[n]
  <2> HIDE DEF G, n
  <2>1. \A k \in 0..n : k \in G
    BY <1>1, <1>4, <1>5, UpTo
  <2> QED BY <2>1, <1>1 DEF G
<1>7. g[n + 1] = Replay(cp, g[n], rec)
  <2> DEFINE k == n + 1
  <2>1. k \in 1..Len(more) /\ k - 1 = n /\ more[k] = rec
    BY <1>1
  <2> HIDE DEF more, n, k
  <2>2. g[k] = Replay(cp, g[k - 1], more[k])
    BY <2>1, <1>3 DEF Rebuilds
  <2>3. g[k] = Replay(cp, g[n], rec)
    BY <2>1, <2>2
  <2> QED BY <2>3 DEF k
<1> HIDE DEF more, n
<1>8. Rebuilt(cp, more) = Replay(cp, Rebuilt(cp, log), rec)
  BY <1>2, <1>3, <1>6, <1>7
<1> QED BY <1>8 DEF more

\* A log without records leaves the checkpoint.
LEMMA NothingToReplay ==
    ASSUME NEW grid \in Grids
    PROVE  Recoverable([last_lsn |-> 0, entities |-> grid], <<>>, grid)
<1> DEFINE cp == [last_lsn |-> 0, entities |-> grid]  log == <<>>
<1>1. cp \in Checkpoints /\ cp.last_lsn = 0 /\ cp.entities = grid
  BY DEF Checkpoints
<1>2. log \in Seq(Records) /\ Len(log) = 0
  OBVIOUS
<1> HIDE DEF cp, log
<1>3. PICK h : Rebuilds(h, cp, log) /\ Rebuilt(cp, log) = h[Len(log)]
  BY <1>1, <1>2, RecordByRecord
<1>4. Rebuilt(cp, log) = [ok |-> TRUE, expected |-> 0, grid |-> grid]
  BY <1>1, <1>2, <1>3 DEF Rebuilds
<1>5. Recoverable(cp, log, grid)
  BY <1>1, <1>2, <1>4 DEF Recoverable, Numbered
<1> QED BY <1>5 DEF cp, log

\* A checkpoint at the end of the log has nothing left to replay (capture).
LEMMA Captured ==
    ASSUME NEW log, Numbered(log), NEW grid \in Grids
    PROVE  Recoverable([last_lsn |-> Len(log), entities |-> grid], log, grid)
<1> DEFINE n == Len(log)  cp == [last_lsn |-> n, entities |-> grid]
           base == [ok |-> TRUE, expected |-> n, grid |-> grid]
<1>1. n \in Nat /\ log \in Seq(Records) /\ \A k \in 1..n : log[k].lsn = k
  BY DEF Numbered
<1>2. cp \in Checkpoints /\ cp.last_lsn = n /\ cp.entities = grid
  BY <1>1 DEF Checkpoints
<1> HIDE DEF cp
<1>3. PICK h : Rebuilds(h, cp, log) /\ Rebuilt(cp, log) = h[n]
  BY <1>1, <1>2, RecordByRecord
<1> DEFINE G == {k \in 0..n : h[k] = base}
<1>4. 0 \in G
  BY <1>1, <1>2, <1>3 DEF Rebuilds
<1>5. ASSUME NEW k \in 1..n, k - 1 \in G PROVE k \in G
  <2>1. h[k - 1] = base /\ log[k].lsn <= cp.last_lsn
    BY <1>1, <1>2, <1>5
  <2>2. h[k] = Replay(cp, h[k - 1], log[k])
    BY <1>3 DEF Rebuilds
  <2>3. Replay(cp, h[k - 1], log[k]) = h[k - 1]
    BY <2>1 DEF Replay
  <2>4. k \in 0..n
    BY <1>1
  <2> QED BY <2>1, <2>2, <2>3, <2>4
<1>6. h[n] = base
  <2> HIDE DEF G, n
  <2>1. \A k \in 0..n : k \in G
    BY <1>1, <1>4, <1>5, UpTo
  <2>2. n \in 0..n
    BY <1>1
  <2> QED BY <2>1, <2>2 DEF G
<1>7. Recoverable(cp, log, grid)
  <2>1. Rebuilt(cp, log) = [ok |-> TRUE, expected |-> n, grid |-> grid]
    BY <1>3, <1>6
  <2> QED BY <1>1, <1>2, <2>1 DEF Recoverable
<1> QED BY <1>7 DEF cp

\* What is logged is replayed as it happened.
LEMMA Logged ==
    ASSUME NEW cp, NEW log, NEW grid, Recoverable(cp, log, grid),
           NEW op \in {"SPAWN", "DESPAWN", "TRANSFORM"}, NEW e \in ZoneEntities,
           NEW pos \in ZonePositions, grid[e] = Nowhere <=> op = "SPAWN"
    PROVE  Recoverable(cp,
               Append(log, [lsn |-> Len(log) + 1, op |-> op, entity |-> e, pos |-> pos]),
               [grid EXCEPT ![e] = IF op = "DESPAWN" THEN Nowhere ELSE pos])
<1> DEFINE n == Len(log)
           rec == [lsn |-> n + 1, op |-> op, entity |-> e, pos |-> pos]
           more == Append(log, rec)
           place0 == IF op = "DESPAWN" THEN Nowhere ELSE pos
           after == [grid EXCEPT ![e] = place0]
           before == [ok |-> TRUE, expected |-> n, grid |-> grid]
<1>1. /\ n \in Nat /\ log \in Seq(Records) /\ \A k \in 1..n : log[k].lsn = k
      /\ cp \in Checkpoints /\ cp.last_lsn \in Nat /\ cp.last_lsn <= n /\ grid \in Grids
      /\ Rebuilt(cp, log) = before
  BY DEF Recoverable, Numbered, Checkpoints
<1>2. rec \in Records /\ rec.lsn = n + 1 /\ rec.op = op /\ rec.entity = e /\ rec.pos = pos
  BY <1>1 DEF Records
<1> HIDE DEF rec
<1>3. /\ more \in Seq(Records) /\ Len(more) = n + 1 /\ more[n + 1] = rec
      /\ \A k \in 1..n : more[k] = log[k]
  BY <1>1, <1>2
<1>4. Numbered(more)
  <2> HIDE DEF more
  <2> QED BY <1>1, <1>2, <1>3 DEF Numbered
<1>5. Rebuilt(cp, more) = Replay(cp, before, rec)
  BY <1>1, <1>2, RebuiltAppend
<1>6. place0 \in Places
  BY DEF Places
<1>7. Replay(cp, before, rec) = [ok |-> TRUE, expected |-> n + 1, grid |-> after]
  <2>1. before.ok /\ before.expected = n /\ before.grid = grid
    OBVIOUS
  <2> HIDE DEF before, n
  <2>2. ~ (rec.lsn <= cp.last_lsn)
    BY <1>1, <1>2
  <2>3. CASE op = "SPAWN"
    BY <1>1, <1>2, <2>1, <2>2, <2>3 DEF Replay
  <2>4. CASE op # "SPAWN"
    BY <1>1, <1>2, <2>1, <2>2, <2>4 DEF Replay
  <2> QED BY <2>3, <2>4
<1>8. after \in Grids
  <2> HIDE DEF place0
  <2> QED BY <1>1, <1>6 DEF Grids
<1>9. cp.last_lsn <= Len(more)
  <2> HIDE DEF more, n
  <2> QED BY <1>1, <1>3
<1> HIDE DEF more, after, before
<1>10. Recoverable(cp, more, after)
  BY <1>1, <1>3, <1>4, <1>5, <1>7, <1>8, <1>9 DEF Recoverable
<1> QED BY <1>10 DEF more, after, rec

\* Every entity that lives is in one zone, and its zone has its log.
ZonesInv ==
    /\ zones \subseteq ZoneIds /\ alive \subseteq ZoneEntities
    /\ at \in [ZoneIds -> Grids] /\ DOMAIN wal = ZoneIds /\ DOMAIN checkpoint = ZoneIds
    /\ \A z \in ZoneIds : Recoverable(checkpoint[z], wal[z], at[z])
    /\ \A z \in ZoneIds, e \in ZoneEntities :
           In(e, z) => z \in zones /\ e < MaxEntities[z] /\ is_past_midpoint(at[z][e], z = 2)
    /\ \A e \in ZoneEntities :
           /\ ~ (In(e, 1) /\ In(e, 2))
           /\ e \in alive <=> In(e, 1) \/ In(e, 2)

\* Nobody crosses half of the seam in one tick: who jumped over it would be
\* handed to no zone (should_migrate, zone.rs).
NoLeap == MaxStep <= seam_midpoint - SeamMin /\ MaxStep <= SeamMax - seam_midpoint

\* The seam and its midpoint are positions.
LEMMA Geometry ==
    /\ seam_midpoint \in Nat /\ SeamMin <= seam_midpoint /\ seam_midpoint <= SeamMax
    /\ Nowhere \in Places /\ Nowhere \notin ZonePositions /\ ZonePositions \subseteq Nat
    /\ ZonePositions \subseteq Places /\ 0 \in ZonePositions /\ MaxStep \in Nat
    /\ SeamMin \in Nat /\ SeamMax \in Nat
<1>1. seam_midpoint \in Nat /\ SeamMin <= seam_midpoint /\ seam_midpoint <= SeamMax
  BY ZonesAssumption DEF seam_midpoint
<1> QED BY <1>1, ZonesAssumption DEF Places, ZonePositions, Nowhere

\* Nobody is in a zone at first (zone.rs).
LEMMA ZonesStart == ZonesInit => ZonesInv
<1> SUFFICES ASSUME ZonesInit PROVE ZonesInv
  OBVIOUS
<1> DEFINE grid == [e \in ZoneEntities |-> Nowhere]
<1>1. grid \in Grids /\ \A e \in ZoneEntities : grid[e] = Nowhere
  BY DEF Grids, Places
<1>2. /\ zones = {1} /\ alive = {} /\ at = [z \in ZoneIds |-> grid]
      /\ wal = [z \in ZoneIds |-> <<>>]
      /\ checkpoint = [z \in ZoneIds |-> [last_lsn |-> 0, entities |-> grid]]
  BY DEF ZonesInit
<1> HIDE DEF grid
<1>3. \A z \in ZoneIds : Recoverable(checkpoint[z], wal[z], at[z])
  BY <1>1, <1>2, NothingToReplay
<1>4. \A z \in ZoneIds, e \in ZoneEntities : ~ In(e, z)
  BY <1>1, <1>2 DEF In
<1>5. 1 \in ZoneIds /\ 2 \in ZoneIds
  BY DEF ZoneIds
<1> QED BY <1>1, <1>2, <1>3, <1>4, <1>5 DEF ZonesInv

\* What happens to one entity of a zone is logged: the zone stays recoverable.
LEMMA ZoneLogged ==
    ASSUME ZonesInv, NEW z \in ZoneIds, NEW op \in {"SPAWN", "DESPAWN", "TRANSFORM"},
           NEW e \in ZoneEntities, NEW pos \in ZonePositions,
           In(e, z) <=> op # "SPAWN"
    PROVE  LET grid == [at[z] EXCEPT ![e] = IF op = "DESPAWN" THEN Nowhere ELSE pos]
           IN  Recoverable(checkpoint[z], Log(z, op, e, pos), grid) /\ grid \in Grids
<1>1. Recoverable(checkpoint[z], wal[z], at[z])
  BY DEF ZonesInv
<1>2. at[z][e] = Nowhere <=> op = "SPAWN"
  BY DEF In
<1> DEFINE log == wal[z]  cp == checkpoint[z]  grid == at[z]
<1>3. Recoverable(cp,
          Append(log, [lsn |-> Len(log) + 1, op |-> op, entity |-> e, pos |-> pos]),
          [grid EXCEPT ![e] = IF op = "DESPAWN" THEN Nowhere ELSE pos])
  <2> HIDE DEF log, cp
  <2>1. Recoverable(cp, log, grid) /\ (grid[e] = Nowhere <=> op = "SPAWN")
    BY <1>1, <1>2 DEF log, cp
  <2> HIDE DEF grid
  <2> QED BY <2>1, Logged
<1> QED BY <1>3 DEF Log, Recoverable

\* One value of a function is replaced.
LEMMA Updated ==
    ASSUME NEW D, NEW R, NEW f \in [D -> R], NEW x \in D, NEW v \in R
    PROVE  /\ [f EXCEPT ![x] = v] \in [D -> R]
           /\ [f EXCEPT ![x] = v][x] = v
           /\ \A y \in D : y # x => [f EXCEPT ![x] = v][y] = f[y]
  OBVIOUS

\* One zone's grid and log change together.
LEMMA ZoneStep ==
    ASSUME ZonesInv, NEW z \in ZoneIds, NEW e \in ZoneEntities, NEW place0 \in Places,
           at' = [at EXCEPT ![z] = [at[z] EXCEPT ![e] = place0]],
           wal' = [wal EXCEPT ![z] = Log(z, IF place0 = Nowhere THEN "DESPAWN"
                                            ELSE IF In(e, z) THEN "TRANSFORM" ELSE "SPAWN", e,
                                         IF place0 = Nowhere THEN 0 ELSE place0)],
           place0 = Nowhere => In(e, z),
           place0 # Nowhere => /\ z \in zones /\ e < MaxEntities[z]
                               /\ is_past_midpoint(place0, z = 2)
                               /\ \A w \in ZoneIds : w # z => ~ In(e, w),
           alive' = IF place0 = Nowhere THEN alive \ {e} ELSE alive \union {e},
           UNCHANGED <<zones, checkpoint>>
    PROVE  ZonesInv'
<1> DEFINE op == IF place0 = Nowhere THEN "DESPAWN" ELSE IF In(e, z) THEN "TRANSFORM" ELSE "SPAWN"
           pos == IF place0 = Nowhere THEN 0 ELSE place0
           log == Log(z, op, e, pos)
           grid == [at[z] EXCEPT ![e] = place0]
<1>1. /\ op \in {"SPAWN", "DESPAWN", "TRANSFORM"} /\ pos \in ZonePositions
      /\ In(e, z) <=> op # "SPAWN"
      /\ place0 = IF op = "DESPAWN" THEN Nowhere ELSE pos
  BY Geometry DEF Places
<1>2. Recoverable(checkpoint[z], log, grid) /\ grid \in Grids
  <2> HIDE DEF op, pos
  <2> QED BY <1>1, ZoneLogged
<1>3. wal' = [wal EXCEPT ![z] = log] /\ at' = [at EXCEPT ![z] = grid]
  OBVIOUS
<1>4. grid[e] = place0 /\ \A f \in ZoneEntities : f # e => grid[f] = at[z][f]
  BY DEF ZonesInv, Grids
<1> HIDE DEF log, grid, op, pos
<1>5. /\ at' \in [ZoneIds -> Grids] /\ DOMAIN wal' = ZoneIds /\ DOMAIN checkpoint' = ZoneIds
      /\ at'[z] = grid /\ wal'[z] = log
      /\ \A w \in ZoneIds : w # z => at'[w] = at[w] /\ wal'[w] = wal[w]
      /\ zones' = zones /\ checkpoint' = checkpoint
  <2>1. at \in [ZoneIds -> Grids] /\ DOMAIN wal = ZoneIds /\ DOMAIN checkpoint = ZoneIds
    BY DEF ZonesInv
  <2>2. at' \in [ZoneIds -> Grids] /\ at'[z] = grid /\ \A w \in ZoneIds : w # z => at'[w] = at[w]
    <3> DEFINE after == [at EXCEPT ![z] = grid]
    <3>1. after \in [ZoneIds -> Grids] /\ after[z] = grid
          /\ \A w \in ZoneIds : w # z => after[w] = at[w]
      BY <1>2, <2>1, Updated
    <3>2. at' = after
      BY <1>3
    <3> HIDE DEF after
    <3> QED BY <3>1, <3>2
  <2>3. DOMAIN wal' = ZoneIds /\ wal'[z] = log /\ \A w \in ZoneIds : w # z => wal'[w] = wal[w]
    BY <1>3, <2>1
  <2>4. zones' = zones /\ checkpoint' = checkpoint
    OBVIOUS
  <2> QED BY <2>1, <2>2, <2>3, <2>4
<1>6. \A w \in ZoneIds : Recoverable(checkpoint'[w], wal'[w], at'[w])
  BY <1>2, <1>5 DEF ZonesInv
<1>7. \A w \in ZoneIds, f \in ZoneEntities :
          /\ f = e /\ w = z => (In(f, w)' <=> place0 # Nowhere) /\ at'[w][f] = place0
          /\ ~ (f = e /\ w = z) => (In(f, w)' <=> In(f, w)) /\ at'[w][f] = at[w][f]
  BY <1>4, <1>5 DEF In
<1>8. \A w \in ZoneIds, f \in ZoneEntities :
          In(f, w)' => w \in zones' /\ f < MaxEntities[w] /\ is_past_midpoint(at'[w][f], w = 2)
  BY <1>5, <1>7 DEF ZonesInv
<1>9. \A f \in ZoneEntities :
          /\ ~ (In(f, 1)' /\ In(f, 2)')
          /\ f \in alive' <=> In(f, 1)' \/ In(f, 2)'
  <2>1. 1 \in ZoneIds /\ 2 \in ZoneIds /\ (z = 1 \/ z = 2) /\ 1 # 2
    BY DEF ZoneIds
  <2>2. \A f \in ZoneEntities : ~ (In(f, 1) /\ In(f, 2)) /\ (f \in alive <=> In(f, 1) \/ In(f, 2))
    BY DEF ZonesInv
  <2>3. \A f \in ZoneEntities : f \in alive' <=> IF f = e THEN place0 # Nowhere ELSE f \in alive
    BY DEF ZonesInv
  <2>4. CASE z = 1
    BY <1>7, <2>1, <2>2, <2>3, <2>4
  <2>5. CASE z = 2
    BY <1>7, <2>1, <2>2, <2>3, <2>5
  <2> QED BY <2>1, <2>4, <2>5
<1>10. zones' \subseteq ZoneIds /\ alive' \subseteq ZoneEntities
  BY <1>5 DEF ZonesInv
<1> QED BY <1>5, <1>6, <1>8, <1>9, <1>10 DEF ZonesInv

\* An entity is handed over the seam: out of one zone's log and into the other's.
LEMMA HandedOver ==
    ASSUME ZonesInv, NEW z \in ZoneIds, NEW e \in ZoneEntities, NEW pos \in ZonePositions,
           In(e, z), Neighbour(z) \in zones, Insertable(at[Neighbour(z)], Neighbour(z), e),
           is_past_midpoint(pos, z = 1),
           at' = [at EXCEPT ![z] = [at[z] EXCEPT ![e] = Nowhere], ![Neighbour(z)][e] = pos],
           wal' = [wal EXCEPT ![z] = Log(z, "DESPAWN", e, 0),
                              ![Neighbour(z)] = Log(Neighbour(z), "SPAWN", e, pos)],
           UNCHANGED <<zones, checkpoint, alive>>
    PROVE  ZonesInv'
<1> DEFINE t == Neighbour(z)
           left == [at[z] EXCEPT ![e] = Nowhere]
           entered == [at[t] EXCEPT ![e] = pos]
           out == Log(z, "DESPAWN", e, 0)
           in == Log(t, "SPAWN", e, pos)
<1>1. /\ t \in ZoneIds /\ t # z /\ (t = 2 <=> z = 1) /\ \A w \in ZoneIds : w = z \/ w = t
      /\ e < MaxEntities[t] /\ ~ In(e, t) /\ t \in zones
  BY DEF Neighbour, ZoneIds, Insertable, In
<1>2. Recoverable(checkpoint[z], out, left) /\ left \in Grids
  <2>1. 0 \in ZonePositions /\ "DESPAWN" \in {"SPAWN", "DESPAWN", "TRANSFORM"}
    BY Geometry
  <2> QED BY <2>1, ZoneLogged
<1>3. Recoverable(checkpoint[t], in, entered) /\ entered \in Grids
  <2> HIDE DEF t
  <2> QED BY <1>1, ZoneLogged DEF in, entered
<1>4. at \in [ZoneIds -> Grids] /\ DOMAIN wal = ZoneIds /\ DOMAIN checkpoint = ZoneIds
  BY DEF ZonesInv
<1>5. at' = [[at EXCEPT ![z] = left] EXCEPT ![t] = entered]
  BY <1>1, <1>4
<1>6. wal' = [[wal EXCEPT ![z] = out] EXCEPT ![t] = in]
  OBVIOUS
<1>7. pos # Nowhere /\ pos \in Places
  BY Geometry
<1>8. /\ left[e] = Nowhere /\ entered[e] = pos
      /\ \A f \in ZoneEntities : f # e => left[f] = at[z][f] /\ entered[f] = at[t][f]
  <2>1. at[z] \in Grids /\ at[t] \in Grids
    BY <1>1, <1>4
  <2> HIDE DEF t
  <2> QED BY <2>1 DEF Grids
<1>9. zones' = zones /\ checkpoint' = checkpoint /\ alive' = alive
  OBVIOUS
<1> HIDE DEF left, entered, out, in, t
<1>10. at' \in [ZoneIds -> Grids] /\ at'[z] = left /\ at'[t] = entered
  <2> DEFINE once == [at EXCEPT ![z] = left]  twice == [once EXCEPT ![t] = entered]
  <2>1. once \in [ZoneIds -> Grids] /\ once[z] = left
    BY <1>2, <1>4, Updated
  <2> HIDE DEF once
  <2>2. twice \in [ZoneIds -> Grids] /\ twice[t] = entered /\ twice[z] = once[z]
    BY <1>1, <1>3, <2>1, Updated
  <2>3. at' = twice
    BY <1>5 DEF once
  <2> HIDE DEF twice
  <2> QED BY <2>1, <2>2, <2>3
<1>11. DOMAIN wal' = ZoneIds /\ wal'[z] = out /\ wal'[t] = in
  BY <1>1, <1>4, <1>6
<1>12. \A w \in ZoneIds : Recoverable(checkpoint'[w], wal'[w], at'[w])
  BY <1>1, <1>2, <1>3, <1>9, <1>10, <1>11
<1>13. \A w \in ZoneIds, f \in ZoneEntities :
           /\ f = e /\ w = z => ~ In(f, w)'
           /\ f = e /\ w = t => In(f, w)' /\ at'[w][f] = pos
           /\ f # e => (In(f, w)' <=> In(f, w)) /\ at'[w][f] = at[w][f]
  BY <1>1, <1>7, <1>8, <1>10 DEF In
<1>14. is_past_midpoint(pos, t = 2)
  <2>1. (t = 2) = (z = 1)
    BY <1>1
  <2> QED BY <2>1
<1>15. \A w \in ZoneIds, f \in ZoneEntities :
           In(f, w)' => w \in zones' /\ f < MaxEntities[w] /\ is_past_midpoint(at'[w][f], w = 2)
  <2> SUFFICES ASSUME NEW w \in ZoneIds, NEW f \in ZoneEntities, In(f, w)'
               PROVE  w \in zones' /\ f < MaxEntities[w] /\ is_past_midpoint(at'[w][f], w = 2)
    OBVIOUS
  <2>1. CASE f = e
    <3>1. w = t /\ at'[w][f] = pos
      BY <1>1, <1>13, <2>1
    <3> QED BY <1>1, <1>9, <1>14, <2>1, <3>1
  <2>2. CASE f # e
    BY <1>9, <1>13, <2>2 DEF ZonesInv
  <2> QED BY <2>1, <2>2
<1>16. \A f \in ZoneEntities :
           /\ ~ (In(f, 1)' /\ In(f, 2)')
           /\ f \in alive' <=> In(f, 1)' \/ In(f, 2)'
  <2>1. 1 \in ZoneIds /\ 2 \in ZoneIds /\ ((z = 1 /\ t = 2) \/ (z = 2 /\ t = 1))
    BY <1>1 DEF ZoneIds
  <2>2. \A f \in ZoneEntities : ~ (In(f, 1) /\ In(f, 2)) /\ (f \in alive <=> In(f, 1) \/ In(f, 2))
    BY DEF ZonesInv
  <2>3. CASE z = 1 /\ t = 2
    BY <1>9, <1>13, <2>1, <2>2, <2>3
  <2>4. CASE z = 2 /\ t = 1
    BY <1>9, <1>13, <2>1, <2>2, <2>4
  <2> QED BY <2>1, <2>3, <2>4
<1>17. zones' \subseteq ZoneIds /\ alive' \subseteq ZoneEntities
  BY <1>9 DEF ZonesInv
<1> QED BY <1>4, <1>9, <1>10, <1>11, <1>12, <1>15, <1>16, <1>17 DEF ZonesInv

\* Entities come, go, move and migrate; zones are saved and rebuilt.
LEMMA ZonesStep ==
    ASSUME NoLeap, ZonesInv, [ZonesNext]_zoneVars
    PROVE  ZonesInv'
<1>1. at \in [ZoneIds -> Grids] /\ \A z \in ZoneIds, e \in ZoneEntities : at[z][e] \in Places
  BY DEF ZonesInv, Grids
<1>2. ASSUME NEW z \in ZoneIds, add_zone(z) PROVE ZonesInv'
  BY <1>2 DEF add_zone, ZonesInv, In
<1>3. ASSUME NEW z \in ZoneIds, capture(z) PROVE ZonesInv'
  <2> DEFINE cp == [last_lsn |-> Len(wal[z]), entities |-> at[z]]
  <2>1. checkpoint' = [checkpoint EXCEPT ![z] = cp] /\ UNCHANGED <<zones, at, wal, alive>>
    BY <1>3 DEF capture
  <2>2. Recoverable(cp, wal[z], at[z])
    <3> DEFINE log == wal[z]  grid == at[z]
    <3>1. Numbered(log) /\ grid \in Grids
      BY DEF ZonesInv, Recoverable
    <3> HIDE DEF log, grid
    <3>2. Recoverable([last_lsn |-> Len(log), entities |-> grid], log, grid)
      BY <3>1, Captured
    <3> QED BY <3>2 DEF log, grid
  <2> HIDE DEF cp
  <2>3. \A w \in ZoneIds : Recoverable(checkpoint'[w], wal'[w], at'[w])
    BY <2>1, <2>2 DEF ZonesInv
  <2>4. DOMAIN checkpoint' = ZoneIds
    BY <2>1 DEF ZonesInv
  <2> QED BY <2>1, <2>3, <2>4 DEF ZonesInv, In
<1>4. ASSUME NEW z \in ZoneIds, crash(z) PROVE ZonesInv'
  <2>1. reconstruct(z).grid = at[z]
    BY DEF ZonesInv, Recoverable, reconstruct
  <2>2. at' = at /\ UNCHANGED <<zones, wal, checkpoint, alive>>
    BY <1>1, <1>4, <2>1 DEF crash
  <2> QED BY <2>2 DEF ZonesInv, In
<1>5. ASSUME NEW e \in ZoneEntities, NEW z \in ZoneIds, NEW pos \in ZonePositions,
             insert_entity(e, z, pos)
      PROVE  ZonesInv'
  <2>1. pos \in Places /\ pos # Nowhere
    BY Geometry
  <2>2. \A w \in ZoneIds : ~ In(e, w)
    BY <1>5 DEF insert_entity, ZonesInv, ZoneIds
  <2>3. /\ at' = [at EXCEPT ![z] = [at[z] EXCEPT ![e] = pos]]
        /\ wal' = [wal EXCEPT ![z] = Log(z, "SPAWN", e, pos)]
        /\ alive' = alive \union {e} /\ UNCHANGED <<zones, checkpoint>>
        /\ z \in zones /\ e < MaxEntities[z] /\ is_past_midpoint(pos, z = 2)
    BY <1>5 DEF insert_entity, Insertable
  <2> QED BY <2>1, <2>2, <2>3, ZoneStep
<1>6. ASSUME NEW e \in ZoneEntities, NEW z \in ZoneIds, remove_entity(e, z) PROVE ZonesInv'
  <2>1. Nowhere \in Places /\ In(e, z)
    BY <1>6, Geometry DEF remove_entity
  <2>2. /\ at' = [at EXCEPT ![z] = [at[z] EXCEPT ![e] = Nowhere]]
        /\ wal' = [wal EXCEPT ![z] = Log(z, "DESPAWN", e, 0)]
        /\ alive' = alive \ {e} /\ UNCHANGED <<zones, checkpoint>>
    BY <1>6 DEF remove_entity
  <2> QED BY <2>1, <2>2, ZoneStep
<1>7. ASSUME NEW e \in ZoneEntities, NEW z \in ZoneIds, NEW pos \in ZonePositions,
             tick_entity_movement(e, z, pos)
      PROVE  ZonesInv'
  <2>1. /\ z \in zones /\ In(e, z) /\ pos \in at[z][e] - MaxStep .. at[z][e] + MaxStep
        /\ UNCHANGED <<zones, checkpoint, alive>>
    BY <1>7 DEF tick_entity_movement
  <2>2. /\ e < MaxEntities[z] /\ is_past_midpoint(at[z][e], z = 2) /\ e \in alive
        /\ \A w \in ZoneIds : w # z => ~ In(e, w)
    BY <2>1 DEF ZonesInv, ZoneIds
  <2>3. CASE ShouldMigrate(z, pos)
    <3> DEFINE h == Handoff(e, z, Neighbour(z), pos)
    <3>1. /\ at' = h.grids
          /\ wal' = IF h.ok THEN [wal EXCEPT ![z] = Log(z, "DESPAWN", e, 0),
                                             ![Neighbour(z)] = Log(Neighbour(z), "SPAWN", e, pos)]
                    ELSE wal
      BY <1>7, <2>3 DEF tick_entity_movement
    <3>2. CASE Neighbour(z) \in zones /\ Insertable(at[Neighbour(z)], Neighbour(z), e)
      <4>1. h.ok = TRUE /\ h.grids = [at EXCEPT ![z] = [at[z] EXCEPT ![e] = Nowhere],
                                                ![Neighbour(z)][e] = pos]
        BY <3>2 DEF Handoff
      <4>2. is_past_midpoint(pos, z = 1)
        BY <2>3 DEF ShouldMigrate
      <4> HIDE DEF h
      <4> QED BY <2>1, <3>1, <3>2, <4>1, <4>2, HandedOver
    <3>3. CASE ~ (Neighbour(z) \in zones /\ Insertable(at[Neighbour(z)], Neighbour(z), e))
      <4>1. h.ok = FALSE /\ h.grids = [at EXCEPT ![z][e] = at[z][e]]
        BY <3>3 DEF Handoff
      <4>2. at' = at /\ wal' = wal
        <5>1. [at EXCEPT ![z][e] = at[z][e]] = at
          <6> DEFINE grid == at[z]
          <6>1. grid \in Grids
            BY <1>1
          <6>2. [grid EXCEPT ![e] = grid[e]] = grid
            <7> HIDE DEF grid
            <7> QED BY <6>1 DEF Grids
          <6>3. [at EXCEPT ![z] = grid] = at
            BY <1>1
          <6>4. [at EXCEPT ![z][e] = at[z][e]] = [at EXCEPT ![z] = [grid EXCEPT ![e] = grid[e]]]
            OBVIOUS
          <6> QED BY <6>2, <6>3, <6>4
        <5> HIDE DEF h
        <5> QED BY <3>1, <4>1, <5>1
      <4> QED BY <2>1, <4>2 DEF ZonesInv, In
    <3> QED BY <3>2, <3>3
  <2>4. CASE ~ ShouldMigrate(z, pos)
    <3>1. /\ at' = [at EXCEPT ![z] = [at[z] EXCEPT ![e] = pos]]
          /\ wal' = [wal EXCEPT ![z] = Log(z, "TRANSFORM", e, pos)]
      BY <1>7, <2>4 DEF tick_entity_movement
    <3>2. is_past_midpoint(pos, z = 2)
      <4> DEFINE p == at[z][e]
      <4>1. p \in ZonePositions
        BY <1>1, <2>1 DEF In, Places
      <4>2. p \in Nat /\ pos \in Nat /\ p - MaxStep <= pos /\ pos <= p + MaxStep
        <5>1. pos \in p - MaxStep .. p + MaxStep /\ p \in Nat /\ pos \in Nat /\ MaxStep \in Nat
          BY <2>1, <4>1, Geometry
        <5> HIDE DEF p
        <5> QED BY <5>1
      <4>3. is_past_midpoint(p, z = 2)
        BY <2>2
      <4>4. z = 1 \/ z = 2
        BY DEF ZoneIds
      <4> HIDE DEF p
      <4>5. CASE z = 1
        BY <2>4, <4>2, <4>3, <4>5, Geometry DEF NoLeap, ShouldMigrate, in_seam, is_past_midpoint
      <4>6. CASE z = 2
        BY <2>4, <4>2, <4>3, <4>6, Geometry DEF NoLeap, ShouldMigrate, in_seam, is_past_midpoint
      <4> QED BY <4>4, <4>5, <4>6
    <3>3. pos \in Places /\ pos # Nowhere
      BY Geometry
    <3>4. alive' = alive \union {e} /\ UNCHANGED <<zones, checkpoint>>
      BY <2>1, <2>2
    <3> QED BY <2>1, <2>2, <3>1, <3>2, <3>3, <3>4, ZoneStep
  <2> QED BY <2>3, <2>4
<1>8. CASE UNCHANGED zoneVars
  BY <1>8 DEF zoneVars, ZonesInv, In
<1> QED BY <1>2, <1>3, <1>4, <1>5, <1>6, <1>7, <1>8 DEF ZonesNext

\* The properties of the zones follow from the invariant.
LEMMA ZonesSuffices ==
    ASSUME ZonesInv
    PROVE  ZonesSound
<1>1. ZonesTypeOK
  BY DEF ZonesInv, ZonesTypeOK, In, Grids, Places
<1>2. OneZone
  <2> SUFFICES ASSUME NEW e \in ZoneEntities
               PROVE  Cardinality({z \in ZoneIds : In(e, z)}) = IF e \in alive THEN 1 ELSE 0
    BY DEF OneZone
  <2> DEFINE S == {z \in ZoneIds : In(e, z)}
  <2>1. /\ In(e, 1) => S = {1}
        /\ In(e, 2) => S = {2}
        /\ ~ In(e, 1) /\ ~ In(e, 2) => S = {}
    BY DEF ZonesInv, ZoneIds
  <2>2. e \in alive <=> In(e, 1) \/ In(e, 2)
    BY DEF ZonesInv
  <2> HIDE DEF S
  <2>3. Cardinality({1}) = 1 /\ Cardinality({2}) = 1
    BY FS_Singleton
  <2>4. Cardinality({}) = 0
    BY FS_EmptySet
  <2>5. Cardinality(S) = IF e \in alive THEN 1 ELSE 0
    BY <2>1, <2>2, <2>3, <2>4
  <2> QED BY <2>5 DEF S
<1>3. OwnSideOfSeam
  BY DEF ZonesInv, OwnSideOfSeam
<1>4. RecoveryExact
  BY DEF ZonesInv, RecoveryExact, reconstruct, Recoverable
<1> QED BY <1>1, <1>2, <1>3, <1>4 DEF ZonesSound

(* ----------------------------- structures --------------------------------- *)

Piece == [parent : Nat, piece_type : PieceTypes \union {"Foundation"}, material : Materials,
          stability : 1..MAX_STABILITY]

\* A piece stands on the ground or on a piece that was placed before it.
GoodPieces(ps, next) ==
    /\ DOMAIN ps \subseteq 1..(next - 1)
    /\ \A p \in DOMAIN ps :
           /\ ps[p] \in Piece /\ ps[p].parent < p
           /\ \/ ps[p].parent = 0 /\ ps[p].stability = MAX_STABILITY
              \/ /\ ps[p].parent \in DOMAIN ps
                 /\ ps[p].stability =
                        IF ps[p].piece_type = "Foundation" THEN MAX_STABILITY
                        ELSE ps[ps[p].parent].stability - stability_decay(ps[p].material)

\* The limits of structures are numbers.
LEMMA StructConstants ==
    /\ MaxStructures \in Nat /\ MaxPieces \in Nat /\ MaxRevision \in Nat /\ MaxCycles \in Nat
    /\ MAX_STABILITY \in Nat /\ MAX_STABILITY >= 1 /\ max_health \in Nat /\ max_health >= 1
    /\ \A m : stability_decay(m) \in Nat /\ stability_decay(m) >= 1
  BY StructAssumption DEF stability_decay

\* The stability that a new piece gets (calculate_stability).
LEMMA Calculated ==
    ASSUME NEW grounded \in BOOLEAN, NEW parent \in Nat, NEW m, parent <= MAX_STABILITY
    PROVE  LET st == calculate_stability(grounded, parent, m)
           IN  /\ st \in 0..MAX_STABILITY
               /\ st # 0 => st = IF grounded THEN MAX_STABILITY ELSE parent - stability_decay(m)
               /\ ~ grounded /\ st # 0 => parent > 0
<1> DEFINE d == stability_decay(m)
<1>1. d \in Nat /\ d >= 1 /\ MAX_STABILITY \in Nat /\ MAX_STABILITY >= 1
  BY StructConstants
<1> HIDE DEF d
<1>2. calculate_stability(grounded, parent, m)
          = IF grounded THEN MAX_STABILITY ELSE IF parent > d THEN parent - d ELSE 0
  BY DEF calculate_stability, d
<1>3. CASE grounded
  BY <1>1, <1>2, <1>3 DEF d
<1>4. CASE ~ grounded /\ parent > d
  <2>1. parent - d \in 0..MAX_STABILITY /\ parent > 0
    BY <1>1, <1>4
  <2> QED BY <1>2, <1>4, <2>1 DEF d
<1>5. CASE ~ grounded /\ ~ (parent > d)
  BY <1>1, <1>2, <1>5
<1> QED BY <1>3, <1>4, <1>5

\* What passes from a piece to one that rests on it.
LEMMA Propagated ==
    ASSUME NEW parent \in 0..MAX_STABILITY, NEW m
    PROVE  /\ calculate_stability(FALSE, parent, m) \in 0..MAX_STABILITY
           /\ calculate_stability(FALSE, parent, m) > 0 => parent > 0
<1> DEFINE d == stability_decay(m)
<1>1. d \in Nat /\ d >= 1 /\ MAX_STABILITY \in Nat
  BY StructConstants
<1>2. calculate_stability(FALSE, parent, m) = IF parent > d THEN parent - d ELSE 0
  BY DEF calculate_stability
<1> HIDE DEF d
<1>3. parent \in Nat /\ parent <= MAX_STABILITY
  BY <1>1
<1> DEFINE st == calculate_stability(FALSE, parent, m)
<1> HIDE DEF st
<1>4. st = IF parent > d THEN parent - d ELSE 0
  BY <1>2 DEF st
<1>5. st \in 0..MAX_STABILITY /\ (st > 0 => parent > 0)
  BY <1>1, <1>3, <1>4
<1> QED BY <1>5 DEF st

\* What propagates from the grounded pieces of a structure.
LEMMA StabilityMap ==
    ASSUME NEW ps, NEW n \in Nat, DOMAIN ps \subseteq 1..n,
           \A p \in DOMAIN ps : ps[p].parent \in Nat /\ ps[p].parent < p
    PROVE  \A p \in DOMAIN ps :
               /\ stability_map(ps)[p] \in 0..MAX_STABILITY
               /\ stability_map(ps)[p] =
                      IF ps[p].parent = 0 THEN MAX_STABILITY
                      ELSE IF ps[p].parent \notin DOMAIN ps THEN 0
                      ELSE calculate_stability(FALSE, stability_map(ps)[ps[p].parent], ps[p].material)
<1> DEFINE D == DOMAIN ps
           T == 0..MAX_STABILITY
           up == [p \in D |-> ps[p].parent]
           base == [p \in D |-> IF ps[p].parent = 0 THEN MAX_STABILITY ELSE 0]
           F == [x \in D \X T |-> calculate_stability(FALSE, x[2], ps[x[1]].material)]
           Step(g) == [p \in D |->
                         IF ps[p].parent = 0 THEN MAX_STABILITY
                         ELSE IF ps[p].parent \notin D THEN 0
                         ELSE calculate_stability(FALSE, g[ps[p].parent], ps[p].material)]
           stab == CHOOSE g : g = Step(g)
<1>1. stability_map(ps) = stab
  BY DEF stability_map
<1>2. D \in SUBSET (1..n) /\ 0 \notin D /\ MAX_STABILITY \in T /\ 0 \in T
  BY StructConstants
<1>3. up \in [D -> Nat] /\ \A p \in D : up[p] < p
  OBVIOUS
<1>4. base \in [D -> T]
  BY <1>2
<1>5. F \in [D \X T -> T]
  <2> SUFFICES ASSUME NEW p \in D, NEW st \in T
               PROVE  calculate_stability(FALSE, st, ps[p].material) \in T
    OBVIOUS
  <2> QED BY Propagated
<1>60. PICK g : ClimbsAs(g, D, T, up, base, F)
  <2>1. D \in SUBSET (1..n)
    BY <1>2
  <2> HIDE DEF D, T, up, base, F
  <2> QED BY <2>1, <1>3, <1>4, <1>5, ClimbExists
<1>6. g \in [D -> T] /\ \A p \in D : g[p] = IF up[p] \in D THEN F[<<p, g[up[p]]>>] ELSE base[p]
  <2> HIDE DEF D, T, up, base, F
  <2> QED BY <1>60 DEF ClimbsAs
<1>7. g = Step(g)
  <2>1. ASSUME NEW p \in D
        PROVE  g[p] = IF ps[p].parent = 0 THEN MAX_STABILITY
                      ELSE IF ps[p].parent \notin D THEN 0
                      ELSE calculate_stability(FALSE, g[ps[p].parent], ps[p].material)
    <3>1. CASE ps[p].parent \in D
      <4> DEFINE q == ps[p].parent
      <4>1. q \in D /\ q # 0 /\ up[p] = q /\ g[q] \in T
        BY <1>2, <1>6, <3>1
      <4> HIDE DEF q, D, T
      <4>2. g[p] = F[<<p, g[q]>>]
        BY <1>6, <4>1, <2>1
      <4>3. F[<<p, g[q]>>] = calculate_stability(FALSE, g[q], ps[p].material)
        BY <4>1, <2>1
      <4> QED BY <4>1, <4>2, <4>3 DEF q
    <3>2. CASE ps[p].parent \notin D
      <4>1. g[p] = base[p]
        BY <1>6, <3>2
      <4> QED BY <3>2, <4>1
    <3> QED BY <3>1, <3>2
  <2> QED BY <1>6, <2>1
<1>8. stab = Step(stab)
  <2> HIDE DEF Step
  <2> QED BY <1>7
<1> HIDE DEF stab
<1>9. \A p \in D : stab[p] =
          IF ps[p].parent = 0 THEN MAX_STABILITY
          ELSE IF ps[p].parent \notin D THEN 0
          ELSE calculate_stability(FALSE, stab[ps[p].parent], ps[p].material)
  BY <1>8
<1> DEFINE G == {k \in 0..n : \A p \in D : p <= k => stab[p] \in T}
<1>10. 0 \in G
  <2>1. \A p \in D : ~ (p <= 0)
    BY <1>2
  <2> QED BY <2>1
<1>11. ASSUME NEW k \in 1..n, k - 1 \in G PROVE k \in G
  <2> SUFFICES ASSUME NEW p \in D, p <= k PROVE stab[p] \in T
    OBVIOUS
  <2> DEFINE q == ps[p].parent
  <2>1. p \in Nat /\ q \in Nat /\ q < p /\ k \in Nat
    BY <1>2
  <2>2. CASE q \in D /\ q # 0
    <3>1. stab[q] \in T
      <4>1. q <= k - 1
        <5> HIDE DEF q
        <5> QED BY <2>1
      <4> QED BY <1>11, <2>2, <4>1
    <3>2. calculate_stability(FALSE, stab[q], ps[p].material) \in T
      BY <3>1, Propagated
    <3> QED BY <1>9, <2>2, <3>2
  <2>3. CASE ~ (q \in D /\ q # 0)
    BY <1>2, <1>9, <2>3
  <2> QED BY <2>2, <2>3
<1>12. \A p \in D : stab[p] \in T
  <2> HIDE DEF G
  <2>1. \A k \in 0..n : k \in G
    BY <1>10, <1>11, UpTo
  <2>2. n \in G
    BY <2>1
  <2>3. \A p \in D : p <= n
    BY <1>2
  <2> QED BY <2>2, <2>3 DEF G
<1> QED BY <1>1, <1>9, <1>12

\* What is left standing when a piece goes rests on what is left standing.
LEMMA Collapsed ==
    ASSUME NEW ps, NEW next \in Nat, GoodPieces(ps, next), NEW target
    PROVE  LET rest == Without(ps, {target})
           IN  GoodPieces(Without(rest, DOMAIN rest \ Standing(rest)), next)
<1> DEFINE rest == Without(ps, {target})
           kept == Without(rest, DOMAIN rest \ Standing(rest))
           stab == stability_map(rest)
<1>1. /\ DOMAIN rest = DOMAIN ps \ {target} /\ \A p \in DOMAIN rest : rest[p] = ps[p]
  BY DEF Without
<1>2. /\ DOMAIN ps \subseteq 1..(next - 1)
      /\ \A p \in DOMAIN ps : ps[p] \in Piece /\ ps[p].parent \in Nat /\ ps[p].parent < p
  BY DEF GoodPieces, Piece
<1>3. DOMAIN kept = Standing(rest) /\ \A p \in DOMAIN kept : kept[p] = rest[p]
  BY DEF Without, Standing
<1> HIDE DEF rest, kept
<1>4. \A p \in DOMAIN rest :
          /\ stab[p] \in 0..MAX_STABILITY
          /\ stab[p] = IF rest[p].parent = 0 THEN MAX_STABILITY
                       ELSE IF rest[p].parent \notin DOMAIN rest THEN 0
                       ELSE calculate_stability(FALSE, stab[rest[p].parent], rest[p].material)
  <2>1. \A p \in DOMAIN rest : rest[p].parent \in Nat /\ rest[p].parent < p
    BY <1>1, <1>2
  <2>2. next \in Nat /\ DOMAIN rest \subseteq 1..next
    BY <1>1, <1>2
  <2> QED BY <2>1, <2>2, StabilityMap
<1>5. \A p : p \in DOMAIN kept <=> p \in DOMAIN rest /\ stab[p] > 0
  BY <1>3 DEF Standing
<1> HIDE DEF stab
<1>6. ASSUME NEW p \in DOMAIN kept
      PROVE  /\ p \in DOMAIN ps /\ kept[p] = ps[p]
             /\ ps[p].parent = 0 \/ ps[p].parent \in DOMAIN kept
  <2>1. p \in DOMAIN rest /\ stab[p] > 0 /\ p \in DOMAIN ps /\ kept[p] = ps[p] /\ rest[p] = ps[p]
    BY <1>1, <1>3, <1>5
  <2>2. ASSUME ps[p].parent # 0 PROVE ps[p].parent \in DOMAIN kept
    <3> DEFINE q == ps[p].parent  m == ps[p].material
    <3>1. q \in DOMAIN rest /\ stab[p] = calculate_stability(FALSE, stab[q], m)
      <4>1. stab[p] # 0
        BY <2>1
      <4>2. stab[p] = IF ps[p].parent = 0 THEN MAX_STABILITY
                      ELSE IF ps[p].parent \notin DOMAIN rest THEN 0
                      ELSE calculate_stability(FALSE, stab[ps[p].parent], ps[p].material)
        BY <1>4, <2>1
      <4> QED BY <2>2, <4>1, <4>2
    <3>2. stab[q] \in 0..MAX_STABILITY /\ stab[p] \in 0..MAX_STABILITY /\ stab[p] > 0
      BY <1>4, <2>1, <3>1
    <3>3. stab[q] > 0
      <4> HIDE DEF q, m
      <4> QED BY <3>1, <3>2, Propagated
    <3> QED BY <1>5, <3>1, <3>3
  <2> QED BY <2>1, <2>2
<1>7. GoodPieces(kept, next)
  <2>1. ASSUME NEW p \in DOMAIN kept
        PROVE  /\ kept[p] \in Piece /\ kept[p].parent < p
               /\ \/ kept[p].parent = 0 /\ kept[p].stability = MAX_STABILITY
                  \/ /\ kept[p].parent \in DOMAIN kept
                     /\ kept[p].stability =
                            IF kept[p].piece_type = "Foundation" THEN MAX_STABILITY
                            ELSE kept[kept[p].parent].stability - stability_decay(kept[p].material)
    <3>1. p \in DOMAIN ps /\ kept[p] = ps[p] /\ (ps[p].parent = 0 \/ ps[p].parent \in DOMAIN kept)
      BY <1>6
    <3>2. ps[p].parent \in DOMAIN kept => kept[ps[p].parent] = ps[ps[p].parent] /\ ps[p].parent # 0
      BY <1>2, <1>6
    <3>3. \/ ps[p].parent = 0 /\ ps[p].stability = MAX_STABILITY
          \/ /\ ps[p].parent \in DOMAIN ps
             /\ ps[p].stability =
                    IF ps[p].piece_type = "Foundation" THEN MAX_STABILITY
                    ELSE ps[ps[p].parent].stability - stability_decay(ps[p].material)
      BY <3>1 DEF GoodPieces
    <3>4. 0 \notin DOMAIN ps
      BY <1>2
    <3> QED BY <1>2, <3>1, <3>2, <3>3, <3>4
  <2>2. DOMAIN kept \subseteq 1..(next - 1)
    BY <1>2, <1>6
  <2> QED BY <2>1, <2>2 DEF GoodPieces
<1> QED BY <1>7 DEF kept, rest

PieceMaps == UNION {[S -> Piece] : S \in SUBSET Nat}
Structure == [chunk : Chunks, health : 1..max_health, pieces : PieceMaps]
Manifest == [structure_ids : SUBSET Nat, revision : Nat]

\* Structures stand; their ids, and those of pieces, are given in order.
BuiltInv ==
    /\ next_structure_id \in 1..(MaxStructures + 1)
    /\ next_piece_id \in 1..(MaxPieces + 1)
    /\ DOMAIN structures \subseteq 1..(next_structure_id - 1)
    /\ \A s \in DOMAIN structures :
           structures[s] \in Structure /\ GoodPieces(structures[s].pieces, next_piece_id)

\* Manifests list what stands or was reclaimed.
ManifestInv ==
    /\ chunks \in [Chunks -> Manifest]
    /\ \A c \in Chunks : chunks[c].structure_ids \subseteq 1..(next_structure_id - 1)
    /\ reclaimed \subseteq 1..(next_structure_id - 1)
    /\ reclaimed \intersect DOMAIN structures = {}
    /\ ManifestExact

\* A client's copy of a chunk is empty, older than the chunk, or what stands in
\* it and what was reclaimed from it.
CopyOf(copy, ch, gone, standing) ==
    \/ copy.hash = EmptyHash /\ copy.content = {}
    \/ \E r \in Nat, ids \in SUBSET Nat :
           /\ copy.hash = <<r, ids>> /\ ids # {} /\ r <= ch.revision
           /\ r = ch.revision => {x \in copy.content : x[1] \notin gone} = standing

CacheInv ==
    /\ DOMAIN cache = Chunks
    /\ \A c \in Chunks : CopyOf(cache[c], chunks[c], reclaimed, Content(c))

StructInv == BuiltInv /\ ManifestInv /\ CacheInv

\* Nothing is built at first (building.rs).
LEMMA StructStart == StructInit => StructInv
<1> SUFFICES ASSUME StructInit PROVE StructInv
  OBVIOUS
<1>1. BuiltInv
  BY StructConstants DEF StructInit, BuiltInv
<1>2. ManifestInv
  BY DEF StructInit, ManifestInv, ManifestExact, Manifest
<1>3. CacheInv
  BY DEF StructInit, CacheInv, CopyOf
<1> QED BY <1>1, <1>2, <1>3 DEF StructInv

\* What a client would be streamed of a chunk is what stands there.
LEMMA Streamed ==
    ASSUME NEW c, NEW x
    PROVE  x \in Content(c) <=> \E s \in DOMAIN structures :
                                    structures[s].chunk = c /\ x = <<s, DOMAIN structures[s].pieces>>
  BY DEF Content

\* A chunk in which something was built or torn down outdates every copy of it,
\* and no other.
LEMMA CopiesOutdated ==
    ASSUME ManifestInv, CacheInv, NEW c \in Chunks, NEW ch \in Manifest,
           ch.revision = chunks[c].revision + 1,
           chunks' = [chunks EXCEPT ![c] = ch], UNCHANGED <<cache, reclaimed>>,
           \A s : s \in DOMAIN structures' /\ structures'[s].chunk # c
                      <=> s \in DOMAIN structures /\ structures[s].chunk # c,
           \A s \in DOMAIN structures \intersect DOMAIN structures' :
               structures[s].chunk # c => structures'[s] = structures[s]
    PROVE  CacheInv'
<1>1. chunks \in [Chunks -> Manifest] /\ chunks[c].revision \in Nat
  BY DEF ManifestInv, Manifest
<1>2. chunks'[c] = ch /\ \A d \in Chunks : d # c => chunks'[d] = chunks[d]
  BY <1>1
<1>3. ASSUME NEW d \in Chunks, d # c PROVE Content(d)' = Content(d)
  <2>1. \A s : s \in DOMAIN structures' /\ structures'[s].chunk = d
                   <=> s \in DOMAIN structures /\ structures[s].chunk = d
    BY <1>3
  <2>2. \A s \in DOMAIN structures : structures[s].chunk = d => structures'[s] = structures[s]
    BY <1>3, <2>1
  <2> QED BY <2>1, <2>2 DEF Content
<1>4. ASSUME NEW d \in Chunks PROVE CopyOf(cache'[d], chunks'[d], reclaimed', Content(d)')
  <2>1. CopyOf(cache[d], chunks[d], reclaimed, Content(d))
    BY DEF CacheInv
  <2>2. CASE d # c
    BY <1>2, <1>3, <2>1, <2>2
  <2>3. CASE d = c
    <3> DEFINE rev == chunks[c].revision
    <3>1. rev \in Nat /\ ch.revision = rev + 1
      BY <1>1
    <3> HIDE DEF rev
    <3>2. \A r \in Nat : r <= rev => r <= rev + 1 /\ r # rev + 1
      BY <3>1
    <3>3. CopyOf(cache[d], ch, reclaimed, Content(d)')
      BY <2>1, <2>3, <3>1, <3>2 DEF CopyOf, rev
    <3> QED BY <1>2, <2>3, <3>3
  <2> QED BY <2>2, <2>3
<1>5. DOMAIN cache' = Chunks
  BY DEF CacheInv
<1> QED BY <1>4, <1>5 DEF CacheInv


\* Pieces stay good when more ids have been given out.
LEMMA GoodLater ==
    ASSUME NEW ps, NEW next \in Nat, NEW later \in Nat, GoodPieces(ps, next), next <= later
    PROVE  GoodPieces(ps, later)
<1>1. 1..(next - 1) \subseteq 1..(later - 1)
  OBVIOUS
<1> QED BY <1>1 DEF GoodPieces

\* Pieces of one structure come or go (snap_piece, destroy_piece).
LEMMA PiecesChanged ==
    ASSUME StructInv, NEW s \in DOMAIN structures, NEW ps, NEW next \in 1..(MaxPieces + 1),
           next_piece_id <= next, GoodPieces(ps, next), ps \in PieceMaps,
           structures' = [structures EXCEPT ![s] = [structures[s] EXCEPT !.pieces = ps]],
           chunks' = [chunks EXCEPT ![structures[s].chunk] =
                          mark_chunk_modified(chunks[structures[s].chunk])],
           next_piece_id' = next, UNCHANGED <<next_structure_id, cache, reclaimed>>
    PROVE  StructInv'
<1> DEFINE old == structures[s]  new == [old EXCEPT !.pieces = ps]
           c == old.chunk  ch == mark_chunk_modified(chunks[c])
<1>0. BuiltInv /\ ManifestInv /\ CacheInv
  BY DEF StructInv
<1>1. old \in Structure /\ c \in Chunks
  BY <1>0 DEF BuiltInv, Structure
<1>2. new \in Structure /\ new.chunk = c /\ new.pieces = ps
  <2> HIDE DEF old
  <2> QED BY <1>1 DEF Structure
<1>3. chunks[c] \in Manifest
  BY <1>0, <1>1 DEF ManifestInv
<1>4. ch \in Manifest /\ ch.structure_ids = chunks[c].structure_ids
      /\ ch.revision = chunks[c].revision + 1
  <2> DEFINE m == chunks[c]
  <2>1. m \in Manifest
    BY <1>3
  <2> HIDE DEF m
  <2>2. /\ mark_chunk_modified(m) \in Manifest
        /\ mark_chunk_modified(m).structure_ids = m.structure_ids
        /\ mark_chunk_modified(m).revision = m.revision + 1
    BY <2>1 DEF Manifest, mark_chunk_modified
  <2> QED BY <2>2 DEF m
<1>5. structures' = [structures EXCEPT ![s] = new] /\ chunks' = [chunks EXCEPT ![c] = ch]
  OBVIOUS
<1> HIDE DEF new, ch
<1>6. /\ DOMAIN structures' = DOMAIN structures /\ structures'[s] = new
      /\ \A t \in DOMAIN structures : t # s => structures'[t] = structures[t]
      /\ \A t \in DOMAIN structures : structures'[t].chunk = structures[t].chunk
  BY <1>2, <1>5
<1>7. /\ chunks' \in [Chunks -> Manifest]
      /\ \A d \in Chunks : chunks'[d].structure_ids = chunks[d].structure_ids
  <2>1. chunks \in [Chunks -> Manifest]
    BY <1>0 DEF ManifestInv
  <2> HIDE DEF c
  <2> QED BY <1>1, <1>4, <1>5, <2>1
<1>8. BuiltInv'
  <2>1. next_piece_id \in Nat /\ next \in Nat
    BY <1>0, StructConstants DEF BuiltInv
  <2>2. ASSUME NEW t \in DOMAIN structures
        PROVE  structures'[t] \in Structure /\ GoodPieces(structures'[t].pieces, next)
    <3>1. structures[t] \in Structure /\ GoodPieces(structures[t].pieces, next_piece_id)
      BY <1>0 DEF BuiltInv
    <3>2. GoodPieces(structures[t].pieces, next)
      BY <2>1, <3>1, GoodLater
    <3> QED BY <1>2, <1>6, <3>1, <3>2
  <2> QED BY <1>0, <1>6, <2>2 DEF BuiltInv
<1>9. ManifestInv'
  BY <1>0, <1>6, <1>7 DEF ManifestInv, ManifestExact
<1>10. CacheInv'
  <2>1. /\ \A t : t \in DOMAIN structures' /\ structures'[t].chunk # c
                      <=> t \in DOMAIN structures /\ structures[t].chunk # c
        /\ \A t \in DOMAIN structures \intersect DOMAIN structures' :
               structures[t].chunk # c => structures'[t] = structures[t]
    BY <1>6
  <2> HIDE DEF c
  <2> QED BY <1>0, <1>1, <1>4, <1>5, <2>1, CopiesOutdated
<1> QED BY <1>8, <1>9, <1>10 DEF StructInv

\* A foundation is placed (building.rs, place_foundation).
LEMMA Placed ==
    ASSUME StructInv, NEW c \in Chunks, NEW m \in Materials, place_foundation(c, m)
    PROVE  StructInv'
<1> DEFINE n == next_structure_id  p == next_piece_id
           ps == With(<< >>, p, Root(m))
           new == [chunk |-> c, health |-> max_health, pieces |-> ps]
           ch == register_structure(chunks[c], n)
<1>0. BuiltInv /\ ManifestInv /\ CacheInv
  BY DEF StructInv
<1>1. /\ n \in 1..MaxStructures /\ p \in 1..MaxPieces
      /\ structures' = With(structures, n, new) /\ chunks' = [chunks EXCEPT ![c] = ch]
      /\ next_structure_id' = n + 1 /\ next_piece_id' = p + 1
      /\ UNCHANGED <<cache, reclaimed>>
  BY <1>0, StructConstants DEF place_foundation, BuiltInv
<1>2. DOMAIN ps = {p} /\ ps[p] = Root(m)
  BY DEF With
<1>3. /\ Root(m) \in Piece /\ Root(m).parent = 0 /\ Root(m).stability = MAX_STABILITY
  BY StructConstants DEF Root, Piece
<1>4. p \in Nat /\ n \in Nat /\ p >= 1 /\ n >= 1
  BY <1>1, StructConstants
<1>5. ps \in PieceMaps
  <2>1. ps \in [{p} -> Piece]
    BY <1>2, <1>3 DEF With
  <2> HIDE DEF ps, p
  <2>2. {p} \in SUBSET Nat
    BY <1>4
  <2> QED BY <2>1, <2>2 DEF PieceMaps
<1> HIDE DEF ps
<1>6. GoodPieces(ps, p + 1)
  <2>1. DOMAIN ps \subseteq 1..(p + 1 - 1)
    <3> HIDE DEF p
    <3> QED BY <1>2, <1>4
  <2> HIDE DEF p
  <2> QED BY <1>2, <1>3, <1>4, <2>1 DEF GoodPieces
<1>7. new \in Structure /\ new.chunk = c /\ new.pieces = ps
  BY <1>5, StructConstants DEF Structure
<1>8. ch \in Manifest /\ ch.structure_ids = chunks[c].structure_ids \union {n}
      /\ ch.revision = chunks[c].revision + 1
  <2>1. chunks[c] \in Manifest
    BY <1>0 DEF ManifestInv
  <2> HIDE DEF n
  <2> QED BY <1>4, <2>1 DEF Manifest, register_structure
<1> HIDE DEF new, ch
<1>9. n \notin DOMAIN structures /\ n \notin reclaimed
  <2>1. ~ (n \in 1..(n - 1))
    BY <1>4
  <2> QED BY <1>0, <2>1 DEF BuiltInv, ManifestInv
<1>10. /\ DOMAIN structures' = DOMAIN structures \union {n} /\ structures'[n] = new
       /\ \A t \in DOMAIN structures : structures'[t] = structures[t]
  BY <1>1, <1>9 DEF With
<1>11. 1..(n - 1) \subseteq 1..(n + 1 - 1) /\ n \in 1..(n + 1 - 1)
  <2> HIDE DEF n
  <2> QED BY <1>4
<1>12. BuiltInv'
  <2>1. n + 1 \in 1..(MaxStructures + 1) /\ p + 1 \in 1..(MaxPieces + 1)
    <3> HIDE DEF n, p
    <3> QED BY <1>1, <1>4, StructConstants
  <2>2. DOMAIN structures' \subseteq 1..(n + 1 - 1)
    BY <1>0, <1>10, <1>11 DEF BuiltInv
  <2>3. ASSUME NEW t \in DOMAIN structures'
        PROVE  structures'[t] \in Structure /\ GoodPieces(structures'[t].pieces, p + 1)
    <3>1. CASE t = n
      BY <1>6, <1>7, <1>10, <3>1
    <3>2. CASE t # n
      <4>1. /\ t \in DOMAIN structures /\ structures'[t] = structures[t]
            /\ structures[t] \in Structure /\ GoodPieces(structures[t].pieces, p)
        BY <1>0, <1>10, <2>3, <3>2 DEF BuiltInv
      <4>2. p + 1 \in Nat /\ p <= p + 1
        BY <1>4
      <4> HIDE DEF p
      <4> QED BY <1>4, <4>1, <4>2, GoodLater
    <3> QED BY <3>1, <3>2
  <2> QED BY <1>1, <2>1, <2>2, <2>3 DEF BuiltInv
<1>13. /\ chunks' \in [Chunks -> Manifest] /\ chunks'[c] = ch
       /\ \A d \in Chunks : d # c => chunks'[d] = chunks[d]
  <2>1. chunks \in [Chunks -> Manifest]
    BY <1>0 DEF ManifestInv
  <2> QED BY <1>1, <1>8, <2>1
<1>14. ManifestInv'
  <2>1. \A d \in Chunks : chunks'[d].structure_ids \subseteq 1..(n + 1 - 1)
    BY <1>0, <1>8, <1>11, <1>13 DEF ManifestInv
  <2>2. reclaimed' \subseteq 1..(n + 1 - 1) /\ reclaimed' \intersect DOMAIN structures' = {}
    BY <1>0, <1>1, <1>9, <1>10, <1>11 DEF ManifestInv
  <2>3. ASSUME NEW d \in Chunks
        PROVE  chunks'[d].structure_ids \ reclaimed'
                   = {t \in DOMAIN structures' : structures'[t].chunk = d}
    <3>1. chunks[d].structure_ids \ reclaimed = {t \in DOMAIN structures : structures[t].chunk = d}
      BY <1>0 DEF ManifestInv, ManifestExact
    <3>2. CASE d = c
      <4>1. chunks'[d].structure_ids \ reclaimed' = (chunks[d].structure_ids \ reclaimed) \union {n}
        BY <1>1, <1>8, <1>9, <1>13, <3>2
      <4>2. {t \in DOMAIN structures' : structures'[t].chunk = d}
                = {t \in DOMAIN structures : structures[t].chunk = d} \union {n}
        BY <1>7, <1>9, <1>10, <3>2
      <4> QED BY <3>1, <4>1, <4>2
    <3>3. CASE d # c
      <4>1. {t \in DOMAIN structures' : structures'[t].chunk = d}
                = {t \in DOMAIN structures : structures[t].chunk = d}
        BY <1>7, <1>9, <1>10, <3>3
      <4> QED BY <1>1, <1>13, <3>1, <3>3, <4>1
    <3> QED BY <3>2, <3>3
  <2> QED BY <1>1, <1>13, <2>1, <2>2, <2>3 DEF ManifestInv, ManifestExact
<1>15. CacheInv'
  <2>1. /\ \A t : t \in DOMAIN structures' /\ structures'[t].chunk # c
                      <=> t \in DOMAIN structures /\ structures[t].chunk # c
        /\ \A t \in DOMAIN structures \intersect DOMAIN structures' :
               structures[t].chunk # c => structures'[t] = structures[t]
    BY <1>7, <1>9, <1>10
  <2> QED BY <1>0, <1>1, <1>8, <2>1, CopiesOutdated
<1> QED BY <1>12, <1>14, <1>15 DEF StructInv

\* A structure is torn down (building.rs, destroy_structure).
LEMMA TornDown ==
    ASSUME StructInv, NEW s \in DOMAIN structures, destroy_structure(s)
    PROVE  StructInv'
<1> DEFINE c == structures[s].chunk  ch == unregister_structure(chunks[c], s)
<1>0. BuiltInv /\ ManifestInv /\ CacheInv
  BY DEF StructInv
<1>1. c \in Chunks
  BY <1>0 DEF BuiltInv, Structure
<1>2. /\ structures' = Without(structures, {s}) /\ chunks' = [chunks EXCEPT ![c] = ch]
      /\ UNCHANGED <<next_structure_id, next_piece_id, cache, reclaimed>>
  BY DEF destroy_structure
<1>3. ch \in Manifest /\ ch.structure_ids = chunks[c].structure_ids \ {s}
      /\ ch.revision = chunks[c].revision + 1
  <2>1. chunks[c] \in Manifest
    BY <1>0, <1>1 DEF ManifestInv
  <2> QED BY <2>1 DEF Manifest, unregister_structure
<1> HIDE DEF ch
<1>4. /\ DOMAIN structures' = DOMAIN structures \ {s}
      /\ \A t \in DOMAIN structures' : structures'[t] = structures[t]
  BY <1>2 DEF Without
<1>5. /\ chunks' \in [Chunks -> Manifest] /\ chunks'[c] = ch
      /\ \A d \in Chunks : d # c => chunks'[d] = chunks[d]
  <2>1. chunks \in [Chunks -> Manifest]
    BY <1>0 DEF ManifestInv
  <2> HIDE DEF c
  <2> QED BY <1>1, <1>2, <1>3, <2>1
<1>6. BuiltInv'
  BY <1>0, <1>2, <1>4 DEF BuiltInv
<1>7. ManifestInv'
  <2>1. ASSUME NEW d \in Chunks
        PROVE  chunks'[d].structure_ids \ reclaimed'
                   = {t \in DOMAIN structures' : structures'[t].chunk = d}
    <3>1. chunks[d].structure_ids \ reclaimed = {t \in DOMAIN structures : structures[t].chunk = d}
      BY <1>0 DEF ManifestInv, ManifestExact
    <3>2. CASE d = c
      <4>1. chunks'[d].structure_ids \ reclaimed' = (chunks[d].structure_ids \ reclaimed) \ {s}
        BY <1>2, <1>3, <1>5, <3>2
      <4>2. {t \in DOMAIN structures' : structures'[t].chunk = d}
                = {t \in DOMAIN structures : structures[t].chunk = d} \ {s}
        BY <1>4
      <4> QED BY <3>1, <4>1, <4>2
    <3>3. CASE d # c
      <4>1. {t \in DOMAIN structures' : structures'[t].chunk = d}
                = {t \in DOMAIN structures : structures[t].chunk = d}
        BY <1>4, <3>3
      <4> QED BY <1>2, <1>5, <3>1, <3>3, <4>1
    <3> QED BY <3>2, <3>3
  <2>2. \A d \in Chunks : chunks'[d].structure_ids \subseteq 1..(next_structure_id - 1)
    BY <1>0, <1>3, <1>5 DEF ManifestInv
  <2> QED BY <1>0, <1>2, <1>4, <1>5, <2>1, <2>2 DEF ManifestInv, ManifestExact
<1>8. CacheInv'
  <2>1. /\ \A t : t \in DOMAIN structures' /\ structures'[t].chunk # c
                      <=> t \in DOMAIN structures /\ structures[t].chunk # c
        /\ \A t \in DOMAIN structures \intersect DOMAIN structures' :
               structures[t].chunk # c => structures'[t] = structures[t]
    BY <1>4
  <2> HIDE DEF c
  <2> QED BY <1>0, <1>1, <1>2, <1>3, <2>1, CopiesOutdated
<1> QED BY <1>6, <1>7, <1>8 DEF StructInv

\* A cycle of maintenance wears structures down (building.rs).
LEMMA Maintained ==
    ASSUME StructInv, run_structure_maintenance
    PROVE  StructInv'
<1> DEFINE gone == {s \in DOMAIN structures : structures[s].health <= 1}
           worn(s) == [structures[s] EXCEPT !.health = structures[s].health - 1]
<1>0. BuiltInv /\ ManifestInv /\ CacheInv
  BY DEF StructInv
<1>1. /\ structures' = [s \in DOMAIN structures \ gone |-> worn(s)]
      /\ reclaimed' = reclaimed \union gone
      /\ UNCHANGED <<next_structure_id, next_piece_id, chunks, cache>>
  BY DEF run_structure_maintenance
<1>2. ASSUME NEW s \in DOMAIN structures \ gone
      PROVE  /\ worn(s) \in Structure
             /\ worn(s).chunk = structures[s].chunk /\ worn(s).pieces = structures[s].pieces
  <2> DEFINE old == structures[s]  h == old.health - 1
  <2>1. old \in Structure /\ ~ (old.health <= 1)
    BY <1>0 DEF BuiltInv
  <2> HIDE DEF old
  <2>2. h \in 1..max_health
    <3> DEFINE g == old.health
    <3>1. g \in 1..max_health /\ ~ (g <= 1) /\ max_health \in Nat
      BY <2>1, StructConstants DEF Structure
    <3> HIDE DEF g
    <3>2. g - 1 \in 1..max_health
      BY <3>1
    <3> QED BY <3>2 DEF g
  <2> HIDE DEF h
  <2>3. /\ [old EXCEPT !.health = h] \in Structure
        /\ [old EXCEPT !.health = h].chunk = old.chunk
        /\ [old EXCEPT !.health = h].pieces = old.pieces
    BY <2>1, <2>2 DEF Structure
  <2> QED BY <2>3 DEF old, h
<1> HIDE DEF worn
<1>3. /\ DOMAIN structures' = DOMAIN structures \ gone
      /\ \A s \in DOMAIN structures' :
             /\ structures'[s] \in Structure /\ structures'[s].chunk = structures[s].chunk
             /\ structures'[s].pieces = structures[s].pieces
  BY <1>1, <1>2
<1>4. gone \subseteq DOMAIN structures
  OBVIOUS
<1> HIDE DEF gone
<1>5. BuiltInv'
  BY <1>0, <1>1, <1>3 DEF BuiltInv
<1>6. ManifestInv'
  <2>1. ASSUME NEW d \in Chunks
        PROVE  chunks'[d].structure_ids \ reclaimed'
                   = {t \in DOMAIN structures' : structures'[t].chunk = d}
    <3>1. chunks[d].structure_ids \ reclaimed = {t \in DOMAIN structures : structures[t].chunk = d}
      BY <1>0 DEF ManifestInv, ManifestExact
    <3>2. chunks'[d].structure_ids \ reclaimed' = (chunks[d].structure_ids \ reclaimed) \ gone
      BY <1>1
    <3>3. {t \in DOMAIN structures' : structures'[t].chunk = d}
              = {t \in DOMAIN structures : structures[t].chunk = d} \ gone
      BY <1>3
    <3> QED BY <3>1, <3>2, <3>3
  <2>2. /\ reclaimed' \subseteq 1..(next_structure_id - 1)
        /\ reclaimed' \intersect DOMAIN structures' = {}
    BY <1>0, <1>1, <1>3, <1>4 DEF ManifestInv, BuiltInv
  <2> QED BY <1>0, <1>1, <2>1, <2>2 DEF ManifestInv, ManifestExact
<1>7. CacheInv'
  <2>1. ASSUME NEW c \in Chunks
        PROVE  Content(c)' = {x \in Content(c) : x[1] \notin gone}
    <3>1. \A s : s \in DOMAIN structures' /\ structures'[s].chunk = c
                     <=> s \in DOMAIN structures /\ structures[s].chunk = c /\ s \notin gone
      BY <1>3
    <3>2. \A s \in DOMAIN structures' : structures'[s].pieces = structures[s].pieces
      BY <1>3
    <3>3. Content(c)' \subseteq {x \in Content(c) : x[1] \notin gone}
      BY <3>1, <3>2 DEF Content
    <3>4. {x \in Content(c) : x[1] \notin gone} \subseteq Content(c)'
      <4> SUFFICES ASSUME NEW x \in Content(c), x[1] \notin gone PROVE x \in Content(c)'
        OBVIOUS
      <4>1. PICK s \in DOMAIN structures :
                structures[s].chunk = c /\ x = <<s, DOMAIN structures[s].pieces>>
        BY Streamed
      <4>2. s \in DOMAIN structures' /\ structures'[s].chunk = c
            /\ x = <<s, DOMAIN structures'[s].pieces>>
        BY <3>1, <3>2, <4>1
      <4> QED BY <4>2 DEF Content
    <3> QED BY <3>3, <3>4
  <2>2. ASSUME NEW c \in Chunks PROVE CopyOf(cache'[c], chunks'[c], reclaimed', Content(c)')
    <3> DEFINE copy == cache[c]
    <3>1. CopyOf(copy, chunks[c], reclaimed, Content(c))
      BY <1>0 DEF CacheInv
    <3> HIDE DEF copy
    <3>2. {x \in copy.content : x[1] \notin reclaimed'}
              = {x \in {y \in copy.content : y[1] \notin reclaimed} : x[1] \notin gone}
      BY <1>1
    <3>3. {x \in copy.content : x[1] \notin reclaimed} = Content(c)
              => {x \in copy.content : x[1] \notin reclaimed'} = Content(c)'
      BY <2>1, <3>2
    <3>4. CopyOf(copy, chunks[c], reclaimed', Content(c)')
      BY <3>1, <3>3 DEF CopyOf
    <3> QED BY <1>1, <3>4 DEF copy
  <2>3. DOMAIN cache' = Chunks
    BY <1>0, <1>1 DEF CacheInv
  <2> QED BY <2>2, <2>3 DEF CacheInv
<1> QED BY <1>5, <1>6, <1>7 DEF StructInv

\* Where the manifest lists nothing, nothing stands.
LEMMA NothingListed ==
    ASSUME ManifestInv, NEW c \in Chunks, chunks[c].structure_ids = {}
    PROVE  Content(c) = {}
<1>1. {s \in DOMAIN structures : structures[s].chunk = c} = {}
  BY DEF ManifestInv, ManifestExact
<1> QED BY <1>1 DEF Content

\* A client downloads a chunk again (chunk_manifest.rs).
LEMMA Downloaded ==
    ASSUME StructInv, NEW c \in Chunks, refresh_cache(c)
    PROVE  StructInv'
<1>0. BuiltInv /\ ManifestInv /\ CacheInv
  BY DEF StructInv
<1>1. UNCHANGED <<structures, next_structure_id, next_piece_id, chunks, reclaimed>>
  BY DEF refresh_cache
<1>2. BuiltInv' /\ ManifestInv'
  BY <1>0, <1>1 DEF BuiltInv, ManifestInv, ManifestExact
<1>3. \A d \in Chunks : Content(d)' = Content(d)
  BY <1>1 DEF Content
<1>4. CASE cache' = cache
  BY <1>0, <1>1, <1>2, <1>3, <1>4 DEF StructInv, CacheInv
<1>5. CASE cache' # cache
  <2> DEFINE ch == chunks[c]  copy == [hash |-> manifest_hash(ch), content |-> Content(c)]
  <2>1. cache' = [cache EXCEPT ![c] = copy]
    BY <1>5 DEF refresh_cache
  <2>2. ch \in Manifest
    BY <1>0 DEF ManifestInv
  <2>3. CopyOf(copy, ch, reclaimed, Content(c))
    <3>1. CASE ch.structure_ids = {}
      <4>1. Content(c) = {}
        BY <1>0, <3>1, NothingListed
      <4> QED BY <3>1, <4>1 DEF CopyOf, manifest_hash
    <3>2. CASE ch.structure_ids # {}
      <4>1. \A x \in Content(c) : x[1] \notin reclaimed
        <5> SUFFICES ASSUME NEW x \in Content(c) PROVE x[1] \notin reclaimed
          OBVIOUS
        <5>1. PICK s \in DOMAIN structures : x = <<s, DOMAIN structures[s].pieces>>
          BY Streamed
        <5>2. s \notin reclaimed
          BY <1>0 DEF ManifestInv
        <5> QED BY <5>1, <5>2
      <4> DEFINE r == ch.revision  ids == ch.structure_ids
      <4>2. r \in Nat /\ ids \in SUBSET Nat /\ ids # {} /\ copy.hash = <<r, ids>>
            /\ copy.content = Content(c) /\ r <= ch.revision
        BY <2>2, <3>2 DEF manifest_hash, Manifest
      <4>3. {x \in copy.content : x[1] \notin reclaimed} = Content(c)
        BY <4>1, <4>2
      <4> HIDE DEF r, ids, copy
      <4> QED BY <4>2, <4>3 DEF CopyOf
    <3> QED BY <3>1, <3>2
  <2> HIDE DEF copy, ch
  <2>4. ASSUME NEW d \in Chunks PROVE CopyOf(cache'[d], chunks'[d], reclaimed', Content(d)')
    <3>1. cache'[d] = IF d = c THEN copy ELSE cache[d]
      BY <1>0, <2>1 DEF CacheInv
    <3>2. chunks'[d] = chunks[d] /\ reclaimed' = reclaimed /\ Content(d)' = Content(d)
      BY <1>1, <1>3
    <3>3. CopyOf(cache[d], chunks[d], reclaimed, Content(d))
      BY <1>0 DEF CacheInv
    <3> QED BY <2>3, <3>1, <3>2, <3>3 DEF ch
  <2>5. DOMAIN cache' = Chunks
    BY <1>0, <2>1 DEF CacheInv
  <2> QED BY <1>2, <2>4, <2>5 DEF StructInv, CacheInv
<1> QED BY <1>4, <1>5

\* Players build, tear down and download; structures decay (building.rs,
\* chunk_manifest.rs).
LEMMA StructStep ==
    ASSUME StructInv, [StructNext]_structVars
    PROVE  StructInv'
<1>0. BuiltInv /\ ManifestInv /\ CacheInv
  BY DEF StructInv
<1>1. ASSUME NEW s \in DOMAIN structures
      PROVE  /\ structures[s] \in Structure /\ structures[s].pieces \in PieceMaps
             /\ GoodPieces(structures[s].pieces, next_piece_id)
  BY <1>0 DEF BuiltInv, Structure
<1>2. next_piece_id \in Nat /\ next_piece_id >= 1 /\ next_piece_id <= MaxPieces + 1
      /\ MaxPieces \in Nat
  BY <1>0, StructConstants DEF BuiltInv
<1>3. ASSUME NEW s \in DOMAIN structures, NEW q \in DOMAIN structures[s].pieces,
             NEW t \in PieceTypes, NEW m \in Materials, snap_piece(s, q, t, m)
      PROVE  StructInv'
  <2> DEFINE old == structures[s].pieces
             n == next_piece_id
             st == calculate_stability(t = "Foundation", old[q].stability, m)
             new == [parent |-> q, piece_type |-> t, material |-> m, stability |-> st]
             ps == With(old, n, new)
  <2>1. /\ n <= MaxPieces /\ st # 0 /\ next_piece_id' = n + 1
        /\ structures' = [structures EXCEPT ![s] = [structures[s] EXCEPT !.pieces = ps]]
        /\ chunks' = [chunks EXCEPT ![structures[s].chunk] =
                          mark_chunk_modified(chunks[structures[s].chunk])]
        /\ UNCHANGED <<next_structure_id, cache, reclaimed>>
    BY <1>3 DEF snap_piece
  <2>2. /\ old \in PieceMaps /\ GoodPieces(old, n) /\ q \in DOMAIN old
        /\ DOMAIN old \subseteq 1..(n - 1) /\ old[q] \in Piece
    BY <1>1 DEF GoodPieces
  <2>3. /\ st \in 1..MAX_STABILITY
        /\ st = IF t = "Foundation" THEN MAX_STABILITY ELSE old[q].stability - stability_decay(m)
    <3> DEFINE g == (t = "Foundation")  up == old[q].stability
    <3>1. g \in BOOLEAN /\ up \in Nat /\ up <= MAX_STABILITY /\ MAX_STABILITY \in Nat
      BY <2>2, StructConstants DEF Piece
    <3> HIDE DEF g, up
    <3>2. /\ st \in 0..MAX_STABILITY
          /\ st # 0 => st = IF g THEN MAX_STABILITY ELSE up - stability_decay(m)
      BY <3>1, Calculated DEF g, up
    <3> HIDE DEF st
    <3>3. st \in 1..MAX_STABILITY
      BY <2>1, <3>1, <3>2
    <3> QED BY <2>1, <3>2, <3>3 DEF g, up
  <2> HIDE DEF st
  <2>4. q \in Nat /\ q >= 1 /\ q < n /\ n \notin DOMAIN old /\ n \in Nat
    <3>1. q \in 1..(n - 1) /\ n \in Nat
      BY <1>2, <2>2
    <3>2. ~ (n \in 1..(n - 1))
      BY <3>1
    <3> HIDE DEF n, old
    <3> QED BY <2>2, <3>1, <3>2
  <2>5. new \in Piece /\ new.parent = q /\ new.stability = st /\ new.piece_type = t
        /\ new.material = m
    <3> HIDE DEF n
    <3> QED BY <2>3, <2>4 DEF Piece
  <2>6. DOMAIN ps = DOMAIN old \union {n} /\ ps[n] = new /\ \A p \in DOMAIN old : ps[p] = old[p]
    BY <2>4 DEF With
  <2>7. ps \in PieceMaps
    <3>1. PICK S \in SUBSET Nat : old \in [S -> Piece]
      BY <2>2 DEF PieceMaps
    <3> HIDE DEF new, old, n
    <3>2. DOMAIN old = S /\ S \union {n} \in SUBSET Nat
      BY <2>4, <3>1
    <3>3. ps \in [S \union {n} -> Piece]
      BY <2>5, <3>1, <3>2 DEF With
    <3> HIDE DEF ps
    <3> QED BY <3>2, <3>3 DEF PieceMaps
  <2> HIDE DEF new, ps, old
  <2>8. GoodPieces(ps, n + 1)
    <3>2. ASSUME NEW p \in DOMAIN ps
          PROVE  /\ ps[p] \in Piece /\ ps[p].parent < p
                 /\ \/ ps[p].parent = 0 /\ ps[p].stability = MAX_STABILITY
                    \/ /\ ps[p].parent \in DOMAIN ps
                       /\ ps[p].stability =
                              IF ps[p].piece_type = "Foundation" THEN MAX_STABILITY
                              ELSE ps[ps[p].parent].stability - stability_decay(ps[p].material)
      <4>1. CASE p = n
        BY <2>2, <2>3, <2>4, <2>5, <2>6, <4>1
      <4>2. CASE p # n
        BY <2>2, <2>6, <3>2, <4>2 DEF GoodPieces
      <4> QED BY <4>1, <4>2
    <3> DEFINE k == n + 1
    <3>3. DOMAIN ps \subseteq 1..(k - 1)
      <4>1. 1..(n - 1) \subseteq 1..(k - 1) /\ n \in 1..(k - 1)
        <5> HIDE DEF n
        <5> QED BY <2>4
      <4> HIDE DEF k, n
      <4> QED BY <2>2, <2>6, <4>1
    <3> HIDE DEF k
    <3>4. GoodPieces(ps, k)
      BY <3>2, <3>3, Zenon DEF GoodPieces
    <3> QED BY <3>4 DEF k
  <2>9. n + 1 \in 1..(MaxPieces + 1) /\ n <= n + 1
    <3> HIDE DEF n
    <3> QED BY <1>2, <2>1, <2>4
  <2> QED BY <2>1, <2>7, <2>8, <2>9, PiecesChanged
<1>4. ASSUME NEW s \in DOMAIN structures, NEW q \in DOMAIN structures[s].pieces,
             destroy_piece(s, q)
      PROVE  StructInv'
  <2> DEFINE old == structures[s].pieces
             n == next_piece_id
             rest == Without(old, {q})
             ps == Without(rest, DOMAIN rest \ Standing(rest))
  <2>1. /\ next_piece_id' = n
        /\ structures' = [structures EXCEPT ![s] = [structures[s] EXCEPT !.pieces = ps]]
        /\ chunks' = [chunks EXCEPT ![structures[s].chunk] =
                          mark_chunk_modified(chunks[structures[s].chunk])]
        /\ UNCHANGED <<next_structure_id, cache, reclaimed>>
    BY <1>4 DEF destroy_piece
  <2>2. GoodPieces(old, n) /\ n \in Nat /\ n \in 1..(MaxPieces + 1) /\ n <= n
    BY <1>1, <1>2
  <2>3. GoodPieces(ps, n)
    <3> HIDE DEF old, n
    <3> QED BY <2>2, Collapsed
  <2>4. ps \in PieceMaps
    <3> HIDE DEF ps, n
    <3>1. \A p \in DOMAIN ps : p \in Nat /\ ps[p] \in Piece
      BY <2>2, <2>3 DEF GoodPieces
    <3>2. ps = [p \in DOMAIN ps |-> ps[p]]
      BY DEF ps, Without
    <3>3. ps \in [DOMAIN ps -> Piece] /\ DOMAIN ps \in SUBSET Nat
      BY <3>1, <3>2
    <3> QED BY <3>3 DEF PieceMaps
  <2> HIDE DEF ps, rest, old
  <2> QED BY <2>1, <2>2, <2>3, <2>4, PiecesChanged
<1>5. CASE UNCHANGED structVars
  BY <1>0, <1>5 DEF structVars, StructInv, BuiltInv, ManifestInv, ManifestExact, CacheInv, Content
<1> QED BY <1>3, <1>4, <1>5, Placed, TornDown, Maintained, Downloaded DEF StructNext

\* The properties of structures follow from the invariant.
LEMMA StructSuffices ==
    ASSUME StructInv
    PROVE  StructuresSound
<1>0. BuiltInv /\ ManifestInv /\ CacheInv
  BY DEF StructInv
<1>1. StructTypeOK
  <2>1. 1..(next_structure_id - 1) \subseteq 1..MaxStructures
        /\ 1..(next_piece_id - 1) \subseteq 1..MaxPieces
    BY <1>0, StructConstants DEF BuiltInv
  <2>2. ASSUME NEW s \in DOMAIN structures
        PROVE  /\ structures[s].chunk \in Chunks /\ structures[s].health \in 1..max_health
               /\ DOMAIN structures[s].pieces \subseteq 1..MaxPieces
               /\ \A p \in DOMAIN structures[s].pieces :
                      structures[s].pieces[p].stability \in 1..MAX_STABILITY
    BY <1>0, <2>1 DEF BuiltInv, Structure, GoodPieces, Piece
  <2> QED BY <1>0, <2>1, <2>2 DEF StructTypeOK, BuiltInv, ManifestInv
<1>2. PiecesSupported
  BY <1>0 DEF PiecesSupported, BuiltInv, GoodPieces
<1>3. ManifestExact
  BY <1>0 DEF ManifestInv
<1>4. CacheCoherent
  <2> SUFFICES ASSUME NEW c \in Chunks, cache[c].hash = manifest_hash(chunks[c])
               PROVE  {x \in cache[c].content : x[1] \notin reclaimed} = Content(c)
    BY DEF CacheCoherent
  <2> DEFINE copy == cache[c]  ch == chunks[c]
  <2>1. CopyOf(copy, ch, reclaimed, Content(c)) /\ ch \in Manifest
    BY <1>0 DEF CacheInv, ManifestInv
  <2>2. copy.hash = manifest_hash(ch)
    OBVIOUS
  <2> HIDE DEF copy
  <2>3. CASE ch.structure_ids = {}
    <3>1. Content(c) = {} /\ manifest_hash(ch) = EmptyHash
      BY <1>0, <2>3, NothingListed DEF manifest_hash
    <3>2. copy.content = {}
      <4>1. copy.hash = <<0, {}>>
        BY <2>2, <3>1 DEF EmptyHash
      <4>2. ~ \E r \in Nat, ids \in SUBSET Nat : copy.hash = <<r, ids>> /\ ids # {}
        <5> SUFFICES ASSUME NEW r \in Nat, NEW ids \in SUBSET Nat,
                            copy.hash = <<r, ids>>, ids # {}
                     PROVE  FALSE
          OBVIOUS
        <5>1. (copy.hash)[2] = {}
          BY <4>1
        <5>2. (copy.hash)[2] = ids
          OBVIOUS
        <5> QED BY <5>1, <5>2
      <4> QED BY <2>1, <4>2 DEF CopyOf
    <3> QED BY <3>1, <3>2 DEF copy
  <2>4. CASE ch.structure_ids # {}
    <3>1. manifest_hash(ch) = <<ch.revision, ch.structure_ids>>
      BY <2>4 DEF manifest_hash
    <3>2. copy.hash # EmptyHash
      BY <2>2, <2>4, <3>1 DEF EmptyHash
    <3>3. PICK r \in Nat, ids \in SUBSET Nat :
              /\ copy.hash = <<r, ids>>
              /\ r = ch.revision => {x \in copy.content : x[1] \notin reclaimed} = Content(c)
      BY <2>1, <3>2 DEF CopyOf
    <3>4. r = ch.revision
      BY <2>2, <3>1, <3>3
    <3> QED BY <3>3, <3>4 DEF copy
  <2> QED BY <2>3, <2>4
<1> QED BY <1>1, <1>2, <1>3, <1>4 DEF StructuresSound

-------------------------------------------------------------------------------
\* What is built stays whole: rooms and the locations of their occupants agree,
\* pieces stand on what still stands, manifests list the structures and a
\* matching cache holds them (interior.rs, building.rs, chunk_manifest.rs).
THEOREM BuildingsKept == WorldSpec => []BuildingsSound
<1> DEFINE Inv == (place = "interior" => InteriorInv) /\ (place = "structures" => StructInv)
<1>1. WorldInit => Inv
  BY InteriorStart, StructStart DEF WorldInit
<1>2. Inv /\ [WorldNext]_worldVars => Inv'
  <2> SUFFICES ASSUME Inv, [WorldNext]_worldVars PROVE Inv'
    OBVIOUS
  <2>1. place' = place /\ [InteriorNext]_interiorVars /\ [StructNext]_structVars
    BY DEF WorldNext, worldVars
  <2>2. place = "interior" => InteriorInv'
    BY <2>1, InteriorStep
  <2>3. place = "structures" => StructInv'
    BY <2>1, StructStep
  <2> QED BY <2>1, <2>2, <2>3
<1>3. Inv => BuildingsSound
  BY InteriorSuffices, StructSuffices DEF BuildingsSound
<1> QED BY <1>1, <1>2, <1>3, PTL DEF WorldSpec

\* An entity is in one place: in one zone, on its side of the seam, which is
\* rebuilt exactly when its worker dies, and in at most one process while it
\* migrates (zone.rs, reconstruction.rs, multi_process.rs), in a world whose
\* entities do not cross half of a seam in one tick.
THEOREM OnePlaceKept == ASSUME NoLeap PROVE WorldSpec => []OnePlace
<1> DEFINE Inv == (place = "zones" => ZonesInv) /\ (place = "cluster" => ClusterInv)
<1>1. WorldInit => Inv
  BY ZonesStart, ClusterStart DEF WorldInit
<1>2. Inv /\ [WorldNext]_worldVars => Inv'
  <2> SUFFICES ASSUME Inv, [WorldNext]_worldVars PROVE Inv'
    OBVIOUS
  <2>1. place' = place /\ [ZonesNext]_zoneVars /\ [ClusterNext]_clusterVars
    BY DEF WorldNext, worldVars
  <2>2. place = "zones" => ZonesInv'
    BY <2>1, ZonesStep
  <2>3. place = "cluster" => ClusterInv'
    BY <2>1, ClusterStep
  <2> QED BY <2>1, <2>2, <2>3
<1>3. Inv => OnePlace
  BY ZonesSuffices, InvariantKeepsCopies DEF OnePlace
<1> QED BY <1>1, <1>2, <1>3, PTL DEF WorldSpec

(* ------------------------------ the continent ----------------------------- *)

\* The books of the continent are kept: a shard's counters are the sum of its
\* sectors, a rebalanced map is balanced, a seam token is used once and in time
\* and an entity has one at most for a seam, a shard holds no notice that no peer
\* sent, zones cut off for longer than the timeout let nobody over, and an entity
\* is in one zone or one box of the cluster or counted as lost
\* (adaptive_shard.rs, predictive_migration.rs, continental.rs, partition.rs,
\* cluster.rs).  A sector quiet enough to be merged is not crowded enough to be
\* moved out again, as with the thresholds 10 and 500 of the code.
THEOREM ContinentKept ==
    ASSUME Wilderness < Hotspot
    PROVE  WorldSpec => []ContinentSound
<1> DEFINE Inv == SeamInv /\ BoundaryInv /\ HarnessInv
<1>1. WorldInit => Inv
  BY SeamStart, BoundaryStart, HarnessStart DEF WorldInit, ContinentInit
<1>2. Inv /\ [WorldNext]_worldVars => Inv'
  <2> SUFFICES ASSUME Inv, [WorldNext]_worldVars PROVE Inv'
    OBVIOUS
  <2>1. [SeamNext]_seamVars /\ [BoundaryNext]_boundaryVars /\ [HarnessNext]_harnessVars
    BY DEF WorldNext, worldVars, ContinentNext, continentVars
  <2> QED BY <2>1, SeamStep, BoundaryStep, HarnessStep
<1>3. Inv => ContinentSound
  BY SeamSuffices, BoundarySuffices, HarnessSuffices DEF ContinentSound
<1> QED BY <1>1, <1>2, <1>3, PTL DEF WorldSpec
===============================================================================
