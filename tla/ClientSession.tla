---------------------------- MODULE ClientSession ----------------------------
(* The native client's connection and world view against the server          *)
(* application, over UDP (eidolon-client/src/client.rs, world_view.rs;       *)
(* eidolon-server/src/facade.rs).                                            *)
(*                                                                           *)
(* The handshake is challenge request, challenge response, finalize request, *)
(* finalize response; the client tells its packets apart by the state it is  *)
(* in and by their length only.  Every client has an account, an entity and  *)
(* a socket of its own.  A state update carries the tick it was made at and  *)
(* the entities it describes, 22 bytes each.                                 *)
EXTENDS Integers, Sequences, FiniteSets, SequencesExt, TLAPS

CONSTANTS
    Clients,
    Attempts,       \* bound: connect calls of all clients together
    MaxTick,        \* bound: the server's tick, as far as it is told apart
    MaxNet,         \* bound: datagrams on the way in one direction
    Networks        \* the networks considered, each a set of its faults

ASSUME SessionAssumption ==
    /\ Attempts \in Nat /\ MaxTick \in Nat /\ MaxNet \in Nat \ {0}
    /\ Networks \subseteq SUBSET {"loses", "reorders", "duplicates"}

VARIABLES
    network,        \* the faults of the network the clients are on
    state,          \* [client -> ConnectionState]
    session,        \* [client -> the session id it was told]
    view,           \* [client -> [entity -> tick of the update shown, or Unseen]]
    attempts,       \* connect calls made
    afresh,         \* history: clients whose latest connect began with nothing of theirs left
    toServer,       \* [client -> datagrams on the way to the server]
    toClient,       \* [client -> datagrams on the way to the client]
    entities,       \* the server's player entities
    tick,           \* the server's tick
    left            \* history: clients whose Disconnect the server has read

clientVars == <<state, session, view, attempts, afresh>>
sessionVars == <<network, clientVars, toServer, toClient, entities, tick, left>>

Unseen == -1
NoSession == "none"
Assigned == "assigned"      \* the session id the server computed for the account
Garbled == "garbled"        \* eight bytes of some other packet

CHALLENGE_RESP_LEN == 48
FINALIZE_RESP_LEN == 44
RecordSize == 22

Msg(type, n, seen) == [type |-> type, tick |-> n, seen |-> seen]

(* Payload length of a datagram to the client. *)
Length(m) ==
    CASE m.type = "ChallengeResponse" -> CHALLENGE_RESP_LEN
      [] m.type = "FinalizeResponse"  -> FINALIZE_RESP_LEN
      [] OTHER                        -> RecordSize * Cardinality(m.seen)

-----------------------------------------------------------------------------
(* The network: a full path drops what is sent if it may drop at all. *)
Lossy == "loses" \in network
Room(path) == Lossy \/ Len(path) < MaxNet
Put(path, m) == IF Len(path) < MaxNet THEN Append(path, m) ELSE path
Deliverable(path) == IF "reorders" \in network THEN 1..Len(path) ELSE 1..(IF path = <<>> THEN 0 ELSE 1)
Rest(path, i) == {RemoveAt(path, i)} \cup (IF "duplicates" \in network THEN {path} ELSE {})

Lose(c) ==
    /\ Lossy
    /\ \/ \E i \in 1..Len(toServer[c]) :
              toServer' = [toServer EXCEPT ![c] = RemoveAt(@, i)] /\ UNCHANGED toClient
       \/ \E i \in 1..Len(toClient[c]) :
              toClient' = [toClient EXCEPT ![c] = RemoveAt(@, i)] /\ UNCHANGED toServer
    /\ UNCHANGED <<network, clientVars, entities, tick, left>>

-----------------------------------------------------------------------------
(* The client *)

(* No datagram of the client is on the way and no entity of it is played. *)
NothingLeft(c) == toServer[c] = <<>> /\ toClient[c] = <<>> /\ c \notin entities

(* connect, in whatever state the client is. *)
connect(c) ==
    /\ attempts < Attempts
    /\ Room(toServer[c])
    /\ attempts' = attempts + 1
    /\ afresh' = IF NothingLeft(c) THEN afresh \cup {c} ELSE afresh \ {c}
    /\ state' = [state EXCEPT ![c] = "ConnectingChallenge"]
    /\ toServer' = [toServer EXCEPT ![c] = Put(@, Msg("ChallengeRequest", 0, {}))]
    /\ UNCHANGED <<network, session, view, toClient, entities, tick, left>>

(* Mutated form: only the first half of the handshake times out. *)
HandshakeTimeout_challenge_only(c) ==
    /\ state[c] = "ConnectingChallenge"
    /\ state' = [state EXCEPT ![c] = "Disconnected"]
    /\ UNCHANGED <<network, session, view, attempts, afresh, toServer, toClient, entities, tick, left>>

(* poll_events finds that the configured timeout has passed. *)
HandshakeTimeout(c) ==
    /\ state[c] \in {"ConnectingChallenge", "ConnectingFinalize"}
    /\ state' = [state EXCEPT ![c] = "Disconnected"]
    /\ UNCHANGED <<network, session, view, attempts, afresh, toServer, toClient, entities, tick, left>>

(* process_state_update_payload: every record is applied, known or new, and *)
(* nothing is ever taken out.                                               *)
Applied(v, m) == [e \in Clients |-> IF e \in m.seen THEN m.tick ELSE v[e]]

(* ConnectingChallenge: anything long enough is a challenge response, and is *)
(* answered with the finalize request.                                       *)
ReadChallenge(c, m) ==
    /\ state[c] = "ConnectingChallenge"
    /\ IF Length(m) >= CHALLENGE_RESP_LEN
       THEN /\ state' = [state EXCEPT ![c] = "ConnectingFinalize"]
            /\ toServer' = [toServer EXCEPT ![c] = Put(@, Msg("FinalizeRequest", 0, {}))]
       ELSE UNCHANGED <<state, toServer>>
    /\ UNCHANGED <<session, view>>

(* ConnectingFinalize: anything long enough is a finalize response. *)
ReadFinalize(c, m) ==
    /\ state[c] = "ConnectingFinalize"
    /\ IF Length(m) >= FINALIZE_RESP_LEN
       THEN /\ state' = [state EXCEPT ![c] = "Connected"]
            /\ session' = [session EXCEPT ![c] =
                   IF m.type = "FinalizeResponse" THEN Assigned ELSE Garbled]
       ELSE UNCHANGED <<state, session>>
    /\ UNCHANGED <<view, toServer>>

(* Connected: state updates are applied, reliable messages raise events; the *)
(* server never sends the Disconnect the client would also obey.             *)
ReadConnected(c, m) ==
    /\ state[c] = "Connected"
    /\ view' = IF m.type = "StateUpdate" THEN [view EXCEPT ![c] = Applied(@, m)] ELSE view
    /\ UNCHANGED <<state, session, toServer>>

(* Disconnected: datagrams are read and dropped. *)
ReadDisconnected(c, m) ==
    /\ state[c] = "Disconnected"
    /\ UNCHANGED <<state, session, view, toServer>>

(* One datagram of poll_events' loop. *)
poll_events(c) ==
    /\ \E i \in Deliverable(toClient[c]) :
           /\ \/ ReadChallenge(c, toClient[c][i])
              \/ ReadFinalize(c, toClient[c][i])
              \/ ReadConnected(c, toClient[c][i])
              \/ ReadDisconnected(c, toClient[c][i])
           /\ \E rest \in Rest(toClient[c], i) : toClient' = [toClient EXCEPT ![c] = rest]
    /\ UNCHANGED <<network, attempts, afresh, entities, tick, left>>

(* disconnect, and dropping the client. *)
disconnect(c) ==
    /\ state[c] = "Connected" => Room(toServer[c])
    /\ toServer' = IF state[c] = "Connected"
                   THEN [toServer EXCEPT ![c] = Put(@, Msg("Disconnect", 0, {}))] ELSE toServer
    /\ state' = [state EXCEPT ![c] = "Disconnected"]
    /\ view' = [view EXCEPT ![c] = [e \in Clients |-> Unseen]]
    /\ UNCHANGED <<network, session, attempts, afresh, toClient, entities, tick, left>>

-----------------------------------------------------------------------------
(* The server *)

(* Mutated form: the player is spawned by the challenge request. *)
Spawns_early(m) == m.type = "ChallengeRequest"

(* The finalize request spawns the player unless it is there already. *)
Spawns(m) == m.type = "FinalizeRequest"

Reply(m) ==
    CASE m.type = "ChallengeRequest" -> <<Msg("ChallengeResponse", 0, {})>>
      [] m.type = "FinalizeRequest"  -> <<Msg("FinalizeResponse", 0, {})>>
      [] OTHER                       -> <<>>

(* drain_network_packets, for one datagram; a Disconnect falls through to *)
(* the arm that does nothing.                                             *)
drain_network_packets(c) ==
    \E i \in Deliverable(toServer[c]) :
        LET m == toServer[c][i]
        IN  /\ Reply(m) # <<>> => Room(toClient[c])
            /\ toClient' = [toClient EXCEPT ![c] =
                   IF Reply(m) = <<>> THEN @ ELSE Put(@, Reply(m)[1])]
            /\ \E rest \in Rest(toServer[c], i) : toServer' = [toServer EXCEPT ![c] = rest]
            /\ entities' = IF Spawns(m) THEN entities \cup {c} ELSE entities
            /\ left' = CASE m.type = "Disconnect" -> left \cup {c}
                         [] Spawns(m)             -> left \ {c}
                         [] OTHER                 -> left
            /\ UNCHANGED <<network, clientVars, tick>>

(* Mutated form: the tick field of an update is too narrow and starts again. *)
broadcast_aoi_updates_narrow ==
    /\ \A c \in entities : Room(toClient[c])
    /\ tick' = (tick + 1) % (MaxTick + 1)
    /\ toClient' = [c \in Clients |->
           IF c \in entities THEN Put(toClient[c], Msg("StateUpdate", tick', entities))
           ELSE toClient[c]]
    /\ UNCHANGED <<network, clientVars, toServer, entities, left>>

(* broadcast_aoi_updates, at the end of a tick: everybody is in range. *)
broadcast_aoi_updates ==
    /\ \A c \in entities : Room(toClient[c])
    /\ tick' = IF tick < MaxTick THEN tick + 1 ELSE tick
    /\ toClient' = [c \in Clients |->
           IF c \in entities THEN Put(toClient[c], Msg("StateUpdate", tick', entities))
           ELSE toClient[c]]
    /\ UNCHANGED <<network, clientVars, toServer, entities, left>>

(* despawn_entity, by an administrator's kick. *)
despawn_entity(c) ==
    /\ c \in entities
    /\ entities' = entities \ {c}
    /\ UNCHANGED <<network, clientVars, toServer, toClient, tick, left>>

SessionInit ==
    /\ network \in Networks
    /\ state = [c \in Clients |-> "Disconnected"]
    /\ session = [c \in Clients |-> NoSession]
    /\ view = [c \in Clients |-> [e \in Clients |-> Unseen]]
    /\ attempts = 0
    /\ afresh = {}
    /\ toServer = [c \in Clients |-> <<>>]
    /\ toClient = [c \in Clients |-> <<>>]
    /\ entities = {}
    /\ tick = 0
    /\ left = {}

SessionNext ==
    \/ \E c \in Clients :
           \/ connect(c) \/ HandshakeTimeout(c) \/ poll_events(c) \/ disconnect(c)
           \/ drain_network_packets(c) \/ despawn_entity(c) \/ Lose(c)
    \/ broadcast_aoi_updates

SessionSpec == SessionInit /\ [][SessionNext]_sessionVars

(* The client polls every frame and the server drains its socket every tick; *)
(* a lossy network does not lose everything.                                 *)
SessionLiveSpec ==
    /\ SessionSpec
    /\ \A c \in Clients : /\ WF_sessionVars(HandshakeTimeout(c))
                          /\ WF_sessionVars(poll_events(c))
                          /\ WF_sessionVars(drain_network_packets(c))
    /\ WF_sessionVars(broadcast_aoi_updates)

-----------------------------------------------------------------------------
(* Over a network that loses and overtakes nothing, a connected client has   *)
(* the session id the server assigned to it, although packets are told apart *)
(* by the client's state and their length only (client.rs:200-290), if its   *)
(* last connect found nothing of an earlier attempt: no datagram on the way  *)
(* and no entity, which updates would be sent to.  A client that connects    *)
(* again sooner can take a late answer or an update for the one it waits for.*)
SessionAgreed ==
    network = {} => \A c \in Clients :
        c \in afresh /\ state[c] = "Connected" => session[c] = Assigned

(* A connected client's view of an entity never goes back to an older tick, *)
(* whatever is lost, on a network that keeps the order of datagrams         *)
(* (world_view.rs).                                                         *)
ViewNeverGoesBack ==
    [][network \subseteq {"loses"} => \A c, e \in Clients : state[c] = "Connected" /\ state'[c] = "Connected"
          => view'[c][e] >= view[c][e]]_sessionVars

(* Once the server has read a client's Disconnect, its entity is gone until *)
(* the client finalizes another handshake.                                  *)
OrderlyTermination == left \cap entities = {}

(* A handshake ends: connected, given up or timed out, whatever was lost. *)
HandshakeEnds ==
    \A c \in Clients : state[c] \in {"ConnectingChallenge", "ConnectingFinalize"}
        ~> state[c] \in {"Connected", "Disconnected"}

(* An entity that is despawned disappears from the view of every client that *)
(* stays connected and in the world.                                         *)
DespawnReachesView ==
    \A c, e \in Clients :
        c # e /\ e \notin entities /\ view[c][e] # Unseen
            ~> \/ view[c][e] = Unseen \/ e \in entities
               \/ state[c] # "Connected" \/ c \notin entities

-----------------------------------------------------------------------------
PacketTypes == {"ChallengeRequest", "ChallengeResponse", "FinalizeRequest",
                "FinalizeResponse", "StateUpdate", "Disconnect"}
Datagrams == [type : PacketTypes, tick : 0..MaxTick, seen : SUBSET Clients]
States == {"Disconnected", "ConnectingChallenge", "ConnectingFinalize", "Connected"}

SessionTypeInv ==
    /\ network \in SUBSET {"loses", "reorders", "duplicates"}
    /\ state \in [Clients -> States]
    /\ session \in [Clients -> {NoSession, Assigned, Garbled}]
    /\ view \in [Clients -> [Clients -> {Unseen} \cup 0..MaxTick]]
    /\ attempts \in Nat
    /\ toServer \in [Clients -> Seq(Datagrams)]
    /\ toClient \in [Clients -> Seq(Datagrams)]
    /\ entities \subseteq Clients
    /\ tick \in 0..MaxTick

(* Over a perfect network one datagram of a handshake begun afresh is on the *)
(* way at a time, and no state update comes before the last one: the entity  *)
(* that updates are sent to appears with the finalize response.              *)
Challenging(c) ==
    state[c] = "ConnectingChallenge" =>
        /\ c \notin entities
        /\ \/ toServer[c] = <<Msg("ChallengeRequest", 0, {})>> /\ toClient[c] = <<>>
           \/ toServer[c] = <<>> /\ toClient[c] = <<Msg("ChallengeResponse", 0, {})>>
Finalizing(c) ==
    state[c] = "ConnectingFinalize" =>
        \/ /\ toServer[c] = <<Msg("FinalizeRequest", 0, {})>> /\ toClient[c] = <<>>
           /\ c \notin entities
        \/ /\ toServer[c] = <<>> /\ toClient[c] # <<>>
           /\ toClient[c][1] = Msg("FinalizeResponse", 0, {})
Agreed(c) == state[c] = "Connected" => session[c] = Assigned

Handshake(c) == c \in afresh => Challenging(c) /\ Finalizing(c) /\ Agreed(c)
HandshakeInv == network = {} => \A c \in Clients : Handshake(c)

(* On a network that keeps the order, the updates on the way to a client are *)
(* in the order of their ticks, behind everything its view shows.            *)
Updates(c) == {i \in 1..Len(toClient[c]) : toClient[c][i].type = "StateUpdate"}

InOrder(c) ==
    /\ \A i, j \in Updates(c) : i < j => toClient[c][i].tick <= toClient[c][j].tick
    /\ \A i \in Updates(c) : toClient[c][i].tick <= tick
    /\ \A e \in Clients :
           view[c][e] <= tick /\ \A i \in Updates(c) : view[c][e] <= toClient[c][i].tick

ViewInv == network \subseteq {"loses"} => \A c \in Clients : InOrder(c)

(* What is left of a path when one of its datagrams is taken out. *)
LEMMA TakenOut ==
    ASSUME NEW S, NEW path \in Seq(S), NEW i \in 1..Len(path)
    PROVE  /\ RemoveAt(path, i) \in Seq(S)
           /\ Len(RemoveAt(path, i)) = Len(path) - 1
           /\ \A k \in 1..(Len(path) - 1) :
                  RemoveAt(path, i)[k] = IF k < i THEN path[k] ELSE path[k + 1]
  <1>1. /\ SubSeq(path, 1, i - 1) \in Seq(S) /\ Len(SubSeq(path, 1, i - 1)) = i - 1
        /\ \A k \in 1..(i - 1) : SubSeq(path, 1, i - 1)[k] = path[k]
    OBVIOUS
  <1>2. /\ SubSeq(path, i + 1, Len(path)) \in Seq(S)
        /\ Len(SubSeq(path, i + 1, Len(path))) = Len(path) - i
        /\ \A k \in 1..(Len(path) - i) : SubSeq(path, i + 1, Len(path))[k] = path[k + i]
    OBVIOUS
  <1> DEFINE before == SubSeq(path, 1, i - 1)
             after == SubSeq(path, i + 1, Len(path))
  <1>3. RemoveAt(path, i) = before \o after
    BY DEF RemoveAt
  <1> HIDE DEF before, after
  <1>4. /\ before \in Seq(S) /\ Len(before) = i - 1
        /\ \A k \in 1..(i - 1) : before[k] = path[k]
    BY <1>1 DEF before
  <1>5. /\ after \in Seq(S) /\ Len(after) = Len(path) - i
        /\ \A k \in 1..(Len(path) - i) : after[k] = path[k + i]
    BY <1>2 DEF after
  <1>6. /\ before \o after \in Seq(S)
        /\ Len(before \o after) = Len(path) - 1
    BY <1>4, <1>5
  <1>7. ASSUME NEW k \in 1..(Len(path) - 1)
        PROVE  (before \o after)[k] = IF k < i THEN path[k] ELSE path[k + 1]
    <2>1. CASE k < i
      BY <2>1, <1>4, <1>5
    <2>2. CASE ~(k < i)
      <3>1. k - (i - 1) \in 1..(Len(path) - i) /\ (k - (i - 1)) + i = k + 1
        BY <2>2
      <3>2. (before \o after)[k] = after[k - (i - 1)]
        BY <2>2, <1>4, <1>5
      <3> QED
        BY <3>1, <3>2, <1>5, <2>2
    <2> QED
      BY <2>1, <2>2
  <1> QED
    BY <1>3, <1>6, <1>7

(* What a path holds when a datagram was put on it. *)
LEMMA PutOn ==
    ASSUME NEW S, NEW path \in Seq(S), NEW m \in S
    PROVE  /\ Put(path, m) \in Seq(S)
           /\ Put(path, m) = path \/ Put(path, m) = Append(path, m)
           /\ path = <<>> => Put(path, m) = <<m>>
  <1>1. Put(path, m) = path \/ Put(path, m) = Append(path, m)
    BY DEF Put
  <1>2. Put(path, m) \in Seq(S)
    BY <1>1
  <1>3. ASSUME path = <<>> PROVE Put(path, m) = <<m>>
    <2>1. Len(path) = 0 /\ Append(path, m) = <<m>>
      BY <1>3
    <2> QED
      BY <2>1, SessionAssumption DEF Put
  <1> QED
    BY <1>1, <1>2, <1>3

(* A client can be told what the network may do with a path. *)
LEMMA Delivered ==
    ASSUME NEW path \in Seq(Datagrams), NEW i \in Deliverable(path), NEW rest \in Rest(path, i)
    PROVE  /\ i \in 1..Len(path) /\ rest \in Seq(Datagrams)
           /\ "reorders" \notin network => i = 1
           /\ "duplicates" \notin network => rest = RemoveAt(path, i)
           /\ Len(path) = 1 /\ "duplicates" \notin network => rest = <<>>
  <1>1. i \in 1..Len(path) /\ ("reorders" \notin network => i = 1)
    BY DEF Deliverable
  <1>2. /\ rest \in Seq(Datagrams)
        /\ "duplicates" \notin network => rest = RemoveAt(path, i)
    BY <1>1, TakenOut DEF Rest
  <1>3. Len(path) = 1 /\ "duplicates" \notin network => rest = <<>>
    <2> SUFFICES ASSUME Len(path) = 1, "duplicates" \notin network PROVE rest = <<>>
      OBVIOUS
    <2>1. Len(RemoveAt(path, i)) = 0
      BY <1>1, TakenOut
    <2>2. Len(rest) = 0
      BY <2>1, <1>2
    <2> QED
      BY <2>2, <1>2
  <1> QED
    BY <1>1, <1>2, <1>3

(* The messages are datagrams. *)
LEMMA MsgType ==
    ASSUME NEW t \in PacketTypes, NEW n \in 0..MaxTick, NEW s \in SUBSET Clients
    PROVE  Msg(t, n, s) \in Datagrams
  BY DEF Msg, Datagrams

(* Every step of client, server and network keeps the types. *)
LEMMA SessionTypeStep == SessionTypeInv /\ [SessionNext]_sessionVars => SessionTypeInv'
  <1> SUFFICES ASSUME SessionTypeInv, [SessionNext]_sessionVars PROVE SessionTypeInv'
    OBVIOUS
  <1> USE DEF SessionTypeInv
  <1>0. CASE UNCHANGED sessionVars
    BY <1>0 DEF sessionVars, clientVars
  <1>1. ASSUME NEW c \in Clients, connect(c) PROVE SessionTypeInv'
    <2>1. Put(toServer[c], Msg("ChallengeRequest", 0, {})) \in Seq(Datagrams)
      BY MsgType, PutOn, SessionAssumption DEF PacketTypes
    <2> QED
      BY <1>1, <2>1 DEF connect, States
  <1>2. ASSUME NEW c \in Clients, HandshakeTimeout(c) PROVE SessionTypeInv'
    BY <1>2 DEF HandshakeTimeout, States
  <1>3. ASSUME NEW c \in Clients, poll_events(c) PROVE SessionTypeInv'
    <2>1. PICK i \in Deliverable(toClient[c]) :
              /\ \/ ReadChallenge(c, toClient[c][i]) \/ ReadFinalize(c, toClient[c][i])
                 \/ ReadConnected(c, toClient[c][i]) \/ ReadDisconnected(c, toClient[c][i])
              /\ \E rest \in Rest(toClient[c], i) : toClient' = [toClient EXCEPT ![c] = rest]
      BY <1>3 DEF poll_events
    <2>2. UNCHANGED <<network, attempts, entities, tick>>
      BY <1>3 DEF poll_events
    <2>3. i \in 1..Len(toClient[c]) /\ toClient' \in [Clients -> Seq(Datagrams)]
      BY <2>1, Delivered
    <2>4. toClient[c][i] \in Datagrams
      BY <2>3
    <2>5. Put(toServer[c], Msg("FinalizeRequest", 0, {})) \in Seq(Datagrams)
      BY MsgType, PutOn, SessionAssumption DEF PacketTypes
    <2>6. Applied(view[c], toClient[c][i]) \in [Clients -> {Unseen} \cup 0..MaxTick]
      BY <2>4 DEF Applied, Datagrams
    <2>7. CASE ReadChallenge(c, toClient[c][i])
      <3>1. /\ state' \in [Clients -> States]
            /\ toServer' \in [Clients -> Seq(Datagrams)]
            /\ UNCHANGED <<session, view>>
        BY <2>5, <2>7, Zenon DEF ReadChallenge, States
      <3> QED
        BY <2>2, <2>3, <3>1
    <2>8. CASE ReadFinalize(c, toClient[c][i])
      BY <2>2, <2>3, <2>8 DEF ReadFinalize, States
    <2>9. CASE ReadConnected(c, toClient[c][i])
      BY <2>2, <2>3, <2>6, <2>9 DEF ReadConnected
    <2>10. CASE ReadDisconnected(c, toClient[c][i])
      BY <2>2, <2>3, <2>10 DEF ReadDisconnected
    <2> QED
      BY <2>1, <2>7, <2>8, <2>9, <2>10
  <1>4. ASSUME NEW c \in Clients, disconnect(c) PROVE SessionTypeInv'
    <2>1. Put(toServer[c], Msg("Disconnect", 0, {})) \in Seq(Datagrams)
      BY MsgType, PutOn, SessionAssumption DEF PacketTypes
    <2> QED
      BY <1>4, <2>1 DEF disconnect, States
  <1>5. ASSUME NEW c \in Clients, drain_network_packets(c) PROVE SessionTypeInv'
    <2>1. PICK i \in Deliverable(toServer[c]) :
              /\ toClient' = [toClient EXCEPT ![c] =
                     IF Reply(toServer[c][i]) = <<>> THEN @ ELSE Put(@, Reply(toServer[c][i])[1])]
              /\ \E rest \in Rest(toServer[c], i) : toServer' = [toServer EXCEPT ![c] = rest]
              /\ entities' = IF Spawns(toServer[c][i]) THEN entities \cup {c} ELSE entities
      BY <1>5 DEF drain_network_packets
    <2>2. UNCHANGED <<network, clientVars, tick>>
      BY <1>5 DEF drain_network_packets
    <2>3. toServer' \in [Clients -> Seq(Datagrams)]
      BY <2>1, Delivered
    <2> DEFINE answer == Reply(toServer[c][i])
    <2>4. answer = <<>> \/ answer[1] \in Datagrams
      <3>1. /\ Msg("ChallengeResponse", 0, {}) \in Datagrams
            /\ Msg("FinalizeResponse", 0, {}) \in Datagrams
        BY MsgType, SessionAssumption DEF PacketTypes
      <3> QED
        BY <3>1 DEF Reply
    <2>5. answer # <<>> => Put(toClient[c], answer[1]) \in Seq(Datagrams)
      BY <2>4, PutOn
    <2> HIDE DEF answer
    <2>6. toClient' = [toClient EXCEPT ![c] = IF answer = <<>> THEN @ ELSE Put(@, answer[1])]
      BY <2>1 DEF answer
    <2> QED
      BY <2>1, <2>2, <2>3, <2>5, <2>6 DEF clientVars
  <1>6. ASSUME NEW c \in Clients, despawn_entity(c) PROVE SessionTypeInv'
    BY <1>6 DEF despawn_entity, clientVars
  <1>7. ASSUME NEW c \in Clients, Lose(c) PROVE SessionTypeInv'
    <2>1. \A i \in 1..Len(toServer[c]) : RemoveAt(toServer[c], i) \in Seq(Datagrams)
      BY TakenOut
    <2>2. \A i \in 1..Len(toClient[c]) : RemoveAt(toClient[c], i) \in Seq(Datagrams)
      BY TakenOut
    <2> QED
      BY <1>7, <2>1, <2>2 DEF Lose, clientVars
  <1>8. CASE broadcast_aoi_updates
    <2>1. tick' \in 0..MaxTick
      BY <1>8, SessionAssumption DEF broadcast_aoi_updates
    <2>2. \A c \in Clients : Put(toClient[c], Msg("StateUpdate", tick', entities)) \in Seq(Datagrams)
      BY <2>1, MsgType, PutOn DEF PacketTypes
    <2> QED
      BY <1>8, <2>1, <2>2 DEF broadcast_aoi_updates, clientVars
  <1> QED
    BY <1>0, <1>1, <1>2, <1>3, <1>4, <1>5, <1>6, <1>7, <1>8 DEF SessionNext

(* What others do leaves a client's handshake where it was. *)
LEMMA Undisturbed ==
    ASSUME NEW c \in Clients, Handshake(c),
           state'[c] = state[c], session'[c] = session[c], c \in afresh' => c \in afresh,
           toServer'[c] = toServer[c], toClient'[c] = toClient[c],
           c \in entities' => c \in entities
    PROVE  Handshake(c)'
  BY DEF Handshake, Challenging, Finalizing, Agreed

(* A client that is disconnected has no handshake. *)
LEMMA GivenUp ==
    ASSUME NEW c \in Clients, state'[c] = "Disconnected"
    PROVE  Handshake(c)'
  BY DEF Handshake, Challenging, Finalizing, Agreed

(* The datagrams of a handshake are told apart. *)
LEMMA Handshakes ==
    ASSUME NEW t \in PacketTypes
    PROVE  LET m == Msg(t, 0, {})
           IN  /\ m.type = t
               /\ Reply(m) = CASE t = "ChallengeRequest" -> <<Msg("ChallengeResponse", 0, {})>>
                               [] t = "FinalizeRequest"  -> <<Msg("FinalizeResponse", 0, {})>>
                               [] OTHER                  -> <<>>
               /\ Spawns(m) <=> t = "FinalizeRequest"
  BY DEF Msg, Reply, Spawns

(* Over a perfect network every step keeps the handshakes begun afresh. *)
LEMMA HandshakeStep ==
    ASSUME SessionTypeInv, HandshakeInv, SessionNext
    PROVE  HandshakeInv'
  <1>1. network' = network
    BY DEF SessionNext, connect, HandshakeTimeout, poll_events, disconnect,
       drain_network_packets, despawn_entity, Lose, broadcast_aoi_updates
  <1> SUFFICES ASSUME network = {} PROVE \A c \in Clients : Handshake(c)'
    BY <1>1 DEF HandshakeInv
  <1>2. \A c \in Clients : Handshake(c)
    BY DEF HandshakeInv
  <1>3. /\ state \in [Clients -> States] /\ session \in [Clients -> {NoSession, Assigned, Garbled}]
        /\ attempts \in Nat /\ toServer \in [Clients -> Seq(Datagrams)]
        /\ toClient \in [Clients -> Seq(Datagrams)] /\ Attempts \in Nat
    BY SessionAssumption DEF SessionTypeInv
  <1>4. "reorders" \notin network /\ "duplicates" \notin network /\ "loses" \notin network
    OBVIOUS
  <1>5. ASSUME NEW c \in Clients, connect(c) PROVE \A d \in Clients : Handshake(d)'
    <2>1. c \in afresh' => NothingLeft(c)
      BY <1>5 DEF connect
    <2>2. NothingLeft(c) => toServer[c] = <<>> /\ toClient[c] = <<>> /\ c \notin entities
      BY DEF NothingLeft
    <2>3. NothingLeft(c) =>
              Put(toServer[c], Msg("ChallengeRequest", 0, {})) = <<Msg("ChallengeRequest", 0, {})>>
      BY <1>3, <2>2, PutOn, MsgType, SessionAssumption DEF PacketTypes
    <2>4. Handshake(c)'
      BY <1>3, <1>5, <2>1, <2>2, <2>3
      DEF connect, Handshake, Challenging, Finalizing, Agreed
    <2>5. ASSUME NEW d \in Clients, d # c PROVE Handshake(d)'
      BY <1>2, <1>3, <1>5, <2>5, Undisturbed DEF connect
    <2> QED
      BY <2>4, <2>5
  <1>6. ASSUME NEW c \in Clients, HandshakeTimeout(c) PROVE \A d \in Clients : Handshake(d)'
    <2>1. Handshake(c)'
      BY <1>3, <1>6, GivenUp DEF HandshakeTimeout
    <2>2. ASSUME NEW d \in Clients, d # c PROVE Handshake(d)'
      BY <1>2, <1>3, <1>6, <2>2, Undisturbed DEF HandshakeTimeout
    <2> QED
      BY <2>1, <2>2
  <1>7. ASSUME NEW c \in Clients, poll_events(c) PROVE \A d \in Clients : Handshake(d)'
    <2> DEFINE m == toClient[c][1]
    <2>1. PICK i \in Deliverable(toClient[c]) :
              /\ \/ ReadChallenge(c, toClient[c][i]) \/ ReadFinalize(c, toClient[c][i])
                 \/ ReadConnected(c, toClient[c][i]) \/ ReadDisconnected(c, toClient[c][i])
              /\ \E rest \in Rest(toClient[c], i) : toClient' = [toClient EXCEPT ![c] = rest]
      BY <1>7 DEF poll_events
    <2>2. PICK rest \in Rest(toClient[c], i) : toClient' = [toClient EXCEPT ![c] = rest]
      BY <2>1
    <2>3. UNCHANGED <<afresh, entities>>
      BY <1>7 DEF poll_events
    <2>4. /\ i = 1 /\ i \in 1..Len(toClient[c]) /\ toClient[c] # <<>>
          /\ Len(toClient[c]) = 1 => rest = <<>>
      BY <1>3, <1>4, Delivered
    <2>5. c \in afresh => Challenging(c) /\ Finalizing(c) /\ Agreed(c)
      BY <1>2 DEF Handshake
    <2>6. \A d \in Clients : d # c => toClient'[d] = toClient[d]
      BY <1>3, <2>2
    <2>7. toClient'[c] = rest
      BY <1>3, <2>2
    <2> HIDE DEF m
    <2>11. ASSUME NEW d \in Clients, d # c PROVE Handshake(d)'
      <3>1. state'[d] = state[d] /\ session'[d] = session[d] /\ toServer'[d] = toServer[d]
        BY <1>3, <2>1, <2>11 DEF ReadChallenge, ReadFinalize, ReadConnected, ReadDisconnected
      <3> QED
        BY <1>2, <2>3, <2>6, <2>11, <3>1, Undisturbed
    <2>12. CASE c \notin afresh
      BY <2>3, <2>11, <2>12 DEF Handshake
    <2>8. CASE c \in afresh /\ ReadChallenge(c, m)
      <3>1. /\ toServer[c] = <<>> /\ toClient[c] = <<Msg("ChallengeResponse", 0, {})>>
            /\ c \notin entities
        BY <2>4, <2>5, <2>8 DEF ReadChallenge, Challenging
      <3>2. Len(toClient[c]) = 1 /\ m = Msg("ChallengeResponse", 0, {})
        BY <3>1 DEF m
      <3>3. Length(m) >= CHALLENGE_RESP_LEN
        BY <3>2 DEF Length, Msg, CHALLENGE_RESP_LEN
      <3>4. Put(toServer[c], Msg("FinalizeRequest", 0, {})) = <<Msg("FinalizeRequest", 0, {})>>
        BY <1>3, <3>1, PutOn, MsgType, SessionAssumption DEF PacketTypes
      <3>5. /\ state' = [state EXCEPT ![c] = "ConnectingFinalize"]
            /\ toServer' = [toServer EXCEPT ![c] = <<Msg("FinalizeRequest", 0, {})>>]
            /\ session' = session
        BY <2>8, <3>3, <3>4 DEF ReadChallenge
      <3>6. Handshake(c)'
        BY <1>3, <2>3, <2>4, <2>5, <2>7, <3>1, <3>2, <3>5
        DEF Handshake, Challenging, Finalizing, Agreed
      <3> QED
        BY <2>11, <3>6
    <2>9. CASE c \in afresh /\ ReadFinalize(c, m)
      <3>1. m = Msg("FinalizeResponse", 0, {})
        BY <2>4, <2>5, <2>9 DEF m, ReadFinalize, Finalizing
      <3>2. Length(m) >= FINALIZE_RESP_LEN /\ m.type = "FinalizeResponse"
        BY <3>1 DEF Length, Msg, FINALIZE_RESP_LEN
      <3>3. /\ state' = [state EXCEPT ![c] = "Connected"]
            /\ session' = [session EXCEPT ![c] = Assigned]
            /\ toServer' = toServer
        BY <2>9, <3>2 DEF ReadFinalize
      <3>4. Handshake(c)'
        BY <1>3, <2>3, <2>5, <3>3
        DEF Handshake, Challenging, Finalizing, Agreed
      <3> QED
        BY <2>11, <3>4
    <2>10. CASE ReadConnected(c, m) \/ ReadDisconnected(c, m)
      <3>1. UNCHANGED <<state, session, toServer>> /\ state[c] \in {"Connected", "Disconnected"}
        BY <2>10 DEF ReadConnected, ReadDisconnected
      <3>2. Handshake(c)'
        BY <1>2, <2>3, <2>5, <3>1 DEF Handshake, Challenging, Finalizing, Agreed
      <3> QED
        BY <2>11, <3>2
    <2> QED
      BY <2>1, <2>4, <2>8, <2>9, <2>10, <2>12 DEF m
  <1>8. ASSUME NEW c \in Clients, disconnect(c) PROVE \A d \in Clients : Handshake(d)'
    <2>1. /\ state' = [state EXCEPT ![c] = "Disconnected"]
          /\ UNCHANGED <<session, afresh, toClient, entities>>
          /\ toServer' = IF state[c] = "Connected"
                         THEN [toServer EXCEPT ![c] = Put(@, Msg("Disconnect", 0, {}))] ELSE toServer
      BY <1>8 DEF disconnect
    <2>2. Handshake(c)'
      BY <1>3, <2>1, GivenUp
    <2>3. ASSUME NEW d \in Clients, d # c PROVE Handshake(d)'
      BY <1>2, <1>3, <2>1, <2>3, Undisturbed
    <2> QED
      BY <2>2, <2>3
  <1>9. ASSUME NEW c \in Clients, drain_network_packets(c) PROVE \A d \in Clients : Handshake(d)'
    <2> DEFINE m == toServer[c][1]
    <2>1. PICK i \in Deliverable(toServer[c]) :
              /\ toClient' = [toClient EXCEPT ![c] =
                     IF Reply(toServer[c][i]) = <<>> THEN @ ELSE Put(@, Reply(toServer[c][i])[1])]
              /\ \E rest \in Rest(toServer[c], i) : toServer' = [toServer EXCEPT ![c] = rest]
              /\ entities' = IF Spawns(toServer[c][i]) THEN entities \cup {c} ELSE entities
      BY <1>9 DEF drain_network_packets
    <2>2. PICK rest \in Rest(toServer[c], i) : toServer' = [toServer EXCEPT ![c] = rest]
      BY <2>1
    <2>3. UNCHANGED <<state, session, afresh>>
      BY <1>9 DEF drain_network_packets, clientVars
    <2>4. /\ i = 1 /\ i \in 1..Len(toServer[c]) /\ toServer[c] # <<>>
          /\ Len(toServer[c]) = 1 => rest = <<>>
      BY <1>3, <1>4, Delivered
    <2>5. c \in afresh => Challenging(c) /\ Finalizing(c) /\ Agreed(c)
      BY <1>2 DEF Handshake
    <2>6. /\ toServer'[c] = rest
          /\ toClient'[c] = IF Reply(m) = <<>> THEN toClient[c] ELSE Put(toClient[c], Reply(m)[1])
          /\ entities' = IF Spawns(m) THEN entities \cup {c} ELSE entities
      BY <1>3, <2>1, <2>2, <2>4 DEF m
    <2>7. ASSUME NEW d \in Clients, d # c PROVE Handshake(d)'
      BY <1>2, <1>3, <2>1, <2>2, <2>3, <2>7, Undisturbed
    <2>8. ASSUME c \in afresh PROVE Challenging(c)'
      <3> SUFFICES ASSUME state[c] = "ConnectingChallenge" PROVE Challenging(c)'
        BY <2>3 DEF Challenging
      <3>1. /\ toServer[c] = <<Msg("ChallengeRequest", 0, {})>> /\ toClient[c] = <<>>
            /\ c \notin entities
        BY <2>4, <2>5, <2>8 DEF Challenging
      <3>2. m = Msg("ChallengeRequest", 0, {}) /\ Len(toServer[c]) = 1
        BY <3>1 DEF m
      <3>3. /\ Reply(m) = <<Msg("ChallengeResponse", 0, {})>>
            /\ ~ Spawns(m)
        BY <3>2, Handshakes DEF PacketTypes
      <3>4. Put(toClient[c], Msg("ChallengeResponse", 0, {})) = <<Msg("ChallengeResponse", 0, {})>>
        BY <1>3, <3>1, PutOn, MsgType, SessionAssumption DEF PacketTypes
      <3> QED
        BY <2>4, <2>6, <3>1, <3>2, <3>3, <3>4 DEF Challenging
    <2>9. ASSUME c \in afresh PROVE Finalizing(c)'
      <3> SUFFICES ASSUME state[c] = "ConnectingFinalize" PROVE Finalizing(c)'
        BY <2>3 DEF Finalizing
      <3>1. /\ toServer[c] = <<Msg("FinalizeRequest", 0, {})>> /\ toClient[c] = <<>>
            /\ c \notin entities
        BY <2>4, <2>5, <2>9 DEF Finalizing
      <3>2. m = Msg("FinalizeRequest", 0, {}) /\ Len(toServer[c]) = 1
        BY <3>1 DEF m
      <3>3. Reply(m) = <<Msg("FinalizeResponse", 0, {})>>
        BY <3>2, Handshakes DEF PacketTypes
      <3>4. Put(toClient[c], Msg("FinalizeResponse", 0, {})) = <<Msg("FinalizeResponse", 0, {})>>
        BY <1>3, <3>1, PutOn, MsgType, SessionAssumption DEF PacketTypes
      <3>5. /\ toServer'[c] = <<>>
            /\ toClient'[c] = <<Msg("FinalizeResponse", 0, {})>>
        <4>1. Reply(m) # <<>> /\ Reply(m)[1] = Msg("FinalizeResponse", 0, {})
          BY <3>3
        <4> QED
          BY <2>4, <2>6, <3>2, <3>4, <4>1
      <3>6. toClient'[c] # <<>> /\ toClient'[c][1] = Msg("FinalizeResponse", 0, {})
        BY <3>5
      <3> QED
        BY <3>5, <3>6 DEF Finalizing
    <2>10. Handshake(c)'
      BY <2>3, <2>5, <2>8, <2>9 DEF Handshake, Agreed
    <2> QED
      BY <2>7, <2>10
  <1>10. ASSUME NEW c \in Clients, despawn_entity(c) PROVE \A d \in Clients : Handshake(d)'
    BY <1>2, <1>10, Undisturbed DEF despawn_entity, clientVars
  <1>11. ASSUME NEW c \in Clients, Lose(c) PROVE FALSE
    BY <1>4, <1>11 DEF Lose, Lossy
  <1>12. CASE broadcast_aoi_updates
    <2>1. UNCHANGED <<state, session, afresh, toServer, entities>>
      BY <1>12 DEF broadcast_aoi_updates, clientVars
    <2>2. tick' \in 0..MaxTick
      BY <1>12, SessionAssumption DEF broadcast_aoi_updates, SessionTypeInv
    <2> DEFINE m == Msg("StateUpdate", tick', entities)
    <2>3. toClient' = [c \in Clients |-> IF c \in entities THEN Put(toClient[c], m) ELSE toClient[c]]
      BY <1>12 DEF broadcast_aoi_updates
    <2>4. m \in Datagrams
      BY <2>2, MsgType DEF PacketTypes, SessionTypeInv
    <2> HIDE DEF m
    <2>5. ASSUME NEW c \in Clients PROVE Handshake(c)'
      <3>1. CASE c \notin entities
        BY <1>2, <2>1, <2>3, <3>1, Undisturbed
      <3>2. CASE c \in entities
        <4>1. toClient'[c] = toClient[c] \/ toClient'[c] = Append(toClient[c], m)
          BY <1>3, <2>3, <2>4, <3>2, PutOn
        <4>2. ASSUME toClient[c] # <<>>
              PROVE  toClient'[c] # <<>> /\ toClient'[c][1] = toClient[c][1]
          <5> DEFINE path == toClient[c]
          <5>1. path \in Seq(Datagrams) /\ path # <<>>
            BY <1>3, <4>2
          <5> HIDE DEF path
          <5>2. 1 \in 1..Len(path) /\ Len(Append(path, m)) # 0
            BY <5>1, <2>4
          <5>3. Append(path, m) # <<>> /\ Append(path, m)[1] = path[1]
            BY <5>1, <5>2, <2>4
          <5> QED
            BY <4>1, <4>2, <5>3 DEF path
        <4> QED
          BY <1>2, <2>1, <3>2, <4>2 DEF Handshake, Challenging, Finalizing, Agreed
      <3> QED
        BY <3>1, <3>2
    <2> QED
      BY <2>5
  <1> QED
    BY <1>5, <1>6, <1>7, <1>8, <1>9, <1>10, <1>11, <1>12 DEF SessionNext

(* The fields an order is about are numbers. *)
LEMMA TicksAreNumbers ==
    ASSUME SessionTypeInv
    PROVE  /\ tick \in Nat
           /\ \A c \in Clients : toClient[c] \in Seq(Datagrams)
           /\ \A c, e \in Clients : view[c][e] \in Int /\ view[c][e] >= Unseen
           /\ \A m \in Datagrams : m.tick \in Nat
  <1>1. MaxTick \in Nat /\ Unseen = -1
    BY SessionAssumption DEF Unseen
  <1>2. tick \in Nat /\ \A m \in Datagrams : m.tick \in Nat
    BY <1>1 DEF SessionTypeInv, Datagrams
  <1>3. \A c, e \in Clients : view[c][e] \in {Unseen} \cup 0..MaxTick
    BY DEF SessionTypeInv
  <1> QED
    BY <1>1, <1>2, <1>3 DEF SessionTypeInv

(* The order survives when a datagram is taken out and the view goes up to  *)
(* something that what is left does not undercut.                           *)
LEMMA ThinnedInOrder ==
    ASSUME SessionTypeInv, NEW c \in Clients, InOrder(c), tick' = tick,
           NEW i \in 1..Len(toClient[c]), toClient'[c] = RemoveAt(toClient[c], i),
           \A e \in Clients : \/ view'[c][e] = view[c][e]
                              \/ /\ i = 1 /\ i \in Updates(c)
                                 /\ view'[c][e] = toClient[c][i].tick
    PROVE  InOrder(c)'
  <1> DEFINE old(k) == IF k < i THEN k ELSE k + 1
  <1>1. /\ toClient[c] \in Seq(Datagrams) /\ tick \in Nat
        /\ \A m \in Datagrams : m.tick \in Nat
    BY TicksAreNumbers
  <1>2. /\ Len(toClient'[c]) = Len(toClient[c]) - 1
        /\ \A k \in 1..(Len(toClient[c]) - 1) :
               toClient'[c][k] = IF k < i THEN toClient[c][k] ELSE toClient[c][k + 1]
    BY <1>1, TakenOut
  <1>3. \A k \in Updates(c)' : /\ old(k) \in Updates(c) /\ k \in Nat
                               /\ i = 1 => i < old(k)
                               /\ toClient'[c][k] = toClient[c][old(k)]
    <2> SUFFICES ASSUME NEW k \in Updates(c)'
                 PROVE  /\ old(k) \in Updates(c) /\ k \in Nat
                        /\ i = 1 => i < old(k)
                        /\ toClient'[c][k] = toClient[c][old(k)]
      OBVIOUS
    <2>1. k \in 1..Len(toClient'[c]) /\ toClient'[c][k].type = "StateUpdate"
      BY DEF Updates
    <2>2. Len(toClient[c]) \in Nat
      BY <1>1
    <2>3. k \in 1..(Len(toClient[c]) - 1)
      BY <1>2, <2>1, <2>2
    <2>4. /\ toClient'[c][k] = toClient[c][old(k)]
          /\ old(k) \in 1..Len(toClient[c]) /\ (i = 1 => i < old(k))
      BY <1>2, <2>2, <2>3
    <2> QED
      BY <2>1, <2>3, <2>4 DEF Updates
  <1>4. \A k, l \in Updates(c)' : k < l => old(k) < old(l)
    BY <1>3
  <1> HIDE DEF old
  <1>5. \A k, l \in Updates(c)' : k < l => toClient'[c][k].tick <= toClient'[c][l].tick
    BY <1>3, <1>4 DEF InOrder
  <1>6. \A k \in Updates(c)' : toClient'[c][k].tick <= tick'
    BY <1>3 DEF InOrder
  <1>7. ASSUME NEW e \in Clients
        PROVE  view'[c][e] <= tick' /\ \A k \in Updates(c)' : view'[c][e] <= toClient'[c][k].tick
    <2>1. CASE view'[c][e] = view[c][e]
      BY <1>3, <2>1 DEF InOrder
    <2>2. CASE i = 1 /\ i \in Updates(c) /\ view'[c][e] = toClient[c][i].tick
      BY <1>3, <2>2 DEF InOrder
    <2> QED
      BY <2>1, <2>2
  <1> QED
    BY <1>5, <1>6, <1>7 DEF InOrder

(* So it does when a datagram is put behind the others, if an update carries *)
(* the tick of now.                                                          *)
LEMMA ExtendedInOrder ==
    ASSUME SessionTypeInv, NEW c \in Clients, InOrder(c), tick' \in Nat, tick <= tick',
           NEW m \in Datagrams, m.type = "StateUpdate" => m.tick = tick',
           toClient'[c] = toClient[c] \/ toClient'[c] = Append(toClient[c], m),
           \A e \in Clients : view'[c][e] = view[c][e] \/ view'[c][e] = Unseen
    PROVE  InOrder(c)'
  <1> DEFINE n == Len(toClient[c])
  <1>1. /\ toClient[c] \in Seq(Datagrams) /\ tick \in Nat /\ tick' \in Nat /\ n \in Nat
        /\ \A e \in Clients : view[c][e] \in Int
        /\ \A d \in Datagrams : d.tick \in Nat
    BY TicksAreNumbers
  <1>2. \A k \in 1..Len(toClient'[c]) :
            \/ k \in 1..n /\ toClient'[c][k] = toClient[c][k]
            \/ k = n + 1 /\ toClient'[c][k] = m
    <2> DEFINE path == toClient[c]
    <2>1. path \in Seq(Datagrams)
      BY <1>1
    <2> HIDE DEF path
    <2>2. \A k \in 1..Len(Append(path, m)) :
              \/ k \in 1..Len(path) /\ Append(path, m)[k] = path[k]
              \/ k = Len(path) + 1 /\ Append(path, m)[k] = m
      BY <2>1
    <2>3. CASE toClient'[c] = path
      BY <2>3 DEF path
    <2>4. CASE toClient'[c] = Append(path, m)
      BY <2>2, <2>4 DEF path
    <2> QED
      BY <2>3, <2>4 DEF path
  <1>3. \A k \in Updates(c)' :
            \/ k \in 1..n /\ k \in Updates(c) /\ toClient'[c][k] = toClient[c][k]
            \/ k = n + 1 /\ toClient'[c][k].tick = tick'
    BY <1>2 DEF Updates
  <1>4. \A k \in Updates(c) : toClient[c][k].tick \in Nat /\ toClient[c][k].tick <= tick
    BY <1>1 DEF Updates, InOrder
  <1> HIDE DEF n
  <1>5. ASSUME NEW k \in Updates(c)', NEW l \in Updates(c)', k < l
        PROVE  toClient'[c][k].tick <= toClient'[c][l].tick
    <2>1. k \in 1..n /\ k \in Updates(c) /\ toClient'[c][k] = toClient[c][k]
      BY <1>1, <1>3, <1>5
    <2>2. CASE l \in Updates(c) /\ toClient'[c][l] = toClient[c][l]
      BY <1>5, <2>1, <2>2 DEF InOrder
    <2>3. CASE toClient'[c][l].tick = tick'
      <3>1. toClient[c][k].tick \in Nat /\ toClient[c][k].tick <= tick
        BY <1>4, <2>1
      <3>2. toClient[c][k].tick <= tick'
        BY <1>1, <3>1
      <3> QED
        BY <2>1, <2>3, <3>2
    <2> QED
      BY <1>3, <2>2, <2>3
  <1>6. \A k \in Updates(c)' : toClient'[c][k].tick <= tick'
    BY <1>1, <1>3, <1>4
  <1>7. ASSUME NEW e \in Clients
        PROVE  view'[c][e] <= tick' /\ \A k \in Updates(c)' : view'[c][e] <= toClient'[c][k].tick
    <2>1. /\ view'[c][e] \in Int /\ view'[c][e] <= tick
          /\ \A k \in Updates(c) : view'[c][e] <= toClient[c][k].tick
      BY <1>1, <1>4 DEF InOrder, Unseen
    <2> QED
      BY <1>1, <1>3, <2>1
  <1> QED
    BY <1>5, <1>6, <1>7 DEF InOrder

(* While the order is kept, what a client reads is newer than its view. *)
LEMMA ViewStep ==
    ASSUME SessionTypeInv, SessionTypeInv', ViewInv, SessionNext, network \subseteq {"loses"}
    PROVE  /\ \A c \in Clients : InOrder(c)'
           /\ \A c, e \in Clients :
                  state[c] = "Connected" /\ state'[c] = "Connected" => view'[c][e] >= view[c][e]
  <1>1. /\ \A c \in Clients : InOrder(c) /\ toClient[c] \in Seq(Datagrams)
        /\ \A c, e \in Clients : view[c][e] \in Int /\ view[c][e] >= view[c][e]
        /\ tick \in Nat /\ tick' \in Nat /\ tick <= tick
    <2>1. \A c \in Clients : InOrder(c)
      BY DEF ViewInv
    <2>2. tick \in Nat /\ tick' \in Nat
      BY SessionAssumption DEF SessionTypeInv
    <2>3. /\ \A c \in Clients : toClient[c] \in Seq(Datagrams)
          /\ \A c, e \in Clients : view[c][e] \in Int
      BY TicksAreNumbers
    <2> QED
      BY <2>1, <2>2, <2>3
  <1>2. "reorders" \notin network /\ "duplicates" \notin network
    OBVIOUS
  <1>3. /\ toClient \in [Clients -> Seq(Datagrams)]
        /\ view \in [Clients -> [Clients -> {Unseen} \cup 0..MaxTick]]
        /\ state \in [Clients -> States]
    BY DEF SessionTypeInv
  <1>4. Msg("ChallengeResponse", 0, {}) \in Datagrams /\ Msg("FinalizeResponse", 0, {}) \in Datagrams
    BY MsgType, SessionAssumption DEF PacketTypes
  <1>5. ASSUME UNCHANGED <<view, toClient, tick>> PROVE \A c \in Clients : InOrder(c)'
    BY <1>1, <1>5 DEF InOrder, Updates
  <1>6. CASE \E c \in Clients : connect(c) \/ HandshakeTimeout(c) \/ despawn_entity(c)
    <2>1. UNCHANGED <<view, toClient, tick>>
      BY <1>6 DEF connect, HandshakeTimeout, despawn_entity, clientVars
    <2> QED
      BY <1>1, <1>5, <2>1
  <1>7. ASSUME NEW c \in Clients, poll_events(c)
        PROVE  /\ \A d \in Clients : InOrder(d)'
               /\ \A d, e \in Clients : view'[d][e] >= view[d][e]
    <2>1. PICK i \in Deliverable(toClient[c]) :
              /\ \/ ReadChallenge(c, toClient[c][i]) \/ ReadFinalize(c, toClient[c][i])
                 \/ ReadConnected(c, toClient[c][i]) \/ ReadDisconnected(c, toClient[c][i])
              /\ \E rest \in Rest(toClient[c], i) : toClient' = [toClient EXCEPT ![c] = rest]
      BY <1>7 DEF poll_events
    <2>2. /\ i = 1 /\ i \in 1..Len(toClient[c])
          /\ toClient' = [toClient EXCEPT ![c] = RemoveAt(toClient[c], i)]
      BY <1>1, <1>2, <2>1, Delivered
    <2>3. tick' = tick
      BY <1>7 DEF poll_events
    <2> DEFINE m == toClient[c][i]
    <2>4. \/ view' = view
          \/ m.type = "StateUpdate" /\ view' = [view EXCEPT ![c] = Applied(@, m)]
      BY <2>1 DEF ReadChallenge, ReadFinalize, ReadConnected, ReadDisconnected
    <2>5. i \in Updates(c) <=> m.type = "StateUpdate"
      BY <2>2 DEF Updates
    <2> HIDE DEF m
    <2>6. \A d \in Clients : d # c => view'[d] = view[d] /\ toClient'[d] = toClient[d]
      BY <1>3, <2>2, <2>4
    <2>7. \A e \in Clients : \/ view'[c][e] = view[c][e]
                             \/ i \in Updates(c) /\ view'[c][e] = m.tick
      BY <1>3, <2>4, <2>5 DEF Applied
    <2>8. toClient'[c] = RemoveAt(toClient[c], i)
      BY <1>3, <2>2
    <2>9. InOrder(c)'
      BY <1>1, <2>2, <2>3, <2>7, <2>8, ThinnedInOrder DEF m
    <2>10. \A d \in Clients : d # c => InOrder(d)'
      BY <1>1, <2>3, <2>6 DEF InOrder, Updates
    <2>11. \A e \in Clients : view'[c][e] >= view[c][e]
      <3>1. i \in Updates(c) => m.tick \in Nat /\ \A e \in Clients : view[c][e] <= m.tick
        BY <1>1, <2>2, TicksAreNumbers DEF InOrder, m
      <3> QED
        BY <1>1, <2>7, <3>1
    <2> QED
      BY <1>1, <2>6, <2>9, <2>10, <2>11
  <1>8. ASSUME NEW c \in Clients, disconnect(c)
        PROVE  /\ \A d \in Clients : InOrder(d)' /\ (d # c => view'[d] = view[d])
               /\ state'[c] = "Disconnected"
    <2>1. /\ view' = [view EXCEPT ![c] = [e \in Clients |-> Unseen]]
          /\ UNCHANGED <<toClient, tick>> /\ state' = [state EXCEPT ![c] = "Disconnected"]
      BY <1>8 DEF disconnect
    <2>2. \A d \in Clients : d # c => view'[d] = view[d]
      BY <1>3, <2>1
    <2>3. \A e \in Clients : view'[c][e] = Unseen
      BY <1>3, <2>1
    <2>4. InOrder(c)'
      BY <1>1, <1>4, <2>1, <2>3, ExtendedInOrder DEF Msg
    <2>5. \A d \in Clients : d # c => InOrder(d)'
      BY <1>1, <2>1, <2>2 DEF InOrder, Updates
    <2> QED
      BY <1>3, <2>1, <2>2, <2>4, <2>5
  <1>9. ASSUME NEW c \in Clients, drain_network_packets(c)
        PROVE  (\A d \in Clients : InOrder(d)') /\ view' = view
    <2>1. /\ UNCHANGED <<view, tick>>
          /\ \E i \in Deliverable(toServer[c]) :
                 toClient' = [toClient EXCEPT ![c] =
                     IF Reply(toServer[c][i]) = <<>> THEN @ ELSE Put(@, Reply(toServer[c][i])[1])]
      BY <1>9 DEF drain_network_packets, clientVars
    <2>2. \A m : Reply(m) = <<>> \/ \E a \in Datagrams : Reply(m) = <<a>> /\ a.type # "StateUpdate"
      BY <1>4 DEF Reply, Msg
    <2> DEFINE Answered == \E a \in Datagrams :
              /\ a.type # "StateUpdate"
              /\ toClient'[c] = toClient[c] \/ toClient'[c] = Append(toClient[c], a)
    <2>3. Answered
      <3>1. PICK i \in Deliverable(toServer[c]) :
                toClient' = [toClient EXCEPT ![c] =
                    IF Reply(toServer[c][i]) = <<>> THEN @ ELSE Put(@, Reply(toServer[c][i])[1])]
        BY <2>1
      <3>2. CASE Reply(toServer[c][i]) = <<>>
        BY <1>3, <1>4, <3>1, <3>2 DEF Msg
      <3>3. ASSUME NEW a \in Datagrams, Reply(toServer[c][i]) = <<a>>, a.type # "StateUpdate"
            PROVE  Answered
        <4>1. Reply(toServer[c][i]) # <<>> /\ Reply(toServer[c][i])[1] = a
          BY <3>3
        <4>2. toClient'[c] = Put(toClient[c], a)
          BY <1>3, <3>1, <4>1
        <4> QED
          BY <1>1, <3>3, <4>2, PutOn
      <3> QED
        BY <2>2, <3>2, <3>3
    <2>4. InOrder(c)'
      BY <1>1, <2>1, <2>3, ExtendedInOrder
    <2>5. \A d \in Clients : d # c => InOrder(d)'
      BY <1>1, <1>3, <2>1 DEF InOrder, Updates
    <2> QED
      BY <2>1, <2>4, <2>5
  <1>10. ASSUME NEW c \in Clients, Lose(c) PROVE (\A d \in Clients : InOrder(d)') /\ view' = view
    <2>1. UNCHANGED <<view, tick>>
      BY <1>10 DEF Lose, clientVars
    <2>2. CASE toClient' = toClient
      BY <1>5, <2>1, <2>2
    <2>3. CASE \E i \in 1..Len(toClient[c]) : toClient' = [toClient EXCEPT ![c] = RemoveAt(@, i)]
      <3>1. PICK i \in 1..Len(toClient[c]) : toClient'[c] = RemoveAt(toClient[c], i)
        BY <1>3, <2>3
      <3>2. InOrder(c)'
        BY <1>1, <2>1, <3>1, ThinnedInOrder
      <3>3. \A d \in Clients : d # c => InOrder(d)'
        BY <1>1, <1>3, <2>1, <2>3 DEF InOrder, Updates
      <3> QED
        BY <2>1, <3>2, <3>3
    <2> QED
      BY <1>10, <2>1, <2>2, <2>3 DEF Lose
  <1>11. CASE broadcast_aoi_updates
    <2>1. UNCHANGED view /\ tick <= tick'
      BY <1>1, <1>11 DEF broadcast_aoi_updates, clientVars
    <2> DEFINE m == Msg("StateUpdate", tick', entities)
    <2>2. toClient' = [c \in Clients |-> IF c \in entities THEN Put(toClient[c], m) ELSE toClient[c]]
      BY <1>11 DEF broadcast_aoi_updates
    <2>3. m \in Datagrams /\ m.tick = tick'
      <3>1. tick' \in 0..MaxTick /\ entities \in SUBSET Clients
        BY DEF SessionTypeInv
      <3> QED
        BY <3>1, MsgType DEF PacketTypes, Msg
    <2> HIDE DEF m
    <2>4. \A c \in Clients : toClient'[c] = toClient[c] \/ toClient'[c] = Append(toClient[c], m)
      BY <1>1, <2>2, <2>3, PutOn
    <2>5. \A c \in Clients : InOrder(c)'
      BY <1>1, <2>1, <2>3, <2>4, ExtendedInOrder
    <2> QED
      BY <1>1, <2>1, <2>5
  <1> QED
    <2>1. CASE \E c \in Clients : connect(c) \/ HandshakeTimeout(c) \/ despawn_entity(c)
      BY <1>1, <1>6, <2>1 DEF connect, HandshakeTimeout, despawn_entity, clientVars
    <2>2. CASE \E c \in Clients : disconnect(c)
      BY <1>1, <1>8, <2>2
    <2> QED
      BY <1>1, <1>7, <1>9, <1>10, <1>11, <2>1, <2>2 DEF SessionNext

(* Variables of the wrong type do not come up, whatever the network does     *)
(* (client.rs, facade.rs).                                                   *)
THEOREM SessionTyped == SessionSpec => []SessionTypeInv
  <1>1. SessionInit => SessionTypeInv
    BY SessionAssumption DEF SessionInit, SessionTypeInv, States
  <1> QED
    BY <1>1, SessionTypeStep, PTL DEF SessionSpec

(* No step changes the network, and one that changes nothing keeps all. *)
LEMMA SameNetwork == [SessionNext]_sessionVars => network' = network
  BY DEF SessionNext, connect, HandshakeTimeout, poll_events, disconnect,
     drain_network_packets, despawn_entity, Lose, broadcast_aoi_updates, sessionVars

(* Client and server agree on the session of every connect that finds        *)
(* nothing of the client's left, over a perfect network, for any number of   *)
(* clients and attempts, path lengths and interleaving of polls, ticks,      *)
(* timeouts, kicks and disconnects: the handshake's answers arrive one at a  *)
(* time and before any state update, so their length is enough to tell them  *)
(* apart (client.rs:200-290).                                                *)
THEOREM SessionsAgree == SessionSpec => []SessionAgreed
  <1>1. SessionInit => HandshakeInv
    BY DEF SessionInit, HandshakeInv, Handshake, Challenging, Finalizing, Agreed
  <1>2. SessionTypeInv /\ HandshakeInv /\ [SessionNext]_sessionVars => HandshakeInv'
    <2>1. ASSUME HandshakeInv, UNCHANGED sessionVars PROVE HandshakeInv'
      BY <2>1 DEF HandshakeInv, Handshake, Challenging, Finalizing, Agreed,
         sessionVars, clientVars
    <2> QED
      BY <2>1, HandshakeStep
  <1>3. HandshakeInv => SessionAgreed
    BY DEF HandshakeInv, Handshake, Agreed, SessionAgreed
  <1> QED
    BY <1>1, <1>2, <1>3, SessionTyped, PTL DEF SessionSpec

(* On a network that may lose datagrams but keeps their order, no view of a  *)
(* connected client goes back to an older tick, for any number of clients,   *)
(* attempts and datagrams on the way (world_view.rs, client.rs:294).         *)
THEOREM ViewsGoForward == SessionSpec => ViewNeverGoesBack
  <1> DEFINE Forward ==
          network \subseteq {"loses"} => \A c, e \in Clients :
              state[c] = "Connected" /\ state'[c] = "Connected" => view'[c][e] >= view[c][e]
  <1>1. SessionInit => ViewInv
    BY DEF SessionInit, ViewInv, InOrder, Updates, Unseen
  <1>2. ASSUME SessionTypeInv, SessionTypeInv', ViewInv, [SessionNext]_sessionVars
        PROVE  ViewInv'
    <2>1. CASE UNCHANGED sessionVars
      BY <1>2, <2>1 DEF ViewInv, InOrder, Updates, sessionVars, clientVars
    <2>2. CASE SessionNext
      BY <1>2, <2>2, SameNetwork, ViewStep DEF ViewInv
    <2> QED
      BY <1>2, <2>1, <2>2
  <1>3. SessionTypeInv /\ SessionTypeInv' /\ ViewInv /\ [SessionNext]_sessionVars
            => [Forward]_sessionVars
    BY ViewStep
  <1> QED
    BY <1>1, <1>2, <1>3, SessionTyped, PTL DEF SessionSpec, ViewNeverGoesBack

=============================================================================
