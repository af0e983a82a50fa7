------------------------------ MODULE Snapshots ------------------------------
(*****************************************************************************)
(* State kept to be read back: the flight recorder's rolling buffers and the *)
(* replay sessions over them (crates/eidolon-world/src/flight_recorder.rs,   *)
(* eidolon-core/src/replay.rs), and the snapshots of dormant accounts        *)
(* (eidolon-world/src/hibernation.rs).                                       *)
(*****************************************************************************)
EXTENDS Integers, Sequences, SequencesExt, FiniteSetsExt, PartialFunctions

CONSTANTS
    Actors,                     \* recorded entities, numbers from 1
    Velocities,                 \* what inputs command
    MAX_INPUT_FRAMES_CAPACITY, MAX_KEYFRAMES_CAPACITY,
    MAX_KEYFRAME_ENTITIES,      \* entities a keyframe holds (16 in the code)
    FRAME_BUF,                  \* frames a replay applies per tick (64 in the code)
    MaxRecorded,                \* bound on the recorded ticks
    MaxInputs,                  \* bound on the recorded inputs
    MAX_ROSTER_SIZE,
    Blueprints, Amounts,        \* character ids, and levels and balances
    MaxSaves                    \* bound on the snapshots taken

ASSUME SnapshotAssumption ==
    /\ Actors \subseteq Nat \ {0} /\ Velocities \subseteq Int
    /\ {MAX_INPUT_FRAMES_CAPACITY, MAX_KEYFRAMES_CAPACITY, MAX_KEYFRAME_ENTITIES, FRAME_BUF}
           \subseteq Nat \ {0}
    /\ Blueprints \subseteq Nat /\ Amounts \subseteq Nat

VARIABLES
    input_ring,     \* input_frames with input_head and input_count
    keyframe_ring,  \* keyframes with keyframe_head and keyframe_count
    earliest_tick, latest_tick,
    replay,         \* the replay session, or NoSession
    world,          \* the live entities
    now, inputs,    \* the live tick, and the inputs so far (bound)
    lived,          \* tick -> the live entities at its end (history)
    evicted,        \* the latest tick of an input that was overwritten (history)
    profile,        \* the active PlayerProfile
    stored,         \* the snapshot on disk, or NoSnapshot
    saved,          \* the profile it was taken of (history)
    saves           \* snapshots taken (bound)

recorderVars == <<input_ring, keyframe_ring, earliest_tick, latest_tick, replay, world, now,
                  inputs, lived, evicted>>
hibernationVars == <<profile, stored, saved, saves>>
snapshotVars == <<recorderVars, hibernationVars>>

(* -------------------------------- recorder ------------------------------- *)

EntityStateSnapshot(pos, vel) == [position |-> pos, velocity |-> vel]
RecordedInputFrame(t, e, vel) == [tick |-> t, entity_id |-> e, velocity |-> vel]

\* One tick of motion at the commanded velocity.
extrapolate_with_input(base, input) ==
    EntityStateSnapshot(base.position + input.velocity, input.velocity)

Adler(bytes) ==
    FoldLeft(LAMBDA acc, byte : [a |-> (acc.a + byte) % 65521, b |-> (acc.b + acc.a + byte) % 65521],
             [a |-> 1, b |-> 0], bytes)

\* Ids and positions are summed up, velocities are not.
compute_entities_checksum(entities) ==
    Adler(FlattenSeq([k \in 1..Cardinality(DOMAIN entities) |->
        LET e == SetToSortSeq(DOMAIN entities, <)[k] IN <<e, entities[e].position % 256>>]))

\* Of the live entities, listed by id, the first that fit.
FirstEntities(entities) ==
    Restrict(entities, {e \in DOMAIN entities :
                           Cardinality({d \in DOMAIN entities : d < e}) < MAX_KEYFRAME_ENTITIES})

KeyframeSnapshot(t, entities) ==
    LET held == FirstEntities(entities)
    IN  [tick |-> t, entities |-> held, checksum |-> compute_entities_checksum(held)]

EmptyRing == [items |-> <<>>, head |-> 0]

\* The slot at the head is overwritten once all are used.
Recorded(ring, x, cap) ==
    [items |-> IF ring.head < Len(ring.items) THEN [ring.items EXCEPT ![ring.head + 1] = x]
               ELSE Append(ring.items, x),
     head |-> (ring.head + 1) % cap]

\* The record that gives way, if any.
Overwritten(ring) == IF ring.head < Len(ring.items) THEN {ring.items[ring.head + 1]} ELSE {}

NothingRecorded == input_ring.items = <<>> /\ keyframe_ring.items = <<>>

TickRecorded(t) ==
    /\ earliest_tick' = IF NothingRecorded \/ t < earliest_tick THEN t ELSE earliest_tick
    /\ latest_tick' = IF t > latest_tick THEN t ELSE latest_tick

NoSession == [current_tick |-> -1, entities |-> <<>>, speed |-> "Normal"]

record_input(e, vel) ==
    LET frame == RecordedInputFrame(now, e, vel)
    IN  /\ replay = NoSession /\ inputs < MaxInputs
        /\ TickRecorded(now)
        /\ input_ring' = Recorded(input_ring, frame, MAX_INPUT_FRAMES_CAPACITY)
        /\ evicted' = Max({evicted} \union {f.tick : f \in Overwritten(input_ring)})
        /\ world' = [world EXCEPT ![e] = extrapolate_with_input(@, frame)]
        /\ inputs' = inputs + 1
        /\ UNCHANGED <<keyframe_ring, replay, now, lived, hibernationVars>>

record_keyframe(t, entities) ==
    /\ TickRecorded(t)
    /\ keyframe_ring' = Recorded(keyframe_ring, KeyframeSnapshot(t, entities),
                                 MAX_KEYFRAMES_CAPACITY)

\* The live tick ends, with or without a keyframe of it.
EndTick ==
    /\ replay = NoSession /\ now < MaxRecorded
    /\ \/ record_keyframe(now, world)
       \/ UNCHANGED <<keyframe_ring, earliest_tick, latest_tick>>
    /\ lived' = With(lived, now, world)
    /\ now' = now + 1
    /\ UNCHANGED <<input_ring, replay, world, inputs, evicted, hibernationVars>>

\* The keyframes a replay to tick t may start from, the best of them first.
find_nearest_prior_keyframe(t) ==
    LET prior == {kf \in ToSet(keyframe_ring.items) : kf.tick <= t}
    IN  {kf \in prior : \A other \in prior : other.tick <= kf.tick}

\* Mutated form: the frames of a tick beyond the first are left out.
copy_input_frames_range_one(t) ==
    LET found == SelectSeq(input_ring.items, LAMBDA f : f.tick = t)
    IN  SubSeq(found, 1, Min({Len(found), 1}))

\* The frames of tick t in the order of their slots, as many as fit.
copy_input_frames_range(t) ==
    LET found == SelectSeq(input_ring.items, LAMBDA f : f.tick = t)
    IN  SubSeq(found, 1, Min({Len(found), FRAME_BUF}))

\* The entities of a keyframe after the frames of the ticks up to t; a frame of
\* an entity that the keyframe does not hold is skipped.
ReplayedTo(kf, t) ==
    FoldLeft(LAMBDA entities, f :
                IF f.entity_id \in DOMAIN entities
                THEN [entities EXCEPT ![f.entity_id] = extrapolate_with_input(@, f)]
                ELSE entities,
             kf.entities,
             FlattenSeq([n \in 1..(t - kf.tick) |-> copy_input_frames_range(kf.tick + n)]))

create_replay_session ==
    /\ replay = NoSession
    /\ \E kf \in find_nearest_prior_keyframe(earliest_tick) :
           replay' = [current_tick |-> kf.tick, entities |-> kf.entities, speed |-> "Normal"]
    /\ UNCHANGED <<input_ring, keyframe_ring, earliest_tick, latest_tick, world, now, inputs,
                   lived, evicted, hibernationVars>>

scrub_to_tick(t) ==
    /\ replay # NoSession /\ t \in earliest_tick..latest_tick
    /\ \E kf \in find_nearest_prior_keyframe(t) :
           replay' = [replay EXCEPT !.current_tick = t, !.entities = ReplayedTo(kf, t)]
    /\ UNCHANGED <<input_ring, keyframe_ring, earliest_tick, latest_tick, world, now, inputs,
                   lived, evicted, hibernationVars>>

step_forward(delta) == scrub_to_tick(Min({replay.current_tick + delta, latest_tick}))
step_backward(delta) ==
    scrub_to_tick(Max({Max({replay.current_tick - delta, 0}), earliest_tick}))

set_playback_speed(speed) ==
    /\ replay # NoSession
    /\ replay' = [replay EXCEPT !.speed = speed]
    /\ UNCHANGED <<input_ring, keyframe_ring, earliest_tick, latest_tick, world, now, inputs,
                   lived, evicted, hibernationVars>>

\* The session borrows the recorder: recording goes on when it is dropped.
EndReplay ==
    /\ replay # NoSession
    /\ replay' = NoSession
    /\ UNCHANGED <<input_ring, keyframe_ring, earliest_tick, latest_tick, world, now, inputs,
                   lived, evicted, hibernationVars>>

\* Whether a comparison of the session with a live state reports a difference.
detect_divergence(live_tick, live) ==
    /\ live_tick = replay.current_tick
    /\ compute_entities_checksum(replay.entities) # compute_entities_checksum(live)

RecorderNext ==
    \/ \E e \in Actors, vel \in Velocities : record_input(e, vel)
    \/ EndTick
    \/ create_replay_session
    \/ \E t \in 0..MaxRecorded : scrub_to_tick(t)
    \/ step_forward(1) \/ step_backward(1) \/ step_backward(MaxRecorded)
    \/ set_playback_speed("Fast")
    \/ EndReplay

(* ------------------------------- hibernation ----------------------------- *)

CharacterRecord(c, level) == [character_id |-> c, level |-> level]

\* A roster is the sequence of its used slots: no operation frees one.
PlayerProfile(a) ==
    [account_id |-> a, player_level |-> 1, premium_currency |-> 0, free_currency |-> 0,
     pity |-> 0, roster |-> <<>>]

character_count(p) == Len(p.roster)

Owned(p, c) == {k \in DOMAIN p.roster : p.roster[k].character_id = c}

\* An owned character is updated in its slot; a new one takes the next.
add_character(rec) ==
    /\ Owned(profile, rec.character_id) # {} \/ character_count(profile) < MAX_ROSTER_SIZE
    /\ profile' = [profile EXCEPT !.roster =
                      IF Owned(profile, rec.character_id) # {}
                      THEN [k \in DOMAIN @ |->
                               IF k \in Owned(profile, rec.character_id) THEN rec ELSE @[k]]
                      ELSE Append(@, rec)]
    /\ UNCHANGED <<stored, saved, saves, recorderVars>>

Play(field, n) ==
    /\ profile' = [profile EXCEPT ![field] = n]
    /\ UNCHANGED <<stored, saved, saves, recorderVars>>

HIBERNATION_MAGIC == "EIHB"
HIBERNATION_SCHEMA_VERSION == 1
NoSnapshot == [magic |-> "none"]

\* The payload as the fields written one after the other, five before the
\* roster and two per character.
Payload(p) ==
    <<p.player_level, p.premium_currency, p.free_currency, p.pity, character_count(p)>>
    \o FlattenSeq([k \in DOMAIN p.roster |-> <<p.roster[k].character_id, p.roster[k].level>>])

compute_adler32(bytes) == Adler(bytes)

SnapshotOf(p) ==
    [magic |-> HIBERNATION_MAGIC, version |-> HIBERNATION_SCHEMA_VERSION,
     account_id |-> p.account_id, payload_len |-> Len(Payload(p)),
     checksum |-> compute_adler32(Payload(p)), payload |-> Payload(p)]

serialize_snapshot ==
    /\ saves < MaxSaves
    /\ stored' = SnapshotOf(profile)
    /\ saved' = profile
    /\ saves' = saves + 1
    /\ UNCHANGED <<profile, recorderVars>>

\* The profile a snapshot stands for, or nothing when it is refused.
deserialize_snapshot(s) ==
    IF \/ s.magic # HIBERNATION_MAGIC
       \/ s.version # HIBERNATION_SCHEMA_VERSION
       \/ Len(s.payload) < s.payload_len
       \/ compute_adler32(SubSeq(s.payload, 1, s.payload_len)) # s.checksum
    THEN {}
    ELSE {[account_id |-> s.account_id, player_level |-> s.payload[1],
           premium_currency |-> s.payload[2], free_currency |-> s.payload[3],
           pity |-> s.payload[4],
           roster |-> [k \in 1..Min({s.payload[5], MAX_ROSTER_SIZE}) |->
                          CharacterRecord(s.payload[4 + 2 * k], s.payload[5 + 2 * k])]]}

\* The account comes back: the zone takes the entity (or refuses it, and
\* nothing changes) and the wallet is filled from the profile.
hydrate_player_into_zone ==
    /\ stored # NoSnapshot
    /\ \E p \in deserialize_snapshot(stored) : profile' = p
    /\ UNCHANGED <<stored, saved, saves, recorderVars>>

\* The medium loses the end of the snapshot, or changes one field of it.  (The
\* account id is outside the checksum; the medium is taken to keep it.)
Truncate ==
    /\ stored # NoSnapshot /\ stored.payload # <<>>
    /\ stored' = [stored EXCEPT !.payload = Front(@)]
    /\ UNCHANGED <<profile, saved, saves, recorderVars>>

Corrupt ==
    /\ stored # NoSnapshot /\ stored = SnapshotOf(saved)
    /\ \/ \E k \in DOMAIN stored.payload, v \in 0..3 :
              stored' = [stored EXCEPT !.payload[k] = v]
       \/ stored' = [stored EXCEPT !.magic = "other"]
       \/ stored' = [stored EXCEPT !.version = 2]
       \/ \E n \in 0..Len(stored.payload) : stored' = [stored EXCEPT !.payload_len = n]
    /\ UNCHANGED <<profile, saved, saves, recorderVars>>

HibernationNext ==
    \/ \E c \in Blueprints, n \in Amounts : add_character(CharacterRecord(c, n))
    \/ \E n \in Amounts : Play("premium_currency", n)
    \/ serialize_snapshot
    \/ hydrate_player_into_zone
    \/ Truncate
    \/ Corrupt

SnapshotInit ==
    /\ input_ring = EmptyRing /\ keyframe_ring = EmptyRing
    /\ earliest_tick = 0 /\ latest_tick = 0
    /\ replay = NoSession
    /\ world = [e \in Actors |-> EntityStateSnapshot(0, 0)]
    /\ now = 0 /\ inputs = 0 /\ lived = <<>> /\ evicted = -1
    /\ profile = PlayerProfile(1) /\ stored = NoSnapshot /\ saved = PlayerProfile(1) /\ saves = 0

-------------------------------------------------------------------------------
SnapshotTypeOK ==
    /\ Len(input_ring.items) <= MAX_INPUT_FRAMES_CAPACITY
    /\ Len(keyframe_ring.items) <= MAX_KEYFRAMES_CAPACITY
    /\ earliest_tick <= latest_tick /\ latest_tick <= now
    /\ character_count(profile) <= MAX_ROSTER_SIZE

FramesOf(t) == {k \in DOMAIN input_ring.items : input_ring.items[k].tick = t}

\* The slots of a tick's frames are in the order they were recorded in: they
\* are all before the ring's head or all after it.
InOrder(t) ==
    \A j, k \in FramesOf(t) : j <= input_ring.head <=> k <= input_ring.head

\* The frames of a tick are all copied for the replay.
Copied(t) == Cardinality(FramesOf(t)) <= FRAME_BUF

\* A replay can be exact up to tick t: of the frames after its keyframe none is
\* gone, none is left out, and none is read before an earlier one.
Covered(kf, t) ==
    evicted <= kf.tick /\ \A n \in (kf.tick + 1)..t : Copied(n) /\ InOrder(n)

\* "Locates the nearest preceding keyframe, restores its authoritative state,
\* and forward-replays all input frames up to target_tick with 100%
\* determinism" (flight_recorder.rs:259-262).  What holds: wherever a session
\* is scrubbed to, each entity its keyframe holds is where it was in the live
\* run, and the referee reports no difference of them, as long as the frames
\* since the keyframe are still there, fit the buffer of a tick and lie in the
\* order they came in.  The entities beyond the keyframe's capacity are not in
\* the replay at all.
ReplayFaithful ==
    replay # NoSession /\ replay.current_tick \in DOMAIN lived =>
        \A kf \in find_nearest_prior_keyframe(replay.current_tick) :
            Covered(kf, replay.current_tick) =>
                LET live == Restrict(lived[replay.current_tick], DOMAIN kf.entities)
                IN  replay.entities = live /\ ~ detect_divergence(replay.current_tick, live)

\* A snapshot is read back as the profile it was taken of or is refused: no
\* truncation and no changed field of it yields another profile
\* (hibernation.rs:123-320).
SavedOrRefused ==
    stored # NoSnapshot => deserialize_snapshot(stored) \subseteq {saved}

\* An undisturbed snapshot is read back (hibernation.rs:123-320).
RoundTrip == deserialize_snapshot(SnapshotOf(profile)) = {profile}

\* A character is owned once (hibernation.rs:96-119).
OwnedOnce == \A c \in Blueprints : Cardinality(Owned(profile, c)) <= 1

\* What was recorded is read back as it was, or not at all.
SnapshotsFaithful == SnapshotTypeOK /\ ReplayFaithful /\ SavedOrRefused /\ RoundTrip /\ OwnedOnce
===============================================================================
