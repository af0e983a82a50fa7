---------------------------- MODULE VoiceInterest ----------------------------
(*****************************************************************************)
(* Who hears and who sees whom: the routing of voice to the loudest channels *)
(* of a listener (eidolon-world/src/voice_router.rs), and an observer's set  *)
(* of visible entities with their frequency tiers (eidolon-spatial/src       *)
(* aoi.rs and tier.rs).  Speakers and walls stand on a line, distances are   *)
(* in metres and squared where the code squares them, and gains are whole    *)
(* thousandths.  Stereo panning and pairing tokens are left out.             *)
(*****************************************************************************)
EXTENDS Integers, Sequences, SequencesExt, FiniteSets, FiniteSetsExt, Folds, PartialFunctions

CONSTANTS
    Voices, Ears,               \* entity ids that may speak; those that also listen
    VoiceSpots, Amplitudes,     \* positions; amplitudes in thousandths
    MAX_LISTENERS, MAX_EMITTERS, MAX_VOICE_CHANNELS_PER_LISTENER,
    Attenuations,               \* the attenuation models: kind, minimum, maximum
    Cities,                     \* sequences of structures: bounds and pieces
    MAX_HITS, AirLoss, INAUDIBLE_GAIN_THRESHOLD,
    Beings,                     \* numbers, the entities around the observer
    Ranges,                     \* their distances from the observer
    Favoured,                   \* the observer's combat target
    max_tracked, max_radius_sq, EventRoom,  \* of the set, and of the output slice
    scratch_cap                 \* the candidates an update can rank

ASSUME VoiceInterestAssumption ==
    /\ {MAX_LISTENERS, MAX_EMITTERS, MAX_VOICE_CHANNELS_PER_LISTENER} \subseteq Nat \ {0}
    /\ Ears \subseteq Voices
    /\ VoiceSpots \subseteq Int /\ Amplitudes \subseteq 0 .. 1000
    /\ Beings \subseteq Nat /\ Ranges \subseteq Nat /\ Favoured \subseteq Beings
    /\ {max_tracked, EventRoom} \subseteq Nat \ {0} /\ max_radius_sq \in Nat
    /\ scratch_cap \in Nat /\ scratch_cap >= max_tracked

VARIABLES
    listeners,      \* slots: where a listener stands, or a free slot
    emitters,       \* slots: where an emitter stands, whether it speaks, how loudly
    around,         \* entity near the observer -> its distance
    tier_model,     \* 3 or 5 tiers
    tracked,        \* the observer's visible entities -> tier, and distance at the update
    tracked_model,  \* the tier model of the last update (history)
    told,           \* the same set replayed from the events handed out (history)
    crowded, lost   \* an unranked update had too many candidates, an output too little room (history)

voiceVars == <<listeners, emitters>>
interestVars == <<around, tier_model, tracked, tracked_model, told, crowded, lost>>
voiceInterestVars == <<voiceVars, interestVars>>

(* ---------------------------------- voice ---------------------------------- *)

NoOne == [id |-> 0]
Registered(slots) == {i \in DOMAIN slots : slots[i].id # 0}

\* Registering again updates in place; else the first free slot is taken.
Placed(slots, who) ==
    LET mine == {i \in Registered(slots) : slots[i].id = who.id}
        free == DOMAIN slots \ Registered(slots)
    IN  IF mine # {} THEN [slots EXCEPT ![Min(mine)] = who]
        ELSE IF free # {} THEN [slots EXCEPT ![Min(free)] = who] ELSE slots

Freed(slots, id) == [i \in DOMAIN slots |-> IF slots[i].id = id THEN NoOne ELSE slots[i]]

register_listener(id, z) ==
    /\ listeners' = Placed(listeners, [id |-> id, pos |-> z]) /\ UNCHANGED emitters

register_emitter(id, z, model) ==
    /\ emitters' = Placed(emitters, [id |-> id, pos |-> z, speaking |-> FALSE,
                                     amplitude |-> 1000, model |-> model])
    /\ UNCHANGED listeners

unregister_listener(id) == listeners' = Freed(listeners, id) /\ UNCHANGED emitters
unregister_emitter(id) == emitters' = Freed(emitters, id) /\ UNCHANGED listeners

update_emitter_state(id, speaking, amplitude, z) ==
    /\ \E i \in Registered(emitters) : emitters[i].id = id
    /\ emitters' = [i \in DOMAIN emitters |->
                       IF emitters[i].id = id
                       THEN [emitters[i] EXCEPT !.speaking = speaking,
                                                !.amplitude = amplitude, !.pos = z]
                       ELSE emitters[i]]
    /\ UNCHANGED listeners

update_listener_state(id, z) ==
    /\ \E i \in Registered(listeners) : listeners[i].id = id
    /\ listeners' = Placed(listeners, [id |-> id, pos |-> z]) /\ UNCHANGED emitters

VoiceNext ==
    \/ \E id \in Ears, z \in VoiceSpots : register_listener(id, z) \/ update_listener_state(id, z)
    \/ \E id \in Voices, z \in VoiceSpots :
          \/ \E model \in Attenuations : register_emitter(id, z, model)
          \/ \E speaking \in BOOLEAN, a \in Amplitudes : update_emitter_state(id, speaking, a, z)
    \/ \E id \in Ears : unregister_listener(id)
    \/ \E id \in Voices : unregister_emitter(id)

Apart(x, y) == IF x < y THEN y - x ELSE x - y

calculate_gain(model, d) ==
    LET span == model.max - model.min
        left == (1000 * (model.max - d)) \div span
    IN  IF d <= model.min THEN 1000
        ELSE IF d >= model.max THEN 0
        ELSE CASE model.kind = "InverseDistance" -> (1000 * model.min) \div d
               [] model.kind = "Linear" -> left
               [] model.kind = "Exponential" -> (left * left) \div 1000

\* What passes through a piece, in thousandths: 18, 3.5 and 10 dB are lost.
transmission(piece) ==
    CASE piece.type \in {"Foundation", "Wall"} -> 126
      [] piece.type \in {"DoorFrame", "WindowWall"} -> 668
      [] OTHER -> 316

segment_intersects_bounds(x, y, box) ==
    (IF x < y THEN x ELSE y) <= box.hi /\ box.lo <= (IF x < y THEN y ELSE x)

\* The pieces crossed, up to MAX_HITS, of the structures whose bounds are crossed.
Crossed(city, x, y) ==
    LET near == SelectSeq(city, LAMBDA s : segment_intersects_bounds(x, y, s))
        pieces == FoldLeft(LAMBDA all, s : all \o s.pieces, <<>>, near)
        hits == SelectSeq(pieces, LAMBDA p : segment_intersects_bounds(x, y, p))
    IN  IF x = y THEN <<>>
        ELSE SubSeq(hits, 1, IF Len(hits) < MAX_HITS THEN Len(hits) ELSE MAX_HITS)

calculate_occlusion(city, x, y) ==
    FoldLeft(LAMBDA gain, p : (gain * transmission(p)) \div 1000, 1000, Crossed(city, x, y))

effective_gain(city, e, l) ==
    LET d == Apart(e.pos, l.pos)
        attenuated == (calculate_gain(e.model, d) * (1000 - AirLoss * d)) \div 1000
        occluded == (attenuated * calculate_occlusion(city, e.pos, l.pos)) \div 1000
    IN  (occluded * e.amplitude) \div 1000

Audible(city, e, l) ==
    /\ e.id \notin {0, l.id}
    /\ e.speaking /\ e.amplitude > 1
    /\ calculate_gain(e.model, Apart(e.pos, l.pos)) > 0
    /\ effective_gain(city, e, l) > INAUDIBLE_GAIN_THRESHOLD

\* Before the first quieter channel; a full list drops its last.
insert_channel_candidate(channels, c) ==
    LET quieter == {i \in DOMAIN channels : channels[i].gain < c.gain}
        place == IF quieter = {} THEN Len(channels) + 1 ELSE Min(quieter)
        longer == InsertAt(channels, place, c)
    IN  IF Len(longer) <= MAX_VOICE_CHANNELS_PER_LISTENER THEN longer
        ELSE SubSeq(longer, 1, MAX_VOICE_CHANNELS_PER_LISTENER)

\* evaluate_voice_mesh for one listener.
Channels(city, l) ==
    LET heard == SelectSeq(emitters, LAMBDA e : e.id # 0 /\ Audible(city, e, l))
    IN  FoldLeft(LAMBDA channels, e :
                     insert_channel_candidate(channels,
                         [speaker |-> e.id, gain |-> effective_gain(city, e, l)]),
                 <<>>, heard)

\* A listener hears the loudest of the emitters it can hear, each once and from
\* the loudest, as many as it has channels for; it never hears itself nor who is
\* silent or unregistered, wherever they all moved and in whatever slots they
\* are (voice_router.rs:672-840).
VoiceSound ==
    \A city \in Cities : \A k \in Registered(listeners) :
        LET l == listeners[k]
            channels == Channels(city, l)
            audible == {i \in Registered(emitters) : Audible(city, emitters[i], l)}
            speakers == {channels[c].speaker : c \in DOMAIN channels}
        IN  /\ Len(channels) = Min({Cardinality(audible), MAX_VOICE_CHANNELS_PER_LISTENER})
            /\ Cardinality(speakers) = Len(channels)
            /\ \A c, d \in DOMAIN channels : c < d => channels[c].gain >= channels[d].gain
            /\ \A i \in audible : emitters[i].id \notin speakers =>
                   \A c \in DOMAIN channels :
                       channels[c].gain >= effective_gain(city, emitters[i], l)

(* -------------------------------- interest --------------------------------- *)

\* Squared distances below which an entity is promoted to a tier and above which
\* it is demoted from it, and those of its first classification.
Promotion5 == <<196, 1444, 9025, 84100>>
Demotion5 == <<256, 1764, 11025, 96100>>
Initial5 == <<225, 1600, 10000, 90000>>

\* The tier of the first bound not passed, bounds[1] being tier 0's.
classify_5tier(d) == Cardinality({i \in 1..4 : d > Initial5[i]})
classify_initial(d) == IF d <= 100 THEN 0 ELSE IF d <= 2500 THEN 2 ELSE 3

update_5tier_with_hysteresis(t, d) ==
    LET closer == {n \in 0 .. t - 1 : d < Promotion5[n + 1]}
        farther == {n \in t + 1 .. 4 : d > Demotion5[n]}
    IN  IF closer # {} THEN Min(closer) ELSE IF farther # {} THEN Max(farther) ELSE t

\* The three-tier model keeps to tiers 0, 2 and 3.
update_with_hysteresis(t, d) ==
    CASE t = 0 -> IF d > 2704 THEN 3 ELSE IF d > 121 THEN 2 ELSE 0
      [] t \in {1, 2} -> IF d < 81 THEN 0 ELSE IF d > 2704 THEN 3 ELSE 2
      [] t \in {3, 4} -> IF d < 81 THEN 0 ELSE IF d < 2304 THEN 2 ELSE 3

Squared(e) == around[e] * around[e]
InRange == {e \in DOMAIN around : Squared(e) <= max_radius_sq}

NewTier(e) ==
    LET d == Squared(e) IN
    IF e \in DOMAIN tracked
    THEN IF tier_model = 5 THEN update_5tier_with_hysteresis(tracked[e].tier, d)
         ELSE update_with_hysteresis(tracked[e].tier, d)
    ELSE IF tier_model = 5 THEN classify_5tier(d) ELSE classify_initial(d)

Event(kind, e, t) == [kind |-> kind, entity |-> e, tier |-> t]

\* What the candidates of the sequence, then the entities no longer tracked,
\* make the update report.
Events(candidates, kept) ==
    LET entering == {e \in Range(candidates) : e \notin DOMAIN tracked}
        changing == {e \in Range(candidates) \cap DOMAIN tracked : tracked[e].tier # NewTier(e)}
        first == SelectSeq(candidates, LAMBDA e : e \in entering \cup changing)
        exits == SetToSortSeq(DOMAIN tracked \ kept, <)
    IN  [i \in DOMAIN first |->
            Event(IF first[i] \in entering THEN "Enter" ELSE "TierChange", first[i], NewTier(first[i]))]
        \o [i \in DOMAIN exits |-> Event("Exit", exits[i], 0)]

Replay(view, events) ==
    FoldLeft(LAMBDA v, ev : IF ev.kind = "Exit" THEN Without(v, {ev.entity})
                            ELSE With(v, ev.entity, ev.tier), view, events)

\* The tail both updates share: the double buffers are swapped and the output
\* slice takes the first events.
Commit(candidates, kept) ==
    LET events == Events(candidates, kept)
    IN  /\ tracked' = [e \in kept |-> [tier |-> NewTier(e), at |-> Squared(e)]]
        /\ tracked_model' = tier_model
        /\ told' = Replay(told, SubSeq(events, 1, IF Len(events) < EventRoom
                                                  THEN Len(events) ELSE EventRoom))
        /\ lost' = (lost \/ Len(events) > EventRoom)
        /\ UNCHANGED <<around, tier_model>>

\* The candidates come in the order of the grid query; the first max_tracked
\* are kept, and the others are reported as well.
update_visibility ==
    \E candidates \in SetToSeqs(InRange) :
        LET kept == Range(SubSeq(candidates, 1, Min({Len(candidates), max_tracked})))
        IN  /\ Commit(candidates, kept)
            /\ crowded' = (crowded \/ Len(candidates) > max_tracked)

calculate_relevance_score(e) ==
    100000000 \div (1 + Squared(e)) + (IF e \in Favoured THEN 2000000 ELSE 0)

\* The candidates that fit the scratch buffer, the grid query having any order.
Scratched ==
    IF Cardinality(InRange) <= scratch_cap THEN {InRange} ELSE kSubset(scratch_cap, InRange)

\* Those of them that are tracked, by score and then by id.
Ranked(scratch) ==
    LET ranked == SetToSortSeq(scratch, LAMBDA x, y :
                      \/ calculate_relevance_score(x) > calculate_relevance_score(y)
                      \/ calculate_relevance_score(x) = calculate_relevance_score(y) /\ x < y)
    IN  Range(SubSeq(ranked, 1, Min({Len(ranked), max_tracked})))

\* Mutated form: the entities the ranking cut are reported as well.
update_visibility_ranked_uncut ==
    \E scratch \in Scratched :
        Commit(SetToSortSeq(scratch, <), Ranked(scratch)) /\ UNCHANGED crowded

update_visibility_ranked ==
    \E scratch \in Scratched :
        Commit(SetToSortSeq(Ranked(scratch), <), Ranked(scratch)) /\ UNCHANGED crowded

set_tier_model(m) ==
    /\ tier_model' = m
    /\ UNCHANGED <<around, tracked, tracked_model, told, crowded, lost>>

\* Entities come, move and leave.
Roam(e, d) ==
    /\ around' = With(around, e, d)
    /\ UNCHANGED <<tier_model, tracked, tracked_model, told, crowded, lost>>

Leave(e) ==
    /\ around' = Without(around, {e})
    /\ UNCHANGED <<tier_model, tracked, tracked_model, told, crowded, lost>>

InterestNext ==
    \/ update_visibility \/ update_visibility_ranked
    \/ \E m \in {3, 5} : set_tier_model(m)
    \/ \E e \in Beings, d \in Ranges : Roam(e, d)
    \/ \E e \in Beings : Leave(e)

\* AoIScheduler::should_replicate, the shedding levels being 0, 1 and 2.
should_replicate(level, t, tick, changed) ==
    CASE level = 0 -> changed \/ tick % (<<2, 2, 10, 20, 100>>[t + 1]) = 0
      [] level = 1 -> t <= 2 /\ tick % (<<2, 4, 20>>[t + 1]) = 0
      [] level = 2 -> t = 0 /\ tick % 2 = 0

\* A higher shedding level never sends what a lower one does not
\* (tier.rs:153-266).
SheddingMonotone ==
    \A t \in 0..4, level \in {1, 2}, tick \in 0 .. 100, changed \in BOOLEAN :
        should_replicate(level, t, tick, changed) => should_replicate(level - 1, t, tick, changed)

\* Whoever replays the events knows every tracked entity and its tier, as long
\* as its slice had room, and knows no other one unless an unranked update met
\* more candidates than it tracks; and a tier never contradicts the distance at
\* the update by more than the deadband, across changes of the tier model
\* (aoi.rs:136-163, 290-560).
InterestSound ==
    /\ Cardinality(DOMAIN tracked) <= max_tracked
    /\ ~ lost =>
          /\ \A e \in DOMAIN tracked : e \in DOMAIN told /\ told[e] = tracked[e].tier
          /\ crowded \/ DOMAIN told = DOMAIN tracked
    /\ \A e \in DOMAIN tracked :
          LET t == tracked[e].tier
              d == tracked[e].at
          IN  IF tracked_model = 5
              THEN /\ t > 0 => d >= Promotion5[t]
                   /\ t < 4 => d <= Demotion5[t + 1]
              ELSE /\ t = 0 => d <= 121
                   /\ t = 2 => d >= 81 /\ d <= 2704
                   /\ t = 3 => d >= 2304
    /\ SheddingMonotone

-------------------------------------------------------------------------------
VoiceInterestInit ==
    /\ listeners = [i \in 1..MAX_LISTENERS |-> NoOne]
    /\ emitters = [i \in 1..MAX_EMITTERS |-> NoOne]
    /\ around = <<>> /\ tier_model = 3
    /\ tracked = <<>> /\ tracked_model = 3 /\ told = <<>>
    /\ crowded = FALSE /\ lost = FALSE

\* A listener hears the loudest it can hear, and an observer's client knows what
\* the server tracks for it (voice_router.rs:672-840, aoi.rs:290-560).
AwarenessSound == VoiceSound /\ InterestSound
===============================================================================
