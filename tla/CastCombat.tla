------------------------------ MODULE CastCombat ------------------------------
(*****************************************************************************)
(* Combat on one server: casting, cooldowns, damage and healing, from the    *)
(* action packets and the tick of crates/eidolon-server/src/facade.rs and    *)
(* the rules of crates/eidolon-world/src/ability.rs.  The clock's step is    *)
(* 10 ticks of the code, health and mana are counted in fives.  An entity    *)
(* is at one of two places: at the same place everything is in range, at     *)
(* different places nothing is, and going to the other one is a movement     *)
(* that breaks a stationary cast.                                            *)
(*****************************************************************************)
EXTENDS Naturals, Sequences, SequencesExt, FiniteSetsExt

CONSTANTS
    Entities,
    Casters,             \* the entities whose clients cast
    Known,               \* the ability ids used
    MeleeDamage,         \* the damage of a melee attack
    attack_power, armor, \* of every entity's equipment
    MAX_COOLDOWNS_PER_ENTITY,
    MaxTick              \* bound on the clock

ASSUME CombatAssumption ==
    /\ Known \subseteq 1..5 /\ Casters \subseteq Entities
    /\ MAX_COOLDOWNS_PER_ENTITY \in Nat \ {0}

VARIABLES
    current_tick,
    ents,           \* present entity -> [health, mana, pos, cast, cooldowns]
    dead_reports,   \* entity -> deaths broadcast since it last had health, up to 2 (history)
    hurt,           \* entity -> damaged since its cast started (history)
    paid,           \* entity -> casts paid for (history)
    completed,      \* entity -> casts completed (history)
    triggered       \* entity -> ability -> tick it was last used, 0 if not (history)

combatVars == <<current_tick, ents, dead_reports, hurt, paid, completed, triggered>>

MaxHealth == 20
MaxMana == 20
Places == {0, 1}
NoCast == [ability |-> 0, target |-> 0, start |-> 0, place |-> 0]

\* Fireball, Arcane Cleave, Healing Light, Frost Nova, Whirlwind.
get_ability_definition(a) ==
    CASE a = 1 -> [duration |-> 2, cooldown |-> 4, cost |-> 5, damage |-> 12,
                   heal |-> 0, shape |-> "SingleTarget", allow_movement |-> FALSE]
      [] a = 2 -> [duration |-> 0, cooldown |-> 3, cost |-> 3, damage |-> 8,
                   heal |-> 0, shape |-> "ForwardCone", allow_movement |-> TRUE]
      [] a = 3 -> [duration |-> 3, cooldown |-> 6, cost |-> 6, damage |-> 0,
                   heal |-> 16, shape |-> "SingleTarget", allow_movement |-> FALSE]
      [] a = 4 -> [duration |-> 0, cooldown |-> 10, cost |-> 7, damage |-> 7,
                   heal |-> 0, shape |-> "RadiusSphere", allow_movement |-> TRUE]
      [] a = 5 -> [duration |-> 2, cooldown |-> 3, cost |-> 4, damage |-> 10,
                   heal |-> 0, shape |-> "RadiusSphere", allow_movement |-> TRUE]

Present == DOMAIN ents

CombatTypeOK ==
    /\ current_tick \in 1..MaxTick
    /\ Present \subseteq Entities
    /\ \A e \in Present :
           /\ ents[e].health \in 0..MaxHealth
           /\ ents[e].mana \in 0..MaxMana
           /\ ents[e].pos \in Places
           /\ ents[e].cast.ability \in 0..5
           /\ Len(ents[e].cooldowns) <= MAX_COOLDOWNS_PER_ENTITY

\* What one step does to the entities and their histories.
World == [ents |-> ents, dead_reports |-> dead_reports, hurt |-> hurt,
          completed |-> completed]

SetWorld(w) ==
    /\ ents' = w.ents
    /\ dead_reports' = w.dead_reports
    /\ hurt' = w.hurt
    /\ completed' = w.completed

NewEntity(p) ==
    [health |-> MaxHealth, mana |-> MaxMana, pos |-> p, cast |-> NoCast,
     cooldowns |-> << >>]

CombatInit ==
    /\ current_tick = 1
    /\ ents = [e \in Entities |-> NewEntity(0)]
    /\ dead_reports = [e \in Entities |-> 0]
    /\ hurt = [e \in Entities |-> FALSE]
    /\ paid = [e \in Entities |-> 0]
    /\ completed = [e \in Entities |-> 0]
    /\ triggered = [e \in Entities |-> [a \in Known |-> 0]]

-------------------------------------------------------------------------------
(* Cooldowns: the entries in the order of their slots.                      *)

is_ready(cd, a) ==
    \A i \in DOMAIN cd : cd[i].ability = a => current_tick >= cd[i].ready

trigger(cd, a) ==
    LET entry   == [ability |-> a, ready |-> current_tick + get_ability_definition(a).cooldown]
        own     == {i \in DOMAIN cd : cd[i].ability = a}
        expired == {i \in DOMAIN cd : current_tick >= cd[i].ready}
    IN  IF own # {} THEN [cd EXCEPT ![Min(own)] = entry]
        ELSE IF Len(cd) < MAX_COOLDOWNS_PER_ENTITY THEN Append(cd, entry)
        ELSE IF expired # {} THEN [cd EXCEPT ![Min(expired)] = entry]
        ELSE [cd EXCEPT ![1] = entry]

-------------------------------------------------------------------------------
(* Damage and abilities.                                                    *)

\* The target's cast is interrupted; a target without health left is reported
\* dead, to everyone, by every caller.
damage_entity(w, source, target, raw) ==
    IF target \notin DOMAIN w.ents THEN w
    ELSE LET bonus  == IF source \in DOMAIN w.ents THEN attack_power ELSE 0
             total  == raw + bonus
             effect == IF total > armor THEN total - armor ELSE 1
             old    == w.ents[target].health
             left   == IF old > effect THEN old - effect ELSE 0
         IN  [w EXCEPT !.ents[target].health = left,
                       !.ents[target].cast = NoCast,
                       !.hurt[target] = TRUE,
                       !.dead_reports[target] = IF left = 0 THEN Min({@ + 1, 2}) ELSE 0]

\* The entities an ability reaches; front are those before the caster.  No
\* ability has the fourth shape, ForwardBox.
Hits(w, caster, target, shape, front) ==
    LET near == {e \in DOMAIN w.ents : w.ents[e].pos = w.ents[caster].pos}
    IN  CASE shape = "SingleTarget" -> near \intersect {target}
          [] shape = "RadiusSphere" -> near \ {caster}
          [] shape = "ForwardCone"  -> (near \ {caster}) \intersect front

take_effect(w, caster, a, target, front) ==
    LET def  == get_ability_definition(a)
        hits == Hits(w, caster, target, def.shape, front)
        done == [w EXCEPT !.completed[caster] = @ + 1]
        heal(x, e) == [x EXCEPT !.ents[e].health = Min({@ + def.heal, MaxHealth}),
                                !.dead_reports[e] = 0]
    IN  IF def.damage > 0
        THEN FoldSet(LAMBDA e, x : damage_entity(x, caster, e, def.damage), done, hits)
        ELSE FoldSet(LAMBDA e, x : heal(x, e), done, hits)

\* Mutated form: a caster killed by another cast of the same tick has no effect.
resolve_ability_completion_alive(w, caster, a, target, front) ==
    IF caster \in DOMAIN w.ents /\ w.ents[caster].health > 0
    THEN take_effect(w, caster, a, target, front) ELSE w

resolve_ability_completion(w, caster, a, target, front) ==
    IF caster \in DOMAIN w.ents THEN take_effect(w, caster, a, target, front) ELSE w

-------------------------------------------------------------------------------
(* The packets.                                                             *)

\* Action 1.  The source need not be in the world any more.
melee_attack(source, target) ==
    /\ SetWorld(damage_entity(World, source, target, MeleeDamage))
    /\ UNCHANGED <<current_tick, paid, triggered>>

\* Action 2.  The cast in progress, if any, is replaced without a word; an
\* instant ability leaves it alone.
cast_ability(e, a, target, front) ==
    LET def == get_ability_definition(a)
        en  == ents[e]
        charged == [World EXCEPT
            !.ents[e].mana = @ - def.cost,
            !.ents[e].cooldowns = trigger(@, a)]
    IN  /\ e \in Present
        /\ en.mana >= def.cost
        /\ is_ready(en.cooldowns, a)
        /\ paid' = [paid EXCEPT ![e] = @ + 1]
        /\ triggered' = [triggered EXCEPT ![e][a] = current_tick]
        /\ SetWorld(
              IF def.duration = 0
              THEN resolve_ability_completion(charged, e, a, target, front)
              ELSE [charged EXCEPT
                       !.ents[e].cast = [ability |-> a, target |-> target,
                                         start |-> current_tick, place |-> en.pos],
                       !.hurt[e] = FALSE])
        /\ UNCHANGED current_tick

\* A kicked player, and a player who connects.
despawn_entity(e) ==
    /\ e \in Present
    /\ ents' = [x \in Present \ {e} |-> ents[x]]
    /\ UNCHANGED <<current_tick, dead_reports, hurt, paid, completed, triggered>>

spawn_player(e) ==
    /\ e \notin Present
    /\ ents' = [x \in Present \union {e} |-> IF x = e THEN NewEntity(0) ELSE ents[x]]
    /\ dead_reports' = [dead_reports EXCEPT ![e] = 0]
    /\ hurt' = [hurt EXCEPT ![e] = FALSE]
    /\ paid' = [paid EXCEPT ![e] = 0]
    /\ completed' = [completed EXCEPT ![e] = 0]
    /\ triggered' = [triggered EXCEPT ![e] = [a \in Known |-> 0]]
    /\ UNCHANGED current_tick

-------------------------------------------------------------------------------
(* The tick: movement, cast bars, completed casts in any order, mana.       *)

Casting(en) == en.cast.ability # 0

Interrupted(en) ==
    /\ Casting(en)
    /\ ~get_ability_definition(en.cast.ability).allow_movement
    /\ en.pos # en.cast.place

Completes(en) ==
    /\ Casting(en)
    /\ ~Interrupted(en)
    /\ current_tick >= en.cast.start + get_ability_definition(en.cast.ability).duration

progress(en) ==
    IF Interrupted(en) \/ Completes(en) THEN [en EXCEPT !.cast = NoCast] ELSE en

regenerate(en) ==
    IF current_tick % 2 = 0 THEN [en EXCEPT !.mana = Min({@ + 1, MaxMana})] ELSE en

tick(moved) ==
    LET walked   == [e \in Present |->
                        IF e \in moved THEN [ents[e] EXCEPT !.pos = 1 - @] ELSE ents[e]]
        complete == {e \in Present : Completes(walked[e])}
        idle     == [World EXCEPT !.ents = [e \in Present |-> progress(walked[e])]]
        resolve(w, e) == resolve_ability_completion(
                             w, e, walked[e].cast.ability, walked[e].cast.target, {})
    IN  /\ current_tick < MaxTick
        /\ current_tick' = current_tick + 1
        /\ \E order \in SetToSeqs(complete) :
               LET w == FoldLeft(resolve, idle, order)
               IN  SetWorld([w EXCEPT !.ents = [e \in Present |-> regenerate(w.ents[e])]])
        /\ UNCHANGED <<paid, triggered>>

CombatNext ==
    \/ \E s, t \in Entities : melee_attack(s, t)
    \/ \E e \in Casters, t \in Entities, a \in Known, f \in SUBSET Entities : cast_ability(e, a, t, f)
    \/ \E e \in Entities : despawn_entity(e) \/ spawn_player(e)
    \/ \E m \in SUBSET Present : tick(m)

CombatSpec == CombatInit /\ [][CombatNext]_combatVars

-------------------------------------------------------------------------------
\* A cast in progress has not been disturbed: its caster was not damaged and,
\* unless the ability allows it, has not moved since it started, and the cast
\* is not overdue (facade.rs:711-740, 816-848).
CastUndisturbed ==
    \A e \in Present : Casting(ents[e]) =>
        LET def == get_ability_definition(ents[e].cast.ability)
        IN  /\ ~hurt[e]
            /\ def.allow_movement \/ ents[e].pos = ents[e].cast.place
            /\ current_tick <= ents[e].cast.start + def.duration

\* An ability takes effect at most once for each time its cost and cooldown
\* were paid, with casts completing, being replaced and interrupted in any
\* order (facade.rs:816-856, 1282-1330).
EffectsArePaidFor ==
    \A e \in Present :
        completed[e] + (IF Casting(ents[e]) THEN 1 ELSE 0) <= paid[e]

\* Two uses of an ability by one entity are at least its cooldown apart, as
\* long as the table holds all the abilities in use (ability.rs:268-312).
CooldownHonoured ==
    [][\A e \in Entities : \A a \in DOMAIN triggered[e] :
          LET before == triggered[e][a]
              after  == triggered'[e][a]
          IN  before # 0 /\ after > before =>
                  after - before >= get_ability_definition(a).cooldown]_combatVars

\* An entity's death is reported once: damage_entity "returns `true` if
\* target entity was killed" (facade.rs:712), upon which the callers
\* broadcast the death and send loot.
DeathReportedOnce == \A e \in Entities : dead_reports[e] <= 1

\* The casts that are due in a tick all take effect, in whatever order they are
\* resolved: not even a caster that another of them has killed loses its own,
\* and nothing that happens in the tick but its movement can cancel a due cast
\* (facade.rs:816-856).
DueCastsResolve ==
    [][current_tick' # current_tick =>
          \A e \in Present :
              LET en  == ents[e]
                  def == get_ability_definition(en.cast.ability)
              IN  /\ Casting(en)
                  /\ current_tick >= en.cast.start + def.duration
                  /\ def.allow_movement \/ ents'[e].pos = en.cast.place
                  => completed'[e] = completed[e] + 1]_combatVars

\* Casts are undisturbed, take effect no more often than they were paid for,
\* never before the cooldown is over, and all of them when due
\* (facade.rs:711-856, ability.rs).
CastsFair ==
    /\ [](CombatTypeOK /\ CastUndisturbed /\ EffectsArePaidFor)
    /\ CooldownHonoured
    /\ DueCastsResolve
===============================================================================
