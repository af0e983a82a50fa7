------------------------------- MODULE Society -------------------------------
(*****************************************************************************)
(* Social institutions and instances of the world crate: guilds, alliances   *)
(* and standings (eidolon-world/src/social.rs), land claims (territory.rs),  *)
(* the pool of dungeon rooms (instance.rs) and the negotiation of asset      *)
(* patches (companion.rs); the rate limiter of the chat (chat.rs); and       *)
(* parties (party.rs) behind the party commands of the server (facade.rs,    *)
(* action 6: invite, accept, leave) with their own decline and promotion.    *)
(* Permission masks are sets of permissions.  A point is looked up in the    *)
(* plots' bounds by the caller.                                              *)
(*****************************************************************************)
EXTENDS Integers, Sequences, SequencesExt, FiniteSets, PartialFunctions

CONSTANTS
    GuildAccounts, GuildMaster, MAX_GUILD_MEMBERS,
    GuildIds, AllianceIds,      \* numbers; a plot's guild 0 is none
    Scores,                     \* standings that are set
    PlotIds,
    Durations,                  \* claims and refreshes, in ticks
    MaxSocietyTick, MaxUpkeep,  \* bounds: the ticks, and the tick paid up to
    MAX_ROOMS, MAX_RAIDERS,     \* rooms of the pool; MAX_PARTY_MEMBERS of a room
    Raiders,                    \* player entities
    BossHealth, RAID_TIMEOUT, ROOM_CLEANUP_TIMEOUT,
    MaxInstances,               \* bound on the rooms ever allocated
    Digests, RequiredDigest

ASSUME SocietyAssumption ==
    /\ GuildMaster \in GuildAccounts /\ MAX_GUILD_MEMBERS \in Nat \ {0}
    /\ GuildIds \subseteq Nat \ {0} /\ AllianceIds \subseteq Nat /\ Scores \subseteq Int
    /\ Durations \subseteq Nat /\ {MaxSocietyTick, MaxUpkeep} \subseteq Nat
    /\ {MAX_ROOMS, MAX_RAIDERS} \subseteq Nat \ {0} /\ 0 \notin Raiders
    /\ {BossHealth, RAID_TIMEOUT, ROOM_CLEANUP_TIMEOUT, MaxInstances} \subseteq Nat
    /\ ROOM_CLEANUP_TIMEOUT <= RAID_TIMEOUT /\ RequiredDigest \in Digests

VARIABLES
    guild,          \* account -> rank, for the members of the guild
    alliances,      \* alliance id -> its leader and its members in order
    standings,      \* <<source, target>> -> score, for the ones set
    plots,          \* registered plot -> owning guild, 0 if none, and its expiry
    held,           \* plot -> the guild whose claim was paid, and until when (history)
    societyTick,
    pool,           \* DungeonPool: rooms, free_slots, active_count, next_id
    patch,          \* the negotiator's state
    presented       \* a matching digest was shown and no later manifest differed (history)

guildVars == <<guild, alliances>>
plotVars == <<plots, held, societyTick>>
patchVars == <<patch, presented>>
societyVars == <<guildVars, standings, plotVars, pool, patchVars>>

(* --------------------------------- guilds --------------------------------- *)

GuildPermissions == {"INVITE", "KICK", "PROMOTE", "DEMOTE", "VAULT_DEPOSIT",
                     "VAULT_WITHDRAW", "CLAIM_TERRITORY", "MANAGE_DIPLOMACY", "EDIT_RANKS"}

\* Guild::new, the default hierarchy.
rank_permissions(rank) ==
    (IF rank >= 1 THEN {"VAULT_DEPOSIT"} ELSE {})
    \cup (IF rank >= 2 THEN {"VAULT_WITHDRAW"} ELSE {})
    \cup (IF rank >= 3 THEN {"INVITE", "KICK"} ELSE {})
    \cup (IF rank >= 4 THEN {"PROMOTE", "DEMOTE"} ELSE {})
    \cup (IF rank >= 5 THEN {"CLAIM_TERRITORY"} ELSE {})
    \cup (IF rank >= 6 THEN {"MANAGE_DIPLOMACY"} ELSE {})
    \cup (IF rank >= 7 THEN GuildPermissions ELSE {})

guild_has_permission(a, perms) ==
    \/ a = GuildMaster
    \/ a \in DOMAIN guild /\ perms \subseteq rank_permissions(guild[a])

guild_add_member(a) ==
    /\ Cardinality(DOMAIN guild) < MAX_GUILD_MEMBERS
    /\ a \notin DOMAIN guild
    /\ guild' = With(guild, a, 0)
    /\ UNCHANGED alliances

guild_remove_member(a) ==
    /\ a # GuildMaster /\ a \in DOMAIN guild
    /\ guild' = Without(guild, {a})
    /\ UNCHANGED alliances

\* Mutated form: an actor may grant its own rank.
set_rank_own(actor, target, new_rank) ==
    /\ new_rank <= 7 /\ target # GuildMaster
    /\ {actor, target} \subseteq DOMAIN guild
    /\ guild[actor] >= new_rank
    /\ guild' = [guild EXCEPT ![target] = new_rank]
    /\ UNCHANGED alliances

\* Actors grant ranks below their own, to members of any rank.
set_rank(actor, target, new_rank) ==
    /\ new_rank <= 7 /\ target # GuildMaster
    /\ {actor, target} \subseteq DOMAIN guild
    /\ guild[actor] > new_rank
    /\ guild' = [guild EXCEPT ![target] = new_rank]
    /\ UNCHANGED alliances

contains_guild(al, g) == g \in ToSet(al.member_guild_ids)

create_alliance(id, g) ==
    /\ id \notin DOMAIN alliances
    /\ alliances' = With(alliances, id, [leader_guild_id |-> g, member_guild_ids |-> <<g>>])
    /\ UNCHANGED guild

add_guild(id, g) ==
    /\ id \in DOMAIN alliances
    /\ ~ contains_guild(alliances[id], g)
    /\ alliances' = [alliances EXCEPT ![id].member_guild_ids = Append(@, g)]
    /\ UNCHANGED guild

remove_guild(id, g) ==
    /\ id \in DOMAIN alliances
    /\ g # alliances[id].leader_guild_id /\ contains_guild(alliances[id], g)
    /\ alliances' = [alliances EXCEPT ![id].member_guild_ids =
                        LET i == CHOOSE j \in DOMAIN @ : @[j] = g IN RemoveAt(@, i)]
    /\ UNCHANGED guild

clamp(score) == IF score < -10000 THEN -10000 ELSE IF score > 10000 THEN 10000 ELSE score

set_standing(source, target, score) ==
    standings' = With(standings, <<source, target>>, clamp(score))

get_standing_score(source, target) ==
    IF source = target THEN 10000
    ELSE IF <<source, target>> \in DOMAIN standings THEN standings[<<source, target>>] ELSE 0

get_diplomatic_status(source, target) ==
    LET score == get_standing_score(source, target)
    IN  CASE score <= -6000 -> "AtWar"
          [] score > -6000 /\ score <= -2000 -> "Hostile"
          [] score > -2000 /\ score < 2000 -> "Neutral"
          [] score >= 2000 /\ score < 6000 -> "Friendly"
          [] OTHER -> "Allied"

GuildInit ==
    /\ guild = [a \in {GuildMaster} |-> 7]
    /\ alliances = << >>

GuildNext ==
    \/ \E a, b \in GuildAccounts : \E rank \in 0..8 : set_rank(a, b, rank)
    \/ \E a \in GuildAccounts : guild_add_member(a) \/ guild_remove_member(a)
    \/ \E id \in AllianceIds, g \in GuildIds :
           create_alliance(id, g) \/ add_guild(id, g) \/ remove_guild(id, g)

StandingsNext == \E g, h \in GuildIds, score \in Scores : set_standing(g, h, score)

(* --------------------------------- claims --------------------------------- *)

NoClaim == [owning_guild_id |-> 0, upkeep_expires_tick |-> 0]
Unheld == [guild |-> 0, until |-> 0]

TerritoryPermissions == {"ENTER", "BUILD", "ACCESS_CONTAINERS", "HARVEST", "USE_PORTALS", "PVP_GUARD"}
public_permissions == {"ENTER"}
alliance_permissions == {"ENTER", "USE_PORTALS"}

is_claim_active(p) ==
    plots[p].owning_guild_id # 0 /\ societyTick < plots[p].upkeep_expires_tick

\* The actor's guild is 0 if it has none.
plot_has_permission(p, actor, is_allied, perms) ==
    is_claim_active(p) =>
        perms \subseteq (IF actor = plots[p].owning_guild_id THEN TerritoryPermissions
                         ELSE IF is_allied THEN alliance_permissions
                         ELSE public_permissions)

\* Registering a plot again forgets its claim.
register_plot(p) ==
    /\ plots' = With(plots, p, NoClaim)
    /\ held' = [held EXCEPT ![p] = Unheld]
    /\ UNCHANGED societyTick

claim_plot(p, g, duration) ==
    /\ duration # 0
    /\ p \in DOMAIN plots
    /\ is_claim_active(p) => plots[p].owning_guild_id = g
    /\ plots' = [plots EXCEPT ![p] = [owning_guild_id |-> g,
                                      upkeep_expires_tick |-> societyTick + duration]]
    /\ held' = [held EXCEPT ![p] = [guild |-> g, until |-> societyTick + duration]]
    /\ UNCHANGED societyTick

\* The last owner may pay on, also after its claim lapsed.
refresh_upkeep(p, g, additional) ==
    LET base == IF plots[p].upkeep_expires_tick > societyTick
                THEN plots[p].upkeep_expires_tick ELSE societyTick
    IN  /\ p \in DOMAIN plots /\ plots[p].owning_guild_id = g
        /\ base + additional <= MaxUpkeep
        /\ plots' = [plots EXCEPT ![p].upkeep_expires_tick = base + additional]
        /\ held' = [held EXCEPT ![p] = [guild |-> g,
                       until |-> (IF @.until > societyTick THEN @.until ELSE societyTick)
                                     + additional]]
        /\ UNCHANGED societyTick

relinquish_claim(p) ==
    /\ p \in DOMAIN plots
    /\ plots' = [plots EXCEPT ![p] = NoClaim]
    /\ held' = [held EXCEPT ![p] = Unheld]
    /\ UNCHANGED societyTick

PlotInit == plots = << >> /\ held = [p \in PlotIds |-> Unheld] /\ societyTick = 0

PlotNext ==
    \/ \E p \in PlotIds :
        \/ register_plot(p) \/ relinquish_claim(p)
        \/ \E g \in GuildIds, d \in Durations : claim_plot(p, g, d) \/ refresh_upkeep(p, g, d)
    \/ societyTick < MaxSocietyTick /\ societyTick' = societyTick + 1 /\ UNCHANGED <<plots, held>>

(* --------------------------------- rooms ---------------------------------- *)

RoomSlots == 0..(MAX_ROOMS - 1)
NoRoom == [id |-> 0]

NewRoom(id) ==
    [id |-> id, state |-> "Allocated", party_members |-> [i \in 1..MAX_RAIDERS |-> 0],
     party_count |-> 0, elapsed_ticks |-> 0, boss_health |-> BossHealth]

RoomOf(id) == {r \in RoomSlots : pool.rooms[r] # NoRoom /\ pool.rooms[r].id = id}

\* The lowest free slot is on top of the stack.
allocate_instance ==
    /\ pool.free_slots # <<>> /\ pool.next_id <= MaxInstances
    /\ LET slot == Last(pool.free_slots)
       IN  pool' = [rooms |-> [pool.rooms EXCEPT ![slot] = NewRoom(pool.next_id)],
                    free_slots |-> Front(pool.free_slots),
                    active_count |-> pool.active_count + 1,
                    next_id |-> pool.next_id + 1]

\* The slot of a room that goes is free again.
Recycled(p, slot) ==
    [p EXCEPT !.rooms[slot] = NoRoom, !.active_count = @ - 1,
              !.free_slots = IF Len(@) < MAX_ROOMS THEN Append(@, slot) ELSE @]

deallocate_instance(id) == \E r \in RoomOf(id) : pool' = Recycled(pool, r)

\* A raider takes a place, or leaves it, and the last one ends the raid.
Entered(room, slot, player) ==
    [room EXCEPT !.party_members[slot] = player, !.party_count = room.party_count + 1,
                 !.state = IF room.state = "Allocated" THEN "ActiveCombat" ELSE room.state]

Vacated(room, slot) ==
    [room EXCEPT !.party_members[slot] = 0, !.party_count = room.party_count - 1,
                 !.state = IF room.party_count = 1 THEN "PendingCleanup" ELSE room.state]

join_party(id, player) ==
    \E r \in RoomOf(id) :
        LET room == pool.rooms[r]
            free == {i \in 1..MAX_RAIDERS : room.party_members[i] = 0}
        IN  /\ room.state # "PendingCleanup"
            /\ player \notin ToSet(room.party_members) /\ free # {}
            /\ LET slot == CHOOSE i \in free : \A j \in free : i <= j
               IN  pool' = [pool EXCEPT !.rooms[r] = Entered(room, slot, player)]

patch_leave_party(id, player) ==
    \E r \in RoomOf(id) : \E slot \in 1..MAX_RAIDERS :
        /\ pool.rooms[r].party_members[slot] = player
        /\ pool' = [pool EXCEPT !.rooms[r] = Vacated(pool.rooms[r], slot)]

\* The boss is defeated at the last of its health.
Damaged(room, left) ==
    [room EXCEPT !.boss_health = left,
                 !.state = IF left = 0 THEN "VictoryReward" ELSE room.state]

apply_boss_damage(id, damage) ==
    \E r \in RoomOf(id) :
        LET room == pool.rooms[r]
            left == IF room.boss_health > damage THEN room.boss_health - damage ELSE 0
        IN  /\ room.state = "ActiveCombat"
            /\ pool' = [pool EXCEPT !.rooms[r] = Damaged(room, left)]

\* DungeonInstance::tick; both timeouts are counted from the allocation, and ticks
\* past the later one need not be told apart.
TickRoom(room) ==
    LET now == IF room.elapsed_ticks > RAID_TIMEOUT THEN room.elapsed_ticks
               ELSE room.elapsed_ticks + 1
        expired == \/ room.state = "ActiveCombat" /\ now > RAID_TIMEOUT
                   \/ room.state = "VictoryReward" /\ now > ROOM_CLEANUP_TIMEOUT
    IN  [room EXCEPT !.elapsed_ticks = now, !.state = IF expired THEN "PendingCleanup" ELSE @]

\* A room that was waiting for it goes; one that begins to wait goes at the next tick.
TickSlot(p, slot) ==
    IF p.rooms[slot] = NoRoom THEN p
    ELSE IF p.rooms[slot].state = "PendingCleanup" THEN Recycled(p, slot)
    ELSE [p EXCEPT !.rooms[slot] = TickRoom(@)]

tick_all == pool' = FoldLeft(TickSlot, pool, [i \in 1..MAX_ROOMS |-> i - 1])

PoolInit ==
    pool = [rooms |-> [r \in RoomSlots |-> NoRoom],
            free_slots |-> [i \in 1..MAX_ROOMS |-> MAX_ROOMS - i],
            active_count |-> 0, next_id |-> 1]

PoolNext ==
    \/ allocate_instance
    \/ \E id \in 1..MaxInstances :
        \/ deallocate_instance(id)
        \/ \E player \in Raiders : join_party(id, player) \/ patch_leave_party(id, player)
        \/ apply_boss_damage(id, 1)
    \/ tick_all

(* --------------------------------- patches -------------------------------- *)

evaluate_client_manifest(digest) ==
    /\ patch' = IF digest = RequiredDigest THEN [state |-> "Synchronized"]
                ELSE [state |-> "DeltaRequired"]
    /\ presented' = (digest = RequiredDigest)

update_progress(pct) ==
    /\ patch.state \in {"DeltaRequired", "ApplyingPatch"}
    /\ patch' = [state |-> "ApplyingPatch", progress_pct |-> IF pct < 100 THEN pct ELSE 100]
    /\ UNCHANGED presented

\* The digest decides, whatever the progress.
complete_patch(digest) ==
    /\ digest = RequiredDigest
    /\ patch' = [state |-> "Synchronized"]
    /\ presented' = TRUE

PatchInit == patch = [state |-> "CheckingVersion"] /\ presented = FALSE

PatchNext ==
    \/ \E digest \in Digests : evaluate_client_manifest(digest) \/ complete_patch(digest)
    \/ \E pct \in {0, 100, 101} : update_progress(pct)

SocietyInit == GuildInit /\ standings = << >> /\ PlotInit /\ PoolInit /\ PatchInit

-------------------------------------------------------------------------------
(* The master leads the guild alone and cannot be moved, only members and    *)
(* the master have permissions, and an alliance has its leader and each      *)
(* guild once, through promotions, demotions and departures.                 *)
GuildsSound ==
    /\ GuildMaster \in DOMAIN guild /\ guild[GuildMaster] = 7
    /\ \A a \in DOMAIN guild \ {GuildMaster} : guild[a] \in 0..6
    /\ \A a \in GuildAccounts \ {GuildMaster} :
           /\ ~ guild_has_permission(a, {"EDIT_RANKS"})
           /\ a \notin DOMAIN guild => ~ guild_has_permission(a, {"VAULT_DEPOSIT"})
    /\ Cardinality(DOMAIN guild) <= MAX_GUILD_MEMBERS
    /\ \A id \in DOMAIN alliances :
           LET members == alliances[id].member_guild_ids
           IN  /\ IsInjective(members)
               /\ contains_guild(alliances[id], alliances[id].leader_guild_id)
    /\ \A g \in GuildIds, h \in GuildIds :
           get_diplomatic_status(g, h) = "AtWar" => g # h /\ standings[<<g, h>>] \in -10000..-6000

(* A claim that was paid for keeps others from building until it ends,       *)
(* whatever is claimed, refreshed and given up around it.                    *)
ClaimsKept ==
    \A p \in DOMAIN plots : \A g \in GuildIds \cup {0} :
        IF societyTick < held[p].until
        THEN plot_has_permission(p, g, FALSE, {"BUILD"}) <=> g = held[p].guild
        ELSE plot_has_permission(p, g, FALSE, {"BUILD"})

(* The stack of free slots holds exactly the empty ones, each once, and a    *)
(* room's party, count and stage agree.                                      *)
RoomsSound ==
    LET occupied == {r \in RoomSlots : pool.rooms[r] # NoRoom}
    IN  /\ IsInjective(pool.free_slots) /\ ToSet(pool.free_slots) = RoomSlots \ occupied
        /\ pool.active_count = Cardinality(occupied)
        /\ \A r, s \in occupied : pool.rooms[r].id = pool.rooms[s].id => r = s
        /\ \A r \in occupied :
               LET room == pool.rooms[r]
                   inside == {i \in 1..MAX_RAIDERS : room.party_members[i] # 0}
               IN  /\ room.party_count = Cardinality(inside)
                   /\ \A i, j \in inside : room.party_members[i] = room.party_members[j] => i = j
                   /\ room.state = "Allocated" => inside = {}
                   /\ room.state \in {"ActiveCombat", "VictoryReward"} => inside # {}
                   /\ room.state = "VictoryReward" => room.boss_health = 0

(* Guilds, claims, rooms and patches stay consistent (social.rs,             *)
(* territory.rs, instance.rs, companion.rs); a client counts as synchronized *)
(* only if the digest it showed is the required one.                         *)
SocietySound ==
    GuildsSound /\ ClaimsKept /\ RoomsSound /\ (patch.state = "Synchronized" <=> presented)

-------------------------------------------------------------------------------
(* ChatRateLimiter (eidolon-world/src/chat.rs): token buckets in an          *)
(* open-addressed table that is probed for a fixed number of steps and never *)
(* gives a slot back.  Which accounts collide follows from their ids and the *)
(* hash's multiplier.                                                        *)

CONSTANTS
    Chatters, NoAccount,         \* account ids, and a number that is none
    Multiplier,                  \* of the multiplicative hash
    CHAT_RATE_LIMITER_SLOTS,
    Probes,                      \* linear probing steps (16 in the code)
    capacity, replenish_interval_ticks,
    ChatMaxTick                      \* bound on the ticks

ASSUME ChatAssumption ==
    /\ Chatters \subseteq Nat /\ NoAccount \in Nat \ Chatters
    /\ Multiplier \in Nat /\ CHAT_RATE_LIMITER_SLOTS \in Nat \ {0}
    /\ Probes \in 1..CHAT_RATE_LIMITER_SLOTS
    /\ capacity \in Nat \ {0} /\ replenish_interval_ticks \in Nat \ {0} /\ ChatMaxTick \in Nat

VARIABLES
    chat_tick,            \* the server's current_tick
    buckets,           \* slot -> [id, tokens, last_replenish_tick]
    first,           \* account -> tick of its first message (history)
    accepted,        \* account -> its accepted messages (history)
    latest,          \* account -> tick of its latest accepted message (history)
    refused          \* the account just refused, if any (history)

chatVars == <<chat_tick, buckets, first, accepted, latest, refused>>

BucketSlots == 0..(CHAT_RATE_LIMITER_SLOTS - 1)
NeverTick == ChatMaxTick + 1

ChatTypeOK ==
    /\ chat_tick \in 0..ChatMaxTick
    /\ buckets \in [BucketSlots -> [id : Chatters \union {NoAccount}, tokens : 0..capacity,
                            last_replenish_tick : 0..ChatMaxTick]]
    /\ first \in [Chatters -> 0..NeverTick]
    /\ accepted \in [Chatters -> Nat]
    /\ latest \in [Chatters -> 0..NeverTick]
    /\ refused \in Chatters \union {NoAccount}

EmptySlot == [id |-> NoAccount, tokens |-> 0, last_replenish_tick |-> 0]

ChatInit ==
    /\ chat_tick = 0
    /\ buckets = [s \in BucketSlots |-> EmptySlot]
    /\ first = [a \in Chatters |-> NeverTick]
    /\ accepted = [a \in Chatters |-> 0]
    /\ latest = [a \in Chatters |-> NeverTick]
    /\ refused = NoAccount

\* The slot n probing steps after the account's own.
Probe(a, n) == (a * Multiplier + n) % CHAT_RATE_LIMITER_SLOTS

\* The probing steps at which the account's slot, or an empty one, is met.
target_slot(a) == {n \in 0..(Probes - 1) : buckets[Probe(a, n)].id = a}
empty_slot(a) == {n \in 0..(Probes - 1) : buckets[Probe(a, n)].id = NoAccount}

\* The account's slot if it is met, else the first empty one, else the one
\* after the last probed.
slot_idx(a) ==
    IF target_slot(a) # {} THEN Probe(a, Min(target_slot(a)))
    ELSE IF empty_slot(a) # {} THEN Probe(a, Min(empty_slot(a)))
    ELSE Probe(a, Probes)

replenish(b) ==
    LET added == (chat_tick - b.last_replenish_tick) \div replenish_interval_ticks
    IN  IF chat_tick > b.last_replenish_tick /\ added > 0
        THEN [b EXCEPT !.tokens = Min({b.tokens + added, capacity}),
                       !.last_replenish_tick = @ + added * replenish_interval_ticks]
        ELSE b

\* A chat message of account a: its bucket is found, or a full one is written
\* over whatever the slot held; then it is refilled and a token is taken.
check_and_consume(a) ==
    LET s == slot_idx(a)
        b == replenish(IF target_slot(a) # {} THEN buckets[s]
                       ELSE [id |-> a, tokens |-> capacity, last_replenish_tick |-> chat_tick])
    IN  /\ first' = [first EXCEPT ![a] = IF @ = NeverTick THEN chat_tick ELSE @]
        /\ IF b.tokens = 0
           THEN /\ buckets' = [buckets EXCEPT ![s] = b]
                /\ refused' = a
                /\ UNCHANGED <<accepted, latest>>
           ELSE /\ buckets' = [buckets EXCEPT ![s] = [b EXCEPT !.tokens = @ - 1]]
                /\ accepted' = [accepted EXCEPT ![a] = @ + 1]
                /\ latest' = [latest EXCEPT ![a] = chat_tick]
                /\ refused' = NoAccount
        /\ UNCHANGED chat_tick

NextTick ==
    /\ chat_tick < ChatMaxTick
    /\ chat_tick' = chat_tick + 1
    /\ refused' = NoAccount
    /\ UNCHANGED <<buckets, first, accepted, latest>>

ChatNext == NextTick \/ \E a \in Chatters : check_and_consume(a)

ChatSpec == ChatInit /\ [][ChatNext]_chatVars

-------------------------------------------------------------------------------
\* An account never gets more messages through than its burst plus one per
\* interval since its first: "Verifies if an account is permitted to send a
\* message, consuming 1 token" (chat.rs:101-103).
AcceptedWithinRate ==
    \A a \in Chatters : accepted[a] > 0 =>
        accepted[a] <= capacity + (chat_tick - first[a]) \div replenish_interval_ticks

\* Whoever is refused had a message accepted less than an interval ago,
\* however often it tried meanwhile: a refused check costs nothing
\* (chat.rs:153-165).
RefusedOnlyWhenRecent ==
    refused # NoAccount =>
        latest[refused] # NeverTick /\ chat_tick - latest[refused] < replenish_interval_ticks

\* Nobody gets more messages through than the rate allows, and nobody is
\* refused who kept to it (chat.rs:104-165).
ChatRateKept ==
    /\ ChatTypeOK
    /\ AcceptedWithinRate
    /\ RefusedOnlyWhenRecent

-------------------------------------------------------------------------------
(* PartyManager (eidolon-world/src/party.rs): a party is its leader and the  *)
(* sequence of its members, oldest first; vitals are left out.               *)

CONSTANTS
    Accounts,
    MAX_GROUP_MEMBERS,
    MaxParties           \* bound on the parties ever created

ASSUME PartyAssumption ==
    MAX_GROUP_MEMBERS \in Nat \ {0} /\ MaxParties \in Nat

VARIABLES
    next_party_id,
    parties,             \* party id -> [leader_account_id, members]
    account_to_party,    \* account -> party id, for the accounts in a party
    pending_invites      \* account -> party id, for the accounts invited

partyVars == <<next_party_id, parties, account_to_party, pending_invites>>

PartyIds == 1..MaxParties

Index == UNION {[S -> PartyIds] : S \in SUBSET Accounts}

PartyTypeOK ==
    /\ next_party_id \in 1..(MaxParties + 1)
    /\ DOMAIN parties \subseteq PartyIds
    /\ \A pid \in DOMAIN parties :
           /\ parties[pid].leader_account_id \in Accounts
           /\ parties[pid].members \in Seq(Accounts)
           /\ Len(parties[pid].members) <= MAX_GROUP_MEMBERS
    /\ account_to_party \in Index
    /\ pending_invites \in Index

PartyInit ==
    /\ next_party_id = 1
    /\ parties = << >>
    /\ account_to_party = << >>
    /\ pending_invites = << >>

-------------------------------------------------------------------------------
is_member(p, a) == a \in ToSet(p.members)

Full(p) == Len(p.members) >= MAX_GROUP_MEMBERS

\* A party of the caller alone, under the next id.
NewParty(a) == [leader_account_id |-> a, members |-> <<a>>]

\* Invite by a caller who is in a party: only its leader, into a party with
\* room, an account that is in none.
invite_player(a, target) ==
    LET pid == account_to_party[a] IN
    /\ a \in DOMAIN account_to_party
    /\ IF /\ parties[pid].leader_account_id = a
          /\ ~Full(parties[pid])
          /\ target \notin DOMAIN account_to_party
       THEN pending_invites' = With(pending_invites, target, pid)
       ELSE UNCHANGED pending_invites
    /\ UNCHANGED <<next_party_id, parties, account_to_party>>

\* Invite by a caller who is in no party: one is created first, and the
\* invitation then goes through unless the target is in a party (the caller
\* itself now is) or a party has room for one only.
create_party(a, target) ==
    /\ a \notin DOMAIN account_to_party
    /\ next_party_id <= MaxParties
    /\ next_party_id' = next_party_id + 1
    /\ parties' = With(parties, next_party_id, NewParty(a))
    /\ account_to_party' = With(account_to_party, a, next_party_id)
    /\ IF /\ ~Full(NewParty(a))
          /\ target \notin DOMAIN account_to_party'
       THEN pending_invites' = With(pending_invites, target, next_party_id)
       ELSE UNCHANGED pending_invites

\* A member joins only while there is room and once.
add_member(p, a) == ~Full(p) /\ ~is_member(p, a)

\* The invitation is used up whatever comes of it.
accept_invite(a) ==
    LET pid == pending_invites[a] IN
    /\ a \in DOMAIN pending_invites
    /\ pending_invites' = Without(pending_invites, {a})
    /\ IF pid \in DOMAIN parties /\ add_member(parties[pid], a)
       THEN /\ parties' = [parties EXCEPT ![pid].members = Append(@, a)]
            /\ account_to_party' = With(account_to_party, a, pid)
       ELSE UNCHANGED <<parties, account_to_party>>
    /\ UNCHANGED next_party_id

decline_invite(a) ==
    /\ a \in DOMAIN pending_invites
    /\ pending_invites' = Without(pending_invites, {a})
    /\ UNCHANGED <<next_party_id, parties, account_to_party>>

\* The next oldest member takes over from a leader who leaves.
remove_member(p, a) ==
    LET pos  == Min({i \in DOMAIN p.members : p.members[i] = a})
        rest == RemoveAt(p.members, pos)
    IN  [leader_account_id |-> IF p.leader_account_id = a /\ rest # << >>
                               THEN rest[1] ELSE p.leader_account_id,
         members |-> rest]

\* Mutated form: a leader who leaves takes the party along.
leave_removes_any(a) ==
    LET pid == account_to_party[a] IN
    /\ a \in DOMAIN account_to_party
    /\ account_to_party' = Without(account_to_party, {a})
    /\ parties' = IF parties[pid].leader_account_id = a THEN Without(parties, {pid})
                  ELSE [parties EXCEPT ![pid] = remove_member(@, a)]
    /\ UNCHANGED <<next_party_id, pending_invites>>

leave_party(a) ==
    LET pid  == account_to_party[a]
        left == remove_member(parties[pid], a)
    IN
    /\ a \in DOMAIN account_to_party
    /\ account_to_party' = Without(account_to_party, {a})
    /\ parties' = IF pid \notin DOMAIN parties \/ ~is_member(parties[pid], a)
                  THEN parties
                  ELSE IF left.members = << >> THEN Without(parties, {pid})
                  ELSE [parties EXCEPT ![pid] = left]
    /\ UNCHANGED <<next_party_id, pending_invites>>

promote_leader(pid, a) ==
    /\ pid \in DOMAIN parties
    /\ is_member(parties[pid], a)
    /\ parties' = [parties EXCEPT ![pid].leader_account_id = a]
    /\ UNCHANGED <<next_party_id, account_to_party, pending_invites>>

PartyNext ==
    \/ \E a, t \in Accounts : create_party(a, t) \/ invite_player(a, t)
    \/ \E a \in Accounts : accept_invite(a) \/ decline_invite(a) \/ leave_party(a)
    \/ \E pid \in PartyIds, a \in Accounts : promote_leader(pid, a)

PartySpec == PartyInit /\ [][PartyNext]_partyVars

-------------------------------------------------------------------------------
\* Every party has members, no more than the limit, no one twice, and a
\* leader among them, through invitations that cross and leaders that leave
\* (party.rs:66-103).
PartiesWellFormed ==
    \A pid \in DOMAIN parties :
        /\ parties[pid].members # << >>
        /\ IsInjective(parties[pid].members)
        /\ is_member(parties[pid], parties[pid].leader_account_id)

\* The account index never points at a party that is gone or that the account
\* is not a member of (party.rs:131-133).
IndexNamesMembership ==
    \A a \in DOMAIN account_to_party :
        /\ account_to_party[a] \in DOMAIN parties
        /\ is_member(parties[account_to_party[a]], a)

\* No account is a member of two parties: what the refusals "Player already
\* in a party" (party.rs:150) and "Target player already in a party" stand for.
OnePartyPerPlayer ==
    \A p, q \in DOMAIN parties : \A a \in Accounts :
        (is_member(parties[p], a) /\ is_member(parties[q], a)) => p = q

\* Parties and the account index are well formed and agree (party.rs).
PartiesConsistent ==
    /\ PartyTypeOK
    /\ PartiesWellFormed
    /\ IndexNamesMembership
===============================================================================
