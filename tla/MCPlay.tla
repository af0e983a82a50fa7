-------------------------------- MODULE MCPlay --------------------------------
(*****************************************************************************)
(* The game rules of one server for TLC: combat with one caster, combat      *)
(* between two casters, the egress of updates to a client, who hears and     *)
(* sees whom, parties, the chat limiter, guilds, territory and raids.        *)
(* Every behaviour is of one of them; the others stay as they were created.  *)
(*****************************************************************************)
EXTENDS CastCombat, AoiEgress, Society, VoiceInterest

CONSTANTS
    DuelKnown, DuelTicks    \* the abilities and the clock's bound of the duel

VARIABLE rules              \* what this behaviour exercises

\* Everybody casts.
Duel == INSTANCE CastCombat
            WITH Casters <- Entities, Known <- DuelKnown, MaxTick <- DuelTicks

groupVars == <<partyVars, chatVars, societyVars>>
playVars == <<rules, combatVars, egressVars, voiceInterestVars, groupVars>>

PlayInit ==
    /\ PartyInit /\ ChatInit /\ SocietyInit
    /\ EgressInit /\ VoiceInterestInit
    /\ \/ rules = "duel" /\ Duel!CombatInit
       \/ /\ rules \in {"combat", "egress", "voice", "interest", "party", "chat", "guild",
                        "standings", "plots", "raids", "patches"}
          /\ CombatInit
    /\ rules # "egress" => profile = Max(Profiles)

CombatOrDuelNext ==
    \/ rules = "combat" /\ CombatNext
    \/ rules = "duel" /\ Duel!CombatNext

AwarenessNext ==
    \/ rules = "egress" /\ EgressNext /\ UNCHANGED voiceInterestVars
    \/ rules = "voice" /\ VoiceNext /\ UNCHANGED <<egressVars, interestVars>>
    \/ rules = "interest" /\ InterestNext /\ UNCHANGED <<egressVars, voiceVars>>

GroupNext ==
    \/ rules = "party" /\ PartyNext /\ UNCHANGED <<chatVars, societyVars>>
    \/ rules = "chat" /\ ChatNext /\ UNCHANGED <<partyVars, societyVars>>
    \/ /\ UNCHANGED <<partyVars, chatVars>>
       /\ \/ rules = "guild" /\ GuildNext /\ UNCHANGED <<standings, plotVars, pool, patchVars>>
          \/ rules = "standings" /\ StandingsNext /\ UNCHANGED <<guildVars, plotVars, pool, patchVars>>
          \/ rules = "plots" /\ PlotNext /\ UNCHANGED <<guildVars, standings, pool, patchVars>>
          \/ rules = "raids" /\ PoolNext /\ UNCHANGED <<guildVars, standings, plotVars, patchVars>>
          \/ rules = "patches" /\ PatchNext /\ UNCHANGED <<guildVars, standings, plotVars, pool>>

PlayNext ==
    /\ UNCHANGED rules
    /\ \/ CombatOrDuelNext /\ UNCHANGED <<egressVars, voiceInterestVars, groupVars>>
       \/ AwarenessNext /\ UNCHANGED <<combatVars, groupVars>>
       \/ GroupNext /\ UNCHANGED <<combatVars, egressVars, voiceInterestVars>>

PlaySpec == PlayInit /\ [][PlayNext]_playVars

\* Standings far below, below and above the limits of the tiers.
StandingSteps == {-20000, -6000, 2000}

Fading == {[kind |-> "InverseDistance", min |-> 2, max |-> 35],
           [kind |-> "Exponential", min |-> 2, max |-> 35]}

\* A house with a wall and a roof beside a door.
House == [lo |-> 5, hi |-> 9, pieces |-> <<[lo |-> 5, hi |-> 6, type |-> "Wall"],
                                           [lo |-> 8, hi |-> 9, type |-> "Roof"]>>]
Gate == [lo |-> 12, hi |-> 13, pieces |-> <<[lo |-> 12, hi |-> 13, type |-> "DoorFrame"]>>]
Towns == {<<House, Gate>>}

-------------------------------------------------------------------------------
\* What a client is told: within its allowance and once, of everything the
\* server tracks for it, and by voice the loudest it can hear
\* (facade.rs, aoi.rs, voice_router.rs).
ClientsInformed == EgressSound /\ AwarenessSound

\* Parties and the index of their members agree, whatever invitations cross
\* and expire (party.rs), and no account's chat exceeds the rate of its bucket
\* (chat.rs).
GroupsSound == PartiesConsistent /\ ChatRateKept
===============================================================================
