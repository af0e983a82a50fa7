--------------------------- MODULE IdentityRegistry ---------------------------
(*******************************************************************************)
(* IdentityRegistry (crates/eidolon-core/src/identity.rs): the Account ->      *)
(* Session -> Character hierarchy.  The slot arrays are functions from the     *)
(* identifier a slot holds; free slots are the capacity that is left.          *)
(* Tickets come from the login service, which never gives one ticket to two    *)
(* accounts; TicketsOnce says whether it may give one account the same         *)
(* ticket again.  Commands carry the authorization they were given and may     *)
(* be delayed arbitrarily, so every authorization given out stays presentable. *)
(*******************************************************************************)
EXTENDS Naturals, FiniteSets, PartialFunctions

CONSTANTS
    Players, Characters,
    Tickets,             \* tickets per account
    TicketsOnce,         \* TRUE: every login gets a new ticket
    MAX_ACCOUNTS, MAX_CHARACTERS,
    MaxLogins            \* bound on the logins of one account

ASSUME IdentityAssumption ==
    /\ TicketsOnce \in BOOLEAN
    /\ {MAX_ACCOUNTS, MAX_CHARACTERS, MaxLogins} \subseteq Nat

VARIABLES
    sessions,            \* account -> ActiveSession, for the accounts logged in
    session_count,
    characters,          \* character -> owner account, for the registered ones
    authorized,          \* history: authorizations given out, with their login
    logins               \* history: logins of each account so far

identityVars == <<sessions, session_count, characters, authorized, logins>>

NoCharacter == "none"           \* no active character

CharacterAuthorization ==
    [account_id : Players, character_id : Characters,
     session_ticket : Tickets, generation : Nat, login : Nat]

ActiveSession ==
    [ticket : Tickets, generation : Nat,
     active_character : Characters \union {NoCharacter}]

IdentityTypeOK ==
    /\ \E D \in SUBSET Players : sessions \in [D -> ActiveSession]
    /\ session_count = Cardinality(DOMAIN sessions)
    /\ session_count <= MAX_ACCOUNTS
    /\ \E D \in SUBSET Characters : characters \in [D -> Players]
    /\ Cardinality(DOMAIN characters) <= MAX_CHARACTERS
    /\ authorized \subseteq CharacterAuthorization
    /\ logins \in [Players -> 0..MaxLogins]

IdentityInit ==
    /\ sessions = << >>
    /\ session_count = 0
    /\ characters = << >>
    /\ authorized = {}
    /\ logins = [a \in Players |-> 0]

-------------------------------------------------------------------------------
\* A registered character is handed to the new account; a new one takes a
\* free slot, or CapacityExceeded is answered.
register_character(a, c) ==
    /\ c \in DOMAIN characters \/ Cardinality(DOMAIN characters) < MAX_CHARACTERS
    /\ characters' = With(characters, c, a)
    /\ UNCHANGED <<sessions, session_count, authorized, logins>>

\* The n-th login of an account comes with its n-th ticket when tickets are
\* used once.
Offered(a, t) == TicketsOnce => t = logins[a] + 1

NewSession(t, g) == [ticket |-> t, generation |-> g, active_character |-> NoCharacter]

\* A second login takes over the account's session under the next generation
\* (MaxLogins keeps it below u64::MAX); a first one takes a free slot.
authenticate_session(a, t) ==
    /\ logins[a] < MaxLogins
    /\ Offered(a, t)
    /\ \/ /\ a \in DOMAIN sessions
          /\ sessions' = [sessions EXCEPT ![a] =
                              NewSession(t, @.generation + 1)]
          /\ UNCHANGED session_count
       \/ /\ a \notin DOMAIN sessions
          /\ session_count < MAX_ACCOUNTS
          /\ sessions' = With(sessions, a, NewSession(t, 1))
          /\ session_count' = session_count + 1
    /\ logins' = [logins EXCEPT ![a] = @ + 1]
    /\ UNCHANGED <<characters, authorized>>

\* The session is found by its ticket, which names its account.
select_character(a, c) ==
    /\ a \in DOMAIN sessions
    /\ c \in DOMAIN characters
    /\ characters[c] = a
    /\ sessions' = [sessions EXCEPT ![a].active_character = c]
    /\ authorized' = authorized \union
           {[account_id |-> a, character_id |-> c,
             session_ticket |-> sessions[a].ticket,
             generation |-> sessions[a].generation, login |-> logins[a]]}
    /\ UNCHANGED <<session_count, characters, logins>>

revoke_session(a) ==
    /\ a \in DOMAIN sessions
    /\ sessions' = Without(sessions, {a})
    /\ session_count' = session_count - 1
    /\ UNCHANGED <<characters, authorized, logins>>

\* Mutated form: the generation is compared, the ticket is not.
validate_without_ticket(auth, target) ==
    /\ auth.character_id = target
    /\ auth.account_id \in DOMAIN sessions
    /\ sessions[auth.account_id].generation = auth.generation

\* A command on a character is let through (it changes nothing here).
validate_character_action(auth, target) ==
    /\ auth.character_id = target
    /\ auth.account_id \in DOMAIN sessions
    /\ sessions[auth.account_id].ticket = auth.session_ticket
    /\ sessions[auth.account_id].generation = auth.generation

IdentityNext ==
    \/ \E a \in Players, c \in Characters : register_character(a, c)
    \/ \E a \in Players, t \in Tickets : authenticate_session(a, t)
    \/ \E a \in Players, c \in Characters : select_character(a, c)
    \/ \E a \in Players : revoke_session(a)

IdentitySpec == IdentityInit /\ [][IdentityNext]_identityVars

-------------------------------------------------------------------------------
\* A command is let through only under the account's latest login: after a
\* concurrent login or a logout every authorization in flight is refused
\* (identity.rs:147-152, 249-288).
LatestLoginOnly ==
    \A auth \in authorized :
        validate_character_action(auth, auth.character_id) =>
            auth.login = logins[auth.account_id]

\* A session's active character has been authorized to this very login.
ActiveWasAuthorized ==
    \A a \in DOMAIN sessions :
        sessions[a].active_character # NoCharacter =>
            \E auth \in authorized :
                /\ auth.account_id = a
                /\ auth.character_id = sessions[a].active_character
                /\ auth.login = logins[a]

\* A command is let through only for a character of the account: the third
\* check identity.rs:248 lists.
OwnsTheCharacter ==
    \A auth \in authorized :
        validate_character_action(auth, auth.character_id) =>
            characters[auth.character_id] = auth.account_id

\* Only an account's latest login acts, and only with a character it was
\* authorized for, whatever logins, logouts and transfers cross (identity.rs).
OnlyLatestLoginActs ==
    /\ IdentityTypeOK
    /\ LatestLoginOnly
    /\ ActiveWasAuthorized
===============================================================================
