---------------------------- MODULE GenerationLock ----------------------------
(*****************************************************************************)
(* GenerationLockRegistry (crates/eidolon-core/src/lock.rs): leased locks    *)
(* on (account, resource) pairs.  Every grant carries a generation; a        *)
(* mutation is accepted only from the current holder, with the current       *)
(* generation, inside the lease.  Tokens are plain copies that a session     *)
(* may keep and present at any later time, so every token ever handed out    *)
(* stays in the history variable `issued'.                                   *)
(*                                                                           *)
(* The slot array is searched linearly for the unique occupied slot of a     *)
(* key, so it is kept as the partial function `token' from occupied keys to  *)
(* their current token; its CAP slots bound the size of that domain.         *)
(*****************************************************************************)
EXTENDS Naturals, FiniteSets

CONSTANTS
    Accounts,        \* account identifiers
    LockIds,         \* resources of an account: LOCK_WALLET, LOCK_INVENTORY
    Sessions,        \* login sessions
    CAP,             \* slots of the registry
    Leases,          \* lease durations callers ask for, in ticks
    MaxTick,         \* bound on the simulation tick
    MaxGeneration    \* bound on the generation counter

ASSUME CAPAssumption == CAP \in Nat
ASSUME LeasesAssumption == Leases \subseteq Nat
ASSUME LockBoundsAssumption == MaxTick \in Nat /\ MaxGeneration \in Nat

VARIABLES
    token,    \* occupied key -> current LockToken
    count,    \* the registry's own count of occupied slots
    tick,     \* current simulation tick, as passed by every caller
    issued    \* history: every (key, generation, session) ever granted

lockVars == <<token, count, tick, issued>>

Keys == Accounts \X LockIds

Tokens == [generation : Nat, holder : Sessions, granted : Nat, lease : Nat]

Grants == [key : Keys, generation : Nat, session : Sessions]

LockTypeOK ==
    /\ DOMAIN token \subseteq Keys
    /\ \A k \in DOMAIN token : token[k] \in Tokens
    /\ count \in Nat
    /\ tick \in Nat
    /\ issued \subseteq Grants

LockInit ==
    /\ token = [k \in {} |-> 0]
    /\ count = 0
    /\ tick = 0
    /\ issued = {}

-------------------------------------------------------------------------------
expires_at(t) == t.granted + t.lease

is_valid_at(t, now) == t.granted <= now /\ now < expires_at(t)

\* A token with the given generation, presented by session s, is accepted.
validate_mutation(k, generation, s) ==
    /\ k \in DOMAIN token
    /\ token[k].holder = s
    /\ token[k].generation = generation
    /\ is_valid_at(token[k], tick)

\* Store a grant on key k and hand its token to the session.
Grant(k, t) ==
    /\ token' = [j \in DOMAIN token \union {k} |-> IF j = k THEN t ELSE token[j]]
    /\ issued' = issued \union
         {[key |-> k, generation |-> t.generation, session |-> t.holder]}

NewToken(generation, s, lease) ==
    [generation |-> generation, holder |-> s, granted |-> tick, lease |-> lease]

-------------------------------------------------------------------------------
(* acquire_lock, one action per way it can succeed; Contention and *)
(* CapacityExceeded leave the registry as it is.                   *)

AcquireRenew(k, s, lease) ==
    /\ k \in DOMAIN token
    /\ token[k].holder = s
    /\ Grant(k, NewToken(token[k].generation, s, lease))
    /\ UNCHANGED <<count, tick>>

\* Mutated form: a takeover keeps the generation of the displaced session.
AcquireTakeover_same_generation(k, s, lease, force_takeover) ==
    /\ k \in DOMAIN token
    /\ token[k].holder # s
    /\ force_takeover \/ ~is_valid_at(token[k], tick)
    /\ Grant(k, NewToken(token[k].generation, s, lease))
    /\ UNCHANGED <<count, tick>>

AcquireTakeover(k, s, lease, force_takeover) ==
    /\ k \in DOMAIN token
    /\ token[k].holder # s
    /\ force_takeover \/ ~is_valid_at(token[k], tick)
    /\ token[k].generation < MaxGeneration
    /\ Grant(k, NewToken(token[k].generation + 1, s, lease))
    /\ UNCHANGED <<count, tick>>

AcquireNew(k, s, lease) ==
    /\ k \notin DOMAIN token
    /\ Cardinality(DOMAIN token) < CAP
    /\ Grant(k, NewToken(1, s, lease))
    /\ count' = count + 1
    /\ UNCHANGED tick

acquire_lock(k, s, lease, force_takeover) ==
    \/ AcquireRenew(k, s, lease)
    \/ AcquireTakeover(k, s, lease, force_takeover)
    \/ AcquireNew(k, s, lease)

\* Mutated form: the slot is freed but the count is not taken back.
release_keeps_count(k, s, generation) ==
    /\ k \in DOMAIN token
    /\ token[k].holder = s
    /\ token[k].generation = generation
    /\ token' = [j \in DOMAIN token \ {k} |-> token[j]]
    /\ UNCHANGED <<count, tick, issued>>

release_lock(k, s, generation) ==
    /\ k \in DOMAIN token
    /\ token[k].holder = s
    /\ token[k].generation = generation
    /\ token' = [j \in DOMAIN token \ {k} |-> token[j]]
    /\ count' = IF count = 0 THEN 0 ELSE count - 1
    /\ UNCHANGED <<tick, issued>>

Tick ==
    /\ tick < MaxTick
    /\ tick' = tick + 1
    /\ UNCHANGED <<token, count, issued>>

AcquireSome ==
    \E k \in Keys, s \in Sessions, lease \in Leases, force \in BOOLEAN :
        acquire_lock(k, s, lease, force)

ReleaseSome ==
    \E t \in issued : release_lock(t.key, t.session, t.generation)

LockNext == AcquireSome \/ ReleaseSome \/ Tick

\* Every public operation of the registry.
LockSpec == LockInit /\ [][LockNext]_lockVars

\* The operations TransactionManager exposes: it never releases a lock.
ManagerNext == AcquireSome \/ Tick
ManagerSpec == LockInit /\ [][ManagerNext]_lockVars

-------------------------------------------------------------------------------
Accepted(t) == validate_mutation(t.key, t.generation, t.session)

\* Whatever sessions kept from earlier grants, at any moment the tokens the
\* registry accepts on one resource all belong to one session (lock.rs:262
\* validate_mutation), even after a release has restarted the generations.
SingleWriter ==
    \A t, u \in issued :
        t.key = u.key /\ Accepted(t) /\ Accepted(u) => t.session = u.session

\* The registry's count (lock.rs:248, 321) is the number of occupied slots
\* and never passes the capacity.
CountIsOccupancy == count = Cardinality(DOMAIN token) /\ count <= CAP

\* Once a later generation was granted on a resource, no token of an earlier
\* generation is accepted again, from any session (the fence against stale
\* sessions of transaction.rs:348).
SupersededTokensRejected ==
    \A t, u \in issued :
        t.key = u.key /\ t.generation < u.generation =>
            \A s \in Sessions : ~validate_mutation(t.key, t.generation, s)

\* A generation names one session: two sessions never hold tokens with the
\* same generation on the same resource.
OneSessionPerGeneration ==
    \A t, u \in issued :
        t.key = u.key /\ t.generation = u.generation => t.session = u.session

\* lock.rs:99 calls the generation a "monotonically increasing ... sequence
\* number": a grant never carries a generation below one granted before.
GenerationsNeverRegress ==
    [][\A t \in issued' \ issued : \A u \in issued :
          u.key = t.key => u.generation <= t.generation]_lockVars

\* The lock table is well formed and its count is exact after every renewal,
\* takeover, expiry and release (lock.rs:190-260).
LockConsistent == LockTypeOK /\ CountIsOccupancy
===============================================================================
