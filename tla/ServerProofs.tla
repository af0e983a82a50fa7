----------------------------- MODULE ServerProofs -----------------------------
(*****************************************************************************)
(* Inside one server, for any accounts, sessions, jobs and sizes: the lock   *)
(* registry is consistent and its fence holds as TransactionManager uses it, *)
(* only the latest login of an account acts, the deque of the worker pool    *)
(* gives no job out twice, even where slots are used again, the fence        *)
(* against superseded servers accepts commands in order, and administration, *)
(* pacing, alerts and rolling upgrades keep their promises.                  *)
(*****************************************************************************)
EXTENDS MCServer, DataLemmas, FiniteSetTheorems, SequenceTheorems, TLAPS

\* One step of the registry, spelled out for the proofs below.
LEMMA AcquireCases ==
    ASSUME AcquireSome
    PROVE  \E k \in Keys, s \in Sessions, lease \in Leases, force \in BOOLEAN :
              \/ AcquireRenew(k, s, lease)
              \/ AcquireTakeover(k, s, lease, force)
              \/ AcquireNew(k, s, lease)
  BY DEF AcquireSome, acquire_lock

\* Storing a well-typed token on a key keeps the table and the history typed.
LEMMA GrantTyping ==
    ASSUME LockTypeOK, NEW k \in Keys, NEW t \in Tokens, Grant(k, t)
    PROVE  /\ DOMAIN token' \subseteq Keys
           /\ \A j \in DOMAIN token' : token'[j] \in Tokens
           /\ issued' \subseteq Grants
<1>1. DOMAIN token' = DOMAIN token \union {k}
  BY DEF Grant
<1>2. \A j \in DOMAIN token' : token'[j] \in Tokens
  BY DEF Grant, LockTypeOK
<1>3. [key |-> k, generation |-> t.generation, session |-> t.holder] \in Grants
  BY DEF Grants, Tokens
<1> QED BY <1>1, <1>2, <1>3 DEF Grant, LockTypeOK

LEMMA AcquireTyping ==
    ASSUME LockTypeOK, AcquireSome
    PROVE  LockTypeOK'
<1> PICK k \in Keys, s \in Sessions, lease \in Leases, force \in BOOLEAN :
          \/ AcquireRenew(k, s, lease)
          \/ AcquireTakeover(k, s, lease, force)
          \/ AcquireNew(k, s, lease)
  BY AcquireCases
<1>1. ASSUME NEW g \in Nat PROVE NewToken(g, s, lease) \in Tokens
  BY LeasesAssumption DEF NewToken, Tokens, LockTypeOK
<1>2. CASE AcquireRenew(k, s, lease)
  <2>1. token[k].generation \in Nat
    BY <1>2 DEF AcquireRenew, LockTypeOK, Tokens
  <2> QED BY <1>1, <1>2, <2>1, GrantTyping DEF AcquireRenew, LockTypeOK
<1>3. CASE AcquireTakeover(k, s, lease, force)
  <2>1. token[k].generation + 1 \in Nat
    BY <1>3 DEF AcquireTakeover, LockTypeOK, Tokens
  <2> QED BY <1>1, <1>3, <2>1, GrantTyping DEF AcquireTakeover, LockTypeOK
<1>4. CASE AcquireNew(k, s, lease)
  BY <1>1, <1>4, GrantTyping DEF AcquireNew, LockTypeOK
<1> QED BY <1>2, <1>3, <1>4

\* The registry stays well typed through every operation (lock.rs:191-337).
THEOREM LockTyping == LockSpec => []LockTypeOK
<1> USE DEF LockTypeOK
<1>1. LockInit => LockTypeOK
  BY DEF LockInit
<1>2. LockTypeOK /\ [LockNext]_lockVars => LockTypeOK'
  <2> SUFFICES ASSUME LockTypeOK, [LockNext]_lockVars
               PROVE  LockTypeOK'
    OBVIOUS
  <2>1. CASE AcquireSome
    BY <2>1, AcquireTyping
  <2>2. CASE ReleaseSome
    BY <2>2 DEF ReleaseSome, release_lock
  <2>3. CASE Tick
    BY <2>3 DEF Tick
  <2>4. CASE UNCHANGED lockVars
    BY <2>4 DEF lockVars
  <2> QED BY <2>1, <2>2, <2>3, <2>4 DEF LockNext
<1> QED BY <1>1, <1>2, PTL DEF LockSpec

-------------------------------------------------------------------------------
CountInv ==
    /\ IsFiniteSet(DOMAIN token)
    /\ CountIsOccupancy

\* The count kept beside the slots is the number of occupied slots and never
\* passes the capacity, whatever is acquired, taken over and released.
THEOREM CountCorrect == LockSpec => []CountIsOccupancy
<1>1. LockInit => CountInv
  BY FS_EmptySet, CAPAssumption DEF LockInit, CountInv, CountIsOccupancy
<1>2. LockTypeOK /\ CountInv /\ [LockNext]_lockVars => CountInv'
  <2> SUFFICES ASSUME LockTypeOK, CountInv, [LockNext]_lockVars
               PROVE  CountInv'
    OBVIOUS
  <2> USE DEF CountInv, CountIsOccupancy, LockTypeOK
  <2>1. CASE AcquireSome
    <3> PICK k \in Keys, s \in Sessions, lease \in Leases, force \in BOOLEAN :
              \/ AcquireRenew(k, s, lease)
              \/ AcquireTakeover(k, s, lease, force)
              \/ AcquireNew(k, s, lease)
      BY <2>1, AcquireCases
    <3>1. CASE AcquireRenew(k, s, lease) \/ AcquireTakeover(k, s, lease, force)
      <4>1. DOMAIN token' = DOMAIN token /\ count' = count
        BY <3>1 DEF AcquireRenew, AcquireTakeover, Grant
      <4> QED BY <4>1
    <3>2. CASE AcquireNew(k, s, lease)
      <4>1. DOMAIN token' = DOMAIN token \union {k} /\ k \notin DOMAIN token
        BY <3>2 DEF AcquireNew, Grant
      <4>2. /\ IsFiniteSet(DOMAIN token')
            /\ Cardinality(DOMAIN token') = Cardinality(DOMAIN token) + 1
        BY <4>1, FS_AddElement
      <4>3. count' = count + 1 /\ Cardinality(DOMAIN token) < CAP
        BY <3>2 DEF AcquireNew
      <4> QED BY <4>2, <4>3, CAPAssumption
    <3> QED BY <3>1, <3>2
  <2>2. CASE ReleaseSome
    <3> PICK t \in issued : release_lock(t.key, t.session, t.generation)
      BY <2>2 DEF ReleaseSome
    <3>1. /\ DOMAIN token' = DOMAIN token \ {t.key}
          /\ t.key \in DOMAIN token
          /\ count' = IF count = 0 THEN 0 ELSE count - 1
      BY DEF release_lock
    <3>2. /\ IsFiniteSet(DOMAIN token')
          /\ Cardinality(DOMAIN token') = Cardinality(DOMAIN token) - 1
      BY <3>1, FS_RemoveElement
    <3>3. count # 0
      BY <3>1, FS_EmptySet
    <3> QED BY <3>1, <3>2, <3>3, CAPAssumption
  <2>3. CASE Tick
    BY <2>3 DEF Tick
  <2>4. CASE UNCHANGED lockVars
    BY <2>4 DEF lockVars
  <2> QED BY <2>1, <2>2, <2>3, <2>4 DEF LockNext
<1>3. CountInv => CountIsOccupancy
  BY DEF CountInv
<1> QED BY <1>1, <1>2, <1>3, LockTyping, PTL DEF LockSpec

\* The lock table is well formed and its count exact, for every capacity and
\* any accounts, sessions and leases (lock.rs:190-260).
THEOREM LockConsistency == LockSpec => []LockConsistent
<1>1. LockTypeOK /\ CountIsOccupancy => LockConsistent
  BY DEF LockConsistent
<1> QED BY <1>1, LockTyping, CountCorrect, PTL

-------------------------------------------------------------------------------
\* Without releases the slot of a key holds the latest generation granted on
\* it, and only the session of that grant can have a token of that generation.
LatestGrantInSlot ==
    \A t \in issued :
        /\ t.key \in DOMAIN token
        /\ t.generation <= token[t.key].generation
        /\ t.generation = token[t.key].generation => t.session = token[t.key].holder

ManagerInv == LockTypeOK /\ LatestGrantInSlot /\ OneSessionPerGeneration

LEMMA ManagerStep ==
    ASSUME ManagerInv, [ManagerNext]_lockVars
    PROVE  ManagerInv'
<1> USE DEF ManagerInv
<1>1. CASE AcquireSome
  <2> PICK k \in Keys, s \in Sessions, lease \in Leases, force \in BOOLEAN :
            \/ AcquireRenew(k, s, lease)
            \/ AcquireTakeover(k, s, lease, force)
            \/ AcquireNew(k, s, lease)
    BY <1>1, AcquireCases
  <2>1. LockTypeOK'
    BY <1>1, AcquireTyping
  <2> DEFINE g == token'[k].generation
  <2>2. /\ DOMAIN token' = DOMAIN token \union {k}
        /\ \A j \in DOMAIN token \ {k} : token'[j] = token[j]
        /\ issued' = issued \union {[key |-> k, generation |-> g, session |-> s]}
        /\ token'[k].holder = s
    BY DEF AcquireRenew, AcquireTakeover, AcquireNew, Grant, NewToken
  \* The key had no grant before, or the same session renewed it, or the
  \* generation grew.
  <2>3. \/ k \notin DOMAIN token
        \/ k \in DOMAIN token /\ g = token[k].generation /\ token[k].holder = s
        \/ k \in DOMAIN token /\ g = token[k].generation + 1
    BY DEF AcquireRenew, AcquireTakeover, AcquireNew, Grant, NewToken
  <2>4. \A t \in issued : t.generation \in Nat /\ t.key \in DOMAIN token
    BY DEF LockTypeOK, Grants, LatestGrantInSlot
  <2>5. \A j \in DOMAIN token : token[j].generation \in Nat
    BY DEF LockTypeOK, Tokens
  <2>6. g \in Nat
    BY <2>1, <2>2 DEF LockTypeOK, Tokens
  <2>7. LatestGrantInSlot'
    BY <2>2, <2>3, <2>4, <2>5, <2>6 DEF LatestGrantInSlot
  <2>8. OneSessionPerGeneration'
    BY <2>2, <2>3, <2>4, <2>5, <2>6 DEF LatestGrantInSlot, OneSessionPerGeneration
  <2> QED BY <2>1, <2>7, <2>8
<1>2. CASE Tick
  BY <1>2 DEF Tick, LockTypeOK, LatestGrantInSlot, OneSessionPerGeneration
<1>3. CASE UNCHANGED lockVars
  BY <1>3 DEF lockVars, LockTypeOK, LatestGrantInSlot, OneSessionPerGeneration
<1> QED BY <1>1, <1>2, <1>3 DEF ManagerNext

LEMMA ManagerInvariant == ManagerSpec => []ManagerInv
<1>1. LockInit => ManagerInv
  BY DEF LockInit, ManagerInv, LockTypeOK, LatestGrantInSlot, OneSessionPerGeneration
<1>2. ManagerInv /\ [ManagerNext]_lockVars => ManagerInv'
  BY ManagerStep
<1> QED BY <1>1, <1>2, PTL DEF ManagerSpec

LEMMA ManagerIsFence == ManagerInv => SupersededTokensRejected /\ OneSessionPerGeneration
BY DEF ManagerInv, LockTypeOK, Tokens, Grants, LatestGrantInSlot,
       SupersededTokensRejected, validate_mutation

\* Where the transaction manager holds the registry, a grant never carries a
\* generation below one granted before: lock.rs:99 calls the generation a
\* "monotonically increasing" sequence number, which a release would break.
THEOREM ManagerGenerationsGrow == ManagerSpec => GenerationsNeverRegress
<1>1. ManagerInv /\ [ManagerNext]_lockVars =>
         [\A t \in issued' \ issued : \A u \in issued :
              u.key = t.key => u.generation <= t.generation]_lockVars
  <2> SUFFICES ASSUME ManagerInv, ManagerNext, NEW t \in issued' \ issued, NEW u \in issued,
                      u.key = t.key
               PROVE  u.generation <= t.generation
    OBVIOUS
  <2>1. AcquireSome
    BY DEF ManagerNext, Tick
  <2>2. PICK k \in Keys, s \in Sessions, lease \in Leases, force \in BOOLEAN :
            \/ AcquireRenew(k, s, lease)
            \/ AcquireTakeover(k, s, lease, force)
            \/ AcquireNew(k, s, lease)
    BY <2>1, AcquireCases
  <2>3. /\ u.key \in DOMAIN token /\ u.generation <= token[u.key].generation
        /\ u.generation \in Nat /\ token[u.key].generation \in Nat
    BY DEF ManagerInv, LatestGrantInSlot, LockTypeOK, Grants, Tokens
  <2>4. /\ t.key = k
        /\ k \in DOMAIN token => t.generation \in {token[k].generation, token[k].generation + 1}
    BY <2>2 DEF AcquireRenew, AcquireTakeover, AcquireNew, Grant, NewToken
  <2> QED BY <2>3, <2>4
<1> QED BY <1>1, ManagerInvariant, PTL DEF ManagerSpec, GenerationsNeverRegress

\* Sessions that were displaced stay out: a token of an earlier generation is
\* never accepted again under the operations of the transaction manager.
THEOREM Fencing == ManagerSpec => []SupersededTokensRejected
<1>1. ManagerInv => SupersededTokensRejected
  BY ManagerIsFence
<1> QED BY <1>1, ManagerInvariant, PTL

\* A generation on a resource names one session.
THEOREM GenerationNamesSession == ManagerSpec => []OneSessionPerGeneration
<1>1. ManagerInv => OneSessionPerGeneration
  BY DEF ManagerInv
<1> QED BY <1>1, ManagerInvariant, PTL

\* In the server, whatever else it runs, one session at a time can write under
\* a lock, and where the transaction manager holds the registry a superseded
\* token stays superseded and a generation names one session (lock.rs:190-290).
THEOREM WritersExclude == ServerSpec => []OneWriter
<1> DEFINE Inv == unit = "manager" => ManagerInv
<1>1. ServerInit => Inv
  BY DEF ServerInit, LockInit, ManagerInv, LockTypeOK, LatestGrantInSlot, OneSessionPerGeneration
<1>2. Inv /\ [ServerNext]_serverVars => Inv'
  <2> SUFFICES ASSUME Inv, [ServerNext]_serverVars, unit = "manager"
               PROVE  ManagerInv'
    BY DEF ServerNext, serverVars
  <2>1. [ManagerNext]_lockVars
    <3>1. CASE AuthorityNext
      BY <3>1 DEF AuthorityNext
    <3>2. CASE UNCHANGED authorityVars
      BY <3>2 DEF authorityVars
    <3> QED BY <3>1, <3>2 DEF ServerNext, serverVars
  <2> QED BY <2>1, ManagerStep
<1>3. Inv => OneWriter
  <2>1. SingleWriter
    BY DEF SingleWriter, Accepted, validate_mutation
  <2>2. ManagerInv => SupersededTokensRejected /\ OneSessionPerGeneration
    BY ManagerIsFence
  <2> QED BY <2>1, <2>2 DEF OneWriter
<1> QED BY <1>1, <1>2, <1>3, PTL DEF ServerSpec

-------------------------------------------------------------------------------
\* A session carries the ticket of its account's last login, an authorization
\* that of the login it was given under; the tables are finite, so their counts
\* can be compared.
IdentityInv ==
    /\ OnlyLatestLoginActs
    /\ IsFiniteSet(DOMAIN sessions) /\ IsFiniteSet(DOMAIN characters)
    /\ \A a \in DOMAIN sessions : sessions[a].ticket = logins[a]
    /\ \A auth \in authorized : auth.session_ticket = auth.login

\* An empty registry satisfies the invariant.
LEMMA IdentityInitInv == ASSUME IdentityInit PROVE IdentityInv
<1>1. DOMAIN sessions = {} /\ DOMAIN characters = {} /\ authorized = {} /\ session_count = 0
      /\ sessions \in [{} -> ActiveSession] /\ characters \in [{} -> Players]
      /\ logins \in [Players -> 0..MaxLogins]
  BY IdentityAssumption DEF IdentityInit
<1>2. IdentityTypeOK
  <2>1. DOMAIN sessions \subseteq Players /\ sessions \in [DOMAIN sessions -> ActiveSession]
        /\ DOMAIN characters \subseteq Characters /\ characters \in [DOMAIN characters -> Players]
    BY <1>1
  <2>2. 0 <= MAX_ACCOUNTS /\ 0 <= MAX_CHARACTERS /\ Cardinality(DOMAIN sessions) = 0
        /\ Cardinality(DOMAIN characters) = 0
    BY <1>1, FS_EmptySet, IdentityAssumption
  <2> QED BY <1>1, <2>1, <2>2 DEF IdentityTypeOK
<1> QED BY <1>1, <1>2, FS_EmptySet DEF IdentityInv, OnlyLatestLoginActs, LatestLoginOnly, ActiveWasAuthorized

\* The parts of the type invariant, with the domains they name.
LEMMA IdentityTypes ==
    ASSUME IdentityTypeOK
    PROVE  /\ DOMAIN sessions \subseteq Players /\ sessions \in [DOMAIN sessions -> ActiveSession]
           /\ DOMAIN characters \subseteq Characters /\ characters \in [DOMAIN characters -> Players]
           /\ session_count = Cardinality(DOMAIN sessions) /\ session_count <= MAX_ACCOUNTS
           /\ Cardinality(DOMAIN characters) <= MAX_CHARACTERS
           /\ authorized \subseteq CharacterAuthorization
           /\ logins \in [Players -> 0..MaxLogins]
           /\ MAX_ACCOUNTS \in Nat /\ MAX_CHARACTERS \in Nat /\ MaxLogins \in Nat
BY IdentityAssumption DEF IdentityTypeOK

\* A character is recorded for its account (identity.rs, register_character).
LEMMA RegisterKeepsInv ==
    ASSUME IdentityInv, NEW a \in Players, NEW c \in Characters, register_character(a, c)
    PROVE  IdentityInv'
<1>1. IdentityTypeOK /\ ActiveWasAuthorized
  BY DEF IdentityInv, OnlyLatestLoginActs
<1>2. UNCHANGED <<sessions, session_count, authorized, logins>> /\ characters' = With(characters, c, a)
  BY DEF register_character
<1>3. /\ DOMAIN characters' = DOMAIN characters \union {c}
      /\ characters' \in [DOMAIN characters' -> Players]
  <2>1. characters \in [DOMAIN characters -> Players]
    BY <1>1, IdentityTypes
  <2> QED BY <2>1, <1>2 DEF With
<1>4. IsFiniteSet(DOMAIN characters') /\ Cardinality(DOMAIN characters') <= MAX_CHARACTERS
  <2>1. IsFiniteSet(DOMAIN characters) /\ Cardinality(DOMAIN characters) \in Nat /\ MAX_CHARACTERS \in Nat
        /\ Cardinality(DOMAIN characters) <= MAX_CHARACTERS
    BY <1>1, IdentityTypes, FS_CardinalityType DEF IdentityInv
  <2>2. CASE c \in DOMAIN characters
    <3>1. DOMAIN characters' = DOMAIN characters
      BY <2>2, <1>3
    <3> QED BY <3>1, <2>1
  <2>3. CASE c \notin DOMAIN characters
    <3>1. Cardinality(DOMAIN characters) < MAX_CHARACTERS
      BY <2>3 DEF register_character
    <3>2. IsFiniteSet(DOMAIN characters') /\ Cardinality(DOMAIN characters') = Cardinality(DOMAIN characters) + 1
      BY <2>1, <2>3, <1>3, FS_AddElement
    <3> QED BY <2>1, <3>1, <3>2
  <2> QED BY <2>2, <2>3
<1>5. IdentityTypeOK'
  <2>1. /\ DOMAIN sessions \subseteq Players /\ sessions \in [DOMAIN sessions -> ActiveSession]
        /\ session_count = Cardinality(DOMAIN sessions) /\ session_count <= MAX_ACCOUNTS
        /\ authorized \subseteq CharacterAuthorization /\ logins \in [Players -> 0..MaxLogins]
        /\ DOMAIN characters' \subseteq Characters
    BY <1>1, <1>3, IdentityTypes
  <2> QED BY <2>1, <1>2, <1>3, <1>4 DEF IdentityTypeOK
<1>6. ActiveWasAuthorized' /\ LatestLoginOnly'
  BY <1>1, <1>2 DEF ActiveWasAuthorized, LatestLoginOnly, validate_character_action, IdentityInv, OnlyLatestLoginActs
<1> QED BY <1>2, <1>4, <1>5, <1>6 DEF IdentityInv, OnlyLatestLoginActs

\* A login replaces the account's session or takes a free slot, if its ticket
\* was not seen before (identity.rs, authenticate_session).
LEMMA AuthenticateKeepsInv ==
    ASSUME TicketsOnce, IdentityInv, NEW a \in Players, NEW t \in Tickets, authenticate_session(a, t)
    PROVE  IdentityInv'
<1>1. /\ IdentityTypeOK /\ ActiveWasAuthorized
      /\ \A b \in DOMAIN sessions : sessions[b].ticket = logins[b]
      /\ \A auth \in authorized : auth.session_ticket = auth.login
  BY DEF IdentityInv, OnlyLatestLoginActs
<1>2. /\ UNCHANGED <<characters, authorized>> /\ logins' = [logins EXCEPT ![a] = @ + 1]
      /\ t = logins[a] + 1 /\ logins[a] < MaxLogins
  BY DEF authenticate_session, Offered
<1>3. logins' \in [Players -> 0..MaxLogins] /\ logins'[a] = t /\ \A b \in Players \ {a} : logins'[b] = logins[b]
  BY <1>1, <1>2, IdentityTypes
<1>4. PICK g \in Nat :
        /\ DOMAIN sessions' = DOMAIN sessions \union {a} /\ sessions'[a] = NewSession(t, g)
        /\ \A b \in DOMAIN sessions \ {a} : sessions'[b] = sessions[b]
        /\ sessions' \in [DOMAIN sessions' -> ActiveSession]
  <2>1. ASSUME NEW g \in Nat
        PROVE  NewSession(t, g) \in ActiveSession
    BY DEF NewSession, ActiveSession
  <2>2. CASE a \in DOMAIN sessions
    <3>1. sessions[a].generation + 1 \in Nat
      BY <1>1, <2>2, IdentityTypes DEF ActiveSession
    <3>2. sessions' = [sessions EXCEPT ![a] = NewSession(t, sessions[a].generation + 1)]
      BY <2>2 DEF authenticate_session
    <3> DEFINE s == NewSession(t, sessions[a].generation + 1)
    <3>3. s \in ActiveSession
      BY <2>1, <3>1
    <3>5. sessions' = [sessions EXCEPT ![a] = s]
      BY <3>2
    <3> HIDE DEF s
    <3>4. /\ DOMAIN sessions' = DOMAIN sessions \union {a} /\ sessions'[a] = s
          /\ \A b \in DOMAIN sessions \ {a} : sessions'[b] = sessions[b]
          /\ sessions' \in [DOMAIN sessions' -> ActiveSession]
      BY <1>1, <2>2, <3>5, <3>3, IdentityTypes
    <3> QED BY <3>1, <3>4 DEF s
  <2>3. CASE a \notin DOMAIN sessions
    <3>1. sessions' = With(sessions, a, NewSession(t, 1))
      BY <2>3 DEF authenticate_session
    <3> DEFINE s == NewSession(t, 1)
    <3>2. s \in ActiveSession
      BY <2>1
    <3>3. sessions' = With(sessions, a, s)
      BY <3>1
    <3> HIDE DEF s
    <3>4. /\ DOMAIN sessions' = DOMAIN sessions \union {a} /\ sessions'[a] = s
          /\ \A b \in DOMAIN sessions \ {a} : sessions'[b] = sessions[b]
          /\ sessions' \in [DOMAIN sessions' -> ActiveSession]
      <4>1. sessions \in [DOMAIN sessions -> ActiveSession]
        BY <1>1, IdentityTypes
      <4> QED BY <4>1, <3>2, <3>3 DEF With
    <3> QED BY <3>4 DEF s
  <2> QED BY <2>2, <2>3
<1>5. /\ IsFiniteSet(DOMAIN sessions') /\ session_count' = Cardinality(DOMAIN sessions')
      /\ session_count' <= MAX_ACCOUNTS
  <2>1. IsFiniteSet(DOMAIN sessions) /\ session_count = Cardinality(DOMAIN sessions) /\ session_count \in Nat
        /\ session_count <= MAX_ACCOUNTS /\ MAX_ACCOUNTS \in Nat
    BY <1>1, IdentityTypes, FS_CardinalityType DEF IdentityInv
  <2>2. CASE a \in DOMAIN sessions
    <3>1. DOMAIN sessions' = DOMAIN sessions /\ session_count' = session_count
      BY <2>2, <1>4 DEF authenticate_session
    <3> QED BY <3>1, <2>1
  <2>3. CASE a \notin DOMAIN sessions
    <3>1. session_count' = session_count + 1 /\ session_count < MAX_ACCOUNTS
      BY <2>3 DEF authenticate_session
    <3>2. IsFiniteSet(DOMAIN sessions') /\ Cardinality(DOMAIN sessions') = Cardinality(DOMAIN sessions) + 1
      BY <2>1, <2>3, <1>4, FS_AddElement
    <3> QED BY <2>1, <3>1, <3>2
  <2> QED BY <2>2, <2>3
<1>6. IdentityTypeOK'
  <2>1. /\ DOMAIN characters \subseteq Characters /\ characters \in [DOMAIN characters -> Players]
        /\ Cardinality(DOMAIN characters) <= MAX_CHARACTERS /\ authorized \subseteq CharacterAuthorization
        /\ DOMAIN sessions' \subseteq Players
    BY <1>1, <1>4, IdentityTypes
  <2> QED BY <2>1, <1>2, <1>3, <1>4, <1>5 DEF IdentityTypeOK
<1>7. \A b \in DOMAIN sessions' : sessions'[b].ticket = logins'[b]
  <2> TAKE b \in DOMAIN sessions'
  <2>1. CASE b = a
    BY <2>1, <1>3, <1>4 DEF NewSession
  <2>2. CASE b # a
    <3>1. b \in DOMAIN sessions \ {a} /\ b \in Players \ {a}
      BY <2>2, <1>1, <1>4, IdentityTypes
    <3> QED BY <3>1, <1>1, <1>3, <1>4
  <2> QED BY <2>1, <2>2
<1>8. ActiveWasAuthorized'
  <2> SUFFICES ASSUME NEW b \in DOMAIN sessions', sessions'[b].active_character # NoCharacter
               PROVE  \E auth \in authorized : /\ auth.account_id = b
                                               /\ auth.character_id = sessions'[b].active_character
                                               /\ auth.login = logins'[b]
    BY <1>2 DEF ActiveWasAuthorized
  <2>1. b # a
    BY <1>4 DEF NewSession
  <2>2. b \in DOMAIN sessions \ {a} /\ b \in Players \ {a}
    BY <2>1, <1>1, <1>4, IdentityTypes
  <2>3. sessions'[b] = sessions[b] /\ logins'[b] = logins[b]
    BY <2>2, <1>3, <1>4
  <2> QED BY <2>2, <2>3, <1>1 DEF ActiveWasAuthorized
<1>9. \A auth \in authorized' : auth.session_ticket = auth.login
  BY <1>1, <1>2
<1>10. LatestLoginOnly'
  BY <1>7, <1>9 DEF LatestLoginOnly, validate_character_action
<1>11. IsFiniteSet(DOMAIN characters')
  BY <1>2 DEF IdentityInv
<1> QED BY <1>5, <1>6, <1>7, <1>8, <1>9, <1>10, <1>11 DEF IdentityInv, OnlyLatestLoginActs

\* A character is selected under the session in force.
LEMMA SelectKeepsInv ==
    ASSUME IdentityInv, NEW a \in Players, NEW c \in Characters, select_character(a, c)
    PROVE  IdentityInv'
<1> DEFINE new == [account_id |-> a, character_id |-> c, session_ticket |-> sessions[a].ticket,
                   generation |-> sessions[a].generation, login |-> logins[a]]
<1>1. /\ IdentityTypeOK /\ ActiveWasAuthorized
      /\ \A b \in DOMAIN sessions : sessions[b].ticket = logins[b]
      /\ \A auth \in authorized : auth.session_ticket = auth.login
      /\ IsFiniteSet(DOMAIN sessions) /\ IsFiniteSet(DOMAIN characters)
  BY DEF IdentityInv, OnlyLatestLoginActs
<1>2. /\ UNCHANGED <<session_count, characters, logins>> /\ a \in DOMAIN sessions
      /\ sessions' = [sessions EXCEPT ![a].active_character = c]
      /\ authorized' = authorized \union {new}
  BY DEF select_character
<1>3. /\ DOMAIN sessions \subseteq Players /\ sessions \in [DOMAIN sessions -> ActiveSession]
      /\ logins \in [Players -> 0..MaxLogins] /\ MaxLogins \in Nat
  BY <1>1, IdentityTypes
<1>4. new \in CharacterAuthorization /\ new.session_ticket = new.login
  BY <1>1, <1>2, <1>3 DEF CharacterAuthorization, ActiveSession
<1>5. /\ DOMAIN sessions' = DOMAIN sessions
      /\ sessions' \in [DOMAIN sessions' -> ActiveSession]
      /\ \A b \in DOMAIN sessions \ {a} : sessions'[b] = sessions[b]
      /\ sessions'[a].ticket = sessions[a].ticket /\ sessions'[a].active_character = c
  BY <1>2, <1>3 DEF ActiveSession
<1>6. IdentityTypeOK'
  <2>1. /\ session_count = Cardinality(DOMAIN sessions) /\ session_count <= MAX_ACCOUNTS
        /\ DOMAIN characters \subseteq Characters /\ characters \in [DOMAIN characters -> Players]
        /\ Cardinality(DOMAIN characters) <= MAX_CHARACTERS /\ authorized \subseteq CharacterAuthorization
    BY <1>1, IdentityTypes
  <2>2. authorized' \subseteq CharacterAuthorization
    BY <2>1, <1>2, <1>4
  <2> QED BY <2>1, <2>2, <1>2, <1>3, <1>5 DEF IdentityTypeOK
<1>7. \A b \in DOMAIN sessions' : sessions'[b].ticket = logins'[b]
  BY <1>1, <1>2, <1>5
<1>8. \A auth \in authorized' : auth.session_ticket = auth.login
  BY <1>1, <1>2, <1>4
<1>9. ActiveWasAuthorized'
  <2> SUFFICES ASSUME NEW b \in DOMAIN sessions', sessions'[b].active_character # NoCharacter
               PROVE  \E auth \in authorized' : /\ auth.account_id = b
                                                /\ auth.character_id = sessions'[b].active_character
                                                /\ auth.login = logins'[b]
    BY DEF ActiveWasAuthorized
  <2>1. CASE b = a
    <3>1. /\ new \in authorized' /\ new.account_id = b
          /\ new.character_id = sessions'[b].active_character /\ new.login = logins'[b]
      BY <2>1, <1>2, <1>5
    <3> QED BY <3>1
  <2>2. CASE b # a
    BY <2>2, <1>1, <1>2, <1>5 DEF ActiveWasAuthorized
  <2> QED BY <2>1, <2>2
<1>10. LatestLoginOnly'
  BY <1>7, <1>8 DEF LatestLoginOnly, validate_character_action
<1>11. IsFiniteSet(DOMAIN sessions') /\ IsFiniteSet(DOMAIN characters')
  BY <1>1, <1>2, <1>5
<1> QED BY <1>6, <1>7, <1>8, <1>9, <1>10, <1>11 DEF IdentityInv, OnlyLatestLoginActs

\* A session is dropped and its slot is free (identity.rs, revoke_session).
LEMMA RevokeKeepsInv ==
    ASSUME IdentityInv, NEW a \in Players, revoke_session(a)
    PROVE  IdentityInv'
<1>1. /\ IdentityTypeOK /\ ActiveWasAuthorized
      /\ \A b \in DOMAIN sessions : sessions[b].ticket = logins[b]
      /\ \A auth \in authorized : auth.session_ticket = auth.login
      /\ IsFiniteSet(DOMAIN sessions) /\ IsFiniteSet(DOMAIN characters)
  BY DEF IdentityInv, OnlyLatestLoginActs
<1>2. /\ UNCHANGED <<characters, authorized, logins>> /\ a \in DOMAIN sessions
      /\ sessions' = Without(sessions, {a}) /\ session_count' = session_count - 1
  BY DEF revoke_session
<1>3. /\ DOMAIN sessions' = DOMAIN sessions \ {a}
      /\ sessions' \in [DOMAIN sessions' -> ActiveSession]
      /\ \A b \in DOMAIN sessions' : sessions'[b] = sessions[b]
  <2>1. sessions \in [DOMAIN sessions -> ActiveSession]
    BY <1>1, IdentityTypes
  <2> QED BY <2>1, <1>2 DEF Without
<1>4. /\ IsFiniteSet(DOMAIN sessions') /\ session_count' = Cardinality(DOMAIN sessions')
      /\ session_count' <= MAX_ACCOUNTS
  <2>1. /\ session_count = Cardinality(DOMAIN sessions) /\ session_count \in Nat
        /\ session_count <= MAX_ACCOUNTS /\ MAX_ACCOUNTS \in Nat
    BY <1>1, IdentityTypes, FS_CardinalityType
  <2>2. IsFiniteSet(DOMAIN sessions') /\ Cardinality(DOMAIN sessions') = Cardinality(DOMAIN sessions) - 1
    BY <1>1, <1>2, <1>3, FS_RemoveElement
  <2> QED BY <1>2, <2>1, <2>2
<1>5. IdentityTypeOK'
  <2>1. /\ DOMAIN characters \subseteq Characters /\ characters \in [DOMAIN characters -> Players]
        /\ Cardinality(DOMAIN characters) <= MAX_CHARACTERS /\ authorized \subseteq CharacterAuthorization
        /\ logins \in [Players -> 0..MaxLogins] /\ DOMAIN sessions' \subseteq Players
    BY <1>1, <1>3, IdentityTypes
  <2> QED BY <2>1, <1>2, <1>3, <1>4 DEF IdentityTypeOK
<1>6. \A b \in DOMAIN sessions' : sessions'[b].ticket = logins'[b]
  BY <1>1, <1>2, <1>3
<1>7. ActiveWasAuthorized'
  <2> SUFFICES ASSUME NEW b \in DOMAIN sessions', sessions'[b].active_character # NoCharacter
               PROVE  \E auth \in authorized : /\ auth.account_id = b
                                               /\ auth.character_id = sessions'[b].active_character
                                               /\ auth.login = logins[b]
    BY <1>2 DEF ActiveWasAuthorized
  <2>1. b \in DOMAIN sessions /\ sessions'[b] = sessions[b]
    BY <1>3
  <2> QED BY <2>1, <1>1 DEF ActiveWasAuthorized
<1>8. LatestLoginOnly'
  BY <1>1, <1>2, <1>6 DEF LatestLoginOnly, validate_character_action
<1> QED BY <1>1, <1>2, <1>4, <1>5, <1>6, <1>7, <1>8 DEF IdentityInv, OnlyLatestLoginActs

\* If the tickets of logins are not used twice, only the latest login of an
\* account can act, with a character that was authorized under it, for any
\* number of accounts, characters and logins (identity.rs:121-296).
THEOREM LatestLoginActs == TicketsOnce /\ IdentitySpec => []OnlyLatestLoginActs
<1> SUFFICES ASSUME TicketsOnce PROVE IdentitySpec => []OnlyLatestLoginActs
  OBVIOUS
<1>1. IdentityInit => IdentityInv
  BY IdentityInitInv
<1>2. IdentityInv /\ [IdentityNext]_identityVars => IdentityInv'
  <2> SUFFICES ASSUME IdentityInv, [IdentityNext]_identityVars PROVE IdentityInv'
    OBVIOUS
  <2>1. CASE UNCHANGED identityVars
    BY <2>1 DEF identityVars, IdentityInv, OnlyLatestLoginActs, IdentityTypeOK, LatestLoginOnly,
       ActiveWasAuthorized, validate_character_action
  <2>2. CASE IdentityNext
    BY <2>2, RegisterKeepsInv, AuthenticateKeepsInv, SelectKeepsInv, RevokeKeepsInv DEF IdentityNext
  <2> QED BY <2>1, <2>2
<1>3. IdentityInv => OnlyLatestLoginActs
  BY DEF IdentityInv
<1> QED BY <1>1, <1>2, <1>3, PTL DEF IdentitySpec

-------------------------------------------------------------------------------
\* Program counters with their locals.
Programs(pcs) == [pc : pcs, b : Nat, t : Nat, val : 0..MaxJobs]

\* The deque is well typed at every access to shared memory.
DequeTypeOK ==
    /\ top \in Nat /\ bottom \in Nat
    /\ slots \in [0..Capacity - 1 -> 0..MaxJobs]
    /\ owner \in Programs({"idle", "push_slot", "push_bottom",
                           "pop_top", "pop_slot", "pop_race", "pop_restore"})
    /\ thief \in [Thieves -> Programs({"idle", "steal_bottom", "steal_slot", "steal_race", "steal_clear"})]
    /\ pushed \in 0..MaxJobs
    /\ taken \in [Jobs -> Nat]

\* The last position that holds a job, and the last one a thief can win.
LastPosition == IF owner.pc \in {"idle", "push_slot"} THEN bottom - 1 ELSE owner.b
\* The last position at which a compare-exchange of a thief can succeed.
LastStealable ==
    IF owner.pc \in {"idle", "push_slot", "push_bottom"} \/ (owner.pc = "pop_slot" /\ owner.t < owner.b)
    THEN bottom - 1 ELSE owner.b

\* Thief p would win its compare-exchange now.
CanWin(p) == thief[p].pc \in {"steal_slot", "steal_race"} /\ thief[p].t = top

\* Job j was pushed and nobody has it yet.
Untaken(j) == j \in 1..pushed /\ taken[j] = 0

\* The same in the next state.
UntakenNext(j) == j \in 1..pushed' /\ taken'[j] = 0

\* What the owner read before it was interrupted is still right: top may have
\* moved on, but not past what the owner has claimed for itself.
OwnerInv ==
    /\ bottom - top <= Capacity
    /\ owner.pc \in {"idle", "push_slot", "push_bottom"} => top <= bottom
    /\ owner.pc \in {"push_slot", "push_bottom"} => pushed < MaxJobs
    /\ owner.pc # "idle" => owner.b = bottom /\ bottom - top < Capacity
    /\ top <= bottom + 1
    /\ owner.pc = "pop_slot" => owner.t <= top /\ owner.t <= owner.b /\ (owner.t < owner.b => top <= bottom)
    /\ owner.pc \in {"pop_race", "pop_restore"} => owner.t = owner.b /\ owner.t <= top
    /\ owner.pc = "pop_restore" => top = owner.t + 1
    /\ owner.pc = "pop_race" /\ top = owner.t /\ owner.val # EMPTY_SLOT => Untaken(owner.val)

\* A thief whose compare-exchange can still succeed read the slot while it held
\* a job that nobody has taken, and no later slot holds the same job.
ThiefInv ==
    \A p \in Thieves :
        /\ thief[p].pc # "idle" => thief[p].t <= top
        /\ CanWin(p) => top <= LastStealable
        /\ CanWin(p) /\ thief[p].pc = "steal_race" =>
               /\ Untaken(thief[p].val)
               /\ \A i \in top + 1..LastPosition : slots[Slot(i)] # thief[p].val

\* Every slot in use is empty or holds a job of its own that nobody has taken.
SlotInv ==
    \A i \in top..LastPosition : slots[Slot(i)] # EMPTY_SLOT =>
        /\ \/ Untaken(slots[Slot(i)])
           \/ owner.pc = "push_bottom" /\ i = owner.b /\ slots[Slot(i)] = pushed + 1
        /\ \A j \in top..LastPosition : slots[Slot(j)] = slots[Slot(i)] => j = i

\* No job is taken twice, and none that was not pushed.
TakenInv == TakenOnce /\ \A j \in Jobs : j > pushed => taken[j] = 0

\* The inductive invariant of the deque.
DequeInv == DequeTypeOK /\ OwnerInv /\ ThiefInv /\ SlotInv /\ TakenInv

\* Positions less than the capacity apart have slots of their own.
LEMMA SlotApart ==
    ASSUME NEW i \in Nat, NEW b \in Nat, i < b, b - i < Capacity
    PROVE  Slot(i) # Slot(b)
BY DequeAssumption, SlotsApart DEF Slot

\* A position's slot exists.
LEMMA SlotType == ASSUME NEW i \in Nat PROVE Slot(i) \in 0..Capacity - 1
BY DequeAssumption, RoundAndSlot DEF Slot

\* The idle program is one of the owner's and of the thieves'.
LEMMA IdleIsProgram == Idle.pc = "idle" /\ Idle \in Programs({"idle"})
BY DequeAssumption DEF Idle, Programs, EMPTY_SLOT

\* An empty deque satisfies the invariant.
LEMMA DequeInitInv == ASSUME with_capacity PROVE DequeInv
<1>1. DequeTypeOK
  BY DequeAssumption DEF with_capacity, DequeTypeOK, Programs, Idle, EMPTY_SLOT
<1>2. LastPosition = -1 /\ top = 0 /\ owner.pc = "idle"
  BY DEF with_capacity, LastPosition, Idle
<1>3. \A p \in Thieves : thief[p].pc = "idle"
  BY DEF with_capacity, Idle
<1>4. OwnerInv
  BY DequeAssumption DEF with_capacity, OwnerInv, Idle
<1>5. SlotInv
  BY <1>2 DEF SlotInv
<1>6. ThiefInv
  BY <1>3 DEF ThiefInv, CanWin
<1>7. TakenInv
  BY DEF TakenInv, TakenOnce, with_capacity
<1> QED BY <1>1, <1>4, <1>5, <1>6, <1>7 DEF DequeInv

\* Steps that move only the owner's program and bottom.
LEMMA OwnerStepKeeps ==
    ASSUME DequeInv, UNCHANGED <<top, slots, thief, taken>>, DequeTypeOK', OwnerInv',
           pushed' = pushed \/ (pushed' = pushed + 1 /\ taken[pushed + 1] = 0),
           LastPosition' = LastPosition,
           top <= LastStealable => top <= LastStealable',
           owner.pc = "push_bottom" => pushed' = pushed + 1,
           TakenInv'
    PROVE  DequeInv'
<1>1. \A j : Untaken(j) => Untaken(j)'
  BY DEF DequeInv, DequeTypeOK, Untaken
<1>2. ThiefInv'
  BY <1>1 DEF DequeInv, ThiefInv, CanWin, Slot
<1>3. SlotInv'
  <2> SUFFICES ASSUME NEW i \in top..LastPosition, slots[Slot(i)] # EMPTY_SLOT
               PROVE  /\ Untaken(slots[Slot(i)])'
                      /\ \A j \in top..LastPosition : slots[Slot(j)] = slots[Slot(i)] => j = i
    BY DEF SlotInv, Slot
  <2>1. /\ \/ Untaken(slots[Slot(i)])
           \/ owner.pc = "push_bottom" /\ i = owner.b /\ slots[Slot(i)] = pushed + 1
        /\ \A j \in top..LastPosition : slots[Slot(j)] = slots[Slot(i)] => j = i
    BY DEF DequeInv, SlotInv
  <2>2. CASE Untaken(slots[Slot(i)])
    BY <2>1, <2>2, <1>1
  <2>3. CASE owner.pc = "push_bottom" /\ slots[Slot(i)] = pushed + 1
    BY <2>1, <2>3 DEF Untaken, DequeInv, DequeTypeOK
  <2> QED BY <2>1, <2>2, <2>3
<1> QED BY <1>2, <1>3 DEF DequeInv

\* push reads top and finds room, or gives up (work_stealing.rs, push).
LEMMA PushCheckKeeps == ASSUME DequeInv, PushCheck PROVE DequeInv'
<1>1. DequeTypeOK /\ OwnerInv /\ TakenInv
  BY DEF DequeInv
<1>2. UNCHANGED <<top, bottom, slots, thief, pushed, taken>> /\ owner.pc = "idle" /\ pushed < MaxJobs
  BY DEF PushCheck
<1>3. CASE owner' = owner
  <2>1. OwnerInv' /\ DequeTypeOK' /\ LastPosition' = LastPosition /\ LastStealable' = LastStealable
    BY <1>1, <1>2, <1>3 DEF OwnerInv, DequeTypeOK, LastPosition, LastStealable, Untaken, Programs
  <2> QED BY <1>1, <1>2, <2>1, OwnerStepKeeps DEF TakenInv, TakenOnce
<1>4. CASE owner' # owner
  <2>1. owner' = [owner EXCEPT !.pc = "push_slot", !.b = bottom] /\ ~ IsFull(bottom, top)
    BY <1>4 DEF PushCheck
  <2>2. owner'.pc = "push_slot" /\ owner'.b = bottom /\ owner' \in Programs({"push_slot"})
    BY <1>1, <2>1 DEF DequeTypeOK, Programs
  <2>3. DequeTypeOK'
    BY <1>1, <1>2, <2>2 DEF DequeTypeOK, Programs
  <2>4. OwnerInv'
    BY <1>1, <1>2, <2>1, <2>2, DequeAssumption DEF OwnerInv, DequeTypeOK, IsFull
  <2>5. LastPosition' = LastPosition /\ LastStealable' = LastStealable
    BY <1>2, <2>2 DEF LastPosition, LastStealable
  <2> QED BY <1>1, <1>2, <2>3, <2>4, <2>5, OwnerStepKeeps DEF TakenInv, TakenOnce
<1> QED BY <1>3, <1>4

\* push publishes the job by moving bottom on.
LEMMA PushBottomKeeps == ASSUME DequeInv, PushBottom PROVE DequeInv'
<1>1. DequeTypeOK /\ OwnerInv /\ TakenInv
  BY DEF DequeInv
<1>2. /\ UNCHANGED <<top, slots, thief, taken>> /\ owner.pc = "push_bottom"
      /\ bottom' = owner.b + 1 /\ pushed' = pushed + 1 /\ owner' = Idle
  BY DEF PushBottom
<1>3. owner.b = bottom /\ pushed < MaxJobs /\ bottom - top < Capacity /\ top <= bottom
  BY <1>1, <1>2 DEF OwnerInv
<1>4. top \in Nat /\ bottom \in Nat /\ pushed \in 0..MaxJobs /\ Capacity \in Nat /\ MaxJobs \in Nat
  BY <1>1, DequeAssumption DEF DequeTypeOK
<1>5. owner'.pc = "idle" /\ owner' \in Programs({"idle"})
  BY <1>2, IdleIsProgram
<1>6. DequeTypeOK'
  BY <1>1, <1>2, <1>3, <1>4, <1>5 DEF DequeTypeOK, Programs
<1>7. OwnerInv'
  BY <1>2, <1>3, <1>4, <1>5 DEF OwnerInv
<1>8. LastPosition' = LastPosition /\ (top <= LastStealable => top <= LastStealable')
  BY <1>2, <1>3, <1>4, <1>5 DEF LastPosition, LastStealable
<1>9. TakenInv' /\ taken[pushed + 1] = 0
  BY <1>1, <1>2, <1>3, <1>4 DEF TakenInv, TakenOnce, Jobs
<1> QED BY <1>2, <1>6, <1>7, <1>8, <1>9, OwnerStepKeeps

\* pop claims the last position by moving bottom back (work_stealing.rs, pop).
LEMMA PopBottomKeeps == ASSUME DequeInv, PopBottom PROVE DequeInv'
<1>1. DequeTypeOK /\ OwnerInv /\ TakenInv
  BY DEF DequeInv
<1>2. UNCHANGED <<top, slots, thief, pushed, taken>> /\ owner.pc = "idle"
  BY DEF PopBottom
<1>3. CASE UNCHANGED <<bottom, owner>>
  <2>1. OwnerInv' /\ DequeTypeOK' /\ LastPosition' = LastPosition /\ LastStealable' = LastStealable
    BY <1>1, <1>2, <1>3 DEF OwnerInv, DequeTypeOK, LastPosition, LastStealable, Untaken, Programs
  <2> QED BY <1>1, <1>2, <2>1, OwnerStepKeeps DEF TakenInv, TakenOnce
<1>4. CASE ~ UNCHANGED <<bottom, owner>>
  <2>1. /\ bottom' = bottom - 1 /\ owner' = [owner EXCEPT !.pc = "pop_top", !.b = bottom - 1]
        /\ ~ (bottom = 0 /\ top = 0)
    BY <1>4 DEF PopBottom
  <2>2. /\ top \in Nat /\ bottom \in Nat /\ Capacity \in Nat /\ top <= bottom /\ bottom - top <= Capacity
    BY <1>1, <1>2, DequeAssumption DEF OwnerInv, DequeTypeOK
  <2>3. bottom' \in Nat /\ top <= bottom' + 1 /\ bottom' - top < Capacity
    BY <2>1, <2>2
  <2>4. owner'.pc = "pop_top" /\ owner'.b = bottom' /\ owner' \in Programs({"pop_top"})
    BY <1>1, <2>1, <2>3 DEF DequeTypeOK, Programs
  <2>5. DequeTypeOK'
    BY <1>1, <1>2, <2>3, <2>4 DEF DequeTypeOK, Programs
  <2>6. OwnerInv'
    <3>1. top' = top
      BY <1>2
    <3>2. bottom' - top <= Capacity /\ top <= bottom' + 1 /\ bottom' - top < Capacity
      BY <2>1, <2>2
    <3> QED BY <3>1, <3>2, <2>4 DEF OwnerInv
  <2>7. LastPosition' = LastPosition /\ LastStealable' = LastStealable
    BY <1>2, <2>1, <2>2, <2>4 DEF LastPosition, LastStealable
  <2> QED BY <1>1, <1>2, <2>5, <2>6, <2>7, OwnerStepKeeps DEF TakenInv, TakenOnce
<1> QED BY <1>3, <1>4

\* pop reads top: the claim is safe, in a race, or was too late.
LEMMA PopTopKeeps == ASSUME DequeInv, PopTop PROVE DequeInv'
<1>1. DequeTypeOK /\ OwnerInv /\ TakenInv
  BY DEF DequeInv
<1>2. UNCHANGED <<top, slots, thief, pushed, taken>> /\ owner.pc = "pop_top"
  BY DEF PopTop
<1>3. /\ top \in Nat /\ bottom \in Nat /\ Capacity \in Nat \ {0} /\ owner.b = bottom /\ top <= bottom + 1
      /\ bottom - top < Capacity
  BY <1>1, <1>2, DequeAssumption DEF OwnerInv, DequeTypeOK
<1>4. CASE top <= owner.b
  <2>1. owner' = [owner EXCEPT !.pc = "pop_slot", !.t = top] /\ bottom' = bottom
    BY <1>4 DEF PopTop
  <2>2. owner'.pc = "pop_slot" /\ owner'.t = top /\ owner'.b = bottom /\ owner' \in Programs({"pop_slot"})
    BY <1>1, <1>3, <2>1 DEF DequeTypeOK, Programs
  <2>3. DequeTypeOK'
    BY <1>1, <1>2, <2>1, <2>2 DEF DequeTypeOK, Programs
  <2>4. OwnerInv'
    BY <1>2, <1>3, <1>4, <2>1, <2>2 DEF OwnerInv
  <2>5. LastPosition' = LastPosition
    BY <1>2, <1>3, <2>2 DEF LastPosition
  <2>6. top <= LastStealable => top <= LastStealable'
    BY <1>2, <1>3, <1>4, <2>1, <2>2 DEF LastStealable
  <2> QED BY <1>1, <1>2, <2>3, <2>4, <2>5, <2>6, OwnerStepKeeps DEF TakenInv, TakenOnce
<1>5. CASE ~ (top <= owner.b)
  <2>1. owner' = Idle /\ bottom' = top /\ top = bottom + 1
    BY <1>3, <1>5 DEF PopTop
  <2>2. owner'.pc = "idle" /\ owner' \in Programs({"idle"})
    BY <2>1, IdleIsProgram
  <2>3. DequeTypeOK'
    BY <1>1, <1>2, <1>3, <2>1, <2>2 DEF DequeTypeOK, Programs
  <2>4. OwnerInv'
    BY <1>2, <1>3, <2>1, <2>2 DEF OwnerInv
  <2>5. LastPosition' = LastPosition /\ (top <= LastStealable => top <= LastStealable')
    BY <1>2, <1>3, <2>1, <2>2 DEF LastPosition, LastStealable
  <2> QED BY <1>1, <1>2, <2>3, <2>4, <2>5, OwnerStepKeeps DEF TakenInv, TakenOnce
<1> QED BY <1>4, <1>5

\* pop puts bottom back after a race or an empty deque.
LEMMA PopRestoreKeeps == ASSUME DequeInv, PopRestore PROVE DequeInv'
<1>1. DequeTypeOK /\ OwnerInv /\ TakenInv
  BY DEF DequeInv
<1>2. /\ UNCHANGED <<top, slots, thief, pushed, taken>> /\ owner.pc = "pop_restore"
      /\ owner' = Idle /\ bottom' = owner.t + 1
  BY DEF PopRestore
<1>3. /\ top \in Nat /\ bottom \in Nat /\ Capacity \in Nat \ {0} /\ owner.b = bottom /\ owner.t = bottom
      /\ top = bottom + 1
  BY <1>1, <1>2, DequeAssumption DEF OwnerInv, DequeTypeOK
<1>4. owner'.pc = "idle" /\ owner' \in Programs({"idle"})
  BY <1>2, IdleIsProgram
<1>5. DequeTypeOK'
  BY <1>1, <1>2, <1>3, <1>4 DEF DequeTypeOK, Programs
<1>6. OwnerInv'
  BY <1>2, <1>3, <1>4 DEF OwnerInv
<1>7. LastPosition' = LastPosition /\ (top <= LastStealable => top <= LastStealable')
  BY <1>2, <1>3, <1>4 DEF LastPosition, LastStealable
<1> QED BY <1>1, <1>2, <1>5, <1>6, <1>7, OwnerStepKeeps DEF TakenInv, TakenOnce

\* The new job goes to a slot of its own.
LEMMA PushSlotKeeps == ASSUME DequeInv, PushSlot PROVE DequeInv'
<1>1. DequeTypeOK /\ OwnerInv /\ TakenInv /\ ThiefInv /\ SlotInv
  BY DEF DequeInv
<1>2. /\ UNCHANGED <<top, bottom, thief, pushed, taken>> /\ owner.pc = "push_slot"
      /\ slots' = [slots EXCEPT ![Slot(owner.b)] = pushed + 1]
      /\ owner' = [owner EXCEPT !.pc = "push_bottom"]
  BY DEF PushSlot
<1>3. /\ top \in Nat /\ bottom \in Nat /\ Capacity \in Nat /\ owner.b = bottom /\ bottom - top < Capacity
      /\ pushed < MaxJobs /\ pushed \in Nat /\ MaxJobs \in Nat /\ top <= bottom
      /\ slots \in [0..Capacity - 1 -> 0..MaxJobs]
  BY <1>1, <1>2, DequeAssumption DEF OwnerInv, DequeTypeOK
<1>4. owner'.pc = "push_bottom" /\ owner'.b = bottom /\ owner' \in Programs({"push_bottom"})
  BY <1>1, <1>2, <1>3 DEF DequeTypeOK, Programs
<1>5. /\ slots' \in [0..Capacity - 1 -> 0..MaxJobs] /\ slots'[Slot(bottom)] = pushed + 1
      /\ \A i \in top..bottom - 1 : slots'[Slot(i)] = slots[Slot(i)]
  <2>1. Slot(bottom) \in 0..Capacity - 1
    BY <1>3, SlotType
  <2>2. \A i \in top..bottom - 1 : Slot(i) # Slot(bottom) /\ Slot(i) \in 0..Capacity - 1
    <3> TAKE i \in top..bottom - 1
    <3>1. i \in Nat /\ i < bottom /\ bottom - i < Capacity
      BY <1>3
    <3> QED BY <3>1, <1>3, SlotApart, SlotType
  <2> QED BY <1>2, <1>3, <2>1, <2>2
<1>6. DequeTypeOK'
  BY <1>1, <1>2, <1>4, <1>5 DEF DequeTypeOK, Programs
<1>7. OwnerInv'
  BY <1>1, <1>2, <1>3, <1>4 DEF OwnerInv
<1>8. LastPosition = bottom - 1 /\ LastPosition' = bottom /\ LastStealable' = LastStealable
      /\ LastStealable = bottom - 1
  BY <1>2, <1>4 DEF LastPosition, LastStealable
<1>9. SlotInv'
  <2> SUFFICES ASSUME NEW i \in top..bottom, slots'[Slot(i)] # EMPTY_SLOT
               PROVE  /\ \/ Untaken(slots'[Slot(i)])
                         \/ i = bottom /\ slots'[Slot(i)] = pushed + 1
                      /\ \A j \in top..bottom : slots'[Slot(j)] = slots'[Slot(i)] => j = i
    BY <1>2, <1>4, <1>8 DEF SlotInv, Slot, Untaken
  <2>1. \A j \in top..bottom - 1 : slots'[Slot(j)] # EMPTY_SLOT =>
           Untaken(slots'[Slot(j)]) /\ \A k \in top..bottom - 1 : slots'[Slot(k)] = slots'[Slot(j)] => j = k
    BY <1>1, <1>2, <1>5, <1>8 DEF SlotInv
  <2>2. \A j \in top..bottom : j = bottom \/ j \in top..bottom - 1
    BY <1>3
  <2>3. \A j \in top..bottom - 1 : slots'[Slot(j)] # pushed + 1
    BY <2>1, <1>3 DEF Untaken, EMPTY_SLOT
  <2> QED BY <2>1, <2>2, <2>3, <1>3, <1>5
<1>10. ThiefInv'
  <2> SUFFICES ASSUME NEW p \in Thieves, CanWin(p), thief[p].pc = "steal_race", NEW i \in top + 1..bottom
               PROVE  slots'[Slot(i)] # thief[p].val
    BY <1>1, <1>2, <1>8 DEF ThiefInv, CanWin, Untaken, Slot
  <2>1. Untaken(thief[p].val) /\ \A k \in top + 1..bottom - 1 : slots[Slot(k)] # thief[p].val
    BY <1>1, <1>8 DEF ThiefInv
  <2>2. CASE i = bottom
    BY <2>1, <2>2, <1>3, <1>5 DEF Untaken
  <2>3. CASE i # bottom
    <3>1. i \in top + 1..bottom - 1 /\ i \in top..bottom - 1
      BY <2>3, <1>3
    <3> QED BY <3>1, <2>1, <1>5
  <2> QED BY <2>2, <2>3
<1>11. TakenInv'
  BY <1>1, <1>2 DEF TakenInv, TakenOnce
<1> QED BY <1>6, <1>7, <1>9, <1>10, <1>11 DEF DequeInv

\* Emptying a slot leaves every slot as it was or empty.
LEMMA ClearSlot ==
    ASSUME DequeTypeOK, NEW n \in Nat, slots' = [slots EXCEPT ![Slot(n)] = EMPTY_SLOT]
    PROVE  /\ slots' \in [0..Capacity - 1 -> 0..MaxJobs]
           /\ \A i \in Nat : slots'[Slot(i)] = slots[Slot(i)] \/ slots'[Slot(i)] = EMPTY_SLOT
<1>1. slots \in [0..Capacity - 1 -> 0..MaxJobs] /\ EMPTY_SLOT \in 0..MaxJobs
  BY DequeAssumption DEF DequeTypeOK, EMPTY_SLOT
<1>2. \A i \in Nat : Slot(i) \in 0..Capacity - 1
  BY SlotType
<1> QED BY <1>1, <1>2

\* Taking a job is counted once.
LEMMA TookOne ==
    ASSUME TakenInv, taken \in [Jobs -> Nat], pushed \in 0..MaxJobs, UNCHANGED pushed,
           NEW j, j = EMPTY_SLOT \/ Untaken(j), Took(j)
    PROVE  /\ TakenInv' /\ taken' \in [Jobs -> Nat]
           /\ \A k : k # j /\ Untaken(k) => Untaken(k)'
<1>1. CASE j = EMPTY_SLOT
  BY <1>1 DEF Took, TakenInv, TakenOnce, Untaken
<1>2. CASE j # EMPTY_SLOT
  <2>1. j \in 1..pushed /\ taken[j] = 0 /\ taken' = [taken EXCEPT ![j] = @ + 1]
    BY <1>2 DEF Untaken, Took
  <2>2. j \in Jobs /\ MaxJobs \in Nat
    BY <2>1, DequeAssumption DEF Jobs
  <2>3. taken'[j] = 1 /\ \A k \in Jobs \ {j} : taken'[k] = taken[k]
    BY <2>1, <2>2
  <2>4. taken' \in [Jobs -> Nat]
    BY <2>1, <2>2
  <2>5. \A k \in Jobs : k # j => taken'[k] <= 1 /\ (k > pushed => taken'[k] = 0)
    BY <2>3 DEF TakenInv, TakenOnce
  <2>6. ~ (j > pushed)
    BY <2>1, <2>2
  <2>7. TakenInv'
    BY <2>3, <2>5, <2>6 DEF TakenInv, TakenOnce
  <2>8. ASSUME NEW k, k # j, Untaken(k) PROVE Untaken(k)'
    <3>1. k \in 1..pushed /\ taken[k] = 0 /\ k \in Jobs
      BY <2>8, <2>2 DEF Untaken, Jobs
    <3> QED BY <3>1, <2>3, <2>8 DEF Untaken
  <2> QED BY <2>4, <2>7, <2>8
<1> QED BY <1>1, <1>2

\* The positions after m, up to the last one, after one job was taken that is
\* at none of them.
LEMMA SlotsKept ==
    ASSUME SlotInv, DequeTypeOK, owner.pc # "push_bottom",
           NEW m \in Nat, NEW n \in Int, top <= m, n <= LastPosition, NEW j,
           \A i \in m..n : slots'[Slot(i)] = slots[Slot(i)] \/ slots'[Slot(i)] = EMPTY_SLOT,
           \A k : k # j /\ Untaken(k) => Untaken(k)',
           \A i \in m..n : slots[Slot(i)] = EMPTY_SLOT \/ slots[Slot(i)] # j
    PROVE  \A i \in m..n : slots'[Slot(i)] # EMPTY_SLOT =>
               /\ UntakenNext(slots'[Slot(i)])
               /\ \A k \in m..n : slots'[Slot(k)] = slots'[Slot(i)] => k = i
<1> SUFFICES ASSUME NEW i \in m..n, slots'[Slot(i)] # EMPTY_SLOT
             PROVE  /\ UntakenNext(slots'[Slot(i)])
                    /\ \A k \in m..n : slots'[Slot(k)] = slots'[Slot(i)] => k = i
  OBVIOUS
<1>1. top \in Nat /\ LastPosition \in Int
  BY DEF DequeTypeOK, LastPosition, Programs
<1>2. \A k \in m..n : k \in top..LastPosition
  BY <1>1
<1>3. slots'[Slot(i)] = slots[Slot(i)]
  OBVIOUS
<1>4. /\ Untaken(slots[Slot(i)])
      /\ \A k \in top..LastPosition : slots[Slot(k)] = slots[Slot(i)] => k = i
  BY <1>2, <1>3 DEF SlotInv
<1>5. UntakenNext(slots'[Slot(i)])
  <2>1. slots[Slot(i)] # j
    BY <1>3
  <2>2. Untaken(slots[Slot(i)])'
    BY <1>4, <2>1
  <2> QED BY <1>3, <2>2 DEF Untaken, UntakenNext
<1> QED BY <1>2, <1>3, <1>4, <1>5

\* pop takes the job without a race: no thief can win the position any more.
LEMMA PopSlotKeeps == ASSUME DequeInv, PopSlot PROVE DequeInv'
<1>1. DequeTypeOK /\ OwnerInv /\ TakenInv /\ ThiefInv /\ SlotInv
  BY DEF DequeInv
<1> DEFINE v == slots[Slot(bottom)]
<1>2. /\ UNCHANGED <<top, bottom, thief, pushed>> /\ owner.pc = "pop_slot" /\ owner.b = bottom
      /\ slots' = [slots EXCEPT ![Slot(bottom)] = EMPTY_SLOT]
  BY <1>1 DEF PopSlot, OwnerInv
<1>3. /\ top \in Nat /\ bottom \in Nat /\ Capacity \in Nat /\ MaxJobs \in Nat /\ bottom - top < Capacity
      /\ owner.t \in Nat /\ owner.t <= bottom /\ owner.t <= top /\ top <= bottom + 1
      /\ owner.t < bottom => top <= bottom
      /\ pushed \in 0..MaxJobs /\ taken \in [Jobs -> Nat] /\ v \in 0..MaxJobs
  <2>1. Slot(bottom) \in 0..Capacity - 1
    BY <1>1, SlotType DEF DequeTypeOK
  <2> QED BY <2>1, <1>1, <1>2, DequeAssumption DEF OwnerInv, DequeTypeOK, Programs
<1>4. /\ slots' \in [0..Capacity - 1 -> 0..MaxJobs]
      /\ \A i \in Nat : slots'[Slot(i)] = slots[Slot(i)] \/ slots'[Slot(i)] = EMPTY_SLOT
  BY <1>1, <1>2, <1>3, ClearSlot
<1>5. LastPosition = bottom
  BY <1>2 DEF LastPosition
<1>6. top <= bottom /\ v # EMPTY_SLOT =>
        /\ Untaken(v)
        /\ \A j \in top..bottom : slots[Slot(j)] = v => j = bottom
  <2> SUFFICES ASSUME top <= bottom, v # EMPTY_SLOT
               PROVE  Untaken(v) /\ \A j \in top..bottom : slots[Slot(j)] = v => j = bottom
    OBVIOUS
  <2>1. bottom \in top..bottom
    BY <1>3
  <2> QED BY <2>1, <1>1, <1>2, <1>5 DEF SlotInv
<1>7. CASE owner.t = bottom
  <2>1. owner' = [owner EXCEPT !.pc = "pop_race", !.val = v] /\ taken' = taken
    BY <1>2, <1>7 DEF PopSlot
  <2>2. /\ owner'.pc = "pop_race" /\ owner'.b = bottom /\ owner'.t = bottom /\ owner'.val = v
        /\ owner' \in Programs({"pop_race"})
    BY <1>1, <1>2, <1>3, <1>7, <2>1 DEF DequeTypeOK, Programs
  <2>3. DequeTypeOK'
    BY <1>1, <1>2, <1>4, <2>1, <2>2 DEF DequeTypeOK, Programs
  <2>4. \A k : Untaken(k) <=> Untaken(k)'
    BY <1>2, <2>1 DEF Untaken
  <2>5. OwnerInv'
    BY <1>2, <1>3, <1>6, <1>7, <2>2, <2>4 DEF OwnerInv
  <2>6. LastPosition' = bottom /\ LastStealable' = bottom /\ LastStealable = bottom
    BY <1>2, <1>3, <1>7, <2>2 DEF LastPosition, LastStealable
  <2>7. SlotInv'
    <3>1. \A i \in top..bottom : slots'[Slot(i)] # EMPTY_SLOT =>
               /\ UntakenNext(slots'[Slot(i)])
               /\ \A k \in top..bottom : slots'[Slot(k)] = slots'[Slot(i)] => k = i
      <4>1. \A i \in top..bottom : slots'[Slot(i)] = slots[Slot(i)] \/ slots'[Slot(i)] = EMPTY_SLOT
        BY <1>3, <1>4
      <4>2. \A i \in top..bottom : slots[Slot(i)] = EMPTY_SLOT \/ slots[Slot(i)] # EMPTY_SLOT
        OBVIOUS
      <4>3. bottom \in Int /\ bottom <= LastPosition /\ top <= top
        BY <1>3, <1>5
      <4> QED BY <4>1, <4>2, <4>3, <2>4, <1>1, <1>2, <1>3, SlotsKept
    <3>2. top' = top /\ \A i : Slot(i)' = Slot(i)
      BY <1>2 DEF Slot
    <3> QED BY <3>1, <3>2, <2>6 DEF SlotInv, Untaken, UntakenNext
  <2>8. ThiefInv'
    <3> SUFFICES ASSUME NEW p \in Thieves, CanWin(p), thief[p].pc = "steal_race", NEW i \in top + 1..bottom
                 PROVE  slots'[Slot(i)] # thief[p].val
      BY <1>1, <1>2, <2>4, <2>6 DEF ThiefInv, CanWin, Slot
    <3>1. Untaken(thief[p].val) /\ slots[Slot(i)] # thief[p].val
      BY <1>1, <1>5 DEF ThiefInv
    <3>2. thief[p].val # EMPTY_SLOT /\ i \in Nat
      BY <3>1, <1>3 DEF Untaken, EMPTY_SLOT
    <3> QED BY <3>1, <3>2, <1>4
  <2>9. TakenInv'
    BY <1>1, <1>2, <2>1 DEF TakenInv, TakenOnce
  <2> QED BY <2>3, <2>5, <2>7, <2>8, <2>9 DEF DequeInv
<1>8. CASE owner.t # bottom
  <2>1. owner' = Idle /\ Took(v) /\ owner.t < bottom /\ top <= bottom
    BY <1>2, <1>3, <1>8 DEF PopSlot
  <2>2. owner'.pc = "idle" /\ owner' \in Programs({"idle"})
    BY <2>1, IdleIsProgram
  <2> HIDE DEF v
  <2>3. /\ TakenInv' /\ taken' \in [Jobs -> Nat]
        /\ \A k : k # v /\ Untaken(k) => Untaken(k)'
    BY <1>1, <1>2, <1>3, <1>6, <2>1, TookOne
  <2>4. DequeTypeOK'
    BY <1>1, <1>2, <1>4, <2>2, <2>3 DEF DequeTypeOK, Programs
  <2>5. OwnerInv'
    BY <1>2, <1>3, <2>1, <2>2 DEF OwnerInv
  <2>6. LastPosition' = bottom - 1 /\ LastStealable' = bottom - 1 /\ LastStealable = bottom - 1
    BY <1>2, <1>3, <2>1, <2>2 DEF LastPosition, LastStealable
  <2>7. SlotInv'
    <3>1. \A i \in top..bottom - 1 : slots'[Slot(i)] # EMPTY_SLOT =>
               /\ UntakenNext(slots'[Slot(i)])
               /\ \A k \in top..bottom - 1 : slots'[Slot(k)] = slots'[Slot(i)] => k = i
      <4>1. \A i \in top..bottom - 1 : slots'[Slot(i)] = slots[Slot(i)] \/ slots'[Slot(i)] = EMPTY_SLOT
        BY <1>3, <1>4
      <4>2. \A i \in top..bottom - 1 : slots[Slot(i)] = EMPTY_SLOT \/ slots[Slot(i)] # v
        <5> TAKE i \in top..bottom - 1
        <5>1. i \in top..bottom /\ i # bottom
          BY <1>3
        <5> QED BY <5>1, <1>6, <2>1
      <4>3. bottom - 1 \in Int /\ bottom - 1 <= LastPosition /\ top <= top
        BY <1>3, <1>5
      <4> QED BY <4>1, <4>2, <4>3, <2>3, <1>1, <1>2, <1>3, SlotsKept
    <3>2. top' = top /\ \A i : Slot(i)' = Slot(i)
      BY <1>2 DEF Slot
    <3> QED BY <3>1, <3>2, <2>6 DEF SlotInv, Untaken, UntakenNext
  <2>8. ThiefInv'
    <3>1. ASSUME NEW p \in Thieves, CanWin(p), thief[p].pc = "steal_race"
          PROVE  /\ UntakenNext(thief[p].val)
                 /\ \A i \in top + 1..bottom - 1 : slots'[Slot(i)] # thief[p].val
      <4>1. /\ Untaken(thief[p].val) /\ top <= bottom - 1
            /\ \A i \in top + 1..bottom : slots[Slot(i)] # thief[p].val
        BY <1>1, <1>5, <2>6, <3>1 DEF ThiefInv
      <4>2. thief[p].val # v
        <5>1. bottom \in top + 1..bottom
          BY <4>1, <1>3
        <5> QED BY <5>1, <4>1 DEF v
      <4>3. thief[p].val # EMPTY_SLOT
        BY <4>1 DEF Untaken, EMPTY_SLOT
      <4>4. \A i \in top + 1..bottom - 1 : i \in Nat /\ i \in top + 1..bottom
        BY <1>3
      <4>5. UntakenNext(thief[p].val)
        <5> DEFINE w == thief[p].val
        <5>1. Untaken(w) /\ w # v
          BY <4>1, <4>2
        <5> HIDE DEF w
        <5>2. UntakenNext(w)
          BY <5>1, <2>3 DEF Untaken, UntakenNext
        <5> QED BY <5>2 DEF w
      <4> QED BY <4>1, <4>3, <4>4, <4>5, <1>4
    <3>2. thief' = thief /\ top' = top /\ \A i : Slot(i)' = Slot(i)
      BY <1>2 DEF Slot
    <3> QED BY <3>1, <3>2, <1>1, <2>6 DEF ThiefInv, CanWin, Untaken, UntakenNext
  <2> QED BY <2>3, <2>4, <2>5, <2>7, <2>8 DEF DequeInv
<1> QED BY <1>7, <1>8

\* Once top has moved on, no thief that read it before can win.
LEMMA TopMoves ==
    ASSUME DequeInv, top' = top + 1, NEW p \in Thieves, thief'[p].t = thief[p].t,
           thief'[p].pc \in {"steal_slot", "steal_race"} => thief[p].pc # "idle"
    PROVE  ~ CanWin(p)'
BY DEF DequeInv, ThiefInv, CanWin, DequeTypeOK, Programs

\* pop and the thieves race for the last job with one compare-exchange.
LEMMA PopRaceKeeps == ASSUME DequeInv, PopRace PROVE DequeInv'
<1>1. DequeTypeOK /\ OwnerInv /\ TakenInv /\ ThiefInv /\ SlotInv
  BY DEF DequeInv
<1>2. /\ UNCHANGED <<bottom, slots, thief, pushed>> /\ owner.pc = "pop_race"
      /\ owner' = [owner EXCEPT !.pc = "pop_restore"]
  BY DEF PopRace
<1>3. /\ top \in Nat /\ bottom \in Nat /\ owner.b = bottom /\ owner.t = bottom /\ owner.t <= top /\ top <= bottom + 1
      /\ pushed \in 0..MaxJobs /\ taken \in [Jobs -> Nat] /\ Capacity \in Nat /\ bottom - top < Capacity
      /\ top = owner.t /\ owner.val # EMPTY_SLOT => Untaken(owner.val)
  BY <1>1, <1>2, DequeAssumption DEF OwnerInv, DequeTypeOK
<1>4. /\ owner'.pc = "pop_restore" /\ owner'.b = bottom /\ owner'.t = bottom
      /\ owner' \in Programs({"pop_restore"})
  BY <1>1, <1>2, <1>3 DEF DequeTypeOK, Programs
<1>5. /\ top' = bottom + 1 /\ TakenInv' /\ taken' \in [Jobs -> Nat]
      /\ top' = top + 1 \/ (top' = top /\ taken' = taken)
  <2>1. CASE top = owner.t
    <3>1. top' = top + 1 /\ Took(owner.val)
      BY <2>1 DEF PopRace
    <3>2. owner.val = EMPTY_SLOT \/ Untaken(owner.val)
      BY <2>1, <1>3
    <3>3. TakenInv' /\ taken' \in [Jobs -> Nat]
      BY <3>1, <3>2, <1>1, <1>2, <1>3, TookOne
    <3> QED BY <3>1, <3>3, <2>1, <1>3
  <2>2. CASE top # owner.t
    <3>1. top' = top /\ taken' = taken
      BY <2>2 DEF PopRace
    <3> QED BY <3>1, <2>2, <1>1, <1>2, <1>3 DEF TakenInv, TakenOnce
  <2> QED BY <2>1, <2>2
<1>6. DequeTypeOK'
  BY <1>1, <1>2, <1>3, <1>4, <1>5, SMTT(30) DEF DequeTypeOK, Programs
<1>7. OwnerInv'
  BY <1>2, <1>3, <1>4, <1>5 DEF OwnerInv
<1>8. LastPosition' = bottom /\ LastPosition = bottom /\ LastStealable = bottom /\ LastStealable' = bottom
  BY <1>2, <1>3, <1>4 DEF LastPosition, LastStealable
<1>9. SlotInv'
  BY <1>3, <1>5, <1>8 DEF SlotInv
<1>10. \A p \in Thieves : ~ CanWin(p)'
  <2> TAKE p \in Thieves
  <2>1. CASE top' = top + 1
    BY <2>1, <1>2, TopMoves
  <2>2. CASE top' = top
    BY <2>2, <1>1, <1>2, <1>3, <1>5, <1>8 DEF ThiefInv, CanWin
  <2> QED BY <2>1, <2>2, <1>5
<1>11. ThiefInv'
  <2>1. \A p \in Thieves : thief[p].pc # "idle" => thief[p].t <= top /\ thief[p].t \in Nat
    BY <1>1 DEF ThiefInv, DequeTypeOK, Programs
  <2>2. \A p \in Thieves : thief[p].pc # "idle" => thief[p].t <= top'
    BY <2>1, <1>3, <1>5
  <2> QED BY <2>2, <1>2, <1>10 DEF ThiefInv
<1> QED BY <1>5, <1>6, <1>7, <1>9, <1>11 DEF DequeInv

\* Steps of a thief that change nothing but where it is.
LEMMA ThiefStepKeeps ==
    ASSUME DequeInv, UNCHANGED <<top, bottom, slots, owner, pushed, taken>>, NEW p \in Thieves,
           thief' \in [Thieves -> Programs({"idle", "steal_bottom", "steal_slot", "steal_race", "steal_clear"})],
           \A q \in Thieves \ {p} : thief'[q] = thief[q],
           thief'[p].pc # "idle" => thief'[p].t <= top,
           thief'[p].pc \in {"steal_slot", "steal_race"} /\ thief'[p].t = top =>
               /\ top <= LastStealable
               /\ thief'[p].pc = "steal_race" =>
                     /\ Untaken(thief'[p].val)
                     /\ \A i \in top + 1..LastPosition : slots[Slot(i)] # thief'[p].val
    PROVE  DequeInv'
<1>1. DequeTypeOK /\ OwnerInv /\ TakenInv /\ ThiefInv /\ SlotInv
  BY DEF DequeInv
<1>2. LastPosition' = LastPosition /\ LastStealable' = LastStealable
  BY DEF LastPosition, LastStealable
<1>3. \A i : Slot(i)' = Slot(i)
  BY DEF Slot
<1>4. DequeTypeOK'
  BY <1>1 DEF DequeTypeOK, Programs
<1>5. OwnerInv'
  BY <1>1 DEF OwnerInv, Untaken
<1>6. SlotInv' /\ TakenInv'
  BY <1>1, <1>2, <1>3 DEF SlotInv, Untaken, TakenInv, TakenOnce
<1>7. ThiefInv'
  <2> SUFFICES ASSUME NEW q \in Thieves
               PROVE  /\ thief'[q].pc # "idle" => thief'[q].t <= top
                      /\ CanWin(q)' => top <= LastStealable
                      /\ CanWin(q)' /\ thief'[q].pc = "steal_race" =>
                           /\ Untaken(thief'[q].val)
                           /\ \A i \in top + 1..LastPosition : slots[Slot(i)] # thief'[q].val
    BY <1>2, <1>3 DEF ThiefInv, Untaken
  <2>1. CASE q = p
    BY <2>1 DEF CanWin
  <2>2. CASE q # p
    BY <2>2, <1>1 DEF ThiefInv, CanWin
  <2> QED BY <2>1, <2>2
<1> QED BY <1>4, <1>5, <1>6, <1>7 DEF DequeInv

\* A thief reads bottom or the slot; what it read may be stale at once.
LEMMA StealReadKeeps ==
    ASSUME DequeInv, NEW p \in Thieves, StealTop(p) \/ StealBottom(p) \/ StealSlot(p)
    PROVE  DequeInv'
<1>1. DequeTypeOK /\ OwnerInv /\ ThiefInv /\ SlotInv
  BY DEF DequeInv
<1> DEFINE All == Programs({"idle", "steal_bottom", "steal_slot", "steal_race", "steal_clear"})
<1>2. /\ UNCHANGED <<top, bottom, slots, owner, pushed, taken>>
      /\ thief \in [Thieves -> All] /\ top \in Nat /\ bottom \in Nat
      /\ thief[p] \in All /\ thief[p].t \in Nat
      /\ owner.pc # "idle" => owner.b = bottom
  BY <1>1 DEF StealTop, StealBottom, StealSlot, DequeTypeOK, Programs, OwnerInv
<1>3. Idle \in All
  BY IdleIsProgram DEF Programs
<1>4. CASE StealTop(p)
  <2>1. thief' = [thief EXCEPT ![p] = [thief[p] EXCEPT !.pc = "steal_bottom", !.t = top]]
    BY <1>2, <1>4 DEF StealTop, Programs
  <2> DEFINE new == [thief[p] EXCEPT !.pc = "steal_bottom", !.t = top]
  <2>2. new \in All /\ new.pc = "steal_bottom" /\ new.t = top
    BY <1>2 DEF Programs
  <2>3. thief' = [thief EXCEPT ![p] = new]
    BY <2>1
  <2> HIDE DEF new
  <2>4. thief' \in [Thieves -> All] /\ thief'[p] = new /\ \A q \in Thieves \ {p} : thief'[q] = thief[q]
    BY <1>2, <2>2, <2>3
  <2> QED BY <1>2, <2>2, <2>4, ThiefStepKeeps
<1>5. CASE StealBottom(p)
  <2> DEFINE new == IF thief[p].t >= bottom THEN Idle ELSE [thief[p] EXCEPT !.pc = "steal_slot"]
  <2>1. thief' = [thief EXCEPT ![p] = new] /\ thief[p].pc = "steal_bottom"
    BY <1>5 DEF StealBottom
  <2>2. /\ new \in All /\ new.pc \in {"idle", "steal_slot"}
        /\ new.pc = "steal_slot" => new.t = thief[p].t /\ thief[p].t < bottom
    BY <1>2, <1>3, IdleIsProgram DEF Programs
  <2> HIDE DEF new
  <2>3. thief' \in [Thieves -> All] /\ thief'[p] = new /\ \A q \in Thieves \ {p} : thief'[q] = thief[q]
    BY <1>2, <2>1, <2>2
  <2>4. new.pc = "steal_slot" => new.t <= top
    BY <2>1, <2>2, <1>1 DEF ThiefInv
  <2>5. new.pc = "steal_slot" /\ new.t = top => top <= LastStealable
    <3>1. LastStealable \in {bottom - 1, bottom}
      BY <1>2 DEF LastStealable
    <3> QED BY <3>1, <2>2, <1>2
  <2> QED BY <1>2, <2>2, <2>3, <2>4, <2>5, ThiefStepKeeps
<1>6. CASE StealSlot(p)
  <2> DEFINE val == slots[Slot(thief[p].t)]
             new == IF val = EMPTY_SLOT THEN Idle ELSE [thief[p] EXCEPT !.pc = "steal_race", !.val = val]
  <2>1. thief' = [thief EXCEPT ![p] = new] /\ thief[p].pc = "steal_slot"
    BY <1>6 DEF StealSlot
  <2>2. val \in 0..MaxJobs
    <3>1. Slot(thief[p].t) \in 0..Capacity - 1
      BY <1>2, SlotType
    <3> QED BY <3>1, <1>1 DEF DequeTypeOK
  <2> HIDE DEF val
  <2>3. /\ new \in All /\ new.pc \in {"idle", "steal_race"}
        /\ new.pc = "steal_race" => new.t = thief[p].t /\ new.val = val /\ val # EMPTY_SLOT
    BY <1>2, <1>3, <2>2, IdleIsProgram DEF Programs
  <2> HIDE DEF new
  <2>4. thief' \in [Thieves -> All] /\ thief'[p] = new /\ \A q \in Thieves \ {p} : thief'[q] = thief[q]
    BY <1>2, <2>1, <2>3
  <2>5. new.pc = "steal_race" => new.t <= top
    BY <2>1, <2>3, <1>1 DEF ThiefInv
  <2>6. ASSUME new.pc = "steal_race", new.t = top
        PROVE  /\ top <= LastStealable
               /\ Untaken(val)
               /\ \A i \in top + 1..LastPosition : slots[Slot(i)] # val
    <3>1. thief[p].t = top /\ val = slots[Slot(top)] /\ val # EMPTY_SLOT
      BY <2>3, <2>6 DEF val
    <3>2. CanWin(p) /\ top <= LastStealable
      BY <3>1, <2>1, <1>1 DEF CanWin, ThiefInv
    <3>3. /\ LastStealable \in Int /\ LastPosition \in Int /\ LastStealable <= LastPosition
          /\ owner.pc = "push_bottom" => LastStealable = owner.b - 1
      BY <1>2 DEF LastStealable, LastPosition
    <3>4. top \in top..LastPosition /\ (owner.pc = "push_bottom" => top # owner.b)
      BY <3>2, <3>3, <1>2
    <3>5. Untaken(val) /\ \A j \in top..LastPosition : slots[Slot(j)] = val => j = top
      BY <3>1, <3>4, <1>1 DEF SlotInv
    <3>6. \A i \in top + 1..LastPosition : i \in top..LastPosition /\ i # top
      BY <3>3, <1>2
    <3> QED BY <3>2, <3>5, <3>6
  <2> QED BY <1>2, <2>3, <2>4, <2>5, <2>6, ThiefStepKeeps
<1> QED BY <1>4, <1>5, <1>6

\* A thief whose compare-exchange succeeds takes a job that nobody has.
LEMMA StealRaceKeeps == ASSUME DequeInv, NEW p \in Thieves, StealRace(p) PROVE DequeInv'
<1>1. DequeTypeOK /\ OwnerInv /\ TakenInv /\ ThiefInv /\ SlotInv
  BY DEF DequeInv
<1> DEFINE All == Programs({"idle", "steal_bottom", "steal_slot", "steal_race", "steal_clear"})
<1>2. /\ UNCHANGED <<bottom, slots, owner, pushed>> /\ thief \in [Thieves -> All] /\ thief[p] \in All
      /\ thief[p].pc = "steal_race"
  BY <1>1 DEF StealRace, DequeTypeOK
<1>3. CASE top # thief[p].t
  <2>1. thief' = [thief EXCEPT ![p] = Idle] /\ UNCHANGED <<top, taken>>
    BY <1>3 DEF StealRace
  <2>2. Idle \in All
    BY IdleIsProgram DEF Programs
  <2>3. /\ thief' \in [Thieves -> All] /\ thief'[p] = Idle
        /\ \A q \in Thieves \ {p} : thief'[q] = thief[q]
    BY <1>2, <2>1, <2>2
  <2> QED BY <1>2, <2>1, <2>3, IdleIsProgram, ThiefStepKeeps
<1>4. CASE top = thief[p].t
  <2> DEFINE j == thief[p].val
             new == [thief[p] EXCEPT !.pc = "steal_clear"]
  <2>1. top' = top + 1 /\ Took(j) /\ thief' = [thief EXCEPT ![p] = new]
    BY <1>2, <1>4 DEF StealRace, Programs
  <2>2. new \in All /\ new.pc = "steal_clear" /\ new.t = top
    BY <1>2, <1>4 DEF Programs
  <2>3. /\ Untaken(j) /\ top <= LastStealable
        /\ \A i \in top + 1..LastPosition : slots[Slot(i)] # j
    BY <1>1, <1>2, <1>4 DEF ThiefInv, CanWin
  <2> HIDE DEF j, new
  <2>4. thief' \in [Thieves -> All] /\ thief'[p] = new /\ \A q \in Thieves \ {p} : thief'[q] = thief[q]
    BY <1>2, <2>1, <2>2
  <2>5. /\ top \in Nat /\ bottom \in Nat /\ pushed \in 0..MaxJobs /\ taken \in [Jobs -> Nat]
        /\ Capacity \in Nat \ {0} /\ top <= bottom + 1 /\ owner.t \in Nat
        /\ owner.pc # "idle" => owner.b = bottom
    BY <1>1, DequeAssumption DEF DequeTypeOK, OwnerInv, Programs
  <2>6. TakenInv' /\ taken' \in [Jobs -> Nat] /\ \A k : k # j /\ Untaken(k) => Untaken(k)'
    BY <1>1, <1>2, <2>1, <2>3, <2>5, TookOne
  <2>7. DequeTypeOK'
    BY <1>1, <1>2, <2>1, <2>4, <2>5, <2>6 DEF DequeTypeOK, Programs
  <2>8. OwnerInv'
    <3>1. /\ owner.pc \in {"idle", "push_slot", "push_bottom"} => top + 1 <= bottom
          /\ owner.pc = "pop_slot" /\ owner.t < owner.b => top + 1 <= bottom
          /\ owner.pc # "idle" => top + 1 <= bottom + 1
          /\ owner.pc # "pop_restore"
      <4>1. owner.pc = "pop_restore" => owner.b = bottom /\ top = bottom + 1
        BY <1>1, <2>5 DEF OwnerInv
      <4> QED BY <2>3, <2>5, <4>1 DEF LastStealable
    <3>2. owner.pc = "pop_race" => top' # owner.t
      BY <1>1, <2>1, <2>5 DEF OwnerInv
    <3> QED BY <1>1, <1>2, <2>1, <2>5, <3>1, <3>2 DEF OwnerInv
  <2>9. LastPosition' = LastPosition /\ LastStealable' = LastStealable
    BY <1>2 DEF LastPosition, LastStealable
  <2>10. \A q \in Thieves : ~ CanWin(q)'
    <3> TAKE q \in Thieves
    <3>1. CASE q = p
      BY <3>1, <2>2, <2>4 DEF CanWin
    <3>2. CASE q # p
      BY <3>2, <2>1, <2>4, TopMoves
    <3> QED BY <3>1, <3>2
  <2>11. ThiefInv'
    <3> SUFFICES ASSUME NEW q \in Thieves, thief'[q].pc # "idle" PROVE thief'[q].t <= top + 1
      BY <2>1, <2>10 DEF ThiefInv
    <3>1. CASE q = p
      BY <3>1, <2>2, <2>4, <2>5
    <3>2. CASE q # p
      <4>1. thief[q].t <= top /\ thief[q].t \in Nat /\ thief'[q].t = thief[q].t
        BY <3>2, <1>1, <2>4 DEF ThiefInv, DequeTypeOK, Programs
      <4> QED BY <4>1, <2>5
    <3> QED BY <3>1, <3>2
  <2>12. SlotInv'
    <3> SUFFICES ASSUME NEW i \in top + 1..LastPosition, slots[Slot(i)] # EMPTY_SLOT
                 PROVE  /\ \/ UntakenNext(slots[Slot(i)])
                           \/ owner.pc = "push_bottom" /\ i = owner.b /\ slots[Slot(i)] = pushed + 1
                        /\ \A k \in top + 1..LastPosition : slots[Slot(k)] = slots[Slot(i)] => k = i
      <4>1. \A k : Slot(k)' = Slot(k)
        BY DEF Slot
      <4> QED BY <4>1, <1>2, <2>1, <2>9 DEF SlotInv, Untaken, UntakenNext
    <3>1. LastPosition \in Int
      BY <2>5, <1>1 DEF LastPosition, DequeTypeOK, Programs
    <3>2. \A k \in top + 1..LastPosition : k \in top..LastPosition
      BY <2>5, <3>1
    <3>3. slots[Slot(i)] # j
      BY <2>3
    <3>4. /\ \/ Untaken(slots[Slot(i)])
             \/ owner.pc = "push_bottom" /\ i = owner.b /\ slots[Slot(i)] = pushed + 1
          /\ \A k \in top..LastPosition : slots[Slot(k)] = slots[Slot(i)] => k = i
      BY <1>1, <3>2 DEF SlotInv
    <3>5. Untaken(slots[Slot(i)]) => UntakenNext(slots[Slot(i)])
      BY <3>3, <2>6, <1>2 DEF Untaken, UntakenNext
    <3> QED BY <3>2, <3>4, <3>5
  <2> QED BY <2>6, <2>7, <2>8, <2>11, <2>12 DEF DequeInv
<1> QED BY <1>3, <1>4

\* A late clearing empties some slot, perhaps one in use again.
LEMMA StealClearKeeps == ASSUME DequeInv, NEW p \in Thieves, StealClear(p) PROVE DequeInv'
<1>1. DequeTypeOK /\ OwnerInv /\ TakenInv /\ ThiefInv /\ SlotInv
  BY DEF DequeInv
<1> DEFINE All == Programs({"idle", "steal_bottom", "steal_slot", "steal_race", "steal_clear"})
<1>2. /\ UNCHANGED <<top, bottom, owner, pushed, taken>> /\ thief' = [thief EXCEPT ![p] = Idle]
      /\ slots' = [slots EXCEPT ![Slot(thief[p].t)] = EMPTY_SLOT]
      /\ thief \in [Thieves -> All] /\ thief[p].t \in Nat /\ top \in Nat
  BY <1>1 DEF StealClear, DequeTypeOK, Programs
<1>3. /\ slots' \in [0..Capacity - 1 -> 0..MaxJobs]
      /\ \A i \in Nat : slots'[Slot(i)] = slots[Slot(i)] \/ slots'[Slot(i)] = EMPTY_SLOT
  BY <1>1, <1>2, ClearSlot
<1>4. Idle \in All
  BY IdleIsProgram DEF Programs
<1>5. /\ thief' \in [Thieves -> All] /\ thief'[p] = Idle
      /\ \A q \in Thieves \ {p} : thief'[q] = thief[q]
  BY <1>2, <1>4
<1>6. DequeTypeOK'
  BY <1>1, <1>2, <1>3, <1>5 DEF DequeTypeOK, Programs
<1>7. OwnerInv' /\ TakenInv'
  BY <1>1, <1>2 DEF OwnerInv, Untaken, TakenInv, TakenOnce
<1>8. LastPosition' = LastPosition /\ LastStealable' = LastStealable /\ \A i : Slot(i)' = Slot(i)
  BY <1>2 DEF LastPosition, LastStealable, Slot
<1>9. \A i \in top..LastPosition : i \in Nat
  BY <1>2
<1>10. SlotInv'
  <2> SUFFICES ASSUME NEW i \in top..LastPosition, slots'[Slot(i)] # EMPTY_SLOT
               PROVE  /\ \/ Untaken(slots'[Slot(i)])
                         \/ owner.pc = "push_bottom" /\ i = owner.b /\ slots'[Slot(i)] = pushed + 1
                      /\ \A k \in top..LastPosition : slots'[Slot(k)] = slots'[Slot(i)] => k = i
    BY <1>2, <1>8 DEF SlotInv, Untaken
  <2>1. \A k \in top..LastPosition : slots'[Slot(k)] = slots[Slot(k)] \/ slots'[Slot(k)] = EMPTY_SLOT
    BY <1>3, <1>9
  <2>2. slots'[Slot(i)] = slots[Slot(i)]
    BY <2>1
  <2> QED BY <2>1, <2>2, <1>1 DEF SlotInv
<1>11. ThiefInv'
  <2> SUFFICES ASSUME NEW q \in Thieves
               PROVE  /\ thief'[q].pc # "idle" => thief'[q].t <= top
                      /\ CanWin(q)' => top <= LastStealable
                      /\ CanWin(q)' /\ thief'[q].pc = "steal_race" =>
                           /\ Untaken(thief'[q].val)
                           /\ \A i \in top + 1..LastPosition : slots'[Slot(i)] # thief'[q].val
    BY <1>2, <1>8 DEF ThiefInv, Untaken
  <2>1. CASE q = p
    BY <2>1, <1>5, IdleIsProgram DEF CanWin
  <2>2. CASE q # p
    <3>1. /\ thief'[q] = thief[q] /\ (CanWin(q)' <=> CanWin(q))
      BY <2>2, <1>2, <1>5 DEF CanWin
    <3>2. \A i \in top + 1..LastPosition : i \in Nat
      BY <1>2
    <3>3. Untaken(thief[q].val) => thief[q].val # EMPTY_SLOT
      BY DEF Untaken, EMPTY_SLOT
    <3> QED BY <3>1, <3>2, <3>3, <1>1, <1>3 DEF ThiefInv
  <2> QED BY <2>1, <2>2
<1> QED BY <1>6, <1>7, <1>10, <1>11 DEF DequeInv

\* No job is returned twice, whichever of the owner and any number of thieves
\* race for it at whatever access, and however often slots are used again, for
\* any capacity (work_stealing.rs:113-200).
THEOREM NothingTakenTwice == DequeSpec => []TakenOnce
<1>1. with_capacity => DequeInv
  BY DequeInitInv
<1>2. DequeInv /\ [DequeNext]_dequeVars => DequeInv'
  <2> SUFFICES ASSUME DequeInv, [DequeNext]_dequeVars PROVE DequeInv'
    OBVIOUS
  <2>1. CASE push
    BY <2>1, PushCheckKeeps, PushSlotKeeps, PushBottomKeeps DEF push
  <2>2. CASE pop
    BY <2>2, PopBottomKeeps, PopTopKeeps, PopSlotKeeps, PopRaceKeeps, PopRestoreKeeps DEF pop
  <2>3. CASE \E p \in Thieves : steal(p)
    BY <2>3, StealReadKeeps, StealRaceKeeps, StealClearKeeps DEF steal
  <2>4. CASE UNCHANGED dequeVars
    BY <2>4 DEF dequeVars, DequeInv, DequeTypeOK, Programs, OwnerInv, Untaken, ThiefInv, CanWin, LastPosition,
       LastStealable, SlotInv, Slot, TakenInv, TakenOnce
  <2> QED BY <2>1, <2>2, <2>3, <2>4 DEF DequeNext
<1>3. DequeInv => TakenOnce
  BY DEF DequeInv, TakenInv
<1> QED BY <1>1, <1>2, <1>3, PTL DEF DequeSpec

-------------------------------------------------------------------------------
\* The fields of a token are numbers.
LEMMA TokenFields ==
    \A t \in FenceTokens : /\ t.authority_epoch \in Epochs /\ t.authority_epoch \in Nat
                      /\ t.sequence \in Nat
  <1> SUFFICES ASSUME NEW t \in FenceTokens
               PROVE  /\ t.authority_epoch \in Epochs /\ t.authority_epoch \in Nat
                      /\ t.sequence \in Nat
    OBVIOUS
  <1>1. t.authority_epoch \in Epochs /\ t.sequence \in Sequences
    BY DEF FenceTokens
  <1>2. t.sequence \in Nat
    BY <1>1, TokenAssumption
  <1>3. Epochs \subseteq Nat
    BY EpochAssumption DEF Epochs
  <1> QED
    BY <1>1, <1>2, <1>3

\* A token the fence lets through comes after every accepted one, unless the
\* epoch is the last.
LEMMA AcceptedComeBefore ==
    ASSUME FenceInv, NEW cmd \in FenceTokens, validate_and_advance(cmd),
           cmd.authority_epoch # U32Max
    PROVE  \A t \in accepted : Before(t, cmd)
  <1> SUFFICES ASSUME NEW t \in accepted PROVE Before(t, cmd)
    OBVIOUS
  <1>1. /\ t \in FenceTokens /\ active_epoch \in Nat /\ highest_sequence \in Nat
        /\ t.authority_epoch \in Nat /\ cmd.authority_epoch \in Nat
        /\ t.sequence \in Nat /\ cmd.sequence \in Nat
    BY TokenFields, EpochAssumption DEF FenceInv, FenceTypeOK, Epochs
  <1>2. CASE Promote(cmd)
    BY <1>1, <1>2 DEF FenceInv, FencePastAccepted, Promote, Before
  <1>3. CASE Advance(cmd)
    BY <1>1, <1>3 DEF FenceInv, FencePastAccepted, Advance, Before
  <1> QED
    BY <1>2, <1>3 DEF validate_and_advance

\* The invariant holds initially.
LEMMA FenceInitInv == FenceInit => FenceInv
  <1> SUFFICES ASSUME FenceInit PROVE FenceInv
    OBVIOUS
  <1>1. active_epoch \in Epochs /\ highest_sequence \in Nat
    BY EpochAssumption DEF FenceInit, Epochs
  <1> QED
    BY <1>1 DEF FenceInit, FenceInv, FenceTypeOK, FencePastAccepted,
       FencedBelowLastEpoch

\* Every step of the fencer preserves it.
LEMMA FenceStepInv == FenceInv /\ [FenceNext]_fenceVars => FenceInv'
  <1> SUFFICES ASSUME FenceInv, [FenceNext]_fenceVars PROVE FenceInv'
    OBVIOUS
  <1>0. CASE UNCHANGED fenceVars
    BY <1>0 DEF fenceVars, FenceInv, FenceTypeOK, FencePastAccepted,
       FencedBelowLastEpoch
  <1>1. ASSUME NEW cmd \in FenceTokens, validate_and_advance(cmd) PROVE FenceInv'
    <2>1. /\ active_epoch \in Nat /\ highest_sequence \in Nat /\ U32Max \in Nat
          /\ cmd.authority_epoch \in Epochs /\ cmd.sequence \in Nat
          /\ cmd.authority_epoch \in Nat /\ cmd.authority_epoch <= U32Max
          /\ active_epoch <= U32Max
      BY TokenFields, EpochAssumption DEF FenceInv, FenceTypeOK, Epochs
    <2>2. /\ active_epoch' = cmd.authority_epoch
          /\ highest_sequence' = cmd.sequence
          /\ accepted' = accepted \union {cmd}
          /\ regressed' = (regressed \/ \E t \in accepted : ~Before(t, cmd))
          /\ active_epoch <= cmd.authority_epoch
          /\ active_epoch = cmd.authority_epoch => cmd.sequence > highest_sequence
      BY <1>1, <2>1 DEF validate_and_advance, Promote, Advance, Record
    <2>3. FenceTypeOK'
      BY <2>1, <2>2 DEF FenceInv, FenceTypeOK
    <2>4. FencePastAccepted'
      <3> SUFFICES ASSUME NEW t \in accepted \union {cmd}
                   PROVE  \/ t.authority_epoch < cmd.authority_epoch
                          \/ t.authority_epoch = cmd.authority_epoch
                             /\ (t.sequence <= cmd.sequence
                                   \/ cmd.authority_epoch = U32Max)
        BY <2>2 DEF FencePastAccepted
      <3>1. CASE t = cmd
        BY <3>1, <2>1
      <3>2. CASE t \in accepted
        <4>1. t.authority_epoch \in Nat /\ t.sequence \in Nat
          BY <3>2, TokenFields DEF FenceInv, FenceTypeOK
        <4> QED
          BY <3>2, <4>1, <2>1, <2>2 DEF FenceInv, FencePastAccepted
      <3> QED
        BY <3>1, <3>2
    <2>5. FencedBelowLastEpoch'
      <3>1. CASE cmd.authority_epoch = U32Max
        BY <3>1, <2>2 DEF FencedBelowLastEpoch
      <3>2. CASE cmd.authority_epoch # U32Max
        <4>1. \A t \in accepted : Before(t, cmd)
          BY <3>2, <1>1, AcceptedComeBefore
        <4>2. ~regressed
          BY <3>2, <2>1, <2>2 DEF FenceInv, FencedBelowLastEpoch
        <4> QED
          BY <4>1, <4>2, <2>2 DEF FencedBelowLastEpoch
      <3> QED
        BY <3>1, <3>2
    <2> QED
      BY <2>3, <2>4, <2>5 DEF FenceInv
  <1>2. CASE increment_epoch
    <2>1. /\ active_epoch \in Nat /\ U32Max \in Nat /\ active_epoch <= U32Max
          /\ \A t \in accepted : t.authority_epoch \in Nat /\ t.sequence \in Nat
      BY TokenFields, EpochAssumption DEF FenceInv, FenceTypeOK, Epochs
    <2>2. FenceTypeOK'
      BY <1>2, <2>1 DEF FenceInv, FenceTypeOK, increment_epoch, Epochs
    <2>3. FencePastAccepted'
      BY <1>2, <2>1 DEF FenceInv, FencePastAccepted, increment_epoch
    <2>4. FencedBelowLastEpoch'
      BY <1>2, <2>1 DEF FenceInv, FencedBelowLastEpoch, increment_epoch
    <2> QED
      BY <2>2, <2>3, <2>4 DEF FenceInv
  <1> QED
    BY <1>0, <1>1, <1>2 DEF FenceNext

\* The fence's inductive invariant holds for every set of tokens and every
\* largest epoch (authority.rs:161-196).
THEOREM FenceInvariant == FenceSpec => []FenceInv
  BY FenceInitInv, FenceStepInv, PTL DEF FenceSpec

\* For every initial epoch and every set of sequence numbers, commands are
\* accepted in strictly increasing (epoch, sequence) order until the epoch
\* saturates (authority.rs:161-196).
THEOREM FenceOrdered == FenceSpec => []FencedBelowLastEpoch
  <1>1. FenceInv => FencedBelowLastEpoch
    BY DEF FenceInv
  <1> QED
    BY <1>1, FenceInvariant, PTL

\* The epoch in force never decreases (authority.rs:176-196).
THEOREM EpochNeverGoesBack == FenceSpec => EpochMonotone
  <1>1. FenceInv /\ [FenceNext]_fenceVars => [active_epoch' >= active_epoch]_fenceVars
    <2> SUFFICES ASSUME FenceInv, FenceNext PROVE active_epoch' >= active_epoch
      OBVIOUS
    <2>1. active_epoch \in Nat /\ \A cmd \in FenceTokens : cmd.authority_epoch \in Nat
      BY DEF FenceInv, FenceTypeOK, Epochs, FenceTokens
    <2> QED
      BY <2>1 DEF FenceNext, validate_and_advance, Promote, Advance, increment_epoch
  <1> QED
    BY <1>1, FenceInvariant, PTL DEF FenceSpec, EpochMonotone
-------------------------------------------------------------------------------
(* ------------------------------- Operations ------------------------------- *)

\* The queue, what the simulation took from it and what it carried out are commands, and the log
\* is a sequence of entries.
LogEntries == {"asked", "done"} \X {"Kick", "Teleport", "Broadcast", "Checkpoint"}
AdminInv ==
    /\ commands \in Seq(GmCommands) /\ executing \in Seq(GmCommands)
    /\ executed \in Seq(GmCommands) /\ requested \in Seq(GmCommands)
    /\ admin_logs \in Seq(LogEntries)
    /\ CommandsKept

\* One more entry does not take the log over its limit.
LEMMA LogStaysBounded ==
    ASSUME NEW logs \in Seq(LogEntries), Len(logs) <= MAX_ADMIN_LOGS, NEW entry \in LogEntries
    PROVE  /\ log_event(logs, entry) \in Seq(LogEntries)
           /\ Len(log_event(logs, entry)) <= MAX_ADMIN_LOGS
<1>1. MAX_ADMIN_LOGS \in Nat \ {0}
  BY OperationsAssumption
<1>2. CASE Len(logs) >= MAX_ADMIN_LOGS
  <2>1. logs # <<>>
    BY <1>1, <1>2
  <2>2. Tail(logs) \in Seq(LogEntries) /\ Len(Tail(logs)) = Len(logs) - 1
    BY <2>1
  <2> QED BY <1>1, <1>2, <2>2 DEF log_event
<1>3. CASE Len(logs) < MAX_ADMIN_LOGS
  BY <1>1, <1>3 DEF log_event
<1> QED BY <1>1, <1>2, <1>3

\* Every step keeps the commands' order and the bounds: queueing, taking the queue and
\* carrying out one command each leave what was asked for in the three places together.
LEMMA AdminStep == AdminInv /\ [AdminNext]_adminVars => AdminInv'
<1> SUFFICES ASSUME AdminInv, [AdminNext]_adminVars PROVE AdminInv'
  OBVIOUS
<1>t. \A cmd \in GmCommands : \A what \in {"asked", "done"} : <<what, cmd.op>> \in LogEntries
  BY DEF GmCommands, LogEntries
<1>n. MAX_PENDING_GM_COMMANDS \in Nat
  BY OperationsAssumption
<1>1. ASSUME NEW bearer, NEW cmd \in GmCommands, handle_http_connection(bearer, cmd)
      PROVE  AdminInv'
  <2>1. CASE ~ is_authorized(bearer)
    BY <1>1, <2>1 DEF handle_http_connection, AdminInv, CommandsKept
  <2>2. CASE is_authorized(bearer)
    <3>1. /\ admin_logs' = log_event(admin_logs, <<"asked", cmd.op>>)
          /\ commands' = enqueue_command(commands, cmd)
          /\ requested' = IF commands' = commands THEN requested ELSE Append(requested, cmd)
          /\ UNCHANGED <<executing, executed>>
      BY <1>1, <2>2 DEF handle_http_connection
    <3>2. admin_logs' \in Seq(LogEntries) /\ Len(admin_logs') <= MAX_ADMIN_LOGS
      BY <1>t, <3>1, LogStaysBounded DEF AdminInv, CommandsKept
    <3>3. CASE Len(commands) < MAX_PENDING_GM_COMMANDS
      <4>1. commands' = Append(commands, cmd) /\ commands' # commands
        BY <3>1, <3>3 DEF enqueue_command, AdminInv
      <4>2. requested' = Append(requested, cmd)
        BY <3>1, <4>1
      <4>3. executed \o executing \in Seq(GmCommands)
        BY DEF AdminInv
      <4>4. <<cmd>> \in Seq(GmCommands)
        OBVIOUS
      <4>5. requested' = (executed \o executing \o commands) \o <<cmd>>
        BY <4>2, AppendIsConcat DEF AdminInv, CommandsKept
      <4>6. commands' = commands \o <<cmd>>
        BY <4>1, AppendIsConcat DEF AdminInv
      <4>7. requested' = executed \o executing \o commands'
        <5> DEFINE done == executed \o executing
        <5>1. done \in Seq(GmCommands) /\ commands \in Seq(GmCommands)
          BY <4>3 DEF AdminInv
        <5>2. requested' = (done \o commands) \o <<cmd>>
          BY <4>5
        <5> HIDE DEF done
        <5>3. (done \o commands) \o <<cmd>> = done \o (commands \o <<cmd>>)
          BY <4>4, <5>1, ConcatAssociative
        <5>4. requested' = done \o commands'
          BY <4>6, <5>2, <5>3
        <5> QED BY <5>4 DEF done
      <4>8. Len(commands') <= MAX_PENDING_GM_COMMANDS
        BY <1>n, <3>3, <4>1 DEF AdminInv
      <4> QED BY <3>1, <3>2, <4>1, <4>2, <4>7, <4>8 DEF AdminInv, CommandsKept
    <3>4. CASE ~ (Len(commands) < MAX_PENDING_GM_COMMANDS)
      BY <3>1, <3>2, <3>4 DEF enqueue_command, AdminInv, CommandsKept
    <3> QED BY <3>3, <3>4
  <2> QED BY <2>1, <2>2
<1>2. CASE drain_admin_commands
  <2>1. /\ executing = <<>> /\ executing' = commands /\ commands' = <<>>
        /\ UNCHANGED <<admin_logs, executed, requested>>
    BY <1>2 DEF drain_admin_commands, drain_commands
  <2>2. executed \o executing = executed
    BY <2>1, ConcatEmptySeq DEF AdminInv
  <2>3. executed \o commands \in Seq(GmCommands)
    BY DEF AdminInv
  <2>4. (executed \o commands) \o <<>> = executed \o commands
    BY <2>3, ConcatEmptySeq
  <2>5. <<>> \in Seq(GmCommands) /\ Len(<<>>) = 0
    OBVIOUS
  <2>6. requested = executed \o commands
    BY <2>2 DEF AdminInv, CommandsKept
  <2>7. requested' = executed' \o executing' \o commands'
    BY <2>1, <2>4, <2>6
  <2> QED BY <1>n, <2>1, <2>5, <2>7 DEF AdminInv, CommandsKept
<1>3. CASE Execute
  <2> DEFINE cmd == Head(executing)
  <2>1. /\ executing # <<>> /\ executing' = Tail(executing) /\ executed' = Append(executed, cmd)
        /\ UNCHANGED <<commands, requested>>
        /\ admin_logs' \in {admin_logs, log_event(admin_logs, <<"done", cmd.op>>)}
    BY <1>3 DEF Execute
  <2>2. cmd \in GmCommands /\ Tail(executing) \in Seq(GmCommands)
    BY <2>1 DEF AdminInv
  <2>3. admin_logs' \in Seq(LogEntries) /\ Len(admin_logs') <= MAX_ADMIN_LOGS
    BY <1>t, <2>1, <2>2, LogStaysBounded DEF AdminInv, CommandsKept
  <2>4. <<cmd>> \in Seq(GmCommands) /\ executing = <<cmd>> \o Tail(executing)
    BY <2>1, <2>2 DEF AdminInv
  <2> HIDE DEF cmd
  <2>5. executed' = executed \o <<cmd>>
    BY <2>1, <2>2, AppendIsConcat DEF AdminInv
  <2>6. executed' \o executing' = executed \o executing
    <3> DEFINE rest == Tail(executing)
    <3>1. rest \in Seq(GmCommands) /\ executing = <<cmd>> \o rest /\ executing' = rest
      BY <2>1, <2>2, <2>4
    <3> HIDE DEF rest
    <3>2. executed \in Seq(GmCommands)
      BY DEF AdminInv
    <3>3. (executed \o <<cmd>>) \o rest = executed \o (<<cmd>> \o rest)
      BY <2>4, <3>1, <3>2, ConcatAssociative
    <3> QED BY <2>5, <3>1, <3>3
  <2>7. executed' \in Seq(GmCommands)
    BY <2>1, <2>2 DEF AdminInv
  <2> QED BY <2>1, <2>2, <2>3, <2>6, <2>7 DEF AdminInv, CommandsKept
<1>4. CASE update_admin_snapshot
  BY <1>4 DEF update_admin_snapshot, AdminInv, CommandsKept
<1>5. ASSUME NEW e, NEW spot, PlayerComes(e, spot) PROVE AdminInv'
  BY <1>5 DEF PlayerComes, AdminInv, CommandsKept
<1>6. CASE UNCHANGED adminVars
  BY <1>6 DEF adminVars, AdminInv, CommandsKept
<1> QED BY <1>1, <1>2, <1>3, <1>4, <1>5, <1>6 DEF AdminNext

\* The schedule: the loop is never ahead of the time, its baseline not earlier than the
\* baseline's tick, and the latest tick ended at most one interval before its target.
Governors ==
    [now : Nat, current_tick : Nat, baseline_tick : Nat, baseline : Nat, last : Nat, slept : Nat]
OnSchedule(g) ==
    /\ g \in Governors
    /\ g.baseline_tick <= g.current_tick
    /\ g.baseline_tick * TickInterval <= g.baseline
    /\ TargetOf(g) <= g.now
    /\ g.current_tick * TickInterval <= g.now
    /\ g.last <= g.now /\ g.current_tick * TickInterval <= g.last + TickInterval
    /\ g.slept = 0 => g.now - TargetOf(g) <= ClampedLag
    /\ g.slept <= TickInterval
\* Load shedding counts exactly the calm ticks.
PaceInv ==
    /\ OnSchedule(pace)
    /\ shedding \in [level : 0..2, normal : Nat] /\ calm = shedding.normal
    /\ shedding.level > 0 => calm < (IF shedding.level = 2 THEN CalmTicks2 ELSE CalmTicks1)

\* The counters of the alerts are the lengths of their conditions, up to their thresholds.
AlertsCounted ==
    /\ alerting.overruns \in Nat /\ alerting.critical \in Nat /\ strain \in [AlertConditions -> Nat]
    /\ alerting.overruns = Least(strain["tick"], OverrunTicks)
    /\ alerting.critical = Least(strain["pressure"], PressureTicks)
    /\ "tick" \in alerting.alerts <=> strain["tick"] >= OverrunTicks
    /\ "pressure" \in alerting.alerts <=> strain["pressure"] >= PressureTicks
\* A draining pod has counted every tick since the drain was last asked for.
PodStates == {"Starting", "Ready", "Allocated", "Degraded", "Draining", "Shutdown"}
DrainCounted ==
    /\ drained \in Nat /\ pod \in [state : PodStates, draining_ticks : Nat]
    /\ pod.state = "Draining" => drained = Least(pod.draining_ticks, MaxPodTicks)
    /\ pod.state = "Shutdown" => drained >= MAX_DRAIN_TICKS
PodInv == AlertsCounted /\ DrainCounted

(* Arithmetic of the schedule, with the interval as T. *)
LEMMA Intervals ==
    ASSUME NEW T \in Nat, NEW a \in Nat, NEW b \in Nat
    PROVE  /\ a * T \in Nat /\ T * a = a * T
           /\ (a + b) * T = a * T + b * T
           /\ a <= b => a * T <= b * T /\ (b - a) * T = b * T - a * T
<1>1. a * T \in Nat /\ T * a = a * T /\ (a + b) * T = a * T + b * T
  OBVIOUS
<1>2. ASSUME a <= b PROVE a * T <= b * T /\ (b - a) * T = b * T - a * T
  <2>1. PICK c \in Nat : b = a + c
    <3>1. b - a \in Nat /\ b = a + (b - a)
      BY <1>2
    <3> QED BY <3>1
  <2>2. b * T = a * T + c * T /\ b - a = c /\ c * T \in Nat /\ a * T \in Nat
    BY <2>1
  <2> QED BY <2>2
<1> QED BY <1>1, <1>2

\* A rebased schedule is exactly as far behind as it may catch up, or it starts over.
LEMMA RebasedSchedule ==
    ASSUME NEW g \in Governors, NEW now \in Nat, g.current_tick * TickInterval <= now
    PROVE  LET h == Rebased(g, now)
           IN  /\ h \in Governors /\ h.current_tick = g.current_tick /\ h.now = g.now
               /\ h.last = g.last /\ h.slept = g.slept
               /\ h.baseline_tick <= g.current_tick
               /\ h.baseline_tick * TickInterval <= h.baseline
               /\ TargetOf(h) <= now /\ now - TargetOf(h) <= ClampedLag
<1> DEFINE c == g.current_tick
           T == TickInterval
           M == MAX_CATCH_UP
<1>0. c \in Nat /\ T \in Nat \ {0} /\ M \in Nat
  BY OperationsAssumption DEF Governors
<1>1. ClampedLag = M * T /\ M * T \in Nat /\ c * T \in Nat
  BY <1>0, Intervals DEF ClampedLag
<1> DEFINE h == Rebased(g, now)
           start == Less(now, ClampedLag)
           first == Less(c, M)
<1>a. start \in Nat /\ first \in Nat
  BY <1>0, <1>1 DEF Less
<1>b. h = [g EXCEPT !.baseline = start, !.baseline_tick = first]
  BY DEF Rebased
<1> HIDE DEF h, start, first
<1>c. /\ h.baseline = start /\ h.baseline_tick = first /\ h \in Governors /\ h.current_tick = c
      /\ h.now = g.now /\ h.last = g.last /\ h.slept = g.slept
  BY <1>a, <1>b DEF Governors
<1>2. /\ h.baseline = Less(now, ClampedLag) /\ h.baseline_tick = Less(c, M)
      /\ h.baseline \in Nat /\ h.baseline_tick \in Nat /\ h.current_tick = c
  BY <1>a, <1>c DEF start, first
<1>3. TargetOf(h) = h.baseline + T * (c - h.baseline_tick)
  BY <1>2 DEF TargetOf
<1>4. CASE c > M
  <2>1. M * T <= c * T /\ (c - M) * T = c * T - M * T /\ c - M \in Nat
    BY <1>0, <1>4, Intervals
  <2>2. h.baseline_tick = c - M /\ c - h.baseline_tick = M
    BY <1>0, <1>2, <1>4 DEF Less
  <2>3. h.baseline = now - M * T /\ now - M * T \in Nat
    BY <1>1, <1>2, <2>1 DEF Less
  <2>4. TargetOf(h) = now
    BY <1>0, <1>1, <1>3, <2>2, <2>3, Intervals
  <2>5. h.baseline_tick * T <= h.baseline
    BY <1>1, <2>1, <2>2, <2>3
  <2> QED BY <1>0, <1>1, <1>c, <2>1, <2>2, <2>3, <2>4, <2>5 DEF h
<1>5. CASE c <= M
  <2>1. h.baseline_tick = 0 /\ c - h.baseline_tick = c /\ 0 * T = 0
    BY <1>0, <1>2, <1>5 DEF Less
  <2>2. c * T <= M * T
    BY <1>0, <1>5, Intervals
  <2>3. TargetOf(h) = h.baseline + c * T
    BY <1>0, <1>3, <2>1, Intervals
  <2>4. h.baseline = IF now > M * T THEN now - M * T ELSE 0
    BY <1>1, <1>2 DEF Less
  <2>5. h.baseline \in Nat /\ TargetOf(h) <= now /\ now - TargetOf(h) <= ClampedLag
    BY <1>1, <2>2, <2>3, <2>4
  <2> QED BY <1>0, <1>c, <2>1, <2>5 DEF h
<1> QED BY <1>0, <1>4, <1>5

\* A tick that has ended, in fields.
TickEnded(g, next, when) ==
    [g EXCEPT !.current_tick = next, !.last = when, !.now = when, !.slept = 0]

\* A tick of the loop keeps the schedule.
LEMMA TickOnSchedule ==
    ASSUME NEW p, OnSchedule(p), NEW duration \in Nat, NEW late \in Nat
    PROVE  LET g == evaluate_pacing(p, p.now + duration)
           IN  OnSchedule([g EXCEPT !.now = IF g.slept > 0 THEN @ + g.slept + late ELSE @])
<1> DEFINE T == TickInterval
           now == p.now + duration
           c == p.current_tick
           ticked == TickEnded(p, c + 1, now)
           target == TargetOf(ticked)
<1>1. /\ T \in Nat \ {0} /\ SuspendThreshold >= T + T /\ SuspendThreshold \in Nat
      /\ c \in Nat /\ p.baseline \in Nat /\ p.baseline_tick \in Nat /\ p.now \in Nat
      /\ p.last \in Nat /\ now \in Nat /\ MAX_CATCH_UP \in Nat
  BY OperationsAssumption DEF OnSchedule, Governors
<1>2. /\ ticked \in Governors /\ ticked.current_tick = c + 1 /\ ticked.last = now
      /\ ticked.now = now /\ ticked.slept = 0 /\ ticked.baseline = p.baseline
      /\ ticked.baseline_tick = p.baseline_tick
  <2> DEFINE next == c + 1
  <2>1. p \in Governors /\ next \in Nat /\ now \in Nat
    BY <1>1 DEF OnSchedule
  <2>2. ticked = TickEnded(p, next, now)
    OBVIOUS
  <2> HIDE DEF c, now, next, ticked
  <2>3. /\ ticked \in Governors /\ ticked.current_tick = next /\ ticked.last = now
        /\ ticked.now = now /\ ticked.slept = 0 /\ ticked.baseline = p.baseline
        /\ ticked.baseline_tick = p.baseline_tick
    BY <2>1, <2>2 DEF Governors, TickEnded
  <2> QED BY <2>3 DEF next
<1>3. /\ c * T \in Nat /\ (c + 1) * T = c * T + T
      /\ TargetOf(p) \in Nat /\ target = TargetOf(p) + T /\ (c + 1) * T <= target
  <2> DEFINE d == c - p.baseline_tick
  <2>1. d \in Nat /\ (c + 1) - p.baseline_tick = d + 1
    BY <1>1 DEF OnSchedule
  <2>2. c * T \in Nat /\ (c + 1) * T = c * T + 1 * T /\ 1 * T = T
    BY <1>1, Intervals
  <2>3. T * d = d * T /\ d * T \in Nat /\ T * (d + 1) = (d + 1) * T /\ (d + 1) * T = d * T + T
    BY <1>1, <2>1, Intervals
  <2>4. d * T = c * T - p.baseline_tick * T /\ p.baseline_tick * T \in Nat
    BY <1>1, Intervals DEF OnSchedule
  <2> HIDE DEF d
  <2>5. TargetOf(p) = p.baseline + T * d /\ target = p.baseline + T * (d + 1)
    BY <1>2, <2>1 DEF TargetOf, d
  <2> QED BY <1>1, <2>2, <2>3, <2>4, <2>5 DEF OnSchedule
<1>4. /\ TargetOf(p) <= p.now /\ p.last <= p.now /\ c * T <= p.last + T
      /\ p.baseline_tick <= c /\ p.baseline_tick * T <= p.baseline
  BY DEF OnSchedule
<1> DEFINE g == evaluate_pacing(p, now)
           after == [g EXCEPT !.now = IF g.slept > 0 THEN @ + g.slept + late ELSE @]
<1>5. g = IF now - p.last >= SuspendThreshold THEN Rebased(ticked, now)
          ELSE IF target > now THEN [ticked EXCEPT !.slept = target - now]
          ELSE IF now - target > ClampedLag THEN Rebased(ticked, now)
          ELSE ticked
  BY DEF evaluate_pacing, TickEnded
<1>l. ClampedLag \in Nat
  BY <1>1 DEF ClampedLag
<1> HIDE DEF ticked, target, now, g
<1>6. ASSUME (c + 1) * T <= now, g = Rebased(ticked, now) PROVE OnSchedule(after)
  <2>1. /\ g \in Governors /\ g.current_tick = c + 1 /\ g.now = now /\ g.last = now
        /\ g.slept = 0
        /\ g.baseline_tick <= c + 1
        /\ g.baseline_tick * T <= g.baseline
        /\ TargetOf(g) <= now /\ now - TargetOf(g) <= ClampedLag
    <3>1. /\ ticked \in Governors /\ now \in Nat
          /\ ticked.current_tick * TickInterval <= now
      BY <1>1, <1>2, <1>6
    <3> DEFINE h == Rebased(ticked, now)
    <3>2. /\ h \in Governors /\ h.current_tick = ticked.current_tick /\ h.now = ticked.now
          /\ h.last = ticked.last /\ h.slept = ticked.slept
          /\ h.baseline_tick <= ticked.current_tick
          /\ h.baseline_tick * TickInterval <= h.baseline
          /\ TargetOf(h) <= now /\ now - TargetOf(h) <= ClampedLag
      BY <3>1, RebasedSchedule
    <3>3. g = h
      BY <1>6
    <3> HIDE DEF h
    <3> QED BY <1>2, <3>2, <3>3
  <2>2. after = g
    BY <2>1 DEF Governors
  <2> QED BY <1>1, <1>6, <2>1, <2>2 DEF OnSchedule
<1>7. ASSUME now - p.last >= SuspendThreshold PROVE OnSchedule(after)
  <2>1. (c + 1) * T <= now
    BY <1>1, <1>3, <1>4, <1>7
  <2> QED BY <1>5, <1>6, <1>7, <2>1
<1>8. ASSUME ~ (now - p.last >= SuspendThreshold), target > now PROVE OnSchedule(after)
  <2>1. g = [ticked EXCEPT !.slept = target - now]
    BY <1>5, <1>8
  <2>2. /\ g \in Governors /\ g.slept = target - now /\ g.slept > 0 /\ g.now = now
        /\ g.last = now /\ g.current_tick = c + 1 /\ g.baseline = p.baseline
        /\ g.baseline_tick = p.baseline_tick
    BY <1>1, <1>2, <1>3, <1>8, <2>1 DEF Governors
  <2>3. /\ after \in Governors /\ after.slept = target - now /\ after.now = target + late
        /\ after.last = now /\ after.current_tick = c + 1 /\ after.baseline = p.baseline
        /\ after.baseline_tick = p.baseline_tick
    BY <1>1, <1>3, <2>2 DEF Governors
  <2>4. TargetOf(after) = target
    BY <1>2, <2>3 DEF TargetOf, target
  <2>5. target <= now + T /\ now >= p.now
    BY <1>1, <1>3, <1>4 DEF now
  <2> HIDE DEF after
  <2> QED BY <1>1, <1>3, <1>4, <1>8, <2>3, <2>4, <2>5 DEF OnSchedule
<1>9. ASSUME ~ (now - p.last >= SuspendThreshold), ~ (target > now), now - target > ClampedLag
      PROVE  OnSchedule(after)
  <2>1. (c + 1) * T <= now
    BY <1>1, <1>3, <1>9
  <2> QED BY <1>5, <1>6, <1>9, <2>1
<1>10. ASSUME ~ (now - p.last >= SuspendThreshold), ~ (target > now),
              ~ (now - target > ClampedLag)
       PROVE  OnSchedule(after)
  <2>1. g = ticked
    BY <1>5, <1>10
  <2>2. after = g
    BY <1>2, <2>1 DEF Governors
  <2> HIDE DEF after
  <2> QED BY <1>1, <1>2, <1>3, <1>4, <1>l, <1>10, <2>1, <2>2 DEF OnSchedule, target
<1>11. OnSchedule(after)
  BY <1>7, <1>8, <1>9, <1>10
<1> QED BY <1>11 DEF g, now

\* A tick of the loop keeps the schedule and the count of calm ticks (clock.rs, tick.rs).
LEMMA PaceStep == PaceInv /\ [PaceNext]_paceVars => PaceInv'
<1> SUFFICES ASSUME PaceInv, [PaceNext]_paceVars PROVE PaceInv'
  OBVIOUS
<1>1. CASE UNCHANGED paceVars
  BY <1>1 DEF paceVars, PaceInv, OnSchedule, TargetOf
<1>2. ASSUME NEW duration \in ExecTimes, NEW late \in Oversleeps,
             run_authoritative_loop(duration, late)
      PROVE  PaceInv'
  <2>1. duration \in Nat /\ late \in Nat
    BY OperationsAssumption
  <2>2. OnSchedule(pace')
    BY <1>2, <2>1, TickOnSchedule DEF run_authoritative_loop, PaceInv
  <2> DEFINE s == record_tick_execution(shedding, duration)
  <2>3. /\ shedding' = s
        /\ calm' = IF duration >= ShedLevel1 \/ s.level < shedding.level THEN 0
                   ELSE Least(CalmSince(calm, duration) + 1, CalmTicks1 + CalmTicks2)
    BY <1>2 DEF run_authoritative_loop
  <2>4. /\ ShedLevel1 \in Nat /\ ShedLevel2 \in Nat /\ ShedLevel1 <= ShedLevel2
        /\ CalmTicks1 \in Nat \ {0} /\ CalmTicks2 \in Nat \ {0}
    BY OperationsAssumption
  <2>5. /\ shedding.level \in 0..2 /\ shedding.normal \in Nat /\ calm = shedding.normal
        /\ shedding = [level |-> shedding.level, normal |-> shedding.normal]
        /\ shedding.level > 0 => calm < (IF shedding.level = 2 THEN CalmTicks2 ELSE CalmTicks1)
    BY DEF PaceInv
  <2> DEFINE c == CalmSince(calm, duration)
             t == [shedding EXCEPT !.normal = CalmSince(@, duration)]
  <2>8. c \in Nat /\ c <= calm /\ t = [level |-> shedding.level, normal |-> c]
    BY <2>5 DEF CalmSince
  <2>9. s = CASE duration >= ShedLevel2 -> [level |-> 2, normal |-> 0]
              [] duration >= ShedLevel1 /\ duration < ShedLevel2 ->
                     [level |-> IF t.level < 1 THEN 1 ELSE t.level, normal |-> 0]
              [] OTHER ->
                     IF t.level = 2 /\ t.normal + 1 >= CalmTicks2 THEN [level |-> 1, normal |-> 0]
                     ELSE IF t.level = 1 /\ t.normal + 1 >= CalmTicks1 THEN [level |-> 0, normal |-> 0]
                     ELSE [t EXCEPT !.normal = Least(@ + 1, CalmTicks1 + CalmTicks2)]
    BY DEF record_tick_execution
  <2> HIDE DEF s, c, t
  <2>6. CASE duration >= ShedLevel1
    <3>1. s = IF duration >= ShedLevel2 THEN [level |-> 2, normal |-> 0]
              ELSE [level |-> IF shedding.level < 1 THEN 1 ELSE shedding.level, normal |-> 0]
      BY <2>1, <2>4, <2>6, <2>8, <2>9
    <3>2. s \in [level : 0..2, normal : Nat] /\ s.normal = 0 /\ calm' = 0
      BY <2>3, <2>5, <2>6, <3>1
    <3> QED BY <2>2, <2>3, <2>4, <3>2 DEF PaceInv
  <2>7. CASE ~ (duration >= ShedLevel1)
    <3>1. s = IF shedding.level = 2 /\ c + 1 >= CalmTicks2
              THEN [level |-> 1, normal |-> 0]
              ELSE IF shedding.level = 1 /\ c + 1 >= CalmTicks1
              THEN [level |-> 0, normal |-> 0]
              ELSE [level |-> shedding.level, normal |-> Least(c + 1, CalmTicks1 + CalmTicks2)]
      BY <2>1, <2>4, <2>7, <2>8, <2>9
    <3>2. CASE shedding.level = 2 /\ c + 1 >= CalmTicks2
      <4>1. s = [level |-> 1, normal |-> 0] /\ calm' = 0
        BY <2>3, <3>1, <3>2
      <4> QED BY <2>2, <2>3, <2>4, <4>1 DEF PaceInv
    <3>3. CASE shedding.level = 1 /\ c + 1 >= CalmTicks1
      <4>1. s = [level |-> 0, normal |-> 0] /\ calm' = 0
        BY <2>3, <3>1, <3>3
      <4> QED BY <2>2, <2>3, <2>4, <4>1 DEF PaceInv
    <3>4. CASE /\ ~ (shedding.level = 2 /\ c + 1 >= CalmTicks2)
               /\ ~ (shedding.level = 1 /\ c + 1 >= CalmTicks1)
      <4> DEFINE n == Least(c + 1, CalmTicks1 + CalmTicks2)
      <4>1. s = [level |-> shedding.level, normal |-> n]
        BY <2>5, <3>1, <3>4
      <4>2. calm' = n
        BY <2>3, <2>5, <2>7, <4>1 DEF c
      <4>3. n \in Nat /\ n <= c + 1
        BY <2>4, <2>8 DEF Least
      <4> HIDE DEF n
      <4> QED BY <2>2, <2>3, <2>4, <2>5, <2>8, <3>4, <4>1, <4>2, <4>3 DEF PaceInv
    <3> QED BY <3>2, <3>3, <3>4
  <2> QED BY <2>6, <2>7
<1> QED BY <1>1, <1>2 DEF PaceNext

\* A tick, a mark or a drain keeps the counters equal to their histories (alerting.rs).
LEMMA PodStep == PodInv /\ [PodNext]_podVars => PodInv'
<1> SUFFICES ASSUME PodInv, [PodNext]_podVars PROVE PodInv'
  OBVIOUS
<1>a. /\ OverrunTicks \in Nat \ {0} /\ PressureTicks \in Nat \ {0} /\ MAX_DRAIN_TICKS \in Nat
      /\ MaxPodTicks \in Nat /\ MaxPodTicks >= OverrunTicks /\ MaxPodTicks >= PressureTicks
      /\ MaxPodTicks >= MAX_DRAIN_TICKS
  BY OperationsAssumption
\* One more tick counts for both, a tick without the condition starts both over.
<1>b. \A n \in Nat, k \in Nat : MaxPodTicks >= k
        => /\ Least(Least(n, k) + 1, k) = Least(Least(n + 1, MaxPodTicks), k)
           /\ Least(0, k) = 0
           /\ Least(n + 1, MaxPodTicks) \in Nat /\ Least(n, k) \in Nat
           /\ Least(Least(n, MaxPodTicks) + 1, MaxPodTicks) = Least(n + 1, MaxPodTicks)
  BY <1>a DEF Least
<1>1. ASSUME NEW conditions \in SUBSET AlertConditions, PodTick(conditions) PROVE PodInv'
  <2> DEFINE ev == evaluate_tick(alerting, conditions)
             counted(k) == IF k \in conditions THEN Least(strain[k] + 1, MaxPodTicks) ELSE 0
             overruns == IF "tick" \in conditions
                         THEN Least(alerting.overruns + 1, OverrunTicks) ELSE 0
             critical == IF "pressure" \in conditions
                         THEN Least(alerting.critical + 1, PressureTicks) ELSE 0
  <2>1. /\ alerting' = ev /\ pod' = pod_update(pod, ev)
        /\ strain' = [k \in AlertConditions |-> counted(k)]
        /\ drained' = CASE pod.state = "Draining" -> Least(drained + 1, MaxPodTicks)
                      [] pod.state = "Shutdown" -> drained
                      [] OTHER -> 0
    BY <1>1 DEF PodTick
  <2>2. "tick" \in AlertConditions /\ "pressure" \in AlertConditions
    BY DEF AlertConditions
  <2>3. \A k \in AlertConditions : strain[k] \in Nat /\ counted(k) \in Nat
    BY <1>a, <1>b DEF PodInv, AlertsCounted
  <2>4. strain' \in [AlertConditions -> Nat]
    BY <2>1, <2>3
  <2>5. /\ ev.overruns = overruns /\ ev.critical = critical
        /\ "tick" \in ev.alerts <=> "tick" \in conditions /\ overruns >= OverrunTicks
        /\ "pressure" \in ev.alerts <=> "pressure" \in conditions /\ critical >= PressureTicks
    BY DEF evaluate_tick
  <2>6. strain'["tick"] = counted("tick") /\ strain'["pressure"] = counted("pressure")
    BY <2>1, <2>2
  <2>7. /\ overruns \in Nat /\ overruns = Least(counted("tick"), OverrunTicks)
        /\ overruns >= OverrunTicks => "tick" \in conditions
    <3> DEFINE held == strain["tick"]
    <3>1. /\ held \in Nat /\ alerting.overruns = Least(held, OverrunTicks)
      BY <2>2, <2>3 DEF PodInv, AlertsCounted
    <3>2. /\ Least(Least(held, OverrunTicks) + 1, OverrunTicks) = Least(Least(held + 1, MaxPodTicks), OverrunTicks)
          /\ Least(Least(held, OverrunTicks) + 1, OverrunTicks) \in Nat /\ Least(0, OverrunTicks) = 0
      BY <1>a, <3>1 DEF Least
    <3> HIDE DEF held
    <3>3. CASE "tick" \in conditions
      BY <3>1, <3>2, <3>3 DEF held
    <3>4. CASE "tick" \notin conditions
      BY <1>a, <3>2, <3>4
    <3> QED BY <3>3, <3>4
  <2>8. /\ critical \in Nat /\ critical = Least(counted("pressure"), PressureTicks)
        /\ critical >= PressureTicks => "pressure" \in conditions
    <3> DEFINE held == strain["pressure"]
    <3>1. /\ held \in Nat /\ alerting.critical = Least(held, PressureTicks)
      BY <2>2, <2>3 DEF PodInv, AlertsCounted
    <3>2. /\ Least(Least(held, PressureTicks) + 1, PressureTicks) = Least(Least(held + 1, MaxPodTicks), PressureTicks)
          /\ Least(Least(held, PressureTicks) + 1, PressureTicks) \in Nat /\ Least(0, PressureTicks) = 0
      BY <1>a, <3>1 DEF Least
    <3> HIDE DEF held
    <3>3. CASE "pressure" \in conditions
      BY <3>1, <3>2, <3>3 DEF held
    <3>4. CASE "pressure" \notin conditions
      BY <1>a, <3>2, <3>4
    <3> QED BY <3>3, <3>4
  <2>9. /\ alerting'.overruns \in Nat /\ alerting'.critical \in Nat
        /\ alerting'.overruns = Least(strain'["tick"], OverrunTicks)
        /\ alerting'.critical = Least(strain'["pressure"], PressureTicks)
        /\ "tick" \in alerting'.alerts <=> strain'["tick"] >= OverrunTicks
        /\ "pressure" \in alerting'.alerts <=> strain'["pressure"] >= PressureTicks
    <3> HIDE DEF ev, overruns, critical
    <3>1. \A n \in Nat, k \in Nat : Least(n, k) >= k <=> n >= k
      BY DEF Least
    <3>2. counted("tick") \in Nat /\ counted("pressure") \in Nat
      BY <2>2, <2>3
    <3> HIDE DEF counted
    <3> QED BY <1>a, <2>1, <2>5, <2>6, <2>7, <2>8, <3>1, <3>2
  <2>c. AlertsCounted'
    BY <2>4, <2>9 DEF AlertsCounted
  <2> HIDE DEF ev
  <2>10. drained' \in Nat
    BY <1>a, <1>b, <2>1 DEF PodInv, DrainCounted
  <2>11. CASE pod.state = "Draining"
    <3>1. /\ pod' = [state |-> IF pod.draining_ticks + 1 >= MAX_DRAIN_TICKS THEN "Shutdown"
                               ELSE "Draining",
                     draining_ticks |-> pod.draining_ticks + 1]
          /\ drained' = Least(drained + 1, MaxPodTicks)
      BY <2>1, <2>11 DEF pod_update
    <3>2. drained = Least(pod.draining_ticks, MaxPodTicks) /\ pod.draining_ticks \in Nat
      BY <2>11 DEF PodInv, DrainCounted
    <3>3. pod'.draining_ticks = pod.draining_ticks + 1 /\ pod'.draining_ticks \in Nat
      BY <3>1, <3>2
    <3>4. drained' = Least(pod.draining_ticks + 1, MaxPodTicks)
      BY <1>a, <1>b, <3>1, <3>2
    <3>5. pod'.state = "Shutdown" => pod.draining_ticks + 1 >= MAX_DRAIN_TICKS
      BY <3>1
    <3>6. pod'.state = "Shutdown" => drained' >= MAX_DRAIN_TICKS
      BY <1>a, <3>2, <3>4, <3>5 DEF Least
    <3> QED BY <2>c, <2>10, <3>1, <3>3, <3>4, <3>6 DEF PodInv, DrainCounted, PodStates
  <2>12. CASE pod.state = "Shutdown"
    <3>1. pod' = pod /\ drained' = drained
      BY <2>1, <2>12 DEF pod_update
    <3> QED BY <2>c, <2>10, <2>12, <3>1 DEF PodInv, DrainCounted
  <2>13. CASE pod.state # "Draining" /\ pod.state # "Shutdown"
    <3>1. drained' = 0
      BY <2>1, <2>13
    <3>2. \/ pod' = [state |-> "Draining", draining_ticks |-> 0]
          \/ pod' = pod
          \/ pod' = [pod EXCEPT !.state = "Degraded"]
          \/ pod' = [pod EXCEPT !.state = "Allocated"]
      BY <2>1, <2>13 DEF pod_update
    <3>3. /\ pod' \in [state : PodStates, draining_ticks : Nat] /\ pod'.state # "Shutdown"
          /\ pod'.state = "Draining" => pod'.draining_ticks = 0
      BY <2>13, <3>2 DEF PodInv, DrainCounted, PodStates
    <3>4. Least(0, MaxPodTicks) = 0
      BY <1>a DEF Least
    <3> QED BY <2>c, <2>10, <3>1, <3>3, <3>4 DEF PodInv, DrainCounted
  <2> QED BY <2>11, <2>12, <2>13
<1>c. UNCHANGED <<alerting, strain>> => AlertsCounted'
  BY DEF PodInv, AlertsCounted
<1>2. CASE mark_ready
  BY <1>2, <1>c DEF mark_ready, PodInv, DrainCounted, PodStates
<1>3. CASE mark_allocated
  BY <1>3, <1>c DEF mark_allocated, PodInv, DrainCounted, PodStates
<1>4. CASE initiate_drain
  <2>1. Least(0, MaxPodTicks) = 0
    BY <1>a DEF Least
  <2> QED BY <1>4, <1>c, <2>1 DEF initiate_drain, PodInv, DrainCounted, PodStates
<1>5. ASSUME NEW state, send_command(state) PROVE PodInv'
  BY <1>5, <1>c DEF send_command, PodInv, DrainCounted
<1>6. CASE UNCHANGED podVars
  BY <1>6, <1>c DEF podVars, PodInv, DrainCounted
<1> QED BY <1>1, <1>2, <1>3, <1>4, <1>5, <1>6 DEF PodNext

\* The sessions counted at a node.
SessionsAt(table, n) == {s \in DOMAIN table : table[s].assigned_node = n}
Features == {"BASE_SIMULATION", "CELL_ANCHOR_REPLICATION", "AUTHENTICATED_SESSIONS",
             "REPLAY_WINDOW_64BIT"}
SessionRecords ==
    [client_version : MIN_SUPPORTED..MAX_SUPPORTED, assigned_node : UpgradeNodes,
     features : SUBSET Features, migrations_count : Nat]
RollingInv ==
    /\ IsFiniteSet(DOMAIN upgrades) /\ node_sessions \in [UpgradeNodes -> Nat]
    /\ \A s \in DOMAIN upgrades : upgrades[s] \in SessionRecords
    /\ RollingSound

\* Two versions that agree use what both know: the older one's features.
LEMMA AgreedFeatures ==
    ASSUME NEW n \in UpgradeNodes, NEW client \in Nat,
           NEW agreed \in negotiate(ClusterVersions[n], client)
    PROVE  /\ client \in MIN_SUPPORTED..MAX_SUPPORTED
           /\ features_for_version(agreed)
                = features_for_version(client) \cap features_for_version(ClusterVersions[n])
           /\ features_for_version(agreed) \in SUBSET Features
<1>1. /\ ClusterVersions[n] \in {0, 1, 2} /\ MIN_SUPPORTED \in Nat \ {0}
      /\ MAX_SUPPORTED \in Nat /\ MAX_SUPPORTED <= 2
  BY OperationsAssumption DEF UpgradeNodes
<1>2. client >= MIN_SUPPORTED /\ client <= MAX_SUPPORTED /\ agreed = Least(client, ClusterVersions[n])
  BY <1>1 DEF negotiate
<1>3. client \in {1, 2}
  BY <1>1, <1>2
<1>4. agreed = IF client < ClusterVersions[n] THEN client ELSE ClusterVersions[n]
  BY <1>2 DEF Least
<1>5. /\ features_for_version(0) = {}
      /\ features_for_version(1) = {"BASE_SIMULATION", "CELL_ANCHOR_REPLICATION"}
      /\ features_for_version(2) = {"BASE_SIMULATION", "CELL_ANCHOR_REPLICATION",
                                    "AUTHENTICATED_SESSIONS", "REPLAY_WINDOW_64BIT"}
  BY DEF features_for_version
<1>6. \/ ClusterVersions[n] = 0 /\ agreed = 0
      \/ ClusterVersions[n] = 1 /\ agreed = 1
      \/ ClusterVersions[n] = 2 /\ agreed = client
  BY <1>1, <1>3, <1>4
<1>7. features_for_version(1) \subseteq features_for_version(2)
  BY <1>5
<1>8. features_for_version(agreed)
        = features_for_version(client) \cap features_for_version(ClusterVersions[n])
  BY <1>3, <1>5, <1>6, <1>7
<1>9. features_for_version(agreed) \in SUBSET Features
  BY <1>3, <1>5, <1>6 DEF Features
<1> QED BY <1>1, <1>2, <1>8, <1>9

\* A session that moved is a session, at its new node and with its client's version.
LEMMA MovedRecord ==
    ASSUME NEW u \in SessionRecords, NEW target \in UpgradeNodes, NEW agreed,
           features_for_version(agreed) \in SUBSET Features
    PROVE  LET v == Moved(u, target, agreed)
           IN  /\ v \in SessionRecords /\ v.assigned_node = target
               /\ v.client_version = u.client_version
               /\ v.features = features_for_version(agreed)
<1> DEFINE features == features_for_version(agreed)
           v == Moved(u, target, agreed)
           versions == MIN_SUPPORTED..MAX_SUPPORTED
           sets == SUBSET Features
           moves == u.migrations_count + 1
<1>1. /\ features \in sets /\ moves \in Nat
      /\ SessionRecords = [client_version : versions, assigned_node : UpgradeNodes,
                           features : sets, migrations_count : Nat]
  BY DEF SessionRecords
<1>2. v = [u EXCEPT !.assigned_node = target, !.features = features, !.migrations_count = moves]
  BY DEF Moved
<1> HIDE DEF features, v, versions, sets, moves
<1>3. /\ v \in SessionRecords /\ v.assigned_node = target
      /\ v.client_version = u.client_version /\ v.features = features
  BY <1>1, <1>2
<1> QED BY <1>3 DEF features, v

\* Connecting and migrating move the counts with the sessions (rolling.rs).
LEMMA RollingStep == RollingInv /\ [RollingNext]_rollingVars => RollingInv'
<1> SUFFICES ASSUME RollingInv, [RollingNext]_rollingVars PROVE RollingInv'
  OBVIOUS
<1>a. /\ IsFiniteSet(DOMAIN upgrades) /\ node_sessions \in [UpgradeNodes -> Nat]
      /\ \A s \in DOMAIN upgrades : upgrades[s] \in SessionRecords
      /\ \A n \in UpgradeNodes : node_sessions[n] = Cardinality(SessionsAt(upgrades, n))
      /\ \A s \in DOMAIN upgrades :
             upgrades[s].features = features_for_version(upgrades[s].client_version)
                 \cap features_for_version(ClusterVersions[upgrades[s].assigned_node])
  BY DEF RollingInv, RollingSound, SessionsAt
<1>b. ASSUME /\ IsFiniteSet(DOMAIN upgrades') /\ node_sessions' \in [UpgradeNodes -> Nat]
             /\ \A s \in DOMAIN upgrades' : upgrades'[s] \in SessionRecords
             /\ \A n \in UpgradeNodes : node_sessions'[n] = Cardinality(SessionsAt(upgrades', n))
             /\ \A s \in DOMAIN upgrades' :
                    upgrades'[s].features = features_for_version(upgrades'[s].client_version)
                        \cap features_for_version(ClusterVersions[upgrades'[s].assigned_node])
      PROVE  RollingInv'
  BY <1>b DEF RollingInv, RollingSound, SessionsAt, UpgradeNodes
<1>f. \A n : IsFiniteSet(SessionsAt(upgrades, n)) /\ Cardinality(SessionsAt(upgrades, n)) \in Nat
  <2> SUFFICES ASSUME NEW n
               PROVE IsFiniteSet(SessionsAt(upgrades, n)) /\ Cardinality(SessionsAt(upgrades, n)) \in Nat
    OBVIOUS
  <2>1. SessionsAt(upgrades, n) \in SUBSET (DOMAIN upgrades)
    BY DEF SessionsAt
  <2>2. IsFiniteSet(SessionsAt(upgrades, n))
    BY <1>a, <2>1, FS_Subset
  <2> QED BY <2>2, FS_CardinalityType
<1>1. ASSUME NEW s \in UpgradeSessions, NEW n \in UpgradeNodes, NEW client \in ClientVersions,
             connect_session(s, client, n)
      PROVE  RollingInv'
  <2>1. PICK agreed \in negotiate(ClusterVersions[n], client) :
            upgrades' = With(upgrades, s, [client_version |-> client, assigned_node |-> n,
                             features |-> features_for_version(agreed), migrations_count |-> 0])
    BY <1>1 DEF connect_session
  <2>2. s \notin DOMAIN upgrades /\ node_sessions' = [node_sessions EXCEPT ![n] = @ + 1]
    BY <1>1 DEF connect_session
  <2> DEFINE u == [client_version |-> client, assigned_node |-> n,
                   features |-> features_for_version(agreed), migrations_count |-> 0]
  <2>3. client \in Nat
    BY OperationsAssumption
  <2>4. u \in SessionRecords /\ u.assigned_node = n
        /\ u.features = features_for_version(u.client_version)
                            \cap features_for_version(ClusterVersions[u.assigned_node])
    <3>1. /\ client \in MIN_SUPPORTED..MAX_SUPPORTED
          /\ features_for_version(agreed)
                = features_for_version(client) \cap features_for_version(ClusterVersions[n])
          /\ features_for_version(agreed) \in SUBSET Features
      BY <2>3, AgreedFeatures
    <3> QED BY <3>1 DEF SessionRecords
  <2> HIDE DEF u
  <2>5. /\ DOMAIN upgrades' = DOMAIN upgrades \cup {s} /\ upgrades'[s] = u
        /\ \A q \in DOMAIN upgrades : upgrades'[q] = upgrades[q]
    BY <2>1, <2>2 DEF With, u
  <2>6. IsFiniteSet(DOMAIN upgrades')
    BY <1>a, <2>5, FS_AddElement
  <2>7. /\ SessionsAt(upgrades', n) = SessionsAt(upgrades, n) \cup {s}
        /\ \A m \in UpgradeNodes \ {n} : SessionsAt(upgrades', m) = SessionsAt(upgrades, m)
        /\ s \notin SessionsAt(upgrades, n)
    BY <2>2, <2>4, <2>5 DEF SessionsAt
  <2>8. Cardinality(SessionsAt(upgrades', n)) = Cardinality(SessionsAt(upgrades, n)) + 1
    <3> DEFINE there == SessionsAt(upgrades, n)
    <3>1. IsFiniteSet(there) /\ s \notin there /\ SessionsAt(upgrades', n) = there \cup {s}
      BY <1>f, <2>7
    <3> HIDE DEF there
    <3>2. Cardinality(there \cup {s}) = Cardinality(there) + 1
      BY <3>1, FS_AddElement
    <3> QED BY <3>1, <3>2 DEF there
  <2>9. /\ node_sessions' \in [UpgradeNodes -> Nat]
        /\ \A m \in UpgradeNodes : node_sessions'[m] = Cardinality(SessionsAt(upgrades', m))
    <3>1. node_sessions' \in [UpgradeNodes -> Nat] /\ node_sessions'[n] = node_sessions[n] + 1
      BY <1>a, <2>2
    <3>2. ASSUME NEW m \in UpgradeNodes \ {n}
          PROVE  node_sessions'[m] = Cardinality(SessionsAt(upgrades', m))
      BY <1>a, <2>2, <2>7
    <3>3. node_sessions'[n] = Cardinality(SessionsAt(upgrades', n))
      BY <1>a, <2>8, <3>1
    <3> QED BY <3>1, <3>2, <3>3
  <2> QED BY <1>a, <1>b, <2>4, <2>5, <2>6, <2>9
<1>2. ASSUME NEW s \in UpgradeSessions, NEW target \in UpgradeNodes, live_migrate_session(s, target)
      PROVE  RollingInv'
  <2> DEFINE old == upgrades[s]
             home == old.assigned_node
  <2>1. s \in DOMAIN upgrades /\ old \in SessionRecords /\ home \in UpgradeNodes
        /\ old.client_version \in MIN_SUPPORTED..MAX_SUPPORTED
    BY <1>2, <1>a DEF live_migrate_session, SessionRecords
  <2>2. PICK agreed \in negotiate(ClusterVersions[target], old.client_version) :
            upgrades' = [upgrades EXCEPT ![s] = Moved(@, target, agreed)]
    BY <1>2 DEF live_migrate_session
  <2> DEFINE u == Moved(old, target, agreed)
             left == [node_sessions EXCEPT ![home] = Less(@, 1)]
  <2>3. node_sessions' = [left EXCEPT ![target] = @ + 1]
    BY <1>2 DEF live_migrate_session
  <2>4. old.client_version \in Nat
    BY <2>1, OperationsAssumption
  <2>5. /\ u \in SessionRecords /\ u.assigned_node = target /\ u.client_version = old.client_version
        /\ u.features = features_for_version(agreed)
    <3>1. features_for_version(agreed) \in SUBSET Features
      BY <2>4, AgreedFeatures
    <3> QED BY <2>1, <3>1, MovedRecord
  <2>6. u.features = features_for_version(u.client_version)
                         \cap features_for_version(ClusterVersions[u.assigned_node])
    BY <2>4, <2>5, AgreedFeatures
  <2>7. /\ DOMAIN upgrades' = DOMAIN upgrades /\ upgrades'[s] = u
        /\ \A q \in DOMAIN upgrades \ {s} : upgrades'[q] = upgrades[q]
    <3>1. upgrades' = [upgrades EXCEPT ![s] = u]
      BY <2>1, <2>2
    <3> HIDE DEF u
    <3> QED BY <2>1, <3>1
  <2>8. home \in UpgradeNodes /\ s \in SessionsAt(upgrades, home)
    BY <2>1 DEF SessionsAt
  <2> HIDE DEF u
  <2>9. ASSUME NEW q \in DOMAIN upgrades'
        PROVE  /\ upgrades'[q] \in SessionRecords
               /\ upgrades'[q].features = features_for_version(upgrades'[q].client_version)
                      \cap features_for_version(ClusterVersions[upgrades'[q].assigned_node])
    <3>1. CASE q = s
      BY <2>5, <2>6, <2>7, <3>1
    <3>2. CASE q # s
      <4>1. q \in DOMAIN upgrades /\ upgrades'[q] = upgrades[q]
        BY <2>7, <3>2
      <4> QED BY <1>a, <4>1
    <3> QED BY <3>1, <3>2
  <2>10. /\ \A m \in UpgradeNodes : m # home /\ m # target
                => SessionsAt(upgrades', m) = SessionsAt(upgrades, m)
         /\ SessionsAt(upgrades', target) = SessionsAt(upgrades, target) \cup {s}
         /\ home # target => /\ SessionsAt(upgrades', home) = SessionsAt(upgrades, home) \ {s}
                             /\ s \notin SessionsAt(upgrades, target)
    BY <2>1, <2>5, <2>7 DEF SessionsAt
  <2>11. node_sessions[home] >= 1
    <3>1. SessionsAt(upgrades, home) # {}
      BY <2>8
    <3> QED BY <1>a, <1>f, <2>8, <3>1, FS_EmptySet
  <2> HIDE DEF home, old
  <2>12. /\ left \in [UpgradeNodes -> Nat] /\ left[home] = node_sessions[home] - 1
         /\ \A m \in UpgradeNodes \ {home} : left[m] = node_sessions[m]
    BY <1>a, <2>8, <2>11 DEF Less
  <2> HIDE DEF left
  <2>13. /\ node_sessions' \in [UpgradeNodes -> Nat] /\ node_sessions'[target] = left[target] + 1
         /\ \A m \in UpgradeNodes \ {target} : node_sessions'[m] = left[m]
    BY <2>3, <2>12
  <2>14. ASSUME NEW m \in UpgradeNodes
         PROVE  node_sessions'[m] = Cardinality(SessionsAt(upgrades', m))
    <3>1. node_sessions[m] = Cardinality(SessionsAt(upgrades, m)) /\ node_sessions[m] \in Nat
      BY <1>a
    <3>2. CASE m # home /\ m # target
      BY <2>10, <2>12, <2>13, <3>1, <3>2
    <3>3. CASE m = home /\ m # target
      <4>1. Cardinality(SessionsAt(upgrades, m) \ {s}) = Cardinality(SessionsAt(upgrades, m)) - 1
        <5> DEFINE there == SessionsAt(upgrades, m)
        <5>1. IsFiniteSet(there) /\ s \in there
          BY <1>f, <2>8, <3>3
        <5> HIDE DEF there
        <5>2. Cardinality(there \ {s}) = Cardinality(there) - 1
          BY <5>1, FS_RemoveElement
        <5> QED BY <5>2 DEF there
      <4> QED BY <2>10, <2>12, <2>13, <3>1, <3>3, <4>1
    <3>4. CASE m = target /\ m # home
      <4>1. Cardinality(SessionsAt(upgrades, m) \cup {s}) = Cardinality(SessionsAt(upgrades, m)) + 1
        <5> DEFINE there == SessionsAt(upgrades, m)
        <5>1. IsFiniteSet(there) /\ s \notin there
          BY <1>f, <2>10, <3>4
        <5> HIDE DEF there
        <5>2. Cardinality(there \cup {s}) = Cardinality(there) + 1
          BY <5>1, FS_AddElement
        <5> QED BY <5>2 DEF there
      <4> QED BY <2>10, <2>12, <2>13, <3>1, <3>4, <4>1
    <3>5. CASE m = target /\ m = home
      <4>1. SessionsAt(upgrades', m) = SessionsAt(upgrades, m)
        BY <2>8, <2>10, <3>5
      <4> QED BY <2>12, <2>13, <3>1, <3>5, <4>1
    <3> QED BY <3>2, <3>3, <3>4, <3>5
  <2>15. IsFiniteSet(DOMAIN upgrades')
    BY <1>a, <2>7
  <2> QED BY <1>b, <2>9, <2>13, <2>14, <2>15
<1>3. CASE UNCHANGED rollingVars
  BY <1>3 DEF rollingVars, RollingInv, RollingSound
<1> QED BY <1>1, <1>2, <1>3 DEF RollingNext

\* A server that starts satisfies every part of the invariant.
LEMMA OperationsInitInv ==
    ASSUME OperationsInit
    PROVE  AdminInv /\ PaceInv /\ PodInv /\ RollingInv
<1>1. AdminInv
  <2>1. /\ commands = <<>> /\ executing = <<>> /\ executed = <<>> /\ requested = <<>>
        /\ admin_logs = <<>>
    BY DEF OperationsInit, AdminInit
  <2>2. MAX_PENDING_GM_COMMANDS \in Nat /\ MAX_ADMIN_LOGS \in Nat
    BY OperationsAssumption
  <2>3. \A S : <<>> \in Seq(S)
    OBVIOUS
  <2>4. <<>> \o <<>> = <<>> /\ Len(<<>>) = 0
    OBVIOUS
  <2>5. CommandsKept
    BY <2>1, <2>2, <2>4 DEF CommandsKept
  <2> QED BY <2>1, <2>3, <2>5 DEF AdminInv
<1>2. PaceInv
  <2>1. pace = NewGovernor /\ shedding = [level |-> 0, normal |-> 0] /\ calm = 0
    BY DEF OperationsInit, PaceInit
  <2>2. TickInterval \in Nat /\ ClampedLag \in Nat
    BY OperationsAssumption DEF ClampedLag
  <2>3. TargetOf(pace) = 0
    BY <2>1, <2>2 DEF TargetOf, NewGovernor
  <2>4. OnSchedule(pace)
    BY <2>1, <2>2, <2>3 DEF OnSchedule, Governors, NewGovernor
  <2> QED BY <2>1, <2>4 DEF PaceInv
<1>3. PodInv
  <2>1. /\ OverrunTicks \in Nat \ {0} /\ PressureTicks \in Nat \ {0}
    BY OperationsAssumption
  <2>2. Least(0, OverrunTicks) = 0 /\ Least(0, PressureTicks) = 0
    BY <2>1 DEF Least
  <2>3. strain \in [AlertConditions -> Nat] /\ strain["tick"] = 0 /\ strain["pressure"] = 0
    BY DEF OperationsInit, PodInit, AlertConditions
  <2>4. alerting.overruns = 0 /\ alerting.critical = 0 /\ alerting.alerts = {}
    BY DEF OperationsInit, PodInit, NewEvaluator
  <2>5. AlertsCounted
    BY <2>1, <2>2, <2>3, <2>4 DEF AlertsCounted
  <2>6. DrainCounted
    BY DEF OperationsInit, PodInit, DrainCounted, PodStates
  <2> QED BY <2>5, <2>6 DEF PodInv
<1>4. RollingInv
  <2>1. DOMAIN upgrades = {} /\ node_sessions = [n \in UpgradeNodes |-> 0]
    BY DEF OperationsInit, RollingInit
  <2>2. \A n : {s \in DOMAIN upgrades : upgrades[s].assigned_node = n} = {}
    BY <2>1
  <2>3. RollingSound
    BY <2>1, <2>2, FS_EmptySet DEF RollingSound
  <2> QED BY <2>1, <2>3, FS_EmptySet DEF RollingInv
<1> QED BY <1>1, <1>2, <1>3, <1>4

\* Running a server keeps its promises: what authorized administrators asked for is carried out
\* once and in order and the log stays within its limit; the loop is never ahead of the clock nor
\* further behind than it may catch up, and sheds load until enough calm ticks; counted alerts are
\* up exactly while their condition has held and a pod drains its time; and each node's count is
\* that of its sessions, whose features both versions know (admin.rs, facade.rs:897-953, clock.rs,
\* tick.rs, alerting.rs, rolling.rs, version.rs).
THEOREM OperationsKept == ServerSpec => []OperationsSound
<1> DEFINE Inv == AdminInv /\ PaceInv /\ PodInv /\ RollingInv
<1>1. ServerInit => Inv
  BY OperationsInitInv DEF ServerInit
<1>2. Inv /\ [ServerNext]_serverVars => Inv'
  <2> SUFFICES ASSUME Inv, [ServerNext]_serverVars PROVE Inv'
    OBVIOUS
  <2>1. /\ [AdminNext]_adminVars /\ [PaceNext]_paceVars /\ [PodNext]_podVars
        /\ [RollingNext]_rollingVars
    <3>1. CASE OperationsNext
      BY <3>1 DEF OperationsNext
    <3>2. CASE UNCHANGED operationsVars
      BY <3>2 DEF operationsVars
    <3> QED BY <3>1, <3>2 DEF ServerNext, serverVars
  <2> QED BY <2>1, AdminStep, PaceStep, PodStep, RollingStep
<1>3. Inv => OperationsSound
  <2>1. AdminInv => CommandsKept
    BY DEF AdminInv
  <2>2. PaceInv => PacingSound
    BY DEF PaceInv, PacingSound, OnSchedule
  <2>3. PodInv => PodSound
    BY DEF PodInv, PodSound, AlertsCounted, DrainCounted
  <2>4. RollingInv => RollingSound
    BY DEF RollingInv
  <2> QED BY <2>1, <2>2, <2>3, <2>4 DEF OperationsSound
<1> QED BY <1>1, <1>2, <1>3, PTL DEF ServerSpec
===============================================================================
