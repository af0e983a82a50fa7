------------------------------ MODULE PlayProofs ------------------------------
(*****************************************************************************)
(* The rules of play for any number of accounts, parties, guilds, plots,     *)
(* rooms and ticks: parties and the index of their members agree, chat keeps *)
(* to its rate, and guilds, claims, raids and patches stay consistent.  And  *)
(* the items that players hold, trade and pack into each other.              *)
(*****************************************************************************)
EXTENDS MCPlay, ItemGraph, DataLemmas, FiniteSetTheorems, TLAPS

-------------------------------------------------------------------------------
(* --------------------------------- parties -------------------------------- *)

Party == [leader_account_id : Accounts, members : Seq(Accounts)]

\* A party as every one in the map is.
GoodParty(p) ==
    /\ p \in Party
    /\ Len(p.members) <= MAX_GROUP_MEMBERS
    /\ p.members # << >>
    /\ IsInjective(p.members)
    /\ is_member(p, p.leader_account_id)

\* Ids are not used twice, so a new party takes nobody's index over.
PartyInv ==
    /\ next_party_id \in 1..(MaxParties + 1)
    /\ DOMAIN parties \subseteq 1..(next_party_id - 1)
    /\ \A pid \in DOMAIN parties : GoodParty(parties[pid])
    /\ account_to_party \in Index /\ pending_invites \in Index
    /\ IndexNamesMembership

\* A party of one.
LEMMA NewPartyIsGood ==
    ASSUME NEW a \in Accounts
    PROVE  GoodParty(NewParty(a)) /\ is_member(NewParty(a), a)
<1>1. MAX_GROUP_MEMBERS \in Nat \ {0}
  BY PartyAssumption
<1>2. <<a>> \in Seq(Accounts) /\ Len(<<a>>) = 1 /\ <<a>> # << >> /\ DOMAIN <<a>> = {1} /\ <<a>>[1] = a
  OBVIOUS
<1>3. IsInjective(<<a>>) /\ a \in ToSet(<<a>>)
  BY <1>2 DEF IsInjective, ToSet
<1> QED BY <1>1, <1>2, <1>3 DEF GoodParty, NewParty, Party, is_member

\* Who joins a party that has room and that it is not in.
LEMMA JoinedPartyIsGood ==
    ASSUME NEW p, GoodParty(p), NEW a \in Accounts, add_member(p, a)
    PROVE  LET q == [p EXCEPT !.members = Append(@, a)] IN
           /\ GoodParty(q)
           /\ \A b : is_member(q, b) <=> is_member(p, b) \/ b = a
<1> DEFINE s == p.members  t == Append(s, a)  q == [p EXCEPT !.members = t]
<1>1. /\ s \in Seq(Accounts) /\ Len(s) \in Nat /\ Len(s) < MAX_GROUP_MEMBERS
      /\ IsInjective(s) /\ a \notin ToSet(s) /\ p.leader_account_id \in ToSet(s)
  BY PartyAssumption DEF GoodParty, Party, add_member, Full, is_member
<1> HIDE DEF s
<1>2. /\ t \in Seq(Accounts) /\ Len(t) = Len(s) + 1
      /\ ToSet(t) = ToSet(s) \union {a} /\ IsInjective(t)
  BY <1>1, Appended
<1>3. q \in Party /\ q.members = t /\ q.leader_account_id = p.leader_account_id
  <2>1. p \in Party
    BY DEF GoodParty
  <2> HIDE DEF t
  <2> QED BY <2>1, <1>2 DEF Party
<1>4. Len(t) <= MAX_GROUP_MEMBERS /\ t # << >>
  <2>1. MAX_GROUP_MEMBERS \in Nat
    BY PartyAssumption
  <2> HIDE DEF t
  <2>2. t # << >>
    BY <1>1, <1>2
  <2> QED BY <2>1, <2>2, <1>1, <1>2
<1> HIDE DEF t, q
<1>5. GoodParty(q)
  <2>1. is_member(q, q.leader_account_id)
    BY <1>1, <1>2, <1>3 DEF is_member
  <2>2. Len(q.members) <= MAX_GROUP_MEMBERS /\ q.members # << >> /\ IsInjective(q.members)
    BY <1>2, <1>3, <1>4
  <2> QED BY <1>3, <2>1, <2>2 DEF GoodParty
<1>6. \A b : is_member(q, b) <=> is_member(p, b) \/ b = a
  BY <1>2, <1>3 DEF is_member, s
<1> QED BY <1>5, <1>6 DEF q, t, s

\* Who leaves: the party has the others, and one of them leads it.
LEMMA LeftPartyIsGood ==
    ASSUME NEW p, GoodParty(p), NEW a \in Accounts, is_member(p, a)
    PROVE  LET left == remove_member(p, a) IN
           /\ \A b : is_member(left, b) <=> is_member(p, b) /\ b # a
           /\ left.members # << >> => GoodParty(left)
<1> DEFINE s == p.members
           P == {i \in DOMAIN s : s[i] = a}
           pos == Min(P)
           t == RemoveAt(s, pos)
           left == remove_member(p, a)
<1>1. /\ s \in Seq(Accounts) /\ Len(s) \in Nat /\ Len(s) <= MAX_GROUP_MEMBERS /\ DOMAIN s = 1..Len(s)
      /\ IsInjective(s) /\ a \in ToSet(s) /\ p.leader_account_id \in ToSet(s)
  BY DEF GoodParty, Party, is_member
<1> HIDE DEF s
<1>2. pos \in 1..Len(s) /\ s[pos] = a
  <2>1. P \subseteq Nat /\ P # {}
    BY <1>1 DEF ToSet
  <2> HIDE DEF P
  <2>2. pos \in P
    BY <2>1, MinOf
  <2> QED BY <2>2, <1>1 DEF P
<1> HIDE DEF pos
<1>3. t \in Seq(Accounts) /\ Len(t) = Len(s) - 1
  BY <1>1, <1>2, TakenOut
<1>4. IsInjective(t) /\ ToSet(t) = ToSet(s) \ {a}
  BY <1>1, <1>2, TakenOutOnce
<1> HIDE DEF t
<1>5. left = [leader_account_id |-> IF p.leader_account_id = a /\ t # << >>
                                    THEN t[1] ELSE p.leader_account_id,
              members |-> t]
  BY DEF remove_member, t, pos, P, s
<1> HIDE DEF left
<1>6. \A b : is_member(left, b) <=> is_member(p, b) /\ b # a
  BY <1>4, <1>5 DEF is_member, s
<1>7. ASSUME t # << >> PROVE GoodParty(left)
  <2>1. MAX_GROUP_MEMBERS \in Nat
    BY PartyAssumption
  <2>2. Len(t) <= MAX_GROUP_MEMBERS
    BY <2>1, <1>1, <1>3
  <2>3. t[1] \in Accounts /\ t[1] \in ToSet(t)
    <3>1. 1 \in DOMAIN t
      BY <1>3, <1>7
    <3> QED BY <3>1, <1>3 DEF ToSet
  <2>4. p.leader_account_id # a => p.leader_account_id \in ToSet(t)
    BY <1>1, <1>4
  <2>5. p.leader_account_id \in Accounts
    BY DEF GoodParty, Party
  <2>6. left.members = t /\ left.leader_account_id \in ToSet(t) /\ left.leader_account_id \in Accounts
    BY <2>3, <2>4, <2>5, <1>5, <1>7
  <2>7. left \in Party
    BY <2>3, <2>5, <1>3, <1>5 DEF Party
  <2> QED BY <2>2, <2>6, <2>7, <1>4, <1>7 DEF GoodParty, is_member
<1>8. left.members = t
  BY <1>5
<1> QED BY <1>6, <1>7, <1>8 DEF left

\* The actions of PartyManager, one by one.
LEMMA PartyStep ==
    ASSUME PartyInv, [PartyNext]_partyVars
    PROVE  PartyInv'
<1>1. /\ next_party_id \in 1..(MaxParties + 1) /\ MaxParties \in Nat
      /\ DOMAIN parties \subseteq 1..(next_party_id - 1)
      /\ \A pid \in DOMAIN parties : GoodParty(parties[pid])
      /\ account_to_party \in Index /\ pending_invites \in Index
      /\ \A a \in DOMAIN account_to_party :
             /\ account_to_party[a] \in DOMAIN parties
             /\ is_member(parties[account_to_party[a]], a)
  BY PartyAssumption DEF PartyInv, IndexNamesMembership
<1>2. ASSUME NEW f \in Index, NEW a \in Accounts, NEW pid \in PartyIds PROVE With(f, a, pid) \in Index
  <2>1. PICK S \in SUBSET Accounts : f \in [S -> PartyIds]
    BY DEF Index
  <2>2. S \union {a} \in SUBSET Accounts /\ With(f, a, pid) \in [S \union {a} -> PartyIds]
    BY <2>1 DEF With
  <2> QED BY <2>2 DEF Index
<1>3. ASSUME NEW f \in Index, NEW a PROVE Without(f, {a}) \in Index
  <2>1. PICK S \in SUBSET Accounts : f \in [S -> PartyIds]
    BY DEF Index
  <2>2. S \ {a} \in SUBSET Accounts /\ Without(f, {a}) \in [S \ {a} -> PartyIds]
    BY <2>1 DEF Without
  <2> QED BY <2>2 DEF Index
<1>4. \A f \in Index : \A a \in DOMAIN f : a \in Accounts /\ f[a] \in PartyIds
  BY DEF Index
<1>5. ASSUME NEW a \in Accounts, NEW t \in Accounts, create_party(a, t) PROVE PartyInv'
  <2> DEFINE n == next_party_id
  <2>1. /\ a \notin DOMAIN account_to_party /\ n <= MaxParties /\ next_party_id' = n + 1
        /\ parties' = With(parties, n, NewParty(a))
        /\ account_to_party' = With(account_to_party, a, n)
        /\ pending_invites' = With(pending_invites, t, n) \/ pending_invites' = pending_invites
    BY <1>5 DEF create_party
  <2>2. n \in PartyIds /\ n + 1 \in 1..(MaxParties + 1) /\ n \notin DOMAIN parties
    BY <1>1, <2>1 DEF PartyIds
  <2>3. account_to_party' \in Index /\ pending_invites' \in Index
    BY <1>1, <1>2, <2>1, <2>2
  <2>4. DOMAIN parties' = DOMAIN parties \union {n} /\ parties'[n] = NewParty(a)
        /\ \A pid \in DOMAIN parties : parties'[pid] = parties[pid]
    BY <2>1, <2>2 DEF With
  <2>5. DOMAIN parties' \subseteq 1..((n + 1) - 1)
    BY <1>1, <2>4
  <2>6. \A pid \in DOMAIN parties' : GoodParty(parties'[pid])
    BY <1>1, <2>4, NewPartyIsGood
  <2>7. DOMAIN account_to_party' = DOMAIN account_to_party \union {a} /\ account_to_party'[a] = n
        /\ \A b \in DOMAIN account_to_party : account_to_party'[b] = account_to_party[b]
    BY <2>1 DEF With
  <2>8. IndexNamesMembership'
    BY <1>1, <2>4, <2>7, NewPartyIsGood DEF IndexNamesMembership, is_member
  <2> QED BY <2>1, <2>2, <2>3, <2>5, <2>6, <2>8 DEF PartyInv, GoodParty, is_member
<1>6. ASSUME NEW a \in Accounts, NEW t \in Accounts, invite_player(a, t) PROVE PartyInv'
  <2>1. pending_invites' \in Index
    BY <1>1, <1>2, <1>4, <1>6 DEF invite_player
  <2> QED BY <2>1, <1>6 DEF invite_player, PartyInv, IndexNamesMembership, GoodParty, is_member
<1>7. ASSUME NEW a \in Accounts, accept_invite(a) PROVE PartyInv'
  <2> DEFINE pid == pending_invites[a]
  <2>1. pending_invites' \in Index /\ pid \in PartyIds
    BY <1>1, <1>3, <1>4, <1>7 DEF accept_invite
  <2>2. CASE pid \in DOMAIN parties /\ add_member(parties[pid], a)
    <3> DEFINE q == [parties[pid] EXCEPT !.members = Append(@, a)]
    <3>1. parties' = [parties EXCEPT ![pid] = q] /\ account_to_party' = With(account_to_party, a, pid)
          /\ next_party_id' = next_party_id
      BY <1>7, <2>2 DEF accept_invite
    <3>2. GoodParty(q) /\ \A b : is_member(q, b) <=> is_member(parties[pid], b) \/ b = a
      BY <1>1, <2>2, JoinedPartyIsGood
    <3> HIDE DEF q, pid
    <3>3. DOMAIN parties' = DOMAIN parties
          /\ \A i \in DOMAIN parties : parties'[i] = IF i = pid THEN q ELSE parties[i]
      BY <3>1, <2>2
    <3>4. \A i \in DOMAIN parties' : GoodParty(parties'[i])
      BY <3>2, <3>3, <1>1
    <3>5. account_to_party' \in Index
      BY <3>1, <2>1, <1>1, <1>2
    <3>6. DOMAIN account_to_party' = DOMAIN account_to_party \union {a} /\ account_to_party'[a] = pid
          /\ \A b \in DOMAIN account_to_party : b # a => account_to_party'[b] = account_to_party[b]
      BY <3>1 DEF With
    <3>7. IndexNamesMembership'
      BY <3>2, <3>3, <3>6, <2>2, <1>1 DEF IndexNamesMembership, is_member
    <3> QED BY <3>1, <3>3, <3>4, <3>5, <3>7, <2>1, <1>1 DEF PartyInv, GoodParty, is_member
  <2>3. CASE ~ (pid \in DOMAIN parties /\ add_member(parties[pid], a))
    BY <2>1, <2>3, <1>7 DEF accept_invite, PartyInv, IndexNamesMembership, GoodParty, is_member
  <2> QED BY <2>2, <2>3
<1>8. ASSUME NEW a \in Accounts, decline_invite(a) PROVE PartyInv'
  <2>1. pending_invites' \in Index
    BY <1>1, <1>3, <1>8 DEF decline_invite
  <2> QED BY <2>1, <1>8 DEF decline_invite, PartyInv, IndexNamesMembership, GoodParty, is_member
<1>9. ASSUME NEW a \in Accounts, leave_party(a) PROVE PartyInv'
  <2> DEFINE pid == account_to_party[a]  left == remove_member(parties[pid], a)
  <2>1. /\ a \in DOMAIN account_to_party /\ account_to_party' = Without(account_to_party, {a})
        /\ parties' = IF left.members = << >> THEN Without(parties, {pid})
                      ELSE [parties EXCEPT ![pid] = left]
        /\ next_party_id' = next_party_id /\ pending_invites' = pending_invites
        /\ pid \in DOMAIN parties /\ is_member(parties[pid], a)
    BY <1>1, <1>9 DEF leave_party
  <2>2. /\ \A b : is_member(left, b) <=> is_member(parties[pid], b) /\ b # a
        /\ left.members # << >> => GoodParty(left)
    BY <1>1, <2>1, LeftPartyIsGood
  <2>3. account_to_party' \in Index
    BY <1>1, <1>3, <2>1
  <2> HIDE DEF pid, left
  <2>4. DOMAIN account_to_party' = DOMAIN account_to_party \ {a}
        /\ \A b \in DOMAIN account_to_party' : account_to_party'[b] = account_to_party[b]
    BY <2>1 DEF Without
  <2>5. CASE left.members = << >>
    <3>1. \A b : ~ is_member(left, b)
      BY <2>5 DEF is_member, ToSet
    <3>2. DOMAIN parties' = DOMAIN parties \ {pid}
          /\ \A i \in DOMAIN parties' : parties'[i] = parties[i]
      BY <2>1, <2>5 DEF Without
    <3>3. \A b \in DOMAIN account_to_party' : account_to_party'[b] # pid
      BY <3>1, <2>2, <2>4, <1>1
    <3>4. IndexNamesMembership'
      BY <3>2, <3>3, <2>4, <1>1 DEF IndexNamesMembership, is_member
    <3>5. \A i \in DOMAIN parties' : GoodParty(parties'[i])
      BY <3>2, <1>1
    <3> QED BY <3>2, <3>4, <3>5, <2>1, <2>3, <1>1 DEF PartyInv, GoodParty, is_member
  <2>6. CASE left.members # << >>
    <3>1. DOMAIN parties' = DOMAIN parties
          /\ \A i \in DOMAIN parties : parties'[i] = IF i = pid THEN left ELSE parties[i]
      BY <2>1, <2>6
    <3>2. \A i \in DOMAIN parties' : GoodParty(parties'[i])
      BY <3>1, <2>2, <2>6, <1>1
    <3>3. IndexNamesMembership'
      BY <3>1, <2>2, <2>4, <1>1 DEF IndexNamesMembership, is_member
    <3> QED BY <3>1, <3>2, <3>3, <2>1, <2>3, <1>1 DEF PartyInv, GoodParty, is_member
  <2> QED BY <2>5, <2>6
<1>10. ASSUME NEW pid \in PartyIds, NEW a \in Accounts, promote_leader(pid, a) PROVE PartyInv'
  <2> DEFINE q == [parties[pid] EXCEPT !.leader_account_id = a]
  <2>1. /\ pid \in DOMAIN parties /\ is_member(parties[pid], a) /\ GoodParty(parties[pid])
        /\ parties' = [parties EXCEPT ![pid] = q]
        /\ UNCHANGED <<next_party_id, account_to_party, pending_invites>>
    BY <1>1, <1>10 DEF promote_leader
  <2>2. q \in Party /\ q.members = parties[pid].members /\ q.leader_account_id = a
    BY <2>1 DEF GoodParty, Party
  <2> HIDE DEF q
  <2>3. GoodParty(q) /\ \A b : is_member(q, b) <=> is_member(parties[pid], b)
    BY <2>1, <2>2 DEF GoodParty, is_member
  <2>4. DOMAIN parties' = DOMAIN parties
        /\ \A i \in DOMAIN parties : parties'[i] = IF i = pid THEN q ELSE parties[i]
    BY <2>1
  <2>5. \A i \in DOMAIN parties' : GoodParty(parties'[i])
    BY <2>3, <2>4, <1>1
  <2>6. IndexNamesMembership'
    BY <2>1, <2>3, <2>4, <1>1 DEF IndexNamesMembership, is_member
  <2> QED BY <2>1, <2>4, <2>5, <2>6, <1>1 DEF PartyInv, GoodParty, is_member
<1>11. ASSUME UNCHANGED partyVars PROVE PartyInv'
  BY <1>11 DEF partyVars, PartyInv, IndexNamesMembership, GoodParty, is_member
<1> QED BY <1>5, <1>6, <1>7, <1>8, <1>9, <1>10, <1>11 DEF PartyNext

\* What the invariant says of the run's property.
LEMMA PartyInvSuffices ==
    ASSUME PartyInv
    PROVE  PartiesConsistent
<1>1. MaxParties \in Nat
  BY PartyAssumption
<1>2. DOMAIN parties \subseteq PartyIds
  BY <1>1 DEF PartyInv, PartyIds
<1>3. \A pid \in DOMAIN parties :
          /\ parties[pid].leader_account_id \in Accounts /\ parties[pid].members \in Seq(Accounts)
          /\ Len(parties[pid].members) <= MAX_GROUP_MEMBERS
  BY DEF PartyInv, GoodParty, Party
<1>4. PartiesWellFormed
  BY DEF PartyInv, GoodParty, PartiesWellFormed
<1> QED BY <1>2, <1>3, <1>4 DEF PartyInv, PartiesConsistent, PartyTypeOK

\* No party, no member, no invitation.
LEMMA PartyStart ==
    ASSUME PartyInit
    PROVE  PartyInv
<1>1. << >> \in Index
  <2>1. << >> \in [{} -> PartyIds] /\ {} \in SUBSET Accounts
    OBVIOUS
  <2> QED BY <2>1 DEF Index
<1>2. DOMAIN parties = {} /\ DOMAIN account_to_party = {} /\ 1 \in 1..(MaxParties + 1)
  BY PartyAssumption DEF PartyInit
<1> QED BY <1>1, <1>2 DEF PartyInit, PartyInv, IndexNamesMembership

\* Parties and the index of their members stay well formed and agree for any
\* number of accounts and any limit, through invitations that cross and leaders
\* that leave (party.rs).
THEOREM PartiesKept == PartySpec => []PartiesConsistent
<1>1. PartyInit => PartyInv
  BY PartyStart
<1>2. PartyInv /\ [PartyNext]_partyVars => PartyInv'
  BY PartyStep
<1>3. PartyInv => PartiesConsistent
  BY PartyInvSuffices
<1> QED BY <1>1, <1>2, <1>3, PTL DEF PartySpec

-------------------------------------------------------------------------------
(* ----------------------------------- chat --------------------------------- *)

\* Every check meets the account's slot or an empty one: the table is not so
\* full that a bucket is written over another account's.
ChatRoom == \A a \in Chatters : target_slot(a) # {} \/ empty_slot(a) # {}

Bucket == [id : Chatters \union {NoAccount}, tokens : 0..capacity,
           last_replenish_tick : 0..ChatMaxTick]

\* An account's bucket was refilled for k intervals since its first message, and
\* what was let through and what is left came from the first filling and from
\* those; an empty bucket was emptied since its last refill.
BucketOf(b, a) ==
    /\ b.last_replenish_tick <= chat_tick
    /\ first[a] <= b.last_replenish_tick
    /\ \E k \in Nat :
           /\ b.last_replenish_tick = first[a] + k * replenish_interval_ticks
           /\ accepted[a] + b.tokens <= capacity + k
    /\ b.tokens = 0 => b.last_replenish_tick <= latest[a] /\ latest[a] <= chat_tick

\* Whoever ever sent a message has one bucket, where its probing meets it.
ChatInv ==
    /\ ChatTypeOK
    /\ \A s, t \in BucketSlots :
           buckets[s].id = buckets[t].id /\ buckets[s].id # NoAccount => s = t
    /\ \A s \in BucketSlots : buckets[s].id # NoAccount =>
           /\ first[buckets[s].id] # NeverTick
           /\ \E n \in 0..(Probes - 1) : Probe(buckets[s].id, n) = s
           /\ BucketOf(buckets[s], buckets[s].id)
    /\ \A a \in Chatters : first[a] = NeverTick => accepted[a] = 0
    /\ \A a \in Chatters : first[a] # NeverTick => \E s \in BucketSlots : buckets[s].id = a
    /\ RefusedOnlyWhenRecent

\* The numbers of the table.
LEMMA ChatNumbers ==
    /\ replenish_interval_ticks \in Nat \ {0} /\ capacity \in Nat \ {0} /\ ChatMaxTick \in Nat
    /\ CHAT_RATE_LIMITER_SLOTS \in Nat \ {0} /\ Multiplier \in Nat
    /\ Probes \in 1..CHAT_RATE_LIMITER_SLOTS /\ Chatters \subseteq Nat /\ NoAccount \notin Chatters
  BY ChatAssumption

\* The smaller of two numbers.
LEMMA MinOfTwo ==
    ASSUME NEW x \in Nat, NEW y \in Nat
    PROVE  Min({x, y}) = IF x <= y THEN x ELSE y
<1> DEFINE S == {x, y}
<1>1. S \subseteq Nat /\ S # {}
  OBVIOUS
<1> HIDE DEF S
<1>2. Min(S) \in S /\ \A z \in S : Min(S) <= z
  BY <1>1, MinOf
<1> QED BY <1>2 DEF S

\* Probing meets slots of the table.
LEMMA ProbesAreSlots ==
    ASSUME NEW a \in Chatters, NEW n \in Nat
    PROVE  Probe(a, n) \in BucketSlots
<1> DEFINE x == a * Multiplier + n
<1>1. x \in Nat
  BY ChatNumbers
<1> HIDE DEF x
<1>2. x % CHAT_RATE_LIMITER_SLOTS \in 0..(CHAT_RATE_LIMITER_SLOTS - 1)
  BY <1>1, ChatNumbers, RoundAndSlot
<1> QED BY <1>2 DEF Probe, BucketSlots, x

\* The refill: whole intervals are added and counted off, up to a full bucket;
\* a bucket that stays empty is less than an interval old.
LEMMA Refilled ==
    ASSUME NEW b \in Bucket, chat_tick \in 0..ChatMaxTick, b.last_replenish_tick <= chat_tick
    PROVE  /\ replenish(b) \in Bucket /\ replenish(b).id = b.id
           /\ replenish(b).last_replenish_tick <= chat_tick
           /\ \E k \in Nat :
                  /\ replenish(b).last_replenish_tick
                         = b.last_replenish_tick + k * replenish_interval_ticks
                  /\ replenish(b).tokens <= b.tokens + k
           /\ replenish(b).tokens = 0 =>
                  /\ replenish(b) = b
                  /\ chat_tick - b.last_replenish_tick < replenish_interval_ticks
<1> DEFINE I == replenish_interval_ticks  d == chat_tick - b.last_replenish_tick
           added == d \div I  r == replenish(b)
<1>1. /\ I \in Nat \ {0} /\ capacity \in Nat \ {0} /\ ChatMaxTick \in Nat
      /\ b.last_replenish_tick \in 0..ChatMaxTick /\ b.tokens \in 0..capacity
      /\ chat_tick \in Nat /\ d \in Nat /\ b.id \in Chatters \union {NoAccount}
  BY ChatNumbers DEF Bucket
<1>2. added \in Nat /\ d % I \in 0..(I - 1) /\ d = I * added + (d % I)
  <2> HIDE DEF I, d
  <2> QED BY <1>1, RoundAndSlot
<1>3. added * I <= d /\ added * I \in Nat /\ (added = 0 => d < I) /\ added * I = I * added
  <2> DEFINE m == I * added
  <2>1. m \in Nat /\ added * I = m /\ (added = 0 => m = 0)
    <3>1. I \in Nat /\ added \in Nat
      BY <1>1, <1>2
    <3> HIDE DEF I, added
    <3>2. I * added \in Nat /\ added * I = I * added
      BY <3>1
    <3>3. I * 0 = 0
      BY <3>1
    <3> QED BY <3>2, <3>3
  <2>2. d = m + (d % I)
    BY <1>2
  <2> HIDE DEF m, added
  <2> QED BY <2>1, <2>2, <1>1, <1>2
<1>4. CASE chat_tick > b.last_replenish_tick /\ added > 0
  <2> DEFINE sum == b.tokens + added  more == Min({sum, capacity})
             last == b.last_replenish_tick + added * I
  <2>1. more = IF sum <= capacity THEN sum ELSE capacity
    <3>1. sum \in Nat
      <4> HIDE DEF added
      <4>1. b.tokens \in Nat
        BY <1>1
      <4> QED BY <4>1, <1>2
    <3> HIDE DEF sum
    <3> QED BY <3>1, <1>1, MinOfTwo
  <2>2. more \in 0..capacity /\ more > 0 /\ more <= b.tokens + added
    <3> HIDE DEF more, added
    <3> QED BY <2>1, <1>1, <1>2, <1>4
  <2>3. last \in 0..ChatMaxTick /\ last <= chat_tick
    <3> DEFINE m == added * I
    <3> HIDE DEF m
    <3>1. m \in Nat /\ m <= d /\ last = b.last_replenish_tick + m
      BY <1>3 DEF m
    <3> HIDE DEF last
    <3> QED BY <3>1, <1>1
  <2>4. r = [b EXCEPT !.tokens = more, !.last_replenish_tick = last]
    BY <1>4 DEF replenish
  <2> HIDE DEF more, last, r, added
  <2>5. r.tokens = more /\ r.last_replenish_tick = last /\ r.id = b.id
    BY <2>4 DEF Bucket
  <2>6. r \in Bucket
    BY <2>2, <2>3, <2>4, <1>1 DEF Bucket
  <2>7. r.last_replenish_tick = b.last_replenish_tick + added * I
    BY <2>5 DEF last
  <2>8. r.tokens # 0
    BY <2>2, <2>5, <1>1
  <2> QED BY <2>2, <2>3, <2>5, <2>6, <2>7, <2>8, <1>2 DEF r
<1>5. CASE ~ (chat_tick > b.last_replenish_tick /\ added > 0)
  <2>1. r = b
    BY <1>5 DEF replenish
  <2>2. added = 0
    <3>1. CASE d = 0
      <4>1. added <= I * added
        <5>1. I \in Nat \ {0} /\ added \in Nat
          BY <1>1, <1>2
        <5> HIDE DEF I, added
        <5>2. I * added = added + (I - 1) * added
          BY <5>1
        <5>3. (I - 1) * added >= 0 /\ (I - 1) * added \in Int
          BY <5>1
        <5> QED BY <5>1, <5>2, <5>3
      <4>2. I * added = 0
        BY <3>1, <1>3
      <4> HIDE DEF added
      <4> QED BY <4>1, <4>2, <1>2
    <3>2. CASE d # 0
      <4>1. chat_tick > b.last_replenish_tick
        BY <3>2, <1>1
      <4> HIDE DEF added
      <4> QED BY <4>1, <1>2, <1>5
    <3> QED BY <3>1, <3>2
  <2>3. d < I
    BY <2>2, <1>3
  <2>4. b.last_replenish_tick = b.last_replenish_tick + 0 * I /\ b.tokens <= b.tokens + 0
    BY <1>1
  <2> QED BY <2>1, <2>3, <2>4
<1> QED BY <1>4, <1>5

\* What a check starts from: the account's own bucket, or a full one in an empty
\* slot, and either way one that accounts for what was let through.
LEMMA BucketMet ==
    ASSUME ChatInv, ChatRoom, NEW a \in Chatters
    PROVE  LET s == slot_idx(a)
               old == IF target_slot(a) # {} THEN buckets[s]
                      ELSE [id |-> a, tokens |-> capacity, last_replenish_tick |-> chat_tick]
               start == IF first[a] = NeverTick THEN chat_tick ELSE first[a]
           IN  /\ s \in BucketSlots
               /\ \E n \in 0..(Probes - 1) : Probe(a, n) = s
               /\ \A t \in BucketSlots : t # s => buckets[t].id # a
               /\ buckets[s].id \in {a, NoAccount}
               /\ old \in Bucket /\ old.id = a /\ old.last_replenish_tick <= chat_tick
               /\ start <= old.last_replenish_tick /\ start \in 0..ChatMaxTick
               /\ \E k \in Nat :
                      /\ old.last_replenish_tick = start + k * replenish_interval_ticks
                      /\ accepted[a] + old.tokens <= capacity + k
               /\ old.tokens = 0 => old.last_replenish_tick <= latest[a] /\ latest[a] <= chat_tick
<1>1. /\ ChatMaxTick \in Nat /\ capacity \in Nat \ {0} /\ replenish_interval_ticks \in Nat \ {0}
      /\ Probes \in Nat \ {0} /\ a # NoAccount
  BY ChatNumbers
<1>2. /\ chat_tick \in 0..ChatMaxTick /\ buckets \in [BucketSlots -> Bucket]
      /\ first[a] \in 0..NeverTick /\ accepted[a] \in Nat
  BY DEF ChatInv, ChatTypeOK, Bucket
<1>3. \A n \in 0..(Probes - 1) : Probe(a, n) \in BucketSlots
  BY <1>1, ProbesAreSlots
<1>4. CASE target_slot(a) # {}
  <2> DEFINE S == target_slot(a)  s == slot_idx(a)
  <2>1. S \subseteq Nat /\ S # {} /\ \A n \in S : n \in 0..(Probes - 1) /\ buckets[Probe(a, n)].id = a
    BY <1>1, <1>4 DEF target_slot
  <2> HIDE DEF S
  <2>2. Min(S) \in S
    BY <2>1, MinOf
  <2>3. s = Probe(a, Min(S))
    BY <1>4 DEF slot_idx, S
  <2> HIDE DEF s
  <2>4. s \in BucketSlots /\ buckets[s].id = a /\ \E n \in 0..(Probes - 1) : Probe(a, n) = s
    BY <2>1, <2>2, <2>3, <1>3
  <2>5. \A t \in BucketSlots : t # s => buckets[t].id # a
    BY <2>4, <1>1 DEF ChatInv
  <2>6. first[a] # NeverTick /\ BucketOf(buckets[s], a) /\ buckets[s] \in Bucket
    BY <2>4, <1>1, <1>2 DEF ChatInv
  <2>7. first[a] \in 0..ChatMaxTick
    BY <2>6, <1>1, <1>2 DEF NeverTick
  <2> QED BY <2>4, <2>5, <2>6, <2>7, <1>4 DEF BucketOf, s
<1>5. CASE target_slot(a) = {}
  <2> DEFINE S == empty_slot(a)  s == slot_idx(a)
             fresh == [id |-> a, tokens |-> capacity, last_replenish_tick |-> chat_tick]
  <2>1. S \subseteq Nat /\ S # {}
        /\ \A n \in S : n \in 0..(Probes - 1) /\ buckets[Probe(a, n)].id = NoAccount
    BY <1>1, <1>5 DEF empty_slot, ChatRoom
  <2> HIDE DEF S
  <2>2. Min(S) \in S
    BY <2>1, MinOf
  <2>3. s = Probe(a, Min(S))
    BY <1>5, <2>1 DEF slot_idx, S
  <2> HIDE DEF s
  <2>4. s \in BucketSlots /\ buckets[s].id = NoAccount /\ \E n \in 0..(Probes - 1) : Probe(a, n) = s
    BY <2>1, <2>2, <2>3, <1>3
  <2>5. \A t \in BucketSlots : buckets[t].id # a
    <3> SUFFICES ASSUME NEW t \in BucketSlots, buckets[t].id = a PROVE FALSE
      OBVIOUS
    <3>1. PICK n \in 0..(Probes - 1) : Probe(a, n) = t
      BY <1>1 DEF ChatInv
    <3> QED BY <3>1, <1>5 DEF target_slot
  <2>6. first[a] = NeverTick /\ accepted[a] = 0
    BY <2>5 DEF ChatInv
  <2>7. fresh \in Bucket /\ fresh.tokens = capacity /\ fresh.last_replenish_tick = chat_tick
    BY <1>1, <1>2 DEF Bucket
  <2> HIDE DEF fresh
  <2>8. chat_tick = chat_tick + 0 * replenish_interval_ticks /\ 0 + capacity <= capacity + 0
    BY <1>1, <1>2
  <2>9. fresh.id = a
    BY DEF fresh
  <2> QED BY <2>4, <2>5, <2>6, <2>7, <2>8, <2>9, <1>1, <1>2, <1>5 DEF s, fresh
<1> QED BY <1>4, <1>5

\* A check of the limiter (chat.rs:101-168).
LEMMA CheckStep ==
    ASSUME ChatInv, ChatRoom, NEW a \in Chatters, check_and_consume(a)
    PROVE  ChatInv'
<1> DEFINE s == slot_idx(a)
           old == IF target_slot(a) # {} THEN buckets[s]
                  ELSE [id |-> a, tokens |-> capacity, last_replenish_tick |-> chat_tick]
           start == IF first[a] = NeverTick THEN chat_tick ELSE first[a]
           b == replenish(old)
           c == IF b.tokens = 0 THEN b ELSE [b EXCEPT !.tokens = @ - 1]
<1>1. /\ ChatMaxTick \in Nat /\ capacity \in Nat \ {0} /\ replenish_interval_ticks \in Nat \ {0}
      /\ a # NoAccount
  BY ChatNumbers
<1>2. /\ chat_tick \in 0..ChatMaxTick /\ buckets \in [BucketSlots -> Bucket]
      /\ first \in [Chatters -> 0..NeverTick] /\ accepted \in [Chatters -> Nat]
      /\ latest \in [Chatters -> 0..NeverTick] /\ refused \in Chatters \union {NoAccount}
  BY DEF ChatInv, ChatTypeOK, Bucket
<1>3. /\ s \in BucketSlots /\ \E n \in 0..(Probes - 1) : Probe(a, n) = s
      /\ \A t \in BucketSlots : t # s => buckets[t].id # a
      /\ buckets[s].id \in {a, NoAccount}
      /\ old \in Bucket /\ old.id = a /\ old.last_replenish_tick <= chat_tick
      /\ start <= old.last_replenish_tick /\ start \in 0..ChatMaxTick
      /\ \E k \in Nat : /\ old.last_replenish_tick = start + k * replenish_interval_ticks
                        /\ accepted[a] + old.tokens <= capacity + k
      /\ old.tokens = 0 => old.last_replenish_tick <= latest[a] /\ latest[a] <= chat_tick
  BY BucketMet
<1>4. /\ first' = [first EXCEPT ![a] = start] /\ chat_tick' = chat_tick
      /\ buckets' = [buckets EXCEPT ![s] = c]
      /\ b.tokens = 0 => /\ refused' = a /\ accepted' = accepted /\ latest' = latest
      /\ b.tokens # 0 => /\ accepted' = [accepted EXCEPT ![a] = @ + 1]
                         /\ latest' = [latest EXCEPT ![a] = chat_tick] /\ refused' = NoAccount
  BY DEF check_and_consume
<1> HIDE DEF s, old, start
<1>5. /\ b \in Bucket /\ b.id = old.id /\ b.last_replenish_tick <= chat_tick
      /\ \E k \in Nat : /\ b.last_replenish_tick
                               = old.last_replenish_tick + k * replenish_interval_ticks
                        /\ b.tokens <= old.tokens + k
      /\ b.tokens = 0 => b = old /\ chat_tick - old.last_replenish_tick < replenish_interval_ticks
  BY <1>2, <1>3, Refilled
<1> HIDE DEF b
<1>6. /\ b.tokens \in 0..capacity /\ b.last_replenish_tick \in 0..ChatMaxTick /\ b.id = a
      /\ old.tokens \in 0..capacity /\ old.last_replenish_tick \in 0..ChatMaxTick
  BY <1>3, <1>5 DEF Bucket
<1>7. c \in Bucket /\ c.id = a /\ c.last_replenish_tick = b.last_replenish_tick
      /\ c.tokens = (IF b.tokens = 0 THEN 0 ELSE b.tokens - 1)
  <2>1. CASE b.tokens = 0
    BY <2>1, <1>5, <1>6
  <2>2. CASE b.tokens # 0
    <3>1. b.tokens - 1 \in 0..capacity
      BY <2>2, <1>1, <1>6
    <3>2. c = [b EXCEPT !.tokens = b.tokens - 1]
      BY <2>2
    <3> QED BY <3>1, <3>2, <2>2, <1>5, <1>6 DEF Bucket
  <2> QED BY <2>1, <2>2
<1> HIDE DEF c
<1>8. start \in 0..NeverTick /\ start # NeverTick /\ chat_tick \in 0..NeverTick /\ chat_tick # NeverTick
  BY <1>1, <1>2, <1>3 DEF NeverTick
<1>9. /\ first'[a] = start /\ \A d \in Chatters : d # a => first'[d] = first[d]
      /\ buckets'[s] = c /\ \A t \in BucketSlots : t # s => buckets'[t] = buckets[t]
  BY <1>2, <1>3, <1>4
<1>10. \A d \in Chatters : d # a => accepted'[d] = accepted[d] /\ latest'[d] = latest[d]
  BY <1>2, <1>4
<1>11. /\ accepted'[a] = (IF b.tokens = 0 THEN accepted[a] ELSE accepted[a] + 1)
       /\ latest'[a] = (IF b.tokens = 0 THEN latest[a] ELSE chat_tick)
  BY <1>2, <1>4
<1>12. ChatTypeOK'
  <2>1. first' \in [Chatters -> 0..NeverTick]
    BY <1>2, <1>4, <1>8
  <2>2. buckets' \in [BucketSlots -> Bucket]
    BY <1>2, <1>4, <1>7
  <2>3. accepted' \in [Chatters -> Nat]
    BY <1>2, <1>4
  <2>4. latest' \in [Chatters -> 0..NeverTick] /\ refused' \in Chatters \union {NoAccount}
    BY <1>2, <1>4, <1>8
  <2> QED BY <2>1, <2>2, <2>3, <2>4, <1>2, <1>4 DEF ChatTypeOK, Bucket, NeverTick
<1>13. ASSUME NEW x, x = c PROVE BucketOf(x, a)'
  <2>1. PICK j \in Nat : /\ old.last_replenish_tick = start + j * replenish_interval_ticks
                         /\ accepted[a] + old.tokens <= capacity + j
    BY <1>3
  <2>2. PICK k \in Nat : /\ b.last_replenish_tick
                                = old.last_replenish_tick + k * replenish_interval_ticks
                         /\ b.tokens <= old.tokens + k
    BY <1>5
  <2>3. b.last_replenish_tick = start + (j + k) * replenish_interval_ticks /\ j + k \in Nat
    <3>1. (j + k) * replenish_interval_ticks
              = j * replenish_interval_ticks + k * replenish_interval_ticks
      BY <1>1
    <3>2. j * replenish_interval_ticks \in Nat /\ k * replenish_interval_ticks \in Nat
      BY <1>1
    <3> QED BY <3>1, <3>2, <2>1, <2>2, <1>3
  <2>4. accepted[a] + b.tokens <= capacity + (j + k)
    BY <2>1, <2>2, <1>1, <1>2, <1>6
  <2>5. accepted'[a] + c.tokens <= capacity + (j + k)
    BY <2>4, <1>2, <1>6, <1>7, <1>11
  <2>6. start <= b.last_replenish_tick
    <3>1. k * replenish_interval_ticks \in Nat
      BY <1>1
    <3> QED BY <3>1, <2>2, <1>3, <1>6
  <2>7. c.tokens = 0 => c.last_replenish_tick <= latest'[a] /\ latest'[a] <= chat_tick'
    BY <1>2, <1>3, <1>4, <1>5, <1>7, <1>11
  <2>8. c.last_replenish_tick <= chat_tick' /\ first'[a] <= c.last_replenish_tick
    BY <2>6, <1>4, <1>5, <1>7, <1>9
  <2>9. c.last_replenish_tick = first'[a] + (j + k) * replenish_interval_ticks
    BY <2>3, <1>7, <1>9
  <2> QED BY <2>3, <2>5, <2>7, <2>8, <2>9, <1>13 DEF BucketOf
<1>14. ASSUME NEW t \in BucketSlots, buckets'[t].id # NoAccount
       PROVE  /\ first'[buckets'[t].id] # NeverTick
              /\ \E n \in 0..(Probes - 1) : Probe(buckets'[t].id, n) = t
              /\ BucketOf(buckets[t], buckets[t].id)' 
  <2>1. CASE t = s
    <3>1. PICK x : x = c
      OBVIOUS
    <3>2. buckets'[t] = x /\ x.id = a
      BY <3>1, <2>1, <1>7, <1>9
    <3>3. BucketOf(x, a)'
      BY <3>1, <1>13
    <3>4. BucketOf(buckets[t], buckets[t].id)'
      BY <3>2, <3>3 DEF BucketOf
    <3> QED BY <3>2, <3>4, <2>1, <1>3, <1>8, <1>9
  <2>2. CASE t # s
    <3>1. PICK x : x = buckets[t]
      OBVIOUS
    <3>2. PICK d : d = x.id
      OBVIOUS
    <3>3. buckets'[t] = x /\ d # a /\ d \in Chatters
      BY <3>1, <3>2, <2>2, <1>2, <1>3, <1>9, <1>14 DEF Bucket
    <3>4. first[d] # NeverTick /\ (\E n \in 0..(Probes - 1) : Probe(d, n) = t) /\ BucketOf(x, d)
      BY <3>1, <3>2, <3>3, <1>14 DEF ChatInv
    <3>5. first'[d] = first[d] /\ accepted'[d] = accepted[d] /\ latest'[d] = latest[d]
      BY <3>3, <1>9, <1>10
    <3>6. BucketOf(x, d)'
      BY <3>4, <3>5, <1>4 DEF BucketOf
    <3>7. BucketOf(buckets[t], buckets[t].id)'
      BY <3>2, <3>3, <3>6 DEF BucketOf
    <3> QED BY <3>2, <3>3, <3>4, <3>5, <3>7
  <2> QED BY <2>1, <2>2
<1>15. \A t, u \in BucketSlots :
           buckets'[t].id = buckets'[u].id /\ buckets'[t].id # NoAccount => t = u
  BY <1>1, <1>3, <1>7, <1>9 DEF ChatInv
<1>16. ASSUME NEW d \in Chatters PROVE first'[d] = NeverTick => accepted'[d] = 0
  BY <1>8, <1>9, <1>10 DEF ChatInv
<1>17. ASSUME NEW d \in Chatters, first'[d] # NeverTick PROVE \E t \in BucketSlots : buckets'[t].id = d
  <2>1. CASE d = a
    BY <2>1, <1>3, <1>7, <1>9
  <2>2. CASE d # a
    <3>1. PICK t \in BucketSlots : buckets[t].id = d
      BY <2>2, <1>9, <1>17 DEF ChatInv
    <3>2. t # s
      <4>1. d # NoAccount
        BY ChatNumbers
      <4> QED BY <4>1, <3>1, <2>2, <1>3
    <3> QED BY <3>1, <3>2, <1>9
  <2> QED BY <2>1, <2>2
<1>18. RefusedOnlyWhenRecent'
  <2>1. CASE b.tokens = 0
    <3>1. refused' = a /\ latest'[a] = latest[a] /\ chat_tick' = chat_tick
      BY <2>1, <1>4, <1>11
    <3>2. old.last_replenish_tick <= latest[a] /\ latest[a] <= chat_tick
          /\ chat_tick - old.last_replenish_tick < replenish_interval_ticks
      BY <2>1, <1>3, <1>5
    <3>3. latest[a] # NeverTick /\ chat_tick - latest[a] < replenish_interval_ticks
      BY <3>2, <1>1, <1>2, <1>6 DEF NeverTick
    <3> QED BY <3>1, <3>3 DEF RefusedOnlyWhenRecent, NeverTick
  <2>2. CASE b.tokens # 0
    BY <2>2, <1>4 DEF RefusedOnlyWhenRecent
  <2> QED BY <2>1, <2>2
<1> QED BY <1>12, <1>14, <1>15, <1>16, <1>17, <1>18 DEF ChatInv, NeverTick

\* Nobody has sent anything yet, and every slot is empty.
LEMMA ChatStart == ChatInit => ChatInv
<1> SUFFICES ASSUME ChatInit PROVE ChatInv
  OBVIOUS
<1>1. /\ ChatMaxTick \in Nat /\ capacity \in Nat \ {0} /\ NeverTick \in 0..NeverTick
      /\ 0 \in 0..ChatMaxTick /\ 0 \in 0..capacity
  BY ChatNumbers DEF NeverTick
<1>2. EmptySlot \in [id : Chatters \union {NoAccount}, tokens : 0..capacity,
                     last_replenish_tick : 0..ChatMaxTick] /\ EmptySlot.id = NoAccount
  BY <1>1 DEF EmptySlot
<1>3. \A t \in BucketSlots : buckets[t].id = NoAccount
  BY <1>2 DEF ChatInit
<1>4. ChatTypeOK
  BY <1>1, <1>2 DEF ChatInit, ChatTypeOK
<1>5. \A a \in Chatters : first[a] = NeverTick /\ accepted[a] = 0
  BY DEF ChatInit
<1>6. RefusedOnlyWhenRecent
  BY DEF ChatInit, RefusedOnlyWhenRecent
<1> QED BY <1>3, <1>4, <1>5, <1>6 DEF ChatInv

\* The tick ages the buckets only.
LEMMA NextTickStep ==
    ASSUME ChatInv, NextTick
    PROVE  ChatInv'
<1>1. /\ chat_tick' = chat_tick + 1 /\ chat_tick' \in 0..ChatMaxTick /\ chat_tick \in 0..ChatMaxTick
      /\ buckets' = buckets /\ first' = first /\ accepted' = accepted /\ latest' = latest
      /\ refused' = NoAccount
  BY ChatNumbers DEF NextTick, ChatInv, ChatTypeOK
<1>2. ChatTypeOK'
  BY <1>1 DEF ChatInv, ChatTypeOK, NeverTick
<1>3. RefusedOnlyWhenRecent'
  BY <1>1 DEF RefusedOnlyWhenRecent
<1>4. ASSUME NEW t \in BucketSlots, buckets[t].id # NoAccount
      PROVE  BucketOf(buckets[t], buckets[t].id)'
  <2>1. PICK x : x = buckets[t]
    OBVIOUS
  <2>2. PICK d : d = x.id
    OBVIOUS
  <2>3. BucketOf(x, d) /\ d \in Chatters /\ x \in Bucket
    BY <2>1, <2>2, <1>4 DEF ChatInv, ChatTypeOK, Bucket
  <2>4. x.last_replenish_tick \in Nat /\ latest[d] \in Nat
    BY <2>3, ChatNumbers DEF Bucket, ChatInv, ChatTypeOK, NeverTick
  <2>5. x.last_replenish_tick <= chat_tick' /\ (latest[d] <= chat_tick => latest[d] <= chat_tick')
    BY <2>3, <2>4, <1>1, ChatNumbers DEF BucketOf
  <2>6. BucketOf(x, d)'
    BY <2>3, <2>5, <1>1 DEF BucketOf
  <2> QED BY <2>1, <2>2, <2>6, <1>1 DEF BucketOf
<1> QED BY <1>1, <1>2, <1>3, <1>4 DEF ChatInv, NeverTick

\* Every step of the chat, while every account finds a slot.
LEMMA ChatStep ==
    ASSUME ChatInv, ChatRoom, [ChatNext]_chatVars
    PROVE  ChatInv'
<1>1. CASE UNCHANGED chatVars
  BY <1>1 DEF chatVars, ChatInv, ChatTypeOK, BucketOf, RefusedOnlyWhenRecent, NeverTick
<1> QED BY <1>1, NextTickStep, CheckStep DEF ChatNext

\* An account's bucket bounds what was let through.
LEMMA ChatInvSuffices == ChatInv => ChatRateKept
<1> SUFFICES ASSUME ChatInv, NEW a \in Chatters, accepted[a] > 0
             PROVE  accepted[a] <= capacity + (chat_tick - first[a]) \div replenish_interval_ticks
  BY DEF ChatInv, ChatRateKept, AcceptedWithinRate
<1> DEFINE I == replenish_interval_ticks  d == chat_tick - first[a]  q == d \div I
<1>1. I \in Nat \ {0} /\ capacity \in Nat \ {0} /\ ChatMaxTick \in Nat /\ a # NoAccount
  BY ChatNumbers
<1>2. /\ first[a] \in Nat /\ accepted[a] \in Nat /\ chat_tick \in Nat
      /\ \A s \in BucketSlots : buckets[s] \in Bucket
  BY <1>1 DEF ChatInv, ChatTypeOK, Bucket, NeverTick
<1>3. PICK s \in BucketSlots : buckets[s].id = a
  BY <1>2 DEF ChatInv
<1>4. BucketOf(buckets[s], a)
  BY <1>1, <1>3 DEF ChatInv
<1>5. buckets[s].tokens \in Nat /\ buckets[s].last_replenish_tick \in Nat
      /\ buckets[s].last_replenish_tick <= chat_tick
  BY <1>1, <1>2, <1>3, <1>4 DEF Bucket, BucketOf
<1>6. PICK k \in Nat : /\ buckets[s].last_replenish_tick = first[a] + k * I
                       /\ accepted[a] + buckets[s].tokens <= capacity + k
  BY <1>4 DEF BucketOf
<1>7. d \in Nat /\ k * I <= d
  <2>1. k * I \in Nat
    BY <1>1
  <2> QED BY <2>1, <1>2, <1>5, <1>6
<1>8. q \in Nat /\ d % I \in 0..(I - 1) /\ d = I * q + (d % I)
  <2> HIDE DEF I, d
  <2> QED BY <1>1, <1>7, RoundAndSlot
<1>9. k <= q
  <2> HIDE DEF I, d, q
  <2> SUFFICES ASSUME k >= q + 1 PROVE FALSE
    BY <1>8
  <2>1. PICK e \in Nat : k = q + 1 + e
    <3>1. k - q - 1 \in Nat /\ k = q + 1 + (k - q - 1)
      BY <1>8
    <3> QED BY <3>1
  <2>2. k * I = I * q + I + e * I
    <3>1. (q + 1 + e) * I = I * q + I + e * I
      BY <1>1, <1>8
    <3> QED BY <3>1, <2>1
  <2>3. e * I \in Nat /\ I * q \in Nat
    BY <1>1, <1>8
  <2> QED BY <2>2, <2>3, <1>1, <1>7, <1>8
<1> HIDE DEF q, d, I
<1>10. accepted[a] <= capacity + q
  BY <1>1, <1>2, <1>5, <1>6, <1>8, <1>9
<1> QED BY <1>10 DEF q, d, I

\* No account gets more chat messages through than its burst and one per
\* interval, and none is refused that kept to it, as long as each finds its
\* bucket or an empty slot where it probes (chat.rs:104-165).
THEOREM ChatKept == ChatSpec /\ []ChatRoom => []ChatRateKept
<1>1. ChatInit => ChatInv
  BY ChatStart
<1>2. ChatInv /\ ChatRoom /\ [ChatNext]_chatVars => ChatInv'
  BY ChatStep
<1>3. ChatInv => ChatRateKept
  BY ChatInvSuffices
<1> QED BY <1>1, <1>2, <1>3, PTL DEF ChatSpec

-------------------------------------------------------------------------------
\* On a server with whatever else it runs: parties and their index agree, and
\* the chat limiter keeps its rate as long as each account finds its bucket or
\* an empty slot where it probes (party.rs:66-350, chat.rs:104-165).
THEOREM GroupsKept == PlaySpec /\ []ChatRoom => []GroupsSound
<1>1. PlayInit => PartyInv /\ ChatInv
  BY PartyStart, ChatStart DEF PlayInit
<1>2. PartyInv /\ ChatInv /\ ChatRoom /\ [PlayNext]_playVars => PartyInv' /\ ChatInv'
  <2> SUFFICES ASSUME PartyInv, ChatInv, ChatRoom, [PlayNext]_playVars PROVE PartyInv' /\ ChatInv'
    OBVIOUS
  <2>1. [PartyNext]_partyVars /\ [ChatNext]_chatVars
    <3>1. CASE GroupNext
      BY <3>1 DEF GroupNext
    <3>2. CASE UNCHANGED groupVars
      BY <3>2 DEF groupVars
    <3> QED BY <3>1, <3>2 DEF PlayNext, playVars
  <2> QED BY <2>1, PartyStep, ChatStep
<1>3. PartyInv /\ ChatInv => GroupsSound
  BY PartyInvSuffices, ChatInvSuffices DEF GroupsSound
<1> QED BY <1>1, <1>2, <1>3, PTL DEF PlaySpec

-------------------------------------------------------------------------------
(* --------------------------------- guilds --------------------------------- *)

\* An alliance of guilds, each in it once, its leader among them.
GoodAlliance(al) ==
    /\ al \in [leader_guild_id : GuildIds, member_guild_ids : Seq(GuildIds)]
    /\ IsInjective(al.member_guild_ids)
    /\ contains_guild(al, al.leader_guild_id)

GuildInv ==
    /\ IsFiniteSet(DOMAIN guild) /\ Cardinality(DOMAIN guild) <= MAX_GUILD_MEMBERS
    /\ GuildMaster \in DOMAIN guild /\ guild[GuildMaster] = 7
    /\ \A a \in DOMAIN guild \ {GuildMaster} : guild[a] \in 0..6
    /\ \A id \in DOMAIN alliances : GoodAlliance(alliances[id])

Standing(score) == score \in Int /\ -10000 <= score /\ score <= 10000

StandingsInv == \A k \in DOMAIN standings : Standing(standings[k])

\* The master founds the guild; there are no alliances.
LEMMA GuildStart ==
    ASSUME GuildInit
    PROVE  GuildInv
<1>1. DOMAIN guild = {GuildMaster} /\ guild[GuildMaster] = 7 /\ DOMAIN alliances = {}
  BY DEF GuildInit
<1>2. IsFiniteSet({GuildMaster}) /\ Cardinality({GuildMaster}) = 1
  BY FS_Singleton
<1> QED BY <1>1, <1>2, SocietyAssumption DEF GuildInv

\* Members come, go and are promoted; the alliances stay.
LEMMA MembersStep ==
    ASSUME GuildInv, NEW a, NEW b, NEW rank \in Int,
           guild_add_member(a) \/ guild_remove_member(a) \/ (set_rank(a, b, rank) /\ rank >= 0)
    PROVE  GuildInv'
<1> DEFINE G == DOMAIN guild
<1>1. /\ IsFiniteSet(G) /\ Cardinality(G) <= MAX_GUILD_MEMBERS /\ Cardinality(G) \in Nat
      /\ MAX_GUILD_MEMBERS \in Nat
      /\ GuildMaster \in G /\ guild[GuildMaster] = 7
      /\ \A c \in G \ {GuildMaster} : guild[c] \in 0..6
  BY SocietyAssumption, FS_CardinalityType DEF GuildInv
<1>2. alliances' = alliances
  BY DEF guild_add_member, guild_remove_member, set_rank
<1>3. CASE guild_add_member(a)
  <2>1. G' = G \union {a} /\ a \notin G /\ Cardinality(G) < MAX_GUILD_MEMBERS
        /\ \A c \in G : guild'[c] = guild[c]
    BY <1>3 DEF guild_add_member, With
  <2>2. guild'[a] = 0
    BY <1>3 DEF guild_add_member, With
  <2> HIDE DEF G
  <2>3. IsFiniteSet(G \union {a}) /\ Cardinality(G \union {a}) = Cardinality(G) + 1
    BY <1>1, <2>1, FS_AddElement
  <2> QED BY <1>1, <1>2, <2>1, <2>2, <2>3 DEF GuildInv, G
<1>4. CASE guild_remove_member(a)
  <2>1. G' = G \ {a} /\ a \in G /\ a # GuildMaster
        /\ \A c \in G \ {a} : guild'[c] = guild[c]
    BY <1>4 DEF guild_remove_member, Without
  <2> HIDE DEF G
  <2>3. IsFiniteSet(G \ {a}) /\ Cardinality(G \ {a}) = Cardinality(G) - 1
    BY <1>1, <2>1, FS_RemoveElement
  <2> QED BY <1>1, <1>2, <2>1, <2>3 DEF GuildInv, G
<1>5. CASE set_rank(a, b, rank) /\ rank >= 0
  <2>1. G' = G /\ a \in G /\ b \in G /\ b # GuildMaster /\ guild[a] > rank
        /\ guild'[b] = rank /\ \A c \in G \ {b} : guild'[c] = guild[c]
    BY <1>5 DEF set_rank
  <2>2. rank \in 0..6
    BY <1>1, <1>5, <2>1
  <2> QED BY <1>1, <1>2, <2>1, <2>2 DEF GuildInv
<1> QED BY <1>3, <1>4, <1>5

\* Alliances are founded, joined and left; the members stay.
LEMMA AlliancesStep ==
    ASSUME GuildInv, NEW id, NEW g \in GuildIds,
           create_alliance(id, g) \/ add_guild(id, g) \/ remove_guild(id, g)
    PROVE  GuildInv'
<1>1. guild' = guild
  BY DEF create_alliance, add_guild, remove_guild
<1>2. ASSUME NEW h, h \in DOMAIN alliances, alliances'[h] = alliances[h]
      PROVE  GoodAlliance(alliances'[h])
  BY <1>2 DEF GuildInv
<1>3. CASE create_alliance(id, g)
  <2> DEFINE al == [leader_guild_id |-> g, member_guild_ids |-> <<g>>]
  <2>1. GoodAlliance(al)
    BY DEF GoodAlliance, contains_guild, ToSet, IsInjective
  <2>2. DOMAIN alliances' = DOMAIN alliances \union {id} /\ alliances'[id] = al
        /\ \A h \in DOMAIN alliances \ {id} : alliances'[h] = alliances[h]
    BY <1>3 DEF create_alliance, With
  <2> HIDE DEF al
  <2> QED BY <1>1, <1>2, <2>1, <2>2 DEF GuildInv
<1>4. CASE add_guild(id, g)
  <2> DEFINE al == alliances[id]  s == al.member_guild_ids  t == Append(s, g)
             new == [al EXCEPT !.member_guild_ids = t]
  <2>1. id \in DOMAIN alliances /\ ~ contains_guild(al, g) /\ GoodAlliance(al)
    BY <1>4 DEF add_guild, GuildInv
  <2>2. t \in Seq(GuildIds) /\ ToSet(t) = ToSet(s) \union {g} /\ IsInjective(t)
    BY <2>1, Appended DEF GoodAlliance, contains_guild
  <2>3. alliances' = [alliances EXCEPT ![id] = new]
    BY <1>4 DEF add_guild
  <2> HIDE DEF t
  <2>4. new.leader_guild_id = al.leader_guild_id /\ new.member_guild_ids = t
        /\ new \in [leader_guild_id : GuildIds, member_guild_ids : Seq(GuildIds)]
    BY <2>1, <2>2 DEF GoodAlliance
  <2> HIDE DEF new
  <2>6. GoodAlliance(new)
    BY <2>1, <2>2, <2>4 DEF GoodAlliance, contains_guild
  <2>7. DOMAIN alliances' = DOMAIN alliances /\ alliances'[id] = new
        /\ \A h \in DOMAIN alliances \ {id} : alliances'[h] = alliances[h]
    BY <2>1, <2>3
  <2> QED BY <1>1, <1>2, <2>6, <2>7 DEF GuildInv
<1>5. CASE remove_guild(id, g)
  <2> DEFINE al == alliances[id]  s == al.member_guild_ids
             i == CHOOSE j \in DOMAIN s : s[j] = g  t == RemoveAt(s, i)
             new == [al EXCEPT !.member_guild_ids = t]
  <2>1. id \in DOMAIN alliances /\ contains_guild(al, g) /\ g # al.leader_guild_id /\ GoodAlliance(al)
    BY <1>5 DEF remove_guild, GuildInv
  <2>2. i \in DOMAIN s /\ s[i] = g
    <3>1. \E j \in DOMAIN s : s[j] = g
      BY <2>1 DEF contains_guild, ToSet
    <3> QED BY <3>1
  <2>3. s \in Seq(GuildIds) /\ IsInjective(s)
    BY <2>1 DEF GoodAlliance
  <2>4. t \in Seq(GuildIds) /\ ToSet(t) = ToSet(s) \ {g} /\ IsInjective(t)
    <3> HIDE DEF i, s
    <3> QED BY <2>2, <2>3, TakenOut, TakenOutOnce
  <2>5. alliances' = [alliances EXCEPT ![id] = new]
    BY <1>5 DEF remove_guild
  <2> HIDE DEF t
  <2>6. new.leader_guild_id = al.leader_guild_id /\ new.member_guild_ids = t
        /\ new \in [leader_guild_id : GuildIds, member_guild_ids : Seq(GuildIds)]
    BY <2>1, <2>4 DEF GoodAlliance
  <2> HIDE DEF new
  <2>7. GoodAlliance(new)
    BY <2>1, <2>4, <2>6 DEF GoodAlliance, contains_guild
  <2>8. DOMAIN alliances' = DOMAIN alliances /\ alliances'[id] = new
        /\ \A h \in DOMAIN alliances \ {id} : alliances'[h] = alliances[h]
    BY <2>1, <2>5
  <2> QED BY <1>1, <1>2, <2>7, <2>8 DEF GuildInv
<1> QED BY <1>3, <1>4, <1>5

\* Who has permissions, and what the diplomatic status says of a standing.
LEMMA GuildInvSuffices ==
    ASSUME GuildInv, StandingsInv
    PROVE  GuildsSound
<1>1. ASSUME NEW a \in GuildAccounts \ {GuildMaster}
      PROVE  /\ ~ guild_has_permission(a, {"EDIT_RANKS"})
             /\ a \notin DOMAIN guild => ~ guild_has_permission(a, {"VAULT_DEPOSIT"})
  <2>1. a \in DOMAIN guild => guild[a] \in 0..6
    BY DEF GuildInv
  <2>2. a \in DOMAIN guild => "EDIT_RANKS" \notin rank_permissions(guild[a])
    BY <2>1 DEF rank_permissions
  <2> QED BY <2>2 DEF guild_has_permission
<1>2. ASSUME NEW id \in DOMAIN alliances
      PROVE  /\ IsInjective(alliances[id].member_guild_ids)
             /\ contains_guild(alliances[id], alliances[id].leader_guild_id)
  BY DEF GuildInv, GoodAlliance
<1>3. ASSUME NEW g \in GuildIds, NEW h \in GuildIds, get_diplomatic_status(g, h) = "AtWar"
      PROVE  g # h /\ standings[<<g, h>>] \in -10000..-6000
  <2> DEFINE score == get_standing_score(g, h)
  <2>1. score \in Int /\ -10000 <= score /\ (score < 0 => g # h /\ score = standings[<<g, h>>])
    BY DEF get_standing_score, StandingsInv, Standing
  <2> HIDE DEF score
  <2>2. score <= -6000
    BY <2>1, <1>3 DEF get_diplomatic_status, score
  <2>3. standings[<<g, h>>] \in -10000..-6000
    <3> DEFINE x == standings[<<g, h>>]
    <3>1. x \in Int /\ -10000 <= x /\ x <= -6000
      BY <2>1, <2>2
    <3> HIDE DEF x
    <3>2. x \in -10000..-6000
      BY <3>1
    <3> QED BY <3>2 DEF x
  <2> QED BY <2>1, <2>2, <2>3
<1> QED BY <1>1, <1>2, <1>3 DEF GuildInv, GuildsSound

\* Standings are set within their limits.
LEMMA StandingsStep ==
    ASSUME StandingsInv, StandingsNext
    PROVE  StandingsInv'
<1>1. PICK g \in GuildIds, h \in GuildIds, score \in Scores : set_standing(g, h, score)
  BY DEF StandingsNext
<1>2. Standing(clamp(score))
  <2>1. score \in Int
    BY SocietyAssumption
  <2> QED BY <2>1 DEF clamp, Standing
<1>3. standings' = With(standings, <<g, h>>, clamp(score))
  BY <1>1 DEF set_standing
<1> QED BY <1>2, <1>3 DEF StandingsInv, With

(* --------------------------------- claims --------------------------------- *)

\* What a plot says of its claim is what was paid for.
ClaimsInv ==
    /\ DOMAIN plots \subseteq PlotIds /\ DOMAIN held = PlotIds /\ societyTick \in Nat
    /\ \A p \in DOMAIN plots :
           /\ plots[p] \in [owning_guild_id : GuildIds \union {0}, upkeep_expires_tick : Nat]
           /\ held[p] = [guild |-> plots[p].owning_guild_id,
                         until |-> plots[p].upkeep_expires_tick]
           /\ plots[p].owning_guild_id = 0 => plots[p].upkeep_expires_tick = 0

\* No plots are registered yet.
LEMMA ClaimsStart == PlotInit => ClaimsInv
  BY DEF PlotInit, ClaimsInv

\* One plot changes, and what was paid for it with it.
LEMMA PlotChanged ==
    ASSUME ClaimsInv, UNCHANGED societyTick, NEW p \in PlotIds, NEW g \in GuildIds \union {0},
           NEW u \in Nat, g = 0 => u = 0,
           DOMAIN plots' = DOMAIN plots \union {p}, DOMAIN held' = DOMAIN held,
           plots'[p] = [owning_guild_id |-> g, upkeep_expires_tick |-> u],
           held'[p] = [guild |-> g, until |-> u],
           \A q \in DOMAIN plots \ {p} : plots'[q] = plots[q] /\ held'[q] = held[q]
    PROVE  ClaimsInv'
<1>1. DOMAIN plots' \subseteq PlotIds /\ DOMAIN held' = PlotIds /\ societyTick' \in Nat
  BY DEF ClaimsInv
<1>2. ASSUME NEW q \in DOMAIN plots'
      PROVE  /\ plots'[q] \in [owning_guild_id : GuildIds \union {0}, upkeep_expires_tick : Nat]
             /\ held'[q] = [guild |-> plots'[q].owning_guild_id,
                            until |-> plots'[q].upkeep_expires_tick]
             /\ plots'[q].owning_guild_id = 0 => plots'[q].upkeep_expires_tick = 0
  <2>1. CASE q = p
    BY <2>1
  <2>2. CASE q # p
    BY <2>2, <1>2 DEF ClaimsInv
  <2> QED BY <2>1, <2>2
<1> QED BY <1>1, <1>2 DEF ClaimsInv

\* Claims are paid for, prolonged and given up, and time passes.
LEMMA ClaimsStep ==
    ASSUME ClaimsInv, PlotNext
    PROVE  ClaimsInv'
<1>1. GuildIds \subseteq Nat \ {0} /\ Durations \subseteq Nat
  BY SocietyAssumption
<1>2. ASSUME NEW p \in PlotIds, register_plot(p) PROVE ClaimsInv'
  <2>1. plots' = With(plots, p, NoClaim) /\ held' = [held EXCEPT ![p] = Unheld]
        /\ societyTick' = societyTick /\ DOMAIN held = PlotIds
    BY <1>2 DEF register_plot, ClaimsInv
  <2>2. DOMAIN plots' = DOMAIN plots \union {p} /\ plots'[p] = NoClaim /\ held'[p] = Unheld
        /\ DOMAIN held' = DOMAIN held
        /\ \A q \in DOMAIN plots \ {p} : plots'[q] = plots[q] /\ held'[q] = held[q]
    BY <2>1 DEF With, ClaimsInv
  <2> QED BY <2>1, <2>2, PlotChanged DEF NoClaim, Unheld
<1>3. ASSUME NEW p \in PlotIds, relinquish_claim(p) PROVE ClaimsInv'
  <2>1. DOMAIN plots' = DOMAIN plots \union {p} /\ plots'[p] = NoClaim /\ held'[p] = Unheld
        /\ DOMAIN held' = DOMAIN held /\ societyTick' = societyTick
        /\ \A q \in DOMAIN plots \ {p} : plots'[q] = plots[q] /\ held'[q] = held[q]
    BY <1>3 DEF relinquish_claim, ClaimsInv
  <2> QED BY <2>1, PlotChanged DEF NoClaim, Unheld
<1>4. ASSUME NEW p \in PlotIds, NEW g \in GuildIds, NEW d \in Durations, claim_plot(p, g, d)
      PROVE  ClaimsInv'
  <2> DEFINE u == societyTick + d
  <2>1. u \in Nat
    BY <1>1 DEF ClaimsInv
  <2>2. DOMAIN plots' = DOMAIN plots \union {p}
        /\ plots'[p] = [owning_guild_id |-> g, upkeep_expires_tick |-> u]
        /\ held'[p] = [guild |-> g, until |-> u]
        /\ DOMAIN held' = DOMAIN held /\ societyTick' = societyTick
        /\ \A q \in DOMAIN plots \ {p} : plots'[q] = plots[q] /\ held'[q] = held[q]
    BY <1>4 DEF claim_plot, ClaimsInv
  <2> HIDE DEF u
  <2> QED BY <1>1, <2>1, <2>2, PlotChanged
<1>5. ASSUME NEW p \in PlotIds, NEW g \in GuildIds, NEW d \in Durations, refresh_upkeep(p, g, d)
      PROVE  ClaimsInv'
  <2> DEFINE base == IF plots[p].upkeep_expires_tick > societyTick
                     THEN plots[p].upkeep_expires_tick ELSE societyTick
             u == base + d
  <2>1. p \in DOMAIN plots /\ plots[p].owning_guild_id = g
        /\ plots[p] \in [owning_guild_id : GuildIds \union {0}, upkeep_expires_tick : Nat]
        /\ held[p].until = plots[p].upkeep_expires_tick
    <3>1. p \in DOMAIN plots /\ plots[p].owning_guild_id = g
      BY <1>5 DEF refresh_upkeep
    <3>2. held[p] = [guild |-> plots[p].owning_guild_id,
                     until |-> plots[p].upkeep_expires_tick]
          /\ plots[p] \in [owning_guild_id : GuildIds \union {0}, upkeep_expires_tick : Nat]
      BY <3>1 DEF ClaimsInv
    <3> QED BY <3>1, <3>2
  <2>2. u \in Nat
    BY <1>1, <2>1 DEF ClaimsInv
  <2>3. plots' = [plots EXCEPT ![p].upkeep_expires_tick = u]
        /\ held' = [held EXCEPT ![p] = [guild |-> g, until |-> u]] /\ societyTick' = societyTick
    <3>1. plots' = [plots EXCEPT ![p].upkeep_expires_tick = u] /\ societyTick' = societyTick
      BY <1>5 DEF refresh_upkeep
    <3>2. held' = [held EXCEPT ![p] = [guild |-> g,
                     until |-> (IF held[p].until > societyTick THEN held[p].until ELSE societyTick) + d]]
      BY <1>5 DEF refresh_upkeep
    <3> QED BY <3>1, <3>2, <2>1
  <2> HIDE DEF u
  <2>4. DOMAIN plots' = DOMAIN plots \union {p}
        /\ plots'[p] = [owning_guild_id |-> g, upkeep_expires_tick |-> u]
        /\ \A q \in DOMAIN plots \ {p} : plots'[q] = plots[q]
    BY <2>1, <2>3
  <2>5. held'[p] = [guild |-> g, until |-> u] /\ DOMAIN held' = DOMAIN held
        /\ \A q \in DOMAIN plots \ {p} : held'[q] = held[q]
    BY <2>3 DEF ClaimsInv
  <2> QED BY <1>1, <2>2, <2>3, <2>4, <2>5, PlotChanged
<1>6. CASE societyTick' = societyTick + 1 /\ UNCHANGED <<plots, held>>
  BY <1>6 DEF ClaimsInv
<1> QED BY <1>2, <1>3, <1>4, <1>5, <1>6 DEF PlotNext

\* Building on a plot is for the guild that paid, until then for everybody.
LEMMA ClaimsInvSuffices ==
    ASSUME ClaimsInv
    PROVE  ClaimsKept
<1> SUFFICES ASSUME NEW p \in DOMAIN plots, NEW g \in GuildIds \union {0}
             PROVE  IF societyTick < held[p].until
                    THEN plot_has_permission(p, g, FALSE, {"BUILD"}) <=> g = held[p].guild
                    ELSE plot_has_permission(p, g, FALSE, {"BUILD"})
  BY DEF ClaimsKept
<1>1. /\ plots[p] \in [owning_guild_id : GuildIds \union {0}, upkeep_expires_tick : Nat]
      /\ held[p].guild = plots[p].owning_guild_id
      /\ held[p].until = plots[p].upkeep_expires_tick /\ societyTick \in Nat
      /\ plots[p].owning_guild_id = 0 => plots[p].upkeep_expires_tick = 0
  <2>1. /\ held[p] = [guild |-> plots[p].owning_guild_id,
                      until |-> plots[p].upkeep_expires_tick]
        /\ plots[p] \in [owning_guild_id : GuildIds \union {0}, upkeep_expires_tick : Nat]
        /\ plots[p].owning_guild_id = 0 => plots[p].upkeep_expires_tick = 0
        /\ societyTick \in Nat
    BY DEF ClaimsInv
  <2> QED BY <2>1
<1>2. is_claim_active(p) <=> societyTick < held[p].until
  BY <1>1 DEF is_claim_active
<1>3. {"BUILD"} \subseteq TerritoryPermissions /\ ~ ({"BUILD"} \subseteq public_permissions)
  BY DEF TerritoryPermissions, public_permissions
<1> QED BY <1>1, <1>2, <1>3 DEF plot_has_permission

(* --------------------------------- rooms ---------------------------------- *)

RoomStates == {"Allocated", "ActiveCombat", "VictoryReward", "PendingCleanup"}

Room == [id : Nat \ {0}, state : RoomStates, party_members : [1..MAX_RAIDERS -> Raiders \union {0}],
         party_count : Nat, elapsed_ticks : Nat, boss_health : Nat]

InRoom(room) == {i \in 1..MAX_RAIDERS : room.party_members[i] # 0}

\* A room's count is of the raiders inside, nobody is in it twice, and its stage
\* says whether anybody is.
GoodRoom(room) ==
    /\ room \in Room
    /\ room.party_count = Cardinality(InRoom(room))
    /\ \A i, j \in InRoom(room) : room.party_members[i] = room.party_members[j] => i = j
    /\ room.state = "Allocated" => InRoom(room) = {}
    /\ room.state \in {"ActiveCombat", "VictoryReward"} => InRoom(room) # {}
    /\ room.state = "VictoryReward" => room.boss_health = 0

Pools == [rooms : [RoomSlots -> Room \union {NoRoom}], free_slots : Seq(RoomSlots),
          active_count : Nat, next_id : Nat \ {0}]

Occupied(p) == {r \in RoomSlots : p.rooms[r] # NoRoom}

\* The free slots are the empty ones, each once; ids are given in order.
GoodPool(p) ==
    /\ p \in Pools
    /\ IsInjective(p.free_slots) /\ ToSet(p.free_slots) = RoomSlots \ Occupied(p)
    /\ p.active_count = Cardinality(Occupied(p))
    /\ \A r \in Occupied(p) : GoodRoom(p.rooms[r]) /\ p.rooms[r].id < p.next_id
    /\ \A r, s \in Occupied(p) : p.rooms[r].id = p.rooms[s].id => r = s

\* A room is never mistaken for an empty slot.
LEMMA RoomsAreRooms ==
    ASSUME NEW room \in Room
    PROVE  room # NoRoom
<1>1. room.id # 0 /\ NoRoom.id = 0
  BY DEF Room, NoRoom
<1> QED BY <1>1

\* The slots are finitely many.
LEMMA SlotsFinite ==
    /\ MAX_ROOMS \in Nat \ {0} /\ IsFiniteSet(RoomSlots) /\ Cardinality(RoomSlots) = MAX_ROOMS
    /\ MAX_RAIDERS \in Nat \ {0} /\ IsFiniteSet(1..MAX_RAIDERS)
<1>1. MAX_ROOMS \in Nat \ {0} /\ MAX_RAIDERS \in Nat \ {0}
  BY SocietyAssumption
<1>2. IsFiniteSet(RoomSlots) /\ Cardinality(RoomSlots) = MAX_ROOMS
  <2>1. 0 \in Int /\ MAX_ROOMS - 1 \in Int
    BY <1>1
  <2>2. IsFiniteSet(RoomSlots)
        /\ Cardinality(RoomSlots) = IF 0 > MAX_ROOMS - 1 THEN 0 ELSE (MAX_ROOMS - 1) - 0 + 1
    BY <2>1, FS_Interval DEF RoomSlots
  <2> QED BY <2>2, <1>1
<1>3. IsFiniteSet(1..MAX_RAIDERS)
  <2>1. 1 \in Int /\ MAX_RAIDERS \in Int
    BY <1>1
  <2> QED BY <2>1, FS_Interval
<1> QED BY <1>1, <1>2, <1>3

\* What the sets that are counted are.
LEMMA RoomCounts ==
    ASSUME NEW room \in Room
    PROVE  IsFiniteSet(InRoom(room)) /\ Cardinality(InRoom(room)) \in Nat
<1>1. IsFiniteSet(InRoom(room))
  <2>1. InRoom(room) \subseteq 1..MAX_RAIDERS
    BY DEF InRoom
  <2> QED BY <2>1, SlotsFinite, FS_Subset
<1> QED BY <1>1, FS_CardinalityType

\* The rooms in use are finitely many.
LEMMA PoolCounts ==
    ASSUME NEW p \in Pools
    PROVE  IsFiniteSet(Occupied(p)) /\ Cardinality(Occupied(p)) \in Nat
<1>1. IsFiniteSet(Occupied(p))
  <2>1. Occupied(p) \subseteq RoomSlots
    BY DEF Occupied
  <2> QED BY <2>1, SlotsFinite, FS_Subset
<1> QED BY <1>1, FS_CardinalityType

\* A slot that is taken leaves room on the stack of the free ones.
LEMMA StackHasRoom ==
    ASSUME NEW p, GoodPool(p), NEW slot \in Occupied(p)
    PROVE  Len(p.free_slots) < MAX_ROOMS
<1> DEFINE f == p.free_slots  n == Len(f)  S == RoomSlots \ {slot}
<1>1. /\ f \in Seq(RoomSlots) /\ IsInjective(f) /\ n \in Nat /\ DOMAIN f = 1..n
      /\ \A i \in 1..n : f[i] \in S
  <2>1. f \in Seq(RoomSlots) /\ IsInjective(f)
    BY DEF GoodPool, Pools
  <2>2. n \in Nat /\ DOMAIN f = 1..n
    BY <2>1
  <2>3. \A i \in DOMAIN f : f[i] \in RoomSlots \ Occupied(p)
    BY DEF GoodPool, ToSet
  <2> QED BY <2>1, <2>2, <2>3
<1>2. slot \in RoomSlots
  BY DEF Occupied
<1>3. IsFiniteSet(S) /\ Cardinality(S) = MAX_ROOMS - 1
  BY <1>2, SlotsFinite, FS_RemoveElement
<1>4. IsFiniteSet(1..n) /\ Cardinality(1..n) = n
  <2> HIDE DEF n
  <2>1. IsFiniteSet(1..n) /\ Cardinality(1..n) = IF 1 > n THEN 0 ELSE n - 1 + 1
    BY <1>1, FS_Interval
  <2> QED BY <2>1, <1>1
<1>5. f \in [1..n -> S]
  <2> HIDE DEF S, n
  <2>1. f = [i \in 1..n |-> f[i]]
    BY <1>1
  <2> QED BY <2>1, <1>1
<1>6. ~ (Cardinality(S) < Cardinality(1..n))
  <2> SUFFICES ASSUME Cardinality(S) < Cardinality(1..n) PROVE FALSE
    OBVIOUS
  <2> DEFINE D == 1..n
  <2>1. f \in [D -> S] /\ IsFiniteSet(D) /\ Cardinality(S) < Cardinality(D)
    BY <1>4, <1>5
  <2> HIDE DEF D, S, f
  <2>2. \E x, y \in D : x # y /\ f[x] = f[y]
    BY <2>1, <1>3, FS_PigeonHole
  <2> QED BY <2>2, <1>1 DEF IsInjective, D
<1> HIDE DEF S, n
<1> QED BY <1>1, <1>3, <1>4, <1>6, SlotsFinite DEF n, f

\* A room that changes stays where it is.
LEMMA RoomChanged ==
    ASSUME NEW p, GoodPool(p), NEW slot \in Occupied(p), NEW room,
           GoodRoom(room), room.id = p.rooms[slot].id
    PROVE  GoodPool([p EXCEPT !.rooms[slot] = room])
<1> DEFINE q == [p EXCEPT !.rooms[slot] = room]
<1>1. p \in Pools /\ slot \in RoomSlots /\ room \in Room /\ p.rooms \in [RoomSlots -> Room \union {NoRoom}]
  BY DEF GoodPool, GoodRoom, Occupied, Pools
<1>2. /\ q.rooms = [p.rooms EXCEPT ![slot] = room]
      /\ q.free_slots = p.free_slots /\ q.active_count = p.active_count /\ q.next_id = p.next_id
  BY <1>1 DEF Pools
<1>3. q.rooms \in [RoomSlots -> Room \union {NoRoom}]
  BY <1>1, <1>2
<1>4. q \in Pools
  <2> DEFINE Rs == [RoomSlots -> Room \union {NoRoom}]
  <2>1. p.rooms \in Rs /\ [p.rooms EXCEPT ![slot] = room] \in Rs
    BY <1>1, <1>2, <1>3
  <2>2. p \in [rooms : Rs, free_slots : Seq(RoomSlots), active_count : Nat, next_id : Nat \ {0}]
    BY <1>1 DEF Pools
  <2> DEFINE rs == [p.rooms EXCEPT ![slot] = room]
  <2>3. q = [p EXCEPT !.rooms = rs]
    OBVIOUS
  <2> HIDE DEF Rs, rs, q
  <2>4. q \in [rooms : Rs, free_slots : Seq(RoomSlots), active_count : Nat, next_id : Nat \ {0}]
    BY <2>1, <2>2, <2>3 DEF rs
  <2> QED BY <2>4 DEF Pools, Rs
<1> HIDE DEF q
<1>5. q.rooms[slot] = room /\ \A r \in RoomSlots : r # slot => q.rooms[r] = p.rooms[r]
  BY <1>1, <1>2
<1>6. Occupied(q) = Occupied(p)
  <2>1. room # NoRoom /\ p.rooms[slot] # NoRoom
    BY <1>1, RoomsAreRooms DEF Occupied
  <2> QED BY <2>1, <1>1, <1>5 DEF Occupied
<1>7. \A r \in Occupied(q) : GoodRoom(q.rooms[r]) /\ q.rooms[r].id = p.rooms[r].id
  BY <1>5, <1>6 DEF GoodPool, Occupied
<1> QED BY <1>2, <1>4, <1>6, <1>7 DEF GoodPool, q

\* A room that goes leaves its slot on the stack (instance.rs:235-252).
LEMMA RoomGone ==
    ASSUME NEW p, GoodPool(p), NEW slot \in Occupied(p)
    PROVE  GoodPool(Recycled(p, slot))
<1> DEFINE q == Recycled(p, slot)  f == p.free_slots  O == Occupied(p)
<1>1. /\ p \in Pools /\ slot \in RoomSlots /\ p.rooms \in [RoomSlots -> Room \union {NoRoom}]
      /\ f \in Seq(RoomSlots) /\ p.active_count \in Nat /\ p.next_id \in Nat \ {0}
      /\ IsInjective(f) /\ ToSet(f) = RoomSlots \ O
  BY DEF GoodPool, Occupied, Pools
<1>2. Len(f) < MAX_ROOMS
  BY StackHasRoom
<1>3. /\ q.rooms = [p.rooms EXCEPT ![slot] = NoRoom]
      /\ q.free_slots = Append(f, slot) /\ q.active_count = p.active_count - 1
      /\ q.next_id = p.next_id
      /\ q = [rooms |-> q.rooms, free_slots |-> q.free_slots,
              active_count |-> q.active_count, next_id |-> q.next_id]
  <2>1. q = [p EXCEPT !.rooms = [p.rooms EXCEPT ![slot] = NoRoom],
                      !.active_count = p.active_count - 1,
                      !.free_slots = Append(f, slot)]
    BY <1>2 DEF Recycled
  <2> QED BY <2>1, <1>1 DEF Pools
<1> HIDE DEF q
<1>4. /\ Append(f, slot) \in Seq(RoomSlots)
      /\ ToSet(Append(f, slot)) = ToSet(f) \union {slot} /\ IsInjective(Append(f, slot))
  <2>1. slot \notin ToSet(f)
    BY <1>1
  <2> HIDE DEF f
  <2> QED BY <2>1, <1>1, Appended
<1>5. /\ q.rooms \in [RoomSlots -> Room \union {NoRoom}] /\ q.rooms[slot] = NoRoom
      /\ \A r \in RoomSlots : r # slot => q.rooms[r] = p.rooms[r]
  BY <1>1, <1>3
<1>6. Occupied(q) = O \ {slot}
  BY <1>1, <1>5 DEF Occupied
<1>7. Cardinality(O \ {slot}) = Cardinality(O) - 1 /\ Cardinality(O \ {slot}) \in Nat
  <2>1. IsFiniteSet(O) /\ IsFiniteSet(O \ {slot})
    BY <1>1, PoolCounts, FS_Subset
  <2> HIDE DEF O
  <2> QED BY <2>1, FS_RemoveElement, FS_CardinalityType DEF O
<1>8. q.active_count = Cardinality(Occupied(q)) /\ q.active_count \in Nat
  BY <1>3, <1>6, <1>7 DEF GoodPool
<1>9. q \in Pools
  <2> DEFINE Rs == [RoomSlots -> Room \union {NoRoom}]
  <2>1. q.rooms \in Rs /\ q.free_slots \in Seq(RoomSlots) /\ q.next_id \in Nat \ {0}
    BY <1>1, <1>3, <1>4, <1>5
  <2> HIDE DEF Rs
  <2>2. q \in [rooms : Rs, free_slots : Seq(RoomSlots), active_count : Nat, next_id : Nat \ {0}]
    BY <2>1, <1>3, <1>8
  <2> QED BY <2>2 DEF Pools, Rs
<1>10. IsInjective(q.free_slots) /\ ToSet(q.free_slots) = RoomSlots \ Occupied(q)
  <2>1. ToSet(q.free_slots) = (RoomSlots \ O) \union {slot}
    BY <1>1, <1>3, <1>4
  <2>2. (RoomSlots \ O) \union {slot} = RoomSlots \ (O \ {slot})
    BY <1>1
  <2> QED BY <2>1, <2>2, <1>3, <1>4, <1>6
<1>11. \A r \in Occupied(q) : r \in O /\ q.rooms[r] = p.rooms[r]
  BY <1>5, <1>6 DEF Occupied
<1> QED BY <1>3, <1>8, <1>9, <1>10, <1>11 DEF GoodPool, q

\* A new room takes the slot on top of the stack (instance.rs, allocate_instance).
LEMMA RoomAllocated ==
    ASSUME GoodPool(pool), allocate_instance
    PROVE  GoodPool(pool')
<1> DEFINE f == pool.free_slots  n == Len(f)  slot == f[n]  O == Occupied(pool)
           room == NewRoom(pool.next_id)  g == Front(f)
<1>1. /\ pool \in Pools /\ pool.rooms \in [RoomSlots -> Room \union {NoRoom}]
      /\ f \in Seq(RoomSlots) /\ pool.active_count \in Nat /\ pool.next_id \in Nat \ {0}
      /\ IsInjective(f) /\ ToSet(f) = RoomSlots \ O
  BY DEF GoodPool, Pools
<1>2. n \in Nat \ {0} /\ DOMAIN f = 1..n
  BY <1>1 DEF allocate_instance
<1>3. slot \in RoomSlots /\ slot \notin O
  <2>1. slot \in ToSet(f)
    BY <1>2 DEF ToSet
  <2> QED BY <2>1, <1>1
<1>4. g \in Seq(RoomSlots) /\ IsInjective(g) /\ ToSet(g) = ToSet(f) \ {slot}
  <2>1. /\ g \in Seq(RoomSlots) /\ DOMAIN g = 1..(n - 1)
        /\ \A k \in 1..(n - 1) : g[k] = f[k]
    <3>1. g = SubSeq(f, 1, n - 1)
      BY DEF Front
    <3> HIDE DEF f, g
    <3> QED BY <3>1, <1>1, <1>2
  <2>2. \A j, k \in 1..n : f[j] = f[k] => j = k
    BY <1>1, <1>2 DEF IsInjective
  <2> HIDE DEF f, g, n
  <2>3. IsInjective(g)
    BY <2>1, <2>2, <1>2 DEF IsInjective
  <2>4. ASSUME NEW x \in ToSet(g) PROVE x \in ToSet(f) \ {slot}
    <3>1. PICK k \in 1..(n - 1) : x = f[k]
      BY <2>1, <2>4 DEF ToSet
    <3>2. k \in 1..n /\ n \in 1..n /\ k # n
      BY <1>2
    <3> QED BY <3>1, <3>2, <2>2, <1>2 DEF ToSet
  <2>5. ASSUME NEW x \in ToSet(f) \ {slot} PROVE x \in ToSet(g)
    <3>1. PICK k \in 1..n : x = f[k]
      BY <1>2, <2>5 DEF ToSet
    <3>2. k \in 1..(n - 1)
      BY <3>1, <2>5, <1>2
    <3> QED BY <3>1, <3>2, <2>1 DEF ToSet
  <2> QED BY <2>1, <2>3, <2>4, <2>5
<1>5. pool' = [rooms |-> [pool.rooms EXCEPT ![slot] = room], free_slots |-> g,
               active_count |-> pool.active_count + 1, next_id |-> pool.next_id + 1]
  BY DEF allocate_instance, Last
<1>6. GoodRoom(room) /\ room.id = pool.next_id
  <2>1. InRoom(room) = {}
    BY DEF InRoom, NewRoom
  <2>2. room \in Room
    BY <1>1, SocietyAssumption DEF NewRoom, Room, RoomStates
  <2>3. room.state = "Allocated" /\ room.party_count = 0 /\ room.id = pool.next_id
    BY DEF NewRoom
  <2> QED BY <2>1, <2>2, <2>3, FS_EmptySet DEF GoodRoom
<1> HIDE DEF room
<1>7. PICK q : q = pool'
  OBVIOUS
<1>8. /\ q.rooms \in [RoomSlots -> Room \union {NoRoom}] /\ q.rooms[slot] = room
      /\ \A r \in RoomSlots : r # slot => q.rooms[r] = pool.rooms[r]
  BY <1>1, <1>3, <1>5, <1>6, <1>7 DEF GoodRoom
<1>9. Occupied(q) = O \union {slot}
  <2>1. room # NoRoom
    BY <1>6, RoomsAreRooms DEF GoodRoom
  <2> QED BY <2>1, <1>3, <1>8 DEF Occupied
<1>10. Cardinality(O \union {slot}) = Cardinality(O) + 1
  <2>1. IsFiniteSet(O)
    BY <1>1, PoolCounts
  <2> HIDE DEF O
  <2> QED BY <2>1, <1>3, FS_AddElement
<1>11. q.active_count = Cardinality(Occupied(q)) /\ q.active_count \in Nat
  <2>1. q.active_count = pool.active_count + 1
    BY <1>5, <1>7
  <2>2. pool.active_count = Cardinality(O)
    BY DEF GoodPool
  <2>3. Cardinality(Occupied(q)) = Cardinality(O) + 1
    BY <1>9, <1>10
  <2> HIDE DEF O
  <2> QED BY <2>1, <2>2, <2>3, <1>1
<1>12. q \in Pools
  <2> DEFINE Rs == [RoomSlots -> Room \union {NoRoom}]
  <2>1. q = [rooms |-> q.rooms, free_slots |-> q.free_slots,
             active_count |-> q.active_count, next_id |-> q.next_id]
    BY <1>5, <1>7
  <2>2. q.rooms \in Rs /\ q.free_slots \in Seq(RoomSlots) /\ q.next_id \in Nat \ {0}
    BY <1>1, <1>4, <1>5, <1>7, <1>8
  <2> HIDE DEF Rs
  <2>3. q \in [rooms : Rs, free_slots : Seq(RoomSlots), active_count : Nat, next_id : Nat \ {0}]
    BY <2>1, <2>2, <1>11
  <2> QED BY <2>3 DEF Pools, Rs
<1>13. q.free_slots = g /\ q.next_id = pool.next_id + 1
  BY <1>5, <1>7
<1>14. IsInjective(q.free_slots) /\ ToSet(q.free_slots) = RoomSlots \ Occupied(q)
  <2>1. ToSet(g) = (RoomSlots \ O) \ {slot}
    BY <1>1, <1>4
  <2> HIDE DEF g, O, slot
  <2> QED BY <2>1, <1>4, <1>9, <1>13
<1>15. ASSUME NEW r \in Occupied(q)
       PROVE  /\ GoodRoom(q.rooms[r]) /\ q.rooms[r].id < q.next_id
              /\ r # slot => r \in O /\ q.rooms[r] = pool.rooms[r] /\ q.rooms[r].id < pool.next_id
  <2>1. CASE r = slot
    BY <2>1, <1>1, <1>6, <1>8, <1>13
  <2>2. CASE r # slot
    <3>1. r \in O /\ q.rooms[r] = pool.rooms[r]
      BY <2>2, <1>8, <1>9 DEF Occupied
    <3>2. GoodRoom(pool.rooms[r]) /\ pool.rooms[r].id < pool.next_id /\ pool.rooms[r].id \in Nat
      BY <3>1 DEF GoodPool, GoodRoom, Room
    <3> QED BY <3>1, <3>2, <1>1, <1>13
  <2> QED BY <2>1, <2>2
<1>16. ASSUME NEW r \in Occupied(q), NEW t \in Occupied(q), q.rooms[r].id = q.rooms[t].id
       PROVE  r = t
  <2>1. q.rooms[slot].id = pool.next_id
    BY <1>6, <1>8
  <2>2. CASE r # slot /\ t # slot
    BY <2>2, <1>15, <1>16 DEF GoodPool
  <2>3. CASE r = slot \/ t = slot
    BY <2>1, <2>3, <1>1, <1>15, <1>16
  <2> QED BY <2>2, <2>3
<1>17. GoodPool(q)
  BY <1>11, <1>12, <1>14, <1>15, <1>16 DEF GoodPool
<1> QED BY <1>7, <1>17

\* A raider joins a free place (instance.rs, join_party).
LEMMA RoomJoined ==
    ASSUME NEW room, GoodRoom(room), NEW i \in 1..MAX_RAIDERS, room.party_members[i] = 0,
           NEW player \in Raiders, player \notin ToSet(room.party_members),
           room.state # "PendingCleanup"
    PROVE  GoodRoom(Entered(room, i, player)) /\ Entered(room, i, player).id = room.id
<1> DEFINE m == [room.party_members EXCEPT ![i] = player]
           stage == IF room.state = "Allocated" THEN "ActiveCombat" ELSE room.state
           next == [room EXCEPT !.party_members = m, !.party_count = room.party_count + 1,
                                !.state = stage]
           P == [1..MAX_RAIDERS -> Raiders \union {0}]
<1>1. /\ room \in Room /\ room.party_members \in P /\ room.party_count \in Nat
      /\ room.party_count = Cardinality(InRoom(room)) /\ player # 0
      /\ room.state \in RoomStates
  BY SocietyAssumption DEF GoodRoom, Room
<1>2. m \in P /\ m[i] = player /\ \A j \in 1..MAX_RAIDERS : j # i => m[j] = room.party_members[j]
  BY <1>1
<1>3. stage \in RoomStates
  BY <1>1 DEF RoomStates
<1> HIDE DEF m, stage
<1>4. /\ next.party_members = m /\ next.party_count = room.party_count + 1 /\ next.state = stage
      /\ next.id = room.id /\ next.boss_health = room.boss_health
  BY <1>1 DEF Room
<1>5. next \in Room
  <2>1. room \in [id : Nat \ {0}, state : RoomStates, party_members : P,
                  party_count : Nat, elapsed_ticks : Nat, boss_health : Nat]
    BY <1>1 DEF Room
  <2> DEFINE c == room.party_count + 1
  <2>2. c \in Nat
    BY <1>1
  <2> HIDE DEF P, c
  <2>3. [room EXCEPT !.party_members = m, !.party_count = c, !.state = stage]
             \in [id : Nat \ {0}, state : RoomStates, party_members : P,
                  party_count : Nat, elapsed_ticks : Nat, boss_health : Nat]
    BY <2>1, <2>2, <1>2, <1>3
  <2> QED BY <2>3 DEF Room, P, c
<1> HIDE DEF next
<1>6. InRoom(next) = InRoom(room) \union {i} /\ i \notin InRoom(room)
  BY <1>1, <1>2, <1>4 DEF InRoom
<1>7. next.party_count = Cardinality(InRoom(next))
  <2>1. IsFiniteSet(InRoom(room))
    BY <1>1, RoomCounts
  <2>2. Cardinality(InRoom(room) \union {i}) = Cardinality(InRoom(room)) + 1
    BY <2>1, <1>6, FS_AddElement
  <2> QED BY <2>2, <1>1, <1>4, <1>6
<1>8. ASSUME NEW j \in InRoom(next), NEW k \in InRoom(next),
             next.party_members[j] = next.party_members[k]
      PROVE  j = k
  <2>1. ASSUME NEW l \in InRoom(room) PROVE m[l] = room.party_members[l] /\ m[l] # player
    <3>1. l \in 1..MAX_RAIDERS /\ l # i
      BY <1>6 DEF InRoom
    <3>2. l \in DOMAIN room.party_members
      BY <3>1, <1>1
    <3>3. room.party_members[l] \in ToSet(room.party_members)
      BY <3>2 DEF ToSet
    <3> QED BY <3>1, <3>3, <1>2
  <2>2. \A a, b \in InRoom(room) : room.party_members[a] = room.party_members[b] => a = b
    BY DEF GoodRoom
  <2> QED BY <2>1, <2>2, <1>2, <1>4, <1>6, <1>8
<1>9. /\ next.state # "Allocated"
      /\ next.state = "VictoryReward" => room.state = "VictoryReward"
  BY <1>4 DEF stage
<1>10. GoodRoom(next)
  <2>1. next.state = "VictoryReward" => next.boss_health = 0
    BY <1>4, <1>9 DEF GoodRoom
  <2>2. InRoom(next) # {}
    BY <1>6
  <2> QED BY <2>1, <2>2, <1>5, <1>7, <1>8, <1>9 DEF GoodRoom
<1>11. Entered(room, i, player) = next
  BY DEF Entered, next, m, stage
<1> QED BY <1>4, <1>10, <1>11

\* A raider leaves; with the last one the room is done (instance.rs, leave_party).
LEMMA RoomLeft ==
    ASSUME NEW room, GoodRoom(room), NEW i \in InRoom(room)
    PROVE  GoodRoom(Vacated(room, i)) /\ Vacated(room, i).id = room.id
<1> DEFINE m == [room.party_members EXCEPT ![i] = 0]
           stage == IF room.party_count = 1 THEN "PendingCleanup" ELSE room.state
           next == [room EXCEPT !.party_members = m, !.party_count = room.party_count - 1,
                                !.state = stage]
           P == [1..MAX_RAIDERS -> Raiders \union {0}]
<1>1. /\ room \in Room /\ room.party_members \in P /\ room.party_count \in Nat
      /\ room.party_count = Cardinality(InRoom(room)) /\ i \in 1..MAX_RAIDERS
      /\ room.state \in RoomStates /\ room.party_members[i] # 0
  BY DEF GoodRoom, Room, InRoom
<1>2. m \in P /\ m[i] = 0 /\ \A j \in 1..MAX_RAIDERS : j # i => m[j] = room.party_members[j]
  BY <1>1
<1>3. stage \in RoomStates
  BY <1>1 DEF RoomStates
<1>4. /\ Cardinality(InRoom(room) \ {i}) = Cardinality(InRoom(room)) - 1
      /\ Cardinality(InRoom(room) \ {i}) \in Nat /\ IsFiniteSet(InRoom(room) \ {i})
  <2>1. IsFiniteSet(InRoom(room)) /\ IsFiniteSet(InRoom(room) \ {i})
    BY <1>1, RoomCounts, FS_RemoveElement
  <2> QED BY <2>1, FS_RemoveElement, FS_CardinalityType
<1>5. room.party_count - 1 \in Nat
  BY <1>1, <1>4
<1> HIDE DEF m, stage
<1>6. /\ next.party_members = m /\ next.party_count = room.party_count - 1 /\ next.state = stage
      /\ next.id = room.id /\ next.boss_health = room.boss_health
  BY <1>1 DEF Room
<1>7. next \in Room
  <2>1. room \in [id : Nat \ {0}, state : RoomStates, party_members : P,
                  party_count : Nat, elapsed_ticks : Nat, boss_health : Nat]
    BY <1>1 DEF Room
  <2> DEFINE c == room.party_count - 1
  <2>2. c \in Nat
    BY <1>5
  <2> HIDE DEF P, c
  <2>3. [room EXCEPT !.party_members = m, !.party_count = c, !.state = stage]
             \in [id : Nat \ {0}, state : RoomStates, party_members : P,
                  party_count : Nat, elapsed_ticks : Nat, boss_health : Nat]
    BY <2>1, <2>2, <1>2, <1>3
  <2> QED BY <2>3 DEF Room, P, c
<1> HIDE DEF next
<1>8. InRoom(next) = InRoom(room) \ {i}
  BY <1>1, <1>2, <1>6 DEF InRoom
<1>9. next.party_count = Cardinality(InRoom(next))
  BY <1>1, <1>4, <1>6, <1>8
<1>10. ASSUME NEW j \in InRoom(next), NEW k \in InRoom(next),
              next.party_members[j] = next.party_members[k]
       PROVE  j = k
  <2>1. \A l \in InRoom(room) \ {i} : m[l] = room.party_members[l]
    BY <1>2 DEF InRoom
  <2>2. \A a, b \in InRoom(room) : room.party_members[a] = room.party_members[b] => a = b
    BY DEF GoodRoom
  <2> QED BY <2>1, <2>2, <1>6, <1>8, <1>10
<1>11. room.state # "Allocated"
  BY DEF GoodRoom
<1>12. next.state # "PendingCleanup" => InRoom(next) # {} /\ next.state = room.state
  <2> SUFFICES ASSUME next.state # "PendingCleanup"
               PROVE  InRoom(next) # {} /\ next.state = room.state
    OBVIOUS
  <2>1. room.party_count # 1 /\ next.state = room.state
    BY <1>6 DEF stage
  <2>2. Cardinality(InRoom(next)) # 0
    BY <2>1, <1>1, <1>5, <1>6, <1>9
  <2> QED BY <2>1, <2>2, FS_EmptySet
<1>13. GoodRoom(next)
  <2>1. next.state = "VictoryReward" => next.boss_health = 0
    BY <1>6, <1>12 DEF GoodRoom
  <2>2. next.state # "Allocated"
    BY <1>11, <1>12
  <2>3. next.state \in {"ActiveCombat", "VictoryReward"} => InRoom(next) # {}
    BY <1>12
  <2> QED BY <2>1, <2>2, <2>3, <1>7, <1>9, <1>10 DEF GoodRoom
<1>14. Vacated(room, i) = next
  BY DEF Vacated, next, m, stage
<1> QED BY <1>6, <1>13, <1>14

\* Damage to the boss, and a tick, change neither the party nor its count
\* (instance.rs, apply_boss_damage and tick).
LEMMA RoomAdvanced ==
    ASSUME NEW room, GoodRoom(room), NEW next \in Room,
           next.id = room.id, next.party_members = room.party_members,
           next.party_count = room.party_count,
           \/ next.state = room.state /\ next.boss_health = room.boss_health
           \/ next.state = "PendingCleanup"
           \/ room.state = "ActiveCombat" /\ next.state = "ActiveCombat"
           \/ room.state = "ActiveCombat" /\ next.state = "VictoryReward" /\ next.boss_health = 0
    PROVE  GoodRoom(next)
<1>1. InRoom(next) = InRoom(room)
  BY DEF InRoom
<1> QED BY <1>1 DEF GoodRoom

\* A tick of a room keeps it good (instance.rs).
LEMMA RoomTicked ==
    ASSUME NEW room, GoodRoom(room)
    PROVE  GoodRoom(TickRoom(room)) /\ TickRoom(room).id = room.id
<1> DEFINE now == IF room.elapsed_ticks > RAID_TIMEOUT THEN room.elapsed_ticks
                  ELSE room.elapsed_ticks + 1
           expired == \/ room.state = "ActiveCombat" /\ now > RAID_TIMEOUT
                      \/ room.state = "VictoryReward" /\ now > ROOM_CLEANUP_TIMEOUT
           stage == IF expired THEN "PendingCleanup" ELSE room.state
           next == [room EXCEPT !.elapsed_ticks = now, !.state = stage]
<1>1. room \in Room /\ now \in Nat /\ stage \in RoomStates
  BY DEF GoodRoom, Room, RoomStates
<1>2. TickRoom(room) = next
  BY DEF TickRoom
<1>3. stage = room.state \/ stage = "PendingCleanup"
  OBVIOUS
<1> HIDE DEF now, stage
<1>4. /\ next.party_members = room.party_members /\ next.party_count = room.party_count
      /\ next.state = stage /\ next.id = room.id /\ next.boss_health = room.boss_health
  BY <1>1 DEF Room
<1>5. next \in Room
  <2> DEFINE P == [1..MAX_RAIDERS -> Raiders \union {0}]
  <2>1. room \in [id : Nat \ {0}, state : RoomStates, party_members : P,
                  party_count : Nat, elapsed_ticks : Nat, boss_health : Nat]
    BY <1>1 DEF Room
  <2> HIDE DEF P
  <2>2. next \in [id : Nat \ {0}, state : RoomStates, party_members : P,
                  party_count : Nat, elapsed_ticks : Nat, boss_health : Nat]
    BY <2>1, <1>1
  <2> QED BY <2>2 DEF Room, P
<1> HIDE DEF next
<1>6. GoodRoom(next)
  BY <1>3, <1>4, <1>5, RoomAdvanced
<1> QED BY <1>2, <1>4, <1>6

\* Damage to the boss keeps a room good (instance.rs).
LEMMA RoomDamaged ==
    ASSUME NEW room, GoodRoom(room), room.state = "ActiveCombat", NEW left \in Nat
    PROVE  GoodRoom(Damaged(room, left)) /\ Damaged(room, left).id = room.id
<1> DEFINE stage == IF left = 0 THEN "VictoryReward" ELSE room.state
           next == [room EXCEPT !.boss_health = left, !.state = stage]
           P == [1..MAX_RAIDERS -> Raiders \union {0}]
<1>1. room \in Room /\ stage \in RoomStates
  BY DEF GoodRoom, RoomStates
<1>2. \/ stage = "ActiveCombat"
      \/ stage = "VictoryReward" /\ left = 0
  OBVIOUS
<1>3. Damaged(room, left) = next
  BY DEF Damaged
<1> HIDE DEF stage
<1>4. /\ next.id = room.id /\ next.party_members = room.party_members
      /\ next.party_count = room.party_count /\ next.state = stage /\ next.boss_health = left
  BY <1>1 DEF Room
<1>5. next \in Room
  <2>1. room \in [id : Nat \ {0}, state : RoomStates, party_members : P,
                  party_count : Nat, elapsed_ticks : Nat, boss_health : Nat]
    BY <1>1 DEF Room
  <2> HIDE DEF P
  <2>2. next \in [id : Nat \ {0}, state : RoomStates, party_members : P,
                  party_count : Nat, elapsed_ticks : Nat, boss_health : Nat]
    BY <2>1, <1>1
  <2> QED BY <2>2 DEF Room, P
<1> HIDE DEF next
<1>6. GoodRoom(next)
  BY <1>2, <1>4, <1>5, RoomAdvanced
<1> QED BY <1>3, <1>4, <1>6

\* A slot's tick, on any pool.
LEMMA SlotTicked ==
    ASSUME NEW p, GoodPool(p), NEW slot \in RoomSlots
    PROVE  GoodPool(TickSlot(p, slot))
<1>1. CASE p.rooms[slot] = NoRoom
  BY <1>1 DEF TickSlot
<1>2. CASE p.rooms[slot] # NoRoom
  <2>1. slot \in Occupied(p) /\ GoodRoom(p.rooms[slot])
    BY <1>2 DEF Occupied, GoodPool
  <2>2. GoodPool(Recycled(p, slot))
    BY <2>1, RoomGone
  <2> DEFINE room == TickRoom(p.rooms[slot])
  <2>3. GoodRoom(room) /\ room.id = p.rooms[slot].id
    BY <2>1, RoomTicked
  <2> HIDE DEF room
  <2>4. GoodPool([p EXCEPT !.rooms[slot] = room])
    BY <2>1, <2>3, RoomChanged
  <2>5. [p EXCEPT !.rooms[slot] = TickRoom(@)] = [p EXCEPT !.rooms[slot] = room]
    BY DEF room
  <2> QED BY <1>2, <2>2, <2>4, <2>5 DEF TickSlot
<1> QED BY <1>1, <1>2

\* The tick of all slots, one after the other (instance.rs, tick_all).
LEMMA PoolTicked ==
    ASSUME GoodPool(pool), tick_all
    PROVE  GoodPool(pool')
<1> DEFINE n == MAX_ROOMS
           slots == [i \in 1..n |-> i - 1]
           T == {p \in Pools : GoodPool(p)}
           F == [x \in (1..n) \X T |-> TickSlot(x[2], slots[x[1]])]
           Step(g) == [S \in SUBSET (1..n) |->
                         IF S = {} THEN pool
                         ELSE LET m == Max(S) IN TickSlot(g[S \ {m}], slots[m])]
           it == CHOOSE g : g = Step(g)
<1>1. n \in Nat \ {0} /\ DOMAIN slots = 1..n /\ \A i \in 1..n : slots[i] \in RoomSlots
  BY SlotsFinite DEF RoomSlots
<1>2. pool' = it[1..n]
  <2>1. pool' = FoldLeft(TickSlot, pool, slots)
    BY DEF tick_all
  <2> HIDE DEF slots, n
  <2>2. DOMAIN slots = 1..n
    BY <1>1
  <2> QED BY <2>1, <2>2 DEF FoldLeft, MapThenFoldSet
<1>3. F \in [(1..n) \X T -> T]
  <2> SUFFICES ASSUME NEW i \in 1..n, NEW p \in T PROVE TickSlot(p, slots[i]) \in T
    OBVIOUS
  <2>1. GoodPool(TickSlot(p, slots[i]))
    <3> HIDE DEF slots
    <3> QED BY <1>1, SlotTicked
  <2> QED BY <2>1 DEF GoodPool
<1>4. pool \in T
  BY DEF GoodPool
<1>5. \A S \in SUBSET (1..n) : S # {} => Max(S) \in S /\ \A y \in S : Max(S) >= y
  <2> SUFFICES ASSUME NEW S \in SUBSET (1..n), S # {}
               PROVE  Max(S) \in S /\ \A y \in S : Max(S) >= y
    OBVIOUS
  <2>1. \E m \in S : \A y \in S : m >= y
    <3>1. S \subseteq 0..n
      BY <1>1
    <3>2. n \in Nat
      BY <1>1
    <3> HIDE DEF n
    <3> QED BY <3>1, <3>2, LargestOf
  <2> QED BY <2>1 DEF Max
<1>6. it = Step(it)
  <2>0. PICK g : FoldsAs(g, n, T, pool, F)
    <3>1. n \in Nat
      BY <1>1
    <3> HIDE DEF n, T, F
    <3> QED BY <3>1, <1>3, <1>4, FoldExists
  <2>1. /\ g \in [SUBSET (1..n) -> T] /\ g[{}] = pool
        /\ \A S \in SUBSET (1..n) : \A m \in S :
               (\A y \in S : m >= y) => g[S] = F[<<m, g[S \ {m}]>>]
    <3> HIDE DEF n, T, F
    <3> QED BY <2>0 DEF FoldsAs
  <2>2. ASSUME NEW S \in SUBSET (1..n)
        PROVE  g[S] = IF S = {} THEN pool
                      ELSE LET m == Max(S) IN TickSlot(g[S \ {m}], slots[m])
    <3>1. CASE S # {}
      <4> DEFINE m == Max(S)
      <4>1. m \in S /\ m \in 1..n /\ g[S \ {m}] \in T /\ \A y \in S : m >= y
        BY <3>1, <1>5, <2>1
      <4> HIDE DEF m, slots, n, T
      <4>2. g[S] = F[<<m, g[S \ {m}]>>]
        BY <4>1, <2>1
      <4>3. F[<<m, g[S \ {m}]>>] = TickSlot(g[S \ {m}], slots[m])
        BY <4>1
      <4> QED BY <3>1, <4>2, <4>3 DEF m
    <3> QED BY <3>1, <2>1
  <2>3. g = Step(g)
    <3> HIDE DEF T, F, slots, n
    <3> QED BY <2>1, <2>2
  <2> HIDE DEF Step
  <2> QED BY <2>3
<1> HIDE DEF it
<1>7. \A k \in 0..n : it[1..k] \in T
  <2> DEFINE G == {k \in 0..n : it[1..k] \in T}
  <2>1. 0 \in G
    <3>1. 1..0 = {} /\ 1..0 \in SUBSET (1..n) /\ 0 \in 0..n
      BY <1>1
    <3>2. it[1..0] = pool
      BY <3>1, <1>6
    <3> QED BY <3>1, <3>2, <1>4
  <2>2. ASSUME NEW k \in 1..n, k - 1 \in G PROVE k \in G
    <3> DEFINE S == 1..k  m == Max(S)
    <3>1. S \in SUBSET (1..n) /\ S # {} /\ k \in S
      BY <1>1
    <3>2. m = k
      <4>1. m \in S /\ m >= k
        BY <3>1, <1>5
      <4> HIDE DEF m
      <4> QED BY <4>1
    <3>3. S \ {k} = 1..(k - 1)
      OBVIOUS
    <3>4. it[S] = TickSlot(it[S \ {k}], slots[k])
      <4> HIDE DEF S, slots, n
      <4>1. it[S] = TickSlot(it[S \ {m}], slots[m])
        BY <3>1, <1>6
      <4> QED BY <4>1, <3>2
    <3>5. TickSlot(it[S \ {k}], slots[k]) \in T
      <4>1. GoodPool(it[1..(k - 1)])
        BY <2>2
      <4>2. GoodPool(TickSlot(it[1..(k - 1)], slots[k]))
        <5> HIDE DEF slots, n
        <5> QED BY <4>1, <1>1, SlotTicked
      <4>3. TickSlot(it[1..(k - 1)], slots[k]) \in Pools
        BY <4>2 DEF GoodPool
      <4> QED BY <3>3, <4>2, <4>3
    <3>6. k \in 0..n
      BY <1>1
    <3> QED BY <3>4, <3>5, <3>6
  <2> HIDE DEF G, n
  <2>3. \A k \in 0..n : k \in G
    BY <1>1, <2>1, <2>2, UpTo
  <2> QED BY <2>3 DEF G
<1>8. n \in 0..n
  BY <1>1
<1> QED BY <1>2, <1>7, <1>8

\* All slots are free at first.
LEMMA PoolStart ==
    ASSUME PoolInit
    PROVE  GoodPool(pool)
<1> DEFINE n == MAX_ROOMS  f == [i \in 1..n |-> n - i]
<1>1. n \in Nat \ {0} /\ RoomSlots = 0..(n - 1)
  BY SlotsFinite DEF RoomSlots
<1>2. pool = [rooms |-> [r \in RoomSlots |-> NoRoom], free_slots |-> f,
              active_count |-> 0, next_id |-> 1]
  BY DEF PoolInit
<1>3. /\ f \in Seq(RoomSlots) /\ DOMAIN f = 1..n /\ IsInjective(f)
      /\ \A i \in 1..n : f[i] = n - i
  <2>1. f \in [1..n -> RoomSlots] /\ \A i \in 1..n : f[i] = n - i
    BY <1>1
  <2>2. IsInjective(f)
    BY <1>1, <2>1 DEF IsInjective
  <2> HIDE DEF f, n
  <2>3. f \in Seq(RoomSlots)
    BY <2>1, <1>1
  <2> QED BY <2>1, <2>2, <2>3 DEF f
<1>4. ToSet(f) = RoomSlots
  <2>1. ASSUME NEW x \in RoomSlots PROVE x \in ToSet(f)
    <3>1. n - x \in 1..n /\ n - (n - x) = x
      BY <1>1, <2>1
    <3> HIDE DEF f, n
    <3> QED BY <3>1, <1>3 DEF ToSet
  <2>2. ASSUME NEW x \in ToSet(f) PROVE x \in RoomSlots
    <3>1. PICK i \in 1..n : x = f[i]
      BY <1>3, <2>2 DEF ToSet
    <3> QED BY <3>1, <1>1, <1>3
  <2> QED BY <2>1, <2>2
<1> HIDE DEF f
<1>5. Occupied(pool) = {}
  BY <1>2 DEF Occupied
<1>6. pool \in Pools
  <2> DEFINE Rs == [RoomSlots -> Room \union {NoRoom}]
  <2>1. [r \in RoomSlots |-> NoRoom] \in Rs
    OBVIOUS
  <2> HIDE DEF Rs
  <2>2. pool \in [rooms : Rs, free_slots : Seq(RoomSlots), active_count : Nat, next_id : Nat \ {0}]
    BY <2>1, <1>2, <1>3
  <2> QED BY <2>2 DEF Pools, Rs
<1> QED BY <1>2, <1>3, <1>4, <1>5, <1>6, FS_EmptySet DEF GoodPool

\* Every operation on the pool (instance.rs:154-340).
LEMMA PoolStep ==
    ASSUME GoodPool(pool), PoolNext
    PROVE  GoodPool(pool')
<1>1. ASSUME NEW id \in 1..MaxInstances, NEW r \in RoomOf(id)
      PROVE  r \in Occupied(pool) /\ GoodRoom(pool.rooms[r]) /\ pool.rooms[r] \in Room
  BY <1>1 DEF RoomOf, Occupied, GoodPool, GoodRoom
<1>2. ASSUME NEW id \in 1..MaxInstances, NEW r \in RoomOf(id), NEW room, GoodRoom(room),
             room.id = pool.rooms[r].id, pool' = [pool EXCEPT !.rooms[r] = room]
      PROVE  GoodPool(pool')
  <2>1. GoodPool([pool EXCEPT !.rooms[r] = room])
    BY <1>1, <1>2, RoomChanged
  <2> QED BY <2>1, <1>2
<1>3. ASSUME NEW id \in 1..MaxInstances, deallocate_instance(id) PROVE GoodPool(pool')
  <2>1. PICK r \in RoomOf(id) : pool' = Recycled(pool, r)
    BY <1>3 DEF deallocate_instance
  <2>2. GoodPool(Recycled(pool, r))
    BY <1>1, RoomGone
  <2> QED BY <2>1, <2>2
<1>4. ASSUME NEW id \in 1..MaxInstances, NEW player \in Raiders, join_party(id, player)
      PROVE  GoodPool(pool')
  <2>1. PICK r \in RoomOf(id) :
            LET room == pool.rooms[r]
                free == {i \in 1..MAX_RAIDERS : room.party_members[i] = 0}
            IN  /\ room.state # "PendingCleanup"
                /\ player \notin ToSet(room.party_members) /\ free # {}
                /\ LET slot == CHOOSE i \in free : \A j \in free : i <= j
                   IN  pool' = [pool EXCEPT !.rooms[r] = Entered(room, slot, player)]
    BY <1>4 DEF join_party
  <2> DEFINE room == pool.rooms[r]
             free == {i \in 1..MAX_RAIDERS : room.party_members[i] = 0}
             slot == CHOOSE i \in free : \A j \in free : i <= j
  <2>2. slot \in free
    <3>1. free \subseteq Nat /\ free # {}
      BY <2>1, SlotsFinite
    <3> HIDE DEF free
    <3>2. \E i \in free : \A j \in free : i <= j
      BY <3>1, SmallestOf
    <3> QED BY <3>2
  <2>3. pool' = [pool EXCEPT !.rooms[r] = Entered(room, slot, player)]
    BY <2>1
  <2>4. GoodRoom(room) /\ room.state # "PendingCleanup" /\ player \notin ToSet(room.party_members)
    BY <1>1, <2>1
  <2> HIDE DEF slot, room
  <2>5. GoodRoom(Entered(room, slot, player)) /\ Entered(room, slot, player).id = room.id
    BY <2>2, <2>4, RoomJoined
  <2> QED BY <1>2, <2>3, <2>5 DEF room
<1>5. ASSUME NEW id \in 1..MaxInstances, NEW player \in Raiders, patch_leave_party(id, player)
      PROVE  GoodPool(pool')
  <2>1. PICK r \in RoomOf(id), slot \in 1..MAX_RAIDERS :
            /\ pool.rooms[r].party_members[slot] = player
            /\ pool' = [pool EXCEPT !.rooms[r] = Vacated(pool.rooms[r], slot)]
    BY <1>5 DEF patch_leave_party
  <2> DEFINE room == pool.rooms[r]
  <2>2. GoodRoom(room) /\ slot \in InRoom(room)
    BY <1>1, <2>1, SocietyAssumption DEF InRoom
  <2> HIDE DEF room
  <2>3. GoodRoom(Vacated(room, slot)) /\ Vacated(room, slot).id = room.id
    BY <2>2, RoomLeft
  <2> QED BY <1>2, <2>1, <2>3 DEF room
<1>6. ASSUME NEW id \in 1..MaxInstances, apply_boss_damage(id, 1) PROVE GoodPool(pool')
  <2>1. PICK r \in RoomOf(id) :
            LET room == pool.rooms[r]
                left == IF room.boss_health > 1 THEN room.boss_health - 1 ELSE 0
            IN  /\ room.state = "ActiveCombat"
                /\ pool' = [pool EXCEPT !.rooms[r] = Damaged(room, left)]
    BY <1>6 DEF apply_boss_damage
  <2> DEFINE room == pool.rooms[r]
             left == IF room.boss_health > 1 THEN room.boss_health - 1 ELSE 0
  <2>2. GoodRoom(room) /\ room.state = "ActiveCombat" /\ left \in Nat
    BY <1>1, <2>1 DEF Room
  <2>3. pool' = [pool EXCEPT !.rooms[r] = Damaged(room, left)]
    BY <2>1
  <2> HIDE DEF left, room
  <2>4. GoodRoom(Damaged(room, left)) /\ Damaged(room, left).id = room.id
    BY <2>2, RoomDamaged
  <2> QED BY <1>2, <2>3, <2>4 DEF room
<1> QED BY <1>3, <1>4, <1>5, <1>6, RoomAllocated, PoolTicked DEF PoolNext

\* A good pool is what the runs check of one.
LEMMA PoolSuffices ==
    ASSUME GoodPool(pool)
    PROVE  RoomsSound
<1> DEFINE O == Occupied(pool)
<1>1. O = {r \in RoomSlots : pool.rooms[r] # NoRoom}
  BY DEF Occupied
<1>2. /\ IsInjective(pool.free_slots) /\ ToSet(pool.free_slots) = RoomSlots \ O
      /\ pool.active_count = Cardinality(O)
      /\ \A r, t \in O : pool.rooms[r].id = pool.rooms[t].id => r = t
  BY DEF GoodPool
<1>3. ASSUME NEW r \in O
      PROVE  LET room == pool.rooms[r]
                 inside == {i \in 1..MAX_RAIDERS : room.party_members[i] # 0}
             IN  /\ room.party_count = Cardinality(inside)
                 /\ \A i, j \in inside : room.party_members[i] = room.party_members[j] => i = j
                 /\ room.state = "Allocated" => inside = {}
                 /\ room.state \in {"ActiveCombat", "VictoryReward"} => inside # {}
                 /\ room.state = "VictoryReward" => room.boss_health = 0
  <2>1. GoodRoom(pool.rooms[r])
    BY DEF GoodPool
  <2> QED BY <2>1 DEF GoodRoom, InRoom
<1> HIDE DEF O
<1> QED BY <1>1, <1>2, <1>3 DEF RoomsSound

-------------------------------------------------------------------------------
SocietyInv ==
    /\ GuildInv /\ StandingsInv /\ ClaimsInv /\ GoodPool(pool)
    /\ patch.state = "Synchronized" <=> presented

\* Guilds, claims, rooms and patches stay consistent on a server with whatever
\* else it runs (social.rs, territory.rs, instance.rs, companion.rs).
THEOREM SocietyKept == PlaySpec => []SocietySound
<1>1. PlayInit => SocietyInv
  <2> SUFFICES ASSUME PlayInit PROVE SocietyInv
    OBVIOUS
  <2>1. GuildInit /\ standings = << >> /\ PlotInit /\ PoolInit /\ PatchInit
    BY DEF PlayInit, SocietyInit
  <2>2. StandingsInv
    BY <2>1 DEF StandingsInv
  <2>3. patch.state = "Synchronized" <=> presented
    BY <2>1 DEF PatchInit
  <2> QED BY <2>1, <2>2, <2>3, GuildStart, ClaimsStart, PoolStart DEF SocietyInv
<1>2. SocietyInv /\ [PlayNext]_playVars => SocietyInv'
  <2> SUFFICES ASSUME SocietyInv, [PlayNext]_playVars PROVE SocietyInv'
    OBVIOUS
  <2>1. UNCHANGED guildVars => GuildInv'
    BY DEF SocietyInv, guildVars, GuildInv
  <2>2. UNCHANGED standings => StandingsInv'
    BY DEF SocietyInv, StandingsInv
  <2>3. UNCHANGED plotVars => ClaimsInv'
    BY DEF SocietyInv, plotVars, ClaimsInv
  <2>4. UNCHANGED pool => GoodPool(pool')
    BY DEF SocietyInv
  <2>5. UNCHANGED patchVars => (patch'.state = "Synchronized" <=> presented')
    BY DEF SocietyInv, patchVars
  <2>6. CASE UNCHANGED societyVars
    BY <2>1, <2>2, <2>3, <2>4, <2>5, <2>6 DEF SocietyInv, societyVars
  <2>7. CASE GuildNext /\ UNCHANGED <<standings, plotVars, pool, patchVars>>
    <3>1. ASSUME NEW a \in GuildAccounts, NEW b \in GuildAccounts, NEW rank \in 0..8,
                 set_rank(a, b, rank)
          PROVE  GuildInv'
      BY <3>1, MembersStep DEF SocietyInv
    <3>2. ASSUME NEW a \in GuildAccounts, guild_add_member(a) \/ guild_remove_member(a)
          PROVE  GuildInv'
      <4>1. 0 \in Int
        OBVIOUS
      <4> QED BY <3>2, <4>1, MembersStep DEF SocietyInv
    <3>3. ASSUME NEW id \in AllianceIds, NEW g \in GuildIds,
                 create_alliance(id, g) \/ add_guild(id, g) \/ remove_guild(id, g)
          PROVE  GuildInv'
      BY <3>3, AlliancesStep DEF SocietyInv
    <3>4. GuildInv'
      BY <2>7, <3>1, <3>2, <3>3 DEF GuildNext
    <3> QED BY <2>2, <2>3, <2>4, <2>5, <2>7, <3>4 DEF SocietyInv
  <2>8. CASE StandingsNext /\ UNCHANGED <<guildVars, plotVars, pool, patchVars>>
    BY <2>1, <2>3, <2>4, <2>5, <2>8, StandingsStep DEF SocietyInv
  <2>9. CASE PlotNext /\ UNCHANGED <<guildVars, standings, pool, patchVars>>
    BY <2>1, <2>2, <2>4, <2>5, <2>9, ClaimsStep DEF SocietyInv
  <2>10. CASE PoolNext /\ UNCHANGED <<guildVars, standings, plotVars, patchVars>>
    BY <2>1, <2>2, <2>3, <2>5, <2>10, PoolStep DEF SocietyInv
  <2>11. CASE PatchNext /\ UNCHANGED <<guildVars, standings, plotVars, pool>>
    <3>1. patch'.state = "Synchronized" <=> presented'
      <4>1. ASSUME NEW digest \in Digests, evaluate_client_manifest(digest)
            PROVE  patch'.state = "Synchronized" <=> presented'
        BY <4>1 DEF evaluate_client_manifest
      <4>2. ASSUME NEW digest \in Digests, complete_patch(digest)
            PROVE  patch'.state = "Synchronized" <=> presented'
        BY <4>2 DEF complete_patch
      <4>3. ASSUME NEW pct \in {0, 100, 101}, update_progress(pct)
            PROVE  patch'.state = "Synchronized" <=> presented'
        <5>1. patch.state # "Synchronized" /\ presented' = presented
              /\ patch'.state = "ApplyingPatch"
          BY <4>3 DEF update_progress
        <5>2. patch.state = "Synchronized" <=> presented
          BY DEF SocietyInv
        <5> QED BY <5>1, <5>2
      <4> QED BY <2>11, <4>1, <4>2, <4>3 DEF PatchNext
    <3> QED BY <2>1, <2>2, <2>3, <2>4, <2>11, <3>1 DEF SocietyInv
  <2>12. CASE GroupNext
    BY <2>6, <2>7, <2>8, <2>9, <2>10, <2>11, <2>12 DEF GroupNext
  <2>13. CASE UNCHANGED groupVars
    BY <2>6, <2>13 DEF groupVars
  <2> QED BY <2>12, <2>13 DEF PlayNext, playVars
<1>3. SocietyInv => SocietySound
  BY GuildInvSuffices, ClaimsInvSuffices, PoolSuffices DEF SocietyInv, SocietySound
<1> QED BY <1>1, <1>2, <1>3, PTL DEF PlaySpec

-------------------------------------------------------------------------------
(* ---------------------------------- items --------------------------------- *)

(* Proof of ItemsSound, for any containers, bags and transactions of callers, *)
(* which may leave the target slot open.                                      *)

Items == [id : Containers \cup Nat, qty : Nat, bag : Containers \cup {"none"}]
Boxes == [slot : [Slots -> Items], locked : SUBSET Slots, weight : 0..MaxWeight]
AllContents == [c \in Containers |-> Content(c)]

(* Recorded weights cover the contents, ids given so far are below the next *)
(* one, a transaction was applied once if and only if it was processed, and *)
(* no bag lies in itself, so that a rollback is not refused for that.       *)
GraphInv ==
    /\ box \in [Containers -> Boxes]
    /\ nextId \in Nat /\ nextId >= 100
    /\ processed \subseteq TxIds
    /\ applied = [tx \in TxIds |-> IF tx \in processed THEN 1 ELSE 0]
    /\ wasted \in Nat
    /\ \A c \in Containers, i \in Slots : ItemIn(c, i).bag # c
    /\ \A c \in Containers, i \in Slots :
           ItemIn(c, i) # Empty => ItemIn(c, i).id # 0 /\ ItemIn(c, i).id \notin {n \in Nat : n >= nextId}
    /\ InstanceIdsUnique
    /\ \A c \in Containers : Content(c) <= box[c].weight
    /\ ItemsConserved

(* The contents of a container are a number (item_graph.rs, Container). *)
LEMMA ContentsAreNumbers ==
    ASSUME box \in [Containers -> Boxes], NEW c \in Containers
    PROVE  /\ Held(c) \in [Slots -> Int] /\ IsFiniteSet(Slots)
           /\ Content(c) \in Int
  <1>1. IsFiniteSet(Slots)
    BY GraphAssumption, FS_Interval DEF Slots
  <1>2. Held(c) \in [Slots -> Int]
    BY DEF Held, ItemIn, Boxes, Items
  <1>3. Content(c) \in Int
    BY <1>1, <1>2, SumIsNumber DEF Content
  <1> QED BY <1>1, <1>2, <1>3

(* One slot changes and the contents by as much, if slots and their items *)
(* are what they are before and after (commit_remove_item, insert_item).  *)
LEMMA OneSlotChanged ==
    ASSUME box \in [Containers -> Boxes], box' \in [Containers -> Boxes],
           NEW c \in Containers, NEW i \in Slots,
           \A k \in Slots \ {i} : box'[c].slot[k] = box[c].slot[k]
    PROVE  /\ Content(c)' = Content(c) - box[c].slot[i].qty + box'[c].slot[i].qty
           /\ Content(c) \in Int /\ Content(c)' \in Int
  <1>1. /\ Held(c) \in [Slots -> Int] /\ Held(c)' \in [Slots -> Int] /\ IsFiniteSet(Slots)
        /\ Content(c) \in Int
    BY ContentsAreNumbers DEF Held, ItemIn, Boxes, Items
  <1> DEFINE u == Held(c)  v == Held(c)'  E == Slots  at == i
  <1>2. u \in [E -> Int] /\ v \in [E -> Int] /\ IsFiniteSet(E) /\ at \in E
    BY <1>1
  <1>3. \A k \in E \ {at} : v[k] = u[k]
    BY DEF Held, ItemIn
  <1>4. u[at] = box[c].slot[i].qty /\ v[at] = box'[c].slot[i].qty
    BY DEF Held, ItemIn
  <1>5. Content(c) = SumFunctionOnSet(u, E) /\ Content(c)' = SumFunctionOnSet(v, E)
    BY DEF Content
  <1> HIDE DEF u, v, E, at
  <1>6. SumFunctionOnSet(v, E) = SumFunctionOnSet(u, E) - u[at] + v[at] /\ SumFunctionOnSet(v, E) \in Int
    BY <1>2, <1>3, OneChanged
  <1> QED BY <1>1, <1>4, <1>5, <1>6

(* Two slots of one container change (a move within it, merge_stack). *)
LEMMA TwoSlotsChanged ==
    ASSUME box \in [Containers -> Boxes], box' \in [Containers -> Boxes],
           NEW c \in Containers, NEW i \in Slots, NEW j \in Slots, i # j,
           \A k \in Slots \ {i, j} : box'[c].slot[k] = box[c].slot[k]
    PROVE  /\ Content(c)' = Content(c) - box[c].slot[i].qty - box[c].slot[j].qty
                                + box'[c].slot[i].qty + box'[c].slot[j].qty
           /\ Content(c) \in Int
  <1>1. /\ Held(c) \in [Slots -> Int] /\ Held(c)' \in [Slots -> Int] /\ IsFiniteSet(Slots)
        /\ Content(c) \in Int
    BY ContentsAreNumbers DEF Held, ItemIn, Boxes, Items
  <1> DEFINE u == Held(c)  v == Held(c)'  E == Slots  at == i  to == j
  <1>2. u \in [E -> Int] /\ v \in [E -> Int] /\ IsFiniteSet(E) /\ at \in E /\ to \in E /\ at # to
    BY <1>1
  <1>3. \A k \in E \ {at, to} : v[k] = u[k]
    BY DEF Held, ItemIn
  <1>4. /\ u[at] = box[c].slot[i].qty /\ v[at] = box'[c].slot[i].qty
        /\ u[to] = box[c].slot[j].qty /\ v[to] = box'[c].slot[j].qty
    BY DEF Held, ItemIn
  <1>5. Content(c) = SumFunctionOnSet(u, E) /\ Content(c)' = SumFunctionOnSet(v, E)
    BY DEF Content
  <1> HIDE DEF u, v, E, at, to
  <1>6. SumFunctionOnSet(v, E) = SumFunctionOnSet(u, E) - u[at] - u[to] + v[at] + v[to]
    BY <1>2, <1>3, TwoChanged
  <1> QED BY <1>1, <1>4, <1>5, <1>6

(* A container whose slots stay has the contents it had. *)
LEMMA SlotsStay ==
    ASSUME NEW c \in Containers, box'[c].slot = box[c].slot
    PROVE  Content(c)' = Content(c)
  BY DEF Content, Held, ItemIn

(* All containers together hold a number of items. *)
LEMMA TotalIsNumber ==
    ASSUME box \in [Containers -> Boxes]
    PROVE  /\ AllContents \in [Containers -> Int] /\ IsFiniteSet(Containers)
           /\ SumFunctionOnSet(AllContents, Containers) \in Int
  <1>1. AllContents \in [Containers -> Int] /\ IsFiniteSet(Containers)
    BY ContentsAreNumbers, GraphAssumption DEF AllContents
  <1> QED BY <1>1, SumIsNumber

(* A change that moves as many items out of one container as into another, *)
(* or are lost, keeps the total (item_transaction.rs, commit_transfer).    *)
LEMMA TotalStays ==
    ASSUME box \in [Containers -> Boxes], box' \in [Containers -> Boxes],
           NEW src \in Containers, NEW dst \in Containers,
           \A c \in Containers \ {src, dst} : Content(c)' = Content(c),
           wasted \in Int, wasted' \in Int,
           src = dst => Content(src)' + wasted' = Content(src) + wasted,
           src # dst => Content(src)' + Content(dst)' = Content(src) + Content(dst) /\ wasted' = wasted,
           ItemsConserved
    PROVE  ItemsConserved'
  <1> DEFINE u == AllContents  v == AllContents'  E == Containers  at == src  to == dst
  <1>1. u \in [E -> Int] /\ v \in [E -> Int] /\ IsFiniteSet(E) /\ at \in E /\ to \in E
    <2>1. AllContents \in [Containers -> Int] /\ IsFiniteSet(Containers)
      BY TotalIsNumber
    <2>2. \A c \in Containers : Content(c)' \in Int
      <3> SUFFICES ASSUME NEW c \in Containers PROVE Content(c)' \in Int
        OBVIOUS
      <3>0. IsFiniteSet(Slots)
        BY GraphAssumption, FS_Interval DEF Slots
      <3>1. Held(c)' \in [Slots -> Int]
        BY DEF Held, ItemIn, Boxes, Items
      <3> DEFINE h == Held(c)'
      <3>2. Content(c)' = SumFunctionOnSet(h, Slots)
        BY DEF Content
      <3>3. h \in [Slots -> Int]
        BY <3>1
      <3> HIDE DEF h
      <3> QED BY <3>0, <3>2, <3>3, SumIsNumber
    <2>3. AllContents' \in [Containers -> Int]
      BY <2>2 DEF AllContents
    <2> QED BY <2>1, <2>3
  <1>2. \A c \in E \ {at, to} : v[c] = u[c]
    BY DEF AllContents
  <1>3. u[at] = Content(src) /\ v[at] = Content(src)' /\ u[to] = Content(dst) /\ v[to] = Content(dst)'
    BY DEF AllContents
  <1>4. ItemsConserved' <=> SumFunctionOnSet(v, E) + wasted' = Stack * Cardinality(Homes) + Cardinality(Bags)
    BY DEF ItemsConserved, AllContents
  <1>5. SumFunctionOnSet(u, E) + wasted = Stack * Cardinality(Homes) + Cardinality(Bags)
    BY DEF ItemsConserved, AllContents
  <1>6. SumFunctionOnSet(v, E) + wasted' = SumFunctionOnSet(u, E) + wasted
    <2>1. CASE src = dst
      <3>1. at = to /\ v[at] + wasted' = u[at] + wasted
        BY <2>1, <1>3
      <3> HIDE DEF u, v, E, at, to
      <3>2. \A c \in E \ {at} : v[c] = u[c]
        BY <1>2, <3>1
      <3>3. SumFunctionOnSet(v, E) = SumFunctionOnSet(u, E) - u[at] + v[at]
        BY <1>1, <3>2, OneChanged
      <3>4. SumFunctionOnSet(u, E) \in Int /\ SumFunctionOnSet(v, E) \in Int
        <4> DEFINE S == E
        <4>1. S \in SUBSET E /\ IsFiniteSet(S)
          BY <1>1
        <4> HIDE DEF S
        <4>2. SumFunctionOnSet(u, S) \in Int /\ SumFunctionOnSet(v, S) \in Int
          BY <1>1, <4>1, SumIsNumber
        <4> QED BY <4>2 DEF S
      <3>5. u[at] \in Int /\ v[at] \in Int
        BY <1>1
      <3> QED BY <3>1, <3>3, <3>4, <3>5
    <2>2. CASE src # dst
      <3>1. at # to /\ v[at] + v[to] = u[at] + u[to] /\ wasted' = wasted
        BY <2>2, <1>3
      <3> HIDE DEF u, v, E, at, to
      <3>2. SumFunctionOnSet(v, E) = SumFunctionOnSet(u, E) - u[at] - u[to] + v[at] + v[to]
        BY <1>1, <1>2, <3>1, TwoChanged
      <3>3. SumFunctionOnSet(u, E) \in Int /\ SumFunctionOnSet(v, E) \in Int
        <4> DEFINE S == E
        <4>1. S \in SUBSET E /\ IsFiniteSet(S)
          BY <1>1
        <4> HIDE DEF S
        <4>2. SumFunctionOnSet(u, S) \in Int /\ SumFunctionOnSet(v, S) \in Int
          BY <1>1, <4>1, SumIsNumber
        <4> QED BY <4>2 DEF S
      <3>4. u[at] \in Int /\ u[to] \in Int /\ v[at] \in Int /\ v[to] \in Int
        BY <1>1
      <3> QED BY <3>1, <3>2, <3>3, <3>4
    <2> QED BY <2>1, <2>2
  <1> QED BY <1>4, <1>5, <1>6

(* A step that moves no item keeps the invariant: a lock, a rejected request, *)
(* a rollback, a move of an item to where it is.                              *)
LEMMA NothingMoves ==
    ASSUME GraphInv, box' \in [Containers -> Boxes],
           \A c \in Containers : box'[c].slot = box[c].slot /\ box'[c].weight >= box[c].weight,
           nextId' \in {nextId, nextId + 1}, wasted' = wasted, processed' \subseteq TxIds,
           applied' = [tx \in TxIds |-> IF tx \in processed' THEN 1 ELSE 0]
    PROVE  GraphInv'
  <1>1. \A c \in Containers : Content(c)' = Content(c)
    BY SlotsStay
  <1>2. \A c \in Containers, k \in Slots : ItemIn(c, k)' = ItemIn(c, k)
    BY DEF ItemIn
  <1>3. box \in [Containers -> Boxes] /\ nextId \in Nat /\ nextId >= 100 /\ wasted \in Nat
    BY DEF GraphInv
  <1>4. ItemsConserved'
    BY <1>1 DEF ItemsConserved, GraphInv
  <1>5. InstanceIdsUnique'
    BY <1>2 DEF InstanceIdsUnique, GraphInv
  <1>6. \A c \in Containers : Content(c)' <= box'[c].weight
    <2> SUFFICES ASSUME NEW c \in Containers PROVE Content(c)' <= box'[c].weight
      OBVIOUS
    <2>1. Content(c) \in Int /\ Content(c) <= box[c].weight
      BY <1>3, ContentsAreNumbers DEF GraphInv
    <2>2. box[c].weight \in Int /\ box'[c].weight \in Int
      BY <1>3, GraphAssumption DEF Boxes
    <2> QED BY <1>1, <2>1, <2>2
  <1>7. \A c \in Containers, k \in Slots :
            /\ ItemIn(c, k)'.bag # c
            /\ ItemIn(c, k)' # Empty => ItemIn(c, k)'.id # 0
                                       /\ ItemIn(c, k)'.id \notin {n \in Nat : n >= nextId'}
    BY <1>2, <1>3 DEF GraphInv
  <1>8. nextId' \in Nat /\ nextId' >= 100
    BY <1>3
  <1> QED BY <1>3, <1>4, <1>5, <1>6, <1>7, <1>8 DEF GraphInv

(* What becomes of two slots: the first keeps its item or empties, the second *)
(* keeps its item, or is given the first one's, which empties, or one with a  *)
(* fresh id.  Then no two items have the same id (item_graph.rs).             *)
LEMMA IdsStayApart ==
    ASSUME GraphInv,
           NEW src \in Containers, NEW i \in Slots, NEW dst \in Containers, NEW j \in Slots,
           <<src, i>> # <<dst, j>>,
           \A c \in Containers, k \in Slots :
               <<c, k>> \notin {<<src, i>>, <<dst, j>>} => ItemIn(c, k)' = ItemIn(c, k),
           ItemIn(src, i) # Empty,
           ItemIn(src, i)' = Empty \/ ItemIn(src, i)'.id = ItemIn(src, i).id,
           \/ ItemIn(dst, j) # Empty /\ ItemIn(dst, j)'.id = ItemIn(dst, j).id
           \/ ItemIn(src, i)' = Empty /\ ItemIn(dst, j)'.id = ItemIn(src, i).id
           \/ ItemIn(dst, j)'.id = nextId /\ nextId' = nextId + 1,
           nextId' \in {nextId, nextId + 1}
    PROVE  /\ InstanceIdsUnique'
           /\ \A c \in Containers, k \in Slots : ItemIn(c, k)' # Empty =>
                  ItemIn(c, k)'.id # 0 /\ ItemIn(c, k)'.id \notin {n \in Nat : n >= nextId'}
  <1> DEFINE old(p) == ItemIn(p[1], p[2])  new(p) == ItemIn(p[1], p[2])'
             P == Containers \X Slots  at == <<src, i>>  to == <<dst, j>>
  <1>1. /\ nextId \in Nat /\ nextId >= 100
        /\ \A p \in P : old(p) # Empty => old(p).id # 0 /\ old(p).id \notin {n \in Nat : n >= nextId}
    BY DEF GraphInv
  <1>2. \A p, r \in P : p # r /\ old(p) # Empty => old(p).id # old(r).id
    <2> SUFFICES ASSUME NEW p \in P, NEW r \in P, p # r, old(p) # Empty PROVE old(p).id # old(r).id
      OBVIOUS
    <2>1. p = <<p[1], p[2]>> /\ r = <<r[1], r[2]>> /\ p[1] \in Containers /\ p[2] \in Slots
          /\ r[1] \in Containers /\ r[2] \in Slots
      OBVIOUS
    <2>2. <<p[1], p[2]>> # <<r[1], r[2]>>
      BY <2>1
    <2> QED BY <2>1, <2>2 DEF GraphInv, InstanceIdsUnique
  <1>3. \A p \in P : p \notin {at, to} => new(p) = old(p)
    <2> SUFFICES ASSUME NEW p \in P, p \notin {at, to} PROVE new(p) = old(p)
      OBVIOUS
    <2>1. p = <<p[1], p[2]>> /\ p[1] \in Containers /\ p[2] \in Slots
      OBVIOUS
    <2> QED BY <2>1
  <1>4. at \in P /\ to \in P /\ at # to /\ old(at) # Empty
    OBVIOUS
  <1>5. new(at) = Empty \/ new(at).id = old(at).id
    OBVIOUS
  <1>6. \/ old(to) # Empty /\ new(to).id = old(to).id
        \/ new(at) = Empty /\ new(to).id = old(at).id
        \/ new(to).id = nextId /\ nextId' = nextId + 1
    OBVIOUS
  <1>7. nextId' \in Nat /\ nextId' >= nextId
    BY <1>1
  <1>8. Empty.id = 0
    BY DEF Empty
  <1> HIDE DEF old, new, P, at, to
  <1>9. \A p \in P : new(p) # Empty => new(p).id # 0 /\ new(p).id \notin {n \in Nat : n >= nextId'}
    <2> SUFFICES ASSUME NEW p \in P, new(p) # Empty
                 PROVE  new(p).id # 0 /\ new(p).id \notin {n \in Nat : n >= nextId'}
      OBVIOUS
    <2>1. CASE p \notin {at, to}
      BY <2>1, <1>1, <1>3, <1>7
    <2>2. CASE p = at
      BY <2>2, <1>1, <1>4, <1>5, <1>7
    <2>3. CASE p = to
      <3>1. CASE new(to).id = nextId /\ nextId' = nextId + 1
        BY <2>3, <3>1, <1>1
      <3>2. CASE \E r \in {at, to} : old(r) # Empty /\ new(to).id = old(r).id
        BY <2>3, <3>2, <1>1, <1>4, <1>7
      <3> QED BY <3>1, <3>2, <1>4, <1>6
    <2> QED BY <2>1, <2>2, <2>3
  <1>10. \A p, r \in P : p # r /\ new(p) # Empty => new(p).id # new(r).id
    <2> SUFFICES ASSUME NEW p \in P, NEW r \in P, p # r, new(p) # Empty, new(r) # Empty
                 PROVE  new(p).id # new(r).id
      BY <1>8, <1>9
    <2>1. ASSUME NEW s \in P, s # to, new(s) # Empty
          PROVE  new(s).id = old(s).id /\ old(s) # Empty
      BY <2>1, <1>3, <1>4, <1>5
    <2>2. ASSUME NEW s \in P, s # to, new(s) # Empty, new(to) # Empty PROVE new(s).id # new(to).id
      <3>1. new(s).id = old(s).id /\ old(s) # Empty
        BY <2>1, <2>2
      <3>2. CASE old(to) # Empty /\ new(to).id = old(to).id
        BY <3>1, <3>2, <2>2, <1>2, <1>4
      <3>3. CASE new(at) = Empty /\ new(to).id = old(at).id
        <4>1. s # at
          BY <3>3, <2>2
        <4> QED BY <4>1, <3>1, <3>3, <1>2, <1>4
      <3>4. CASE new(to).id = nextId
        BY <3>1, <3>4, <1>1
      <3> QED BY <3>2, <3>3, <3>4, <1>6
    <2>3. CASE p # to /\ r # to
      BY <2>1, <2>3, <1>2
    <2>4. CASE r = to
      BY <2>2, <2>4
    <2>5. CASE p = to
      BY <2>2, <2>5
    <2> QED BY <2>3, <2>4, <2>5
  <1>11. InstanceIdsUnique'
    <2> SUFFICES ASSUME NEW c \in Containers, NEW d \in Containers, NEW k \in Slots, NEW l \in Slots,
                        <<c, k>> # <<d, l>>, ItemIn(c, k)' # Empty
                 PROVE  ItemIn(c, k)'.id # ItemIn(d, l)'.id
      BY DEF InstanceIdsUnique
    <2> DEFINE p == <<c, k>>  r == <<d, l>>
    <2>1. p \in P /\ r \in P /\ p # r /\ new(p) = ItemIn(c, k)' /\ new(r) = ItemIn(d, l)'
      BY DEF P, new
    <2> HIDE DEF p, r
    <2> QED BY <2>1, <1>10
  <1>12. ASSUME NEW c \in Containers, NEW k \in Slots, ItemIn(c, k)' # Empty
         PROVE  ItemIn(c, k)'.id # 0 /\ ItemIn(c, k)'.id \notin {n \in Nat : n >= nextId'}
    <2> DEFINE p == <<c, k>>
    <2>1. p \in P /\ new(p) = ItemIn(c, k)'
      BY DEF P, new
    <2> HIDE DEF p
    <2> QED BY <2>1, <1>9, <1>12
  <1> QED BY <1>11, <1>12

(* Merging stacks moves as much from one to the other as fits *)
(* (item_graph.rs, merge_stack).                              *)
LEMMA MergeKeepsInv ==
    ASSUME GraphInv, NEW c \in Containers, NEW i \in Slots, NEW j \in Slots, merge_stack(c, i, j)
    PROVE  GraphInv'
  <1> DEFINE x == box[c].slot[i]
             y == box[c].slot[j]
             n == Min({x.qty, StackLimit - y.qty})
             left == IF x.qty = n THEN Empty ELSE [x EXCEPT !.qty = x.qty - n]
             more == [y EXCEPT !.qty = y.qty + n]
  <1>1. /\ i # j /\ x # Empty /\ y # Empty /\ y.qty < StackLimit
        /\ x \in Items /\ y \in Items /\ box \in [Containers -> Boxes]
    BY DEF merge_stack, Filled, ItemIn, GraphInv, Boxes
  <1>2. n \in Nat /\ n <= x.qty
    <2>1. x.qty \in Nat /\ StackLimit - y.qty \in Nat
      BY <1>1, GraphAssumption DEF Items
    <2> DEFINE S == {x.qty, StackLimit - y.qty}
    <2>2. S \subseteq Nat /\ S # {} /\ x.qty \in S
      BY <2>1
    <2> HIDE DEF S, x, y
    <2>3. Min(S) \in S /\ \A k \in S : Min(S) <= k
      BY <2>2, MinOf
    <2> QED BY <2>2, <2>3 DEF S
  <1>3. box' = [box EXCEPT ![c].slot = [@ EXCEPT ![j] = more, ![i] = left]]
    <2>1. box' = [box EXCEPT ![c].slot = Merged(@, i, j)]
      BY DEF merge_stack
    <2>2. Merged(box[c].slot, i, j) = [box[c].slot EXCEPT ![j] = more, ![i] = left]
      <3>1. [box[c].slot EXCEPT ![j].qty = @ + n] = [box[c].slot EXCEPT ![j] = more]
        BY <1>1 DEF Boxes
      <3>2. Merged(box[c].slot, i, j) = [[box[c].slot EXCEPT ![j].qty = @ + n] EXCEPT ![i] =
                IF @.qty = n THEN Empty ELSE [@ EXCEPT !.qty = box[c].slot[i].qty - n]]
        BY DEF Merged
      <3> HIDE DEF n
      <3> QED BY <3>1, <3>2, <1>1 DEF Boxes
    <2> QED BY <2>1, <2>2
  <1>4. left \in Items /\ more \in Items /\ left.qty = x.qty - n /\ more.qty = y.qty + n
        /\ (left = Empty \/ left.id = x.id) /\ more.id = y.id
        /\ left.bag \in {x.bag, "none"} /\ more.bag = y.bag
    <2>1. x.qty \in Nat /\ y.qty \in Nat
      BY <1>1 DEF Items
    <2> HIDE DEF n, x, y
    <2>2. CASE x.qty = n
      BY <2>1, <2>2, <1>1, <1>2 DEF Items, Empty
    <2>3. CASE x.qty # n
      BY <2>1, <2>3, <1>1, <1>2 DEF Items
    <2> QED BY <2>2, <2>3
  <1> HIDE DEF n, left, more, x, y
  <1>5. /\ box' \in [Containers -> Boxes]
        /\ box'[c].slot[i] = left /\ box'[c].slot[j] = more
        /\ \A d \in Containers : box'[d].weight = box[d].weight
        /\ \A d \in Containers \ {c} : box'[d].slot = box[d].slot
        /\ \A k \in Slots \ {i, j} : box'[c].slot[k] = box[c].slot[k]
    <2>1. [box[c].slot EXCEPT ![j] = more, ![i] = left] \in [Slots -> Items]
      BY <1>1, <1>4 DEF Boxes
    <2>2. box' \in [Containers -> Boxes]
      BY <2>1, <1>1, <1>3 DEF Boxes
    <2>3. box'[c].slot = [box[c].slot EXCEPT ![j] = more, ![i] = left]
      BY <1>1, <1>3 DEF Boxes
    <2>4. \A d \in Containers : box'[d].weight = box[d].weight
      BY <1>1, <1>3 DEF Boxes
    <2>5. \A d \in Containers \ {c} : box'[d].slot = box[d].slot
      BY <1>1, <1>3 DEF Boxes
    <2>6. box[c].slot \in [Slots -> Items]
      BY <1>1 DEF Boxes
    <2> QED BY <2>2, <2>3, <2>4, <2>5, <2>6, <1>1
  <1>6. Content(c)' = Content(c)
    <2>1. Content(c)' = Content(c) - box[c].slot[i].qty - box[c].slot[j].qty
                          + box'[c].slot[i].qty + box'[c].slot[j].qty /\ Content(c) \in Int
      BY <1>1, <1>5, TwoSlotsChanged
    <2>2. x.qty \in Nat /\ y.qty \in Nat
      BY <1>1 DEF Items
    <2>3. box[c].slot[i] = x /\ box[c].slot[j] = y
      BY DEF x, y
    <2> QED BY <2>1, <2>2, <2>3, <1>2, <1>4, <1>5
  <1>7. \A d \in Containers : Content(d)' = Content(d)
    BY <1>5, <1>6, SlotsStay
  <1>10. UNCHANGED <<processed, nextId, applied, wasted>>
    BY DEF merge_stack
  <1>8. ItemsConserved'
    BY <1>7, <1>10 DEF ItemsConserved, GraphInv
  <1>11. \A d \in Containers, k \in Slots : ItemIn(d, k)'.bag # d
    <2> SUFFICES ASSUME NEW d \in Containers, NEW k \in Slots PROVE ItemIn(d, k)'.bag # d
      OBVIOUS
    <2>1. ItemIn(d, k).bag # d /\ d # "none"
      BY GraphAssumption DEF GraphInv
    <2>2. CASE d = c /\ k = i
      BY <2>1, <2>2, <1>4, <1>5 DEF ItemIn, x
    <2>3. CASE d = c /\ k = j
      BY <2>1, <2>3, <1>4, <1>5 DEF ItemIn, y
    <2>4. CASE d # c \/ k \notin {i, j}
      BY <2>1, <2>4, <1>5 DEF ItemIn
    <2> QED BY <2>2, <2>3, <2>4
  <1>9. /\ InstanceIdsUnique'
        /\ \A d \in Containers, k \in Slots : ItemIn(d, k)' # Empty =>
               ItemIn(d, k)'.id # 0 /\ ItemIn(d, k)'.id \notin {m \in Nat : m >= nextId'}
    <2>1. ItemIn(c, i) = x /\ ItemIn(c, j) = y /\ ItemIn(c, i)' = left /\ ItemIn(c, j)' = more
      BY <1>5 DEF ItemIn, x, y
    <2>2. \A d \in Containers, k \in Slots :
              <<d, k>> \notin {<<c, i>>, <<c, j>>} => ItemIn(d, k)' = ItemIn(d, k)
      BY <1>5 DEF ItemIn
    <2>3. nextId' = nextId
      BY DEF merge_stack
    <2>4. <<c, i>> # <<c, j>>
      BY <1>1
    <2> QED BY <2>1, <2>2, <2>3, <2>4, <1>1, <1>4, IdsStayApart
  <1>12. \A d \in Containers : Content(d)' <= box'[d].weight
    BY <1>5, <1>7 DEF GraphInv
  <1> QED BY <1>5, <1>8, <1>9, <1>10, <1>11, <1>12 DEF GraphInv

(* What is left of the source container when a part or all of a slot is taken *)
(* out of it, and the slot that is found for it, if one is.                   *)
TakenFrom(src, i, q, w) ==
    IF ItemIn(src, i).qty = q THEN Removed(box[src], i, w) ELSE Split(box[src], i, q)
FoundFor(src, i, dst, a, q) ==
    IF src = dst THEN Place(src, TakenFrom(src, i, q, 0), Moved(ItemIn(src, i), q), a, 0)
    ELSE Place(dst, box[dst], Moved(ItemIn(src, i), q), a, q)

(* What is taken out of a slot leaves the rest of the container as it was *)
(* (item_graph.rs, commit_remove_item, commit_split_stack).               *)
RestStays(src, i, q, w) ==
    LET item == ItemIn(src, i)
        left == IF item.qty = q THEN Empty ELSE [item EXCEPT !.qty = item.qty - q]
        out == TakenFrom(src, i, q, w)
    IN  /\ out = [slot |-> [box[src].slot EXCEPT ![i] = left], locked |-> box[src].locked,
                  weight |-> out.weight]
        /\ out \in Boxes
        /\ out.weight >= box[src].weight - w /\ out.weight <= box[src].weight
        /\ (w = 0 \/ item.qty # q) => out.weight = box[src].weight

(* So it does, with whatever weight goes (item_graph.rs). *)
LEMMA TakenLeaves ==
    ASSUME box \in [Containers -> Boxes], NEW src \in Containers, NEW i \in Slots,
           NEW q \in Nat \ {0}, q <= ItemIn(src, i).qty, NEW w \in Nat
    PROVE  RestStays(src, i, q, w)
  <1> DEFINE item == ItemIn(src, i)
             left == IF item.qty = q THEN Empty ELSE [item EXCEPT !.qty = item.qty - q]
             less == IF item.qty = q THEN (IF box[src].weight < w THEN 0 ELSE box[src].weight - w)
                                     ELSE box[src].weight
             out == TakenFrom(src, i, q, w)
  <1>1. /\ box[src] \in Boxes /\ item \in Items /\ item.qty \in Nat
        /\ box[src].weight \in 0..MaxWeight /\ box[src].slot \in [Slots -> Items] /\ MaxWeight \in Nat
        /\ box[src].locked \in SUBSET Slots /\ q <= item.qty
    BY GraphAssumption DEF Boxes, Items, ItemIn
  <1>2. less \in 0..MaxWeight /\ less >= box[src].weight - w /\ less <= box[src].weight
        /\ ((w = 0 \/ item.qty # q) => less = box[src].weight)
    BY <1>1
  <1>3. left \in Items
    <2>1. Empty \in Items
      BY DEF Empty, Items
    <2> HIDE DEF item
    <2> QED BY <2>1, <1>1 DEF Items
  <1>4. out = [slot |-> [box[src].slot EXCEPT ![i] = left], locked |-> box[src].locked, weight |-> less]
    <2>1. CASE item.qty = q
      BY <2>1, <1>1 DEF TakenFrom, Removed, Boxes, ItemIn
    <2>2. CASE item.qty # q
      <3>1. [box[src].slot EXCEPT ![i].qty = @ - q] = [box[src].slot EXCEPT ![i] = left]
        BY <2>2, <1>1 DEF ItemIn
      <3> QED BY <2>2, <3>1, <1>1 DEF TakenFrom, Split, Boxes
    <2> QED BY <2>1, <2>2
  <1> HIDE DEF left, less, out, item
  <1>5. [box[src].slot EXCEPT ![i] = left] \in [Slots -> Items]
    BY <1>1, <1>3
  <1>6. out \in Boxes
    BY <1>1, <1>2, <1>4, <1>5 DEF Boxes
  <1>7. out.weight = less
    BY <1>4
  <1> QED BY <1>2, <1>4, <1>6, <1>7 DEF item, left, out, RestStays

(* A transfer for which another slot was found is committed: what is asked   *)
(* for leaves its slot and lies in the one found, with its weight if that is *)
(* in another container (item_transaction.rs).                               *)
CommittedTo(tx, src, i, dst, j, q) ==
    LET item == ItemIn(src, i)
        moved == Moved(item, q)
        left == IF item.qty = q THEN Empty ELSE [item EXCEPT !.qty = item.qty - q]
    IN  /\ item # Empty /\ item \in Items /\ q <= item.qty /\ moved \in Items
        /\ left \in Items /\ <<src, i>> # <<dst, j>>
        /\ box' \in [Containers -> Boxes]
        /\ box'[src].slot[i] = left /\ box'[dst].slot[j] = moved
        /\ box[dst].slot[j] = Empty
        /\ \A c \in Containers, k \in Slots :
               <<c, k>> \notin {<<src, i>>, <<dst, j>>} => box'[c].slot[k] = box[c].slot[k]
        /\ \A c \in Containers \ {src, dst} : box'[c].weight = box[c].weight
        /\ src = dst => box'[src].weight = box[src].weight
        /\ src # dst => /\ box'[dst].weight = box[dst].weight + q
                        /\ box'[src].weight >= box[src].weight - q
        /\ processed' = processed \cup {tx} /\ tx \notin processed
        /\ applied' = [applied EXCEPT ![tx] = @ + 1]
        /\ nextId' = nextId + 1 /\ wasted' = wasted /\ moved.bag = item.bag /\ item.bag # dst

(* So it is, whatever slot was asked for (item_transaction.rs). *)
LEMMA TransferCommits ==
    ASSUME GraphInv, NEW tx \in TxIds, NEW src \in Containers, NEW i \in Slots,
           NEW dst \in Containers, NEW a \in Slots \cup {AnySlot}, NEW j \in Slots, NEW q \in Nat \ {0},
           execute_transfer(tx, src, i, dst, a, q),
           FoundFor(src, i, dst, a, q) = j, <<src, i>> # <<dst, j>>, j \in Free(box[dst])
    PROVE  CommittedTo(tx, src, i, dst, j, q)
  <1> DEFINE item == ItemIn(src, i)
             moved == Moved(item, q)
             left == IF item.qty = q THEN Empty ELSE [item EXCEPT !.qty = item.qty - q]
  <1>1. /\ box \in [Containers -> Boxes] /\ item \in Items /\ box[src] \in Boxes /\ box[dst] \in Boxes
        /\ nextId \in Nat
    BY DEF GraphInv, ItemIn, Boxes
  <1>2. /\ tx \notin processed /\ item # Empty /\ q <= item.qty /\ item.bag # dst
        /\ i \notin box[src].locked
        /\ box[dst].weight + q <= MaxWeight /\ j \in Free(box[dst])
    BY DEF execute_transfer, Prepared
  <1>3. box[dst].slot[j] = Empty /\ j \notin box[dst].locked
    BY <1>2 DEF Free
  <1>4. <<src, i>> # <<dst, j>>
    OBVIOUS
  <1>5. item.qty \in Nat
    BY <1>1 DEF Items
  <1>6. /\ moved \in Items /\ moved.bag = item.bag
        /\ left \in Items
    <2>1. Empty \in Items
      BY DEF Empty, Items
    <2> HIDE DEF item
    <2>2. left \in Items
      BY <2>1, <1>1, <1>2, <1>5 DEF Items
    <2>3. moved \in Items /\ moved.bag = item.bag
      BY <1>1, <1>2, <1>5 DEF Moved, Items
    <2> QED BY <2>2, <2>3
  <1> DEFINE b(w) == IF item.qty = q THEN Removed(box[src], i, w) ELSE Split(box[src], i, q)
             less(w) == IF item.qty = q THEN (IF box[src].weight < w THEN 0 ELSE box[src].weight - w)
                                        ELSE box[src].weight
  <1>8. ASSUME NEW w \in Nat
        PROVE  /\ b(w) = [slot |-> [box[src].slot EXCEPT ![i] = left], locked |-> box[src].locked,
                          weight |-> less(w)]
               /\ b(w) \in Boxes
               /\ less(w) >= box[src].weight - w /\ less(w) <= box[src].weight
               /\ w = 0 => less(w) = box[src].weight
    <2>1. box[src].weight \in 0..MaxWeight /\ box[src].slot \in [Slots -> Items] /\ MaxWeight \in Nat
      BY <1>1, GraphAssumption DEF Boxes
    <2>2. less(w) \in 0..MaxWeight /\ less(w) >= box[src].weight - w /\ less(w) <= box[src].weight
          /\ (w = 0 => less(w) = box[src].weight)
      BY <2>1
    <2>3. b(w) = [slot |-> [box[src].slot EXCEPT ![i] = left], locked |-> box[src].locked,
                  weight |-> less(w)]
      <3>1. CASE item.qty = q
        BY <3>1, <1>1, <2>1 DEF Removed, Boxes, ItemIn
      <3>2. CASE item.qty # q
        <4>1. [box[src].slot EXCEPT ![i].qty = @ - q] = [box[src].slot EXCEPT ![i] = left]
          BY <3>2, <2>1 DEF ItemIn
        <4> QED BY <3>2, <4>1, <1>1, <2>1 DEF Split, Boxes
      <3> QED BY <3>1, <3>2
    <2>4. [box[src].slot EXCEPT ![i] = left] \in [Slots -> Items]
      BY <2>1, <1>6
    <2>5. b(w) \in Boxes
      <3> HIDE DEF b, left, less
      <3> QED BY <2>2, <2>3, <2>4, <1>1 DEF Boxes
    <2> QED BY <2>2, <2>3, <2>5
  <1>9. CASE src = dst
    <2> DEFINE out == b(0)
    <2>1. /\ out = [slot |-> [box[src].slot EXCEPT ![i] = left], locked |-> box[src].locked,
                    weight |-> box[src].weight]
          /\ out \in Boxes
      BY <1>8
    <2>2. i # j /\ box[src].slot \in [Slots -> Items] /\ box[src].weight \in 0..MaxWeight
      BY <1>1, <1>4, <1>9 DEF Boxes
    <2>3. Place(src, out, moved, a, 0) = j
      BY <1>9 DEF FoundFor, TakenFrom
    <2>4. j # NoSlot
      BY GraphAssumption DEF NoSlot, Slots
    <2>5. CommitIntra(src, i, a, q) = [done |-> TRUE, box |-> [box EXCEPT ![src] = Inserted(out, moved, j, 0)]]
      <3>1. CommitIntra(src, i, a, q) =
               [done |-> Place(src, out, moved, a, 0) # NoSlot,
                box |-> [box EXCEPT ![src] = IF Place(src, out, moved, a, 0) = NoSlot THEN out
                             ELSE Inserted(out, moved, Place(src, out, moved, a, 0), 0)]]
        BY DEF CommitIntra
      <3> HIDE DEF out, moved
      <3> QED BY <3>1, <2>3, <2>4
    <2>6. /\ box' = [box EXCEPT ![src] = Inserted(out, moved, j, 0)]
          /\ processed' = processed \cup {tx} /\ applied' = [applied EXCEPT ![tx] = @ + 1]
          /\ nextId' = nextId + 1 /\ wasted' = wasted
      BY <2>5, <1>9 DEF execute_transfer
    <2> DEFINE new == Inserted(out, moved, j, 0)
    <2>7. /\ new = [slot |-> [[box[src].slot EXCEPT ![i] = left] EXCEPT ![j] = moved],
                    locked |-> box[src].locked, weight |-> box[src].weight]
      <3> HIDE DEF left, moved, out
      <3>1. new = [out EXCEPT !.slot = [out.slot EXCEPT ![j] = moved], !.weight = out.weight + 0]
        BY DEF Inserted
      <3>2. out.weight + 0 = box[src].weight /\ out.slot = [box[src].slot EXCEPT ![i] = left]
            /\ out.locked = box[src].locked
        BY <2>1, <2>2
      <3> HIDE DEF new
      <3> QED BY <3>1, <3>2, <2>1
    <2>8. new \in Boxes /\ new.weight = box[src].weight
          /\ new.slot[i] = left /\ new.slot[j] = moved
          /\ \A k \in Slots \ {i, j} : new.slot[k] = box[src].slot[k]
      <3>1. [[box[src].slot EXCEPT ![i] = left] EXCEPT ![j] = moved] \in [Slots -> Items]
        BY <2>2, <1>6
      <3>2. new \in Boxes
        <4> HIDE DEF new, left, moved
        <4> QED BY <3>1, <2>7, <1>1 DEF Boxes
      <3> HIDE DEF left, moved, new
      <3> QED BY <3>2, <2>2, <2>7
    <2> HIDE DEF new, left, moved, item
    <2>9. /\ box' \in [Containers -> Boxes] /\ box'[src] = new
          /\ \A c \in Containers \ {src} : box'[c] = box[c]
      BY <2>6, <2>8, <1>1 DEF new
    <2>10. \A c \in Containers, k \in Slots :
                <<c, k>> \notin {<<src, i>>, <<dst, j>>} => box'[c].slot[k] = box[c].slot[k]
      BY <2>8, <2>9, <1>9
    <2>11. \A c \in Containers \ {src, dst} : box'[c].weight = box[c].weight
      BY <2>9
    <2>12. box'[src].slot[i] = left /\ box'[dst].slot[j] = moved /\ box'[src].weight = box[src].weight
      BY <2>8, <2>9, <1>9
    <2>13. /\ item # Empty /\ item \in Items /\ q <= item.qty /\ moved \in Items /\ left \in Items
           /\ <<src, i>> # <<dst, j>> /\ box[dst].slot[j] = Empty /\ tx \notin processed
           /\ moved.bag = item.bag /\ item.bag # dst
      BY <1>1, <1>2, <1>3, <1>4, <1>6
    <2> QED BY <2>6, <2>9, <2>10, <2>11, <2>12, <2>13, <1>9 DEF left, moved, item, CommittedTo
  <1>10. CASE src # dst
    <2> DEFINE out == b(q)
    <2>1. /\ out = [slot |-> [box[src].slot EXCEPT ![i] = left], locked |-> box[src].locked,
                    weight |-> less(q)]
          /\ out \in Boxes /\ less(q) >= box[src].weight - q
      BY <1>8
    <2>2. Place(dst, box[dst], moved, a, q) = j
      BY <1>10 DEF FoundFor
    <2>3. j # NoSlot
      BY GraphAssumption DEF NoSlot, Slots
    <2> DEFINE new == Inserted(box[dst], moved, j, q)
    <2>4. CommitInter(src, i, dst, a, q) =
             [done |-> TRUE, box |-> [box EXCEPT ![src] = out, ![dst] = new]]
      BY <2>2, <2>3 DEF CommitInter
    <2>5. /\ box' = [box EXCEPT ![src] = out, ![dst] = new]
          /\ processed' = processed \cup {tx} /\ applied' = [applied EXCEPT ![tx] = @ + 1]
          /\ nextId' = nextId + 1 /\ wasted' = wasted
      BY <2>4, <1>10 DEF execute_transfer
    <2>6. /\ new = [slot |-> [box[dst].slot EXCEPT ![j] = moved], locked |-> box[dst].locked,
                    weight |-> box[dst].weight + q]
      <3> HIDE DEF moved
      <3>1. new = [box[dst] EXCEPT !.slot = [box[dst].slot EXCEPT ![j] = moved],
                                   !.weight = box[dst].weight + q]
        BY DEF Inserted
      <3> HIDE DEF new
      <3> QED BY <3>1, <1>1 DEF Boxes
    <2>7. /\ new \in Boxes /\ new.weight = box[dst].weight + q /\ new.slot[j] = moved
          /\ \A k \in Slots \ {j} : new.slot[k] = box[dst].slot[k]
      <3>0. box[dst].slot \in [Slots -> Items] /\ box[dst].weight + q \in 0..MaxWeight
            /\ box[dst].locked \in SUBSET Slots
        BY <1>1, <1>2, GraphAssumption DEF Boxes
      <3>1. [box[dst].slot EXCEPT ![j] = moved] \in [Slots -> Items]
        BY <3>0, <1>6
      <3> HIDE DEF new, moved
      <3>2. new \in Boxes
        BY <3>0, <3>1, <2>6 DEF Boxes
      <3> QED BY <3>0, <3>2, <2>6
    <2>8. out.slot[i] = left /\ out.weight = less(q) /\ \A k \in Slots \ {i} : out.slot[k] = box[src].slot[k]
      <3>1. box[src].slot \in [Slots -> Items]
        BY <1>1 DEF Boxes
      <3> HIDE DEF out, left, less
      <3> QED BY <2>1, <3>1
    <2> HIDE DEF new, out, left, moved, item, less
    <2>9. /\ box' \in [Containers -> Boxes] /\ box'[src] = out /\ box'[dst] = new
          /\ \A c \in Containers \ {src, dst} : box'[c] = box[c]
      BY <2>1, <2>5, <2>7, <1>1, <1>10
    <2>10. \A c \in Containers, k \in Slots :
                <<c, k>> \notin {<<src, i>>, <<dst, j>>} => box'[c].slot[k] = box[c].slot[k]
      BY <2>7, <2>8, <2>9, <1>10
    <2>11. \A c \in Containers \ {src, dst} : box'[c].weight = box[c].weight
      BY <2>9
    <2>12. /\ box'[src].slot[i] = left /\ box'[dst].slot[j] = moved
           /\ box'[dst].weight = box[dst].weight + q /\ box'[src].weight >= box[src].weight - q
      BY <2>1, <2>7, <2>8, <2>9
    <2>13. /\ item # Empty /\ item \in Items /\ q <= item.qty /\ moved \in Items /\ left \in Items
           /\ <<src, i>> # <<dst, j>> /\ box[dst].slot[j] = Empty /\ tx \notin processed
           /\ moved.bag = item.bag /\ item.bag # dst
      BY <1>1, <1>2, <1>3, <1>4, <1>6
    <2> QED BY <2>5, <2>9, <2>10, <2>11, <2>12, <2>13, <1>10 DEF left, moved, item, CommittedTo
  <1> QED BY <1>9, <1>10

(* So it keeps what the items amount to (item_transaction.rs). *)
LEMMA CommitKeepsInv ==
    ASSUME GraphInv, NEW tx \in TxIds, NEW src \in Containers, NEW i \in Slots,
           NEW dst \in Containers, NEW a \in Slots \cup {AnySlot}, NEW j \in Slots, NEW q \in Nat \ {0},
           execute_transfer(tx, src, i, dst, a, q),
           FoundFor(src, i, dst, a, q) = j, <<src, i>> # <<dst, j>>, j \in Free(box[dst])
    PROVE  GraphInv'
  <1> DEFINE item == ItemIn(src, i)
             moved == Moved(item, q)
             left == IF item.qty = q THEN Empty ELSE [item EXCEPT !.qty = item.qty - q]
  <1>0. /\ item # Empty /\ item \in Items /\ q <= item.qty /\ moved \in Items
        /\ left \in Items /\ <<src, i>> # <<dst, j>>
        /\ box' \in [Containers -> Boxes]
        /\ box'[src].slot[i] = left /\ box'[dst].slot[j] = moved
        /\ box[dst].slot[j] = Empty
        /\ \A c \in Containers, k \in Slots :
               <<c, k>> \notin {<<src, i>>, <<dst, j>>} => box'[c].slot[k] = box[c].slot[k]
        /\ \A c \in Containers \ {src, dst} : box'[c].weight = box[c].weight
        /\ src = dst => box'[src].weight = box[src].weight
        /\ src # dst => /\ box'[dst].weight = box[dst].weight + q
                        /\ box'[src].weight >= box[src].weight - q
        /\ processed' = processed \cup {tx} /\ tx \notin processed
        /\ applied' = [applied EXCEPT ![tx] = @ + 1]
        /\ nextId' = nextId + 1 /\ wasted' = wasted /\ moved.bag = item.bag /\ item.bag # dst
    <2>1. CommittedTo(tx, src, i, dst, j, q)
      BY TransferCommits
    <2> QED BY <2>1, Zenon DEF CommittedTo
  <1> HIDE DEF item, moved, left
  <1>1. /\ item # Empty /\ item \in Items /\ q <= item.qty /\ moved \in Items
        /\ left \in Items /\ <<src, i>> # <<dst, j>>
        /\ box' \in [Containers -> Boxes]
        /\ box'[src].slot[i] = left /\ box'[dst].slot[j] = moved
        /\ box[dst].slot[j] = Empty
    BY <1>0
  <1>2. \A c \in Containers, k \in Slots :
            <<c, k>> \notin {<<src, i>>, <<dst, j>>} => box'[c].slot[k] = box[c].slot[k]
    BY <1>0
  <1>3. /\ \A c \in Containers \ {src, dst} : box'[c].weight = box[c].weight
        /\ src = dst => box'[src].weight = box[src].weight
        /\ src # dst => /\ box'[dst].weight = box[dst].weight + q
                        /\ box'[src].weight >= box[src].weight - q
    BY <1>0
  <1>4. /\ processed' = processed \cup {tx} /\ tx \notin processed
        /\ applied' = [applied EXCEPT ![tx] = @ + 1]
        /\ nextId' = nextId + 1 /\ wasted' = wasted
    BY <1>0
  <1>5. box \in [Containers -> Boxes] /\ nextId \in Nat /\ nextId >= 100 /\ wasted \in Nat
    BY DEF GraphInv
  <1>6. /\ item.qty \in Nat /\ moved.qty = q /\ left.qty = item.qty - q
        /\ (left = Empty \/ left.id = item.id)
        /\ \/ left = Empty /\ moved.id = item.id
           \/ moved.id = nextId
    <2>1. item.qty \in Nat
      BY <1>1 DEF Items
    <2>2. CASE item.qty = q
      BY <2>1, <2>2, <1>1 DEF Moved, Items, Empty, moved, left
    <2>3. CASE item.qty # q
      BY <2>1, <2>3, <1>1 DEF Moved, Items, Empty, moved, left
    <2> QED BY <2>2, <2>3
  <1>7. item = box[src].slot[i]
    BY DEF ItemIn, item
  <1>8. \A c \in Containers \ {src, dst} : Content(c)' = Content(c)
    <2> SUFFICES ASSUME NEW c \in Containers \ {src, dst} PROVE Content(c)' = Content(c)
      OBVIOUS
    <2>1. \A k \in Slots : box'[c].slot[k] = box[c].slot[k]
      BY <1>2
    <2>2. box'[c].slot = box[c].slot
      BY <2>1, <1>1, <1>5 DEF Boxes
    <2> QED BY <2>2, SlotsStay
  <1>9. src = dst => Content(src)' = Content(src)
    <2> SUFFICES ASSUME src = dst PROVE Content(src)' = Content(src)
      OBVIOUS
    <2>1. i # j /\ \A k \in Slots \ {i, j} : box'[src].slot[k] = box[src].slot[k]
      BY <1>1, <1>2
    <2>2. /\ Content(src)' = Content(src) - box[src].slot[i].qty - box[src].slot[j].qty
                                 + box'[src].slot[i].qty + box'[src].slot[j].qty
          /\ Content(src) \in Int
      BY <2>1, <1>1, <1>5, TwoSlotsChanged
    <2>3. box[src].slot[j].qty = 0
      BY <1>1 DEF Empty
    <2> QED BY <2>2, <2>3, <1>1, <1>6, <1>7
  <1>10. src # dst => /\ Content(src)' = Content(src) - q /\ Content(dst)' = Content(dst) + q
                      /\ Content(src) \in Int /\ Content(dst) \in Int
    <2> SUFFICES ASSUME src # dst
                 PROVE  /\ Content(src)' = Content(src) - q /\ Content(dst)' = Content(dst) + q
                        /\ Content(src) \in Int /\ Content(dst) \in Int
      OBVIOUS
    <2>1. \A k \in Slots \ {i} : box'[src].slot[k] = box[src].slot[k]
      BY <1>2
    <2>2. /\ Content(src)' = Content(src) - box[src].slot[i].qty + box'[src].slot[i].qty
          /\ Content(src) \in Int
      BY <2>1, <1>1, <1>5, OneSlotChanged
    <2>3. \A k \in Slots \ {j} : box'[dst].slot[k] = box[dst].slot[k]
      BY <1>2
    <2>4. /\ Content(dst)' = Content(dst) - box[dst].slot[j].qty + box'[dst].slot[j].qty
          /\ Content(dst) \in Int
      BY <2>3, <1>1, <1>5, OneSlotChanged
    <2>5. box[dst].slot[j].qty = 0
      BY <1>1 DEF Empty
    <2> QED BY <2>2, <2>4, <2>5, <1>1, <1>6, <1>7
  <1>11. ItemsConserved'
    <2>1. src # dst => Content(src)' + Content(dst)' = Content(src) + Content(dst)
      BY <1>10
    <2>2. ItemsConserved
      BY DEF GraphInv
    <2>3. src = dst => Content(src)' + wasted' = Content(src) + wasted
      BY <1>4, <1>9
    <2> QED BY <2>1, <2>2, <2>3, <1>1, <1>4, <1>5, <1>8, TotalStays
  <1>12. \A c \in Containers : Content(c)' <= box'[c].weight
    <2> SUFFICES ASSUME NEW c \in Containers PROVE Content(c)' <= box'[c].weight
      OBVIOUS
    <2>1. Content(c) <= box[c].weight /\ Content(c) \in Int /\ box[c].weight \in Nat
          /\ box'[c].weight \in Nat /\ box[src].weight \in Nat /\ box[dst].weight \in Nat
          /\ Content(src) <= box[src].weight /\ Content(dst) <= box[dst].weight
      BY <1>1, <1>5, ContentsAreNumbers, GraphAssumption DEF GraphInv, Boxes
    <2>2. CASE c \notin {src, dst}
      BY <2>1, <2>2, <1>3, <1>8
    <2>3. CASE src = dst /\ c = src
      BY <2>1, <2>3, <1>3, <1>9
    <2>4. CASE src # dst /\ c = dst
      BY <2>1, <2>4, <1>3, <1>10
    <2>5. CASE src # dst /\ c = src
      <3>1. Content(src)' = Content(src) - q /\ box'[src].weight >= box[src].weight - q
            /\ Content(src) \in Int /\ box'[src].weight \in Int
        BY <2>1, <2>5, <1>3, <1>10
      <3> QED BY <2>1, <2>5, <3>1
    <2> QED BY <2>2, <2>3, <2>4, <2>5
  <1>13. /\ InstanceIdsUnique'
         /\ \A c \in Containers, k \in Slots : ItemIn(c, k)' # Empty =>
                ItemIn(c, k)'.id # 0 /\ ItemIn(c, k)'.id \notin {n \in Nat : n >= nextId'}
    <2>1. ItemIn(src, i) = item /\ ItemIn(src, i)' = left /\ ItemIn(dst, j)' = moved
      BY <1>1, <1>7 DEF ItemIn
    <2>2. \A c \in Containers, k \in Slots :
              <<c, k>> \notin {<<src, i>>, <<dst, j>>} => ItemIn(c, k)' = ItemIn(c, k)
      BY <1>2 DEF ItemIn
    <2>3. /\ ItemIn(src, i) # Empty
          /\ (ItemIn(src, i)' = Empty \/ ItemIn(src, i)'.id = ItemIn(src, i).id)
          /\ (\/ ItemIn(src, i)' = Empty /\ ItemIn(dst, j)'.id = ItemIn(src, i).id
              \/ ItemIn(dst, j)'.id = nextId /\ nextId' = nextId + 1)
      BY <2>1, <1>1, <1>4, <1>6
    <2> QED BY <2>2, <2>3, <1>1, <1>4, IdsStayApart
  <1>14. processed' \subseteq TxIds /\ applied' = [t \in TxIds |-> IF t \in processed' THEN 1 ELSE 0]
    <2>1. applied = [t \in TxIds |-> IF t \in processed THEN 1 ELSE 0] /\ processed \subseteq TxIds
      BY DEF GraphInv
    <2>2. applied[tx] + 1 = 1
      BY <2>1, <1>4
    <2>3. applied' = [t \in TxIds |-> IF t = tx THEN 1 ELSE applied[t]]
      BY <2>1, <2>2, <1>4
    <2> QED BY <2>1, <2>3, <1>4
  <1>15. nextId' \in Nat /\ nextId' >= 100
    BY <1>4, <1>5
  <1>16. \A c \in Containers, k \in Slots : ItemIn(c, k)'.bag # c
    <2> SUFFICES ASSUME NEW c \in Containers, NEW k \in Slots PROVE ItemIn(c, k)'.bag # c
      OBVIOUS
    <2>1. ItemIn(c, k).bag # c /\ ItemIn(src, i).bag # src /\ c # "none"
      BY GraphAssumption DEF GraphInv
    <2>2. CASE <<c, k>> = <<src, i>>
      <3>1. ItemIn(c, k)' = left /\ c = src
        BY <2>2, <1>1 DEF ItemIn
      <3>2. left.bag = "none" \/ left.bag = ItemIn(src, i).bag
        BY <1>1 DEF left, item, Empty, Items
      <3> QED BY <2>1, <3>1, <3>2
    <2>3. CASE <<c, k>> = <<dst, j>>
      <3>1. ItemIn(c, k)' = moved /\ c = dst
        BY <2>3, <1>1 DEF ItemIn
      <3> QED BY <1>0, <3>1
    <2>4. CASE <<c, k>> \notin {<<src, i>>, <<dst, j>>}
      BY <2>1, <2>4, <1>2 DEF ItemIn
    <2> QED BY <2>2, <2>3, <2>4
  <1>17. wasted' \in Nat
    BY <1>4, <1>5
  <1> QED BY <1>1, <1>11, <1>12, <1>13, <1>14, <1>15, <1>16, <1>17 DEF GraphInv

(* A transfer that gets past phase 1 finds an open slot, or was asked to take *)
(* any and there is none (item_transaction.rs, prepare_transfer).             *)
LEMMA SlotIsFound ==
    ASSUME GraphInv, NEW tx \in TxIds, NEW src \in Containers, NEW i \in Slots,
           NEW dst \in Containers, NEW a \in Slots \cup {AnySlot}, NEW q \in Nat \ {0},
           Prepared(tx, src, i, dst, a, q)
    PROVE  LET t == FoundFor(src, i, dst, a, q)
               b == IF src = dst THEN TakenFrom(src, i, q, 0) ELSE box[dst]
           IN  \/ t \in Slots /\ t \in Free(b)
               \/ t = NoSlot /\ a = AnySlot /\ Free(b) = {}
  <1> DEFINE item == ItemIn(src, i)
             moved == Moved(item, q)
             left == IF item.qty = q THEN Empty ELSE [item EXCEPT !.qty = item.qty - q]
             b == IF src = dst THEN TakenFrom(src, i, q, 0) ELSE box[dst]
             w == IF src = dst THEN 0 ELSE q
             t == FoundFor(src, i, dst, a, q)
  <1>1. /\ box \in [Containers -> Boxes] /\ item \in Items /\ item # Empty /\ q <= item.qty
        /\ item.bag # dst /\ box[dst].weight + q <= MaxWeight
        /\ i \notin box[src].locked
    BY DEF GraphInv, ItemIn, Boxes, Prepared
  <1>2. moved.bag = item.bag
    BY <1>1 DEF Moved, Items
  <1>3. t = Place(dst, b, moved, a, w)
    BY DEF FoundFor
  <1>4. /\ b \in Boxes /\ box[dst].weight \in Nat /\ MaxWeight \in Nat
        /\ b.weight + w <= MaxWeight /\ b.locked = box[dst].locked
        /\ \A k \in Slots : (src # dst \/ k # i) => b.slot[k] = box[dst].slot[k]
    <2>1. box[dst] \in Boxes /\ box[dst].weight \in Nat /\ MaxWeight \in Nat
      BY <1>1, GraphAssumption DEF Boxes
    <2>2. CASE src # dst
      BY <2>1, <2>2, <1>1
    <2>3. CASE src = dst
      <3> DEFINE out == TakenFrom(src, i, q, 0)
      <3>1. /\ out = [slot |-> [box[src].slot EXCEPT ![i] = left], locked |-> box[src].locked,
                      weight |-> out.weight]
            /\ out \in Boxes /\ out.weight = box[src].weight
        <4>1. RestStays(src, i, q, 0)
          BY <1>1, TakenLeaves
        <4> QED BY <4>1, Zenon DEF RestStays
      <3>2. b = out /\ w = 0
        BY <2>3
      <3>3. box[src].slot \in [Slots -> Items]
        BY <1>1 DEF Boxes
      <3> HIDE DEF out, left, b, w
      <3>4. out.locked = box[src].locked /\ \A k \in Slots \ {i} : out.slot[k] = box[src].slot[k]
        BY <3>1, <3>3
      <3> QED BY <3>1, <3>2, <3>4, <2>1, <2>3, <1>1
    <2> QED BY <2>2, <2>3
  <1>5. a # AnySlot => a \in Slots /\ a \in Free(b)
    <2> SUFFICES ASSUME a # AnySlot PROVE a \in Slots /\ a \in Free(b)
      OBVIOUS
    <2>1. a \in Slots /\ a \in Free(box[dst])
      BY DEF Prepared
    <2>2. src # dst \/ a # i
      BY <2>1, <1>1 DEF Free, ItemIn
    <2> HIDE DEF b
    <2> QED BY <2>1, <2>2, <1>4 DEF Free
  <1> HIDE DEF b, w, t, moved, item
  <1>6. Free(b) \subseteq Slots /\ Free(b) \subseteq Nat
    BY DEF Free, Slots
  <1>7. moved.bag # dst /\ ~ (b.weight + w > MaxWeight)
    <2>1. b.weight \in Nat /\ w \in Nat
      BY <1>4, GraphAssumption DEF Boxes, w
    <2> QED BY <2>1, <1>1, <1>2, <1>4
  <1>8. CASE a # AnySlot
    <2>1. t = a
      BY <1>3, <1>5, <1>7, <1>8 DEF Place
    <2> QED BY <2>1, <1>5, <1>8 DEF t, b
  <1>9. CASE a = AnySlot /\ Free(b) = {}
    <2>1. t = NoSlot
      BY <1>3, <1>7, <1>9 DEF Place
    <2> QED BY <2>1, <1>9 DEF t, b
  <1>10. CASE a = AnySlot /\ Free(b) # {}
    <2>1. t = Min(Free(b))
      BY <1>3, <1>7, <1>10 DEF Place
    <2>2. Min(Free(b)) \in Free(b)
      <3> DEFINE S == Free(b)
      <3>1. S \subseteq Nat /\ S # {}
        BY <1>6, <1>10
      <3> HIDE DEF S
      <3>2. Min(S) \in S
        BY <3>1, MinOf
      <3> QED BY <3>2 DEF S
    <2> QED BY <2>1, <2>2, <1>6 DEF t, b
  <1> QED BY <1>8, <1>9, <1>10

(* A split for which there is no open slot loses what it split off, which the *)
(* conservation of items counts as lost (item_transaction.rs:342, :391).      *)
LEMMA SplitIsLost ==
    ASSUME GraphInv, NEW src \in Containers, NEW i \in Slots, NEW q \in Nat \ {0},
           ItemIn(src, i) # Empty, q < ItemIn(src, i).qty,
           box' \in [Containers -> Boxes],
           box'[src].slot = [box[src].slot EXCEPT ![i] = [ItemIn(src, i) EXCEPT !.qty = ItemIn(src, i).qty - q]],
           \A c \in Containers \ {src} : box'[c].slot = box[c].slot,
           \A c \in Containers : box'[c].weight = box[c].weight,
           nextId' = nextId + 1, wasted' = wasted + q, UNCHANGED <<processed, applied>>
    PROVE  GraphInv'
  <1> DEFINE item == ItemIn(src, i)
             left == [item EXCEPT !.qty = item.qty - q]
  <1>1. /\ box \in [Containers -> Boxes] /\ item \in Items /\ nextId \in Nat /\ nextId >= 100 /\ wasted \in Nat
        /\ box[src].slot \in [Slots -> Items]
    BY DEF GraphInv, ItemIn, Boxes
  <1>2. left.id = item.id /\ left.bag = item.bag /\ left.qty = item.qty - q /\ item.qty \in Nat
    BY <1>1 DEF Items
  <1>3. box'[src].slot = [box[src].slot EXCEPT ![i] = left]
    OBVIOUS
  <1> HIDE DEF left
  <1>4. box'[src].slot[i] = left /\ \A k \in Slots \ {i} : box'[src].slot[k] = box[src].slot[k]
    BY <1>1, <1>3
  <1>5. \A c \in Containers, k \in Slots :
            /\ ItemIn(c, k)'.id = ItemIn(c, k).id /\ ItemIn(c, k)'.bag = ItemIn(c, k).bag
            /\ ItemIn(c, k)' # Empty => ItemIn(c, k) # Empty
    <2> SUFFICES ASSUME NEW c \in Containers, NEW k \in Slots
                 PROVE  /\ ItemIn(c, k)'.id = ItemIn(c, k).id /\ ItemIn(c, k)'.bag = ItemIn(c, k).bag
                        /\ ItemIn(c, k)' # Empty => ItemIn(c, k) # Empty
      OBVIOUS
    <2>1. CASE c = src /\ k = i
      BY <2>1, <1>2, <1>4 DEF ItemIn
    <2>2. CASE c # src \/ k # i
      BY <2>2, <1>4 DEF ItemIn
    <2> QED BY <2>1, <2>2
  <1>6. \A c \in Containers \ {src} : Content(c)' = Content(c)
    BY SlotsStay
  <1>7. Content(src)' = Content(src) - q /\ Content(src) \in Int
    <2>1. /\ Content(src)' = Content(src) - box[src].slot[i].qty + box'[src].slot[i].qty
          /\ Content(src) \in Int
      BY <1>1, <1>4, OneSlotChanged
    <2>2. box[src].slot[i].qty = item.qty /\ box'[src].slot[i].qty = item.qty - q
      BY <1>2, <1>4 DEF ItemIn
    <2> HIDE DEF item
    <2> QED BY <2>1, <2>2, <1>2
  <1>8. ItemsConserved'
    <2>1. ItemsConserved /\ Content(src)' + wasted' = Content(src) + wasted
      BY <1>1, <1>7 DEF GraphInv
    <2>2. wasted \in Int /\ wasted' \in Int
      BY <1>1
    <2> DEFINE dst == src
    <2>3. /\ \A c \in Containers \ {src, dst} : Content(c)' = Content(c)
          /\ src = dst => Content(src)' + wasted' = Content(src) + wasted
          /\ src # dst => Content(src)' + Content(dst)' = Content(src) + Content(dst) /\ wasted' = wasted
          /\ dst \in Containers
      BY <1>6, <2>1
    <2> HIDE DEF dst
    <2> QED BY <2>1, <2>2, <2>3, <1>1, TotalStays
  <1>9. InstanceIdsUnique'
    BY <1>5 DEF InstanceIdsUnique, GraphInv
  <1>10. \A c \in Containers, k \in Slots : ItemIn(c, k)' # Empty =>
             ItemIn(c, k)'.id # 0 /\ ItemIn(c, k)'.id \notin {n \in Nat : n >= nextId'}
    BY <1>1, <1>5 DEF GraphInv
  <1>11. \A c \in Containers, k \in Slots : ItemIn(c, k)'.bag # c
    BY <1>5 DEF GraphInv
  <1>12. \A c \in Containers : Content(c)' <= box'[c].weight
    <2> SUFFICES ASSUME NEW c \in Containers PROVE Content(c)' <= box'[c].weight
      OBVIOUS
    <2>1. Content(c) <= box[c].weight /\ Content(c) \in Int /\ box[c].weight \in Int
      BY <1>1, ContentsAreNumbers, GraphAssumption DEF GraphInv, Boxes
    <2>2. CASE c = src
      BY <2>1, <2>2, <1>7
    <2>3. CASE c # src
      BY <2>1, <2>3, <1>6
    <2> QED BY <2>2, <2>3
  <1>13. /\ processed' \subseteq TxIds
         /\ applied' = [tx \in TxIds |-> IF tx \in processed' THEN 1 ELSE 0]
         /\ nextId' \in Nat /\ nextId' >= 100 /\ wasted' \in Nat
    BY <1>1 DEF GraphInv
  <1> QED BY <1>8, <1>9, <1>10, <1>11, <1>12, <1>13 DEF GraphInv

(* A transfer commits, or is undone, or loses what it split off *)
(* (item_transaction.rs, execute_transfer).                     *)
LEMMA TransferKeepsInv ==
    ASSUME GraphInv, NEW tx \in TxIds, NEW src \in Containers, NEW i \in Slots,
           NEW dst \in Containers, NEW a \in Slots \cup {AnySlot}, NEW q \in Nat \ {0},
           execute_transfer(tx, src, i, dst, a, q)
    PROVE  GraphInv'
  <1> DEFINE item == ItemIn(src, i)
             moved == Moved(item, q)
             left == IF item.qty = q THEN Empty ELSE [item EXCEPT !.qty = item.qty - q]
             out(w) == TakenFrom(src, i, q, w)
             t == FoundFor(src, i, dst, a, q)
             b == IF src = dst THEN out(0) ELSE box[dst]
  <1>1. /\ box \in [Containers -> Boxes] /\ item \in Items /\ item # Empty /\ q <= item.qty
        /\ item.bag # dst /\ item.bag # src /\ item.id # 0 /\ item.qty \in Nat
        /\ i \notin box[src].locked /\ tx \notin processed
        /\ nextId' = nextId + 1
        /\ Prepared(tx, src, i, dst, a, q)
    BY DEF GraphInv, ItemIn, Boxes, Items, execute_transfer, Prepared
  <1>2. \/ t \in Slots /\ t \in Free(b)
        \/ t = NoSlot /\ a = AnySlot /\ Free(b) = {}
    BY <1>1, SlotIsFound, Zenon
  <1>3. ASSUME NEW w \in Nat
        PROVE  /\ out(w) = [slot |-> [box[src].slot EXCEPT ![i] = left], locked |-> box[src].locked,
                            weight |-> out(w).weight]
               /\ out(w) \in Boxes
               /\ out(w).weight >= box[src].weight - w /\ out(w).weight <= box[src].weight
               /\ (w = 0 \/ item.qty # q) => out(w).weight = box[src].weight
    <2>1. RestStays(src, i, q, w)
      BY <1>1, TakenLeaves
    <2> QED BY <2>1, Zenon DEF RestStays
  <1>4. /\ box[src].slot \in [Slots -> Items] /\ box[src].weight \in Nat /\ MaxWeight \in Nat
        /\ box[src].weight <= MaxWeight /\ box[dst].weight \in Nat /\ box[dst].weight + q <= MaxWeight
    BY <1>1, GraphAssumption DEF Boxes, Prepared
  <1>5. left # Empty <=> item.qty # q
    <2>1. item.qty # q => left.id = item.id
      BY <1>1 DEF Items
    <2> QED BY <2>1, <1>1 DEF Empty
  <1> HIDE DEF item, left
  <1>6. \A w \in Nat : /\ out(w).locked = box[src].locked /\ out(w).slot[i] = left
                       /\ \A k \in Slots \ {i} : out(w).slot[k] = box[src].slot[k]
    <2> SUFFICES ASSUME NEW w \in Nat
                 PROVE  /\ out(w).locked = box[src].locked /\ out(w).slot[i] = left
                        /\ \A k \in Slots \ {i} : out(w).slot[k] = box[src].slot[k]
      OBVIOUS
    <2>1. out(w) = [slot |-> [box[src].slot EXCEPT ![i] = left], locked |-> box[src].locked,
                    weight |-> out(w).weight]
      BY <1>3
    <2> HIDE DEF out
    <2>2. out(w).locked = box[src].locked /\ out(w).slot = [box[src].slot EXCEPT ![i] = left]
      BY <2>1
    <2> QED BY <2>2, <1>4
  <1>7. CASE t \in Slots /\ (src # dst \/ t # i)
    <2>1. t \in Free(b)
      BY <1>2, <1>7, GraphAssumption DEF NoSlot, Slots
    <2>2. t \in Free(box[dst])
      <3>1. CASE src # dst
        BY <2>1, <3>1
      <3>2. CASE src = dst
        BY <2>1, <3>2, <1>6, <1>7 DEF Free
      <3> QED BY <3>1, <3>2
    <2>3. <<src, i>> # <<dst, t>>
      BY <1>7
    <2> DEFINE j == t
    <2>4. j \in Slots /\ FoundFor(src, i, dst, a, q) = j /\ <<src, i>> # <<dst, j>> /\ j \in Free(box[dst])
      BY <2>2, <2>3, <1>7
    <2> HIDE DEF j
    <2> QED BY <2>4, CommitKeepsInv
  <1>8. CASE t = i /\ src = dst
    <2>1. t \in Free(b) /\ t # NoSlot
      BY <1>2, <1>8, GraphAssumption DEF NoSlot, Slots
    <2>2. item.qty = q
      BY <2>1, <1>5, <1>6, <1>8 DEF Free
    <2>3. moved = item
      BY <2>2 DEF Moved
    <2>4. t = Place(src, out(0), moved, a, 0)
      BY <1>8 DEF FoundFor, item
    <2> DEFINE new == Inserted(out(0), item, i, 0)
    <2>5. CommitIntra(src, i, a, q) = [done |-> TRUE, box |-> [box EXCEPT ![src] = new]]
      BY <2>1, <2>3, <2>4, <1>8 DEF CommitIntra, TakenFrom, item
    <2>6. /\ box' = [box EXCEPT ![src] = new] /\ processed' = processed \cup {tx}
          /\ applied' = [applied EXCEPT ![tx] = @ + 1] /\ wasted' = wasted
      BY <2>5, <1>8 DEF execute_transfer
    <2>7. new = box[src]
      <3> DEFINE o == out(0)
      <3>1. o = [slot |-> [box[src].slot EXCEPT ![i] = left], locked |-> box[src].locked,
                 weight |-> box[src].weight]
        BY <1>3
      <3>2. new = [o EXCEPT !.slot = [o.slot EXCEPT ![i] = item], !.weight = o.weight + 0]
        BY DEF Inserted
      <3>3. box[src] = [slot |-> box[src].slot, locked |-> box[src].locked, weight |-> box[src].weight]
        BY <1>1 DEF Boxes
      <3>4. item = box[src].slot[i]
        BY DEF item, ItemIn
      <3> HIDE DEF o, new
      <3>7. o.weight + 0 = box[src].weight /\ o.slot = [box[src].slot EXCEPT ![i] = left]
            /\ o.locked = box[src].locked
        BY <3>1, <1>4
      <3>5. new = [slot |-> [o.slot EXCEPT ![i] = item], locked |-> box[src].locked,
                   weight |-> box[src].weight]
        BY <3>1, <3>2, <3>7
      <3>6. [o.slot EXCEPT ![i] = item] = box[src].slot
        BY <3>1, <3>4, <1>4
      <3> QED BY <3>3, <3>5, <3>6
    <2> HIDE DEF new
    <2>8. box' = box
      BY <2>6, <2>7, <1>1
    <2>9. /\ box' \in [Containers -> Boxes]
          /\ \A c \in Containers : box'[c].slot = box[c].slot /\ box'[c].weight >= box[c].weight
      BY <2>8, <1>1, GraphAssumption DEF Boxes
    <2>10. /\ processed' \subseteq TxIds
           /\ applied' = [x \in TxIds |-> IF x \in processed' THEN 1 ELSE 0]
      <3>1. applied = [x \in TxIds |-> IF x \in processed THEN 1 ELSE 0] /\ processed \subseteq TxIds
        BY DEF GraphInv
      <3>2. applied[tx] + 1 = 1
        BY <3>1, <1>1
      <3>3. applied' = [x \in TxIds |-> IF x = tx THEN 1 ELSE applied[x]]
        BY <3>1, <3>2, <2>6
      <3> QED BY <3>1, <3>3, <2>6
    <2>11. nextId' \in {nextId, nextId + 1} /\ wasted' = wasted
      BY <2>6, <1>1
    <2> QED BY <2>9, <2>10, <2>11, NothingMoves
  <1>9. CASE t = NoSlot /\ item.qty = q
    <2>1. src # dst
      <3> SUFFICES ASSUME src = dst PROVE FALSE
        OBVIOUS
      <3>1. Free(out(0)) = {}
        BY <1>2, <1>9, GraphAssumption DEF NoSlot, Slots
      <3>2. i \in Free(out(0))
        BY <1>1, <1>5, <1>6, <1>9 DEF Free
      <3> QED BY <3>1, <3>2
    <2>2. moved = item
      BY <1>9 DEF Moved
    <2>3. Place(dst, box[dst], moved, a, q) = NoSlot
      BY <2>1, <1>9 DEF FoundFor, item
    <2>4. i \in Free(out(q))
      BY <1>1, <1>5, <1>6, <1>9 DEF Free
    <2>5. /\ out(q).weight \in Nat /\ out(q).weight + q <= MaxWeight
          /\ out(q).weight + q >= box[src].weight
      <3>1. out(q).weight = IF box[src].weight < q THEN 0 ELSE box[src].weight - q
        BY <1>1, <1>9 DEF TakenFrom, Removed, Boxes, item
      <3> HIDE DEF out
      <3> QED BY <3>1, <1>4
    <2>6. Place(src, out(q), item, i, q) = i /\ i # NoSlot
      <3>1. i # AnySlot /\ i # NoSlot
        BY GraphAssumption DEF Slots, AnySlot, NoSlot
      <3>2. ~ (out(q).weight + q > MaxWeight)
        BY <2>5, <1>4
      <3> HIDE DEF out
      <3> QED BY <3>1, <3>2, <2>4, <1>1 DEF Place
    <2> DEFINE new == Inserted(out(q), item, i, q)
    <2>7. CommitInter(src, i, dst, a, q) = [done |-> FALSE, box |-> [box EXCEPT ![src] = new]]
      <3>1. PutBack(src, out(q), moved, i, q) = new
        <4> HIDE DEF out, moved
        <4> QED BY <2>2, <2>6 DEF PutBack
      <3>2. CommitInter(src, i, dst, a, q) =
               [done |-> Place(dst, box[dst], moved, a, q) # NoSlot,
                box |-> IF Place(dst, box[dst], moved, a, q) = NoSlot
                        THEN [box EXCEPT ![src] = PutBack(src, out(q), moved, i, q)]
                        ELSE [box EXCEPT ![src] = out(q),
                                  ![dst] = Inserted(box[dst], moved, Place(dst, box[dst], moved, a, q), q)]]
        BY DEF CommitInter, TakenFrom, item
      <3> HIDE DEF out, moved, new
      <3> QED BY <3>1, <3>2, <2>3
    <2>8. /\ box' = [box EXCEPT ![src] = new] /\ processed' = processed /\ applied' = applied
          /\ wasted' = wasted
      BY <2>1, <2>7, <1>9 DEF execute_transfer, item
    <2>9. new.slot = box[src].slot /\ new \in Boxes /\ new.weight >= box[src].weight
      <3> DEFINE o == out(q)
      <3>1. o = [slot |-> [box[src].slot EXCEPT ![i] = left], locked |-> box[src].locked,
                 weight |-> o.weight] /\ o \in Boxes
        BY <1>3
      <3>2. new = [o EXCEPT !.slot = [o.slot EXCEPT ![i] = item], !.weight = o.weight + q]
        BY DEF Inserted
      <3>3. item = box[src].slot[i] /\ o.weight \in Nat /\ o.weight + q <= MaxWeight
            /\ o.weight + q >= box[src].weight
        BY <2>5 DEF item, ItemIn
      <3> HIDE DEF o, new
      <3>9. o.slot = [box[src].slot EXCEPT ![i] = left] /\ o.locked = box[src].locked
        BY <3>1
      <3>5. new = [slot |-> [o.slot EXCEPT ![i] = item], locked |-> box[src].locked,
                   weight |-> o.weight + q]
        <4> DEFINE v == o.weight + q  sl == [o.slot EXCEPT ![i] = item]
        <4>1. new = [o EXCEPT !.slot = sl, !.weight = v]
          BY <3>2
        <4> HIDE DEF v, sl
        <4>2. new = [slot |-> sl, locked |-> box[src].locked, weight |-> v]
          BY <4>1, <3>1, <3>9
        <4> QED BY <4>2 DEF v, sl
      <3>6. [o.slot EXCEPT ![i] = item] = box[src].slot
        BY <3>1, <3>3, <1>4
      <3>7. box[src].locked \in SUBSET Slots
        BY <1>1 DEF Boxes
      <3>8. o.weight + q \in 0..MaxWeight
        BY <3>3, <1>4
      <3> QED BY <3>3, <3>5, <3>6, <3>7, <3>8, <1>4 DEF Boxes
    <2> HIDE DEF new
    <2>10. /\ box' \in [Containers -> Boxes]
           /\ \A c \in Containers : box'[c].slot = box[c].slot /\ box'[c].weight >= box[c].weight
      BY <2>8, <2>9, <1>1, GraphAssumption DEF Boxes
    <2>11. /\ processed' \subseteq TxIds
           /\ applied' = [x \in TxIds |-> IF x \in processed' THEN 1 ELSE 0]
           /\ nextId' \in {nextId, nextId + 1} /\ wasted' = wasted
      BY <2>8, <1>1 DEF GraphInv
    <2> QED BY <2>10, <2>11, NothingMoves
  <1>10. CASE t = NoSlot /\ item.qty # q
    <2>0. a = AnySlot
      BY <1>2, <1>10, GraphAssumption DEF NoSlot, Slots
    <2>1. q < ItemIn(src, i).qty
      BY <1>1, <1>10 DEF item
    <2> DEFINE w == IF src = dst THEN 0 ELSE q
    <2>2. w \in Nat
      OBVIOUS
    <2>3. /\ box' = [box EXCEPT ![src] = out(w)] /\ processed' = processed /\ applied' = applied
          /\ wasted' = wasted + q
      <3>1. CASE src = dst
        <4>1. Place(src, out(0), moved, a, 0) = NoSlot
          BY <3>1, <1>10 DEF FoundFor, item
        <4>2. CommitIntra(src, i, a, q) = [done |-> FALSE, box |-> [box EXCEPT ![src] = out(0)]]
          BY <4>1 DEF CommitIntra, TakenFrom, item
        <4> HIDE DEF out
        <4> QED BY <4>2, <3>1, <2>0, <2>1 DEF execute_transfer
      <3>2. CASE src # dst
        <4>1. Place(dst, box[dst], moved, a, q) = NoSlot
          BY <3>2, <1>10 DEF FoundFor, item
        <4>2. i \notin Free(out(q))
          BY <1>5, <1>6, <1>10 DEF Free
        <4>3. i # AnySlot
          BY GraphAssumption DEF Slots, AnySlot
        <4>4. PutBack(src, out(q), moved, i, q) = out(q)
          BY <4>2, <4>3 DEF PutBack, Place
        <4>5. CommitInter(src, i, dst, a, q) = [done |-> FALSE, box |-> [box EXCEPT ![src] = out(q)]]
          BY <4>1, <4>4 DEF CommitInter, TakenFrom, item
        <4> HIDE DEF out
        <4> QED BY <4>5, <3>2, <2>0, <2>1 DEF execute_transfer
      <3> QED BY <3>1, <3>2
    <2> DEFINE o == out(w)
    <2>4. /\ o = [slot |-> [box[src].slot EXCEPT ![i] = left], locked |-> box[src].locked,
                  weight |-> box[src].weight] /\ o \in Boxes
      BY <2>2, <1>3, <1>10
    <2>5. left = [ItemIn(src, i) EXCEPT !.qty = ItemIn(src, i).qty - q]
      BY <1>10 DEF left, item
    <2>6. box' = [box EXCEPT ![src] = o]
      BY <2>3
    <2> HIDE DEF o, out
    <2>7. /\ box' \in [Containers -> Boxes] /\ box'[src] = o
          /\ \A c \in Containers \ {src} : box'[c] = box[c]
      BY <2>4, <2>6, <1>1
    <2>8. o.slot = [box[src].slot EXCEPT ![i] = left] /\ o.weight = box[src].weight
      BY <2>4
    <2>9. box'[src].slot = [box[src].slot EXCEPT ![i] = [ItemIn(src, i) EXCEPT !.qty = ItemIn(src, i).qty - q]]
      BY <2>5, <2>7, <2>8
    <2>10. /\ \A c \in Containers \ {src} : box'[c].slot = box[c].slot
           /\ \A c \in Containers : box'[c].weight = box[c].weight
      BY <2>7, <2>8
    <2>11. UNCHANGED <<processed, applied>> /\ wasted' = wasted + q /\ ItemIn(src, i) # Empty
      BY <2>3, <1>1 DEF item
    <2> QED BY <2>1, <2>7, <2>9, <2>10, <2>11, <1>1, SplitIsLost
  <1> QED BY <1>2, <1>7, <1>8, <1>9, <1>10

(* What the containers hold when they are registered: the stacks and the bags. *)
LEMMA FirstContents ==
    ASSUME NEW home \in Containers \ Bags, NEW at \in [Bags -> Slots \ {0}],
           \A b, d \in Bags : b # d => at[b] # at[d],
           box \in [Containers -> Boxes],
           \A c \in Containers, i \in Slots : ItemIn(c, i) = FirstSlot(c, i, at, home)
    PROVE  /\ Cardinality(Bags) \in Nat
           /\ \A c \in Containers :
                  Content(c) = (IF c \in Homes THEN Stack ELSE 0)
                               + (IF c = home THEN Cardinality(Bags) ELSE 0)
  <1> DEFINE BagSpots == {at[b] : b \in Bags}
  <1>1. IsFiniteSet(Bags) /\ Cardinality(Bags) \in Nat
    BY GraphAssumption, FS_Subset, FS_CardinalityType
  <1>2. Cardinality(BagSpots) = Cardinality(Bags) /\ BagSpots \subseteq Slots \ {0}
    <2>1. at \in Bijection(Bags, BagSpots)
      BY DEF Bijection, Injection, Surjection, IsInjective
    <2>2. ExistsBijection(Bags, BagSpots)
      BY <2>1 DEF ExistsBijection
    <2> HIDE DEF BagSpots
    <2>3. Cardinality(BagSpots) = Cardinality(Bags)
      BY <2>2, <1>1, FS_Bijection
    <2> QED BY <2>3 DEF BagSpots
  <1>3. ASSUME NEW c \in Containers, NEW i \in Slots
        PROVE  /\ i = 0 => ItemIn(c, i).qty = IF c \in Homes THEN Stack ELSE 0
               /\ i # 0 => ItemIn(c, i).qty = IF c = home /\ i \in BagSpots THEN 1 ELSE 0
    BY DEF FirstSlot, FirstStack, BagItem, Empty
  <1>4. ASSUME NEW c \in Containers
        PROVE  Content(c) = (IF c \in Homes THEN Stack ELSE 0)
                            + (IF c = home THEN Cardinality(Bags) ELSE 0)
    <2> DEFINE A == IF c = home THEN BagSpots ELSE {}
               f == [Held(c) EXCEPT ![0] = 0]
               g == Held(c)
               E == Slots
               zero == 0
               one == 1
    <2>1. g \in [E -> Int] /\ IsFiniteSet(E) /\ zero \in E
      BY ContentsAreNumbers, GraphAssumption DEF Slots
    <2>2. f \in [E -> Int] /\ f[zero] = 0 /\ \A k \in E \ {zero} : g[k] = f[k]
      BY <2>1
    <2>3. A \in SUBSET E /\ zero \notin A
      BY <1>2
    <2>4. \A k \in E : f[k] = IF k \in A THEN one ELSE 0
      <3> SUFFICES ASSUME NEW k \in E PROVE f[k] = IF k \in A THEN one ELSE 0
        OBVIOUS
      <3>1. CASE k = zero
        BY <3>1, <2>2, <2>3
      <3>2. CASE k # zero
        <4>1. f[k] = ItemIn(c, k).qty
          BY <3>2, <2>1 DEF Held
        <4>2. ItemIn(c, k).qty = IF c = home /\ k \in BagSpots THEN 1 ELSE 0
          BY <3>2, <1>3
        <4> HIDE DEF f, BagSpots
        <4> QED BY <4>1, <4>2
      <3> QED BY <3>1, <3>2
    <2>5. Cardinality(A) = (IF c = home THEN Cardinality(Bags) ELSE 0) /\ one \in Int
      BY <1>2, FS_EmptySet
    <2>6. Content(c) = SumFunctionOnSet(g, E)
      BY DEF Content
    <2>7. g[zero] = IF c \in Homes THEN Stack ELSE 0
      BY <2>1, <1>3 DEF Held
    <2> HIDE DEF A, f, g, E, zero
    <2>8. SumFunctionOnSet(f, E) = one * Cardinality(A)
      <3> HIDE DEF one
      <3> QED BY <2>1, <2>2, <2>3, <2>4, <2>5, SumOfEqual
    <2>9. SumFunctionOnSet(g, E) = SumFunctionOnSet(f, E) - f[zero] + g[zero]
      BY <2>1, <2>2, OneChanged
    <2>10. Cardinality(A) \in Nat /\ g[zero] \in Int
      BY <2>1, <2>5, <1>1
    <2>11. Content(c) = Cardinality(A) + g[zero]
      BY <2>2, <2>6, <2>8, <2>9, <2>10
    <2> QED BY <2>5, <2>7, <2>10, <2>11
  <1> QED BY <1>1, <1>4

(* It holds of the containers as they are registered. *)
LEMMA GraphStart == GraphInit => GraphInv
  <1> SUFFICES ASSUME GraphInit PROVE GraphInv
    OBVIOUS
  <1>1. PICK home \in Containers \ Bags, at \in [Bags -> Slots \ {0}] :
            /\ \A b, d \in Bags : b # d => at[b] # at[d]
            /\ box = [c \in Containers |->
                   [slot |-> [i \in Slots |-> FirstSlot(c, i, at, home)], locked |-> {},
                    weight |-> (IF c \in Homes THEN Stack ELSE 0)
                               + (IF c = home THEN Cardinality(Bags) ELSE 0)]]
    BY DEF GraphInit
  <1>2. processed = {} /\ nextId = 100 /\ applied = [tx \in TxIds |-> 0] /\ wasted = 0
    BY DEF GraphInit
  <1>3. IsFiniteSet(Bags) /\ Cardinality(Bags) \in Nat /\ Bags \subseteq Containers
        /\ Homes \subseteq Containers \ Bags /\ Stack \in Nat /\ MaxWeight \in Nat
    BY GraphAssumption, FS_Subset, FS_CardinalityType
  <1> DEFINE here(c, i) == {b \in Bags : c = home /\ at[b] = i}
             bag(c, i) == CHOOSE b \in here(c, i) : TRUE
  <1>4. ASSUME NEW c \in Containers, NEW i \in Slots, FirstSlot(c, i, at, home) # Empty
        PROVE  \/ i = 0 /\ c \in Homes /\ FirstSlot(c, i, at, home) = FirstStack(c)
               \/ i # 0 /\ c = home /\ bag(c, i) \in Bags /\ at[bag(c, i)] = i
                  /\ FirstSlot(c, i, at, home) = BagItem(bag(c, i))
    <2>1. CASE i = 0
      BY <2>1, <1>4 DEF FirstSlot
    <2>2. CASE i # 0
      <3>1. here(c, i) # {} /\ FirstSlot(c, i, at, home) = BagItem(bag(c, i))
        BY <2>2, <1>4 DEF FirstSlot
      <3>2. bag(c, i) \in here(c, i)
        BY <3>1
      <3> HIDE DEF bag
      <3> QED BY <2>2, <3>1, <3>2
    <2> QED BY <2>1, <2>2
  <1>5. \A c \in Containers, i \in Slots :
            FirstSlot(c, i, at, home) \in Items
    <2> SUFFICES ASSUME NEW c \in Containers, NEW i \in Slots PROVE FirstSlot(c, i, at, home) \in Items
      OBVIOUS
    <2>1. CASE FirstSlot(c, i, at, home) = Empty
      BY <2>1 DEF Empty, Items
    <2>2. CASE FirstSlot(c, i, at, home) # Empty
      <3> HIDE DEF bag
      <3>1. FirstStack(c) \in Items /\ \A b \in Bags : BagItem(b) \in Items
        BY <1>3 DEF FirstStack, BagItem, Items
      <3> QED BY <2>2, <3>1, <1>4
    <2> QED BY <2>1, <2>2
  <1>6. box \in [Containers -> Boxes]
    <2> SUFFICES ASSUME NEW c \in Containers PROVE box[c] \in Boxes
      BY <1>1
    <2>1. (IF c \in Homes THEN Stack ELSE 0) + (IF c = home THEN Cardinality(Bags) ELSE 0) \in 0..MaxWeight
      BY <1>3, GraphAssumption
    <2>2. [i \in Slots |-> FirstSlot(c, i, at, home)] \in [Slots -> Items]
      BY <1>5
    <2> QED BY <1>1, <2>1, <2>2 DEF Boxes
  <1>7. \A c \in Containers, i \in Slots : ItemIn(c, i) = FirstSlot(c, i, at, home)
    BY <1>1 DEF ItemIn
  <1>8. ASSUME NEW c \in Containers, NEW i \in Slots, ItemIn(c, i) # Empty
        PROVE  /\ ItemIn(c, i).id # 0 /\ ItemIn(c, i).id \notin {n \in Nat : n >= nextId}
               /\ \/ ItemIn(c, i).id = c /\ c \in Homes /\ i = 0
                  \/ ItemIn(c, i).id \in Bags /\ c = home /\ at[ItemIn(c, i).id] = i
    <2> HIDE DEF bag
    <2>1. \/ ItemIn(c, i).id = c /\ c \in Homes /\ i = 0
          \/ ItemIn(c, i).id \in Bags /\ c = home /\ at[ItemIn(c, i).id] = i
      BY <1>4, <1>7, <1>8 DEF FirstStack, BagItem
    <2>2. ItemIn(c, i).id \in Containers
      BY <2>1, <1>3
    <2> QED BY <2>1, <2>2, GraphAssumption
  <1>9. InstanceIdsUnique
    <2> SUFFICES ASSUME NEW c \in Containers, NEW d \in Containers, NEW i \in Slots, NEW j \in Slots,
                        <<c, i>> # <<d, j>>, ItemIn(c, i) # Empty, ItemIn(c, i).id = ItemIn(d, j).id
                 PROVE  FALSE
      BY DEF InstanceIdsUnique
    <2>1. ItemIn(c, i).id # 0
      BY <1>8
    <2>2. ItemIn(d, j) # Empty
      BY <2>1 DEF Empty
    <2>3. \/ ItemIn(c, i).id = c /\ c \in Homes /\ i = 0
          \/ ItemIn(c, i).id \in Bags /\ c = home /\ at[ItemIn(c, i).id] = i
      BY <1>8
    <2>4. \/ ItemIn(d, j).id = d /\ d \in Homes /\ j = 0
          \/ ItemIn(d, j).id \in Bags /\ d = home /\ at[ItemIn(d, j).id] = j
      BY <2>2, <1>8
    <2> QED BY <2>3, <2>4, <1>3
  <1>10. \A c \in Containers :
             Content(c) = (IF c \in Homes THEN Stack ELSE 0) + (IF c = home THEN Cardinality(Bags) ELSE 0)
    <2>1. \A b, d \in Bags : b # d => at[b] # at[d]
      BY <1>1
    <2> QED BY <2>1, <1>6, <1>7, FirstContents
  <1>11. \A c \in Containers : Content(c) <= box[c].weight
    BY <1>1, <1>3, <1>10
  <1>12. ItemsConserved
    <2> DEFINE E == Containers
               f == [c \in E |-> IF c \in Homes THEN Stack ELSE 0]
               g == AllContents
               N == Stack
               A == Homes
               B == Cardinality(Bags)
    <2>1. g \in [E -> Int] /\ f \in [E -> Int] /\ IsFiniteSet(E) /\ home \in E /\ N \in Int
          /\ A \in SUBSET E
      BY <1>3, <1>6, TotalIsNumber
    <2>2. \A c \in E : f[c] = IF c \in A THEN N ELSE 0
      OBVIOUS
    <2>3. \A c \in E \ {home} : g[c] = f[c]
      BY <1>3, <1>10 DEF AllContents
    <2>4. g[home] = f[home] + B /\ B \in Int /\ f[home] \in Int
      BY <1>3, <1>10 DEF AllContents
    <2>5. ItemsConserved <=> SumFunctionOnSet(g, E) + 0 = N * Cardinality(A) + B
      BY <1>2 DEF ItemsConserved, AllContents
    <2> HIDE DEF E, f, g, N, A, B
    <2>6. SumFunctionOnSet(f, E) = N * Cardinality(A)
      BY <2>1, <2>2, SumOfEqual
    <2>7. /\ SumFunctionOnSet(g, E) = SumFunctionOnSet(f, E) - f[home] + g[home]
          /\ SumFunctionOnSet(f, E) \in Int
      BY <2>1, <2>3, OneChanged
    <2>8. SumFunctionOnSet(g, E) + 0 = SumFunctionOnSet(f, E) + B
      BY <2>4, <2>7
    <2> QED BY <2>5, <2>6, <2>8
  <1>13. applied = [tx \in TxIds |-> IF tx \in processed THEN 1 ELSE 0] /\ processed \subseteq TxIds
    BY <1>2
  <1>14. \A c \in Containers, i \in Slots : ItemIn(c, i).bag # c
    <2> SUFFICES ASSUME NEW c \in Containers, NEW i \in Slots PROVE ItemIn(c, i).bag # c
      OBVIOUS
    <2>1. CASE ItemIn(c, i) = Empty
      BY <2>1, GraphAssumption DEF Empty
    <2>2. CASE ItemIn(c, i) # Empty
      <3> HIDE DEF bag
      <3>1. \/ ItemIn(c, i).bag = "none"
            \/ c = home /\ ItemIn(c, i).bag \in Bags
        BY <2>2, <1>4, <1>7 DEF FirstStack, BagItem
      <3> QED BY <3>1, GraphAssumption
    <2> QED BY <2>1, <2>2
  <1> QED BY <1>2, <1>6, <1>8, <1>9, <1>11, <1>12, <1>13, <1>14 DEF GraphInv

(* A lock on a slot, and its release, move nothing (item_graph.rs). *)
LEMMA LockKeepsInv ==
    ASSUME GraphInv, NEW c \in Containers, NEW i \in Slots, lock_slot(c, i) \/ unlock_slot(c, i)
    PROVE  GraphInv'
  <1>1. PICK L \in SUBSET Slots : box' = [box EXCEPT ![c].locked = L]
    <2>1. box[c].locked \in SUBSET Slots
      BY DEF GraphInv, Boxes
    <2> QED BY <2>1 DEF lock_slot, unlock_slot
  <1>2. /\ box \in [Containers -> Boxes] /\ box' \in [Containers -> Boxes]
        /\ \A d \in Containers : box'[d].slot = box[d].slot /\ box'[d].weight = box[d].weight
    BY <1>1 DEF GraphInv, Boxes
  <1>3. UNCHANGED <<processed, nextId, applied, wasted>>
    BY DEF lock_slot, unlock_slot
  <1>4. /\ processed \subseteq TxIds /\ applied = [tx \in TxIds |-> IF tx \in processed THEN 1 ELSE 0]
        /\ \A d \in Containers : box[d].weight \in Int
    BY GraphAssumption DEF GraphInv, Boxes
  <1>5. \A d \in Containers : box'[d].slot = box[d].slot /\ box'[d].weight >= box[d].weight
    BY <1>2, <1>4
  <1> QED BY <1>2, <1>3, <1>4, <1>5, NothingMoves

(* Every step keeps the invariant. *)
LEMMA GraphStep == GraphInv /\ [GraphNext]_graphVars => GraphInv'
  <1> SUFFICES ASSUME GraphInv, [GraphNext]_graphVars PROVE GraphInv'
    OBVIOUS
  <1>1. CASE \E tx \in TxIds, src, dst \in Containers, i \in Slots, q \in 1..Stack + 1 :
                 \E j \in Slots \cup (IF AutoSlot THEN {AnySlot} ELSE {}) :
                     execute_transfer(tx, src, i, dst, j, q)
    <2>1. PICK tx \in TxIds, src \in Containers, dst \in Containers, i \in Slots, q \in 1..Stack + 1 :
              \E j \in Slots \cup {AnySlot} : execute_transfer(tx, src, i, dst, j, q)
      BY <1>1
    <2>2. q \in Nat \ {0}
      BY GraphAssumption
    <2> QED BY <2>1, <2>2, TransferKeepsInv
  <1>2. CASE \E c \in Containers, i, j \in Slots : merge_stack(c, i, j)
    BY <1>2, MergeKeepsInv
  <1>3. CASE \E c \in Containers, i \in Slots : lock_slot(c, i) \/ unlock_slot(c, i)
    BY <1>3, LockKeepsInv
  <1>4. CASE Rejected \/ UNCHANGED graphVars
    <2>1. UNCHANGED graphVars
      BY <1>4 DEF Rejected
    <2>2. /\ processed \subseteq TxIds /\ applied = [tx \in TxIds |-> IF tx \in processed THEN 1 ELSE 0]
          /\ box \in [Containers -> Boxes] /\ \A d \in Containers : box[d].weight \in Int
      BY GraphAssumption DEF GraphInv, Boxes
    <2> QED BY <2>1, <2>2, NothingMoves DEF graphVars
  <1> QED BY <1>1, <1>2, <1>3, <1>4 DEF GraphNext

(* Whatever callers transfer, split, merge, lock and repeat, with the target  *)
(* slot named or left open: items are never created, and lost only in parts  *)
(* of stacks for which no open slot was found; no two have the same id, a    *)
(* transaction applies once, and no container holds more than it can carry   *)
(* (item_transaction.rs, item_graph.rs).                                     *)
THEOREM ItemsKept == GraphSpec => []ItemsSound
  <1>1. GraphInv => ItemsSound
    <2> SUFFICES ASSUME GraphInv PROVE ItemsSound
      OBVIOUS
    <2>1. AppliedOnce
      BY DEF AppliedOnce, GraphInv
    <2>2. WithinWeightLimit
      <3> SUFFICES ASSUME NEW c \in Containers PROVE Content(c) <= MaxWeight
        BY DEF WithinWeightLimit
      <3>1. Content(c) \in Int /\ Content(c) <= box[c].weight /\ box[c].weight \in 0..MaxWeight
        BY ContentsAreNumbers DEF GraphInv, Boxes
      <3> QED BY <3>1, GraphAssumption
    <2> QED BY <2>1, <2>2 DEF ItemsSound, GraphInv
  <1> QED BY <1>1, GraphStart, GraphStep, PTL DEF GraphSpec
===============================================================================
