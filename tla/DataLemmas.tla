------------------------------ MODULE DataLemmas ------------------------------
(*****************************************************************************)
(* Lemmas on data that the proofs about the components share: positions      *)
(* modulo the size of a table (a deque's slots, a journal's ring, a          *)
(* channel's sequence numbers), the least and the greatest of a set of       *)
(* positions, sequences one element of which is taken out, folds over a      *)
(* sequence, and sums over a finite set, for every table, set and sequence.  *)
(*****************************************************************************)
EXTENDS Integers, Sequences, SequencesExt, FiniteSetTheorems, WellFoundedInduction,
        TLAPS

\* A position is its whole rounds through the table and the slot it ends on
\* (the `& mask` and `% RING_CAP` of work_stealing.rs and wal.rs).
LEMMA RoundAndSlot ==
    ASSUME NEW C \in Nat \ {0}, NEW x \in Nat
    PROVE  /\ x \div C \in Nat /\ x % C \in 0..(C - 1)
           /\ x = C * (x \div C) + (x % C)
<1>1. x \div C \in Nat
  OBVIOUS
<1>2. x = C * (x \div C) + (x % C)
  OBVIOUS
<1>3. x % C \in 0..(C - 1)
  OBVIOUS
<1> QED BY <1>1, <1>2, <1>3

\* At least one round is at least the size of the table (the capacity that
\* work_stealing.rs and wal.rs compare distances with).
LEMMA RoundsAreLong ==
    ASSUME NEW C \in Nat \ {0}, NEW k \in Nat \ {0}
    PROVE  C * k >= C
<1>1. C * k = C + C * (k - 1)
  OBVIOUS
<1>2. C * (k - 1) >= 0
  OBVIOUS
<1>3. C * k \in Int /\ C * (k - 1) \in Int
  OBVIOUS
<1> QED BY <1>1, <1>2, <1>3

\* Two positions less than a table apart are on different slots: why a deque
\* whose length is checked against its capacity writes over no job
\* (work_stealing.rs, push).
LEMMA SlotsApart ==
    ASSUME NEW C \in Nat \ {0}, NEW x \in Nat, NEW y \in Nat, x < y, y - x < C
    PROVE  x % C # y % C
<1> SUFFICES ASSUME x % C = y % C PROVE FALSE
  OBVIOUS
<1> DEFINE a == x \div C  b == y \div C  r == x % C
<1>1. a \in Nat /\ b \in Nat /\ r \in Nat /\ x = C * a + r
  <2>1. a \in Nat /\ x = C * a + r /\ x % C \in 0..(C - 1)
    BY RoundAndSlot
  <2>2. b \in Nat
    BY RoundAndSlot
  <2> QED BY <2>1, <2>2
<1>2. y = C * b + r
  BY RoundAndSlot
<1> HIDE DEF a, b, r
<1>3. y - x = C * (b - a)
  <2>1. C * (b - a) = C * b - C * a
    BY <1>1
  <2>2. C * a \in Int /\ C * b \in Int
    BY <1>1
  <2> QED BY <1>1, <1>2, <2>1, <2>2
<1>4. b - a >= 1
  <2>1. CASE b - a <= 0
    <3>1. C * (b - a) <= 0
      BY <1>1, <2>1
    <3> QED BY <3>1, <1>3
  <2> QED BY <2>1, <1>1
<1>5. C * (b - a) >= C
  BY <1>1, <1>4, RoundsAreLong
<1> QED BY <1>3, <1>5

\* Up to one length on from a slot of the ring, the remainder wraps once (the
\* cursors of wal.rs:240-340 never move further in one step).
LEMMA ModSmall ==
    ASSUME NEW C \in Nat \ {0}, NEW h \in 0..(C - 1), NEW a \in 0..C
    PROVE  /\ (h + a) % C = IF h + a < C THEN h + a ELSE h + a - C
           /\ (h + a) % C \in 0..(C - 1)
<1> DEFINE x == h + a
<1>1. x \in 0..(2 * C - 1)
  OBVIOUS
<1> HIDE DEF x
<1>2. x % C = (IF x < C THEN x ELSE x - C) /\ x % C \in 0..(C - 1)
  BY <1>1
<1> QED BY <1>2 DEF x

\* The slots of a stretch no longer than the ring are different.
LEMMA ModInjective ==
    ASSUME NEW C \in Nat \ {0}, NEW h \in 0..(C - 1),
           NEW a \in 0..(C - 1), NEW b \in 0..(C - 1), (h + a) % C = (h + b) % C
    PROVE  a = b
<1>1. /\ (h + a) % C = IF h + a < C THEN h + a ELSE h + a - C
      /\ (h + b) % C = IF h + b < C THEN h + b ELSE h + b - C
  <2>1. a \in 0..C /\ b \in 0..C
    OBVIOUS
  <2> QED BY <2>1, ModSmall, Zenon
<1> QED BY <1>1

\* Stepping a and then b slots on is stepping a + b.
LEMMA ModStep ==
    ASSUME NEW C \in Nat \ {0}, NEW h \in 0..(C - 1),
           NEW a \in 0..C, NEW b \in 0..C, a + b <= C
    PROVE  (((h + a) % C) + b) % C = (h + (a + b)) % C
<1>1. a + b \in 0..C
  OBVIOUS
<1>2. /\ (h + a) % C = IF h + a < C THEN h + a ELSE h + a - C
      /\ (h + (a + b)) % C = IF h + (a + b) < C THEN h + (a + b) ELSE h + (a + b) - C
      /\ (h + a) % C \in 0..(C - 1)
  BY <1>1, ModSmall, Zenon
<1> DEFINE m == (h + a) % C
<1>4. m \in 0..(C - 1) /\ m = IF h + a < C THEN h + a ELSE h + a - C
  BY <1>2
<1> HIDE DEF m
<1>5. (m + b) % C = IF m + b < C THEN m + b ELSE m + b - C
  BY <1>4, ModSmall
<1> QED BY <1>2, <1>4, <1>5 DEF m

\* Every slot is some way on from the head (wal.rs, queue.rs, backpressure.rs).
LEMMA ModDiff ==
    ASSUME NEW C \in Nat \ {0}, NEW a \in 0..(C - 1), NEW b \in 0..(C - 1)
    PROVE  /\ (a - b) % C = IF a >= b THEN a - b ELSE a - b + C
           /\ (a - b) % C \in 0..(C - 1)
<1> DEFINE x == a - b
<1>1. x \in (1 - C)..(C - 1)
  OBVIOUS
<1> HIDE DEF x
<1>2. x % C = (IF x >= 0 THEN x ELSE x + C) /\ x % C \in 0..(C - 1)
  BY <1>1
<1> QED BY <1>1, <1>2 DEF x

\* A slot of the table is as many slots behind the head as the difference says
\* (wal.rs, the contents of the ring from its head on).
LEMMA SlotOffset ==
    ASSUME NEW C \in Nat \ {0}, NEW h \in 0..(C - 1)
    PROVE  /\ \A j \in 0..(C - 1) : (j - h) % C \in 0..(C - 1) /\ (h + ((j - h) % C)) % C = j
           /\ \A i \in 0..(C - 1) : (h + i) % C \in 0..(C - 1) /\ (((h + i) % C) - h) % C = i
<1>1. ASSUME NEW j \in 0..(C - 1)
      PROVE  (j - h) % C \in 0..(C - 1) /\ (h + ((j - h) % C)) % C = j
  <2> DEFINE x == (j - h) % C
  <2>1. x \in 0..(C - 1) /\ x = IF j >= h THEN j - h ELSE j - h + C
    BY ModDiff
  <2> HIDE DEF x
  <2>2. x \in 0..C
    BY <2>1
  <2>3. (h + x) % C = IF h + x < C THEN h + x ELSE h + x - C
    BY <2>2, ModSmall
  <2>4. (h + x) % C = j
    BY <2>1, <2>3
  <2> QED BY <2>1, <2>4 DEF x
<1>2. ASSUME NEW i \in 0..(C - 1)
      PROVE  (h + i) % C \in 0..(C - 1) /\ (((h + i) % C) - h) % C = i
  <2> DEFINE y == (h + i) % C
  <2>0. i \in 0..C
    OBVIOUS
  <2>1. y \in 0..(C - 1) /\ y = IF h + i < C THEN h + i ELSE h + i - C
    BY <2>0, ModSmall
  <2> HIDE DEF y
  <2>2. (y - h) % C = IF y >= h THEN y - h ELSE y - h + C
    BY <2>1, ModDiff
  <2>3. (y - h) % C = i
    BY <2>1, <2>2
  <2> QED BY <2>1, <2>3 DEF y
<1> QED BY <1>1, <1>2

\* What is n slots on is n less away.
LEMMA OffsetShift ==
    ASSUME NEW C \in Nat \ {0}, NEW h \in 0..(C - 1), NEW n \in 0..C, NEW j \in 0..(C - 1)
    PROVE  (j - ((h + n) % C)) % C = IF (j - h) % C >= n THEN ((j - h) % C) - n ELSE ((j - h) % C) - n + C
<1> DEFINE g == (h + n) % C  o == (j - h) % C
<1>1. g \in 0..(C - 1) /\ g = IF h + n < C THEN h + n ELSE h + n - C
  BY ModSmall
<1>2. o \in 0..(C - 1) /\ o = IF j >= h THEN j - h ELSE j - h + C
  BY ModDiff
<1> HIDE DEF g, o
<1>3. (j - g) % C = IF j >= g THEN j - g ELSE j - g + C
  BY <1>1, ModDiff
<1>4. (j - g) % C = IF o >= n THEN o - n ELSE o - n + C
  BY <1>1, <1>2, <1>3
<1> QED BY <1>4 DEF g, o

\* There is one way to divide.
LEMMA DivisionUnique ==
    ASSUME NEW C \in Nat \ {0}, NEW a \in Int, NEW b \in Int, NEW t \in 0..(C - 1), NEW u \in 0..(C - 1),
           C * a + t = C * b + u
    PROVE  t = u
<1>1. C * (a - b) = u - t
  <2>1. C * (a - b) = C * a - C * b /\ C * a \in Int /\ C * b \in Int
    OBVIOUS
  <2> QED BY <2>1
<1>2. CASE a - b >= 1
  <2>1. C * (a - b) >= C
    BY <1>2, RoundsAreLong
  <2> QED BY <2>1, <1>1
<1>3. CASE b - a >= 1
  <2>1. C * (b - a) >= C
    BY <1>3, RoundsAreLong
  <2>2. C * (b - a) = t - u
    <3>1. C * (b - a) = C * b - C * a /\ C * a \in Int /\ C * b \in Int
      OBVIOUS
    <3> QED BY <3>1
  <2> QED BY <2>1, <2>2
<1>4. CASE a = b
  BY <1>1, <1>4
<1> QED BY <1>2, <1>3, <1>4

\* A distance can be stepped from the slot instead of the position.
LEMMA RemainderStep ==
    ASSUME NEW C \in Nat \ {0}, NEW x \in Nat, NEW n \in Nat
    PROVE  (x + n) % C = ((x % C) + n) % C
<1> DEFINE q == x \div C  r == x % C  p == (r + n) \div C  t == (r + n) % C
<1>1. q \in Nat /\ r \in 0..(C - 1) /\ x = C * q + r
  BY RoundAndSlot
<1>2. p \in Nat /\ t \in 0..(C - 1) /\ r + n = C * p + t
  <2>1. r + n \in Nat
    BY <1>1
  <2> HIDE DEF r
  <2>2. /\ (r + n) \div C \in Nat /\ (r + n) % C \in 0..(C - 1)
        /\ r + n = C * ((r + n) \div C) + ((r + n) % C)
    BY <2>1, RoundAndSlot, Zenon
  <2> QED BY <2>2
<1> DEFINE u == (x + n) % C  v == (x + n) \div C
<1>3. v \in Nat /\ u \in 0..(C - 1) /\ x + n = C * v + u
  <2>1. x + n \in Nat
    OBVIOUS
  <2> QED BY <2>1, RoundAndSlot, Zenon
<1> HIDE DEF q, r, p, t, u, v
<1>4. C * (q + p) + t = C * v + u
  <2>1. C * (q + p) = C * q + C * p
    BY <1>1, <1>2
  <2>2. C * q \in Int /\ C * p \in Int /\ C * v \in Int
    BY <1>1, <1>2, <1>3
  <2> QED BY <2>1, <2>2, <1>1, <1>2, <1>3
<1>5. t = u
  <2>1. q + p \in Int /\ v \in Int
    BY <1>1, <1>2, <1>3
  <2> QED BY <2>1, <1>2, <1>3, <1>4, DivisionUnique, Zenon
<1> QED BY <1>5 DEF r, t, u

\* A bounded nonempty set of numbers has a largest element.
LEMMA LargestOf ==
    ASSUME NEW L \in Nat, NEW S, S \subseteq 0..L, S # {}
    PROVE  \E m \in S : \A y \in S : m >= y
<1> DEFINE R == {ss \in Nat \X Nat : ss[1] < ss[2]}
           T == {n \in Nat : \A y \in S : y <= n}
<1>1. IsWellFoundedOn(R, Nat)
  BY NatLessThanWellFounded DEF OpToRel
<1>2. L \in T /\ T \subseteq Nat
  OBVIOUS
<1>3. PICK m \in T : \A n \in T : ~ (<<n, m>> \in R)
  <2> HIDE DEF R, T
  <2> QED BY <1>1, <1>2, WFMin
<1>4. m \in S
  <2> SUFFICES ASSUME m \notin S PROVE FALSE
    OBVIOUS
  <2>1. PICK x \in S : TRUE
    OBVIOUS
  <2>2. x \in 0..L /\ x <= m /\ x # m /\ m \in Nat
    BY <2>1, <1>3
  <2>3. m - 1 \in T
    BY <2>2, <1>3
  <2>4. <<m - 1, m>> \in R
    BY <2>2, <2>3
  <2> HIDE DEF R
  <2> QED BY <2>3, <2>4, <1>3
<1> QED BY <1>3, <1>4

\* A nonempty set of numbers has a smallest element.
LEMMA SmallestOf ==
    ASSUME NEW S, S \subseteq Nat, S # {}
    PROVE  \E m \in S : \A y \in S : m <= y
<1> DEFINE R == {ss \in Nat \X Nat : ss[1] < ss[2]}
<1>1. IsWellFoundedOn(R, Nat)
  BY NatLessThanWellFounded DEF OpToRel
<1>2. PICK m \in S : \A n \in S : ~ (<<n, m>> \in R)
  <2> HIDE DEF R
  <2> QED BY <1>1, WFMin
<1>3. \A y \in S : m <= y
  <2> SUFFICES ASSUME NEW y \in S PROVE m <= y
    OBVIOUS
  <2>1. ~ (y < m)
    BY <1>2
  <2> QED BY <2>1
<1> QED BY <1>3

-------------------------------------------------------------------------------
(* ------------------------- recursion over sequences ----------------------- *)

\* What holds of 0, and of each number after one it holds of, holds up to n.
LEMMA UpTo ==
    ASSUME NEW n \in Nat, NEW G, 0 \in G, \A k \in 1..n : k - 1 \in G => k \in G
    PROVE  \A k \in 0..n : k \in G
<1> DEFINE B == {k \in 0..n : k \notin G}
<1> SUFFICES ASSUME B # {} PROVE FALSE
  OBVIOUS
<1>1. B \subseteq Nat
  OBVIOUS
<1>2. PICK m \in B : \A y \in B : m <= y
  <2> HIDE DEF B
  <2> QED BY <1>1, SmallestOf
<1>3. m \in 0..n /\ m # 0
  BY <1>2
<1>4. m \in 1..n /\ m - 1 \in 0..n
  BY <1>3
<1>5. m - 1 \notin B
  BY <1>2, <1>4
<1> QED BY <1>2, <1>4, <1>5

\* A function over D that follows the links up as long as they stay in D.
ClimbsAs(g, D, T, up, base, F) ==
    /\ g \in [D -> T]
    /\ \A p \in D : g[p] = IF up[p] \in D THEN F[<<p, g[up[p]]>>] ELSE base[p]

\* It is well defined when they lead to smaller numbers: what a piece of a
\* structure rests on was placed before it (building.rs).
LEMMA ClimbExists ==
    ASSUME NEW n \in Nat, NEW D \in SUBSET (1..n), NEW T, NEW up \in [D -> Nat],
           \A p \in D : up[p] < p,
           NEW base \in [D -> T], NEW F \in [D \X T -> T]
    PROVE  \E g : ClimbsAs(g, D, T, up, base, F)
<1> DEFINE Below(k) == {p \in D : p <= k}
           Good(k, g) == /\ g \in [Below(k) -> T]
                         /\ \A p \in Below(k) :
                                g[p] = IF up[p] \in D THEN F[<<p, g[up[p]]>>] ELSE base[p]
           G == {k \in 0..n : \E g : Good(k, g)}
<1>0. n \in Nat /\ \A p \in D : p \in Nat /\ p >= 1 /\ p <= n /\ up[p] \in Nat /\ up[p] < p
  <2>1. D \subseteq 1..n
    OBVIOUS
  <2> QED BY <2>1
<1>1. 0 \in G
  <2> DEFINE g == [p \in Below(0) |-> base[p]]
  <2>1. Below(0) = {}
    <3>1. \A p \in D : ~ (p <= 0)
      BY <1>0
    <3> QED BY <3>1
  <2>2. Good(0, g)
    BY <2>1
  <2>3. 0 \in 0..n
    BY <1>0
  <2> HIDE DEF Good
  <2> QED BY <2>2, <2>3
<1>2. ASSUME NEW k \in 1..n, k - 1 \in G PROVE k \in G
  <2>1. PICK g : Good(k - 1, g)
    BY <1>2
  <2> DEFINE v(p) == IF up[p] \in D THEN F[<<p, g[up[p]]>>] ELSE base[p]
             h == [p \in Below(k) |-> IF p = k THEN v(p) ELSE g[p]]
  <2>2. \A p \in Below(k) : p \in D /\ up[p] \in Nat /\ up[p] < p /\ (p # k => p \in Below(k - 1))
    <3>1. k \in Nat
      OBVIOUS
    <3> SUFFICES ASSUME NEW p \in D, p <= k
                 PROVE  up[p] \in Nat /\ up[p] < p /\ (p # k => p <= k - 1)
      OBVIOUS
    <3> QED BY <1>0, <3>1
  <2>3. \A p \in Below(k) : up[p] \in D => up[p] \in Below(k - 1) /\ up[p] # k
    BY <2>2
  <2>4. \A p \in Below(k) : v(p) \in T
    BY <2>1, <2>2, <2>3
  <2>5. \A p \in Below(k) : h[p] = v(p)
    BY <2>1, <2>2
  <2>6. \A p \in Below(k) : up[p] \in D => h[up[p]] = g[up[p]]
    <3>1. \A p \in Below(k - 1) : p \in Below(k)
      <4>1. k \in Nat /\ \A p \in D : p <= k - 1 => p <= k
        BY <1>0
      <4> QED BY <4>1
    <3> HIDE DEF Below
    <3> QED BY <2>3, <3>1
  <2>7. h \in [Below(k) -> T]
    BY <2>4, <2>5
  <2>8. Good(k, h)
    <3> HIDE DEF h, Below
    <3> QED BY <2>5, <2>6, <2>7
  <2>9. k \in 0..n
    BY <1>0
  <2> HIDE DEF Good
  <2> QED BY <2>8, <2>9
<1> HIDE DEF G
<1>3. n \in G
  <2>1. \A k \in 0..n : k \in G
    BY <1>1, <1>2, UpTo
  <2> QED BY <2>1
<1>4. PICK g : Good(n, g)
  BY <1>3 DEF G
<1>5. Below(n) = D
  BY <1>0
<1> HIDE DEF Below
<1> QED BY <1>4, <1>5 DEF ClimbsAs

\* A fold with step F over the positions of a sequence, always of the last one
\* first: what is folded of the positions in S is it[S].
FoldsAs(it, n, T, b, F) ==
    /\ it \in [SUBSET (1..n) -> T] /\ it[{}] = b
    /\ \A S \in SUBSET (1..n) : \A m \in S :
           (\A y \in S : m >= y) => it[S] = F[<<m, it[S \ {m}]>>]

\* It is well defined for every step.
LEMMA FoldExists ==
    ASSUME NEW n \in Nat, NEW T, NEW b \in T, NEW F \in [(1..n) \X T -> T]
    PROVE  \E it : FoldsAs(it, n, T, b, F)
<1> DEFINE Good(k, it) ==
        /\ it \in [SUBSET (1..k) -> T] /\ it[{}] = b
        /\ \A s \in SUBSET (1..k) : \A m \in s :
               (\A y \in s : m >= y) => it[s] = F[<<m, it[s \ {m}]>>]
    G == {k \in 0..n : \E it : Good(k, it)}
<1>1. 0 \in G
  <2> DEFINE it == [s \in SUBSET (1..0) |-> b]
  <2>1. SUBSET (1..0) = {{}}
    OBVIOUS
  <2>2. Good(0, it)
    BY <2>1
  <2> QED BY <2>2
<1>2. ASSUME NEW k \in 1..n, k - 1 \in G PROVE k \in G
  <2>1. PICK it : Good(k - 1, it)
    BY <1>2
  <2> DEFINE next == [s \in SUBSET (1..k) |->
                        IF k \in s THEN F[<<k, it[s \ {k}]>>] ELSE it[s]]
  <2>2. \A s \in SUBSET (1..k) : s \ {k} \in SUBSET (1..(k - 1))
    OBVIOUS
  <2>3. \A s \in SUBSET (1..k) : k \notin s => s \in SUBSET (1..(k - 1))
    OBVIOUS
  <2>4. next \in [SUBSET (1..k) -> T]
    <3> SUFFICES ASSUME NEW s \in SUBSET (1..k) PROVE next[s] \in T
      OBVIOUS
    <3>1. CASE k \in s
      <4>1. it[s \ {k}] \in T
        BY <2>1, <2>2
      <4> QED BY <3>1, <4>1
    <3>2. CASE k \notin s
      BY <3>2, <2>1, <2>3
    <3> QED BY <3>1, <3>2
  <2>5. next[{}] = b
    BY <2>1
  <2>6. ASSUME NEW s \in SUBSET (1..k), NEW m \in s, \A y \in s : m >= y
        PROVE  next[s] = F[<<m, next[s \ {m}]>>]
    <3>1. CASE k \in s
      <4>1. m = k
        BY <3>1, <2>6
      <4>2. next[s \ {k}] = it[s \ {k}]
        OBVIOUS
      <4> QED BY <3>1, <4>1, <4>2
    <3>2. CASE k \notin s
      <4>1. s \in SUBSET (1..(k - 1)) /\ s \ {m} \in SUBSET (1..k)
        BY <3>2, <2>3
      <4>2. it[s] = F[<<m, it[s \ {m}]>>]
        BY <4>1, <2>1, <2>6
      <4>3. next[s] = it[s] /\ next[s \ {m}] = it[s \ {m}]
        BY <3>2, <4>1
      <4> QED BY <4>2, <4>3
    <3> QED BY <3>1, <3>2
  <2> HIDE DEF next
  <2>7. Good(k, next)
    BY <2>4, <2>5, <2>6
  <2> HIDE DEF Good
  <2> QED BY <2>7
<1>3. n \in G
  <2> HIDE DEF G
  <2> QED BY <1>1, <1>2, UpTo
<1> QED BY <1>3 DEF FoldsAs

\* The same fold as it is written with Max, wherever it stays in T.
FoldsByMax(it, n, T, b, F) ==
    /\ it[{}] = b
    /\ \A S \in SUBSET (1..n) : S # {} /\ it[S \ {Max(S)}] \in T =>
           it[S] = F[<<Max(S), it[S \ {Max(S)}]>>]

\* One step after the other, from it[1..0] to it[1..n].
FoldsInSteps(h, it, n, T, b, F) ==
    /\ h \in [0..n -> T] /\ h[0] = b /\ h[n] = it[1..n]
    /\ \A k \in 1..n : h[k] = F[<<k, h[k - 1]>>]

\* A solution of the recursion exists.
LEMMA FoldFixed ==
    ASSUME NEW n \in Nat, NEW T, NEW b \in T, NEW F \in [(1..n) \X T -> T]
    PROVE  \E g \in [SUBSET (1..n) -> T] :
               /\ FoldsByMax(g, n, T, b, F)
               /\ \A S \in SUBSET (1..n) : S # {} => Max(S) \in 1..n /\ g[S \ {Max(S)}] \in T
<1>1. PICK g : FoldsAs(g, n, T, b, F)
  BY FoldExists
<1>2. /\ g \in [SUBSET (1..n) -> T] /\ g[{}] = b
      /\ \A S \in SUBSET (1..n) : \A m \in S :
             (\A y \in S : m >= y) => g[S] = F[<<m, g[S \ {m}]>>]
  BY <1>1 DEF FoldsAs
<1>3. ASSUME NEW S \in SUBSET (1..n), S # {}
      PROVE  /\ Max(S) \in 1..n /\ g[S \ {Max(S)}] \in T
             /\ g[S] = F[<<Max(S), g[S \ {Max(S)}]>>]
  <2> DEFINE m == Max(S)
  <2>1. m \in S /\ \A y \in S : m >= y
    <3>1. S \subseteq 0..n
      OBVIOUS
    <3>2. \E x \in S : \A y \in S : x >= y
      BY <1>3, <3>1, LargestOf
    <3> QED BY <3>2 DEF Max
  <2> HIDE DEF m
  <2>2. m \in 1..n /\ S \ {m} \in SUBSET (1..n)
    BY <2>1
  <2>3. m \in 1..n /\ g[S \ {m}] \in T /\ g[S] = F[<<m, g[S \ {m}]>>]
    BY <1>2, <2>1, <2>2
  <2> QED BY <2>3 DEF m
<1>4. FoldsByMax(g, n, T, b, F)
  BY <1>2, <1>3 DEF FoldsByMax
<1> QED BY <1>2, <1>3, <1>4

\* What any solution gives is what n steps give, one after the other.
LEMMA FoldSteps ==
    ASSUME NEW n \in Nat, NEW T, NEW b \in T, NEW F \in [(1..n) \X T -> T], NEW it,
           FoldsByMax(it, n, T, b, F)
    PROVE  \E h : FoldsInSteps(h, it, n, T, b, F)
<1>0. /\ it[{}] = b
      /\ \A S \in SUBSET (1..n) : S # {} /\ it[S \ {Max(S)}] \in T =>
             it[S] = F[<<Max(S), it[S \ {Max(S)}]>>]
  BY DEF FoldsByMax
<1> DEFINE G == {k \in 0..n : it[1..k] \in T}
<1>1. ASSUME NEW k \in 1..n, it[1..(k - 1)] \in T
      PROVE  it[1..k] \in T /\ it[1..k] = F[<<k, it[1..(k - 1)]>>]
  <2> DEFINE S == 1..k  m == Max(S)
  <2>1. S \in SUBSET (1..n) /\ k \in S /\ S \ {k} = 1..(k - 1) /\ \A y \in S : k >= y
    OBVIOUS
  <2>2. m = k
    <3>1. m \in S /\ \A y \in S : m >= y
      BY <2>1 DEF Max
    <3>2. m >= k /\ k >= m /\ m \in Nat /\ k \in Nat
      BY <2>1, <3>1
    <3> HIDE DEF m
    <3> QED BY <3>2
  <2>3. it[S] = F[<<k, it[S \ {k}]>>]
    <3> HIDE DEF S
    <3>1. it[S \ {m}] \in T
      BY <1>1, <2>1, <2>2
    <3> QED BY <1>0, <2>1, <2>2, <3>1
  <2>4. F[<<k, it[S \ {k}]>>] \in T
    <3> HIDE DEF S
    <3> QED BY <1>1, <2>1
  <2> QED BY <2>1, <2>3, <2>4
<1>2. 0 \in G
  <2>1. 1..0 = {} /\ 0 \in 0..n
    OBVIOUS
  <2> QED BY <1>0, <2>1
<1>3. ASSUME NEW k \in 1..n, k - 1 \in G PROVE k \in G
  <2>1. it[1..(k - 1)] \in T /\ k \in 0..n
    BY <1>3
  <2>2. it[1..k] \in T
    BY <1>1, <2>1
  <2> QED BY <2>1, <2>2
<1>4. \A k \in 0..n : k \in G
  <2> HIDE DEF G
  <2> QED BY <1>2, <1>3, UpTo
<1> DEFINE h == [k \in 0..n |-> it[1..k]]
<1>5. h \in [0..n -> T]
  BY <1>4
<1>6. h[0] = b /\ h[n] = it[1..n]
  <2>1. 1..0 = {} /\ 0 \in 0..n /\ n \in 0..n
    OBVIOUS
  <2> QED BY <1>0, <2>1
<1>7. ASSUME NEW k \in 1..n PROVE h[k] = F[<<k, h[k - 1]>>]
  <2>1. k \in 0..n /\ k - 1 \in 0..n
    OBVIOUS
  <2>2. it[1..(k - 1)] \in T
    BY <1>4, <2>1
  <2>3. it[1..k] = F[<<k, it[1..(k - 1)]>>]
    BY <1>1, <2>2
  <2> QED BY <2>1, <2>3
<1> HIDE DEF h
<1> QED BY <1>5, <1>6, <1>7 DEF FoldsInSteps

-------------------------------------------------------------------------------
(* --------------------------- sequences and sets --------------------------- *)

\* The first n values of a function are a sequence of its values.
LEMMA RowOf ==
    ASSUME NEW S, NEW n \in Nat, NEW f, \A i \in 1..n : f[i] \in S
    PROVE  /\ [i \in 1..n |-> f[i]] \in Seq(S)
           /\ Len([i \in 1..n |-> f[i]]) = n
<1> DEFINE s == [i \in 1..n |-> f[i]]
<1>1. s \in [1..n -> S]
  OBVIOUS
<1> HIDE DEF s
<1>2. s \in Seq(S) /\ Len(s) = n
  BY <1>1
<1> QED BY <1>2 DEF s

\* Min is the least element (the first free slot, the first one that matches).
LEMMA MinOf ==
    ASSUME NEW S, S \subseteq Nat, S # {}
    PROVE  Min(S) \in S /\ \A y \in S : Min(S) <= y
  BY SmallestOf DEF Min

\* What is left of a sequence when one position is taken out (Vec::remove).
LEMMA TakenOut ==
    ASSUME NEW S, NEW s \in Seq(S), NEW i \in 1..Len(s)
    PROVE  /\ RemoveAt(s, i) \in Seq(S)
           /\ Len(RemoveAt(s, i)) = Len(s) - 1
           /\ \A k \in 1..(Len(s) - 1) : RemoveAt(s, i)[k] = IF k < i THEN s[k] ELSE s[k + 1]
<1> DEFINE l == SubSeq(s, 1, i - 1)  r == SubSeq(s, i + 1, Len(s))
<1>1. l \in Seq(S) /\ Len(l) = i - 1 /\ \A k \in 1..(i - 1) : l[k] = s[k]
  OBVIOUS
<1>2. r \in Seq(S) /\ Len(r) = Len(s) - i /\ \A k \in 1..(Len(s) - i) : r[k] = s[i + k]
  OBVIOUS
<1>3. RemoveAt(s, i) = l \o r
  BY DEF RemoveAt
<1> HIDE DEF l, r
<1>0. Len(s) \in Nat /\ i \in Int
  OBVIOUS
<1>4. /\ l \o r \in Seq(S) /\ Len(l \o r) = Len(l) + Len(r)
      /\ \A k \in 1..Len(l) : (l \o r)[k] = l[k]
      /\ \A k \in 1..Len(r) : (l \o r)[Len(l) + k] = r[k]
  <2>1. l \in Seq(S) /\ r \in Seq(S)
    BY <1>1, <1>2
  <2> QED BY <2>1
<1>5. ASSUME NEW k \in 1..(Len(s) - 1)
      PROVE  (l \o r)[k] = IF k < i THEN s[k] ELSE s[k + 1]
  <2>1. CASE k < i
    <3>1. k \in 1..Len(l)
      BY <2>1, <1>1, <1>0
    <3> QED BY <3>1, <2>1, <1>1, <1>4
  <2>2. CASE k >= i
    <3> DEFINE d == k - (i - 1)
    <3>1. d \in 1..(Len(s) - i) /\ Len(l) + d = k /\ i + d = k + 1
      BY <2>2, <1>1, <1>0
    <3> HIDE DEF d
    <3>2. (l \o r)[Len(l) + d] = r[d]
      BY <3>1, <1>2, <1>4
    <3>3. r[d] = s[i + d]
      BY <3>1, <1>2
    <3>4. ~ (k < i)
      BY <2>2, <1>0
    <3> QED BY <3>1, <3>2, <3>3, <3>4
  <2>3. k < i \/ k >= i
    BY <1>0
  <2> QED BY <2>1, <2>2, <2>3, Zenon
<1>6. Len(l \o r) = Len(s) - 1
  BY <1>0, <1>1, <1>2, <1>4
<1> QED BY <1>3, <1>4, <1>5, <1>6

\* One of the elements of a sequence without repetitions is gone, and only it.
LEMMA TakenOutOnce ==
    ASSUME NEW S, NEW s \in Seq(S), NEW i \in 1..Len(s), IsInjective(s)
    PROVE  /\ IsInjective(RemoveAt(s, i))
           /\ ToSet(RemoveAt(s, i)) = ToSet(s) \ {s[i]}
<1> DEFINE t == RemoveAt(s, i)
<1>1. /\ t \in Seq(S) /\ Len(t) = Len(s) - 1
      /\ \A k \in 1..(Len(s) - 1) : t[k] = IF k < i THEN s[k] ELSE s[k + 1]
  BY TakenOut
<1> HIDE DEF t
<1>2. DOMAIN t = 1..(Len(s) - 1) /\ DOMAIN s = 1..Len(s) /\ Len(s) \in Nat
  BY <1>1
<1>3. \A j, k \in 1..Len(s) : s[j] = s[k] => j = k
  BY <1>2 DEF IsInjective
<1>4. ASSUME NEW j \in DOMAIN t, NEW k \in DOMAIN t, t[j] = t[k] PROVE j = k
  <2>1. j \in Int /\ k \in Int /\ i \in Int /\ j + 1 \in 1..Len(s) /\ k + 1 \in 1..Len(s)
        /\ j \in 1..Len(s) /\ k \in 1..Len(s)
    BY <1>2
  <2> QED BY <2>1, <1>1, <1>2, <1>3, <1>4
<1>5. ASSUME NEW k \in DOMAIN t PROVE t[k] \in ToSet(s) \ {s[i]}
  <2>1. k + 1 \in 1..Len(s) /\ k \in 1..Len(s)
    BY <1>2
  <2> QED BY <2>1, <1>1, <1>2, <1>3 DEF ToSet
<1>6. ASSUME NEW j \in 1..Len(s), j # i PROVE s[j] \in ToSet(t)
  <2>1. CASE j < i
    <3>1. j \in DOMAIN t /\ t[j] = s[j]
      BY <2>1, <1>1, <1>2
    <3> QED BY <3>1 DEF ToSet
  <2>2. CASE j > i
    <3>1. j - 1 \in DOMAIN t /\ t[j - 1] = s[j]
      BY <2>2, <1>1, <1>2
    <3> QED BY <3>1 DEF ToSet
  <2> QED BY <2>1, <2>2, <1>6
<1>7. ToSet(t) \subseteq ToSet(s) \ {s[i]}
  BY <1>5 DEF ToSet
<1>8. ToSet(s) \ {s[i]} \subseteq ToSet(t)
  <2> SUFFICES ASSUME NEW x \in ToSet(s) \ {s[i]} PROVE x \in ToSet(t)
    OBVIOUS
  <2>1. PICK j \in 1..Len(s) : x = s[j]
    BY <1>2 DEF ToSet
  <2> QED BY <2>1, <1>6
<1>9. IsInjective(t)
  BY <1>4 DEF IsInjective
<1> QED BY <1>7, <1>8, <1>9 DEF t

\* One more at the end.
LEMMA Appended ==
    ASSUME NEW S, NEW s \in Seq(S), NEW x \in S
    PROVE  /\ Append(s, x) \in Seq(S) /\ Len(Append(s, x)) = Len(s) + 1
           /\ ToSet(Append(s, x)) = ToSet(s) \union {x}
           /\ IsInjective(s) /\ x \notin ToSet(s) => IsInjective(Append(s, x))
<1> DEFINE t == Append(s, x)
<1>1. /\ t \in Seq(S) /\ Len(t) = Len(s) + 1 /\ t[Len(s) + 1] = x
      /\ \A k \in 1..Len(s) : t[k] = s[k]
  OBVIOUS
<1> HIDE DEF t
<1>2. DOMAIN t = 1..(Len(s) + 1) /\ DOMAIN s = 1..Len(s) /\ Len(s) \in Nat
  BY <1>1
<1>3. ToSet(t) = ToSet(s) \union {x}
  <2>1. \A k \in DOMAIN t : t[k] \in ToSet(s) \union {x}
    BY <1>1, <1>2 DEF ToSet
  <2>2. \A k \in DOMAIN s : k \in DOMAIN t /\ s[k] = t[k]
    BY <1>1, <1>2
  <2>3. Len(s) + 1 \in DOMAIN t
    BY <1>2
  <2> QED BY <2>1, <2>2, <2>3, <1>1 DEF ToSet
<1>4. ASSUME IsInjective(s), x \notin ToSet(s) PROVE IsInjective(t)
  <2> SUFFICES ASSUME NEW j \in DOMAIN t, NEW k \in DOMAIN t, t[j] = t[k] PROVE j = k
    BY DEF IsInjective
  <2>1. \A m \in 1..Len(s) : t[m] # x
    BY <1>1, <1>2, <1>4 DEF ToSet
  <2>2. \A m, n \in 1..Len(s) : s[m] = s[n] => m = n
    BY <1>2, <1>4 DEF IsInjective
  <2> QED BY <2>1, <2>2, <1>1, <1>2
<1> QED BY <1>1, <1>3, <1>4 DEF t

-------------------------------------------------------------------------------
(* ---------------------------------- sums ---------------------------------- *)

\* The function a sum over a finite set is defined by takes any element out first.
SumsAs(it, f, S) ==
    /\ it \in [SUBSET S -> Int] /\ it[{}] = 0
    /\ \A s \in SUBSET S : \A x \in s : it[s] = f[x] + it[s \ {x}]

\* There is such a function for every finite set, so a total over the accounts
\* or over an account's slots is well defined (transaction.rs, AccountState).
LEMMA SumsExist ==
    ASSUME NEW D, NEW f \in [D -> Int], NEW S \in SUBSET D, IsFiniteSet(S)
    PROVE  \E it : SumsAs(it, f, S)
<1> DEFINE n == Cardinality(S)
           G == {k \in 0..n : \A s \in SUBSET S : Cardinality(s) = k => \E it : SumsAs(it, f, s)}
<1>0. n \in Nat
  BY FS_CardinalityType
<1>1. 0 \in G
  <2> SUFFICES ASSUME NEW s \in SUBSET S, Cardinality(s) = 0 PROVE \E it : SumsAs(it, f, s)
    BY <1>0
  <2>1. s = {}
    <3>1. IsFiniteSet(s)
      BY FS_Subset
    <3> QED BY <3>1, FS_EmptySet
  <2> DEFINE it == [t \in SUBSET s |-> 0]
  <2>2. SumsAs(it, f, s)
    BY <2>1 DEF SumsAs
  <2> QED BY <2>2
<1>2. ASSUME NEW k \in 1..n, k - 1 \in G PROVE k \in G
  <2> SUFFICES ASSUME NEW s \in SUBSET S, Cardinality(s) = k PROVE \E it : SumsAs(it, f, s)
    BY <1>0, <1>2
  <2>1. IsFiniteSet(s) /\ s # {}
    <3>1. IsFiniteSet(s)
      BY FS_Subset
    <3> QED BY <3>1, FS_EmptySet
  <2>2. PICK x \in s : TRUE
    BY <2>1
  <2> DEFINE r == s \ {x}
  <2>3. Cardinality(r) = k - 1 /\ r \in SUBSET S
    BY <2>1, <2>2, FS_RemoveElement
  <2>4. PICK it : SumsAs(it, f, r)
    BY <2>3, <1>2
  <2> DEFINE next == [t \in SUBSET s |-> IF x \in t THEN f[x] + it[t \ {x}] ELSE it[t]]
  <2>5. f[x] \in Int /\ \A y \in s : f[y] \in Int
    BY <2>2
  <2>6. \A t \in SUBSET s : t \ {x} \in SUBSET r /\ (x \notin t => t \in SUBSET r)
    OBVIOUS
  <2>7. /\ it \in [SUBSET r -> Int] /\ it[{}] = 0
        /\ \A t \in SUBSET r : \A y \in t : it[t] = f[y] + it[t \ {y}]
    BY <2>4 DEF SumsAs
  <2> HIDE DEF r
  <2>8. next \in [SUBSET s -> Int] /\ next[{}] = 0
    BY <2>5, <2>6, <2>7
  <2>9. ASSUME NEW t \in SUBSET s, NEW y \in t
        PROVE  next[t] = f[y] + next[t \ {y}]
    <3>1. CASE y = x
      BY <3>1, <2>9
    <3>2. CASE y # x /\ x \in t
      <4> DEFINE u == t \ {x}
      <4>1. next[t] = f[x] + it[u] /\ u \in SUBSET r /\ y \in u
        BY <3>2, <2>6
      <4>2. it[u] = f[y] + it[u \ {y}] /\ it[u \ {y}] \in Int
        <5>1. u \ {y} \in SUBSET r
          BY <4>1
        <5> QED BY <4>1, <2>7, <5>1
      <4>3. next[t \ {y}] = f[x] + it[u \ {y}]
        <5>1. (t \ {y}) \ {x} = u \ {y} /\ x \in t \ {y} /\ t \ {y} \in SUBSET s
          BY <3>2
        <5> HIDE DEF u
        <5> QED BY <5>1
      <4>4. f[x] \in Int /\ f[y] \in Int
        BY <2>5
      <4> HIDE DEF u, next
      <4> QED BY <4>1, <4>2, <4>3, <4>4
    <3>3. CASE x \notin t
      <4>1. it[t] = f[y] + it[t \ {y}] /\ next[t] = it[t] /\ next[t \ {y}] = it[t \ {y}]
        BY <3>3, <2>6, <2>7
      <4> QED BY <4>1
    <3> QED BY <3>1, <3>2, <3>3
  <2> HIDE DEF next
  <2>10. SumsAs(next, f, s)
    BY <2>8, <2>9 DEF SumsAs
  <2> QED BY <2>10
<1>3. n \in G
  <2> HIDE DEF G, n
  <2> QED BY <1>0, <1>1, <1>2, UpTo
<1> QED BY <1>3

\* The sum is what that function gives.
LEMMA SumIs ==
    ASSUME NEW D, NEW f \in [D -> Int], NEW S \in SUBSET D, IsFiniteSet(S),
           NEW it, SumsAs(it, f, S)
    PROVE  SumFunctionOnSet(f, S) = it[S]
<1> DEFINE Step(g) == [s \in SUBSET S |-> IF s = {} THEN 0
                           ELSE LET x == CHOOSE y \in s : TRUE IN f[x] + g[s \ {x}]]
           iter == CHOOSE g : g = Step(g)
<1>1. SumFunctionOnSet(f, S) = iter[S]
  BY DEF SumFunctionOnSet, FoldFunctionOnSet, MapThenFoldSet
<1>2. /\ it \in [SUBSET S -> Int] /\ it[{}] = 0
      /\ \A s \in SUBSET S : \A x \in s : it[s] = f[x] + it[s \ {x}]
  BY DEF SumsAs
<1>3. it = Step(it)
  <2>1. ASSUME NEW s \in SUBSET S
        PROVE  it[s] = IF s = {} THEN 0
                       ELSE LET x == CHOOSE y \in s : TRUE IN f[x] + it[s \ {x}]
    BY <1>2
  <2>2. Step(it) = [s \in SUBSET S |-> it[s]]
    BY <2>1
  <2>3. it = [s \in SUBSET S |-> it[s]]
    BY <1>2
  <2> HIDE DEF Step
  <2> QED BY <2>2, <2>3
<1>4. iter = Step(iter)
  <2> HIDE DEF Step
  <2> QED BY <1>3
<1> HIDE DEF iter
<1> DEFINE n == Cardinality(S)
           G == {k \in 0..n : \A s \in SUBSET S : Cardinality(s) = k => iter[s] = it[s]}
<1>5. n \in Nat /\ \A s \in SUBSET S : IsFiniteSet(s)
  BY FS_CardinalityType, FS_Subset
<1>6. \A s \in SUBSET S : iter[s] = IF s = {} THEN 0
                           ELSE LET x == CHOOSE y \in s : TRUE IN f[x] + iter[s \ {x}]
  BY <1>4
<1>7. 0 \in G
  <2>1. \A s \in SUBSET S : Cardinality(s) = 0 => s = {}
    BY <1>5, FS_EmptySet
  <2>2. iter[{}] = 0 /\ it[{}] = 0
    <3>1. {} \in SUBSET S
      OBVIOUS
    <3> HIDE DEF Step
    <3> QED BY <3>1, <1>2, <1>6
  <2> HIDE DEF Step
  <2> QED BY <2>1, <2>2, <1>5
<1>8. ASSUME NEW k \in 1..n, k - 1 \in G PROVE k \in G
  <2> SUFFICES ASSUME NEW s \in SUBSET S, Cardinality(s) = k PROVE iter[s] = it[s]
    BY <1>5, <1>8
  <2>1. s # {}
    BY FS_EmptySet
  <2> DEFINE x == CHOOSE y \in s : TRUE
  <2>2. x \in s
    BY <2>1
  <2>3. iter[s] = f[x] + iter[s \ {x}]
    BY <1>6, <2>1
  <2> HIDE DEF x
  <2>4. Cardinality(s \ {x}) = k - 1 /\ s \ {x} \in SUBSET S
    BY <2>2, <1>5, FS_RemoveElement
  <2>5. iter[s \ {x}] = it[s \ {x}]
    BY <2>4, <1>8
  <2>6. it[s] = f[x] + it[s \ {x}]
    BY <1>2, <2>2
  <2> QED BY <2>3, <2>5, <2>6
<1>9. n \in G
  <2> HIDE DEF G, n
  <2> QED BY <1>5, <1>7, <1>8, UpTo
<1> QED BY <1>1, <1>9

\* The sum over nothing, and over a set with one element taken out.
LEMMA SumOfNone ==
    ASSUME NEW D, NEW f \in [D -> Int]
    PROVE  SumFunctionOnSet(f, {}) = 0
<1>1. {} \in SUBSET D /\ IsFiniteSet({})
  BY FS_EmptySet
<1>2. PICK it : SumsAs(it, f, {})
  BY <1>1, SumsExist
<1>3. SumFunctionOnSet(f, {}) = it[{}]
  BY <1>1, <1>2, SumIs
<1> QED BY <1>2, <1>3 DEF SumsAs

\* A total is any one value and the total of the others: a stack and the rest
\* of the bag, an account and the rest of them (transaction.rs).
LEMMA SumWithout ==
    ASSUME NEW D, NEW f \in [D -> Int], NEW S \in SUBSET D, IsFiniteSet(S), NEW x \in S
    PROVE  /\ SumFunctionOnSet(f, S) = f[x] + SumFunctionOnSet(f, S \ {x})
           /\ SumFunctionOnSet(f, S) \in Int /\ SumFunctionOnSet(f, S \ {x}) \in Int
<1> DEFINE R == S \ {x}
<1>1. PICK it : SumsAs(it, f, S)
  BY SumsExist
<1>2. SumFunctionOnSet(f, S) = it[S]
  BY <1>1, SumIs
<1>3. R \in SUBSET D /\ IsFiniteSet(R) /\ R \in SUBSET S
  BY FS_Subset
<1> DEFINE ir == [s \in SUBSET R |-> it[s]]
<1>4. SumsAs(ir, f, R)
  <2>1. /\ it \in [SUBSET S -> Int] /\ it[{}] = 0
        /\ \A s \in SUBSET S : \A y \in s : it[s] = f[y] + it[s \ {y}]
    BY <1>1 DEF SumsAs
  <2>2. \A s \in SUBSET R : s \in SUBSET S
    OBVIOUS
  <2> HIDE DEF R
  <2> QED BY <2>1, <2>2 DEF SumsAs
<1>5. SumFunctionOnSet(f, R) = ir[R]
  <2> HIDE DEF R, ir
  <2> QED BY <1>3, <1>4, SumIs
<1>6. ir[R] = it[R] /\ it[S] = f[x] + it[R] /\ it[S] \in Int /\ it[R] \in Int
  BY <1>1, <1>3 DEF SumsAs
<1> HIDE DEF R, ir
<1>7. SumFunctionOnSet(f, S) = f[x] + SumFunctionOnSet(f, R)
      /\ SumFunctionOnSet(f, S) \in Int /\ SumFunctionOnSet(f, R) \in Int
  BY <1>2, <1>5, <1>6
<1> QED BY <1>7 DEF R

\* A total of numbers over a finite set is a number (the balances and the
\* quantities of transaction.rs).
LEMMA SumIsNumber ==
    ASSUME NEW D, NEW f \in [D -> Int], NEW S \in SUBSET D, IsFiniteSet(S)
    PROVE  SumFunctionOnSet(f, S) \in Int
<1>1. CASE S = {}
  BY <1>1, SumOfNone
<1>2. CASE S # {}
  BY <1>2, SumWithout
<1> QED BY <1>1, <1>2

\* Functions whose values are ordered have sums that are.
LEMMA SumOrdered ==
    ASSUME NEW D, NEW f \in [D -> Int], NEW E, NEW g \in [E -> Int],
           NEW S \in SUBSET (D \intersect E), IsFiniteSet(S), \A x \in S : f[x] <= g[x]
    PROVE  SumFunctionOnSet(f, S) <= SumFunctionOnSet(g, S)
<1> DEFINE n == Cardinality(S)
           Holds(s) == SumFunctionOnSet(f, s) <= SumFunctionOnSet(g, s)
           G == {k \in 0..n : \A s \in SUBSET S : Cardinality(s) = k => Holds(s)}
<1>0. n \in Nat /\ \A s \in SUBSET S : IsFiniteSet(s)
  BY FS_CardinalityType, FS_Subset
<1>1. 0 \in G
  <2>1. \A s \in SUBSET S : Cardinality(s) = 0 => s = {}
    BY <1>0, FS_EmptySet
  <2>2. SumFunctionOnSet(f, {}) = 0 /\ SumFunctionOnSet(g, {}) = 0
    BY SumOfNone
  <2> QED BY <2>1, <2>2, <1>0
<1>2. ASSUME NEW k \in 1..n, k - 1 \in G PROVE k \in G
  <2> SUFFICES ASSUME NEW s \in SUBSET S, Cardinality(s) = k PROVE Holds(s)
    BY <1>0, <1>2
  <2>1. PICK x \in s : TRUE
    BY FS_EmptySet
  <2> DEFINE r == s \ {x}
  <2>2. Cardinality(r) = k - 1 /\ r \in SUBSET S
    BY <2>1, <1>0, FS_RemoveElement
  <2>3. Holds(r)
    <3> HIDE DEF r, Holds
    <3> QED BY <2>2, <1>2
  <2>4. /\ SumFunctionOnSet(f, s) = f[x] + SumFunctionOnSet(f, r)
        /\ SumFunctionOnSet(f, s) \in Int /\ SumFunctionOnSet(f, r) \in Int
    <3>1. s \in SUBSET D /\ IsFiniteSet(s)
      BY <1>0
    <3> QED BY <3>1, <2>1, SumWithout
  <2>5. /\ SumFunctionOnSet(g, s) = g[x] + SumFunctionOnSet(g, r)
        /\ SumFunctionOnSet(g, s) \in Int /\ SumFunctionOnSet(g, r) \in Int
    <3>1. s \in SUBSET E /\ IsFiniteSet(s)
      BY <1>0
    <3> QED BY <3>1, <2>1, SumWithout
  <2>6. f[x] \in Int /\ g[x] \in Int /\ f[x] <= g[x]
    BY <2>1
  <2> HIDE DEF r
  <2> QED BY <2>3, <2>4, <2>5, <2>6
<1>3. n \in G
  <2> HIDE DEF G, n
  <2> QED BY <1>0, <1>1, <1>2, UpTo
<1> QED BY <1>3

\* Functions that agree on a set have the same sum over it.
LEMMA SumSame ==
    ASSUME NEW D, NEW f \in [D -> Int], NEW E, NEW g \in [E -> Int],
           NEW S \in SUBSET (D \intersect E), IsFiniteSet(S), \A x \in S : f[x] = g[x]
    PROVE  SumFunctionOnSet(f, S) = SumFunctionOnSet(g, S)
<1>1. S \in SUBSET (E \intersect D) /\ \A x \in S : f[x] <= g[x] /\ g[x] <= f[x]
  OBVIOUS
<1>2. SumFunctionOnSet(f, S) <= SumFunctionOnSet(g, S)
  BY <1>1, SumOrdered
<1>3. SumFunctionOnSet(g, S) <= SumFunctionOnSet(f, S)
  BY <1>1, SumOrdered
<1>4. SumFunctionOnSet(f, S) \in Int /\ SumFunctionOnSet(g, S) \in Int
  <2>1. S \in SUBSET D /\ S \in SUBSET E
    OBVIOUS
  <2> QED BY <2>1, SumIsNumber
<1> QED BY <1>2, <1>3, <1>4

\* One value changes, and the sum by as much.
LEMMA SumChanged ==
    ASSUME NEW D, NEW f \in [D -> Int], NEW g \in [D -> Int], NEW S \in SUBSET D,
           IsFiniteSet(S), NEW x \in S, \A y \in S \ {x} : g[y] = f[y]
    PROVE  SumFunctionOnSet(g, S) = SumFunctionOnSet(f, S) - f[x] + g[x]
<1> DEFINE R == S \ {x}
<1>1. R \in SUBSET (D \intersect D) /\ IsFiniteSet(R)
  BY FS_Subset
<1>2. \A y \in R : g[y] = f[y]
  OBVIOUS
<1>3. /\ SumFunctionOnSet(f, S) = f[x] + SumFunctionOnSet(f, R)
      /\ SumFunctionOnSet(f, S) \in Int /\ SumFunctionOnSet(f, R) \in Int
  BY SumWithout
<1>4. /\ SumFunctionOnSet(g, S) = g[x] + SumFunctionOnSet(g, R)
      /\ SumFunctionOnSet(g, S) \in Int /\ SumFunctionOnSet(g, R) \in Int
  BY SumWithout
<1> HIDE DEF R
<1>5. SumFunctionOnSet(f, R) = SumFunctionOnSet(g, R)
  BY <1>1, <1>2, SumSame
<1> QED BY <1>3, <1>4, <1>5

\* The same over a subset and what it gains: one more value.
LEMMA SumWith ==
    ASSUME NEW D, NEW f \in [D -> Int], NEW S \in SUBSET D, IsFiniteSet(S), NEW x \in D \ S
    PROVE  /\ SumFunctionOnSet(f, S \union {x}) = SumFunctionOnSet(f, S) + f[x]
           /\ SumFunctionOnSet(f, S) \in Int
<1> DEFINE T == S \union {x}
<1>1. T \in SUBSET D /\ IsFiniteSet(T) /\ x \in T /\ T \ {x} = S
  BY FS_AddElement
<1> HIDE DEF T
<1>2. /\ SumFunctionOnSet(f, T) = f[x] + SumFunctionOnSet(f, T \ {x})
      /\ SumFunctionOnSet(f, T \ {x}) \in Int
  BY <1>1, SumWithout
<1>3. f[x] \in Int
  OBVIOUS
<1>4. SumFunctionOnSet(f, T) = SumFunctionOnSet(f, S) + f[x] /\ SumFunctionOnSet(f, S) \in Int
  <2>1. SumFunctionOnSet(f, T \ {x}) = SumFunctionOnSet(f, S)
    BY <1>1
  <2> QED BY <2>1, <1>2, <1>3
<1> QED BY <1>4 DEF T

\* Over the whole domain: one value of a function changes, or two do.
LEMMA OneChanged ==
    ASSUME NEW D, IsFiniteSet(D), NEW f \in [D -> Int], NEW g \in [D -> Int], NEW x \in D,
           \A y \in D \ {x} : g[y] = f[y]
    PROVE  /\ SumFunctionOnSet(g, D) = SumFunctionOnSet(f, D) - f[x] + g[x]
           /\ SumFunctionOnSet(f, D) \in Int /\ SumFunctionOnSet(g, D) \in Int
<1> DEFINE S == D
<1>1. S \in SUBSET D /\ IsFiniteSet(S) /\ x \in S /\ \A y \in S \ {x} : g[y] = f[y]
  OBVIOUS
<1> HIDE DEF S
<1>2. SumFunctionOnSet(g, S) = SumFunctionOnSet(f, S) - f[x] + g[x]
  BY <1>1, SumChanged
<1>3. SumFunctionOnSet(f, S) \in Int /\ SumFunctionOnSet(g, S) \in Int
  BY <1>1, SumIsNumber
<1> QED BY <1>2, <1>3 DEF S

\* A debit of one account and a credit of another change the total over all
\* accounts by what the two change (transaction.rs, the currency transfer).
LEMMA TwoChanged ==
    ASSUME NEW D, IsFiniteSet(D), NEW f \in [D -> Int], NEW g \in [D -> Int],
           NEW x \in D, NEW z \in D, x # z, \A y \in D \ {x, z} : g[y] = f[y]
    PROVE  SumFunctionOnSet(g, D) = SumFunctionOnSet(f, D) - f[x] - f[z] + g[x] + g[z]
<1> DEFINE h == [f EXCEPT ![x] = g[x]]
<1>1. /\ h \in [D -> Int] /\ h[x] = g[x] /\ h[z] = f[z]
      /\ \A y \in D \ {x} : h[y] = f[y]
      /\ \A y \in D \ {z} : g[y] = h[y]
  OBVIOUS
<1> HIDE DEF h
<1>2. SumFunctionOnSet(h, D) = SumFunctionOnSet(f, D) - f[x] + h[x]
      /\ SumFunctionOnSet(f, D) \in Int /\ SumFunctionOnSet(h, D) \in Int
  BY <1>1, OneChanged
<1>3. SumFunctionOnSet(g, D) = SumFunctionOnSet(h, D) - h[z] + g[z]
      /\ SumFunctionOnSet(g, D) \in Int
  BY <1>1, OneChanged
<1>4. f[x] \in Int /\ f[z] \in Int /\ g[x] \in Int /\ g[z] \in Int
  OBVIOUS
<1> QED BY <1>1, <1>2, <1>3, <1>4

\* A total of equal values is their number times the value: what so many full
\* containers hold (item_graph.rs).
LEMMA SumOfEqual ==
    ASSUME NEW D, IsFiniteSet(D), NEW A \in SUBSET D, NEW v \in Int, NEW f \in [D -> Int],
           \A x \in D : f[x] = IF x \in A THEN v ELSE 0
    PROVE  SumFunctionOnSet(f, D) = v * Cardinality(A)
<1> DEFINE n == Cardinality(D)
           Holds(s) == SumFunctionOnSet(f, s) = v * Cardinality(s \intersect A)
           G == {k \in 0..n : \A s \in SUBSET D : Cardinality(s) = k => Holds(s)}
<1>0. n \in Nat /\ \A s \in SUBSET D : IsFiniteSet(s)
  BY FS_CardinalityType, FS_Subset
<1>1. 0 \in G
  <2>1. \A s \in SUBSET D : Cardinality(s) = 0 => s = {}
    BY <1>0, FS_EmptySet
  <2>2. SumFunctionOnSet(f, {}) = 0 /\ Cardinality({} \intersect A) = 0
    <3>1. {} \intersect A = {} /\ Cardinality({}) = 0
      BY FS_EmptySet
    <3> QED BY <3>1, SumOfNone
  <2>3. Holds({})
    BY <2>2
  <2> HIDE DEF Holds
  <2> QED BY <2>1, <2>3, <1>0
<1>2. ASSUME NEW k \in 1..n, k - 1 \in G PROVE k \in G
  <2> SUFFICES ASSUME NEW s \in SUBSET D, Cardinality(s) = k PROVE Holds(s)
    BY <1>0, <1>2
  <2>1. PICK x \in s : TRUE
    BY FS_EmptySet
  <2> DEFINE r == s \ {x}
  <2>2. Cardinality(r) = k - 1 /\ r \in SUBSET D
    BY <2>1, <1>0, FS_RemoveElement
  <2>3. Holds(r)
    <3> HIDE DEF r, Holds
    <3> QED BY <2>2, <1>2
  <2>4. /\ SumFunctionOnSet(f, s) = f[x] + SumFunctionOnSet(f, r)
        /\ SumFunctionOnSet(f, r) \in Int
    <3>1. IsFiniteSet(s)
      BY <1>0
    <3> QED BY <3>1, <2>1, SumWithout
  <2>5. CASE x \in A
    <3> DEFINE p == s \intersect A
    <3>1. IsFiniteSet(p) /\ x \in p /\ p \ {x} = r \intersect A
      BY <1>0, <2>1, <2>5
    <3> HIDE DEF p
    <3>2. Cardinality(r \intersect A) = Cardinality(p) - 1 /\ Cardinality(p) \in Nat
      BY <3>1, FS_RemoveElement, FS_CardinalityType
    <3>3. f[x] = v
      BY <2>1, <2>5
    <3> DEFINE a == Cardinality(p)
    <3>4. v * a = v + v * (a - 1)
      <4> HIDE DEF a
      <4>1. a \in Int
        BY <3>2 DEF a
      <4> QED BY <4>1
    <3>5. SumFunctionOnSet(f, s) = v * Cardinality(p)
      BY <2>3, <2>4, <3>2, <3>3, <3>4
    <3> QED BY <3>5 DEF p
  <2>6. CASE x \notin A
    <3>1. f[x] = 0 /\ s \intersect A = r \intersect A
      BY <2>1, <2>6
    <3> HIDE DEF r
    <3>2. SumFunctionOnSet(f, s) = SumFunctionOnSet(f, r)
      BY <2>4, <3>1
    <3> QED BY <2>3, <3>1, <3>2
  <2> QED BY <2>5, <2>6
<1>3. n \in G
  <2> HIDE DEF G, n
  <2> QED BY <1>0, <1>1, <1>2, UpTo
<1>4. Holds(D)
  <2> DEFINE all == D
  <2>1. all \in SUBSET D /\ Cardinality(all) = n
    OBVIOUS
  <2> HIDE DEF all, Holds, n
  <2>2. Holds(all)
    BY <1>3, <2>1
  <2> QED BY <2>2 DEF all
<1>5. D \intersect A = A
  OBVIOUS
<1> QED BY <1>4, <1>5

\* Nothing negative sums up to nothing negative.
LEMMA SumOfNats ==
    ASSUME NEW D, NEW f \in [D -> Int], NEW S \in SUBSET D, IsFiniteSet(S),
           \A x \in S : f[x] >= 0
    PROVE  SumFunctionOnSet(f, S) \in Nat
<1> DEFINE none == [x \in S |-> 0]  z == {}
<1>1. none \in [S -> Int] /\ z \in SUBSET S /\ \A x \in S : none[x] = IF x \in z THEN 0 ELSE 0
  OBVIOUS
<1>2. Cardinality(z) = 0 /\ S \in SUBSET (S \intersect D) /\ \A x \in S : none[x] <= f[x]
  <2>1. \A x \in S : f[x] \in Int
    OBVIOUS
  <2> QED BY <2>1, FS_EmptySet
<1> HIDE DEF none, z
<1>3. SumFunctionOnSet(none, S) = 0 * Cardinality(z)
  BY <1>1, SumOfEqual
<1>4. SumFunctionOnSet(none, S) <= SumFunctionOnSet(f, S)
  BY <1>1, <1>2, SumOrdered
<1>5. SumFunctionOnSet(f, S) \in Int
  BY SumIsNumber
<1>6. SumFunctionOnSet(none, S) = 0
  BY <1>2, <1>3
<1> QED BY <1>4, <1>5, <1>6
===============================================================================
