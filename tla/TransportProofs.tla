---------------------------- MODULE TransportProofs ----------------------------
(*****************************************************************************)
(* Theorems about ReliableChannel: what the receiver has is told from the    *)
(* numbers on the wire and in the acknowledgements, although they wrap.      *)
(* Theorems about PacketQueues: the rings are queues, whatever wraps around  *)
(* or is taken out of their middle, and their counters count.                *)
(* Theorems about ReplayWindow: nothing is accepted twice.                   *)
(*****************************************************************************)
EXTENDS MCTransport, DataLemmas, FiniteSetTheorems, FunctionTheorems, SequenceTheorems, TLAPS

\* What has reached the receiver, and what the sender still keeps.
Received == (1..Len(delivered)) \union reorder
Ids == {pending[i].id : i \in Used}

PendingPackets ==
    [sequence : Seqs, id : Nat, countdown : 0..MaxBackoff, retries : Nat, used : BOOLEAN]

\* The variables are well typed.
ChanTypeInv ==
    /\ sent \in 0..MaxMessages /\ has_received_any \in BOOLEAN
    /\ pending \in [Slots -> PendingPackets]
    /\ wire \subseteq 1..sent
    /\ expected \in Seqs /\ highest \in Seqs /\ bitfield \subseteq 1..AckBits
    /\ delivered \in Seq(Nat)
    /\ IsFiniteSet(reorder) /\ Cardinality(reorder) <= ORDERED_CAP

\* What is kept lies in the window, and what travels close behind it.
PendingInv ==
    \A i \in Used :
        /\ pending[i].id \in 1..sent /\ pending[i].sequence = seq_of(pending[i].id)
        /\ sent < pending[i].id + PENDING_CAP
WireInv == \A k \in wire : sent < k + MaxAge \/ sent < k + PENDING_CAP

\* The receiver has a prefix and what waits, which was within the window when
\* it arrived; meanwhile the sender may have gone on.
DeliveredInv ==
    /\ \A i \in 1..Len(delivered) : delivered[i] = i
    /\ expected = Len(delivered) % Modulus
    /\ Len(delivered) <= sent
    /\ \A k \in reorder : k \in Len(delivered) + 1..sent /\ k <= Len(delivered) + PENDING_CAP
RetiredInv == \A k \in 1..sent : k \in Ids \/ k \in Received

\* An acknowledgement stands for one message, the highest at the time, and
\* names only what was received; as long as it travels, the next message is
\* kept, so that the sender cannot run away from it.
Names(ack, bits, k) ==
    /\ ack = seq_of(k) /\ k \in Received
    /\ \A d \in bits : k - d \in Received
AckInv ==
    /\ ~ has_received_any => Received = {} /\ ackWire = {}
    /\ has_received_any => \E k \in Received : Names(highest, bitfield, k) /\ \A j \in Received : j <= k
    /\ \A a \in ackWire :
           /\ a.bits \subseteq 1..AckBits
           /\ \E k \in Received : Names(a.ack, a.bits, k) /\ (sent > k => k + 1 \in Ids)

ChanInv == ChanTypeInv /\ PendingInv /\ WireInv /\ DeliveredInv /\ RetiredInv /\ AckInv

Half == Modulus \div 2

\* Window and age of a packet stay below half the sequence space, where a
\* signed difference tells older from newer (channel.rs:55-62).
LEMMA HalfWindow ==
    /\ Modulus \in Nat \ {0} /\ Half \in Nat /\ 2 * Half <= Modulus
    /\ PENDING_CAP \in 0..Half - 1 /\ MaxAge \in 0..Half - 1
BY WindowAssumption DEF Half

\* The wrapping difference of two sequence numbers, when the positions they
\* stand for are less than the sequence space apart (queue_reliable_message).
LEMMA WrappedDifference ==
    ASSUME NEW a \in Nat, NEW b \in Nat, a <= b, b - a < Modulus
    PROVE  /\ wrapping_sub(b % Modulus, a % Modulus) = b - a
           /\ wrapping_sub(a % Modulus, b % Modulus) = IF a = b THEN 0 ELSE Modulus - (b - a)
<1> DEFINE M == Modulus  n == b - a  r == a % M
<1>1. M \in Nat \ {0} /\ n \in 0..(M - 1) /\ b = a + n /\ b - a = n
  BY HalfWindow
<1> HIDE DEF M, n
<1>2. r \in 0..(M - 1)
  BY <1>1, RoundAndSlot
<1>3. b % M = (r + n) % M
  <2>1. n \in Nat
    BY <1>1
  <2>2. (a + n) % M = ((a % M) + n) % M
    BY <2>1, <1>1, RemainderStep, Zenon
  <2> QED BY <2>2, <1>1
<1>4. (r + n) % M = IF r + n < M THEN r + n ELSE r + n - M
  <2>1. n \in 0..M
    BY <1>1
  <2> QED BY <2>1, <1>1, <1>2, ModSmall, Zenon
<1> HIDE DEF r
<1> DEFINE s == b % M
<1>5. s = (IF r + n < M THEN r + n ELSE r + n - M) /\ s \in 0..(M - 1)
  BY <1>1, <1>2, <1>3, <1>4
<1> HIDE DEF s
<1>6. (s + M - r) % M = n
  <2> DEFINE x == s + M - r
  <2>1. x = n \/ x = n + M
    BY <1>1, <1>2, <1>5
  <2>2. n % M = n /\ (n + M) % M = n
    BY <1>1
  <2> HIDE DEF x
  <2>3. x % M = n
    BY <2>1, <2>2
  <2> QED BY <2>3 DEF x
<1>7. (r + M - s) % M = IF n = 0 THEN 0 ELSE M - n
  <2> DEFINE x == r + M - s
  <2>1. x = M - n \/ x = M + (M - n)
    BY <1>1, <1>2, <1>5
  <2>2. CASE n = 0
    <3>1. M % M = 0 /\ (M + M) % M = 0
      BY <1>1
    <3>2. x = M \/ x = M + M
      BY <2>1, <2>2, <1>1
    <3> HIDE DEF x
    <3>3. x % M = 0
      BY <3>1, <3>2
    <3> QED BY <3>3, <2>2 DEF x
  <2>3. CASE n # 0
    <3> DEFINE m == M - n
    <3>1. m \in 1..(M - 1)
      BY <2>3, <1>1
    <3> HIDE DEF m
    <3>2. m % M = m /\ (M + m) % M = m
      BY <3>1, <1>1
    <3>3. x = m \/ x = M + m
      BY <2>1 DEF m
    <3> HIDE DEF x
    <3>4. x % M = m
      BY <3>2, <3>3
    <3> QED BY <3>4, <2>3 DEF x, m
  <2> QED BY <2>2, <2>3
<1>8. (a = b) <=> (n = 0)
  BY <1>1
<1> QED BY <1>1, <1>6, <1>7, <1>8 DEF wrapping_sub, M, r, s, n

\* Messages less than half the sequence space apart are told apart by their
\* numbers, and which is newer (is_sequence_newer, channel.rs:55-62).
LEMMA SequencesApart ==
    ASSUME NEW j \in Nat \ {0}, NEW k \in Nat \ {0}, j < k + Half, k < j + Half
    PROVE  /\ seq_of(j) = seq_of(k) <=> j = k
           /\ is_sequence_newer(seq_of(j), seq_of(k)) <=> j > k
           /\ j >= k => wrapping_sub(seq_of(j), seq_of(k)) = j - k
           /\ seq_of(j) \in Seqs
<1> DEFINE a == j - 1  b == k - 1  M == Modulus
<1>1. /\ a \in Nat /\ b \in Nat /\ M \in Nat \ {0} /\ Half \in Nat /\ 2 * Half <= M
      /\ seq_of(j) = a % M /\ seq_of(k) = b % M
  BY HalfWindow DEF seq_of
<1>2. a % M \in 0..(M - 1)
  BY <1>1, RoundAndSlot
<1>3. CASE j = k
  <2>1. wrapping_sub(a % M, a % M) = a - a
    <3>1. a <= a /\ a - a < M
      BY <1>1
    <3> QED BY <3>1, <1>1, WrappedDifference, Zenon
  <2> QED BY <2>1, <1>1, <1>2, <1>3 DEF is_sequence_newer, Seqs
<1>4. CASE j > k
  <2>0. b < a /\ b <= a /\ a - b \in 1..(Half - 1) /\ a - b < M
    BY <1>1, <1>4
  <2>1. wrapping_sub(a % M, b % M) = a - b
    BY <2>0, <1>1, WrappedDifference, Zenon
  <2>2. b % M # a % M
    BY <1>1, <2>0, SlotsApart, Zenon
  <2> QED BY <2>0, <2>1, <2>2, <1>1, <1>2, <1>4 DEF is_sequence_newer, Seqs, Half
<1>5. CASE j < k
  <2>0. a < b /\ a <= b /\ a # b /\ b - a \in 1..(Half - 1) /\ b - a < M
    BY <1>1, <1>5
  <2>1. wrapping_sub(a % M, b % M) = M - (b - a)
    <3>1. wrapping_sub(a % M, b % M) = IF a = b THEN 0 ELSE M - (b - a)
      BY <2>0, <1>1, WrappedDifference, Zenon
    <3> QED BY <3>1, <2>0
  <2>2. b % M # a % M
    BY <1>1, <2>0, SlotsApart, Zenon
  <2>3. M - (b - a) > Half - 1
    BY <2>0, <1>1
  <2> QED BY <2>0, <2>1, <2>2, <2>3, <1>1, <1>2, <1>5 DEF is_sequence_newer, Seqs, Half
<1> QED BY <1>3, <1>4, <1>5

\* What the invariant says of the ranges; the sender is no further ahead than
\* the window, unless the next message waits to be drained.
LEMMA ChanRanges ==
    ASSUME ChanInv
    PROVE  /\ Len(delivered) \in Nat /\ sent \in Nat /\ Len(delivered) <= sent
           /\ Len(delivered) + 1 \in reorder \/ sent <= Len(delivered) + PENDING_CAP
           /\ PENDING_CAP \in Nat /\ Half \in Nat /\ PENDING_CAP < Half
           /\ MaxAge \in Nat /\ MaxAge < Half /\ Modulus \in Nat \ {0}
           /\ Received \subseteq 1..sent /\ reorder \subseteq Len(delivered) + 1..sent
           /\ wire \subseteq 1..sent
<1> DEFINE D == Len(delivered)
<1>1. /\ D \in Nat /\ sent \in Nat /\ D <= sent /\ PENDING_CAP \in Nat /\ Half \in Nat /\ PENDING_CAP < Half
      /\ MaxAge \in Nat /\ MaxAge < Half /\ Modulus \in Nat \ {0}
      /\ reorder \subseteq D + 1..sent /\ wire \subseteq 1..sent
  <2>1. D \in Nat
    BY LenProperties DEF ChanInv, ChanTypeInv
  <2> QED BY <2>1, HalfWindow, WindowAssumption DEF ChanInv, ChanTypeInv, DeliveredInv
<1> HIDE DEF D
<1>2. Received \subseteq 1..sent
  <2> SUFFICES ASSUME NEW k \in (1..D) \union reorder PROVE k \in 1..sent
    BY DEF Received, D
  <2>1. CASE k \in 1..D
    BY <2>1, <1>1
  <2>2. CASE k \in reorder
    BY <2>2, <1>1
  <2> QED BY <2>1, <2>2
<1>3. D + 1 \in reorder \/ sent <= D + PENDING_CAP
  <2>1. CASE D + 1 <= sent /\ D + 1 \notin reorder
    <3>1. D + 1 \in 1..sent /\ D + 1 \notin Received
      BY <2>1, <1>1 DEF Received, D
    <3>2. D + 1 \in Ids
      BY <3>1 DEF ChanInv, RetiredInv
    <3>3. PICK i \in Used : pending[i].id = D + 1
      BY <3>2 DEF Ids
    <3> QED BY <3>3, <1>1 DEF ChanInv, PendingInv
  <2> QED BY <2>1, <1>1
<1> QED BY <1>1, <1>2, <1>3 DEF D

\* A message for which a slot is free goes into it (queue_reliable_message).
LEMMA QueueKeepsInv == ASSUME ChanInv, queue_reliable_message PROVE ChanInv'
<1> DEFINE n == sent + 1
           s == Min(Slots \ Used)
           new == [sequence |-> next_outgoing_seq, id |-> n, countdown |-> RetryTicks,
                   retries |-> 0, used |-> TRUE]
<1>0. /\ sent < MaxMessages /\ Flight < PENDING_CAP /\ Used # Slots
      /\ pending' = [pending EXCEPT ![s] = new] /\ sent' = n
      /\ wire' = {k \in wire : k + MaxAge > n} \union {n}
      /\ UNCHANGED <<ackWire, receiverVars>>
  BY DEF queue_reliable_message
<1>1. s \in Slots /\ s \notin Used
  <2> DEFINE Unused == Slots \ Used
  <2>1. Unused \subseteq Nat /\ Unused # {}
    BY <1>0, ChanRanges DEF Slots, Used
  <2> HIDE DEF Unused
  <2>2. Min(Unused) \in Unused
    BY <2>1, SmallestOf DEF Min
  <2> QED BY <2>2 DEF Unused
<1>2. /\ PENDING_CAP >= 1 /\ n \in 1..MaxMessages /\ n \in Nat /\ sent \in Nat /\ n = sent + 1
      /\ MaxMessages \in Nat
  BY <1>1, <1>0, ChanRanges, WindowAssumption DEF Slots
<1>3. new \in PendingPackets /\ new.sequence = seq_of(n) /\ new.id = n /\ new.used
  <2>1. next_outgoing_seq \in Seqs /\ next_outgoing_seq = seq_of(n)
    <3>1. sent % Modulus \in 0..(Modulus - 1)
      BY <1>2, ChanRanges, RoundAndSlot
    <3>2. n - 1 = sent
      BY <1>2
    <3> QED BY <3>1, <3>2 DEF next_outgoing_seq, Seqs, seq_of
  <2>2. RetryTicks \in 0..MaxBackoff
    BY WindowAssumption
  <2> QED BY <2>1, <2>2, <1>2 DEF PendingPackets
<1> HIDE DEF n, s, new
<1>4. /\ pending' \in [Slots -> PendingPackets] /\ pending'[s] = new
      /\ \A i \in Slots \ {s} : pending'[i] = pending[i]
  BY <1>0, <1>1, <1>3 DEF ChanInv, ChanTypeInv
<1>5. Used' = Used \union {s} /\ Ids' = Ids \union {n}
  <2>1. Used' = Used \union {s}
    BY <1>1, <1>3, <1>4 DEF Used
  <2> QED BY <2>1, <1>1, <1>3, <1>4 DEF Ids, Used
<1>6. \A i \in Used : sent + 1 < pending[i].id + PENDING_CAP
  <2> DEFINE F == {wrapping_sub(next_outgoing_seq, pending[i].sequence) : i \in Used}
  <2>1. \A i \in Used : wrapping_sub(next_outgoing_seq, pending[i].sequence) = n - pending[i].id
    <3> SUFFICES ASSUME NEW i \in Used
                 PROVE wrapping_sub(next_outgoing_seq, pending[i].sequence) = n - pending[i].id
      OBVIOUS
    <3> DEFINE k == pending[i].id
    <3>1. /\ k \in Nat \ {0} /\ n \in Nat \ {0} /\ k < n + Half /\ n < k + Half /\ n >= k
          /\ pending[i].sequence = seq_of(k)
      BY <1>2, ChanRanges DEF ChanInv, PendingInv
    <3> HIDE DEF k
    <3>2. wrapping_sub(seq_of(n), seq_of(k)) = n - k
      BY <3>1, SequencesApart
    <3>3. next_outgoing_seq = seq_of(n)
      BY <1>3 DEF new
    <3> QED BY <3>1, <3>2, <3>3 DEF k
  <2>2. F \subseteq 0..n
    BY <2>1, <1>2 DEF ChanInv, PendingInv
  <2> SUFFICES ASSUME NEW i \in Used PROVE sent + 1 < pending[i].id + PENDING_CAP
    OBVIOUS
  <2>3. n - pending[i].id \in F
    BY <2>1
  <2>4. Flight = Max(F)
    BY DEF Flight
  <2> HIDE DEF F
  <2>5. Max(F) \in F /\ \A y \in F : Max(F) >= y
    <3>1. \E m \in F : \A y \in F : m >= y
      BY <2>2, <2>3, <1>2, LargestOf
    <3> QED BY <3>1 DEF Max
  <2>6. Max(F) \in 0..n /\ n - pending[i].id <= Max(F) /\ Max(F) < PENDING_CAP
    BY <2>2, <2>3, <2>4, <2>5, <1>0
  <2>7. pending[i].id \in Nat
    BY DEF ChanInv, PendingInv
  <2> QED BY <2>6, <2>7, <1>2, ChanRanges
<1>7. ChanTypeInv'
  <2>1. wire' \subseteq 1..sent' /\ sent' \in 0..MaxMessages
    BY <1>0, <1>2, ChanRanges
  <2> QED BY <2>1, <1>0, <1>4 DEF ChanInv, ChanTypeInv, receiverVars
<1>8. PendingInv'
  <2> SUFFICES ASSUME NEW i \in Used'
               PROVE /\ pending'[i].id \in 1..sent' /\ pending'[i].sequence = seq_of(pending'[i].id)
                     /\ sent' < pending'[i].id + PENDING_CAP
    BY DEF PendingInv
  <2>1. CASE i = s
    BY <2>1, <1>0, <1>2, <1>3, <1>4, ChanRanges
  <2>2. CASE i \in Used /\ i # s
    <3>1. pending'[i] = pending[i] /\ pending[i].id \in 1..sent /\ pending[i].sequence = seq_of(pending[i].id)
      BY <2>2, <1>4 DEF Used, ChanInv, PendingInv
    <3> QED BY <3>1, <2>2, <1>0, <1>2, <1>6
  <2> QED BY <2>1, <2>2, <1>5
<1>9. WireInv'
  BY <1>0, <1>2, ChanRanges DEF WireInv
<1>10. Received' = Received /\ DeliveredInv'
  BY <1>0, <1>2, ChanRanges DEF ChanInv, DeliveredInv, Received, receiverVars
<1>11. RetiredInv'
  BY <1>0, <1>2, <1>5, <1>10 DEF ChanInv, RetiredInv
<1>12. AckInv'
  <2>1. \A k \in Received : (sent > k => k + 1 \in Ids) => (sent' > k => k + 1 \in Ids')
    BY <1>0, <1>2, <1>5, ChanRanges
  <2>2. UNCHANGED <<ackWire, highest, bitfield, has_received_any>>
    BY <1>0 DEF receiverVars
  <2> QED BY <2>1, <2>2, <1>10 DEF ChanInv, AckInv, Names
<1> QED BY <1>7, <1>8, <1>9, <1>10, <1>11, <1>12 DEF ChanInv

\* An acknowledgement retires only what the receiver has: it stands for one
\* message, close enough to those that are kept not to be mistaken for another.
LEMMA RemoteAckKeepsInv == ASSUME ChanInv, process_remote_ack PROVE ChanInv'
<1>0. PICK a \in ackWire :
          pending' = [i \in Slots |-> IF pending[i].used /\ acked(a, pending[i]) THEN Free ELSE pending[i]]
  BY DEF process_remote_ack
<1>1. ackWire' = {} /\ UNCHANGED <<sent, wire, receiverVars>>
  BY DEF process_remote_ack
<1>2. PICK m \in Received : Names(a.ack, a.bits, m) /\ (sent > m => m + 1 \in Ids)
  BY DEF ChanInv, AckInv
<1>3. m \in 1..sent /\ sent <= m + PENDING_CAP /\ sent \in Nat /\ PENDING_CAP < Half
      /\ PENDING_CAP \in Nat /\ Half \in Nat
  <2>1. m \in 1..sent /\ sent \in Nat /\ PENDING_CAP \in Nat /\ Half \in Nat /\ PENDING_CAP < Half
    BY <1>2, ChanRanges
  <2>2. CASE sent > m
    <3>1. PICK i \in Used : pending[i].id = m + 1
      BY <2>2, <1>2 DEF Ids
    <3> QED BY <3>1, <2>1 DEF ChanInv, PendingInv
  <2> QED BY <2>1, <2>2
<1>4. \A i \in Used : acked(a, pending[i]) => pending[i].id \in Received
  <2> SUFFICES ASSUME NEW i \in Used, acked(a, pending[i]) PROVE pending[i].id \in Received
    OBVIOUS
  <2> DEFINE k == pending[i].id
  <2>1. /\ k \in Nat \ {0} /\ m \in Nat \ {0} /\ k < m + Half /\ m < k + Half /\ k \in 1..sent
        /\ pending[i].sequence = seq_of(k)
    BY <1>3 DEF ChanInv, PendingInv
  <2>2. a.ack = seq_of(m) /\ \A d \in a.bits : m - d \in Received
    BY <1>2 DEF Names
  <2> HIDE DEF k
  <2>3. /\ seq_of(m) = seq_of(k) <=> m = k
        /\ is_sequence_newer(seq_of(m), seq_of(k)) <=> m > k
        /\ m >= k => wrapping_sub(seq_of(m), seq_of(k)) = m - k
    BY <2>1, SequencesApart
  <2>4. CASE pending[i].sequence = a.ack
    <3>1. k = m
      BY <2>4, <2>1, <2>2, <2>3
    <3> QED BY <3>1, <1>2 DEF k
  <2>5. CASE is_sequence_newer(a.ack, pending[i].sequence) /\ wrapping_sub(a.ack, pending[i].sequence) \in a.bits
    <3>1. m > k
      BY <2>5, <2>1, <2>2, <2>3
    <3>2. m - k \in a.bits
      BY <3>1, <2>5, <2>1, <2>2, <2>3
    <3>3. m - (m - k) = k
      BY <2>1
    <3>4. m - (m - k) \in Received
      BY <3>2, <2>2
    <3> QED BY <3>3, <3>4 DEF k
  <2> QED BY <2>4, <2>5 DEF acked
<1>5. /\ pending' \in [Slots -> PendingPackets] /\ Used' \subseteq Used
      /\ \A i \in Used' : pending'[i] = pending[i]
      /\ \A i \in Used : i \in Used' \/ acked(a, pending[i])
  <2>1. Free \in PendingPackets /\ ~ Free.used
    BY HalfWindow, WindowAssumption DEF Free, PendingPackets, Seqs
  <2>2. pending \in [Slots -> PendingPackets]
    BY DEF ChanInv, ChanTypeInv
  <2>3. \A i \in Slots : pending'[i] = IF pending[i].used /\ acked(a, pending[i]) THEN Free ELSE pending[i]
    BY <1>0
  <2>4. pending' \in [Slots -> PendingPackets]
    BY <1>0, <2>1, <2>2
  <2> QED BY <2>1, <2>3, <2>4 DEF Used
<1>6. Received' = Received
  BY <1>1 DEF Received, receiverVars
<1>7. ChanTypeInv' /\ WireInv' /\ DeliveredInv'
  BY <1>1, <1>5 DEF ChanInv, ChanTypeInv, WireInv, DeliveredInv, receiverVars
<1>8. PendingInv'
  BY <1>1, <1>5 DEF ChanInv, PendingInv
<1>9. RetiredInv'
  BY <1>1, <1>4, <1>5, <1>6 DEF ChanInv, RetiredInv, Ids
<1>10. AckInv'
  BY <1>1, <1>6 DEF ChanInv, AckInv, Names, receiverVars
<1> QED BY <1>7, <1>8, <1>9, <1>10 DEF ChanInv

\* A tick counts down and sends again what is kept (check_retransmissions).
LEMMA RetransmitKeepsInv == ASSUME ChanInv, check_retransmissions PROVE ChanInv'
<1> DEFINE Again(i) == [pending[i] EXCEPT !.retries = @ + 1, !.countdown = backoff(pending[i].retries + 1)]
           Waits(i) == [pending[i] EXCEPT !.countdown = @ - 1]
<1>0. /\ pending' = [i \in Slots |-> IF i \in Reached /\ pending[i].countdown = 0 THEN Again(i)
                                     ELSE IF i \in Reached THEN Waits(i) ELSE pending[i]]
      /\ wire' = wire \union {pending[i].id : i \in {j \in Reached : pending[j].countdown = 0}}
      /\ UNCHANGED <<sent, ackWire, receiverVars>>
  BY DEF check_retransmissions
<1>1. Reached \subseteq Used /\ Used \subseteq Slots
  BY DEF Reached, Used
<1>2. \A n \in Nat \ {0} : backoff(n) \in 0..MaxBackoff
  <2> SUFFICES ASSUME NEW n \in Nat \ {0} PROVE backoff(n) \in 0..MaxBackoff
    OBVIOUS
  <2>1. \A x, y \in Nat : Min({x, y}) = IF x <= y THEN x ELSE y
    BY DEF Min
  <2>2. Min({n, 4}) \in 1..4
    BY <2>1
  <2> DEFINE f == <<1, 2, 4, 8>>[Min({n, 4})]
  <2>3. f \in Nat
    BY <2>2
  <2> HIDE DEF f
  <2>4. RetryTicks * f \in Nat /\ MaxBackoff \in Nat
    BY <2>3, WindowAssumption
  <2>5. backoff(n) = Min({RetryTicks * f, MaxBackoff})
    BY DEF backoff, f
  <2> DEFINE g == RetryTicks * f
  <2> HIDE DEF g
  <2>6. g \in Nat /\ backoff(n) = Min({g, MaxBackoff})
    BY <2>4, <2>5 DEF g
  <2> QED BY <2>1, <2>4, <2>6
<1>3. \A i \in Slots : /\ pending'[i] \in PendingPackets /\ pending'[i].id = pending[i].id
                       /\ pending'[i].sequence = pending[i].sequence /\ pending'[i].used = pending[i].used
  <2> SUFFICES ASSUME NEW i \in Slots
               PROVE /\ pending'[i] \in PendingPackets /\ pending'[i].id = pending[i].id
                     /\ pending'[i].sequence = pending[i].sequence /\ pending'[i].used = pending[i].used
    OBVIOUS
  <2>1. pending[i] \in PendingPackets
    BY DEF ChanInv, ChanTypeInv
  <2>2. CASE pending'[i] = Again(i)
    <3>1. pending[i].retries + 1 \in Nat \ {0}
      BY <2>1 DEF PendingPackets
    <3>2. backoff(pending[i].retries + 1) \in 0..MaxBackoff
      BY <3>1, <1>2
    <3> QED BY <2>1, <2>2, <3>1, <3>2 DEF PendingPackets
  <2>3. CASE pending'[i] = Waits(i) /\ pending[i].countdown # 0
    <3>1. pending[i].countdown - 1 \in 0..MaxBackoff
      BY <2>1, <2>3, WindowAssumption DEF PendingPackets
    <3> QED BY <2>1, <2>3, <3>1 DEF PendingPackets
  <2>4. CASE pending'[i] = pending[i]
    BY <2>1, <2>4
  <2> QED BY <1>0, <2>2, <2>3, <2>4
<1>4. pending' \in [Slots -> PendingPackets] /\ Used' = Used /\ Ids' = Ids
  <2>1. pending' \in [Slots -> PendingPackets]
    <3> HIDE DEF Again, Waits
    <3> QED BY <1>0, <1>3
  <2>2. Used' = Used
    BY <1>3 DEF Used
  <2> QED BY <2>1, <2>2, <1>1, <1>3 DEF Ids
<1>5. \A k \in wire' : k \in 1..sent /\ (sent < k + MaxAge \/ sent < k + PENDING_CAP)
  BY <1>0, <1>1, ChanRanges DEF ChanInv, WireInv, PendingInv
<1>6. Received' = Received
  BY <1>0 DEF Received, receiverVars
<1>7. ChanTypeInv' /\ WireInv' /\ DeliveredInv'
  BY <1>0, <1>4, <1>5 DEF ChanInv, ChanTypeInv, WireInv, DeliveredInv, receiverVars
<1>8. PendingInv'
  BY <1>0, <1>1, <1>3, <1>4 DEF ChanInv, PendingInv
<1>9. RetiredInv' /\ AckInv'
  BY <1>0, <1>4, <1>6 DEF ChanInv, RetiredInv, AckInv, Names, receiverVars
<1> QED BY <1>7, <1>8, <1>9 DEF ChanInv

\* What leaves both ends alone: the network loses a packet or an
\* acknowledgement.
LEMMA LossKeepsInv == ASSUME ChanInv, lose_ack \/ \E k \in Messages : lose(k) PROVE ChanInv'
<1>1. /\ UNCHANGED <<senderVars, receiverVars>> /\ wire' \subseteq wire /\ ackWire' \subseteq ackWire
  BY DEF lose_ack, lose
<1>2. Received' = Received /\ Ids' = Ids /\ Used' = Used
  BY <1>1 DEF Received, Ids, Used, senderVars, receiverVars
<1> QED BY <1>1, <1>2 DEF ChanInv, ChanTypeInv, PendingInv, WireInv, DeliveredInv, RetiredInv, AckInv,
           Names, senderVars, receiverVars

\* Whatever arrives is less than half the sequence space from what is expected
\* (receive_reliable_packet).
LEMMA ArrivalsNear ==
    ASSUME ChanInv, NEW k \in wire, buffered(expected) = {}
    PROVE  LET D == Len(delivered)
           IN  /\ sent <= D + PENDING_CAP
               /\ k \in 1..sent /\ D + 1 \in Nat \ {0} /\ k < D + 1 + Half /\ sent < k + Half
               /\ expected = seq_of(D + 1)
               /\ seq_of(k) = expected <=> k = D + 1
               /\ is_sequence_newer(seq_of(k), expected) <=> k > D + 1
<1> DEFINE D == Len(delivered)
<1>1. expected = seq_of(D + 1)
  <2>1. expected = D % Modulus /\ D \in Nat
    BY ChanRanges DEF ChanInv, DeliveredInv
  <2> HIDE DEF D
  <2>2. D + 1 - 1 = D
    BY <2>1
  <2> QED BY <2>1, <2>2 DEF seq_of
<1>2. /\ D \in Nat /\ k \in 1..sent /\ k \in Nat \ {0} /\ D + 1 \in Nat \ {0} /\ sent \in Nat
      /\ k < D + 1 + Half /\ sent < k + Half /\ D + 1 < k + Half /\ sent <= D + PENDING_CAP
  <2>0. D + 1 \notin reorder
    BY <1>1 DEF buffered
  <2>1. /\ D \in Nat /\ sent \in Nat /\ D <= sent /\ sent <= D + PENDING_CAP
        /\ PENDING_CAP \in Nat /\ Half \in Nat /\ PENDING_CAP < Half /\ MaxAge \in Nat /\ MaxAge < Half
    BY <2>0, ChanRanges
  <2>2. k \in 1..sent
    BY ChanRanges
  <2>3. sent < k + MaxAge \/ sent < k + PENDING_CAP
    BY DEF ChanInv, WireInv
  <2> HIDE DEF D
  <2> QED BY <2>1, <2>2, <2>3
<1> HIDE DEF D
<1>3. /\ seq_of(k) = seq_of(D + 1) <=> k = D + 1
      /\ is_sequence_newer(seq_of(k), seq_of(D + 1)) <=> k > D + 1
  BY <1>2, SequencesApart
<1> QED BY <1>1, <1>2, <1>3 DEF D

\* The next message is appended to the prefix, and the one after it expected.
LEMMA HandedOver ==
    ASSUME ChanInv, hand_over(Len(delivered) + 1)
    PROVE  LET D == Len(delivered)
           IN  /\ delivered' \in Seq(Nat) /\ Len(delivered') = D + 1 /\ expected' \in Seqs
               /\ \A i \in 1..D + 1 : delivered'[i] = i
               /\ expected' = (D + 1) % Modulus
<1> DEFINE D == Len(delivered)  k == D + 1
<1>1. /\ delivered' = Append(delivered, k) /\ expected' = (expected + 1) % Modulus
      /\ D \in Nat /\ k \in Nat /\ Modulus \in Nat \ {0} /\ delivered \in Seq(Nat)
      /\ expected = D % Modulus /\ \A i \in 1..D : delivered[i] = i
  BY ChanRanges DEF hand_over, ChanInv, ChanTypeInv, DeliveredInv
<1>2. /\ delivered' \in Seq(Nat) /\ Len(delivered') = D + 1 /\ delivered'[D + 1] = k
      /\ \A i \in 1..D : delivered'[i] = delivered[i]
  BY <1>1, AppendProperties
<1> HIDE DEF D
<1>3. (D + 1) % Modulus = ((D % Modulus) + 1) % Modulus /\ (D + 1) % Modulus \in 0..(Modulus - 1)
  <2>1. 1 \in Nat /\ D + 1 \in Nat
    BY <1>1
  <2>2. (D + 1) % Modulus = ((D % Modulus) + 1) % Modulus
    BY <2>1, <1>1, RemainderStep, Zenon
  <2>3. (D + 1) % Modulus \in 0..(Modulus - 1)
    BY <2>1, <1>1, RoundAndSlot, Zenon
  <2> QED BY <2>2, <2>3
<1>4. \A i \in 1..D + 1 : delivered'[i] = i
  BY <1>1, <1>2
<1> QED BY <1>1, <1>2, <1>3, <1>4 DEF D, Seqs

\* What waits is told by its number: the reorder buffer hands over the next
\* message and no other (drain_next_ordered_packet).
LEMMA DrainKeepsInv == ASSUME ChanInv, drain_next_ordered_packet PROVE ChanInv'
<1> DEFINE D == Len(delivered)
<1>1. PICK k \in reorder : hand_over(k) /\ reorder' = reorder \ {k}
  BY DEF drain_next_ordered_packet
<1>2. UNCHANGED <<sent, pending, is_timed_out, wire, ackWire, highest, bitfield, has_received_any>>
  BY DEF drain_next_ordered_packet, senderVars
<1>3. /\ D \in Nat /\ sent \in Nat /\ k \in D + 1..sent /\ D + 1 <= sent
      /\ \A j \in reorder : j \in D + 1..sent /\ j <= D + PENDING_CAP
      /\ PENDING_CAP \in Nat /\ Half \in Nat /\ PENDING_CAP < Half
  <2>1. /\ D \in Nat /\ sent \in Nat /\ PENDING_CAP \in Nat
        /\ Half \in Nat /\ PENDING_CAP < Half
        /\ \A j \in reorder : j \in D + 1..sent /\ j <= D + PENDING_CAP
    BY ChanRanges DEF ChanInv, DeliveredInv
  <2> HIDE DEF D
  <2> QED BY <2>1, <1>1
<1>4. k = D + 1
  <2>1. k \in Nat \ {0} /\ D + 1 \in Nat \ {0} /\ k < D + 1 + Half /\ D + 1 < k + Half
    BY <1>3
  <2>2. seq_of(k) = seq_of(D + 1) <=> k = D + 1
    BY <2>1, SequencesApart
  <2>3. seq_of(D + 1) = expected
    <3>1. expected = D % Modulus /\ D + 1 - 1 = D
      BY <1>3 DEF ChanInv, DeliveredInv
    <3> QED BY <3>1 DEF seq_of
  <2> QED BY <2>2, <2>3, <1>1 DEF hand_over
<1>5. /\ delivered' \in Seq(Nat) /\ Len(delivered') = D + 1 /\ expected' \in Seqs
      /\ \A i \in 1..D + 1 : delivered'[i] = i
      /\ expected' = (D + 1) % Modulus
  BY <1>1, <1>4, HandedOver
<1>6. IsFiniteSet(reorder') /\ Cardinality(reorder') <= ORDERED_CAP
  <2>1. IsFiniteSet(reorder) /\ Cardinality(reorder) <= ORDERED_CAP
    BY DEF ChanInv, ChanTypeInv
  <2>2. IsFiniteSet(reorder') /\ Cardinality(reorder') <= Cardinality(reorder)
    BY <1>1, <2>1, FS_Subset
  <2>3. Cardinality(reorder') \in Nat /\ Cardinality(reorder) \in Nat
    BY <2>1, <2>2, FS_CardinalityType
  <2> QED BY <2>1, <2>2, <2>3, WindowAssumption
<1>7. DeliveredInv'
  <2>1. \A j \in reorder' : j \in D + 2..sent /\ j <= D + 1 + PENDING_CAP
    BY <1>1, <1>3, <1>4
  <2> QED BY <2>1, <1>2, <1>3, <1>5 DEF DeliveredInv
<1>8. Received' = Received /\ Used' = Used /\ Ids' = Ids
  <2>1. (1..D + 1) = (1..D) \union {k}
    BY <1>3, <1>4
  <2>2. Received' = Received
    BY <2>1, <1>1, <1>5 DEF Received
  <2> QED BY <2>2, <1>2 DEF Used, Ids
<1>9. ChanTypeInv' /\ PendingInv' /\ WireInv'
  BY <1>2, <1>5, <1>6, <1>8 DEF ChanInv, ChanTypeInv, PendingInv, WireInv
<1>10. RetiredInv' /\ AckInv'
  BY <1>2, <1>8 DEF ChanInv, RetiredInv, AckInv, Names
<1> QED BY <1>7, <1>9, <1>10 DEF ChanInv

\* A message that arrives is handed over, or waits, or has already been
\* received.
LEMMA ReceiverStep ==
    ASSUME ChanInv, NEW k, receive(k)
    PROVE  /\ DeliveredInv' /\ Received' = Received \union {k}
           /\ expected' \in Seqs /\ delivered' \in Seq(Nat)
           /\ IsFiniteSet(reorder') /\ Cardinality(reorder') <= ORDERED_CAP
<1> DEFINE D == Len(delivered)
<1>0. k \in wire /\ buffered(expected) = {} /\ sent' = sent /\ (deliver(k) \/ buffer(k) \/ ignore(k))
  BY DEF receive, senderVars
<1>1. /\ D \in Nat /\ k \in 1..sent /\ sent \in Nat /\ D <= sent
      /\ seq_of(k) = expected <=> k = D + 1
      /\ is_sequence_newer(seq_of(k), expected) <=> k > D + 1
      /\ k < D + 1 + Half /\ sent < k + Half /\ Modulus \in Nat \ {0}
      /\ \A j \in reorder : j \in D + 1..sent /\ j <= D + PENDING_CAP
      /\ sent <= D + PENDING_CAP /\ PENDING_CAP \in Nat
      /\ \A j \in reorder : j < k + Half /\ k < j + Half
  <2>1. /\ k \in 1..sent /\ k < D + 1 + Half /\ sent < k + Half /\ sent <= D + PENDING_CAP
        /\ seq_of(k) = expected <=> k = D + 1
        /\ is_sequence_newer(seq_of(k), expected) <=> k > D + 1
    BY <1>0, ArrivalsNear
  <2>2. /\ D \in Nat /\ sent \in Nat /\ D <= sent /\ Half \in Nat /\ Modulus \in Nat \ {0}
        /\ \A j \in reorder : j \in D + 1..sent /\ j <= D + PENDING_CAP
        /\ PENDING_CAP \in Nat /\ PENDING_CAP < Half
    BY ChanRanges DEF ChanInv, DeliveredInv
  <2> QED BY <2>1, <2>2
<1>2. /\ expected = D % Modulus /\ expected \in Seqs /\ delivered \in Seq(Nat)
      /\ \A i \in 1..D : delivered[i] = i
      /\ IsFiniteSet(reorder) /\ Cardinality(reorder) <= ORDERED_CAP /\ ORDERED_CAP \in Nat
  BY WindowAssumption DEF ChanInv, ChanTypeInv, DeliveredInv
<1>3. CASE deliver(k)
  <2>1. k = D + 1 /\ hand_over(k) /\ reorder' = reorder
    BY <1>1, <1>3 DEF deliver, hand_over
  <2>2. D + 1 \notin reorder
    <3>1. seq_of(D + 1) = expected
      BY <2>1, <1>1
    <3> QED BY <3>1 DEF receive, buffered
  <2>3. /\ delivered' \in Seq(Nat) /\ Len(delivered') = D + 1 /\ expected' \in Seqs
        /\ \A i \in 1..D + 1 : delivered'[i] = i
        /\ expected' = (D + 1) % Modulus
    BY <2>1, HandedOver
  <2>4. \A j \in reorder' : j \in D + 2..sent /\ j <= D + 1 + PENDING_CAP
    BY <2>1, <2>2, <1>1
  <2>5. Received' = Received \union {k}
    <3>1. (1..D + 1) = (1..D) \union {k}
      BY <1>1, <2>1
    <3> QED BY <3>1, <2>1, <2>3 DEF Received
  <2>6. DeliveredInv'
    BY <2>1, <2>3, <2>4, <1>0, <1>1 DEF DeliveredInv
  <2> QED BY <2>1, <2>3, <2>5, <2>6, <1>2
<1>4. CASE buffer(k) /\ buffered(seq_of(k)) # {}
  <2>1. k \in reorder
    <3>1. PICK j \in reorder : seq_of(j) = seq_of(k)
      BY <1>4 DEF buffered
    <3>2. /\ j \in Nat \ {0} /\ k \in Nat \ {0} /\ j < k + Half /\ k < j + Half
      BY <1>1
    <3> QED BY <3>1, <3>2, SequencesApart
  <2>2. UNCHANGED <<expected, delivered, reorder>>
    BY <1>4 DEF buffer
  <2>3. Received' = Received /\ k \in Received
    BY <2>1, <2>2 DEF Received
  <2>4. DeliveredInv'
    BY <2>2, <1>0 DEF ChanInv, DeliveredInv
  <2> QED BY <2>2, <2>3, <2>4, <1>2
<1>5. CASE buffer(k) /\ buffered(seq_of(k)) = {}
  <2>1. /\ k > D + 1 /\ Cardinality(reorder) < ORDERED_CAP /\ reorder' = reorder \union {k}
        /\ UNCHANGED <<expected, delivered>>
    BY <1>1, <1>5 DEF buffer
  <2>2. IsFiniteSet(reorder') /\ Cardinality(reorder') <= ORDERED_CAP
    <3>1. k \notin reorder
      BY <1>5 DEF buffered
    <3>2. IsFiniteSet(reorder \union {k}) /\ Cardinality(reorder \union {k}) = Cardinality(reorder) + 1
      BY <3>1, <1>2, FS_AddElement
    <3>3. Cardinality(reorder) \in Nat
      BY <1>2, FS_CardinalityType
    <3> QED BY <3>2, <3>3, <2>1, <1>2
  <2>3. Received' = Received \union {k}
    BY <2>1 DEF Received
  <2>4. k \in D + 1..sent /\ k <= D + PENDING_CAP
    BY <1>1, <2>1
  <2>5. DeliveredInv'
    BY <2>1, <2>4, <1>0 DEF ChanInv, DeliveredInv
  <2> QED BY <2>1, <2>2, <2>3, <2>5, <1>2
<1>6. CASE ignore(k)
  <2>1. UNCHANGED <<expected, delivered, reorder>> /\ k \in 1..D
    BY <1>1, <1>6 DEF ignore
  <2>2. Received' = Received /\ k \in Received
    BY <2>1 DEF Received
  <2>3. DeliveredInv'
    BY <2>1, <1>0 DEF ChanInv, DeliveredInv
  <2> QED BY <2>1, <2>2, <2>3, <1>2
<1> QED BY <1>0, <1>3, <1>4, <1>5, <1>6

\* The sequencer's highest number is that of the largest message received,
\* and its bitfield names only messages received.
LEMMA SequencerStep ==
    ASSUME ChanInv, NEW k, receive(k)
    PROVE  /\ has_received_any' = TRUE /\ highest' \in Seqs /\ bitfield' \subseteq 1..AckBits
           /\ \E H \in Received' : /\ highest' = seq_of(H) /\ \A d \in bitfield' : H - d \in Received'
                                   /\ \A j \in Received' : j <= H
<1> DEFINE D == Len(delivered)
<1>1. /\ k \in 1..sent /\ k \in Nat \ {0} /\ sent \in Nat /\ sent < k + Half /\ Half \in Nat
      /\ Received \subseteq 1..sent /\ sent <= D + PENDING_CAP /\ D \in Nat /\ D <= sent
      /\ PENDING_CAP \in Nat /\ PENDING_CAP < Half
  <2>1. k \in wire /\ buffered(expected) = {}
    BY DEF receive
  <2>2. k \in 1..sent /\ sent < k + Half /\ sent <= D + PENDING_CAP
    BY <2>1, ArrivalsNear
  <2> QED BY <2>2, ChanRanges
<1>2. Received' = Received \union {k}
  BY ReceiverStep
<1>3. process_incoming_sequence(seq_of(k))
  BY DEF receive
<1>4. seq_of(k) \in Seqs /\ highest \in Seqs /\ bitfield \subseteq 1..AckBits /\ AckBits \in Nat
  <2>1. k < k + Half
    BY <1>1, HalfWindow, WindowAssumption DEF Half
  <2>2. seq_of(k) \in Seqs
    BY <1>1, <2>1, SequencesApart
  <2> QED BY <2>2, WindowAssumption DEF ChanInv, ChanTypeInv
<1>5. CASE ~ has_received_any
  <2>1. has_received_any' = TRUE /\ highest' = seq_of(k) /\ bitfield' = {}
    BY <1>3, <1>5 DEF process_incoming_sequence
  <2>2. Received' = {k}
    BY <1>2, <1>5 DEF ChanInv, AckInv
  <2> QED BY <2>1, <2>2, <1>1, <1>4
<1>6. CASE has_received_any
  <2>1. PICK H \in Received : /\ highest = seq_of(H) /\ \A d \in bitfield : H - d \in Received
                              /\ \A j \in Received : j <= H
    BY <1>6 DEF ChanInv, AckInv, Names
  <2>2. H \in Nat \ {0} /\ H \in 1..sent /\ k < H + Half /\ H < k + Half
    <3>1. H \in 1..sent
      BY <2>1, <1>1
    <3>2. H >= D
      <4>1. CASE D = 0
        BY <4>1, <3>1
      <4>2. CASE D # 0
        <5>1. D \in Received
          BY <4>2, <1>1 DEF Received
        <5> QED BY <5>1, <2>1
      <4> QED BY <4>1, <4>2
    <3> HIDE DEF D
    <3> QED BY <3>1, <3>2, <1>1
  <2>3. /\ is_sequence_newer(seq_of(k), highest) <=> k > H
        /\ k >= H => wrapping_sub(seq_of(k), highest) = k - H
        /\ H >= k => wrapping_sub(highest, seq_of(k)) = H - k
    BY <2>1, <2>2, <1>1, SequencesApart
  <2>4. CASE k > H
    <3> DEFINE up == wrapping_sub(seq_of(k), highest)
    <3>1. up = k - H /\ up \in Nat \ {0}
      BY <2>3, <2>4, <2>2, <1>1
    <3>2. /\ has_received_any' = TRUE /\ highest' = seq_of(k)
          /\ bitfield' = {d \in {e + up : e \in bitfield} \union {up} : d <= AckBits}
      BY <1>3, <1>6, <2>3, <2>4 DEF process_incoming_sequence
    <3> HIDE DEF up
    <3>3. ASSUME NEW d \in bitfield' PROVE d \in 1..AckBits /\ k - d \in Received'
      <4>0. d <= AckBits /\ (d = up \/ \E e \in bitfield : d = e + up)
        BY <3>2
      <4>1. CASE d = up
        <5>1. k - d = H
          BY <4>1, <3>1, <2>2, <1>1
        <5>2. d \in 1..AckBits
          BY <4>0, <4>1, <3>1, <1>4
        <5> QED BY <5>1, <5>2, <2>1, <1>2
      <4>2. CASE \E e \in bitfield : d = e + up
        <5>1. PICK e \in bitfield : d = e + up
          BY <4>2
        <5>2. e \in 1..AckBits
          BY <1>4
        <5>3. k - d = H - e /\ d \in 1..AckBits
          BY <5>1, <5>2, <4>0, <3>1, <2>2, <1>1, <1>4
        <5>4. H - e \in Received
          BY <2>1
        <5> QED BY <5>3, <5>4, <1>2
      <4> QED BY <4>0, <4>1, <4>2
    <3>4. \A j \in Received' : j <= k
      <4>1. \A j \in Received : j <= H /\ j \in Nat
        BY <2>1, <1>1
      <4> QED BY <4>1, <2>2, <2>4, <1>1, <1>2
    <3>5. k \in Received' /\ bitfield' \subseteq 1..AckBits
      BY <3>3, <1>2
    <3> QED BY <3>2, <3>3, <3>4, <3>5, <1>4
  <2>5. CASE ~ (k > H)
    <3> DEFINE down == wrapping_sub(highest, seq_of(k))
    <3>1. down = H - k
      BY <2>3, <2>5, <2>2, <1>1
    <3>2. /\ has_received_any' = TRUE /\ highest' = highest
          /\ bitfield' = IF down \in 1..AckBits THEN bitfield \union {down} ELSE bitfield
      BY <1>3, <1>6, <2>3, <2>5 DEF process_incoming_sequence
    <3> HIDE DEF down
    <3>3. bitfield' \subseteq 1..AckBits /\ \A d \in bitfield' : d \in bitfield \/ d = down
      BY <3>2, <1>4
    <3>4. H - down = k
      BY <3>1, <2>2, <1>1
    <3>5. \A d \in bitfield' : H - d \in Received'
      BY <3>3, <3>4, <2>1, <1>2
    <3>6. \A j \in Received' : j <= H
      BY <2>1, <2>2, <2>5, <1>1, <1>2
    <3>7. H \in Received'
      BY <2>1, <1>2
    <3> QED BY <3>2, <3>3, <3>5, <3>6, <3>7, <2>1, <1>4
  <2> QED BY <2>4, <2>5
<1> QED BY <1>5, <1>6 DEF ChanInv, ChanTypeInv

\* An arrival keeps the invariant: the acknowledgement it answers with stands
\* for the largest message received, and the one after it is still kept.
LEMMA ReceiveKeepsInv == ASSUME ChanInv, NEW k, receive(k) PROVE ChanInv'
<1>1. /\ sent' = sent /\ pending' = pending /\ wire' = wire /\ Used' = Used /\ Ids' = Ids
      /\ ackWire' = {[ack |-> highest', bits |-> bitfield']}
  BY DEF receive, senderVars, Used, Ids
<1>2. /\ DeliveredInv' /\ Received' = Received \union {k}
      /\ expected' \in Seqs /\ delivered' \in Seq(Nat)
      /\ IsFiniteSet(reorder') /\ Cardinality(reorder') <= ORDERED_CAP
  BY ReceiverStep
<1>3. /\ has_received_any' = TRUE /\ highest' \in Seqs /\ bitfield' \subseteq 1..AckBits
      /\ \E H \in Received' : /\ highest' = seq_of(H) /\ \A d \in bitfield' : H - d \in Received'
                              /\ \A j \in Received' : j <= H
  BY SequencerStep
<1>4. PICK H \in Received' : /\ highest' = seq_of(H) /\ \A d \in bitfield' : H - d \in Received'
                             /\ \A j \in Received' : j <= H
  BY <1>3
<1>5. sent' > H => H + 1 \in Ids'
  <2> SUFFICES ASSUME sent > H PROVE H + 1 \in Ids
    BY <1>1
  <2>1. H \in 1..sent /\ sent \in Nat
    <3>1. Received \subseteq 1..sent /\ sent \in Nat /\ wire \subseteq 1..sent
      BY ChanRanges
    <3>2. k \in wire
      BY DEF receive
    <3> QED BY <3>1, <3>2, <1>2, <1>4
  <2>2. H + 1 \in 1..sent /\ ~ (H + 1 <= H)
    BY <2>1
  <2>3. H + 1 \notin Received
    BY <2>2, <1>2, <1>4
  <2> QED BY <2>2, <2>3 DEF ChanInv, RetiredInv
<1>6. ChanTypeInv'
  BY <1>1, <1>2, <1>3 DEF ChanInv, ChanTypeInv
<1>7. PendingInv' /\ WireInv'
  BY <1>1 DEF ChanInv, PendingInv, WireInv
<1>8. RetiredInv'
  BY <1>1, <1>2 DEF ChanInv, RetiredInv
<1>9. AckInv'
  BY <1>1, <1>3, <1>4, <1>5 DEF AckInv, Names
<1> QED BY <1>2, <1>6, <1>7, <1>8, <1>9 DEF ChanInv

\* So does the acknowledgement in the header of another packet, once there is
\* something to acknowledge.
LEMMA SendAckKeepsInv == ASSUME ChanInv, ~ EagerAcks, send_ack_header PROVE ChanInv'
<1>1. /\ has_received_any /\ ackWire' = {[ack |-> highest, bits |-> bitfield]}
      /\ UNCHANGED <<senderVars, wire, receiverVars>>
  BY DEF send_ack_header
<1>2. PICK H \in Received : Names(highest, bitfield, H) /\ \A j \in Received : j <= H
  BY <1>1 DEF ChanInv, AckInv
<1>3. sent > H => H + 1 \in Ids
  <2> SUFFICES ASSUME sent > H PROVE H + 1 \in Ids
    OBVIOUS
  <2>1. H \in 1..sent /\ sent \in Nat
    BY <1>2, ChanRanges
  <2>2. H + 1 \in 1..sent /\ ~ (H + 1 <= H)
    BY <2>1
  <2>3. H + 1 \notin Received
    BY <2>2, <1>2
  <2> QED BY <2>2, <2>3 DEF ChanInv, RetiredInv
<1>4. Received' = Received /\ Ids' = Ids /\ Used' = Used
  BY <1>1 DEF Received, Ids, Used, senderVars, receiverVars
<1>5. AckInv'
  BY <1>1, <1>2, <1>3, <1>4 DEF ChanInv, ChanTypeInv, AckInv, Names, senderVars, receiverVars
<1>6. ChanTypeInv' /\ PendingInv' /\ WireInv' /\ DeliveredInv' /\ RetiredInv'
  BY <1>1, <1>4 DEF ChanInv, ChanTypeInv, PendingInv, WireInv, DeliveredInv, RetiredInv, senderVars, receiverVars
<1> QED BY <1>5, <1>6 DEF ChanInv

\* A new channel (ReliableChannel::new) satisfies the invariant.
LEMMA ChanInitInv == ChanInit => ChanInv
<1> SUFFICES ASSUME ChanInit PROVE ChanInv
  OBVIOUS
<1>1. Free \in PendingPackets /\ ~ Free.used
  BY HalfWindow, WindowAssumption DEF Free, PendingPackets, Seqs
<1>2. /\ pending = [i \in Slots |-> Free] /\ sent = 0 /\ wire = {} /\ ackWire = {} /\ expected = 0 /\ reorder = {}
      /\ highest = 0 /\ bitfield = {} /\ has_received_any = FALSE /\ delivered = <<>>
  BY DEF ChanInit
<1>3. Used = {} /\ Ids = {}
  BY <1>1, <1>2 DEF Used, Ids
<1>4. Len(delivered) = 0 /\ delivered \in Seq(Nat)
  BY <1>2
<1>5. Received = {}
  BY <1>2, <1>4 DEF Received
<1>6. IsFiniteSet({}) /\ Cardinality({}) = 0
  BY FS_EmptySet
<1>7. 0 \in Seqs /\ 0 % Modulus = 0
  BY HalfWindow DEF Seqs
<1>8. ChanTypeInv
  <2>1. sent \in 0..MaxMessages /\ has_received_any \in BOOLEAN /\ wire \subseteq 1..sent
    <3>1. MaxMessages \in Nat
      BY WindowAssumption
    <3>2. has_received_any \in BOOLEAN
      BY <1>2, Zenon
    <3> QED BY <1>2, <3>1, <3>2
  <2>2. pending \in [Slots -> PendingPackets]
    BY <1>1, <1>2
  <2>3. expected \in Seqs /\ highest \in Seqs /\ bitfield \subseteq 1..AckBits
    BY <1>2, <1>7
  <2>4. IsFiniteSet(reorder) /\ Cardinality(reorder) <= ORDERED_CAP
    BY <1>2, <1>6, WindowAssumption
  <2> QED BY <2>1, <2>2, <2>3, <2>4, <1>4 DEF ChanTypeInv
<1>9. PendingInv /\ WireInv /\ DeliveredInv /\ RetiredInv /\ AckInv
  BY <1>2, <1>3, <1>4, <1>5, <1>7 DEF PendingInv, WireInv, DeliveredInv, RetiredInv, AckInv
<1> QED BY <1>8, <1>9 DEF ChanInv

\* Every step keeps it, when nothing is acknowledged before something has been
\* received: ack_data answers (0, 0) until then, the number of message 1.
LEMMA ChanStep == ASSUME ChanInv, ~ EagerAcks, [ChanNext]_chanVars PROVE ChanInv'
<1>1. CASE queue_reliable_message
  BY <1>1, QueueKeepsInv
<1>2. CASE process_remote_ack
  BY <1>2, RemoteAckKeepsInv
<1>3. CASE check_retransmissions
  BY <1>3, RetransmitKeepsInv
<1>4. CASE \E k \in Messages : receive(k)
  BY <1>4, ReceiveKeepsInv
<1>5. CASE lose_ack \/ \E k \in Messages : lose(k)
  BY <1>5, LossKeepsInv
<1>6. CASE send_ack_header
  BY <1>6, SendAckKeepsInv
<1>7. CASE drain_next_ordered_packet
  BY <1>7, DrainKeepsInv
<1>8. CASE UNCHANGED chanVars
  <2>1. UNCHANGED <<sent, pending, wire, ackWire, expected, reorder, highest, bitfield, has_received_any, delivered>>
    BY <1>8 DEF chanVars, senderVars, receiverVars
  <2>2. Received' = Received /\ Ids' = Ids /\ Used' = Used
    BY <2>1 DEF Received, Ids, Used
  <2> QED BY <2>1, <2>2 DEF ChanInv, ChanTypeInv, PendingInv, WireInv, DeliveredInv, RetiredInv, AckInv, Names
<1> QED BY <1>1, <1>2, <1>3, <1>4, <1>5, <1>6, <1>7, <1>8 DEF ChanNext

\* The inductive invariant, for every size of the window, of the buffers and of
\* the sequence space (channel.rs:55-324).
THEOREM ChannelInvariant == ASSUME ~ EagerAcks PROVE ChanSpec => []ChanInv
<1>1. ChanInv /\ [ChanNext]_chanVars => ChanInv'
  BY ChanStep
<1> QED BY <1>1, ChanInitInv, PTL DEF ChanSpec

\* The invariant says at least what the runs check of the channel, DeliveryExact.
LEMMA ChanInvSuffices == ChanInv => DeliveryExact
<1> SUFFICES ASSUME ChanInv PROVE DeliveryExact
  OBVIOUS
<1>1. /\ Len(delivered) \in Nat /\ sent \in 0..MaxMessages /\ MaxMessages \in Nat /\ Len(delivered) <= sent
      /\ wire \subseteq 1..sent /\ reorder \subseteq Len(delivered) + 1..sent
  BY ChanRanges, WindowAssumption DEF ChanInv, ChanTypeInv
<1>2. delivered \in Seq(1..MaxMessages)
  <2>1. delivered \in Seq(Nat) /\ \A i \in 1..Len(delivered) : delivered[i] \in 1..MaxMessages
    BY <1>1 DEF ChanInv, ChanTypeInv, DeliveredInv
  <2> DEFINE n == Len(delivered)  T == 1..MaxMessages
  <2>2. n \in Nat /\ delivered \in [1..n -> Nat]
    BY <2>1, LenProperties
  <2>3. delivered \in [1..n -> T]
    <3> HIDE DEF T
    <3> QED BY <2>1, <2>2 DEF T
  <2> HIDE DEF n, T
  <2>4. delivered \in Seq(T)
    BY <2>2, <2>3, SeqDef, Zenon
  <2> QED BY <2>4 DEF T
<1>3. ChanTypeOK
  <2>1. \A i \in Slots : pending[i].sequence \in Seqs /\ pending[i].countdown \in 0..MaxBackoff
    BY DEF ChanInv, ChanTypeInv, PendingPackets
  <2> QED BY <2>1, <1>1, <1>2 DEF ChanTypeOK, ChanInv, ChanTypeInv
<1>4. InOrderExactlyOnce
  BY DEF InOrderExactlyOnce, ChanInv, DeliveredInv
<1>5. ReorderAhead
  BY <1>1 DEF ReorderAhead
<1>6. RetiredWasReceived
  BY <1>1 DEF RetiredWasReceived, ChanInv, RetiredInv, Ids, Received
<1>7. WindowBounded
  <2> SUFFICES ASSUME NEW i \in Used, NEW j \in Used PROVE pending[i].id < pending[j].id + PENDING_CAP
    BY DEF WindowBounded
  <2>1. pending[i].id \in 1..sent /\ pending[j].id \in 1..sent /\ sent < pending[j].id + PENDING_CAP
    BY DEF ChanInv, PendingInv
  <2> QED BY <2>1, <1>1, ChanRanges
<1> QED BY <1>3, <1>4, <1>5, <1>6, <1>7 DEF DeliveryExact

\* Messages are delivered in order and once, one is kept until the receiver
\* has it, and the window stays within what acknowledgements tell apart, for
\* every size of the window, of the buffers and of the sequence space
\* (channel.rs:158-324), as long as nothing is acknowledged before something
\* has been received.
THEOREM DeliveryIsExact == ASSUME ~ EagerAcks PROVE ChanSpec => []DeliveryExact
BY ChannelInvariant, ChanInvSuffices, PTL

-------------------------------------------------------------------------------
\* The n elements of a ring of C slots from slot h on.
RingSeq(s, h, n, C) == [i \in 1..n |-> s[(h + i - 1) % C]]
RingIn(T, s, h, n, C) == \A i \in 1..n : s[(h + i - 1) % C] \in T

\* Ring t has e in the slot after n elements, and otherwise what s has; has what s has from the
\* element after k on; has closed the gap that element k of s leaves.
StoredAt(t, s, h, n, e, C) ==
    t[(h + n) % C] = e /\ \A j \in 0..(C - 1) : j # (h + n) % C => t[j] = s[j]
SameAfter(t, s, h, k, n, C) == \A i \in (k + 1)..n : t[(h + i - 1) % C] = s[(h + i - 1) % C]
ClosedAt(t, s, h, k, n, C) ==
    /\ \A i \in 1..(k - 1) : t[(h + i - 1) % C] = s[(h + i - 1) % C]
    /\ \A i \in k..(n - 1) : t[(h + i - 1) % C] = s[(h + i) % C]

\* What the sequence of t is then.
Pushed(t, s, h, n, e, C) == RingSeq(t, h, n + 1, C) = Append(RingSeq(s, h, n, C), e)
Dropped(t, s, h, k, n, C) ==
    RingSeq(t, (h + k) % C, n - k, C) = SubSeq(RingSeq(s, h, n, C), k + 1, n)
Removed(t, s, h, k, n, C) ==
    RingSeq(t, h, n - 1, C)
        = SubSeq(RingSeq(s, h, n, C), 1, k - 1) \o SubSeq(RingSeq(s, h, n, C), k + 1, n)

\* Elements of a set make a sequence over it.
LEMMA RingIsSeq ==
    ASSUME NEW T, NEW C \in Nat \ {0}, NEW h \in 0..(C - 1), NEW n \in 0..C, NEW s,
           RingIn(T, s, h, n, C)
    PROVE  /\ RingSeq(s, h, n, C) \in Seq(T) /\ Len(RingSeq(s, h, n, C)) = n
           /\ \A i \in 1..n : RingSeq(s, h, n, C)[i] = s[(h + i - 1) % C]
<1>1. n \in Nat
  OBVIOUS
<1> QED BY <1>1 DEF RingSeq, RingIn

\* Storing at the tail appends.
LEMMA RingAppend ==
    ASSUME NEW T, NEW C \in Nat \ {0}, NEW h \in 0..(C - 1), NEW n \in 0..(C - 1), NEW s, NEW t, NEW e \in T,
           RingIn(T, s, h, n, C), StoredAt(t, s, h, n, e, C)
    PROVE  Pushed(t, s, h, n, e, C)
<1> DEFINE q == RingSeq(s, h, n, C)  r == RingSeq(t, h, n + 1, C)
<1> USE DEF RingIn, StoredAt
<1>1. n \in 0..C /\ n + 1 \in 0..C /\ n \in Nat
  OBVIOUS
<1>2. /\ q \in Seq(T) /\ Len(q) = n
      /\ \A i \in 1..n : q[i] = s[(h + i - 1) % C]
  BY <1>1 DEF RingSeq
<1>3. ASSUME NEW i \in 1..n PROVE t[(h + i - 1) % C] = s[(h + i - 1) % C]
  <2>1. i - 1 \in 0..(C - 1) /\ i - 1 \in 0..C /\ i - 1 # n /\ h + (i - 1) = h + i - 1
    OBVIOUS
  <2>2. (h + (i - 1)) % C \in 0..(C - 1)
    BY <2>1, SlotOffset
  <2>3. (h + (i - 1)) % C # (h + n) % C
    BY <2>1, ModInjective
  <2> QED BY <2>1, <2>2, <2>3
<1>4. t[(h + (n + 1) - 1) % C] = e
  <2>1. h + (n + 1) - 1 = h + n
    OBVIOUS
  <2> QED BY <2>1
<1>5. \A i \in 1..(n + 1) : t[(h + i - 1) % C] \in T
  <2> SUFFICES ASSUME NEW i \in 1..(n + 1) PROVE t[(h + i - 1) % C] \in T
    OBVIOUS
  <2>1. CASE i \in 1..n
    BY <2>1, <1>3
  <2>2. CASE i = n + 1
    BY <2>2, <1>4
  <2> QED BY <1>1, <2>1, <2>2
<1>6. /\ r \in Seq(T) /\ Len(r) = n + 1
      /\ \A i \in 1..(n + 1) : r[i] = t[(h + i - 1) % C]
  <2> DEFINE m == n + 1
  <2>1. m \in Nat /\ \A i \in 1..m : t[(h + i - 1) % C] \in T
    BY <1>1, <1>5
  <2> HIDE DEF m
  <2>2. /\ RingSeq(t, h, m, C) \in Seq(T) /\ Len(RingSeq(t, h, m, C)) = m
        /\ \A i \in 1..m : RingSeq(t, h, m, C)[i] = t[(h + i - 1) % C]
    BY <2>1 DEF RingSeq
  <2> QED BY <2>2 DEF m
<1> HIDE DEF q, r
<1>7. /\ Append(q, e) \in Seq(T) /\ Len(Append(q, e)) = n + 1
      /\ \A i \in 1..n : Append(q, e)[i] = q[i]
      /\ Append(q, e)[n + 1] = e
  BY <1>2, AppendProperties
<1>8. \A i \in 1..(n + 1) : r[i] = Append(q, e)[i]
  <2> SUFFICES ASSUME NEW i \in 1..(n + 1) PROVE r[i] = Append(q, e)[i]
    OBVIOUS
  <2>1. CASE i \in 1..n
    <3>1. r[i] = t[(h + i - 1) % C] /\ Append(q, e)[i] = q[i] /\ q[i] = s[(h + i - 1) % C]
      BY <2>1, <1>2, <1>6, <1>7
    <3> QED BY <3>1, <2>1, <1>3
  <2>2. CASE i = n + 1
    BY <2>2, <1>1, <1>4, <1>6, <1>7
  <2>3. i \in 1..n \/ i = n + 1
    BY <1>1
  <2> QED BY <2>1, <2>2, <2>3
<1>9. r = Append(q, e)
  BY <1>6, <1>7, <1>8, SeqEqual
<1> QED BY <1>9 DEF q, r, Pushed

\* Moving the head on takes from the front.
LEMMA RingTake ==
    ASSUME NEW T, NEW C \in Nat \ {0}, NEW h \in 0..(C - 1), NEW n \in 0..C, NEW s, NEW t, NEW k \in 0..n,
           RingIn(T, s, h, n, C), SameAfter(t, s, h, k, n, C)
    PROVE  Dropped(t, s, h, k, n, C)
<1> DEFINE m == n - k  g == (h + k) % C  q == RingSeq(s, h, n, C)  r == RingSeq(t, g, m, C)
           u == SubSeq(q, k + 1, n)
<1> USE DEF RingIn, SameAfter
<1>0. k \in 0..C /\ m \in 0..C /\ m \in Nat /\ k + m = n
  OBVIOUS
<1>1. g \in 0..(C - 1)
  BY <1>0, ModSmall, Zenon
<1>2. q \in Seq(T) /\ Len(q) = n /\ \A i \in 1..n : q[i] = s[(h + i - 1) % C]
  <2>1. n \in Nat
    OBVIOUS
  <2> QED BY <2>1 DEF RingSeq
<1>3. ASSUME NEW i \in 1..m
      PROVE  k + i \in 1..n /\ t[(g + i - 1) % C] = q[k + i] /\ q[k + i] \in T
  <2>1. /\ i - 1 \in 0..C /\ k + (i - 1) <= C /\ k + i \in (k + 1)..n /\ k + i \in 1..n
        /\ h + (k + (i - 1)) = h + (k + i) - 1
    BY <1>0
  <2>2. (((h + k) % C) + (i - 1)) % C = (h + (k + (i - 1))) % C
    BY <1>0, <2>1, ModStep, Zenon
  <2>3. g + i - 1 = ((h + k) % C) + (i - 1)
    BY <1>1
  <2>4. q[k + i] = s[(h + (k + i) - 1) % C] /\ t[(h + (k + i) - 1) % C] = s[(h + (k + i) - 1) % C]
    <3> HIDE DEF q
    <3> QED BY <2>1, <1>2
  <2>5. s[(h + (k + i) - 1) % C] \in T
    BY <2>1
  <2> HIDE DEF q, g
  <2> QED BY <2>1, <2>2, <2>3, <2>4, <2>5
<1> HIDE DEF q
<1>4. r \in Seq(T) /\ Len(r) = m /\ \A i \in 1..m : r[i] = t[(g + i - 1) % C]
  <2> HIDE DEF m, g
  <2>1. \A i \in 1..m : t[(g + i - 1) % C] \in T
    BY <1>3
  <2>2. m \in Nat
    BY <1>0
  <2> QED BY <2>1, <2>2 DEF RingSeq
<1> HIDE DEF r
<1>5. /\ u \in Seq(T) /\ Len(u) = m
      /\ \A i \in 1..m : u[i] = q[k + i]
  <2>1. \A i \in (k + 1)..n : q[i] \in T
    BY <1>2
  <2>2. k + 1 \in Int /\ n \in Int
    BY <1>0
  <2>3. /\ u \in Seq(T) /\ Len(u) = IF k + 1 <= n THEN n - (k + 1) + 1 ELSE 0
        /\ \A i \in 1..(n - (k + 1) + 1) : u[i] = q[(k + 1) + i - 1]
    BY <1>2, <2>1, <2>2, SubSeqProperties, SMTT(30)
  <2> HIDE DEF u
  <2>4. \A i \in 1..m : i \in 1..(n - (k + 1) + 1) /\ (k + 1) + i - 1 = k + i
    BY <1>0
  <2>5. Len(u) = m
    BY <2>3, <1>0
  <2> QED BY <2>3, <2>4, <2>5
<1> HIDE DEF u, g, m
<1>6. \A i \in 1..m : r[i] = u[i]
  BY <1>3, <1>4, <1>5
<1>7. r = u
  BY <1>4, <1>5, <1>6, SeqEqual
<1> QED BY <1>7 DEF r, u, g, m, q, Dropped

\* Closing the gap an element leaves takes it out of the sequence.
LEMMA RingRemove ==
    ASSUME NEW T, NEW C \in Nat \ {0}, NEW h \in 0..(C - 1), NEW n \in 0..C, NEW s, NEW t, NEW k \in 1..n,
           RingIn(T, s, h, n, C), ClosedAt(t, s, h, k, n, C)
    PROVE  Removed(t, s, h, k, n, C) /\ RingIn(T, t, h, n - 1, C)
<1> USE DEF RingIn, ClosedAt
<1> DEFINE q == RingSeq(s, h, n, C)  m == n - 1  r == RingSeq(t, h, m, C)
           a == SubSeq(q, 1, k - 1)  b == SubSeq(q, k + 1, n)
<1>0. n \in Nat /\ m \in Nat /\ k \in Nat /\ m \in 0..C
  OBVIOUS
<1>1. q \in Seq(T) /\ Len(q) = n /\ \A i \in 1..n : q[i] = s[(h + i - 1) % C] /\ q[i] \in T
  <2>1. q \in Seq(T) /\ Len(q) = n /\ \A i \in 1..n : q[i] = s[(h + i - 1) % C]
    BY <1>0 DEF RingSeq
  <2> HIDE DEF q
  <2> QED BY <2>1
<1>2. \A i \in 1..m : t[(h + i - 1) % C] = (IF i < k THEN q[i] ELSE q[i + 1]) /\ t[(h + i - 1) % C] \in T
  <2> SUFFICES ASSUME NEW i \in 1..m
               PROVE  t[(h + i - 1) % C] = (IF i < k THEN q[i] ELSE q[i + 1]) /\ t[(h + i - 1) % C] \in T
    OBVIOUS
  <2> HIDE DEF q
  <2>1. CASE i < k
    <3>1. i \in 1..(k - 1) /\ i \in 1..n
      BY <2>1
    <3> QED BY <3>1, <2>1, <1>1
  <2>2. CASE ~ (i < k)
    <3>1. i \in k..(n - 1) /\ i + 1 \in 1..n /\ h + (i + 1) - 1 = h + i
      BY <2>2
    <3>2. q[i + 1] = s[(h + (i + 1) - 1) % C] /\ q[i + 1] \in T
      BY <3>1, <1>1
    <3> QED BY <3>1, <3>2, <2>2
  <2> QED BY <2>1, <2>2
<1>3. r \in Seq(T) /\ Len(r) = m /\ \A i \in 1..m : r[i] = t[(h + i - 1) % C]
  <2> HIDE DEF m, q
  <2>1. m \in Nat /\ \A i \in 1..m : t[(h + i - 1) % C] \in T
    BY <1>0, <1>2
  <2>2. RingIn(T, t, h, m, C) /\ m \in 0..C
    <3>1. m \in 0..C
      BY <1>0
    <3> QED BY <2>1, <3>1
  <2> HIDE DEF RingIn, ClosedAt
  <2> QED BY <2>2, RingIsSeq
<1> HIDE DEF q, r
<1>4. a \in Seq(T) /\ Len(a) = k - 1 /\ \A i \in 1..(k - 1) : a[i] = q[i]
  <2>1. \A i \in 1..(k - 1) : q[i] \in T
    BY <1>1
  <2>2. /\ a \in Seq(T) /\ Len(a) = IF 1 <= k - 1 THEN k - 1 - 1 + 1 ELSE 0
        /\ \A i \in 1..(k - 1 - 1 + 1) : a[i] = q[1 + i - 1]
    BY <1>0, <1>1, <2>1, SubSeqProperties, SMTT(30)
  <2> HIDE DEF a
  <2>3. \A i \in 1..(k - 1) : i \in 1..(k - 1 - 1 + 1) /\ 1 + i - 1 = i
    OBVIOUS
  <2> QED BY <2>2, <2>3
<1>5. b \in Seq(T) /\ Len(b) = n - k /\ \A i \in 1..(n - k) : b[i] = q[k + i]
  <2>1. \A i \in (k + 1)..n : q[i] \in T
    BY <1>1
  <2>2. /\ b \in Seq(T) /\ Len(b) = IF k + 1 <= n THEN n - (k + 1) + 1 ELSE 0
        /\ \A i \in 1..(n - (k + 1) + 1) : b[i] = q[(k + 1) + i - 1]
    BY <1>0, <1>1, <2>1, SubSeqProperties, SMTT(30)
  <2> HIDE DEF b
  <2>3. \A i \in 1..(n - k) : i \in 1..(n - (k + 1) + 1) /\ (k + 1) + i - 1 = k + i
    OBVIOUS
  <2>4. Len(b) = n - k
    BY <2>2, <1>0
  <2> QED BY <2>2, <2>3, <2>4
<1> HIDE DEF a, b
<1>6. /\ a \o b \in Seq(T) /\ Len(a \o b) = Len(a) + Len(b)
      /\ \A i \in 1..(Len(a) + Len(b)) : (a \o b)[i] = IF i <= Len(a) THEN a[i] ELSE b[i - Len(a)]
  BY <1>4, <1>5, ConcatProperties
<1>7. Len(a) + Len(b) = m
  BY <1>4, <1>5
<1>8. \A i \in 1..m : r[i] = (a \o b)[i]
  <2> SUFFICES ASSUME NEW i \in 1..m PROVE r[i] = (a \o b)[i]
    OBVIOUS
  <2>1. (a \o b)[i] = IF i <= k - 1 THEN a[i] ELSE b[i - (k - 1)]
    BY <1>4, <1>6, <1>7
  <2>2. CASE i < k
    <3>1. i \in 1..(k - 1)
      BY <2>2, <1>0
    <3> QED BY <3>1, <2>1, <2>2, <1>2, <1>3, <1>4
  <2>3. CASE ~ (i < k)
    <3>1. i - (k - 1) \in 1..(n - k) /\ k + (i - (k - 1)) = i + 1 /\ ~ (i <= k - 1)
      BY <2>3, <1>0
    <3>2. b[i - (k - 1)] = q[i + 1]
      BY <3>1, <1>5
    <3> QED BY <3>1, <3>2, <2>1, <2>3, <1>2, <1>3
  <2> QED BY <2>2, <2>3
<1>9. r = a \o b
  BY <1>3, <1>6, <1>7, <1>8, SeqEqual
<1> QED BY <1>2, <1>9 DEF q, r, a, b, Removed

-------------------------------------------------------------------------------
\* The packets of the ring as elements of the abstract queue.
Label(p) == [id |-> p, reliable |-> FALSE]
Labelled == [i \in 0..(QUEUE_CAP - 1) |-> Label(slots[i])]
LabelledPackets == {Label(p) : p \in Packets}
PacketQueue == [i \in 1..len |-> Label(Contents[i])]

\* The cursors are as far apart as the length says.
RingOfPackets ==
    /\ slots \in [0..(QUEUE_CAP - 1) -> Packets \union {NoPacket}]
    /\ head \in 0..(QUEUE_CAP - 1) /\ len \in 0..QUEUE_CAP
    /\ tail = (head + len) % QUEUE_CAP
    /\ SlotsMatch
QueueInv == RingOfPackets /\ batch \in Seq(Packets)

\* The packets between the cursors are the abstract queue (queue.rs).
LEMMA PacketQueueIsRing ==
    ASSUME RingOfPackets
    PROVE  /\ RingIn(LabelledPackets, Labelled, head, len, QUEUE_CAP)
           /\ PacketQueue = RingSeq(Labelled, head, len, QUEUE_CAP)
           /\ PacketQueue \in Seq(LabelledPackets) /\ Len(PacketQueue) = len
           /\ QUEUE_CAP \in Nat \ {0} /\ len \in Nat
<1>1. QUEUE_CAP \in Nat \ {0} /\ head \in 0..(QUEUE_CAP - 1) /\ len \in 0..QUEUE_CAP /\ len \in Nat
  BY QueueAssumption DEF RingOfPackets
<1>2. ASSUME NEW i \in 1..len
      PROVE  /\ (head + i - 1) % QUEUE_CAP \in 0..(QUEUE_CAP - 1)
             /\ slots[(head + i - 1) % QUEUE_CAP] \in Packets
  <2>1. i - 1 \in 0..(QUEUE_CAP - 1) /\ head + (i - 1) = head + i - 1 /\ i - 1 < len
    BY <1>1
  <2> DEFINE j == (head + (i - 1)) % QUEUE_CAP
  <2>2. j \in 0..(QUEUE_CAP - 1) /\ (j - head) % QUEUE_CAP = i - 1
    BY <2>1, <1>1, SlotOffset
  <2> HIDE DEF j
  <2>3. slots[j] # NoPacket
    BY <2>1, <2>2 DEF RingOfPackets, SlotsMatch, InUse
  <2>4. slots[j] \in Packets
    BY <2>2, <2>3 DEF RingOfPackets
  <2> QED BY <2>1, <2>2, <2>4 DEF j
<1>3. \A i \in 1..len : /\ Labelled[(head + i - 1) % QUEUE_CAP] = Label(slots[(head + i - 1) % QUEUE_CAP])
                        /\ Labelled[(head + i - 1) % QUEUE_CAP] \in LabelledPackets
  BY <1>2 DEF Labelled, LabelledPackets
<1>4. PacketQueue = RingSeq(Labelled, head, len, QUEUE_CAP)
  BY <1>3 DEF PacketQueue, Contents, RingSeq
<1>5. RingSeq(Labelled, head, len, QUEUE_CAP) \in Seq(LabelledPackets) /\ Len(RingSeq(Labelled, head, len, QUEUE_CAP)) = len
  <2> DEFINE f == Labelled
  <2>1. len \in Nat /\ \A i \in 1..len : f[(head + i - 1) % QUEUE_CAP] \in LabelledPackets
    BY <1>1, <1>3
  <2> HIDE DEF f
  <2>2. RingSeq(f, head, len, QUEUE_CAP) \in Seq(LabelledPackets) /\ Len(RingSeq(f, head, len, QUEUE_CAP)) = len
    BY <2>1 DEF RingSeq
  <2> QED BY <2>2 DEF f
<1> QED BY <1>1, <1>3, <1>4, <1>5 DEF RingIn

\* A packet that is stored is the newest of the queue (queue.rs, try_push).
LEMMA StoredIsPush ==
    ASSUME RingOfPackets, NEW p \in Packets, len < QUEUE_CAP, Stored(p), UNCHANGED head
    PROVE  RingOfPackets' /\ PacketQueue' = Append(PacketQueue, Label(p)) /\ S!Push
<1> DEFINE C == QUEUE_CAP
<1>1. /\ C \in Nat \ {0} /\ head \in 0..(C - 1) /\ len \in 0..(C - 1) /\ len + 1 \in 0..C
      /\ tail = (head + len) % C /\ slots \in [0..(C - 1) -> Packets \union {NoPacket}]
  BY QueueAssumption DEF RingOfPackets
<1>2. slots' = [slots EXCEPT ![tail] = p] /\ tail' = (tail + 1) % C /\ len' = len + 1 /\ head' = head
  BY DEF Stored, Next1
<1>3. tail \in 0..(C - 1) /\ (tail - head) % C = len
  BY <1>1, SlotOffset
<1>4. tail' = (head' + len') % C
  BY <1>1, <1>2, ModStep
<1>5. p # NoPacket
  BY QueueAssumption
<1>6. SlotsMatch'
  <2> SUFFICES ASSUME NEW i \in 0..(C - 1) PROVE (i - head) % C < len + 1 <=> slots'[i] # NoPacket
    BY <1>2 DEF SlotsMatch, InUse
  <2>1. CASE i = tail
    BY <2>1, <1>1, <1>2, <1>3, <1>5
  <2>2. CASE i # tail
    <3> DEFINE o == (i - head) % C
    <3>1. o \in 0..(C - 1) /\ (head + o) % C = i
      BY <1>1, SlotOffset
    <3>2. o < len <=> slots[i] # NoPacket
      BY DEF RingOfPackets, SlotsMatch, InUse
    <3> HIDE DEF o
    <3>3. o # len
      BY <3>1, <2>2, <1>1
    <3>4. o < len + 1 <=> o < len
      BY <3>1, <3>3, <1>1
    <3>5. slots'[i] = slots[i]
      BY <1>1, <1>2, <2>2
    <3> QED BY <3>2, <3>4, <3>5 DEF o
  <2> QED BY <2>1, <2>2
<1>7. RingOfPackets'
  BY <1>1, <1>2, <1>4, <1>6 DEF RingOfPackets
<1>8. /\ Labelled'[tail] = Label(p)
      /\ \A j \in 0..(C - 1) : j # tail => Labelled'[j] = Labelled[j]
  BY <1>1, <1>2, <1>3 DEF Labelled
<1>9. /\ PacketQueue' = RingSeq(Labelled', head, len + 1, C)
      /\ PacketQueue = RingSeq(Labelled, head, len, C)
      /\ RingIn(LabelledPackets, Labelled, head, len, C)
      /\ Len(PacketQueue) = len
  <2>1. (PacketQueue = RingSeq(Labelled, head, len, QUEUE_CAP))'
    BY <1>7, PacketQueueIsRing, PTL
  <2> QED BY <2>1, <1>2, PacketQueueIsRing
<1>10. Label(p) \in LabelledPackets
  BY DEF LabelledPackets
<1>11. PacketQueue' = Append(PacketQueue, Label(p))
  <2>1. RingSeq(Labelled', head, len + 1, C) = Append(RingSeq(Labelled, head, len, C), Label(p))
    <3> DEFINE f == Labelled  g == Labelled'  e == Label(p)  T == LabelledPackets
    <3>1. RingIn(T, f, head, len, C) /\ StoredAt(g, f, head, len, e, C) /\ e \in T
      BY <1>1, <1>8, <1>9, <1>10 DEF StoredAt
    <3>2. C \in Nat \ {0} /\ head \in 0..(C - 1) /\ len \in 0..(C - 1)
      BY <1>1
    <3> HIDE DEF C, f, g, e, T
    <3>3. Pushed(g, f, head, len, e, C)
      BY <3>1, <3>2, RingAppend
    <3> QED BY <3>3 DEF f, g, e, Pushed
  <2> QED BY <2>1, <1>9
<1>12. S!Push
  BY <1>9, <1>10, <1>11 DEF S!Push, PacketQueue, LabelledPackets, Label
<1> QED BY <1>7, <1>11, <1>12

\* A batch taken off the front (queue.rs, try_pop_batch and drain_into).
LEMMA PopIsTake ==
    ASSUME RingOfPackets, NEW n \in 1..QUEUE_CAP, try_pop(n)
    PROVE  RingOfPackets' /\ S!Take
<1> DEFINE C == QUEUE_CAP  g == (head + n) % C  f == Labelled  u == Labelled'
<1>1. /\ C \in Nat \ {0} /\ head \in 0..(C - 1) /\ len \in 0..C /\ n \in 1..len /\ n \in 0..C
      /\ len - n \in 0..C /\ n + (len - n) = len /\ n \in Nat /\ len \in Nat
      /\ tail = (head + len) % C /\ slots \in [0..(C - 1) -> Packets \union {NoPacket}]
  BY QueueAssumption DEF RingOfPackets, try_pop
<1>2. /\ slots' = [i \in 0..(C - 1) |-> IF (i - head) % C < n THEN NoPacket ELSE slots[i]]
      /\ head' = g /\ len' = len - n /\ UNCHANGED <<tail, batch>>
  BY DEF try_pop
<1>3. g \in 0..(C - 1)
  BY <1>1, ModSmall
<1>4. tail' = (head' + len') % C
  <2> DEFINE m == len - n
  <2>1. m \in 0..C /\ n + m = len /\ n + m <= C /\ len' = m
    BY <1>1, <1>2
  <2> HIDE DEF m
  <2>2. (((head + n) % C) + m) % C = (head + (n + m)) % C
    BY <2>1, <1>1, ModStep
  <2> QED BY <2>1, <2>2, <1>1, <1>2
<1>5. SlotsMatch'
  <2> SUFFICES ASSUME NEW i \in 0..(C - 1) PROVE (i - g) % C < len - n <=> slots'[i] # NoPacket
    BY <1>2 DEF SlotsMatch, InUse
  <2> DEFINE o == (i - head) % C
  <2>1. (i - g) % C = IF o >= n THEN o - n ELSE o - n + C
    BY <1>1, OffsetShift
  <2>2. o \in 0..(C - 1)
    BY <1>1, SlotOffset
  <2>3. o < len <=> slots[i] # NoPacket
    BY DEF RingOfPackets, SlotsMatch, InUse
  <2>4. slots'[i] = IF o < n THEN NoPacket ELSE slots[i]
    BY <1>2
  <2> HIDE DEF o, g
  <2>5. CASE o < n
    <3>1. (i - g) % C = o - n + C
      BY <2>1, <2>2, <2>5, <1>1
    <3>2. ~ ((i - g) % C < len - n)
      BY <3>1, <2>2, <1>1
    <3> QED BY <3>2, <2>4, <2>5
  <2>6. CASE ~ (o < n)
    <3>1. (i - g) % C = o - n
      BY <2>1, <2>2, <2>6, <1>1
    <3>2. (i - g) % C < len - n <=> o < len
      BY <3>1, <2>2, <1>1
    <3> QED BY <3>2, <2>3, <2>4, <2>6
  <2> QED BY <2>5, <2>6
<1>6. slots' \in [0..(C - 1) -> Packets \union {NoPacket}]
  BY <1>1, <1>2
<1>7. RingOfPackets'
  BY <1>1, <1>2, <1>3, <1>4, <1>5, <1>6 DEF RingOfPackets
<1>8. PacketQueue' = RingSeq(u, g, len - n, C) /\ PacketQueue = RingSeq(f, head, len, C)
      /\ RingIn(LabelledPackets, f, head, len, C) /\ Len(PacketQueue) = len
  <2>1. (PacketQueue = RingSeq(Labelled, head, len, QUEUE_CAP))'
    BY <1>7, PacketQueueIsRing, PTL
  <2> QED BY <2>1, <1>2, PacketQueueIsRing
<1>9. SameAfter(u, f, head, n, len, C)
  <2> SUFFICES ASSUME NEW i \in (n + 1)..len PROVE u[(head + i - 1) % C] = f[(head + i - 1) % C]
    BY DEF SameAfter
  <2>1. i - 1 \in 0..(C - 1) /\ head + (i - 1) = head + i - 1 /\ ~ (i - 1 < n)
    BY <1>1
  <2> DEFINE j == (head + (i - 1)) % C
  <2>2. j \in 0..(C - 1) /\ (j - head) % C = i - 1
    BY <2>1, <1>1, SlotOffset
  <2> HIDE DEF j
  <2>3. slots'[j] = slots[j]
    BY <2>1, <2>2, <1>2
  <2>4. u[j] = f[j]
    BY <2>2, <2>3 DEF Labelled
  <2> QED BY <2>1, <2>4 DEF j
<1>10. Dropped(u, f, head, n, len, C)
  <2> HIDE DEF C, f, u
  <2>1. n \in 0..len
    BY <1>1
  <2> QED BY <2>1, <1>1, <1>8, <1>9, RingTake
<1>11. PacketQueue' = SubSeq(PacketQueue, n + 1, len)
  BY <1>8, <1>10 DEF Dropped
<1>12. S!Take
  BY <1>1, <1>8, <1>11 DEF S!Take, PacketQueue, Label
<1> QED BY <1>7, <1>12

\* A full ring gives up its oldest packet (queue.rs, push_overwrite_oldest).
LEMMA OverwriteIsReplace ==
    ASSUME RingOfPackets, NEW p \in Packets, push_overwrite_oldest(p)
    PROVE  RingOfPackets' /\ S!Replace
<1> DEFINE C == QUEUE_CAP  g == (head + 1) % C  f == Labelled  u == Labelled'  e == Label(p)
<1>1. /\ C \in Nat \ {0} /\ head \in 0..(C - 1) /\ len = C /\ C \in 0..C /\ 1 \in 0..C /\ C - 1 \in 0..(C - 1)
      /\ C \in Nat /\ slots \in [0..(C - 1) -> Packets \union {NoPacket}] /\ p # NoPacket
  BY QueueAssumption DEF RingOfPackets, push_overwrite_oldest
<1>2. tail = head
  <2>1. (head + C) % C = head
    <3>1. (head + C) % C = IF head + C < C THEN head + C ELSE head + C - C
      BY <1>1, ModSmall
    <3> QED BY <3>1, <1>1
  <2> QED BY <2>1, <1>1 DEF RingOfPackets
<1>3. slots' = [slots EXCEPT ![head] = p] /\ head' = g /\ tail' = g /\ len' = C
  BY <1>1, <1>2 DEF push_overwrite_oldest, Next1
<1>4. g \in 0..(C - 1)
  BY <1>1, ModSmall
<1>5. tail' = (head' + len') % C
  <2> HIDE DEF g
  <2>1. (g + C) % C = IF g + C < C THEN g + C ELSE g + C - C
    BY <1>1, <1>4, ModSmall
  <2> QED BY <2>1, <1>1, <1>3, <1>4
<1>6. \A i \in 0..(C - 1) : slots[i] # NoPacket /\ slots[i] \in Packets
  <2> SUFFICES ASSUME NEW i \in 0..(C - 1) PROVE slots[i] # NoPacket /\ slots[i] \in Packets
    OBVIOUS
  <2>1. (i - head) % C \in 0..(C - 1)
    BY <1>1, SlotOffset
  <2>2. (i - head) % C < len
    BY <2>1, <1>1
  <2>3. slots[i] # NoPacket
    BY <2>2 DEF RingOfPackets, SlotsMatch, InUse
  <2> QED BY <2>3, <1>1
<1>7. SlotsMatch'
  <2> SUFFICES ASSUME NEW i \in 0..(C - 1) PROVE (i - g) % C < C <=> slots'[i] # NoPacket
    BY <1>3 DEF SlotsMatch, InUse
  <2>1. (i - g) % C < C
    <3>1. (i - g) % C \in 0..(C - 1)
      BY <1>1, <1>4, ModDiff
    <3> QED BY <3>1, <1>1
  <2> QED BY <2>1, <1>1, <1>3, <1>6
<1>8. RingOfPackets'
  BY <1>1, <1>3, <1>4, <1>5, <1>7 DEF RingOfPackets
<1>9. /\ PacketQueue' = RingSeq(u, g, C, C) /\ PacketQueue = RingSeq(f, head, C, C)
      /\ RingIn(LabelledPackets, f, head, C, C)
      /\ PacketQueue \in Seq(LabelledPackets) /\ Len(PacketQueue) = C
  <2>1. (PacketQueue = RingSeq(Labelled, head, len, QUEUE_CAP))'
    BY <1>8, PacketQueueIsRing, PTL
  <2> QED BY <2>1, <1>1, <1>3, PacketQueueIsRing
<1>10. \A j \in 0..(C - 1) : u[j] \in LabelledPackets /\ u[j] = IF j = head THEN e ELSE f[j]
  BY <1>1, <1>3, <1>6 DEF Labelled, LabelledPackets
<1>11. e \in LabelledPackets
  BY DEF LabelledPackets
<1>12. Dropped(u, f, head, 1, C, C)
  <2>1. ASSUME NEW i \in (1 + 1)..C PROVE u[(head + i - 1) % C] = f[(head + i - 1) % C]
    <3>1. i - 1 \in 0..(C - 1) /\ 0 \in 0..(C - 1) /\ head + (i - 1) = head + i - 1 /\ i - 1 # 0
      BY <1>1
    <3>2. (head + (i - 1)) % C \in 0..(C - 1)
      BY <3>1, <1>1, SlotOffset
    <3>4. (head + 0) % C = head
      BY <1>1
    <3>3. (head + (i - 1)) % C # (head + 0) % C
      BY <3>1, <1>1, ModInjective
    <3> QED BY <3>1, <3>2, <3>3, <3>4, <1>10
  <2>2. SameAfter(u, f, head, 1, C, C)
    BY <2>1 DEF SameAfter
  <2> HIDE DEF C, f, u
  <2> QED BY <2>2, <1>1, <1>9, RingTake
<1>13. Pushed(u, u, g, C - 1, e, C)
  <2>1. (g + (C - 1)) % C = head
    <3>1. (((head + 1) % C) + (C - 1)) % C = (head + (1 + (C - 1))) % C
      BY <1>1, ModStep
    <3>2. head + (1 + (C - 1)) = head + C
      BY <1>1
    <3>3. (head + C) % C = IF head + C < C THEN head + C ELSE head + C - C
      BY <1>1, ModSmall
    <3> QED BY <3>1, <3>2, <3>3, <1>1
  <2>2. StoredAt(u, u, g, C - 1, e, C)
    BY <2>1, <1>1, <1>10 DEF StoredAt
  <2>3. RingIn(LabelledPackets, u, g, C - 1, C)
    <3> SUFFICES ASSUME NEW i \in 1..(C - 1) PROVE u[(g + i - 1) % C] \in LabelledPackets
      BY DEF RingIn
    <3> HIDE DEF g
    <3>1. i - 1 \in 0..C /\ g + (i - 1) = g + i - 1
      BY <1>1, <1>4
    <3>2. (g + (i - 1)) % C \in 0..(C - 1)
      BY <3>1, <1>1, <1>4, ModSmall
    <3> QED BY <3>1, <3>2, <1>10
  <2> HIDE DEF C, u, g, e
  <2> QED BY <2>2, <2>3, <1>1, <1>4, <1>11, RingAppend
<1>14. PacketQueue' = Append(SubSeq(PacketQueue, 2, C), e)
  <2>1. (C - 1) + 1 = C /\ 1 + 1 = 2
    BY <1>1
  <2> QED BY <2>1, <1>9, <1>12, <1>13 DEF Dropped, Pushed
<1>15. SubSeq(PacketQueue, 1, 1 - 1) \o SubSeq(PacketQueue, 1 + 1, C) = SubSeq(PacketQueue, 2, C)
  <2> DEFINE q == PacketQueue
  <2>1. \A i \in 2..C : q[i] \in LabelledPackets
    BY <1>1, <1>9, ElementOfSeq
  <2> HIDE DEF q
  <2>2. SubSeq(q, 2, C) \in Seq(LabelledPackets)
    BY <2>1, <1>1, SubSeqProperties
  <2>3. SubSeq(q, 1, 1 - 1) = <<>>
    BY <1>9, SubSeqEmpty DEF q
  <2> QED BY <2>2, <2>3, ConcatEmptySeq DEF q
<1>16. \A i \in 1..C : ~ PacketQueue[i].reliable
  BY <1>1 DEF PacketQueue, Label
<1>17. S!Unreliable = 1..C
  BY <1>9, <1>16 DEF S!Unreliable, PacketQueue, Label
<1>18. S!OldestUnreliable = 1
  BY <1>1, <1>17 DEF S!OldestUnreliable
<1>19. S!Replace
  <2>1. S!RemoveAt(PacketQueue, S!OldestUnreliable) = SubSeq(PacketQueue, 2, C)
    BY <1>9, <1>15, <1>18 DEF S!RemoveAt
  <2>2. S!Unreliable # {}
    <3>1. 1 \in 1..C
      BY <1>1
    <3> QED BY <3>1, <1>17
  <2>3. PacketQueue' = Append(S!RemoveAt(PacketQueue, S!OldestUnreliable), e)
    BY <2>1, <1>14
  <2> HIDE DEF e
  <2> QED BY <2>2, <2>3, <1>9, <1>11 DEF S!Replace, PacketQueue, Label, LabelledPackets
<1> QED BY <1>8, <1>19

\* An empty ring holds the empty queue.
Cleared ==
    slots = [i \in 0..(QUEUE_CAP - 1) |-> NoPacket] /\ head = 0 /\ tail = 0 /\ len = 0

LEMMA ClearedRing ==
    ASSUME Cleared
    PROVE  RingOfPackets /\ PacketQueue = <<>>
<1>1. QUEUE_CAP \in Nat \ {0} /\ 0 \in 0..(QUEUE_CAP - 1) /\ 0 \in 0..QUEUE_CAP
  BY QueueAssumption
<1>2. (0 + 0) % QUEUE_CAP = 0
  BY <1>1
<1>3. ASSUME NEW i \in 0..(QUEUE_CAP - 1) PROVE ~ ((i - 0) % QUEUE_CAP < 0)
  <2>1. (i - 0) % QUEUE_CAP \in 0..(QUEUE_CAP - 1)
    BY <1>1, ModDiff
  <2> QED BY <2>1
<1>4. SlotsMatch
  BY <1>3 DEF SlotsMatch, InUse, Cleared
<1> QED BY <1>1, <1>2, <1>4 DEF RingOfPackets, PacketQueue, Cleared

\* Emptying the buffer takes what is in it.
LEMMA ClearIsTake ==
    ASSUME RingOfPackets, clear
    PROVE  RingOfPackets' /\ (S!Take \/ PacketQueue' = PacketQueue)
<1>1. RingOfPackets' /\ PacketQueue' = <<>>
  <2>1. Cleared'
    BY DEF clear, Cleared
  <2>2. RingOfPackets' /\ (PacketQueue = <<>>)'
    BY <2>1, ClearedRing, PTL
  <2> QED BY <2>2
<1>2. PacketQueue \in Seq(LabelledPackets) /\ Len(PacketQueue) = len /\ len \in Nat
  BY PacketQueueIsRing
<1>3. CASE len = 0
  BY <1>1, <1>2, <1>3, EmptySeq
<1>4. CASE len # 0
  <2>1. len \in 1..len
    BY <1>2, <1>4
  <2>2. SubSeq(PacketQueue, len + 1, len) = <<>>
    BY <1>2, SubSeqEmpty
  <2>3. Len(PacketQueue) = len /\ PacketQueue' = SubSeq(PacketQueue, len + 1, Len(PacketQueue))
    BY <1>1, <1>2, <2>2
  <2> QED BY <1>1, <2>1, <2>3 DEF S!Take, PacketQueue, Label
<1> QED BY <1>1, <1>3, <1>4

\* Every step keeps the invariant and is a step of the queue or a stutter.
LEMMA PacketStep ==
    ASSUME QueueInv, [QueueNext]_queueVars
    PROVE  QueueInv' /\ [S!Push \/ S!Replace \/ S!Take]_PacketQueue
<1>1. ASSUME NEW p \in Packets, try_push(p)
      PROVE  QueueInv' /\ S!Push
  BY <1>1, StoredIsPush DEF QueueInv, try_push
<1>2. ASSUME NEW p \in Packets, push_overwrite_oldest(p)
      PROVE  QueueInv' /\ S!Replace
  BY <1>2, OverwriteIsReplace DEF QueueInv, push_overwrite_oldest
<1>3. ASSUME UNCHANGED <<slots, head, tail, len>>, batch' \in Seq(Packets)
      PROVE  QueueInv' /\ PacketQueue' = PacketQueue
  BY <1>3 DEF QueueInv, RingOfPackets, SlotsMatch, InUse, PacketQueue, Contents
<1>4. CASE try_push_batch
  <2>1. PICK n \in 1..MaxBatch : batch' \in [1..n -> Packets]
    BY <1>4 DEF try_push_batch
  <2>2. n \in Nat
    BY QueueAssumption
  <2>3. batch' \in Seq(Packets)
    BY <2>1, <2>2
  <2> QED BY <2>3, <1>3, <1>4 DEF try_push_batch
<1>5. CASE PushNext
  <2>1. batch \in Seq(Packets) /\ batch # <<>>
    BY <1>5 DEF QueueInv, PushNext
  <2>2. Head(batch) \in Packets /\ Tail(batch) \in Seq(Packets) /\ <<>> \in Seq(Packets)
    BY <2>1, HeadTailProperties, EmptySeq
  <2>3. CASE len >= QUEUE_CAP
    BY <2>2, <2>3, <1>3, <1>5 DEF PushNext
  <2>4. CASE ~ (len >= QUEUE_CAP)
    <3>1. len < QUEUE_CAP /\ Stored(Head(batch)) /\ batch' = Tail(batch) /\ UNCHANGED head
      BY <2>4, <1>5, QueueAssumption DEF PushNext, QueueInv, RingOfPackets
    <3> QED BY <3>1, <2>2, StoredIsPush DEF QueueInv
  <2> QED BY <2>3, <2>4
<1>6. ASSUME NEW n \in 1..QUEUE_CAP, try_pop(n)
      PROVE  QueueInv' /\ S!Take
  BY <1>6, PopIsTake DEF QueueInv, try_pop
<1>7. CASE clear
  BY <1>7, ClearIsTake DEF QueueInv, clear
<1>8. CASE UNCHANGED queueVars
  BY <1>8, <1>3 DEF queueVars, QueueInv
<1> QED BY <1>1, <1>2, <1>4, <1>5, <1>6, <1>7, <1>8 DEF QueueNext

\* The packet ring is the queue that sheds, and its slots match its cursors (queue.rs).
LEMMA PacketsShed == QueueSpec => []SlotsMatch /\ ImplementsFifo
<1>1. QueueInit => QueueInv /\ S!QueueInit
  <2> SUFFICES ASSUME QueueInit PROVE QueueInv /\ S!QueueInit
    OBVIOUS
  <2>1. RingOfPackets /\ PacketQueue = <<>>
    BY ClearedRing DEF QueueInit, Cleared
  <2>2. batch \in Seq(Packets)
    BY EmptySeq DEF QueueInit
  <2> QED BY <2>1, <2>2 DEF QueueInv, S!QueueInit, PacketQueue, Label
<1>2. QueueInv /\ [QueueNext]_queueVars => QueueInv' /\ [S!Push \/ S!Replace \/ S!Take]_PacketQueue
  BY PacketStep
<1>3. QueueInv => SlotsMatch
  BY DEF QueueInv, RingOfPackets
<1> QED BY <1>1, <1>2, <1>3, PTL DEF QueueSpec, ImplementsFifo, S!ShedSpec, PacketQueue, Label

-------------------------------------------------------------------------------
\* The slots of a ring that hold a reliable and an unreliable packet, and how far a slot is from
\* the head.
RelSlots(s) == {i \in BpSlot : s[i] # Empty /\ s[i].reliable}
UnrelSlots(s) == {i \in BpSlot : s[i] # Empty /\ ~ s[i].reliable}
Offset(h, i) == (i - h) % BP_CAP

\* The cursors are as far apart as the length says, and the slots between them are the used ones.
RingOfClasses(s, h, n) ==
    /\ s \in [BpSlot -> Packet \union {Empty}]
    /\ h \in BpSlot /\ n \in 0..BP_CAP
    /\ \A i \in BpSlot : Offset(h, i) < n <=> s[i] # Empty

ClassesInv ==
    /\ RingOfClasses(bpSlots, bpHead, bpLen)
    /\ CountsAgree /\ ReliableRefusedOnlyWhenFull

\* None is not a packet.
LEMMA EmptyIsNoPacket == Empty \notin Packet
<1> SUFFICES ASSUME Empty \in Packet PROVE FALSE
  OBVIOUS
<1>1. DOMAIN Empty = {"payload"}
  BY DEF Empty
<1>2. \A p \in Packet : "reliable" \in DOMAIN p
  BY DEF Packet
<1> QED BY <1>1, <1>2

\* There are finitely many slots.
LEMMA ClassesFinite ==
    /\ IsFiniteSet(BpSlot)
    /\ \A A : A \subseteq BpSlot => IsFiniteSet(A) /\ Cardinality(A) \in Nat
<1>1. IsFiniteSet(BpSlot)
  BY BackpressureAssumption, FS_Interval DEF BpSlot
<1>2. ASSUME NEW A, A \subseteq BpSlot PROVE IsFiniteSet(A) /\ Cardinality(A) \in Nat
  <2>1. IsFiniteSet(A)
    BY <1>1, <1>2, FS_Subset
  <2> QED BY <2>1, FS_CardinalityType
<1> QED BY <1>1, <1>2

\* The first n slots from the head are n.
LEMMA StretchCount ==
    ASSUME NEW C \in Nat \ {0}, NEW h \in 0..(C - 1), NEW n \in 0..C, NEW A,
           A = {j \in 0..(C - 1) : (j - h) % C < n}
    PROVE  Cardinality(A) = n
<1> DEFINE f == [i \in 1..n |-> (h + (i - 1)) % C]
<1>1. ASSUME NEW i \in 1..n
      PROVE  i - 1 \in 0..(C - 1) /\ f[i] \in 0..(C - 1) /\ (f[i] - h) % C = i - 1 /\ f[i] \in A
  <2>1. i - 1 \in 0..(C - 1) /\ i - 1 < n
    OBVIOUS
  <2>2. f[i] \in 0..(C - 1) /\ (f[i] - h) % C = i - 1
    BY <2>1, SlotOffset
  <2> QED BY <2>1, <2>2
<1>2. ASSUME NEW j \in A PROVE \E i \in 1..n : f[i] = j
  <2> DEFINE o == (j - h) % C
  <2>1. o \in 0..(C - 1) /\ (h + o) % C = j /\ o < n
    BY SlotOffset
  <2> HIDE DEF o
  <2>2. o + 1 \in 1..n /\ (o + 1) - 1 = o
    BY <2>1
  <2>3. f[o + 1] = j
    BY <2>1, <2>2
  <2> QED BY <2>2, <2>3
<1>3. ASSUME NEW a \in 1..n, NEW b \in 1..n, f[a] = f[b] PROVE a = b
  <2>1. a - 1 = b - 1
    BY <1>1, <1>3
  <2> QED BY <2>1
<1>4. f \in [1..n -> A]
  BY <1>1
<1> HIDE DEF f
<1>5. f \in Bijection(1..n, A)
  BY <1>2, <1>3, <1>4, Fun_IsBij
<1>6. ExistsBijection(1..n, A)
  BY <1>5 DEF ExistsBijection
<1>7. n \in Nat
  OBVIOUS
<1> QED BY <1>6, <1>7, FS_CountingElements

\* Closing the gap at offset k keeps the number of slots of a kind that slot k is not of.
ShiftedInto(A, B, h, k, C) ==
    /\ A \subseteq 0..(C - 1) /\ B \subseteq 0..(C - 1)
    /\ (h + k) % C \notin B /\ (h + (C - 1)) % C \notin A
    /\ \A o \in 0..(k - 1) : (h + o) % C \in A <=> (h + o) % C \in B
    /\ \A o \in k..(C - 2) : (h + o) % C \in A <=> (h + (o + 1)) % C \in B
SameSize(A, B) == Cardinality(A) = Cardinality(B)

LEMMA ShiftCount ==
    ASSUME NEW C \in Nat \ {0}, NEW h \in 0..(C - 1), NEW k \in 0..(C - 1), NEW A, NEW B,
           ShiftedInto(A, B, h, k, C)
    PROVE  SameSize(A, B)
<1> USE DEF ShiftedInto
<1> DEFINE up(o) == IF o < k THEN o ELSE o + 1
           f == [j \in A |-> (h + up((j - h) % C)) % C]
<1>0. /\ \A j \in 0..(C - 1) : (j - h) % C \in 0..(C - 1) /\ (h + ((j - h) % C)) % C = j
      /\ \A i \in 0..(C - 1) : (h + i) % C \in 0..(C - 1) /\ (((h + i) % C) - h) % C = i
  BY SlotOffset
<1>1. ASSUME NEW j \in A
      PROVE  /\ (j - h) % C \in 0..(C - 1) /\ (h + ((j - h) % C)) % C = j
             /\ (j - h) % C # C - 1 /\ up((j - h) % C) \in 0..(C - 1) /\ f[j] \in B
  <2> DEFINE o == (j - h) % C
  <2>0. j \in 0..(C - 1)
    OBVIOUS
  <2>1. o \in 0..(C - 1) /\ (h + o) % C = j
    BY <2>0, <1>0
  <2>2. o # C - 1
    BY <2>1
  <2> HIDE DEF o
  <2>3. up(o) \in 0..(C - 1) /\ (o \in 0..(k - 1) \/ o \in k..(C - 2))
    BY <2>1, <2>2
  <2>4. (h + up(o)) % C \in B
    <3>1. CASE o \in 0..(k - 1)
      <4>1. up(o) = o
        BY <3>1
      <4> QED BY <4>1, <3>1, <2>1
    <3>2. CASE o \in k..(C - 2)
      <4>1. up(o) = o + 1
        BY <3>2
      <4>2. (h + o) % C \in A
        BY <2>1
      <4>3. (h + (o + 1)) % C \in B
        BY <3>2, <4>2
      <4> QED BY <4>1, <4>3
    <3> QED BY <3>1, <3>2, <2>3
  <2> QED BY <2>1, <2>2, <2>3, <2>4 DEF o
<1>2. ASSUME NEW b \in B PROVE \E j \in A : f[j] = b
  <2> DEFINE o == (b - h) % C  p == IF o < k THEN o ELSE o - 1
  <2>0. b \in 0..(C - 1)
    OBVIOUS
  <2>1. o \in 0..(C - 1) /\ (h + o) % C = b
    BY <2>0, <1>0
  <2>2. o # k
    BY <2>1
  <2> HIDE DEF o
  <2>3. p \in 0..(C - 1) /\ up(p) = o /\ ((p \in 0..(k - 1) /\ p = o) \/ (p \in k..(C - 2) /\ p + 1 = o))
    BY <2>1, <2>2
  <2> HIDE DEF p
  <2>4. (h + p) % C \in A
    <3>1. CASE p \in 0..(k - 1) /\ p = o
      BY <3>1, <2>1
    <3>2. CASE p \in k..(C - 2) /\ p + 1 = o
      BY <3>2, <2>1
    <3> QED BY <3>1, <3>2, <2>3
  <2>5. (((h + p) % C) - h) % C = p
    <3>1. p \in 0..(C - 1)
      BY <2>3
    <3> QED BY <3>1, <1>0
  <2>6. f[(h + p) % C] = b
    <3> HIDE DEF up
    <3> QED BY <2>1, <2>3, <2>4, <2>5
  <2> QED BY <2>4, <2>6
<1>3. ASSUME NEW a \in A, NEW b \in A, f[a] = f[b] PROVE a = b
  <2> DEFINE x == (a - h) % C  y == (b - h) % C
  <2>1. x \in 0..(C - 1) /\ y \in 0..(C - 1) /\ up(x) \in 0..(C - 1) /\ up(y) \in 0..(C - 1)
        /\ (h + x) % C = a /\ (h + y) % C = b
    BY <1>1
  <2>2. (h + up(x)) % C = (h + up(y)) % C
    BY <1>3
  <2> HIDE DEF x, y
  <2>3. up(x) = up(y)
    <3> HIDE DEF up
    <3> QED BY <2>1, <2>2, ModInjective
  <2>4. x = y
    BY <2>1, <2>3
  <2> QED BY <2>1, <2>4
<1>4. f \in [A -> B]
  BY <1>1
<1> HIDE DEF f
<1>5. f \in Bijection(A, B)
  BY <1>2, <1>3, <1>4, Fun_IsBij
<1>6. ExistsBijection(A, B)
  BY <1>5 DEF ExistsBijection
<1>7. IsFiniteSet(A)
  <2>1. IsFiniteSet(0..(C - 1))
    BY FS_Interval
  <2> QED BY <2>1, FS_Subset
<1> QED BY <1>6, <1>7, FS_Bijection DEF SameSize

\* What waits is the ring from the head on.
LEMMA WaitingIsRing ==
    ASSUME RingOfClasses(bpSlots, bpHead, bpLen)
    PROVE  /\ RingIn(Packet, bpSlots, bpHead, bpLen, BP_CAP)
           /\ Waiting = RingSeq(bpSlots, bpHead, bpLen, BP_CAP)
           /\ Waiting \in Seq(Packet) /\ Len(Waiting) = bpLen
           /\ \A i \in 1..bpLen : Waiting[i] = bpSlots[(bpHead + i - 1) % BP_CAP]
<1>1. BP_CAP \in Nat \ {0} /\ bpHead \in 0..(BP_CAP - 1) /\ bpLen \in 0..BP_CAP
  BY BackpressureAssumption DEF RingOfClasses, BpSlot
<1>2. \A o \in 0..(BP_CAP - 1) : (bpHead + o) % BP_CAP \in BpSlot /\ Offset(bpHead, (bpHead + o) % BP_CAP) = o
  BY <1>1, SlotOffset DEF BpSlot, Offset
<1>3. RingIn(Packet, bpSlots, bpHead, bpLen, BP_CAP)
  <2> SUFFICES ASSUME NEW i \in 1..bpLen PROVE bpSlots[(bpHead + i - 1) % BP_CAP] \in Packet
    BY DEF RingIn
  <2>1. i - 1 \in 0..(BP_CAP - 1) /\ bpHead + (i - 1) = bpHead + i - 1 /\ i - 1 < bpLen
    BY <1>1
  <2>2. (bpHead + i - 1) % BP_CAP \in BpSlot /\ Offset(bpHead, (bpHead + i - 1) % BP_CAP) < bpLen
    BY <2>1, <1>2
  <2> QED BY <2>2 DEF RingOfClasses
<1>4. Waiting = RingSeq(bpSlots, bpHead, bpLen, BP_CAP)
  BY DEF Waiting, RingSeq
<1> DEFINE q == RingSeq(bpSlots, bpHead, bpLen, BP_CAP)
<1>5. /\ q \in Seq(Packet) /\ Len(q) = bpLen
      /\ \A i \in 1..bpLen : q[i] = bpSlots[(bpHead + i - 1) % BP_CAP]
  BY <1>1, <1>3, RingIsSeq
<1> HIDE DEF q
<1>6. Waiting = q
  BY <1>4 DEF q
<1> QED BY <1>3, <1>4, <1>5, <1>6

\* A packet in an empty slot counts as one of its class.
OneMore(t, s, p) ==
    /\ Cardinality(RelSlots(t)) = Cardinality(RelSlots(s)) + (IF p.reliable THEN 1 ELSE 0)
    /\ Cardinality(UnrelSlots(t)) = Cardinality(UnrelSlots(s)) + (IF p.reliable THEN 0 ELSE 1)

LEMMA FilledSlot ==
    ASSUME NEW s \in [BpSlot -> Packet \union {Empty}], NEW j \in BpSlot, s[j] = Empty,
           NEW p \in Packet, NEW t, t = [s EXCEPT ![j] = p]
    PROVE  OneMore(t, s, p)
<1>1. IsFiniteSet(RelSlots(s)) /\ IsFiniteSet(UnrelSlots(s))
      /\ Cardinality(RelSlots(s)) \in Nat /\ Cardinality(UnrelSlots(s)) \in Nat
  <2>1. RelSlots(s) \subseteq BpSlot /\ UnrelSlots(s) \subseteq BpSlot
    BY DEF RelSlots, UnrelSlots
  <2> QED BY <2>1, ClassesFinite
<1>2. j \notin RelSlots(s) /\ j \notin UnrelSlots(s)
  BY DEF RelSlots, UnrelSlots
<1>3. t[j] = p /\ p # Empty /\ \A i \in BpSlot : i # j => t[i] = s[i]
  BY EmptyIsNoPacket
<1>4. CASE p.reliable
  <2>1. RelSlots(t) = RelSlots(s) \union {j} /\ UnrelSlots(t) = UnrelSlots(s)
    BY <1>2, <1>3, <1>4 DEF RelSlots, UnrelSlots
  <2>2. Cardinality(RelSlots(s) \union {j}) = Cardinality(RelSlots(s)) + 1
    BY <1>1, <1>2, FS_AddElement
  <2>3. (IF p.reliable THEN 1 ELSE 0) = 1 /\ (IF p.reliable THEN 0 ELSE 1) = 0
    BY <1>4
  <2>4. Cardinality(RelSlots(t)) = Cardinality(RelSlots(s)) + 1
    BY <2>1, <2>2
  <2>5. Cardinality(UnrelSlots(t)) = Cardinality(UnrelSlots(s)) + 0
    BY <2>1, <1>1
  <2> QED BY <2>3, <2>4, <2>5, Zenon DEF OneMore
<1>5. CASE ~ p.reliable
  <2>1. UnrelSlots(t) = UnrelSlots(s) \union {j} /\ RelSlots(t) = RelSlots(s)
    BY <1>2, <1>3, <1>5 DEF RelSlots, UnrelSlots
  <2>2. Cardinality(UnrelSlots(s) \union {j}) = Cardinality(UnrelSlots(s)) + 1
    BY <1>1, <1>2, FS_AddElement
  <2>3. (IF p.reliable THEN 1 ELSE 0) = 0 /\ (IF p.reliable THEN 0 ELSE 1) = 1
    BY <1>5
  <2>4. Cardinality(UnrelSlots(t)) = Cardinality(UnrelSlots(s)) + 1
    BY <2>1, <2>2
  <2>5. Cardinality(RelSlots(t)) = Cardinality(RelSlots(s)) + 0
    BY <2>1, <1>1
  <2> QED BY <2>3, <2>4, <2>5, Zenon DEF OneMore
<1> QED BY <1>4, <1>5

\* A packet in the slot after the last one makes the stretch of used slots longer.
LEMMA LongerStretch ==
    ASSUME NEW s, NEW h, NEW n, RingOfClasses(s, h, n), n < BP_CAP,
           NEW p \in Packet, NEW t, t = [s EXCEPT ![(h + n) % BP_CAP] = p]
    PROVE  /\ (h + n) % BP_CAP \in BpSlot /\ s[(h + n) % BP_CAP] = Empty
           /\ RingOfClasses(t, h, n + 1) /\ StoredAt(t, s, h, n, p, BP_CAP)
<1> DEFINE j == (h + n) % BP_CAP
<1>1. /\ BP_CAP \in Nat \ {0} /\ h \in 0..(BP_CAP - 1) /\ n \in 0..(BP_CAP - 1) /\ n + 1 \in 0..BP_CAP
      /\ n \in Nat
  BY BackpressureAssumption DEF RingOfClasses, BpSlot
<1>2. j \in BpSlot /\ Offset(h, j) = n
  BY <1>1, SlotOffset DEF BpSlot, Offset
<1>3. ASSUME NEW i \in BpSlot, i # j PROVE Offset(h, i) \in Nat /\ Offset(h, i) # n
  <2>1. \A x \in 0..(BP_CAP - 1) : Offset(h, x) \in 0..(BP_CAP - 1) /\ (h + Offset(h, x)) % BP_CAP = x
    BY <1>1, SlotOffset DEF Offset
  <2>2. Offset(h, i) \in 0..(BP_CAP - 1) /\ (h + Offset(h, i)) % BP_CAP = i
    BY <2>1 DEF BpSlot
  <2> QED BY <2>2, <1>3
<1> HIDE DEF j
<1>4. s[j] = Empty
  BY <1>1, <1>2 DEF RingOfClasses
<1>5. t = [s EXCEPT ![j] = p] /\ p # Empty
  BY EmptyIsNoPacket DEF j
<1>6. t \in [BpSlot -> Packet \union {Empty}] /\ t[j] = p /\ \A i \in BpSlot : i # j => t[i] = s[i]
  BY <1>2, <1>5 DEF RingOfClasses
<1>7. ASSUME NEW i \in BpSlot PROVE Offset(h, i) < n + 1 <=> t[i] # Empty
  <2>1. CASE i = j
    BY <2>1, <1>1, <1>2, <1>5, <1>6
  <2>2. CASE i # j
    <3>1. Offset(h, i) < n + 1 <=> Offset(h, i) < n
      BY <2>2, <1>1, <1>3
    <3> QED BY <3>1, <2>2, <1>6 DEF RingOfClasses
  <2> QED BY <2>1, <2>2
<1>8. RingOfClasses(t, h, n + 1)
  BY <1>1, <1>6, <1>7 DEF RingOfClasses, BpSlot
<1>9. StoredAt(t, s, h, n, p, BP_CAP)
  BY <1>6 DEF StoredAt, BpSlot, j
<1> QED BY <1>2, <1>4, <1>8, <1>9 DEF j

\* What the cursors and the counters are, spelled out.
LEMMA ClassesFacts ==
    ASSUME ClassesInv
    PROVE  /\ BP_CAP \in Nat \ {0} /\ bpHead \in 0..(BP_CAP - 1) /\ bpLen \in 0..BP_CAP /\ bpLen \in Nat
           /\ bpSlots \in [BpSlot -> Packet \union {Empty}]
           /\ reliable_count = Cardinality(RelSlots(bpSlots)) /\ reliable_count \in Nat
           /\ unreliable_count = Cardinality(UnrelSlots(bpSlots)) /\ unreliable_count \in Nat
           /\ bpLen = reliable_count + unreliable_count
           /\ bpTail = (bpHead + bpLen) % BP_CAP /\ bpTail \in BpSlot
<1>1. BP_CAP \in Nat \ {0} /\ bpHead \in 0..(BP_CAP - 1) /\ bpLen \in 0..BP_CAP /\ bpLen \in Nat
  BY BackpressureAssumption DEF ClassesInv, RingOfClasses, BpSlot
<1>2. /\ reliable_count = Cardinality(RelSlots(bpSlots))
      /\ unreliable_count = Cardinality(UnrelSlots(bpSlots))
      /\ bpLen = reliable_count + unreliable_count
      /\ bpTail = (bpHead + bpLen) % BP_CAP
      /\ bpSlots \in [BpSlot -> Packet \union {Empty}]
  BY DEF ClassesInv, CountsAgree, RelSlots, UnrelSlots, RingOfClasses
<1>3. RelSlots(bpSlots) \subseteq BpSlot /\ UnrelSlots(bpSlots) \subseteq BpSlot
  BY DEF RelSlots, UnrelSlots
<1>4. bpTail \in BpSlot
  BY <1>1, <1>2, ModSmall DEF BpSlot
<1> QED BY <1>1, <1>2, <1>3, <1>4, ClassesFinite

\* push into a queue with room is a step of the queue that sheds.
LEMMA RoomIsPush ==
    ASSUME ClassesInv, NEW p \in Packet, push(p), bpLen # BP_CAP
    PROVE  ClassesInv' /\ Shedding!Push
<1> DEFINE t == [bpSlots EXCEPT ![(bpHead + bpLen) % BP_CAP] = p]
<1>1. /\ bpSlots' = t /\ bpHead' = bpHead /\ bpLen' = bpLen + 1
      /\ bpTail' = (bpTail + 1) % BP_CAP /\ refused' = Empty
      /\ reliable_count' = reliable_count + (IF p.reliable THEN 1 ELSE 0)
      /\ unreliable_count' = unreliable_count + (IF p.reliable THEN 0 ELSE 1)
  BY ClassesFacts DEF push, is_full, Kept, Succ
<1>2. /\ (bpHead + bpLen) % BP_CAP \in BpSlot /\ bpSlots[(bpHead + bpLen) % BP_CAP] = Empty
      /\ RingOfClasses(t, bpHead, bpLen + 1) /\ StoredAt(t, bpSlots, bpHead, bpLen, p, BP_CAP)
  <2>1. RingOfClasses(bpSlots, bpHead, bpLen) /\ bpLen < BP_CAP
    BY ClassesFacts DEF ClassesInv
  <2> QED BY <2>1, LongerStretch
<1>3. OneMore(t, bpSlots, p)
  BY <1>2, ClassesFacts, FilledSlot
<1> HIDE DEF t
<1>4. RingOfClasses(bpSlots, bpHead, bpLen)'
  BY <1>1, <1>2 DEF RingOfClasses, Offset
<1>5. CountsAgree'
  <2>1. bpTail' = (bpHead + (bpLen + 1)) % BP_CAP
    <3>1. bpLen \in 0..BP_CAP /\ 1 \in 0..BP_CAP /\ bpLen + 1 <= BP_CAP
      BY ClassesFacts
    <3> QED BY <3>1, <1>1, ClassesFacts, ModStep
  <2>2. /\ reliable_count' = Cardinality(RelSlots(t))
        /\ unreliable_count' = Cardinality(UnrelSlots(t))
    BY <1>1, <1>3, ClassesFacts DEF OneMore
  <2>3. bpLen' = reliable_count' + unreliable_count'
    BY <1>1, ClassesFacts
  <2> QED BY <2>1, <2>2, <2>3, <1>1 DEF CountsAgree, RelSlots, UnrelSlots
<1>6. ReliableRefusedOnlyWhenFull'
  BY <1>1 DEF ReliableRefusedOnlyWhenFull
<1>7. Shedding!Push
  <2>1. Pushed(t, bpSlots, bpHead, bpLen, p, BP_CAP)
    <3>1. bpLen \in 0..(BP_CAP - 1)
      BY ClassesFacts
    <3>2. RingIn(Packet, bpSlots, bpHead, bpLen, BP_CAP)
      BY WaitingIsRing DEF ClassesInv
    <3> QED BY <3>1, <3>2, <1>2, ClassesFacts, RingAppend
  <2>2. (Waiting = RingSeq(bpSlots, bpHead, bpLen, BP_CAP))'
    BY <1>4, WaitingIsRing, PTL
  <2>3. Waiting = RingSeq(bpSlots, bpHead, bpLen, BP_CAP) /\ Len(Waiting) = bpLen
    BY WaitingIsRing DEF ClassesInv
  <2>4. Waiting' = Append(Waiting, p)
    BY <2>1, <2>2, <2>3, <1>1 DEF Pushed, RingSeq
  <2>5. Len(Waiting) < BP_CAP
    BY <2>3, ClassesFacts
  <2> QED BY <2>4, <2>5 DEF Shedding!Push, Waiting
<1> QED BY <1>4, <1>5, <1>6, <1>7 DEF ClassesInv

\* evict_oldest_unreliable: w is ring s without the packet k slots from its head, the younger ones
\* one slot down.
ClosesGap(w, s, h, k) ==
    /\ w \in [BpSlot -> Packet \union {Empty}]
    /\ ~ s[(h + k) % BP_CAP].reliable
    /\ w[(h + (BP_CAP - 1)) % BP_CAP] = Empty
    /\ \A o \in 0..(k - 1) : w[(h + o) % BP_CAP] = s[(h + o) % BP_CAP]
    /\ \A o \in k..(BP_CAP - 2) : w[(h + o) % BP_CAP] = s[(h + (o + 1)) % BP_CAP]

\* The slots of a full ring are packets.
LEMMA FullRing ==
    ASSUME ClassesInv, bpLen = BP_CAP
    PROVE  /\ \A i \in BpSlot : bpSlots[i] \in Packet /\ bpSlots[i] # Empty
           /\ bpTail = bpHead /\ Pred(bpTail) = (bpHead + (BP_CAP - 1)) % BP_CAP
<1>1. ASSUME NEW i \in BpSlot PROVE bpSlots[i] \in Packet /\ bpSlots[i] # Empty
  <2>1. Offset(bpHead, i) \in 0..(BP_CAP - 1)
    BY ClassesFacts, ModDiff DEF BpSlot, Offset
  <2>2. Offset(bpHead, i) < bpLen
    BY <2>1, ClassesFacts
  <2> QED BY <2>2 DEF ClassesInv, RingOfClasses
<1>2. bpTail = bpHead
  BY ClassesFacts, ModSmall
<1>3. Pred(bpHead) = (bpHead + (BP_CAP - 1)) % BP_CAP
  <2>1. BP_CAP - 1 \in 0..BP_CAP
    BY ClassesFacts
  <2>2. (bpHead + (BP_CAP - 1)) % BP_CAP
            = IF bpHead + (BP_CAP - 1) < BP_CAP THEN bpHead + (BP_CAP - 1) ELSE bpHead + (BP_CAP - 1) - BP_CAP
    BY <2>1, ClassesFacts, ModSmall
  <2> QED BY <2>2, ClassesFacts DEF Pred
<1> QED BY <1>1, <1>2, <1>3

\* The search from the head finds the oldest unreliable packet.
LEMMA TargetIsOldest ==
    ASSUME ClassesInv, bpLen = BP_CAP, unreliable_count # 0
    PROVE  \E k \in UnreliableOffsets :
               /\ \A i \in UnreliableOffsets : k <= i
               /\ k \in 0..(BP_CAP - 1) /\ Target = (bpHead + k) % BP_CAP
<1>1. UnreliableOffsets # {}
  <2>1. UnrelSlots(bpSlots) # {}
    BY ClassesFacts, FS_EmptySet
  <2>2. PICK j \in BpSlot : ~ bpSlots[j].reliable
    BY <2>1 DEF UnrelSlots
  <2>3. \A x \in 0..(BP_CAP - 1) : (x - bpHead) % BP_CAP \in 0..(BP_CAP - 1) /\ (bpHead + ((x - bpHead) % BP_CAP)) % BP_CAP = x
    BY ClassesFacts, SlotOffset
  <2>4. (j - bpHead) % BP_CAP \in 0..(bpLen - 1) /\ (bpHead + ((j - bpHead) % BP_CAP)) % BP_CAP = j
    BY <2>3 DEF BpSlot
  <2> QED BY <2>2, <2>4 DEF UnreliableOffsets
<1>2. UnreliableOffsets \subseteq 0..(BP_CAP - 1) /\ UnreliableOffsets \subseteq Nat
  BY ClassesFacts DEF UnreliableOffsets
<1>3. PICK k \in UnreliableOffsets : \A i \in UnreliableOffsets : k <= i
  BY <1>1, <1>2, SmallestOf
<1>4. (CHOOSE i \in UnreliableOffsets : \A j \in UnreliableOffsets : i <= j) = k
  <2> DEFINE c == CHOOSE i \in UnreliableOffsets : \A j \in UnreliableOffsets : i <= j
  <2>1. c \in UnreliableOffsets /\ \A j \in UnreliableOffsets : c <= j
    BY <1>3
  <2> HIDE DEF c
  <2>2. c = k
    BY <2>1, <1>2, <1>3
  <2> QED BY <2>2 DEF c
<1> QED BY <1>2, <1>3, <1>4 DEF Target

\* Moving the slots from the target to the one before the tail closes the gap
\* (evict_oldest_unreliable, backpressure.rs).
LEMMA EvictionCloses ==
    ASSUME ClassesInv, bpLen = BP_CAP,
           NEW k \in 0..(BP_CAP - 1), k \in UnreliableOffsets, Target = (bpHead + k) % BP_CAP
    PROVE  ClosesGap(ShiftedDown, bpSlots, bpHead, k)
<1> DEFINE C == BP_CAP  h == bpHead  last == (h + (C - 1)) % C
<1>1. C \in Nat \ {0} /\ h \in 0..(C - 1) /\ BpSlot = 0..(C - 1) /\ C - 1 \in 0..(C - 1) /\ k \in 0..C
  <2>1. BP_CAP \in Nat \ {0} /\ bpHead \in 0..(BP_CAP - 1) /\ BpSlot = 0..(BP_CAP - 1)
    BY ClassesFacts DEF BpSlot
  <2>2. BP_CAP - 1 \in 0..(BP_CAP - 1) /\ k \in 0..BP_CAP
    BY <2>1
  <2> QED BY <2>1, <2>2
<1>2. Pred(bpTail) = last /\ \A i \in BpSlot : bpSlots[i] \in Packet
  BY FullRing
<1>3. \A o \in 0..(C - 1) : (h + o) % C \in BpSlot /\ (((h + o) % C) - h) % C = o
  BY <1>1, SlotOffset
<1>4. ASSUME NEW o \in 0..(C - 1)
      PROVE  (((h + o) % C) - Target) % C = IF o >= k THEN o - k ELSE o - k + C
  <2> DEFINE j == (h + o) % C
  <2>1. j \in 0..(C - 1) /\ (j - h) % C = o
    BY <1>1, <1>3
  <2> HIDE DEF j
  <2>2. (j - ((h + k) % C)) % C = IF (j - h) % C >= k THEN ((j - h) % C) - k ELSE ((j - h) % C) - k + C
    BY <1>1, <2>1, OffsetShift
  <2> QED BY <2>1, <2>2 DEF j
<1>5. (last - Target) % C = C - 1 - k
  <2>1. (last - Target) % C = IF C - 1 >= k THEN C - 1 - k ELSE C - 1 - k + C
    BY <1>1, <1>4
  <2> QED BY <2>1
<1>6. last \in BpSlot /\ (last - h) % C = C - 1
  BY <1>1, <1>3
<1>7. ASSUME NEW o \in 0..(C - 2)
      PROVE  (h + o) % C # last /\ o \in 0..(C - 1) /\ Succ((h + o) % C) = (h + (o + 1)) % C
             /\ (h + o) % C \in BpSlot /\ (h + (o + 1)) % C \in BpSlot
  <2>1. o \in 0..(C - 1) /\ o + 1 \in 0..(C - 1) /\ o \in 0..C /\ 1 \in 0..C /\ o + 1 <= C /\ o # C - 1
    BY <1>1
  <2>2. (h + o) % C # last
    BY <2>1, <1>1, ModInjective
  <2>3. (((h + o) % C) + 1) % C = (h + (o + 1)) % C
    BY <2>1, <1>1, ModStep
  <2> QED BY <2>1, <2>2, <2>3, <1>3 DEF Succ
<1> DEFINE w == ShiftedDown  s == bpSlots
<1>8. \A i \in BpSlot :
          w[i] = IF i = last THEN Empty
                 ELSE IF (i - Target) % C < C - 1 - k THEN s[Succ(i)] ELSE s[i]
  BY <1>2, <1>5 DEF ShiftedDown
<1>w. w = [i \in BpSlot |-> w[i]]
  BY DEF ShiftedDown
<1>s. ~ s[(h + k) % C].reliable
  BY DEF UnreliableOffsets
<1>q. ASSUME NEW i \in BpSlot PROVE Succ(i) \in BpSlot
  <2>1. i \in 0..(C - 1) /\ 1 \in 0..C
    BY <1>1
  <2>2. (i + 1) % C \in 0..(C - 1)
    BY <2>1, <1>1, ModSmall
  <2> QED BY <2>2 DEF BpSlot, Succ
<1> HIDE DEF C, h, last, w, s
<1>9. w \in [BpSlot -> Packet \union {Empty}]
  BY <1>2, <1>8, <1>w, <1>q DEF s
<1>10. w[last] = Empty
  BY <1>6, <1>8
<1>11. ASSUME NEW o \in 0..(k - 1) PROVE w[(h + o) % C] = s[(h + o) % C]
  <2>1. o \in 0..(C - 2) /\ o \in 0..(C - 1) /\ ~ (o >= k) /\ ~ (o - k + C < C - 1 - k)
    BY <1>1 DEF C
  <2>2. (((h + o) % C) - Target) % C = o - k + C
    BY <2>1, <1>4
  <2> QED BY <2>1, <2>2, <1>7, <1>8
<1>12. ASSUME NEW o \in k..(C - 2) PROVE w[(h + o) % C] = s[(h + (o + 1)) % C]
  <2>1. o \in 0..(C - 2) /\ o \in 0..(C - 1) /\ o >= k /\ o - k < C - 1 - k
    BY <1>1 DEF C
  <2>2. (((h + o) % C) - Target) % C = o - k
    BY <2>1, <1>4
  <2> QED BY <2>1, <2>2, <1>7, <1>8
<1> QED BY <1>9, <1>10, <1>11, <1>12, <1>s DEF ClosesGap, C, h, w, s, last

\* Closing the gap takes one unreliable packet from the counts.
LEMMA ClosedCounts ==
    ASSUME NEW s \in [BpSlot -> Packet], NEW h \in BpSlot, NEW k \in 0..(BP_CAP - 1), NEW w,
           ClosesGap(w, s, h, k)
    PROVE  /\ Cardinality(RelSlots(w)) = Cardinality(RelSlots(s))
           /\ Cardinality(UnrelSlots(w)) = Cardinality(UnrelSlots(s)) - 1
<1> DEFINE C == BP_CAP  x == (h + k) % C
<1>1. C \in Nat \ {0} /\ h \in 0..(C - 1) /\ BpSlot = 0..(C - 1) /\ k \in 0..(C - 1) /\ C - 1 \in 0..(C - 1)
  BY BackpressureAssumption DEF BpSlot
<1>2. \A o \in 0..(C - 1) : (h + o) % C \in 0..(C - 1)
  BY <1>1, SlotOffset
<1>3. x \in 0..(C - 1) /\ (h + (C - 1)) % C \in 0..(C - 1)
  BY <1>1, <1>2
<1>4. \A o \in 0..(k - 1) : o \in 0..(C - 1)
  BY <1>1
<1>5. \A o \in k..(C - 2) : o \in 0..(C - 1) /\ o + 1 \in 0..(C - 1)
  BY <1>1
<1>6. /\ ~ s[x].reliable /\ w[(h + (C - 1)) % C] = Empty
      /\ \A o \in 0..(k - 1) : w[(h + o) % C] = s[(h + o) % C]
      /\ \A o \in k..(C - 2) : w[(h + o) % C] = s[(h + (o + 1)) % C]
  BY DEF ClosesGap
<1>7. \A i \in 0..(C - 1) : s[i] # Empty
  BY <1>1, EmptyIsNoPacket
<1> DEFINE RW == RelSlots(w)  RS == RelSlots(s)  UW == UnrelSlots(w)  US == UnrelSlots(s) \ {x}
<1>8. /\ \A i \in 0..(C - 1) : i \in RW <=> w[i] # Empty /\ w[i].reliable
      /\ \A i \in 0..(C - 1) : i \in RS <=> s[i].reliable
      /\ \A i \in 0..(C - 1) : i \in UW <=> w[i] # Empty /\ ~ w[i].reliable
      /\ \A i \in 0..(C - 1) : i \in US <=> ~ s[i].reliable /\ i # x
      /\ RW \subseteq 0..(C - 1) /\ RS \subseteq 0..(C - 1) /\ UW \subseteq 0..(C - 1) /\ US \subseteq 0..(C - 1)
      /\ x \in UnrelSlots(s) /\ UnrelSlots(s) \subseteq BpSlot
  BY <1>1, <1>3, <1>6, <1>7 DEF RelSlots, UnrelSlots
<1>9. /\ \A o \in 0..(k - 1) : (h + o) % C # x
      /\ \A o \in k..(C - 2) : (h + (o + 1)) % C # x
  <2>1. ASSUME NEW o \in 0..(C - 1), o # k PROVE (h + o) % C # x
    BY <2>1, <1>1, ModInjective
  <2> HIDE DEF x
  <2>2. ASSUME NEW o \in 0..(k - 1) PROVE (h + o) % C # x
    <3>1. o \in 0..(C - 1) /\ o # k
      BY <1>1
    <3> QED BY <3>1, <2>1
  <2>3. ASSUME NEW o \in k..(C - 2) PROVE (h + (o + 1)) % C # x
    <3>1. o + 1 \in 0..(C - 1) /\ o + 1 # k
      BY <1>1
    <3> QED BY <3>1, <2>1
  <2> QED BY <2>2, <2>3
<1> HIDE DEF C, RW, RS, UW, US
<1>10. Cardinality(RW) = Cardinality(RS)
  <2>1. x \notin RS /\ (h + (C - 1)) % C \notin RW
    BY <1>3, <1>6, <1>8
  <2>2. \A o \in 0..(k - 1) : (h + o) % C \in RW <=> (h + o) % C \in RS
    BY <1>2, <1>4, <1>6, <1>7, <1>8
  <2>3. \A o \in k..(C - 2) : (h + o) % C \in RW <=> (h + (o + 1)) % C \in RS
    BY <1>2, <1>5, <1>6, <1>7, <1>8
  <2>4. ShiftedInto(RW, RS, h, k, C)
    BY <2>1, <2>2, <2>3, <1>8 DEF ShiftedInto
  <2> QED BY <2>4, <1>1, ShiftCount DEF SameSize
<1>11. Cardinality(UW) = Cardinality(US)
  <2>1. x \notin US /\ (h + (C - 1)) % C \notin UW
    BY <1>3, <1>6, <1>8
  <2>2. \A o \in 0..(k - 1) : (h + o) % C \in UW <=> (h + o) % C \in US
    BY <1>2, <1>4, <1>6, <1>7, <1>8, <1>9
  <2>3. \A o \in k..(C - 2) : (h + o) % C \in UW <=> (h + (o + 1)) % C \in US
    BY <1>2, <1>5, <1>6, <1>7, <1>8, <1>9
  <2>4. ShiftedInto(UW, US, h, k, C)
    BY <2>1, <2>2, <2>3, <1>8 DEF ShiftedInto
  <2> QED BY <2>4, <1>1, ShiftCount DEF SameSize
<1>12. Cardinality(US) = Cardinality(UnrelSlots(s)) - 1
  BY <1>8, ClassesFinite, FS_RemoveElement DEF US
<1> QED BY <1>10, <1>11, <1>12 DEF RW, RS, UW

\* A ring every slot of which holds a packet is all in use.
LEMMA WholeRing ==
    ASSUME NEW t \in [BpSlot -> Packet], NEW h \in BpSlot
    PROVE  RingOfClasses(t, h, BP_CAP)
<1>1. BP_CAP \in Nat \ {0} /\ BP_CAP \in 0..BP_CAP
  BY BackpressureAssumption
<1>2. \A i \in BpSlot : Offset(h, i) < BP_CAP
  <2>1. \A i \in 0..(BP_CAP - 1) : (i - h) % BP_CAP \in 0..(BP_CAP - 1)
    BY <1>1, ModDiff DEF BpSlot
  <2> QED BY <2>1, <1>1 DEF BpSlot, Offset
<1>3. \A i \in BpSlot : t[i] # Empty
  BY EmptyIsNoPacket
<1> QED BY <1>1, <1>2, <1>3 DEF RingOfClasses

\* Filling the gap left at the end of the ring.
LEMMA GapFilled ==
    ASSUME ClassesInv, bpLen = BP_CAP, NEW k \in 0..(BP_CAP - 1), NEW p \in Packet, NEW w, NEW t,
           ClosesGap(w, bpSlots, bpHead, k), t = [w EXCEPT ![(bpHead + (BP_CAP - 1)) % BP_CAP] = p]
    PROVE  /\ t \in [BpSlot -> Packet]
           /\ Removed(w, bpSlots, bpHead, k + 1, BP_CAP, BP_CAP)
           /\ Pushed(t, w, bpHead, BP_CAP - 1, p, BP_CAP)
<1> DEFINE C == BP_CAP  h == bpHead  s == bpSlots  last == (h + (C - 1)) % C
<1>1. /\ C \in Nat \ {0} /\ h \in 0..(C - 1) /\ BpSlot = 0..(C - 1) /\ C - 1 \in 0..(C - 1) /\ k + 1 \in 1..C
      /\ C \in 0..C
  <2>1. C \in Nat \ {0} /\ h \in 0..(C - 1) /\ BpSlot = 0..(C - 1)
    BY ClassesFacts DEF BpSlot
  <2>2. C - 1 \in 0..(C - 1) /\ k + 1 \in 1..C /\ C \in 0..C
    BY <2>1
  <2> QED BY <2>1, <2>2
<1>2. \A i \in BpSlot : s[i] \in Packet
  BY FullRing
<1>3. RingIn(Packet, s, h, C, C)
  BY WaitingIsRing DEF ClassesInv
<1>4. /\ w \in [BpSlot -> Packet \union {Empty}]
      /\ \A o \in 0..(k - 1) : w[(h + o) % C] = s[(h + o) % C]
      /\ \A o \in k..(C - 2) : w[(h + o) % C] = s[(h + (o + 1)) % C]
  BY DEF ClosesGap
<1>5. \A o \in 0..(C - 1) : (h + o) % C \in BpSlot
  BY <1>1, SlotOffset
<1> HIDE DEF C, h, s, last
<1>6. ClosedAt(w, s, h, k + 1, C, C)
  <2>1. ASSUME NEW i \in 1..((k + 1) - 1) PROVE w[(h + i - 1) % C] = s[(h + i - 1) % C]
    <3>1. i - 1 \in 0..(k - 1) /\ h + (i - 1) = h + i - 1
      BY <1>1
    <3> QED BY <3>1, <1>4
  <2>2. ASSUME NEW i \in (k + 1)..(C - 1) PROVE w[(h + i - 1) % C] = s[(h + i) % C]
    <3>1. i - 1 \in k..(C - 2) /\ h + (i - 1) = h + i - 1 /\ (i - 1) + 1 = i
      BY <1>1
    <3> QED BY <3>1, <1>4
  <2> QED BY <2>1, <2>2 DEF ClosedAt
<1>7. Removed(w, s, h, k + 1, C, C) /\ RingIn(Packet, w, h, C - 1, C)
  BY <1>1, <1>3, <1>6, RingRemove
<1>8. /\ t[last] = p /\ last \in BpSlot
      /\ \A i \in BpSlot : i # last => t[i] = w[i]
  BY <1>1, <1>4, <1>5 DEF last, h, C
<1>9. StoredAt(t, w, h, C - 1, p, C)
  BY <1>1, <1>8 DEF StoredAt, last
<1>10. Pushed(t, w, h, C - 1, p, C)
  BY <1>1, <1>7, <1>9, RingAppend
<1>11. ASSUME NEW i \in BpSlot, i # last PROVE w[i] \in Packet
  <2>1. \A x \in 0..(C - 1) : (x - h) % C \in 0..(C - 1) /\ (h + ((x - h) % C)) % C = x
    BY <1>1, SlotOffset
  <2> DEFINE o == (i - h) % C
  <2>2. o \in 0..(C - 1) /\ (h + o) % C = i
    BY <2>1, <1>1
  <2> HIDE DEF o
  <2>3. o # C - 1
    BY <2>2, <1>11 DEF last
  <2>4. CASE o \in 0..(k - 1)
    BY <2>2, <2>4, <1>2, <1>4
  <2>5. CASE o \in k..(C - 2)
    <3>1. o + 1 \in 0..(C - 1)
      BY <2>5, <1>1 DEF C
    <3> QED BY <3>1, <2>2, <2>5, <1>2, <1>4, <1>5
  <2>6. o \in 0..(k - 1) \/ o \in k..(C - 2)
    BY <2>2, <2>3, <1>1
  <2> QED BY <2>4, <2>5, <2>6
<1>12. t \in [BpSlot -> Packet \union {Empty}]
  BY <1>4
<1>13. t \in [BpSlot -> Packet]
  <2>1. \A i \in BpSlot : t[i] \in Packet
    BY <1>8, <1>11
  <2> QED BY <2>1, <1>12
<1> QED BY <1>7, <1>10, <1>13 DEF C, h, s

\* push into a full queue replaces its oldest unreliable packet.
LEMMA EvictIsReplace ==
    ASSUME ClassesInv, NEW p \in Packet, push(p), bpLen = BP_CAP
    PROVE  ClassesInv' /\ Shedding!Replace
<1>0. unreliable_count # 0
  BY DEF push, Refuses, is_full
<1>1. PICK k \in UnreliableOffsets :
          /\ \A i \in UnreliableOffsets : k <= i
          /\ k \in 0..(BP_CAP - 1) /\ Target = (bpHead + k) % BP_CAP
  BY <1>0, TargetIsOldest
<1> DEFINE w == ShiftedDown  last == (bpHead + (BP_CAP - 1)) % BP_CAP  t == [w EXCEPT ![last] = p]
<1>2. ClosesGap(w, bpSlots, bpHead, k)
  BY <1>1, EvictionCloses
<1>3. /\ \A i \in BpSlot : bpSlots[i] \in Packet /\ bpSlots[i] # Empty
      /\ bpTail = bpHead /\ Pred(bpTail) = last
  BY FullRing
<1>4. /\ bpSlots' = t /\ bpHead' = bpHead /\ bpLen' = BP_CAP
      /\ bpTail' = (last + 1) % BP_CAP /\ refused' = Empty
      /\ reliable_count' = reliable_count + (IF p.reliable THEN 1 ELSE 0)
      /\ unreliable_count' = unreliable_count - 1 + (IF p.reliable THEN 0 ELSE 1)
  BY <1>3, ClassesFacts DEF push, is_full, Evicted, Succ
<1> HIDE DEF w
<1>5. /\ t \in [BpSlot -> Packet]
      /\ Removed(w, bpSlots, bpHead, k + 1, BP_CAP, BP_CAP)
      /\ Pushed(t, w, bpHead, BP_CAP - 1, p, BP_CAP)
  BY <1>1, <1>2, GapFilled
<1>6. bpHead \in BpSlot /\ bpSlots \in [BpSlot -> Packet]
  BY <1>3, ClassesFacts DEF BpSlot
<1>7. last \in BpSlot /\ w \in [BpSlot -> Packet \union {Empty}] /\ w[last] = Empty
  <2>1. BP_CAP - 1 \in 0..(BP_CAP - 1)
    BY ClassesFacts
  <2>2. last \in BpSlot
    BY <2>1, ClassesFacts, SlotOffset DEF BpSlot
  <2> QED BY <2>2, <1>2 DEF ClosesGap
<1>8. OneMore(t, w, p)
  BY <1>7, FilledSlot
<1>9. Cardinality(RelSlots(w)) = Cardinality(RelSlots(bpSlots))
      /\ Cardinality(UnrelSlots(w)) = Cardinality(UnrelSlots(bpSlots)) - 1
  BY <1>1, <1>2, <1>6, ClosedCounts
<1> HIDE DEF t
<1>10. RingOfClasses(bpSlots, bpHead, bpLen)'
  <2>1. RingOfClasses(t, bpHead, BP_CAP)
    BY <1>5, <1>6, WholeRing
  <2> QED BY <2>1, <1>4 DEF RingOfClasses, Offset
<1>11. CountsAgree'
  <2>1. bpTail' = (bpHead + BP_CAP) % BP_CAP
    <3>1. BP_CAP - 1 \in 0..BP_CAP /\ 1 \in 0..BP_CAP /\ (BP_CAP - 1) + 1 = BP_CAP
      BY ClassesFacts
    <3>2. (((bpHead + (BP_CAP - 1)) % BP_CAP) + 1) % BP_CAP = (bpHead + ((BP_CAP - 1) + 1)) % BP_CAP
      BY <3>1, ClassesFacts, ModStep
    <3> QED BY <3>1, <3>2, <1>4
  <2>2. /\ reliable_count' = Cardinality(RelSlots(t))
        /\ unreliable_count' = Cardinality(UnrelSlots(t))
    BY <1>4, <1>8, <1>9, ClassesFacts DEF OneMore
  <2>3. bpLen' = reliable_count' + unreliable_count'
    <3>1. CASE p.reliable
      BY <3>1, <1>4, ClassesFacts
    <3>2. CASE ~ p.reliable
      BY <3>2, <1>4, ClassesFacts
    <3> QED BY <3>1, <3>2
  <2> QED BY <2>1, <2>2, <2>3, <1>4 DEF CountsAgree, RelSlots, UnrelSlots
<1>12. ReliableRefusedOnlyWhenFull'
  BY <1>4 DEF ReliableRefusedOnlyWhenFull
<1>13. /\ Waiting = RingSeq(bpSlots, bpHead, BP_CAP, BP_CAP) /\ Len(Waiting) = BP_CAP
       /\ \A i \in 1..BP_CAP : Waiting[i] = bpSlots[(bpHead + i - 1) % BP_CAP]
  BY WaitingIsRing DEF ClassesInv
<1>14. Waiting' = Append(SubSeq(Waiting, 1, (k + 1) - 1) \o SubSeq(Waiting, (k + 1) + 1, BP_CAP), p)
  <2>1. (Waiting = RingSeq(bpSlots, bpHead, bpLen, BP_CAP))'
    BY <1>10, WaitingIsRing, PTL
  <2>2. Waiting' = RingSeq(t, bpHead, BP_CAP, BP_CAP)
    BY <2>1, <1>4 DEF RingSeq
  <2>3. (BP_CAP - 1) + 1 = BP_CAP
    BY ClassesFacts
  <2> QED BY <2>2, <2>3, <1>5, <1>13 DEF Removed, Pushed
<1>15. \A i \in 1..BP_CAP : i \in Shedding!Unreliable <=> i - 1 \in UnreliableOffsets
  <2> SUFFICES ASSUME NEW i \in 1..BP_CAP PROVE i \in Shedding!Unreliable <=> i - 1 \in UnreliableOffsets
    OBVIOUS
  <2>1. i - 1 \in 0..(bpLen - 1) /\ bpHead + (i - 1) = bpHead + i - 1
    BY ClassesFacts
  <2> QED BY <2>1, <1>13 DEF Shedding!Unreliable, UnreliableOffsets, Waiting
<1>16. Shedding!Unreliable # {} /\ Shedding!OldestUnreliable = k + 1
  <2> DEFINE U == Shedding!Unreliable  c == CHOOSE i \in U : \A j \in U : i <= j
  <2>1. U \subseteq 1..BP_CAP
    BY <1>13 DEF Shedding!Unreliable, Waiting
  <2>2. k + 1 \in 1..BP_CAP /\ (k + 1) - 1 = k
    BY <1>1, ClassesFacts
  <2>3. k + 1 \in U
    BY <2>2, <1>1, <1>15
  <2>4. \A j \in U : k + 1 <= j
    <3> SUFFICES ASSUME NEW j \in U PROVE k + 1 <= j
      OBVIOUS
    <3>1. j \in 1..BP_CAP /\ j - 1 \in UnreliableOffsets
      BY <2>1, <1>15
    <3>2. k <= j - 1
      BY <3>1, <1>1
    <3> QED BY <3>1, <3>2, <1>1
  <2> HIDE DEF U
  <2>5. c \in U /\ \A j \in U : c <= j
    BY <2>3, <2>4
  <2> HIDE DEF c
  <2>6. c = k + 1
    BY <2>1, <2>3, <2>4, <2>5, <1>1, ClassesFacts
  <2> QED BY <2>3, <2>6 DEF U, c, Shedding!OldestUnreliable
<1>17. Shedding!Replace
  <2>1. Shedding!RemoveAt(Waiting, k + 1)
            = SubSeq(Waiting, 1, (k + 1) - 1) \o SubSeq(Waiting, (k + 1) + 1, BP_CAP)
    BY <1>13 DEF Shedding!RemoveAt
  <2>2. Waiting' = Append(Shedding!RemoveAt(Waiting, Shedding!OldestUnreliable), p)
    BY <2>1, <1>14, <1>16
  <2> QED BY <2>2, <1>13, <1>16 DEF Shedding!Replace, Waiting
<1> QED BY <1>10, <1>11, <1>12, <1>17 DEF ClassesInv

\* drain_into takes from the head.
LEMMA DrainIsTake ==
    ASSUME ClassesInv, NEW room \in 1..DrainLen, drain_into(room)
    PROVE  ClassesInv' /\ Shedding!Take
<1> DEFINE C == BP_CAP  h == bpHead  s == bpSlots  t == bpSlots'
           n == IF room < bpLen THEN room ELSE bpLen  g == (h + n) % C
           gone == {(h + i) % C : i \in 0..(n - 1)}
           x == {i \in gone : s[i].reliable}  y == {i \in gone : ~ s[i].reliable}
<1>1. C \in Nat \ {0} /\ h \in 0..(C - 1) /\ BpSlot = 0..(C - 1) /\ bpLen \in Nat /\ bpLen \in 0..C
  BY ClassesFacts DEF BpSlot
<1>2. n \in 1..bpLen /\ n \in 0..bpLen /\ n \in 0..C /\ n \in Nat
  <2>1. room \in Nat \ {0} /\ bpLen > 0
    BY BackpressureAssumption DEF drain_into
  <2> QED BY <2>1, <1>1
<1>3. /\ t = [i \in BpSlot |-> IF i \in gone THEN Empty ELSE s[i]]
      /\ bpHead' = g /\ bpLen' = bpLen - n /\ bpTail' = bpTail /\ refused' = Empty
      /\ reliable_count' = reliable_count - Cardinality(x)
      /\ unreliable_count' = unreliable_count - (n - Cardinality(x))
  BY DEF drain_into
<1> HIDE DEF n, C, h, s
<1>4. \A i \in 0..(C - 1) : (h + i) % C \in 0..(C - 1) /\ (((h + i) % C) - h) % C = i
  BY <1>1, SlotOffset
<1>5. \A j \in 0..(C - 1) : (j - h) % C \in 0..(C - 1) /\ (h + ((j - h) % C)) % C = j
  BY <1>1, SlotOffset
<1>6. gone = {j \in 0..(C - 1) : (j - h) % C < n}
  <2>1. ASSUME NEW i \in 0..(n - 1) PROVE (h + i) % C \in 0..(C - 1) /\ (((h + i) % C) - h) % C < n
    <3>1. i \in 0..(C - 1) /\ i < n
      BY <1>1, <1>2
    <3> QED BY <3>1, <1>4
  <2>2. ASSUME NEW j \in 0..(C - 1), (j - h) % C < n PROVE \E i \in 0..(n - 1) : j = (h + i) % C
    <3> DEFINE o == (j - h) % C
    <3>1. o \in 0..(C - 1) /\ (h + o) % C = j /\ o < n
      BY <1>5, <2>2
    <3> HIDE DEF o
    <3>2. o \in 0..(n - 1)
      BY <3>1, <1>2
    <3> QED BY <3>1, <3>2
  <2> QED BY <2>1, <2>2
<1> HIDE DEF gone, x, y
<1>7. Cardinality(gone) = n
  BY <1>1, <1>2, <1>6, StretchCount
<1>8. g \in 0..(C - 1)
  BY <1>1, <1>2, ModSmall
<1>9. ASSUME NEW j \in BpSlot
      PROVE  /\ j \in gone => s[j] # Empty /\ s[j] \in Packet
             /\ Offset(g, j) < bpLen - n <=> j \notin gone /\ s[j] # Empty
  <2> DEFINE o == (j - h) % C
  <2>1. o \in 0..(C - 1) /\ (j \in gone <=> o < n)
    BY <1>1, <1>5, <1>6
  <2>2. (o < bpLen <=> s[j] # Empty) /\ (s[j] # Empty => s[j] \in Packet)
    BY DEF ClassesInv, RingOfClasses, Offset, C, h, s
  <2> HIDE DEF o
  <2>3. Offset(g, j) = IF o >= n THEN o - n ELSE o - n + C
    BY <1>1, <1>2, OffsetShift DEF Offset, o, C
  <2>4. j \in gone => s[j] # Empty
    BY <2>1, <2>2, <1>1, <1>2
  <2>5. Offset(g, j) < bpLen - n <=> o >= n /\ o < bpLen
    BY <2>1, <2>3, <1>1, <1>2
  <2>6. o >= n <=> j \notin gone
    BY <2>1, <1>2
  <2> QED BY <2>2, <2>4, <2>5, <2>6
<1>10. gone \subseteq BpSlot
  BY <1>1, <1>6
<1>11. \A j \in BpSlot : t[j] = IF j \in gone THEN Empty ELSE s[j]
  BY <1>3
<1>12. RingOfClasses(t, g, bpLen - n)
  <2>1. t \in [BpSlot -> Packet \union {Empty}]
    <3>1. \A j \in BpSlot : s[j] \in Packet \union {Empty}
      BY ClassesFacts DEF s
    <3> QED BY <3>1, <1>3
  <2>2. \A j \in BpSlot : Offset(g, j) < bpLen - n <=> t[j] # Empty
    BY <1>9, <1>11
  <2>3. bpLen - n \in 0..BP_CAP /\ g \in BpSlot
    <3>1. bpLen - n \in 0..C
      BY <1>1, <1>2
    <3> QED BY <3>1, <1>1, <1>8 DEF C
  <2> HIDE DEF g, t
  <2> QED BY <2>1, <2>2, <2>3 DEF RingOfClasses
<1>13. /\ RelSlots(t) = RelSlots(s) \ x /\ UnrelSlots(t) = UnrelSlots(s) \ y
       /\ x \subseteq RelSlots(s) /\ y \subseteq UnrelSlots(s)
       /\ y = gone \ x /\ x \subseteq gone
  <2>1. x \subseteq gone /\ y = gone \ x
    BY DEF x, y
  <2>2. x \subseteq RelSlots(s) /\ y \subseteq UnrelSlots(s)
    BY <1>9, <1>10 DEF x, y, RelSlots, UnrelSlots
  <2>3. RelSlots(t) = RelSlots(s) \ x
    BY <1>9, <1>11 DEF x, RelSlots
  <2>4. UnrelSlots(t) = UnrelSlots(s) \ y
    BY <1>9, <1>11 DEF y, UnrelSlots
  <2> QED BY <2>1, <2>2, <2>3, <2>4
<1>14. /\ Cardinality(RelSlots(t)) = Cardinality(RelSlots(s)) - Cardinality(x)
       /\ Cardinality(UnrelSlots(t)) = Cardinality(UnrelSlots(s)) - Cardinality(y)
       /\ Cardinality(y) = n - Cardinality(x)
       /\ Cardinality(x) \in Nat
  <2> HIDE DEF t
  <2>1. /\ IsFiniteSet(RelSlots(s)) /\ IsFiniteSet(UnrelSlots(s)) /\ IsFiniteSet(gone) /\ IsFiniteSet(x)
        /\ IsFiniteSet(y) /\ Cardinality(x) \in Nat
    <3>1. RelSlots(s) \subseteq BpSlot /\ UnrelSlots(s) \subseteq BpSlot
      BY DEF RelSlots, UnrelSlots
    <3>2. x \subseteq BpSlot /\ y \subseteq BpSlot
      BY <3>1, <1>13
    <3> QED BY <3>1, <3>2, <1>10, ClassesFinite
  <2>2. RelSlots(s) \cap x = x /\ UnrelSlots(s) \cap y = y /\ gone \cap x = x
    BY <1>13
  <2>3. Cardinality(RelSlots(s) \ x) = Cardinality(RelSlots(s)) - Cardinality(RelSlots(s) \cap x)
    BY <2>1, FS_Difference
  <2>4. Cardinality(UnrelSlots(s) \ y) = Cardinality(UnrelSlots(s)) - Cardinality(UnrelSlots(s) \cap y)
    BY <2>1, FS_Difference
  <2>5. Cardinality(gone \ x) = Cardinality(gone) - Cardinality(gone \cap x)
    BY <2>1, FS_Difference
  <2> QED BY <2>1, <2>2, <2>3, <2>4, <2>5, <1>7, <1>13
<1>15. RingOfClasses(bpSlots, bpHead, bpLen)'
  BY <1>3, <1>12 DEF RingOfClasses, Offset
<1>16. CountsAgree'
  <2>1. bpTail' = (g + (bpLen - n)) % BP_CAP
    <3>1. n \in 0..C /\ bpLen - n \in 0..C /\ n + (bpLen - n) <= C /\ n + (bpLen - n) = bpLen
      BY <1>1, <1>2
    <3>2. (((h + n) % C) + (bpLen - n)) % C = (h + (n + (bpLen - n))) % C
      BY <3>1, <1>1, ModStep
    <3> QED BY <3>1, <3>2, <1>3, ClassesFacts DEF C, h
  <2>2. /\ reliable_count' = Cardinality(RelSlots(t))
        /\ unreliable_count' = Cardinality(UnrelSlots(t))
    <3> HIDE DEF t
    <3> QED BY <1>3, <1>14, ClassesFacts DEF s
  <2>3. bpLen' = reliable_count' + unreliable_count'
    BY <1>2, <1>3, <1>14, ClassesFacts
  <2> QED BY <2>1, <2>2, <2>3, <1>3 DEF CountsAgree, RelSlots, UnrelSlots
<1>17. ReliableRefusedOnlyWhenFull'
  BY <1>3 DEF ReliableRefusedOnlyWhenFull
<1>18. /\ Waiting = RingSeq(s, h, bpLen, C) /\ Len(Waiting) = bpLen
       /\ RingIn(Packet, s, h, bpLen, C)
  BY WaitingIsRing DEF ClassesInv, s, h, C
<1>19. Waiting' = SubSeq(Waiting, n + 1, Len(Waiting))
  <2>1. (Waiting = RingSeq(bpSlots, bpHead, bpLen, BP_CAP))'
    BY <1>15, WaitingIsRing, PTL
  <2>2. Waiting' = RingSeq(t, (h + n) % C, bpLen - n, C)
    BY <2>1, <1>3 DEF RingSeq, C
  <2>3. SameAfter(t, s, h, n, bpLen, C)
    <3> SUFFICES ASSUME NEW i \in (n + 1)..bpLen PROVE t[(h + i - 1) % C] = s[(h + i - 1) % C]
      BY DEF SameAfter
    <3>1. i - 1 \in 0..(C - 1) /\ h + (i - 1) = h + i - 1 /\ ~ (i - 1 < n)
      BY <1>1, <1>2
    <3>2. (h + (i - 1)) % C \in 0..(C - 1) /\ (((h + (i - 1)) % C) - h) % C = i - 1
      BY <3>1, <1>4
    <3>3. (h + i - 1) % C \in BpSlot /\ (h + i - 1) % C \notin gone
      BY <3>1, <3>2, <1>1, <1>6
    <3> QED BY <3>3, <1>11
  <2>4. Dropped(t, s, h, n, bpLen, C)
    <3> HIDE DEF t
    <3> QED BY <2>3, <1>1, <1>2, <1>18, RingTake
  <2> QED BY <2>2, <2>4, <1>18 DEF Dropped
<1>20. Shedding!Take
  BY <1>2, <1>18, <1>19 DEF Shedding!Take, Waiting
<1> QED BY <1>15, <1>16, <1>17, <1>20 DEF ClassesInv

\* A refusal changes nothing but what it reports, and a reliable packet is refused only when the
\* search for an unreliable one would be in vain.
LEMMA RefusedIsStutter ==
    ASSUME ClassesInv, NEW p \in Packet, push_refused(p)
    PROVE  ClassesInv' /\ Waiting' = Waiting
<1>1. UNCHANGED <<bpSlots, bpHead, bpTail, bpLen, reliable_count, unreliable_count>> /\ refused' = p
  BY DEF push_refused
<1>2. RingOfClasses(bpSlots, bpHead, bpLen)' /\ CountsAgree' /\ Waiting' = Waiting
  BY <1>1 DEF ClassesInv, RingOfClasses, Offset, CountsAgree, Waiting
<1>3. ASSUME p.reliable PROVE bpLen = BP_CAP /\ \A i \in BpSlot : bpSlots[i] # Empty /\ bpSlots[i].reliable
  <2>1. bpLen = BP_CAP /\ unreliable_count = 0
    BY <1>3 DEF push_refused, Refuses, is_full
  <2>2. \A i \in BpSlot : bpSlots[i] # Empty
    BY <2>1, FullRing
  <2>3. UnrelSlots(bpSlots) = {}
    <3>1. UnrelSlots(bpSlots) \subseteq BpSlot /\ Cardinality(UnrelSlots(bpSlots)) = 0
      BY <2>1, ClassesFacts DEF UnrelSlots
    <3>2. IsFiniteSet(UnrelSlots(bpSlots))
      BY <3>1, ClassesFinite
    <3> QED BY <3>1, <3>2, FS_EmptySet
  <2> QED BY <2>1, <2>2, <2>3 DEF UnrelSlots
<1>4. ReliableRefusedOnlyWhenFull'
  BY <1>1, <1>3 DEF ReliableRefusedOnlyWhenFull
<1> QED BY <1>2, <1>4 DEF ClassesInv

\* Every step keeps the invariant and is a step of the queue or a stutter.
LEMMA ClassesStep ==
    ASSUME ClassesInv, [BackpressureNext]_bpVars
    PROVE  ClassesInv' /\ [Shedding!Push \/ Shedding!Replace \/ Shedding!Take]_Waiting
<1>1. ASSUME NEW p \in Packet, push(p) PROVE ClassesInv' /\ (Shedding!Push \/ Shedding!Replace)
  <2>1. CASE bpLen = BP_CAP
    BY <2>1, <1>1, EvictIsReplace
  <2>2. CASE bpLen # BP_CAP
    BY <2>2, <1>1, RoomIsPush
  <2> QED BY <2>1, <2>2
<1>2. ASSUME NEW p \in Packet, push_refused(p) PROVE ClassesInv' /\ Waiting' = Waiting
  BY <1>2, RefusedIsStutter
<1>3. ASSUME NEW room \in 1..DrainLen, drain_into(room) PROVE ClassesInv' /\ Shedding!Take
  BY <1>3, DrainIsTake
<1>4. CASE UNCHANGED bpVars
  BY <1>4 DEF bpVars, ClassesInv, RingOfClasses, Offset, CountsAgree, ReliableRefusedOnlyWhenFull, Waiting
<1> QED BY <1>1, <1>2, <1>3, <1>4 DEF BackpressureNext

\* Nothing waits at first.
LEMMA ClassesStart ==
    ASSUME BackpressureInit
    PROVE  ClassesInv /\ Waiting = <<>>
<1>1. BP_CAP \in Nat \ {0} /\ 0 \in BpSlot /\ 0 \in 0..BP_CAP /\ (0 + 0) % BP_CAP = 0
  BY BackpressureAssumption DEF BpSlot
<1>2. \A i \in BpSlot : bpSlots[i] = Empty /\ ~ (Offset(0, i) < 0)
  <2>1. \A i \in 0..(BP_CAP - 1) : (i - 0) % BP_CAP \in 0..(BP_CAP - 1)
    BY <1>1, ModDiff DEF BpSlot
  <2>2. \A i \in BpSlot : ~ (Offset(0, i) < 0)
    BY <2>1 DEF Offset, BpSlot
  <2> QED BY <2>2 DEF BackpressureInit
<1>3. RingOfClasses(bpSlots, bpHead, bpLen)
  BY <1>1, <1>2 DEF BackpressureInit, RingOfClasses
<1>4. CountsAgree
  <2>1. /\ {i \in BpSlot : bpSlots[i] # Empty /\ bpSlots[i].reliable} = {}
        /\ {i \in BpSlot : bpSlots[i] # Empty /\ ~ bpSlots[i].reliable} = {}
    BY <1>2
  <2>2. Cardinality({}) = 0
    BY FS_EmptySet
  <2>3. bpTail = (bpHead + bpLen) % BP_CAP /\ bpLen = reliable_count + unreliable_count
        /\ reliable_count = 0 /\ unreliable_count = 0
    BY <1>1 DEF BackpressureInit
  <2> QED BY <2>1, <2>2, <2>3 DEF CountsAgree
<1>5. ReliableRefusedOnlyWhenFull
  BY DEF BackpressureInit, ReliableRefusedOnlyWhenFull
<1>6. Waiting = <<>>
  BY DEF BackpressureInit, Waiting
<1> QED BY <1>3, <1>4, <1>5, <1>6 DEF ClassesInv

\* The two-class queue is the queue that sheds, and its counters count (backpressure.rs).
LEMMA ClassesShed ==
    BackpressureSpec => [](CountsAgree /\ ReliableRefusedOnlyWhenFull) /\ ImplementsShedding
<1>1. BackpressureInit => ClassesInv /\ Shedding!QueueInit
  BY ClassesStart DEF Shedding!QueueInit, Waiting
<1>2. ClassesInv /\ [BackpressureNext]_bpVars
        => ClassesInv' /\ [Shedding!Push \/ Shedding!Replace \/ Shedding!Take]_Waiting
  BY ClassesStep
<1>3. ClassesInv => CountsAgree /\ ReliableRefusedOnlyWhenFull
  BY DEF ClassesInv
<1> QED BY <1>1, <1>2, <1>3, PTL DEF BackpressureSpec, ImplementsShedding, Shedding!ShedSpec, Waiting

-------------------------------------------------------------------------------
Datagrams == [id : Nat, reliable : BOOLEAN]
Calls == [pc : {"idle", "again", "look", "push"}, batch : Seq(Datagrams), pressure : BOOLEAN]

\* What the calls and the queues of the worker hold.  SelectSeq is defined by recursion, so the
\* queue that what it keeps goes to is known by its length only.
WorkerInv ==
    /\ arrived \in Nat /\ enqueued \in Int /\ shed \in Int
    /\ socketIn \in Seq(Datagrams) /\ Len(ingress) \in Nat /\ reader \in Calls
    /\ reader.pc \in {"idle", "again"} => reader.batch = <<>>
    /\ AllAccounted

RepliesInv ==
    /\ staging \in Seq(Nat) /\ egress \in Seq(Nat) /\ replies \in Nat /\ lastSent \in Nat
    /\ RepliesSent
    /\ sendFails = {} => lastSent <= replies

\* A queue is what is taken from its front and what is left.
LEMMA TakenAndLeft ==
    ASSUME NEW T, NEW s \in Seq(T), NEW n \in Nat
    PROVE  /\ Taken(s, n) \in Seq(T) /\ Left(s, Len(Taken(s, n))) \in Seq(T)
           /\ Len(Taken(s, n)) + Len(Left(s, Len(Taken(s, n)))) = Len(s)
           /\ Taken(s, n) \o Left(s, Len(Taken(s, n))) = s
<1> DEFINE m == IF n < Len(s) THEN n ELSE Len(s)
<1>1. m \in 0..Len(s) /\ Len(s) \in Nat /\ \A i \in 1..Len(s) : s[i] \in T
  BY ElementOfSeq
<1>2. Taken(s, n) = SubSeq(s, 1, m)
  BY DEF Taken
<1> HIDE DEF m
<1>3. /\ SubSeq(s, 1, m) \in Seq(T) /\ Len(SubSeq(s, 1, m)) = m
      /\ \A i \in 1..m : SubSeq(s, 1, m)[i] = s[i]
  <2>1. \A i \in 1..m : s[i] \in T
    BY <1>1
  <2>2. /\ SubSeq(s, 1, m) \in Seq(T) /\ Len(SubSeq(s, 1, m)) = IF 1 <= m THEN m - 1 + 1 ELSE 0
        /\ \A i \in 1..(m - 1 + 1) : SubSeq(s, 1, m)[i] = s[1 + i - 1]
    BY <1>1, <2>1, SubSeqProperties, SMTT(30)
  <2>3. \A i \in 1..m : i \in 1..(m - 1 + 1) /\ 1 + i - 1 = i
    BY <1>1
  <2>4. Len(SubSeq(s, 1, m)) = m
    BY <2>2, <1>1
  <2> QED BY <2>2, <2>3, <2>4
<1>4. Left(s, m) = SubSeq(s, m + 1, Len(s))
  BY DEF Left
<1>5. /\ SubSeq(s, m + 1, Len(s)) \in Seq(T) /\ Len(SubSeq(s, m + 1, Len(s))) = Len(s) - m
      /\ \A i \in 1..(Len(s) - m) : SubSeq(s, m + 1, Len(s))[i] = s[m + i]
  <2>1. \A i \in (m + 1)..Len(s) : s[i] \in T
    BY <1>1
  <2>2. /\ SubSeq(s, m + 1, Len(s)) \in Seq(T)
        /\ Len(SubSeq(s, m + 1, Len(s))) = IF m + 1 <= Len(s) THEN Len(s) - (m + 1) + 1 ELSE 0
        /\ \A i \in 1..(Len(s) - (m + 1) + 1) : SubSeq(s, m + 1, Len(s))[i] = s[m + 1 + i - 1]
    BY <1>1, <2>1, SubSeqProperties, SMTT(30)
  <2>3. \A i \in 1..(Len(s) - m) : i \in 1..(Len(s) - (m + 1) + 1) /\ m + 1 + i - 1 = m + i
    BY <1>1
  <2>4. Len(SubSeq(s, m + 1, Len(s))) = Len(s) - m
    BY <2>2, <1>1
  <2> QED BY <2>2, <2>3, <2>4
<1> DEFINE a == SubSeq(s, 1, m)  b == SubSeq(s, m + 1, Len(s))
<1>6. a \o b = s
  <2>0. a \in Seq(T) /\ b \in Seq(T)
    BY <1>3, <1>5
  <2> HIDE DEF a, b
  <2>1. /\ a \o b \in Seq(T) /\ Len(a \o b) = Len(a) + Len(b)
        /\ \A i \in 1..(Len(a) + Len(b)) : (a \o b)[i] = IF i <= Len(a) THEN a[i] ELSE b[i - Len(a)]
    BY <2>0, ConcatProperties
  <2>2. Len(a) = m /\ Len(b) = Len(s) - m /\ Len(a) + Len(b) = Len(s)
    <3>1. Len(a) = m
      BY <1>3 DEF a
    <3>2. Len(b) = Len(s) - m
      BY <1>5 DEF b
    <3> QED BY <3>1, <3>2, <1>1
  <2>3. \A i \in 1..Len(s) : (a \o b)[i] = s[i]
    <3> SUFFICES ASSUME NEW i \in 1..Len(s) PROVE (a \o b)[i] = s[i]
      OBVIOUS
    <3>1. CASE i <= m
      <4>1. i \in 1..m /\ a[i] = s[i]
        BY <3>1, <1>1, <1>3 DEF a
      <4> QED BY <4>1, <3>1, <2>1, <2>2
    <3>2. CASE ~ (i <= m)
      <4>1. i - m \in 1..(Len(s) - m) /\ m + (i - m) = i
        BY <3>2, <1>1
      <4>2. b[i - m] = s[i]
        BY <4>1, <1>5 DEF b
      <4> QED BY <4>2, <3>2, <2>1, <2>2
    <3> QED BY <3>1, <3>2
  <2> QED BY <2>1, <2>2, <2>3, SeqEqual
<1> HIDE DEF a, b
<1>7. Taken(s, n) = a /\ Left(s, Len(Taken(s, n))) = b
  <2>1. Len(a) = m
    BY <1>3 DEF a
  <2> QED BY <2>1, <1>2, <1>4 DEF a, b
<1>8. a \in Seq(T) /\ b \in Seq(T) /\ Len(a) + Len(b) = Len(s)
  <2>1. Len(a) = m /\ a \in Seq(T)
    BY <1>3 DEF a
  <2>2. Len(b) = Len(s) - m /\ b \in Seq(T)
    BY <1>5 DEF b
  <2> QED BY <2>1, <2>2, <1>1
<1> QED BY <1>6, <1>7, <1>8


\* Every datagram that was read is counted or still in the call.
LEMMA WorkerStep ==
    ASSUME WorkerInv, [IoNext]_ioVars
    PROVE  WorkerInv'
<1> USE DEF WorkerInv
<1>0. arrived \in Nat /\ enqueued \in Int /\ shed \in Int
  OBVIOUS
<1>1. CASE Arrive
  <2>1. PICK r \in BOOLEAN : socketIn' = Append(socketIn, [id |-> arrived + 1, reliable |-> r])
    BY <1>1 DEF Arrive
  <2>2. [id |-> arrived + 1, reliable |-> r] \in Datagrams
    BY DEF Datagrams
  <2>3. socketIn' \in Seq(Datagrams) /\ Len(socketIn') = Len(socketIn) + 1
    BY <2>1, <2>2, AppendProperties
  <2>4. Len(socketIn) \in Nat /\ Len(reader.batch) \in Nat
    BY LenProperties DEF Calls
  <2>5. arrived' = arrived + 1 /\ UNCHANGED <<worker, ingress, reader, enqueued, shed>>
    BY <1>1 DEF Arrive
  <2>6. AllAccounted'
    <3>1. prioritized' = prioritized
      BY <2>5 DEF worker
    <3>2. CASE prioritized
      <4>1. arrived = Len(socketIn) + Len(reader.batch) + enqueued + shed
        BY <3>2 DEF AllAccounted
      <4>2. arrived + 1 = (Len(socketIn) + 1) + Len(reader.batch) + enqueued + shed
        <5> DEFINE a == Len(socketIn)  b == Len(reader.batch)
        <5>1. a \in Int /\ b \in Int /\ arrived = a + b + enqueued + shed
          BY <4>1, <2>4
        <5> HIDE DEF a, b
        <5>2. arrived + 1 = (a + 1) + b + enqueued + shed
          BY <5>1, <1>0
        <5> QED BY <5>2 DEF a, b
      <4> QED BY <4>2, <2>3, <2>5 DEF AllAccounted
    <3>3. CASE ~ prioritized
      BY <3>1, <3>3 DEF AllAccounted
    <3> QED BY <3>2, <3>3
  <2> QED BY <2>3, <2>5, <2>6
<1>2. CASE ReadBatch
  <2> DEFINE got == Taken(socketIn, BATCH_SIZE)
  <2>1. BATCH_SIZE \in Nat /\ reader.batch = <<>>
    BY <1>2, IoAssumption DEF ReadBatch
  <2>2. /\ got \in Seq(Datagrams) /\ Left(socketIn, Len(got)) \in Seq(Datagrams)
        /\ Len(got) + Len(Left(socketIn, Len(got))) = Len(socketIn)
    BY <2>1, TakenAndLeft
  <2>3. /\ socketIn' = Left(socketIn, Len(got))
        /\ reader' = IF got = <<>> THEN NoCall
                     ELSE [pc |-> IF prioritized THEN "look" ELSE "push", batch |-> got, pressure |-> FALSE]
        /\ UNCHANGED <<worker, arrived, ingress, enqueued, shed>>
    BY <1>2 DEF ReadBatch
  <2> HIDE DEF got
  <2>4. reader' \in Calls /\ reader'.batch = got /\ (reader'.pc \in {"idle", "again"} => got = <<>>)
    <3>1. CASE got = <<>>
      BY <3>1, <2>2, <2>3 DEF Calls, NoCall
    <3>2. CASE got # <<>>
      BY <3>2, <2>2, <2>3 DEF Calls
    <3> QED BY <3>1, <3>2
  <2>5. Len(socketIn) + Len(reader.batch) = Len(socketIn') + Len(reader'.batch)
    <3>1. Len(reader.batch) = 0
      BY <2>1
    <3> QED BY <3>1, <2>2, <2>3, <2>4, LenProperties
  <2>6. Len(socketIn) \in Nat /\ Len(reader.batch) \in Nat /\ Len(socketIn') \in Nat /\ Len(reader'.batch) \in Nat
    BY <2>1, <2>2, <2>3, <2>4, LenProperties
  <2>7. AllAccounted'
    BY <2>3, <2>5, <2>6 DEF AllAccounted, worker
  <2> QED BY <2>2, <2>3, <2>4, <2>7
<1>3. CASE ReadPressure
  <2>1. reader' = [reader EXCEPT !.pc = "push", !.pressure = Len(ingress) >= Threshold]
        /\ UNCHANGED <<worker, arrived, socketIn, ingress, enqueued, shed>>
    BY <1>3 DEF ReadPressure
  <2>2. reader' \in Calls /\ reader'.batch = reader.batch /\ reader'.pc = "push"
    <3> DEFINE full == Len(ingress) >= Threshold
    <3>1. full \in BOOLEAN
      OBVIOUS
    <3> HIDE DEF full
    <3> QED BY <2>1, <3>1 DEF Calls, full
  <2> QED BY <2>1, <2>2 DEF AllAccounted, worker
<1>4. CASE PushBatch
  <2> DEFINE staged == Staged(reader)  room == IO_CAP - Len(ingress)
             pushed == IF Len(staged) < room THEN Len(staged) ELSE room
  <2>1. PICK stop \in BOOLEAN :
          /\ ingress' = ingress \o Taken(staged, pushed)
          /\ enqueued' = enqueued + pushed
          /\ shed' = shed + CountedShed(reader, pushed)
          /\ reader' = [NoCall EXCEPT !.pc = IF stop THEN "idle" ELSE "again"]
          /\ UNCHANGED <<worker, arrived, socketIn>>
    <3> DEFINE stop == IF prioritized THEN Len(reader.batch) < BATCH_SIZE ELSE pushed < Len(staged)
    <3>1. (IF stop THEN TRUE ELSE FALSE) \in BOOLEAN
      OBVIOUS
    <3> QED BY <3>1, <1>4 DEF PushBatch
  <2>2. pushed \in Int /\ Len(ingress') \in Nat /\ Len(reader.batch) \in Nat /\ Len(socketIn) \in Nat
    <3>1. Len(staged) \in Nat /\ Len(ingress') \in Nat
      OBVIOUS
    <3>2. Len(reader.batch) \in Nat /\ Len(socketIn) \in Nat
      BY LenProperties DEF Calls
    <3> QED BY <3>1, <3>2, IoAssumption
  <2> HIDE DEF pushed
  <2>3. reader' \in Calls /\ reader'.batch = <<>> /\ Len(reader'.batch) = 0
    BY <2>1, EmptySeq DEF Calls, NoCall
  <2>4. AllAccounted' /\ enqueued' \in Int /\ shed' \in Int
    <3>1. CASE prioritized
      <4>1. shed' = shed + (Len(reader.batch) - pushed)
        BY <3>1, <2>1 DEF CountedShed
      <4>2. arrived = Len(socketIn) + Len(reader.batch) + enqueued + shed
        BY <3>1 DEF AllAccounted
      <4>3. arrived = Len(socketIn) + 0 + enqueued' + shed'
        BY <4>1, <4>2, <2>1, <2>2
      <4>4. arrived' = Len(socketIn') + Len(reader'.batch) + enqueued' + shed'
        BY <4>3, <2>1, <2>3
      <4>5. enqueued' \in Int /\ shed' \in Int
        BY <4>1, <2>1, <2>2
      <4> QED BY <4>4, <4>5 DEF AllAccounted
    <3>2. CASE ~ prioritized
      BY <3>2, <2>1, <2>2 DEF AllAccounted, CountedShed, worker
    <3> QED BY <3>1, <3>2
  <2> QED BY <2>1, <2>2, <2>3, <2>4
<1>5. CASE TakeIngress
  <2>1. Len(ingress') \in Nat
    OBVIOUS
  <2> QED BY <1>5, <2>1 DEF TakeIngress, AllAccounted, worker
<1>6. CASE Reply
  BY <1>6 DEF Reply, AllAccounted, worker
<1>7. CASE PopEgress
  BY <1>7 DEF PopEgress, AllAccounted, worker
<1>8. CASE Send
  BY <1>8 DEF Send, AllAccounted, worker
<1>9. CASE UNCHANGED ioVars
  BY <1>9 DEF ioVars, AllAccounted, worker
<1> QED BY <1>1, <1>2, <1>3, <1>4, <1>5, <1>6, <1>7, <1>8, <1>9 DEF IoNext


\* Numbers one after the other, also after one more comes and after the first one goes.
WaitsFrom(n, m) == [i \in 1..(m - n) |-> n + i]

LEMMA OneAfterTheOther ==
    ASSUME NEW q \in Seq(Nat), NEW n \in Nat, NEW m \in Nat, n <= m
    PROVE  q = WaitsFrom(n, m) <=> Len(q) = m - n /\ \A i \in 1..(m - n) : q[i] = n + i
<1>1. m - n \in Nat /\ \A i \in 1..(m - n) : n + i \in Nat
  OBVIOUS
<1>2. WaitsFrom(n, m) \in Seq(Nat) /\ Len(WaitsFrom(n, m)) = m - n
      /\ \A i \in 1..(m - n) : WaitsFrom(n, m)[i] = n + i
  BY <1>1 DEF WaitsFrom
<1> HIDE DEF WaitsFrom
<1> QED BY <1>2, SeqEqual

\* A reply is queued at the end and sent from the front, a batch at a time.
LEMMA RepliesStep ==
    ASSUME RepliesInv, [IoNext]_ioVars
    PROVE  RepliesInv'
<1> USE DEF RepliesInv
<1> DEFINE q == staging \o egress
<1>0. /\ q \in Seq(Nat) /\ Len(q) = Len(staging) + Len(egress) /\ Len(staging) \in Nat /\ Len(egress) \in Nat
      /\ \A i \in 1..(Len(staging) + Len(egress)) :
             q[i] = IF i <= Len(staging) THEN staging[i] ELSE egress[i - Len(staging)]
  BY ConcatProperties, LenProperties
<1>w. ASSUME sendFails = {}
      PROVE  /\ lastSent <= replies /\ Len(q) = replies - lastSent
             /\ \A i \in 1..(replies - lastSent) : q[i] = lastSent + i
  <2>1. q = WaitsFrom(lastSent, replies) /\ lastSent <= replies
    BY <1>w DEF RepliesSent, WaitsFrom
  <2> HIDE DEF q
  <2> QED BY <2>1, <1>0, OneAfterTheOther
<1> HIDE DEF q
<1>1. CASE Reply
  <2> DEFINE e == Append(egress, replies + 1)
  <2>1. egress' = e /\ replies' = replies + 1
        /\ UNCHANGED <<worker, staging, lastSent>>
    BY <1>1 DEF Reply
  <2>2. /\ e \in Seq(Nat) /\ Len(e) = Len(egress) + 1 /\ e[Len(egress) + 1] = replies + 1
        /\ \A i \in 1..Len(egress) : e[i] = egress[i]
    BY AppendProperties
  <2> HIDE DEF e
  <2>3. ASSUME sendFails = {}
        PROVE  staging \o e = WaitsFrom(lastSent, replies + 1)
    <3> DEFINE r == staging \o e
    <3>1. /\ r \in Seq(Nat) /\ Len(r) = Len(staging) + Len(e)
          /\ \A i \in 1..(Len(staging) + Len(e)) :
                 r[i] = IF i <= Len(staging) THEN staging[i] ELSE e[i - Len(staging)]
      BY <2>2, ConcatProperties
    <3> HIDE DEF r
    <3> DEFINE a == Len(staging)  b == Len(egress)  d == replies - lastSent
    <3>2. /\ a \in Nat /\ b \in Nat /\ d \in Nat /\ a + b = d /\ d + lastSent = replies
          /\ \A i \in 1..d : q[i] = lastSent + i
          /\ \A i \in 1..d : q[i] = IF i <= a THEN staging[i] ELSE egress[i - a]
      <4>1. lastSent <= replies /\ Len(q) = d /\ \A i \in 1..d : q[i] = lastSent + i
        BY <2>3, <1>w
      <4>2. Len(q) = a + b /\ \A i \in 1..(a + b) : q[i] = IF i <= a THEN staging[i] ELSE egress[i - a]
        BY <1>0
      <4>3. a + b = d
        BY <4>1, <4>2
      <4>4. a \in Nat /\ b \in Nat
        BY <1>0
      <4>5. d \in Nat /\ d + lastSent = replies
        BY <4>1
      <4> HIDE DEF a, b, d
      <4> QED BY <4>1, <4>2, <4>3, <4>4, <4>5
    <3> HIDE DEF a, b, d
    <3>3. Len(e) = b + 1 /\ e[b + 1] = replies + 1 /\ \A i \in 1..b : e[i] = egress[i]
      BY <2>2 DEF b
    <3>4. Len(r) = d + 1 /\ \A i \in 1..(d + 1) : r[i] = IF i <= a THEN staging[i] ELSE e[i - a]
      <4>1. a + Len(e) = d + 1
        BY <3>2, <3>3
      <4> QED BY <4>1, <3>1 DEF a
    <3>5. ASSUME NEW i \in 1..(d + 1) PROVE r[i] = lastSent + i
      <4>1. CASE i <= a
        <5>1. i \in 1..d
          BY <4>1, <3>2
        <5> QED BY <5>1, <4>1, <3>2, <3>4
      <4>2. CASE ~ (i <= a) /\ i # d + 1
        <5>1. i \in 1..d /\ i - a \in 1..b
          BY <4>2, <3>2
        <5> QED BY <5>1, <4>2, <3>2, <3>3, <3>4
      <4>3. CASE ~ (i <= a) /\ i = d + 1
        <5>1. i - a = b + 1 /\ lastSent + i = replies + 1
          BY <4>3, <3>2
        <5> QED BY <5>1, <4>3, <3>3, <3>4
      <4> QED BY <4>1, <4>2, <4>3
    <3>6. (replies + 1) - lastSent = d + 1 /\ lastSent <= replies + 1 /\ replies + 1 \in Nat /\ r \in Seq(Nat)
      BY <3>1, <3>2
    <3>7. r = WaitsFrom(lastSent, replies + 1)
      <4> DEFINE m == replies + 1
      <4>1. m \in Nat /\ lastSent <= m /\ m - lastSent = d + 1 /\ r \in Seq(Nat)
        BY <3>6
      <4> HIDE DEF m
      <4>2. Len(r) = m - lastSent /\ \A i \in 1..(m - lastSent) : r[i] = lastSent + i
        BY <4>1, <3>4, <3>5
      <4>3. r = WaitsFrom(lastSent, m)
        BY <4>1, <4>2, OneAfterTheOther
      <4> QED BY <4>3 DEF m
    <3> QED BY <3>7 DEF r
  <2>4. ASSUME sendFails = {} PROVE lastSent <= replies + 1
    BY <2>4, <1>w
  <2> QED BY <2>1, <2>2, <2>3, <2>4 DEF RepliesSent, WaitsFrom, worker
<1>2. CASE PopEgress
  <2>1. /\ staging = <<>> /\ staging' = Taken(egress, BATCH_SIZE) /\ egress' = Left(egress, Len(staging'))
        /\ UNCHANGED <<worker, replies, lastSent>>
    BY <1>2 DEF PopEgress
  <2>2. staging' \in Seq(Nat) /\ egress' \in Seq(Nat) /\ staging' \o egress' = egress
    BY <2>1, IoAssumption, TakenAndLeft
  <2>3. staging \o egress = egress
    BY <2>1, ConcatEmptySeq
  <2> QED BY <2>1, <2>2, <2>3 DEF RepliesSent, worker
<1>3. CASE Send
  <2>1. staging # <<>> /\ UNCHANGED <<worker, egress, replies>>
    BY <1>3 DEF Send
  <2>2. /\ Head(staging) \in Nat /\ Tail(staging) \in Seq(Nat) /\ <<>> \in Seq(Nat)
        /\ Head(staging) = staging[1] /\ Len(staging) >= 1 /\ Len(Tail(staging)) = Len(staging) - 1
        /\ \A i \in 1..Len(Tail(staging)) : Tail(staging)[i] = staging[i + 1]
    BY <2>1, HeadTailProperties, EmptySeq
  <2>3. CASE sendFails # {}
    BY <1>3, <2>1, <2>2, <2>3 DEF Send, RepliesSent, worker
  <2>4. CASE sendFails = {}
    <3>1. lastSent' = Head(staging) /\ staging' = Tail(staging)
      BY <1>3, <2>4 DEF Send
    <3>2. lastSent' = lastSent + 1 /\ lastSent + 1 <= replies
      <4>1. 1 \in 1..(Len(staging) + Len(egress)) /\ 1 \in 1..(replies - lastSent) /\ 1 <= Len(staging)
        BY <2>2, <2>4, <1>0, <1>w
      <4>2. q[1] = lastSent + 1 /\ q[1] = staging[1]
        BY <4>1, <2>4, <1>0, <1>w
      <4> QED BY <4>1, <4>2, <2>2, <3>1
    <3> DEFINE r == Tail(staging) \o egress
    <3>3. /\ r \in Seq(Nat) /\ Len(r) = Len(Tail(staging)) + Len(egress)
          /\ \A i \in 1..(Len(Tail(staging)) + Len(egress)) :
                 r[i] = IF i <= Len(Tail(staging)) THEN Tail(staging)[i] ELSE egress[i - Len(Tail(staging))]
      BY <2>2, ConcatProperties
    <3> HIDE DEF r
    <3>4. Len(r) = replies - (lastSent + 1)
      BY <2>2, <2>4, <3>3, <1>0, <1>w
    <3>5. ASSUME NEW i \in 1..(replies - (lastSent + 1)) PROVE r[i] = (lastSent + 1) + i
      <4>1. /\ i + 1 \in 1..(Len(staging) + Len(egress)) /\ i + 1 \in 1..(replies - lastSent)
            /\ i \in 1..(Len(Tail(staging)) + Len(egress))
        BY <2>2, <2>4, <1>0, <1>w
      <4>2. q[i + 1] = (lastSent + 1) + i
        BY <4>1, <2>4, <1>w
      <4>3. CASE i <= Len(Tail(staging))
        <5>1. i \in 1..Len(Tail(staging)) /\ i + 1 <= Len(staging)
          BY <4>3, <2>2, <1>0
        <5> QED BY <5>1, <4>1, <4>2, <4>3, <3>3, <2>2, <1>0
      <4>4. CASE ~ (i <= Len(Tail(staging)))
        <5>1. ~ (i + 1 <= Len(staging)) /\ (i + 1) - Len(staging) = i - Len(Tail(staging))
          BY <4>4, <2>2, <1>0
        <5> QED BY <5>1, <4>1, <4>2, <4>4, <3>3, <1>0
      <4> QED BY <4>3, <4>4
    <3>6. r = WaitsFrom(lastSent + 1, replies)
      BY <3>2, <3>3, <3>4, <3>5, OneAfterTheOther
    <3>7. staging' \o egress' = WaitsFrom(lastSent', replies')
      BY <3>1, <3>2, <3>6, <2>1 DEF r
    <3> QED BY <2>1, <2>2, <3>1, <3>2, <3>7 DEF RepliesSent, WaitsFrom
  <2> QED BY <2>3, <2>4
<1>4. CASE Arrive \/ ReadBatch \/ ReadPressure \/ PushBatch \/ TakeIngress \/ UNCHANGED ioVars
  <2>1. UNCHANGED <<worker, egress, staging, replies, lastSent>>
    BY <1>4 DEF Arrive, ReadBatch, ReadPressure, PushBatch, TakeIngress, ioVars
  <2> QED BY <2>1 DEF RepliesSent, worker
<1> QED BY <1>1, <1>2, <1>3, <1>4 DEF IoNext

\* The worker counts every datagram it reads and loses no reply (io.rs).
LEMMA WorkerAccounts == IoSpec => [](AllAccounted /\ RepliesSent)
<1>1. IoInit => WorkerInv /\ RepliesInv
  <2> SUFFICES ASSUME IoInit PROVE WorkerInv /\ RepliesInv
    OBVIOUS
  <2>1. WorkerInv
    <3>1. Len(<<>>) = 0 /\ <<>> \in Seq(Datagrams)
      BY EmptySeq
    <3>2. reader \in Calls /\ reader.batch = <<>>
      BY <3>1 DEF IoInit, NoCall, Calls
    <3> QED BY <3>1, <3>2 DEF IoInit, WorkerInv, AllAccounted
  <2>2. RepliesInv
    <3>1. <<>> \in Seq(Nat) /\ <<>> \o <<>> = <<>> /\ [i \in 1..(0 - 0) |-> 0 + i] = <<>>
      BY EmptySeq, ConcatEmptySeq
    <3> QED BY <3>1 DEF IoInit, RepliesInv, RepliesSent
  <2> QED BY <2>1, <2>2
<1>2. WorkerInv /\ RepliesInv /\ [IoNext]_ioVars => WorkerInv' /\ RepliesInv'
  BY WorkerStep, RepliesStep
<1>3. WorkerInv /\ RepliesInv => AllAccounted /\ RepliesSent
  BY DEF WorkerInv, RepliesInv
<1> QED BY <1>1, <1>2, <1>3, PTL DEF IoSpec

-------------------------------------------------------------------------------
\* The rings of queue.rs and backpressure.rs implement the queue that gives up only its oldest
\* unreliable element, for every capacity and every set of packets: across every wrap-around and
\* every removal from the middle packets leave in the order they came.
THEOREM RingsImplementShedding == QueueSpec /\ BackpressureSpec => QueuesShed
BY PacketsShed, ClassesShed, PTL DEF QueuesShed

\* Their cursors, slots and counters agree, a reliable packet is refused only by a queue full of
\* them, and the worker of io.rs counts every datagram and keeps every reply, for every capacity
\* and batch size.
THEOREM QueueCountersExact == QueueSpec /\ BackpressureSpec /\ IoSpec => []QueuesConsistent
<1>1. SlotsMatch /\ (CountsAgree /\ ReliableRefusedOnlyWhenFull) /\ (AllAccounted /\ RepliesSent)
        => QueuesConsistent
  BY DEF QueuesConsistent
<1> QED BY <1>1, PacketsShed, ClassesShed, WorkerAccounts, PTL

-------------------------------------------------------------------------------
(* The replay window of the session (ReplayWindow). *)

\* Moving ahead by d keeps the window inside the word and moves every bit
\* that stays by exactly d.
LEMMA ShiftedBits ==
    ASSUME NEW d \in Nat, d > 0, WindowTypeOK
    PROVE  /\ Shifted(d) \subseteq 0..(Width - 1)
           /\ 0 \in Shifted(d)
           /\ \A e \in 1..(Width - 1) :
                  e \in Shifted(d) <=> (e >= d /\ e - d \in window)
  BY WidthAssumption DEF Shifted, WindowTypeOK

\* The empty window satisfies the invariant.
LEMMA WindowInitInv == WindowInit => WindowInv
  <1> SUFFICES ASSUME WindowInit PROVE WindowInv
    OBVIOUS
  <1>1. WindowTypeOK /\ AcceptedBehind /\ AcceptedOnce
    BY SequencesAssumption
    DEF WindowInit, WindowTypeOK, AcceptedBehind, AcceptedOnce
  <1>2. WindowIsHistory
    BY SequencesAssumption DEF WindowInit, WindowIsHistory
  <1> QED
    BY <1>1, <1>2 DEF WindowInv

\* Every way of accepting a packet preserves the invariant.
LEMMA WindowStepInv == WindowInv /\ [WindowNext]_windowVars => WindowInv'
  <1> SUFFICES ASSUME WindowInv, [WindowNext]_windowVars PROVE WindowInv'
    OBVIOUS
  <1>0. CASE UNCHANGED windowVars
    BY <1>0 DEF windowVars, WindowInv, WindowTypeOK, WindowIsHistory,
       AcceptedBehind, AcceptedOnce, Fresh
  <1>1. ASSUME NEW s \in Sequences64, AcceptFirst(s) PROVE WindowInv'
    <2>1. s \in Nat /\ \A r \in Sequences64 : r \in Nat
      BY SequencesAssumption
    <2>2. /\ accepted' = [accepted EXCEPT ![s] = @ + 1]
          /\ highest_sequence' = s /\ window' = {0}
          /\ \A r \in Sequences64 : accepted[r] = 0
      BY <1>1 DEF WindowInv, AcceptedBehind, AcceptFirst, Accept
    <2>3. \A r \in Sequences64 : accepted'[r] = IF r = s THEN 1 ELSE 0
      BY <2>2 DEF WindowInv, WindowTypeOK
    <2>4. WindowTypeOK'
      BY <2>1, <2>2, WidthAssumption DEF WindowInv, WindowTypeOK
    <2>5. WindowIsHistory'
      BY <2>1, <2>2, <2>3 DEF WindowIsHistory
    <2>6. AcceptedBehind' /\ AcceptedOnce'
      BY <2>1, <2>2, <2>3 DEF AcceptedBehind, AcceptedOnce, Fresh
    <2> QED
      BY <2>4, <2>5, <2>6 DEF WindowInv
  <1>2. ASSUME NEW s \in Sequences64, AcceptNewer(s) PROVE WindowInv'
    <2> DEFINE d == s - highest_sequence
    <2>1. s \in Nat /\ \A r \in Sequences64 : r \in Nat
      BY SequencesAssumption
    <2>2. /\ accepted' = [accepted EXCEPT ![s] = @ + 1]
          /\ highest_sequence' = s /\ window' = Shifted(d)
          /\ s > highest_sequence /\ highest_sequence \in Nat
          /\ accepted \in [Sequences64 -> Nat]
      BY <1>2 DEF WindowInv, WindowTypeOK, AcceptNewer, Accept
    <2>3. d \in Nat /\ d > 0 /\ WindowTypeOK
      BY <2>1, <2>2 DEF WindowInv
    <2> HIDE DEF d
    <2>4. /\ Shifted(d) \subseteq 0..(Width - 1)
          /\ 0 \in Shifted(d)
          /\ \A e \in 1..(Width - 1) :
                 e \in Shifted(d) <=> (e >= d /\ e - d \in window)
      BY <2>3, ShiftedBits
    <2>5. accepted[s] = 0
      BY <2>1, <2>2 DEF WindowInv, AcceptedBehind
    <2>6. \A r \in Sequences64 :
              accepted'[r] = IF r = s THEN 1 ELSE accepted[r]
      BY <2>2, <2>5
    <2>7. WindowTypeOK'
      BY <2>1, <2>2, <2>4 DEF WindowTypeOK
    <2>8. WindowIsHistory'
      <3> SUFFICES ASSUME NEW r \in Sequences64, r <= s, s - r < Width
                   PROVE  (s - r \in Shifted(d)) <=> accepted'[r] > 0
        BY <2>2 DEF WindowIsHistory
      <3>1. CASE r = s
        BY <3>1, <2>1, <2>4, <2>6
      <3>2. CASE r # s
        <4>1. s - r \in 1..(Width - 1) /\ accepted'[r] = accepted[r]
          BY <3>2, <2>1, <2>6, WidthAssumption
        <4>2. (s - r \in Shifted(d)) <=> (s - r >= d /\ (s - r) - d \in window)
          BY <4>1, <2>4
        <4>3. CASE r > highest_sequence
          <5>1. s - r < d
            BY <4>3, <2>1, <2>2 DEF d
          <5>2. ~(accepted[r] > 0)
            BY <4>3, <2>1, <2>2 DEF WindowInv, AcceptedBehind
          <5> QED
            BY <5>1, <5>2, <4>1, <4>2, <2>1, <2>3
        <4>4. CASE r <= highest_sequence
          <5>1. s - r >= d /\ (s - r) - d = highest_sequence - r
            BY <4>4, <2>1, <2>2 DEF d
          <5>2. highest_sequence - r < Width
            BY <4>4, <2>1, <2>2, WidthAssumption
          <5> QED
            BY <5>1, <5>2, <4>1, <4>2, <4>4, <2>1, <2>2
            DEF WindowInv, WindowIsHistory
        <4> QED
          BY <4>3, <4>4, <2>1, <2>2
      <3> QED
        BY <3>1, <3>2
    <2>9. AcceptedBehind' /\ AcceptedOnce'
      <3>1. AcceptedBehind'
        BY <2>1, <2>2, <2>4, <2>6 DEF WindowInv, AcceptedBehind, Fresh
      <3>2. AcceptedOnce'
        BY <2>6 DEF WindowInv, AcceptedOnce
      <3> QED
        BY <3>1, <3>2
    <2> QED
      BY <2>7, <2>8, <2>9 DEF WindowInv
  <1>3. ASSUME NEW s \in Sequences64, AcceptLate(s) PROVE WindowInv'
    <2>1. s \in Nat /\ \A r \in Sequences64 : r \in Nat
      BY SequencesAssumption
    <2>2. /\ accepted' = [accepted EXCEPT ![s] = @ + 1]
          /\ highest_sequence' = highest_sequence
          /\ window' = window \union {highest_sequence - s}
          /\ s <= highest_sequence /\ highest_sequence \in Nat
          /\ highest_sequence - s < Width
          /\ highest_sequence - s \notin window
          /\ accepted \in [Sequences64 -> Nat]
          /\ window \subseteq 0..(Width - 1)
      BY <1>3 DEF WindowInv, WindowTypeOK, AcceptLate, Accept
    <2>3. accepted[s] = 0
      BY <2>1, <2>2 DEF WindowInv, WindowIsHistory
    <2>4. \A r \in Sequences64 :
              accepted'[r] = IF r = s THEN 1 ELSE accepted[r]
      BY <2>2, <2>3
    <2>5. WindowTypeOK'
      BY <2>1, <2>2, WidthAssumption DEF WindowTypeOK
    <2>6. WindowIsHistory'
      <3> SUFFICES ASSUME NEW r \in Sequences64, r <= highest_sequence,
                          highest_sequence - r < Width
                   PROVE  (highest_sequence - r \in window') <=> accepted'[r] > 0
        BY <2>2 DEF WindowIsHistory
      <3>1. CASE r = s
        BY <3>1, <2>2, <2>4
      <3>2. CASE r # s
        <4>1. highest_sequence - r # highest_sequence - s
          BY <3>2, <2>1, <2>2
        <4> QED
          BY <4>1, <3>2, <2>2, <2>4 DEF WindowInv, WindowIsHistory
      <3> QED
        BY <3>1, <3>2
    <2>7. AcceptedBehind'
      BY <2>1, <2>2, <2>4 DEF WindowInv, AcceptedBehind, Fresh
    <2>8. AcceptedOnce'
      BY <2>4 DEF WindowInv, AcceptedOnce
    <2> QED
      BY <2>5, <2>6, <2>7, <2>8 DEF WindowInv
  <1> QED
    BY <1>0, <1>1, <1>2, <1>3 DEF WindowNext, check_and_update

\* The window's inductive invariant holds for every width and every set of
\* sequence numbers (auth.rs:297-333).
THEOREM WindowInvariant == WindowSpec => []WindowInv
  BY WindowInitInv, WindowStepInv, PTL DEF WindowSpec

\* Replay protection for a window of any width and any set of sequence
\* numbers: a packet is accepted at most once (auth.rs:297-333).
THEOREM NoReplay == WindowSpec => []AcceptedOnce
  <1>1. WindowInv => AcceptedOnce
    BY DEF WindowInv
  <1> QED
    BY <1>1, WindowInvariant, PTL

\* The window is the exact record of what was accepted within its width
\* (auth.rs:318-330).
THEOREM WindowExact == WindowSpec => []WindowIsHistory
  <1>1. WindowInv => WindowIsHistory
    BY DEF WindowInv
  <1> QED
    BY <1>1, WindowInvariant, PTL
================================================================================
