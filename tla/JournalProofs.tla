---------------------------- MODULE JournalProofs ----------------------------
(*****************************************************************************)
(* What a crash leaves, for any number of records, nodes and crashes: the ring*)
(* is a first-in first-out queue, the flusher loses and repeats no LSN, what *)
(* was confirmed is recovered, and the replicated journal keeps its quorum;   *)
(* each transaction is recorded once, is on stable storage when its caller   *)
(* is told so, and mints nothing, so that the accounts are what the journal  *)
(* replays to; and the asynchronous journal loses and repeats no record,     *)
(* however its pushes, flusher and syncs interleave.                         *)
(*****************************************************************************)
EXTENDS WalRingBuffer, MCTransactions, ReplicatedJournal, SqpollJournal,
        DataLemmas, SequenceTheorems, FiniteSetTheorems, TLAPS

\* The cursors are as far apart as the length says.
RingInv ==
    /\ RingTypeOK
    /\ tail = (head + len) % RING_CAP
    /\ \A i \in 1..len : slots[(head + i - 1) % RING_CAP] \in Records
    /\ ScratchIsPrefix

\* The records between the cursors are a sequence of the ring's length.
LEMMA ContentsProperties ==
    ASSUME RingInv
    PROVE  /\ Contents \in Seq(Records) /\ Len(Contents) = len
           /\ len \in Nat
           /\ \A i \in 1..len : Contents[i] = slots[(head + i - 1) % RING_CAP]
  BY DEF RingInv, RingTypeOK, Contents

\* try_push appends to the queue if there is room and leaves it alone if not.
LEMMA PushIsPush ==
    ASSUME RingInv, NEW r \in Records, try_push(r)
    PROVE  RingInv' /\ Contents' = Append(Contents, r)
<1>1. /\ head \in 0..(RING_CAP - 1) /\ len \in 0..(RING_CAP - 1) /\ tail = (head + len) % RING_CAP
      /\ slots \in [0..(RING_CAP - 1) -> Records \union {NoRecord}] /\ RING_CAP \in Nat \ {0}
      /\ head' = head /\ len' = len + 1 /\ tail' = (tail + 1) % RING_CAP /\ scratch' = scratch
      /\ slots' = [slots EXCEPT ![tail] = r]
  BY CapAssumption DEF try_push, RingInv, RingTypeOK, Slot
<1>2. \A k \in 0..RING_CAP : (head + k) % RING_CAP \in 0..(RING_CAP - 1)
  BY <1>1, ModSmall, Zenon
<1>3. tail \in 0..(RING_CAP - 1) /\ tail' \in 0..(RING_CAP - 1)
  BY <1>1, <1>2, ModSmall
<1>4. tail' = (head' + len') % RING_CAP
  BY <1>1, ModStep
<1>5. ASSUME NEW i \in 1..len
      PROVE  slots'[(head' + i - 1) % RING_CAP] = Contents[i] /\ Contents[i] \in Records
  <2>1. i - 1 \in 0..(RING_CAP - 1) /\ i - 1 # len /\ head + (i - 1) = head + i - 1
    BY <1>1
  <2>2. (head + i - 1) % RING_CAP # tail
    BY <2>1, <1>1, ModInjective
  <2>3. (head + i - 1) % RING_CAP \in 0..(RING_CAP - 1)
    <3>1. (head + (i - 1)) % RING_CAP \in 0..(RING_CAP - 1)
      <4>1. i - 1 \in 0..RING_CAP
        BY <2>1, <1>1
      <4> QED BY <4>1, <1>1, ModSmall, Zenon
    <3> QED BY <3>1, <2>1
  <2>4. Contents[i] = slots[(head + i - 1) % RING_CAP]
    BY ContentsProperties
  <2>5. Contents[i] \in Records
    BY <2>4 DEF RingInv
  <2> QED BY <2>2, <2>3, <2>4, <2>5, <1>1
<1>6. slots'[(head' + (len + 1) - 1) % RING_CAP] = r
  <2>1. head + (len + 1) - 1 = head + len
    BY <1>1
  <2> QED BY <2>1, <1>1, <1>3
<1>7. Contents' = [i \in 1..(len + 1) |-> slots'[(head' + i - 1) % RING_CAP]]
  BY <1>1 DEF Contents
<1>8. \A i \in 1..(len + 1) : Contents'[i] = IF i <= len THEN Contents[i] ELSE r
  <2> TAKE i \in 1..(len + 1)
  <2>1. Contents'[i] = slots'[(head' + i - 1) % RING_CAP]
    BY <1>7
  <2>2. CASE i \in 1..len
    BY <2>1, <2>2, <1>5, <1>1, SMTT(30)
  <2>3. CASE i = len + 1
    BY <2>1, <2>3, <1>6, <1>1
  <2> QED BY <2>2, <2>3, <1>1
<1>9. Contents \in Seq(Records) /\ Len(Contents) = len
  BY ContentsProperties
<1>10. Contents' = Append(Contents, r)
  <2>1. /\ Append(Contents, r) \in Seq(Records) /\ Len(Append(Contents, r)) = len + 1
        /\ \A i \in 1..len : Append(Contents, r)[i] = Contents[i]
        /\ Append(Contents, r)[len + 1] = r
    BY <1>9, AppendProperties
  <2>2. \A i \in 1..(len + 1) : Contents'[i] \in Records
    BY <1>1, <1>5, <1>8
  <2>3. Contents' \in Seq(Records) /\ Len(Contents') = len + 1
    BY <1>1, <1>7, <2>2
  <2>4. \A i \in 1..(len + 1) : Contents'[i] = Append(Contents, r)[i]
    BY <2>1, <1>1, <1>8
  <2> QED BY <2>1, <2>3, <2>4, SeqEqual
<1>11. RingTypeOK'
  BY <1>1, <1>3 DEF RingInv, RingTypeOK, Slot
<1>12. \A i \in 1..(len + 1) : slots'[(head' + i - 1) % RING_CAP] \in Records
  <2> TAKE i \in 1..(len + 1)
  <2>1. CASE i \in 1..len
    BY <2>1, <1>5
  <2>2. CASE i = len + 1
    BY <2>2, <1>6
  <2> QED BY <2>1, <2>2, <1>1
<1>13. ScratchIsPrefix'
  <2>1. Len(scratch) \in Nat /\ Len(scratch) <= len
    BY LenProperties DEF RingInv, RingTypeOK, ScratchIsPrefix
  <2>2. \A i \in 1..Len(scratch) : scratch[i] = Contents[i]
    BY DEF RingInv, ScratchIsPrefix
  <2> HIDE <1>10
  <2>3. \A i \in 1..Len(scratch) : Contents'[i] = Contents[i]
    BY <2>1, <1>1, <1>8
  <2> QED BY <2>1, <2>2, <2>3, <1>1 DEF ScratchIsPrefix
<1> QED BY <1>1, <1>4, <1>10, <1>11, <1>12, <1>13 DEF RingInv

\* Moving the head on by k takes k records off the front.
LEMMA AdvanceIsTake ==
    ASSUME RingInv, NEW k \in 1..len, head' = (head + k) % RING_CAP, len' = len - k,
           UNCHANGED <<slots, tail>>, scratch' = <<>>
    PROVE  RingInv' /\ Contents' = SubSeq(Contents, k + 1, len)
<1>1. /\ head \in 0..(RING_CAP - 1) /\ len \in 0..RING_CAP /\ tail = (head + len) % RING_CAP
      /\ RING_CAP \in Nat \ {0} /\ k \in 0..RING_CAP
  BY CapAssumption DEF RingInv, RingTypeOK, Slot
<1>2. head' \in 0..(RING_CAP - 1)
  BY <1>1, ModSmall
<1>3. tail' = (head' + len') % RING_CAP
  <2>1. len - k \in 0..RING_CAP /\ k + (len - k) <= RING_CAP /\ head + (k + (len - k)) = head + len
    BY <1>1
  <2>2. (((head + k) % RING_CAP) + (len - k)) % RING_CAP = (head + (k + (len - k))) % RING_CAP
    BY <1>1, <2>1, ModStep
  <2> QED BY <1>1, <2>1, <2>2
<1>4. ASSUME NEW i \in 1..(len - k)
      PROVE  /\ k + i \in 1..len
             /\ slots'[(head' + i - 1) % RING_CAP] = Contents[k + i]
  <2>1. /\ i - 1 \in 0..RING_CAP /\ k + (i - 1) <= RING_CAP /\ k + i \in 1..len
        /\ head + (k + (i - 1)) = head + (k + i) - 1
        /\ head' + i - 1 = head' + (i - 1)
    BY <1>1, <1>2
  <2>2. (((head + k) % RING_CAP) + (i - 1)) % RING_CAP = (head + (k + (i - 1))) % RING_CAP
    BY <1>1, <2>1, ModStep
  <2>3. Contents[k + i] = slots[(head + (k + i) - 1) % RING_CAP]
    BY <2>1, ContentsProperties
  <2> QED BY <2>1, <2>2, <2>3
<1>5. /\ Contents \in Seq(Records) /\ Len(Contents) = len /\ len \in Nat
      /\ \A i \in 1..len : Contents[i] \in Records
  BY ContentsProperties, ElementOfSeq
<1>6. Contents' = [i \in 1..(len - k) |-> slots'[(head' + i - 1) % RING_CAP]]
  BY DEF Contents
<1>7. \A i \in 1..(len - k) : Contents'[i] = Contents[k + i] /\ Contents'[i] \in Records
  BY <1>4, <1>5, <1>6
<1>8. Contents' = SubSeq(Contents, k + 1, len)
  <2>1. \A i \in (k + 1)..len : Contents[i] \in Records
    BY <1>5
  <2>2. /\ SubSeq(Contents, k + 1, len) \in Seq(Records)
        /\ Len(SubSeq(Contents, k + 1, len)) = IF k + 1 <= len THEN len - (k + 1) + 1 ELSE 0
        /\ \A i \in 1..(len - (k + 1) + 1) : SubSeq(Contents, k + 1, len)[i] = Contents[(k + 1) + i - 1]
    BY <2>1, <1>5, <1>1, SubSeqProperties, SMTT(30)
  <2>3. Contents' \in Seq(Records) /\ Len(Contents') = len - k
    <3> DEFINE m == len - k
    <3>1. m \in Nat
      BY <1>1
    <3>2. Contents' = [i \in 1..m |-> slots'[(head' + i - 1) % RING_CAP]] /\ \A i \in 1..m : Contents'[i] \in Records
      BY <1>6, <1>7
    <3> HIDE DEF m
    <3>3. Contents' \in Seq(Records) /\ Len(Contents') = m
      BY <3>1, <3>2
    <3> QED BY <3>3 DEF m
  <2>4. ASSUME NEW i \in 1..(len - k) PROVE Contents'[i] = SubSeq(Contents, k + 1, len)[i]
    <3>1. i \in 1..(len - (k + 1) + 1) /\ (k + 1) + i - 1 = k + i
      BY <1>1
    <3> QED BY <3>1, <2>2, <1>7
  <2>5. Len(SubSeq(Contents, k + 1, len)) = len - k
    BY <1>1, <2>2
  <2> DEFINE s == SubSeq(Contents, k + 1, len)
             c == Contents'
  <2>6. /\ s \in Seq(Records) /\ c \in Seq(Records) /\ Len(s) = Len(c)
        /\ \A i \in 1..Len(c) : c[i] = s[i]
    BY <2>2, <2>3, <2>4, <2>5
  <2> HIDE DEF s, c
  <2>7. c = s
    BY <2>6, SeqEqual
  <2> QED BY <2>7 DEF s, c
<1>9. RingTypeOK'
  BY <1>1, <1>2 DEF RingInv, RingTypeOK, Slot
<1>10. \A i \in 1..(len - k) : slots'[(head' + i - 1) % RING_CAP] \in Records
  BY <1>4, <1>5
<1>11. ScratchIsPrefix'
  BY <1>1 DEF ScratchIsPrefix
<1> QED BY <1>3, <1>8, <1>9, <1>10, <1>11 DEF RingInv

\* Peeking and giving up a batch leave the queue as it is.
LEMMA PeekKeepsQueue ==
    ASSUME RingInv, peek_batch \/ DropScratch
    PROVE  RingInv' /\ Contents' = Contents
<1>1. UNCHANGED <<slots, head, tail, len>>
  BY DEF peek_batch, DropScratch
<1>2. Contents' = Contents
  BY <1>1 DEF Contents
<1>3. scratch' \in Seq(Records) /\ Len(scratch') <= len /\ \A i \in 1..Len(scratch') : scratch'[i] = Contents[i]
  <2>1. CASE DropScratch
    <3>1. scratch' = <<>> /\ len \in Nat
      BY <2>1 DEF DropScratch, RingInv, RingTypeOK
    <3> QED BY <3>1
  <2>2. CASE peek_batch
    <3> DEFINE n == BatchSize
    <3>1. n \in 1..len
      BY <2>2, BatchAssumption DEF peek_batch, BatchSize, RingInv, RingTypeOK
    <3>2. scratch' = [i \in 1..n |-> slots[(head + i - 1) % RING_CAP]]
      BY <2>2 DEF peek_batch
    <3> HIDE DEF n
    <3>3. \A i \in 1..n : /\ slots[(head + i - 1) % RING_CAP] \in Records
                          /\ Contents[i] = slots[(head + i - 1) % RING_CAP]
      BY <3>1, ContentsProperties DEF RingInv
    <3>4. scratch' \in Seq(Records) /\ Len(scratch') = n
      <4>1. n \in Nat
        BY <3>1, ContentsProperties
      <4>2. scratch' = [i \in 1..n |-> Contents[i]]
        <5>1. \A i \in 1..n : slots[(head + i - 1) % RING_CAP] = Contents[i]
          BY <3>3
        <5> QED BY <3>2, <5>1, Zenon
      <4>3. \A i \in 1..n : Contents[i] \in Records
        BY <3>3, Zenon
      <4> QED BY <4>1, <4>2, <4>3, RowOf
    <3> QED BY <3>1, <3>2, <3>3, <3>4, ContentsProperties
  <2> QED BY <2>1, <2>2
<1> QED BY <1>1, <1>2, <1>3 DEF RingInv, RingTypeOK, ScratchIsPrefix

\* Every step keeps the invariant and is a step of the queue or a stutter.
LEMMA RingStep ==
    ASSUME RingInv, [RingNext]_ringVars
    PROVE  RingInv' /\ [Fifo!Push \/ Fifo!Take]_Contents
<1>1. ASSUME NEW r \in Records, try_push(r)
      PROVE  RingInv' /\ Fifo!Push
  <2>1. RingInv' /\ Contents' = Append(Contents, r)
    BY <1>1, PushIsPush
  <2>2. Len(Contents) < RING_CAP
    BY <1>1, ContentsProperties DEF try_push
  <2> QED BY <2>1, <2>2 DEF Fifo!Push
<1>2. CASE advance_head \/ drain_batch
  <2>1. PICK k \in 1..len : /\ head' = (head + k) % RING_CAP /\ len' = len - k
                            /\ UNCHANGED <<slots, tail>> /\ scratch' = <<>>
    <3>1. CASE advance_head
      <4>1. Len(scratch) \in 1..len
        BY <3>1, LenProperties, EmptySeq DEF advance_head, RingInv, RingTypeOK, ScratchIsPrefix
      <4>2. len \in Nat /\ Len(scratch) \in Nat
        BY <4>1, ContentsProperties
      <4> QED BY <3>1, <4>1, <4>2 DEF advance_head
    <3>2. CASE drain_batch
      <4>1. BatchSize \in 1..len
        BY <3>2, BatchAssumption DEF drain_batch, BatchSize, RingInv, RingTypeOK
      <4> QED BY <3>2, <4>1 DEF drain_batch
    <3> QED BY <1>2, <3>1, <3>2
  <2>2. RingInv' /\ Contents' = SubSeq(Contents, k + 1, len)
    BY <2>1, AdvanceIsTake
  <2>3. Fifo!Take
    BY <2>2, ContentsProperties DEF Fifo!Take
  <2> QED BY <2>2, <2>3
<1>3. CASE peek_batch \/ DropScratch
  BY <1>3, PeekKeepsQueue
<1>4. CASE UNCHANGED ringVars
  BY <1>4 DEF ringVars, RingInv, RingTypeOK, ScratchIsPrefix, Contents
<1> QED BY <1>1, <1>2, <1>3, <1>4 DEF RingNext

\* The ring's cursors and slots implement a bounded first-in first-out queue,
\* however often they wrap around, for any capacity, batch length and records
\* (wal.rs:240-340).
THEOREM RingImplementsFifo == RingSpec => RingIsFifo
<1>1. RingInit => RingInv /\ Fifo!QueueInit
  <2> SUFFICES ASSUME RingInit PROVE RingInv /\ Fifo!QueueInit
    OBVIOUS
  <2>1. RING_CAP \in Nat \ {0} /\ 0 % RING_CAP = 0
    <3>1. (0 + 0) % RING_CAP = 0
      BY CapAssumption, ModSmall
    <3> QED BY <3>1, CapAssumption
  <2>2. RingTypeOK
    BY <2>1 DEF RingInit, RingTypeOK, Slot
  <2>3. Contents = <<>>
    BY DEF RingInit, Contents
  <2>4. ScratchIsPrefix
    BY DEF RingInit, ScratchIsPrefix
  <2> QED BY <2>1, <2>2, <2>3, <2>4 DEF RingInit, RingInv, Fifo!QueueInit
<1>2. RingInv /\ [RingNext]_ringVars => RingInv' /\ [Fifo!Push \/ Fifo!Take]_Contents
  BY RingStep
<1>3. RingInv => RingTypeOK /\ ScratchIsPrefix
  BY DEF RingInv
<1> QED BY <1>1, <1>2, <1>3, PTL DEF RingSpec, RingIsFifo, ImplementsFifo, Fifo!FifoSpec

-------------------------------------------------------------------------------
\* Every frame's predecessor in LSN order is whole and stands before it.
Gapless(f) ==
    \A i \in DOMAIN f :
        f[i].rec.lsn > 1 =>
            \E j \in 1..(i - 1) :
                /\ f[j].intact
                /\ f[j].rec.epoch = f[i].rec.epoch
                /\ f[j].rec.lsn = f[i].rec.lsn - 1

\* A frame of this process is that of a record still waiting, or there is a
\* whole frame of the same record.
FramesExplained ==
    \A i \in DOMAIN file :
        file[i].rec.epoch = epoch =>
            IF file[i].rec.lsn > durable_lsn
            THEN /\ file[i].rec.lsn <= current_lsn
                 /\ file[i].rec = ring[file[i].rec.lsn - durable_lsn]
            ELSE \E j \in DOMAIN file : file[j].intact /\ file[j].rec = file[i].rec

\* What holds between any two steps of the journal's flusher: nothing waits
\* in the ring that was written or is missing before it, this process's frames
\* are explained, and what was confirmed is whole in the synced part of the file.
WalInv ==
    /\ WalTypeOK
    /\ RingHoldsTheRest
    /\ FlushedIsInFile
    /\ Gapless(file)
    /\ phase \in {"syncing", "down"} => ring = <<>>
    /\ \A i \in 1..Len(ring) : ring[i].epoch = epoch
    /\ \A i \in DOMAIN file : file[i].rec.epoch <= epoch
    /\ phase # "down" => FramesExplained
    /\ \A r \in confirmed : \E i \in 1..synced : file[i].intact /\ file[i].rec = r

\* What is written for a batch is a sequence of whole frames, one per record
\* (durable_journal.rs, append_batch).
LEMMA FramesProperties ==
    ASSUME NEW s \in Seq(Record)
    PROVE  /\ frames(s) \in Seq(Frame)
           /\ Len(frames(s)) = Len(s)
           /\ \A i \in 1..Len(s) : frames(s)[i] = whole(s[i])
<1>1. \A i \in 1..Len(s) : s[i] \in Record
  BY ElementOfSeq
<1>2. \A i \in 1..Len(s) : whole(s[i]) \in Frame
  BY <1>1 DEF whole, Frame
<1>3. Len(s) \in Nat
  BY LenProperties
<1> QED BY <1>2, <1>3 DEF frames

\* What the file is after n records of the ring have been written.
LEMMA WrittenProperties ==
    ASSUME WalTypeOK, NEW n \in 0..Len(ring)
    PROVE  LET f == file \o frames(SubSeq(ring, 1, n))
           IN  /\ f \in Seq(Frame)
               /\ Len(f) = Len(file) + n
               /\ \A i \in 1..Len(file) : f[i] = file[i]
               /\ \A i \in (Len(file) + 1)..(Len(file) + n) : f[i] = whole(ring[i - Len(file)])
<1> DEFINE s == SubSeq(ring, 1, n)
<1>1. ring \in Seq(Record) /\ file \in Seq(Frame)
  BY DEF WalTypeOK
<1>2. \A i \in 1..n : ring[i] \in Record
  BY <1>1, ElementOfSeq, LenProperties
<1>3. s \in Seq(Record) /\ Len(s) = n /\ \A i \in 1..n : s[i] = ring[i]
  BY <1>1, <1>2, SubSeqProperties
<1>4. /\ frames(s) \in Seq(Frame)
      /\ Len(frames(s)) = n
      /\ \A i \in 1..n : frames(s)[i] = whole(ring[i])
  BY <1>3, FramesProperties
<1> HIDE DEF s
<1>5. /\ file \o frames(s) \in Seq(Frame)
      /\ Len(file \o frames(s)) = Len(file) + n
      /\ \A i \in 1..(Len(file) + n) : (file \o frames(s))[i] =
             IF i <= Len(file) THEN file[i] ELSE frames(s)[i - Len(file)]
  BY <1>1, <1>4, ConcatProperties
<1>6. Len(file) \in Nat /\ n \in Nat
  BY <1>1, LenProperties
<1>7. \A i \in 1..Len(file) : (file \o frames(s))[i] = file[i]
  BY <1>5, <1>6
<1>8. \A i \in (Len(file) + 1)..(Len(file) + n) :
          (file \o frames(s))[i] = whole(ring[i - Len(file)])
  BY <1>4, <1>5, <1>6
<1> QED BY <1>5, <1>7, <1>8 DEF s

\* Whatever part of the next batch is written, with or without a torn frame
\* at the end, no predecessor is missing.
LEMMA WrittenGapless ==
    ASSUME WalInv, phase # "down", NEW n \in 0..Len(ring)
    PROVE  LET f == file \o frames(SubSeq(ring, 1, n))
           IN  /\ Gapless(f)
               /\ n < Len(ring) => Gapless(Append(f, torn(ring[n + 1])))
<1> DEFINE f == file \o frames(SubSeq(ring, 1, n))
<1>1. /\ f \in Seq(Frame)
      /\ Len(f) = Len(file) + n
      /\ \A i \in 1..Len(file) : f[i] = file[i]
      /\ \A i \in (Len(file) + 1)..(Len(file) + n) : f[i] = whole(ring[i - Len(file)])
  BY WrittenProperties DEF WalInv
<1> HIDE DEF f
<1>2. /\ ring \in Seq(Record) /\ file \in Seq(Frame) /\ Len(file) \in Nat
      /\ Len(ring) \in Nat /\ durable_lsn \in Nat
      /\ DOMAIN file = 1..Len(file) /\ DOMAIN f = 1..Len(f)
  BY <1>1, LenProperties DEF WalInv, WalTypeOK
<1>3. ASSUME NEW k \in 1..Len(ring), k <= n + 1, ring[k].lsn > 1
      PROVE  \E j \in 1..(Len(file) + k - 1) :
                 /\ f[j].intact
                 /\ f[j].rec.epoch = ring[k].epoch
                 /\ f[j].rec.lsn = ring[k].lsn - 1
  <2>1. ring[k].lsn = durable_lsn + k /\ ring[k].epoch = epoch
    BY <1>3 DEF WalInv, RingHoldsTheRest
  <2>2. CASE k = 1
    <3>1. durable_lsn \in 1..durable_lsn
      BY <2>1, <2>2, <1>2, <1>3
    <3>2. PICK i \in DOMAIN file :
             file[i].intact /\ file[i].rec.lsn = durable_lsn /\ file[i].rec.epoch = epoch
      BY <3>1 DEF WalInv, FlushedIsInFile
    <3> QED BY <3>2, <2>1, <2>2, <1>1, <1>2
  <2>3. CASE k > 1
    <3>1. /\ k - 1 \in 1..n /\ k - 1 \in 1..Len(ring)
          /\ Len(file) + (k - 1) \in 1..(Len(file) + k - 1)
      BY <1>2, <1>3, <2>3
    <3>2. f[Len(file) + (k - 1)] = whole(ring[k - 1])
      <4> DEFINE i == Len(file) + (k - 1)
      <4>1. i \in (Len(file) + 1)..(Len(file) + n) /\ i - Len(file) = k - 1
        BY <1>2, <3>1
      <4> HIDE DEF i
      <4>2. f[i] = whole(ring[k - 1])
        BY <1>1, <4>1
      <4> QED BY <4>2 DEF i
    <3>3. ring[k - 1].lsn = durable_lsn + (k - 1) /\ ring[k - 1].epoch = epoch
      BY <3>1 DEF WalInv, RingHoldsTheRest
    <3>4. durable_lsn + (k - 1) = ring[k].lsn - 1
      BY <2>1, <1>2
    <3> QED BY <3>1, <3>2, <3>3, <3>4, <2>1 DEF whole
  <2> QED BY <2>2, <2>3
<1>4. ASSUME NEW i \in 1..Len(file), file[i].rec.lsn > 1
      PROVE  \E j \in 1..(i - 1) :
                /\ f[j].intact
                /\ f[j].rec.epoch = f[i].rec.epoch
                /\ f[j].rec.lsn = f[i].rec.lsn - 1
  <2>1. Gapless(file)
    BY DEF WalInv
  <2>2. PICK j \in 1..(i - 1) :
           /\ file[j].intact
           /\ file[j].rec.epoch = file[i].rec.epoch
           /\ file[j].rec.lsn = file[i].rec.lsn - 1
    BY <2>1, <1>2, <1>4 DEF Gapless
  <2>3. j \in 1..Len(file) /\ i \in 1..Len(file)
    BY <1>2
  <2>4. f[j] = file[j] /\ f[i] = file[i]
    BY <2>3, <1>1
  <2> QED BY <2>2, <2>4
<1>5. Gapless(f)
  <2> SUFFICES ASSUME NEW i \in 1..(Len(file) + n), f[i].rec.lsn > 1
               PROVE  \E j \in 1..(i - 1) :
                        /\ f[j].intact
                        /\ f[j].rec.epoch = f[i].rec.epoch
                        /\ f[j].rec.lsn = f[i].rec.lsn - 1
    BY <1>1, <1>2 DEF Gapless
  <2>1. CASE i <= Len(file)
    <3>1. i \in 1..Len(file)
      BY <2>1, <1>2
    <3>2. f[i] = file[i]
      BY <3>1, <1>1
    <3> QED BY <3>1, <3>2, <1>4
  <2>2. CASE i > Len(file)
    <3>1. i - Len(file) \in 1..Len(ring) /\ i - Len(file) <= n + 1
      BY <2>2, <1>2
    <3>2. f[i].rec = ring[i - Len(file)]
      <4>1. i \in (Len(file) + 1)..(Len(file) + n)
        BY <2>2, <1>2
      <4>2. f[i] = whole(ring[i - Len(file)])
        BY <4>1, <1>1
      <4> QED BY <4>2 DEF whole
    <3>3. Len(file) + (i - Len(file)) - 1 = i - 1
      BY <1>2
    <3> HIDE DEF f
    <3> QED BY <3>1, <3>2, <3>3, <1>3
  <2> QED BY <2>1, <2>2, <1>2
<1>6. ASSUME n < Len(ring)
      PROVE  Gapless(Append(f, torn(ring[n + 1])))
  <2> DEFINE g == Append(f, torn(ring[n + 1]))
  <2>1. ring[n + 1] \in Record
    BY <1>2, <1>6, ElementOfSeq
  <2>2. torn(ring[n + 1]) \in Frame
    BY <2>1 DEF torn, Frame
  <2>3. /\ Len(g) = Len(f) + 1 /\ DOMAIN g = 1..(Len(f) + 1)
        /\ \A i \in 1..Len(f) : g[i] = f[i]
        /\ g[Len(f) + 1].rec = ring[n + 1]
    <3>1. /\ g \in Seq(Frame) /\ Len(g) = Len(f) + 1
          /\ \A i \in 1..Len(f) : g[i] = f[i]
          /\ g[Len(f) + 1] = torn(ring[n + 1])
      <4> DEFINE t == torn(ring[n + 1])
      <4>1. f \in Seq(Frame) /\ t \in Frame
        BY <1>1, <2>2
      <4> HIDE DEF t
      <4>2. /\ Append(f, t) \in Seq(Frame) /\ Len(Append(f, t)) = Len(f) + 1
            /\ \A i \in 1..Len(f) : Append(f, t)[i] = f[i]
            /\ Append(f, t)[Len(f) + 1] = t
        BY <4>1, AppendProperties
      <4> QED BY <4>2 DEF t
    <3> QED BY <3>1, LenProperties DEF torn
  <2> HIDE DEF g
  <2> SUFFICES ASSUME NEW i \in DOMAIN g, g[i].rec.lsn > 1
               PROVE  \E j \in 1..(i - 1) :
                        /\ g[j].intact
                        /\ g[j].rec.epoch = g[i].rec.epoch
                        /\ g[j].rec.lsn = g[i].rec.lsn - 1
    BY DEF Gapless, g
  <2>4. CASE i \in 1..Len(f)
    <3>1. PICK j \in 1..(i - 1) :
             /\ f[j].intact
             /\ f[j].rec.epoch = f[i].rec.epoch
             /\ f[j].rec.lsn = f[i].rec.lsn - 1
      BY <1>2, <1>5, <2>3, <2>4 DEF Gapless
    <3>2. j \in 1..Len(f)
      BY <2>4, <3>1, <1>2, <1>1
    <3> QED BY <3>1, <3>2, <2>3, <2>4
  <2>5. CASE i = Len(f) + 1
    <3>1. n + 1 \in 1..Len(ring) /\ i - 1 = Len(file) + (n + 1) - 1
      BY <1>1, <1>2, <1>6, <2>5
    <3>2. PICK j \in 1..(i - 1) :
             /\ f[j].intact
             /\ f[j].rec.epoch = ring[n + 1].epoch
             /\ f[j].rec.lsn = ring[n + 1].lsn - 1
      BY <3>1, <1>3, <2>3, <2>5, SMTT(30)
    <3>3. j \in 1..Len(f)
      BY <3>2, <2>5, <1>1, <1>2
    <3> QED BY <3>2, <3>3, <2>3, <2>5
  <2> QED BY <2>3, <2>4, <2>5
<1> QED BY <1>5, <1>6 DEF f

\* So it stays when the file is cut, also in the middle of a frame.
LEMMA CutGapless ==
    ASSUME NEW f \in Seq(Frame), Gapless(f), NEW n \in 0..Len(f)
    PROVE  LET g == SubSeq(f, 1, n)
               h == Append(SubSeq(f, 1, n), torn(f[n + 1].rec))
           IN  /\ g \in Seq(Frame) /\ Len(g) = n /\ Gapless(g)
               /\ \A i \in 1..n : g[i] = f[i]
               /\ n < Len(f) => /\ h \in Seq(Frame) /\ Len(h) = n + 1 /\ Gapless(h)
                                /\ \A i \in 1..n : h[i] = f[i]
                                /\ h[n + 1] = torn(f[n + 1].rec)
<1> DEFINE g == SubSeq(f, 1, n)
           h == Append(g, torn(f[n + 1].rec))
<1>1. Len(f) \in Nat /\ \A i \in 1..Len(f) : f[i] \in Frame
  BY ElementOfSeq, LenProperties
<1>2. /\ g \in Seq(Frame) /\ Len(g) = n
      /\ \A i \in 1..n : g[i] = f[i]
  BY <1>1, SubSeqProperties
<1> HIDE DEF g
<1>3. DOMAIN g = 1..n /\ DOMAIN f = 1..Len(f)
  BY <1>2, LenProperties
<1>4. Gapless(g)
  BY <1>1, <1>2, <1>3, SMTT(30) DEF Gapless
<1>5. ASSUME n < Len(f)
      PROVE  /\ h \in Seq(Frame) /\ Len(h) = n + 1 /\ Gapless(h)
             /\ \A i \in 1..n : h[i] = f[i]
             /\ h[n + 1] = torn(f[n + 1].rec)
  <2>1. f[n + 1] \in Frame /\ n + 1 \in 1..Len(f)
    BY <1>1, <1>5
  <2>2. torn(f[n + 1].rec) \in Frame
    BY <2>1 DEF torn, Frame
  <2>3. /\ h \in Seq(Frame) /\ Len(h) = n + 1 /\ DOMAIN h = 1..(n + 1)
        /\ \A i \in 1..n : h[i] = g[i]
        /\ h[n + 1] = torn(f[n + 1].rec)
    BY <1>2, <2>2, AppendProperties, LenProperties
  <2> HIDE DEF h
  <2>4. /\ \A i \in 1..n : h[i] = f[i]
        /\ h[n + 1].rec = f[n + 1].rec
    BY <1>2, <2>3 DEF torn
  <2>5. Gapless(h)
    <3> SUFFICES ASSUME NEW i \in 1..(n + 1), h[i].rec.lsn > 1
                 PROVE  \E j \in 1..(i - 1) :
                          /\ h[j].intact
                          /\ h[j].rec.epoch = h[i].rec.epoch
                          /\ h[j].rec.lsn = h[i].rec.lsn - 1
      BY <2>3 DEF Gapless
    <3>1. h[i].rec = f[i].rec /\ i \in 1..Len(f)
      BY <1>1, <1>5, <2>4
    <3>2. PICK j \in 1..(i - 1) :
             /\ f[j].intact
             /\ f[j].rec.epoch = f[i].rec.epoch
             /\ f[j].rec.lsn = f[i].rec.lsn - 1
      BY <3>1, <1>3 DEF Gapless
    <3>3. j \in 1..n
      BY <3>2
    <3> QED BY <3>1, <3>2, <3>3, <2>4
  <2> QED BY <1>2, <2>3, <2>5
<1> QED BY <1>2, <1>4, <1>5 DEF g, h

\* append gives the record the next LSN behind those that wait (wal.rs, append).
LEMMA AppendKeepsInv ==
    ASSUME WalInv, NEW d \in Payloads, append(d)
    PROVE  WalInv'
<1> DEFINE r == [lsn |-> current_lsn + 1, epoch |-> epoch, data |-> d]
<1> USE DEF append
<1>1. /\ ring \in Seq(Record) /\ Len(ring) \in Nat /\ current_lsn \in Nat /\ epoch \in Nat
      /\ durable_lsn \in Nat /\ phase = "idle" /\ DOMAIN file = 1..Len(file)
  BY LenProperties DEF WalInv, WalTypeOK
<1>2. r \in Record
  BY <1>1 DEF Record
<1> HIDE DEF r
<1>3. /\ ring' \in Seq(Record) /\ Len(ring') = Len(ring) + 1
      /\ \A i \in 1..Len(ring) : ring'[i] = ring[i]
      /\ ring'[Len(ring) + 1] = r
  BY <1>1, <1>2, AppendProperties DEF r
<1>4. r.lsn = current_lsn + 1 /\ r.epoch = epoch
  BY DEF r
<1>5. WalTypeOK'
  BY <1>1, <1>3 DEF WalInv, WalTypeOK
<1>6. current_lsn = durable_lsn + Len(ring) /\ \A i \in 1..Len(ring) : ring[i].lsn = durable_lsn + i
  BY <1>1 DEF WalInv, RingHoldsTheRest
<1>7. RingHoldsTheRest'
  <2>1. ASSUME NEW i \in 1..(Len(ring) + 1) PROVE ring'[i].lsn = durable_lsn + i
    <3>1. CASE i \in 1..Len(ring)
      BY <3>1, <1>3, <1>6
    <3>2. CASE i = Len(ring) + 1
      BY <3>2, <1>1, <1>3, <1>4, <1>6
    <3> QED BY <3>1, <3>2, <1>1
  <2>2. current_lsn' = durable_lsn' + Len(ring') /\ durable_lsn' = durable_lsn
    BY <1>1, <1>3, <1>6
  <2> QED BY <2>1, <2>2, <1>3 DEF RingHoldsTheRest
<1>8. (\A i \in 1..Len(ring) : ring[i].epoch = epoch)'
  BY <1>1, <1>3, <1>4 DEF WalInv
<1>9. FlushedIsInFile' /\ Gapless(file)' /\ (phase \in {"syncing", "down"} => ring = <<>>)'
  BY <1>1 DEF WalInv, FlushedIsInFile
<1>10. FramesExplained'
  <2>0. FramesExplained
    BY <1>1 DEF WalInv
  <2> SUFFICES ASSUME NEW i \in DOMAIN file, file[i].rec.epoch = epoch,
                      file[i].rec.lsn > durable_lsn
               PROVE  /\ file[i].rec.lsn <= current_lsn + 1
                      /\ file[i].rec = ring'[file[i].rec.lsn - durable_lsn]
    BY <2>0 DEF FramesExplained
  <2>1. file[i].rec.lsn <= current_lsn /\ file[i].rec = ring[file[i].rec.lsn - durable_lsn]
    BY <2>0 DEF FramesExplained
  <2>2. file[i] \in Frame
    BY <1>1, ElementOfSeq DEF WalInv, WalTypeOK
  <2> DEFINE l == file[i].rec.lsn
  <2>3. l \in Nat /\ l <= current_lsn /\ l > durable_lsn /\ file[i].rec = ring[l - durable_lsn]
    BY <2>1, <2>2 DEF Frame, Record
  <2> HIDE DEF l
  <2>4. l - durable_lsn \in 1..Len(ring) /\ l <= current_lsn + 1
    BY <1>1, <1>6, <2>3
  <2>5. ring'[l - durable_lsn] = ring[l - durable_lsn]
    BY <1>3, <2>4
  <2> QED BY <2>3, <2>4, <2>5 DEF l
<1> QED BY <1>5, <1>7, <1>8, <1>9, <1>10 DEF WalInv

\* The batch moves from the head of the ring to the end of the file.
LEMMA WriteBatchKeepsInv ==
    ASSUME WalInv, WriteBatch
    PROVE  WalInv'
<1> DEFINE n == BatchLen
<1>1. /\ ring \in Seq(Record) /\ Len(ring) \in Nat \ {0} /\ durable_lsn \in Nat /\ written \in Nat
      /\ file \in Seq(Frame) /\ Len(file) \in Nat /\ phase = "writing"
      /\ DOMAIN file = 1..Len(file) /\ synced \in 0..Len(file)
  BY LenProperties, EmptySeq DEF WalInv, WalTypeOK, WriteBatch
<1>2. n \in 1..Len(ring)
  BY <1>1, WalBatchAssumption DEF BatchLen
<1> HIDE DEF n
<1>3. /\ file' \in Seq(Frame) /\ Len(file') = Len(file) + n
      /\ \A i \in 1..Len(file) : file'[i] = file[i]
      /\ \A i \in (Len(file) + 1)..(Len(file) + n) : file'[i] = whole(ring[i - Len(file)])
      /\ Gapless(file')
  <2>1. file' = file \o frames(SubSeq(ring, 1, n))
    BY DEF WriteBatch, n
  <2>2. n \in 0..Len(ring) /\ WalTypeOK /\ phase # "down"
    BY <1>1, <1>2 DEF WalInv
  <2>3. Gapless(file \o frames(SubSeq(ring, 1, n)))
    BY <2>2, WrittenGapless
  <2> QED BY <2>1, <2>2, <2>3, WrittenProperties
<1>4. DOMAIN file' = 1..(Len(file) + n)
  BY <1>3, LenProperties
<1>5. \A i \in 1..Len(ring) : ring[i] \in Record
  BY <1>1, ElementOfSeq
<1>6. /\ ring' \in Seq(Record) /\ Len(ring') = Len(ring) - n
      /\ \A i \in 1..(Len(ring) - n) : ring'[i] = ring[n + i]
  <2>1. ring' = SubSeq(ring, n + 1, Len(ring))
    BY DEF WriteBatch, n
  <2>2. \A i \in (n + 1)..Len(ring) : ring[i] \in Record
    BY <1>2, <1>5
  <2> QED BY <2>1, <2>2, <1>1, <1>2, SubSeqProperties
<1>7. /\ current_lsn = durable_lsn + Len(ring)
      /\ \A i \in 1..Len(ring) : ring[i].lsn = durable_lsn + i /\ ring[i].epoch = epoch
  BY <1>1 DEF WalInv, RingHoldsTheRest
<1>8. durable_lsn' = durable_lsn + n
  BY <1>1, <1>2, <1>7 DEF WriteBatch, n
<1>9. UNCHANGED <<current_lsn, phase, epoch, synced, confirmed>> /\ written' \in Nat
  BY <1>1, <1>2 DEF WriteBatch, n
<1>10. WalTypeOK'
  BY <1>1, <1>2, <1>3, <1>6, <1>8, <1>9 DEF WalInv, WalTypeOK
<1>11. RingHoldsTheRest' /\ (\A i \in 1..Len(ring) : ring[i].epoch = epoch)'
  <2>1. ASSUME NEW i \in 1..(Len(ring) - n)
        PROVE  ring'[i].lsn = durable_lsn + n + i /\ ring'[i].epoch = epoch
    <3>1. n + i \in 1..Len(ring) /\ durable_lsn + (n + i) = durable_lsn + n + i
      BY <1>1, <1>2
    <3>2. ring[n + i].lsn = durable_lsn + (n + i) /\ ring[n + i].epoch = epoch
      BY <3>1, <1>7
    <3> QED BY <3>1, <3>2, <1>6
  <2>2. current_lsn = durable_lsn + n + (Len(ring) - n)
    BY <1>1, <1>2, <1>7
  <2> QED BY <2>1, <2>2, <1>6, <1>8, <1>9 DEF RingHoldsTheRest
<1>12. ASSUME NEW k \in 1..n
       PROVE  \E j \in DOMAIN file' : file'[j] = whole(ring[k])
  <2>1. Len(file) + k \in (Len(file) + 1)..(Len(file) + n) /\ (Len(file) + k) - Len(file) = k
    BY <1>1, <1>2
  <2>2. file'[Len(file) + k] = whole(ring[k])
    <3> DEFINE j == Len(file) + k
    <3>1. j \in (Len(file) + 1)..(Len(file) + n) /\ j - Len(file) = k
      BY <2>1
    <3> HIDE DEF j
    <3>2. file'[j] = whole(ring[k])
      BY <1>3, <3>1
    <3> QED BY <3>2 DEF j
  <2>3. Len(file) + k \in DOMAIN file'
    BY <1>1, <1>2, <1>4
  <2> QED BY <2>2, <2>3
<1>13. FlushedIsInFile'
  <2> SUFFICES ASSUME NEW m \in 1..(durable_lsn + n)
               PROVE  \E i \in DOMAIN file' :
                        file'[i].intact /\ file'[i].rec.lsn = m /\ file'[i].rec.epoch = epoch
    BY <1>8, <1>9 DEF FlushedIsInFile
  <2>1. CASE m <= durable_lsn
    <3>1. m \in 1..durable_lsn
      BY <2>1, <1>1, <1>2
    <3>2. PICK i \in DOMAIN file :
             file[i].intact /\ file[i].rec.lsn = m /\ file[i].rec.epoch = epoch
      BY <1>1, <3>1 DEF WalInv, FlushedIsInFile
    <3>3. i \in DOMAIN file' /\ file'[i] = file[i]
      BY <1>1, <1>2, <1>3, <1>4
    <3> QED BY <3>2, <3>3
  <2>2. CASE m > durable_lsn
    <3>1. m - durable_lsn \in 1..n /\ m - durable_lsn \in 1..Len(ring)
          /\ durable_lsn + (m - durable_lsn) = m
      BY <2>2, <1>1, <1>2
    <3>2. PICK j \in DOMAIN file' : file'[j] = whole(ring[m - durable_lsn])
      BY <3>1, <1>12
    <3> QED BY <3>1, <3>2, <1>7 DEF whole
  <2> QED BY <2>1, <2>2, <1>1, <1>2
<1>14. ASSUME NEW i \in DOMAIN file'
       PROVE  \/ i \in 1..Len(file) /\ file'[i] = file[i]
              \/ \E k \in 1..n : file'[i] = whole(ring[k])
  <2>1. CASE i <= Len(file)
    BY <2>1, <1>1, <1>3, <1>4
  <2>2. CASE i > Len(file)
    <3>1. i \in (Len(file) + 1)..(Len(file) + n) /\ i - Len(file) \in 1..n
      BY <2>2, <1>1, <1>2, <1>4
    <3> QED BY <3>1, <1>3
  <2> QED BY <2>1, <2>2, <1>1, <1>2, <1>4
<1>15. (\A i \in DOMAIN file : file[i].rec.epoch <= epoch)'
  <2> SUFFICES ASSUME NEW i \in DOMAIN file'
               PROVE  file'[i].rec.epoch <= epoch
    BY <1>9
  <2>1. epoch \in Nat
    BY DEF WalInv, WalTypeOK
  <2>2. CASE i \in 1..Len(file) /\ file'[i] = file[i]
    BY <2>2, <1>1 DEF WalInv
  <2>3. CASE \E k \in 1..n : file'[i] = whole(ring[k])
    BY <2>1, <2>3, <1>1, <1>2, <1>7 DEF whole
  <2> QED BY <2>2, <2>3, <1>14
<1>16. FramesExplained'
  <2> SUFFICES ASSUME NEW i \in DOMAIN file', file'[i].rec.epoch = epoch
               PROVE  IF file'[i].rec.lsn > durable_lsn + n
                      THEN /\ file'[i].rec.lsn <= current_lsn
                           /\ file'[i].rec = ring'[file'[i].rec.lsn - (durable_lsn + n)]
                      ELSE \E j \in DOMAIN file' : file'[j].intact /\ file'[j].rec = file'[i].rec
    BY <1>8, <1>9 DEF FramesExplained
  <2>1. CASE \E k \in 1..n : file'[i] = whole(ring[k])
    <3> PICK k \in 1..n : file'[i] = whole(ring[k])
      BY <2>1
    <3>1. file'[i].intact /\ file'[i].rec = ring[k]
      BY DEF whole
    <3>2. ring[k].lsn = durable_lsn + k
      BY <1>1, <1>2, <1>7
    <3> QED BY <3>1, <3>2, <1>1, <1>2
  <2>2. CASE i \in 1..Len(file) /\ file'[i] = file[i]
    <3>1. /\ file[i].rec.epoch = epoch /\ i \in DOMAIN file
      BY <2>2, <1>1
    <3>2. IF file[i].rec.lsn > durable_lsn
          THEN /\ file[i].rec.lsn <= current_lsn
               /\ file[i].rec = ring[file[i].rec.lsn - durable_lsn]
          ELSE \E j \in DOMAIN file : file[j].intact /\ file[j].rec = file[i].rec
      BY <3>1, <1>1 DEF WalInv, FramesExplained
    <3>3. file[i].rec.lsn \in Nat
      <4>1. file[i] \in Frame
        BY <2>2, <1>1, ElementOfSeq
      <4> QED BY <4>1 DEF Frame, Record
    <3>4. CASE file[i].rec.lsn <= durable_lsn
      <4>1. PICK j \in DOMAIN file : file[j].intact /\ file[j].rec = file[i].rec
        BY <3>2, <3>3, <3>4, <1>1
      <4>2. j \in DOMAIN file' /\ file'[j] = file[j]
        BY <1>1, <1>2, <1>3, <1>4
      <4>3. ~ (file[i].rec.lsn > durable_lsn + n)
        BY <3>3, <3>4, <1>1, <1>2
      <4> QED BY <4>1, <4>2, <4>3, <2>2
    <3>5. CASE file[i].rec.lsn > durable_lsn /\ file[i].rec.lsn <= durable_lsn + n
      <4>1. file[i].rec.lsn - durable_lsn \in 1..n
        BY <3>3, <3>5, <1>1, <1>2
      <4>2. PICK j \in DOMAIN file' : file'[j] = whole(ring[file[i].rec.lsn - durable_lsn])
        BY <4>1, <1>12
      <4>3. file'[j].intact /\ file'[j].rec = file[i].rec
        BY <4>2, <3>2, <3>5 DEF whole
      <4>4. ~ (file[i].rec.lsn > durable_lsn + n)
        BY <3>3, <3>5, <1>1, <1>2
      <4> QED BY <4>3, <4>4, <2>2
    <3>6. CASE file[i].rec.lsn > durable_lsn + n
      <4>1. file[i].rec.lsn > durable_lsn
        BY <3>3, <3>6, <1>1, <1>2
      <4>2. /\ file[i].rec.lsn - (durable_lsn + n) \in 1..(Len(ring) - n)
            /\ n + (file[i].rec.lsn - (durable_lsn + n)) = file[i].rec.lsn - durable_lsn
        <5> DEFINE l == file[i].rec.lsn
        <5>1. l \in Nat /\ l <= current_lsn /\ l > durable_lsn + n
          BY <3>2, <3>3, <3>6, <4>1
        <5> HIDE DEF l
        <5>2. /\ l - (durable_lsn + n) \in 1..(Len(ring) - n)
              /\ n + (l - (durable_lsn + n)) = l - durable_lsn
          BY <5>1, <1>1, <1>2, <1>7
        <5> QED BY <5>2 DEF l
      <4>3. ring'[file[i].rec.lsn - (durable_lsn + n)] = ring[file[i].rec.lsn - durable_lsn]
        BY <4>2, <1>6
      <4> QED BY <3>2, <3>6, <4>1, <4>3, <2>2
    <3> QED BY <3>3, <3>4, <3>5, <3>6, <1>1, <1>2
  <2> QED BY <2>1, <2>2, <1>14
<1>17. (\A r \in confirmed : \E i \in 1..synced : file[i].intact /\ file[i].rec = r)'
  <2>1. \A r \in confirmed : \E i \in 1..synced : file[i].intact /\ file[i].rec = r
    BY DEF WalInv
  <2>2. \A i \in 1..synced : i \in 1..Len(file) /\ file'[i] = file[i]
    BY <1>1, <1>3
  <2> QED BY <2>1, <2>2, <1>9
<1> QED BY <1>1, <1>3, <1>9, <1>10, <1>11, <1>13, <1>15, <1>16, <1>17 DEF WalInv

\* A failed batch leaves whole frames, possibly a torn one, of records that
\* stay in the ring (durable_journal.rs, append_batch).
LEMMA FailedBatch ==
    ASSUME WalInv, WriteBatchFails
    PROVE  /\ file' \in Seq(Frame) /\ Len(file') \in Nat /\ Len(file') >= Len(file) /\ Gapless(file')
           /\ \A i \in 1..Len(file) : file'[i] = file[i]
           /\ \A i \in (Len(file) + 1)..Len(file') : \E k \in 1..Len(ring) : file'[i].rec = ring[k]
<1>0. /\ ring \in Seq(Record) /\ Len(ring) \in Nat \ {0} /\ file \in Seq(Frame) /\ Len(file) \in Nat
      /\ phase = "writing"
  BY LenProperties, EmptySeq DEF WalInv, WalTypeOK, WriteBatchFails
<1>1. CASE UNCHANGED file
  BY <1>1, <1>0 DEF WalInv
<1>2. CASE ~ UNCHANGED file
  <2> PICK n \in 0..(BatchLen - 1) :
         \/ file' = file \o frames(SubSeq(ring, 1, n))
         \/ file' = file \o frames(SubSeq(ring, 1, n)) \o <<torn(ring[n + 1])>>
    BY <1>2 DEF WriteBatchFails
  <2> DEFINE f == file \o frames(SubSeq(ring, 1, n))
             t == torn(ring[n + 1])
  <2>1. n \in 0..Len(ring) /\ n < Len(ring) /\ n + 1 \in 1..Len(ring)
    BY <1>0, WalBatchAssumption DEF BatchLen
  <2>2. /\ f \in Seq(Frame) /\ Len(f) = Len(file) + n
        /\ \A i \in 1..Len(file) : f[i] = file[i]
        /\ \A i \in (Len(file) + 1)..(Len(file) + n) : f[i] = whole(ring[i - Len(file)])
    BY <2>1, WrittenProperties DEF WalInv
  <2>3. Gapless(f) /\ Gapless(Append(f, t))
    BY <2>1, <1>0, WrittenGapless
  <2>4. ring[n + 1] \in Record
    BY <1>0, <2>1, ElementOfSeq
  <2>5. t \in Frame /\ t.rec = ring[n + 1]
    BY <2>4 DEF torn, Frame
  <2>6. file' = f \/ file' = f \o <<t>>
    OBVIOUS
  <2> HIDE DEF f, t
  <2>7. f \o <<t>> = Append(f, t)
    BY <2>2, <2>5
  <2>8. ASSUME NEW i \in (Len(file) + 1)..(Len(file) + n)
        PROVE  \E k \in 1..Len(ring) : f[i].rec = ring[k]
    <3>1. i - Len(file) \in 1..Len(ring) /\ f[i] = whole(ring[i - Len(file)])
      BY <1>0, <2>1, <2>2
    <3> QED BY <3>1 DEF whole
  <2>9. CASE file' = f
    BY <2>9, <2>1, <2>2, <2>3, <2>8, <1>0
  <2>10. CASE file' = Append(f, t)
    <3>1. /\ Append(f, t) \in Seq(Frame) /\ Len(Append(f, t)) = Len(f) + 1
          /\ \A i \in 1..Len(f) : Append(f, t)[i] = f[i]
          /\ Append(f, t)[Len(f) + 1] = t
      BY <2>2, <2>5, AppendProperties
    <3>2. /\ file' \in Seq(Frame) /\ Len(file') = Len(f) + 1
          /\ \A i \in 1..Len(f) : file'[i] = f[i]
          /\ file'[Len(f) + 1] = t
      BY <2>10, <3>1
    <3>3. Gapless(file')
      BY <2>3, <2>10
    <3>4. ASSUME NEW i \in (Len(file) + 1)..Len(file')
          PROVE  \E k \in 1..Len(ring) : file'[i].rec = ring[k]
      <4>1. CASE i \in (Len(file) + 1)..(Len(file) + n)
        <5>1. file'[i] = f[i]
          BY <4>1, <3>2, <2>2, <1>0
        <5> QED BY <5>1, <4>1, <2>8
      <4>2. CASE i = Len(f) + 1
        BY <4>2, <3>2, <2>5, <2>1
      <4> QED BY <4>1, <4>2, <3>2, <2>2, <2>1, <1>0
    <3>5. \A i \in 1..Len(file) : file'[i] = file[i]
      BY <3>2, <2>1, <2>2, <1>0
    <3> QED BY <3>2, <3>3, <3>4, <3>5, <2>1, <2>2, <1>0
  <2> QED BY <2>6, <2>7, <2>9, <2>10
<1> QED BY <1>1, <1>2

\* Nothing is lost by a failed batch: what it wrote stays in the ring.
LEMMA WriteBatchFailsKeepsInv ==
    ASSUME WalInv, WriteBatchFails
    PROVE  WalInv'
<1>1. /\ ring \in Seq(Record) /\ Len(ring) \in Nat \ {0} /\ durable_lsn \in Nat
      /\ file \in Seq(Frame) /\ Len(file) \in Nat /\ phase = "writing" /\ epoch \in Nat
      /\ DOMAIN file = 1..Len(file) /\ synced \in 0..Len(file)
  BY LenProperties, EmptySeq DEF WalInv, WalTypeOK, WriteBatchFails
<1>2. /\ UNCHANGED <<current_lsn, durable_lsn, ring, written, epoch, synced, confirmed>>
      /\ phase' = "idle"
  BY DEF WriteBatchFails
<1>3. /\ current_lsn = durable_lsn + Len(ring)
      /\ \A i \in 1..Len(ring) : ring[i].lsn = durable_lsn + i /\ ring[i].epoch = epoch
  BY <1>1 DEF WalInv, RingHoldsTheRest
<1>4. /\ file' \in Seq(Frame) /\ Len(file') \in Nat /\ Len(file') >= Len(file) /\ Gapless(file')
      /\ \A i \in 1..Len(file) : file'[i] = file[i]
      /\ \A i \in (Len(file) + 1)..Len(file') : \E k \in 1..Len(ring) : file'[i].rec = ring[k]
  BY FailedBatch
<1>5. DOMAIN file' = 1..Len(file')
  BY <1>4, LenProperties
<1>6. \A i \in DOMAIN file : i \in DOMAIN file' /\ file'[i] = file[i]
  BY <1>1, <1>4, <1>5
<1>7. \A i \in DOMAIN file' : \/ i \in DOMAIN file /\ file'[i] = file[i]
                              \/ \E k \in 1..Len(ring) : file'[i].rec = ring[k]
  BY <1>1, <1>4, <1>5
<1>8. WalTypeOK'
  BY <1>1, <1>2, <1>4 DEF WalInv, WalTypeOK
<1>9. RingHoldsTheRest'
  BY <1>2, <1>3 DEF RingHoldsTheRest
<1>10. FlushedIsInFile'
  <2> SUFFICES ASSUME NEW m \in 1..durable_lsn
               PROVE  \E i \in DOMAIN file' :
                        file'[i].intact /\ file'[i].rec.lsn = m /\ file'[i].rec.epoch = epoch
    BY <1>2 DEF FlushedIsInFile
  <2>1. PICK i \in DOMAIN file :
           file[i].intact /\ file[i].rec.lsn = m /\ file[i].rec.epoch = epoch
    BY <1>1 DEF WalInv, FlushedIsInFile
  <2> QED BY <2>1, <1>6
<1>11. (\A i \in DOMAIN file : file[i].rec.epoch <= epoch)'
  <2> SUFFICES ASSUME NEW i \in DOMAIN file' PROVE file'[i].rec.epoch <= epoch
    BY <1>2
  <2>1. CASE i \in DOMAIN file /\ file'[i] = file[i]
    BY <2>1 DEF WalInv
  <2>2. CASE \E k \in 1..Len(ring) : file'[i].rec = ring[k]
    BY <2>2, <1>1, <1>3
  <2> QED BY <2>1, <2>2, <1>7
<1>12. FramesExplained'
  <2>0. FramesExplained
    BY <1>1 DEF WalInv
  <2> SUFFICES ASSUME NEW i \in DOMAIN file', file'[i].rec.epoch = epoch
               PROVE  IF file'[i].rec.lsn > durable_lsn
                      THEN /\ file'[i].rec.lsn <= current_lsn
                           /\ file'[i].rec = ring[file'[i].rec.lsn - durable_lsn]
                      ELSE \E j \in DOMAIN file' : file'[j].intact /\ file'[j].rec = file'[i].rec
    BY <1>2 DEF FramesExplained
  <2>1. CASE i \in DOMAIN file /\ file'[i] = file[i]
    <3>1. IF file[i].rec.lsn > durable_lsn
          THEN /\ file[i].rec.lsn <= current_lsn
               /\ file[i].rec = ring[file[i].rec.lsn - durable_lsn]
          ELSE \E j \in DOMAIN file : file[j].intact /\ file[j].rec = file[i].rec
      BY <2>0, <2>1 DEF FramesExplained
    <3> QED BY <2>1, <3>1, <1>6
  <2>2. CASE \E k \in 1..Len(ring) : file'[i].rec = ring[k]
    <3> PICK k \in 1..Len(ring) : file'[i].rec = ring[k]
      BY <2>2
    <3>1. ring[k].lsn = durable_lsn + k
      BY <1>3
    <3>2. /\ durable_lsn + k > durable_lsn /\ durable_lsn + k <= current_lsn
          /\ (durable_lsn + k) - durable_lsn = k
      BY <1>1, <1>3
    <3> QED BY <3>1, <3>2
  <2> QED BY <2>1, <2>2, <1>7
<1>13. (\A r \in confirmed : \E i \in 1..synced : file[i].intact /\ file[i].rec = r)'
  <2>1. \A r \in confirmed : \E i \in 1..synced : file[i].intact /\ file[i].rec = r
    BY DEF WalInv
  <2>2. \A i \in 1..synced : file'[i] = file[i]
    BY <1>1, <1>4
  <2> QED BY <2>1, <2>2, <1>2
<1> QED
  BY <1>2, <1>3, <1>4, <1>8, <1>9, <1>10, <1>11, <1>12, <1>13 DEF WalInv

\* Everything this process wrote is flushed when flush_pending is about to
\* answer, so what it confirms has whole frames, and the sync covers them.
LEMMA SyncOkKeepsInv ==
    ASSUME WalInv, SyncOk
    PROVE  WalInv'
<1>1. /\ file \in Seq(Frame) /\ Len(file) \in Nat /\ phase = "syncing"
      /\ DOMAIN file = 1..Len(file) /\ synced \in 0..Len(file) /\ ring = <<>>
      /\ durable_lsn \in Nat /\ FramesExplained
  BY LenProperties DEF WalInv, WalTypeOK, SyncOk
<1>2. /\ UNCHANGED <<current_lsn, durable_lsn, ring, written, epoch, file>>
      /\ phase' = "idle" /\ synced' = Len(file)
      /\ confirmed' = confirmed \union
             {file[i].rec : i \in {j \in DOMAIN file : file[j].rec.epoch = epoch}}
  BY DEF SyncOk
<1>3. current_lsn = durable_lsn
  BY <1>1 DEF WalInv, RingHoldsTheRest
<1>4. ASSUME NEW i \in DOMAIN file, file[i].rec.epoch = epoch
      PROVE  \E j \in 1..Len(file) : file[j].intact /\ file[j].rec = file[i].rec
  <2>1. file[i] \in Frame
    BY <1>1, ElementOfSeq
  <2>2. file[i].rec.lsn \in Nat
    BY <2>1 DEF Frame, Record
  <2>3. CASE file[i].rec.lsn > durable_lsn
    <3>1. file[i].rec.lsn <= current_lsn
      BY <1>1, <1>4, <2>3 DEF FramesExplained
    <3> QED BY <3>1, <2>2, <2>3, <1>1, <1>3
  <2>4. CASE ~ (file[i].rec.lsn > durable_lsn)
    BY <1>1, <1>4, <2>4 DEF FramesExplained
  <2> QED BY <2>3, <2>4
<1>5. (\A r \in confirmed : \E i \in 1..synced : file[i].intact /\ file[i].rec = r)'
  <2> SUFFICES ASSUME NEW r \in confirmed'
               PROVE  \E i \in 1..Len(file) : file[i].intact /\ file[i].rec = r
    BY <1>2
  <2>1. CASE r \in confirmed
    <3>1. PICK i \in 1..synced : file[i].intact /\ file[i].rec = r
      BY <2>1 DEF WalInv
    <3> QED BY <3>1, <1>1
  <2>2. CASE r \notin confirmed
    <3>1. PICK i \in DOMAIN file : file[i].rec.epoch = epoch /\ r = file[i].rec
      BY <2>2, <1>2
    <3> QED BY <3>1, <1>4
  <2> QED BY <2>1, <2>2
<1>6. WalTypeOK'
  <2>1. \A i \in DOMAIN file : file[i].rec \in Record
    <3> TAKE i \in DOMAIN file
    <3>1. file[i] \in Frame
      BY <1>1, ElementOfSeq
    <3> QED BY <3>1 DEF Frame
  <2> QED BY <2>1, <1>1, <1>2 DEF WalInv, WalTypeOK
<1>7. RingHoldsTheRest' /\ FlushedIsInFile' /\ FramesExplained'
  BY <1>1, <1>2 DEF WalInv, RingHoldsTheRest, FlushedIsInFile, FramesExplained
<1> QED BY <1>1, <1>2, <1>5, <1>6, <1>7 DEF WalInv

\* A crash cuts the file, never below what is synced.
LEMMA CrashKeepsInv ==
    ASSUME WalInv, Crash
    PROVE  WalInv'
<1>1. /\ file \in Seq(Frame) /\ Len(file) \in Nat /\ phase # "down"
      /\ ring \in Seq(Record) /\ Len(ring) \in Nat
      /\ DOMAIN file = 1..Len(file) /\ synced \in 0..Len(file) /\ epoch \in Nat
      /\ synced' = Len(file') /\ phase' = "down" /\ ring' = <<>>
      /\ UNCHANGED <<current_lsn, durable_lsn, written, epoch, confirmed>>
  BY LenProperties DEF WalInv, WalTypeOK, Crash
<1> DEFINE f == InFlight
<1>2. /\ f \in Seq(Frame) /\ Len(f) \in Nat /\ Len(f) >= Len(file) /\ Gapless(f)
      /\ \A i \in 1..Len(file) : f[i] = file[i]
      /\ \A i \in 1..Len(f) : f[i].rec.epoch <= epoch
  <2>1. CASE phase # "writing"
    BY <2>1, <1>1 DEF InFlight, WalInv
  <2>2. CASE phase = "writing"
    <3>1. BatchLen \in 0..Len(ring)
      BY <1>1, WalBatchAssumption DEF BatchLen
    <3>2. f = file \o frames(SubSeq(ring, 1, BatchLen))
      BY <2>2 DEF InFlight
    <3>3. Gapless(f)
      BY <1>1, <3>1, <3>2, WrittenGapless
    <3>4. /\ f \in Seq(Frame) /\ Len(f) = Len(file) + BatchLen
          /\ \A i \in 1..Len(file) : f[i] = file[i]
          /\ \A i \in (Len(file) + 1)..(Len(file) + BatchLen) : f[i] = whole(ring[i - Len(file)])
      BY <3>1, <3>2, WrittenProperties DEF WalInv
    <3> HIDE DEF f
    <3>5. ASSUME NEW i \in 1..Len(f) PROVE f[i].rec.epoch <= epoch
      <4>1. CASE i <= Len(file)
        <5>1. i \in 1..Len(file)
          BY <4>1, <1>1, <3>1, <3>4
        <5>2. file[i].rec.epoch <= epoch
          BY <5>1, <1>1 DEF WalInv
        <5> QED BY <5>1, <5>2, <3>4
      <4>2. CASE i > Len(file)
        <5>1. i \in (Len(file) + 1)..(Len(file) + BatchLen) /\ i - Len(file) \in 1..Len(ring)
          BY <4>2, <1>1, <3>1, <3>4
        <5>2. f[i].rec = ring[i - Len(file)]
          <6>1. f[i] = whole(ring[i - Len(file)])
            BY <5>1, <3>4
          <6> QED BY <6>1 DEF whole
        <5>3. ring[i - Len(file)].epoch = epoch
          BY <5>1 DEF WalInv
        <5> QED BY <5>2, <5>3, <1>1
      <4> QED BY <4>1, <4>2, <1>1, <3>1, <3>4
    <3> QED BY <3>1, <3>3, <3>4, <3>5, <1>1
  <2> QED BY <2>1, <2>2
<1>3. PICK n \in synced..Len(f) :
         \/ file' = SubSeq(f, 1, n)
         \/ n < Len(f) /\ file' = Append(SubSeq(f, 1, n), torn(f[n + 1].rec))
  BY DEF Crash
<1> HIDE DEF f
<1>4. n \in 0..Len(f)
  BY <1>1, <1>2
<1>5. /\ file' \in Seq(Frame) /\ Len(file') >= n /\ Len(file') \in Nat /\ Gapless(file')
      /\ \A i \in 1..n : file'[i] = f[i]
      /\ \A i \in 1..Len(file') : i \in 1..Len(f) /\ file'[i].rec = f[i].rec
  <2>1. /\ SubSeq(f, 1, n) \in Seq(Frame) /\ Len(SubSeq(f, 1, n)) = n /\ Gapless(SubSeq(f, 1, n))
        /\ \A i \in 1..n : SubSeq(f, 1, n)[i] = f[i]
    BY <1>2, <1>4, CutGapless
  <2>2. CASE file' = SubSeq(f, 1, n)
    BY <2>1, <2>2, <1>4
  <2>3. CASE n < Len(f) /\ file' = Append(SubSeq(f, 1, n), torn(f[n + 1].rec))
    <3>1. /\ file' \in Seq(Frame) /\ Len(file') = n + 1 /\ Gapless(file')
          /\ \A i \in 1..n : file'[i] = f[i]
          /\ file'[n + 1] = torn(f[n + 1].rec)
      BY <1>2, <1>4, <2>3, CutGapless
    <3>2. ASSUME NEW i \in 1..(n + 1) PROVE file'[i].rec = f[i].rec
      <4>1. CASE i \in 1..n
        BY <4>1, <3>1
      <4>2. CASE i = n + 1
        BY <4>2, <3>1 DEF torn
      <4> QED BY <4>1, <4>2, <1>4
    <3> QED BY <3>1, <3>2, <2>3, <1>2, <1>4
  <2> QED BY <1>3, <2>2, <2>3
<1>6. DOMAIN file' = 1..Len(file')
  BY <1>5, LenProperties
<1>7. WalTypeOK'
  BY <1>1, <1>5 DEF WalInv, WalTypeOK
<1>8. RingHoldsTheRest' /\ FlushedIsInFile'
  BY <1>1 DEF RingHoldsTheRest, FlushedIsInFile
<1>9. (\A i \in DOMAIN file : file[i].rec.epoch <= epoch)'
  BY <1>1, <1>2, <1>5, <1>6
<1>10. (\A r \in confirmed : \E i \in 1..synced : file[i].intact /\ file[i].rec = r)'
  <2> SUFFICES ASSUME NEW r \in confirmed
               PROVE  \E i \in 1..Len(file') : file'[i].intact /\ file'[i].rec = r
    BY <1>1
  <2>1. PICK i \in 1..synced : file[i].intact /\ file[i].rec = r
    BY DEF WalInv
  <2>2. i \in 1..n /\ i \in 1..Len(file) /\ i \in 1..Len(file')
    BY <1>1, <1>2, <1>3, <1>5
  <2>3. file'[i] = file[i]
    BY <2>2, <1>2, <1>5
  <2> QED BY <2>1, <2>2, <2>3
<1>11. (\A i \in 1..Len(ring) : ring[i].epoch = epoch)'
  BY <1>1
<1> QED BY <1>1, <1>5, <1>7, <1>8, <1>9, <1>10, <1>11 DEF WalInv

\* A new process starts above every epoch in the file.
LEMMA RestartKeepsInv ==
    ASSUME WalInv, Restart
    PROVE  WalInv'
<1>1. /\ epoch \in Nat /\ epoch' = epoch + 1 /\ ring = <<>> /\ phase' = "idle"
      /\ current_lsn' = 0 /\ durable_lsn' = 0 /\ written' = 0
      /\ UNCHANGED <<ring, file, synced, confirmed>>
      /\ file \in Seq(Frame)
  BY DEF WalInv, WalTypeOK, Restart
<1>2. ASSUME NEW i \in DOMAIN file PROVE file[i].rec.epoch \in Nat /\ file[i].rec.epoch <= epoch
  <2>1. file[i] \in Frame
    BY <1>1, ElementOfSeq, LenProperties
  <2> QED BY <2>1 DEF Frame, Record, WalInv
<1>3. WalTypeOK'
  BY <1>1 DEF WalInv, WalTypeOK
<1>4. RingHoldsTheRest' /\ FlushedIsInFile'
  BY <1>1 DEF RingHoldsTheRest, FlushedIsInFile
<1>5. (\A i \in DOMAIN file : file[i].rec.epoch <= epoch)'
  BY <1>1, <1>2
<1>6. FramesExplained'
  BY <1>1, <1>2 DEF FramesExplained
<1>7. Gapless(file)' /\ (\A r \in confirmed : \E i \in 1..synced : file[i].intact /\ file[i].rec = r)'
  BY <1>1 DEF WalInv, Gapless
<1>8. (\A i \in 1..Len(ring) : ring[i].epoch = epoch)'
  BY <1>1
<1> QED BY <1>1, <1>3, <1>4, <1>5, <1>6, <1>7, <1>8 DEF WalInv

\* A new journal over an empty file satisfies the invariant.
LEMMA WalInitInv == WalInit => WalInv
BY DEF WalInit, WalInv, WalTypeOK, RingHoldsTheRest, FlushedIsInFile, Gapless, FramesExplained

\* Every step of the journal keeps the invariant (wal.rs:388-496).
LEMMA WalKeepsInv == ASSUME WalInv, [WalNext]_walVars PROVE WalInv'
<1>1. CASE \E d \in Payloads : append(d)
  BY <1>1, AppendKeepsInv
<1>2. CASE BeginFlush \/ EndWrites \/ SyncFails \/ UNCHANGED walVars
  <2>1. /\ UNCHANGED <<current_lsn, durable_lsn, ring, epoch, file, synced, confirmed>>
        /\ phase' # "down" \/ UNCHANGED phase
        /\ phase' = "syncing" => ring = <<>>
        /\ phase' \in {"idle", "writing", "syncing", "down"}
        /\ written' \in Nat
    BY <1>2 DEF BeginFlush, EndWrites, SyncFails, walVars, WalInv, WalTypeOK
  <2>2. WalTypeOK'
    BY <2>1 DEF WalInv, WalTypeOK
  <2>3. phase' # "down" => phase # "down"
    BY <1>2 DEF BeginFlush, EndWrites, SyncFails, walVars
  <2>4. phase' = "down" => phase = "down"
    BY <2>1
  <2>5. RingHoldsTheRest' /\ FlushedIsInFile' /\ Gapless(file)'
        /\ (phase # "down" => FramesExplained)'
    BY <2>1, <2>3 DEF WalInv, RingHoldsTheRest, FlushedIsInFile, Gapless, FramesExplained
  <2> QED BY <2>1, <2>2, <2>4, <2>5 DEF WalInv
<1>3. CASE WriteBatch
  BY <1>3, WriteBatchKeepsInv
<1>4. CASE WriteBatchFails
  BY <1>4, WriteBatchFailsKeepsInv
<1>5. CASE SyncOk
  BY <1>5, SyncOkKeepsInv
<1>6. CASE Crash
  BY <1>6, CrashKeepsInv
<1>7. CASE Restart
  BY <1>7, RestartKeepsInv
<1> QED BY <1>1, <1>2, <1>3, <1>4, <1>5, <1>6, <1>7 DEF WalNext, WalStep

\* The invariant holds whatever fails, tears, crashes and restarts, for any ring,
\* any batch length and any records (wal.rs:388-496, durable_journal.rs).
THEOREM WalInvariant == WalSpec => []WalInv
<1>1. WalInv /\ [WalNext]_walVars => WalInv'
  BY WalKeepsInv
<1> QED BY <1>1, WalInitInv, PTL DEF WalSpec

\* What stands behind a torn frame in the file, and was appended before the
\* record of that frame, has a whole copy in front of it too; and so has what
\* of the ring was.
TornOrder(f) ==
    \A i, j \in DOMAIN f :
        ~ f[i].intact /\ i < j /\ Precedes(f[j].rec, f[i].rec) =>
            \E h \in 1..(i - 1) : f[h].intact /\ f[h].rec = f[j].rec
TornBehind(f, s) ==
    \A i \in DOMAIN f : \A k \in 1..Len(s) :
        ~ f[i].intact /\ Precedes(s[k], f[i].rec) =>
            \E h \in 1..(i - 1) : f[h].intact /\ f[h].rec = s[k]
TornInv == TornOrder(file) /\ TornBehind(file, ring)

\* A batch of which n records were written keeps it so.
LEMMA BatchTorn ==
    ASSUME WalInv, TornInv, NEW n \in 0..Len(ring)
    PROVE  LET f == file \o frames(SubSeq(ring, 1, n)) IN TornOrder(f) /\ TornBehind(f, ring)
<1> DEFINE f == file \o frames(SubSeq(ring, 1, n))
<1>1. /\ f \in Seq(Frame)
      /\ Len(f) = Len(file) + n
      /\ \A i \in 1..Len(file) : f[i] = file[i]
      /\ \A i \in (Len(file) + 1)..(Len(file) + n) : f[i] = whole(ring[i - Len(file)])
  BY WrittenProperties DEF WalInv
<1> HIDE DEF f
<1>2. /\ Len(file) \in Nat /\ Len(ring) \in Nat
      /\ DOMAIN file = 1..Len(file) /\ DOMAIN f = 1..(Len(file) + n)
  BY <1>1, LenProperties DEF WalInv, WalTypeOK
<1>3. ASSUME NEW i \in DOMAIN f, ~ f[i].intact
      PROVE  i \in DOMAIN file /\ f[i] = file[i]
  <2>1. CASE i <= Len(file)
    BY <2>1, <1>1, <1>2
  <2>2. CASE i > Len(file)
    <3>1. i \in (Len(file) + 1)..(Len(file) + n)
      BY <2>2, <1>2
    <3>2. f[i] = whole(ring[i - Len(file)])
      BY <3>1, <1>1
    <3>3. f[i].intact
      BY <3>2 DEF whole
    <3> QED BY <3>3, <1>3
  <2> QED BY <2>1, <2>2, <1>2
<1>4. ASSUME NEW i \in DOMAIN file, NEW r, \E h \in 1..(i - 1) : file[h].intact /\ file[h].rec = r
      PROVE  \E h \in 1..(i - 1) : f[h].intact /\ f[h].rec = r
  <2>1. PICK h \in 1..(i - 1) : file[h].intact /\ file[h].rec = r
    BY <1>4
  <2>2. h \in 1..Len(file)
    BY <1>2
  <2> QED BY <2>1, <2>2, <1>1
<1>5. TornBehind(f, ring)
  <2> SUFFICES ASSUME NEW i \in DOMAIN f, NEW k \in 1..Len(ring), ~ f[i].intact, Precedes(ring[k], f[i].rec)
               PROVE  \E h \in 1..(i - 1) : f[h].intact /\ f[h].rec = ring[k]
    BY DEF TornBehind
  <2>1. i \in DOMAIN file /\ f[i] = file[i]
    BY <1>3
  <2>2. \E h \in 1..(i - 1) : file[h].intact /\ file[h].rec = ring[k]
    BY <2>1 DEF TornInv, TornBehind
  <2> QED BY <2>1, <2>2, <1>4
<1>6. TornOrder(f)
  <2> SUFFICES ASSUME NEW i \in DOMAIN f, NEW j \in DOMAIN f, ~ f[i].intact, i < j, Precedes(f[j].rec, f[i].rec)
               PROVE  \E h \in 1..(i - 1) : f[h].intact /\ f[h].rec = f[j].rec
    BY DEF TornOrder
  <2>1. i \in DOMAIN file /\ f[i] = file[i]
    BY <1>3
  <2>2. CASE j <= Len(file)
    <3>1. j \in DOMAIN file /\ f[j] = file[j]
      BY <2>2, <1>1, <1>2
    <3>2. \E h \in 1..(i - 1) : file[h].intact /\ file[h].rec = file[j].rec
      BY <2>1, <3>1 DEF TornInv, TornOrder
    <3> QED BY <2>1, <3>1, <3>2, <1>4
  <2>3. CASE j > Len(file)
    <3>1. j \in (Len(file) + 1)..(Len(file) + n) /\ j - Len(file) \in 1..Len(ring)
      BY <2>3, <1>2
    <3>2. f[j].rec = ring[j - Len(file)]
      <4>1. f[j] = whole(ring[j - Len(file)])
        BY <3>1, <1>1
      <4> QED BY <4>1 DEF whole
    <3> QED BY <3>1, <3>2, <1>5 DEF TornBehind
  <2> QED BY <2>2, <2>3, <1>2
<1> QED BY <1>5, <1>6 DEF f

\* So does one that ends in the middle of a frame: the records of the ring
\* before it are whole in front of it.
LEMMA BatchTornOff ==
    ASSUME WalInv, TornInv, phase # "down", NEW n \in 0..(Len(ring) - 1)
    PROVE  LET g == Append(file \o frames(SubSeq(ring, 1, n)), torn(ring[n + 1]))
           IN  TornOrder(g) /\ TornBehind(g, ring)
<1> DEFINE f == file \o frames(SubSeq(ring, 1, n))
           t == torn(ring[n + 1])
           g == Append(f, t)
<1>0. ring \in Seq(Record) /\ Len(ring) \in Nat /\ Len(file) \in Nat /\ durable_lsn \in Nat
  BY LenProperties DEF WalInv, WalTypeOK
<1>1. /\ n \in 0..Len(ring) /\ n + 1 \in 1..Len(ring)
  BY <1>0
<1>2. /\ f \in Seq(Frame) /\ Len(f) = Len(file) + n
      /\ \A i \in (Len(file) + 1)..(Len(file) + n) : f[i] = whole(ring[i - Len(file)])
      /\ TornOrder(f) /\ TornBehind(f, ring)
  BY <1>1, WrittenProperties, BatchTorn DEF WalInv
<1>3. t \in Frame /\ t.rec = ring[n + 1] /\ ~ t.intact
  <2>1. ring[n + 1] \in Record
    BY <1>0, <1>1, ElementOfSeq
  <2> QED BY <2>1 DEF torn, Frame
<1> HIDE DEF f, t
<1>4. /\ Len(g) = Len(f) + 1 /\ DOMAIN g = 1..(Len(f) + 1) /\ DOMAIN f = 1..Len(f) /\ Len(f) \in Nat
      /\ \A i \in 1..Len(f) : g[i] = f[i]
      /\ g[Len(f) + 1] = t
  BY <1>2, <1>3, AppendProperties, LenProperties
<1> HIDE DEF g
<1>5. ASSUME NEW k \in 1..Len(ring), Precedes(ring[k], ring[n + 1])
      PROVE  \E h \in 1..Len(f) : g[h].intact /\ g[h].rec = ring[k]
  <2>1. /\ ring[k].lsn = durable_lsn + k /\ ring[n + 1].lsn = durable_lsn + (n + 1)
        /\ ring[k].epoch = epoch /\ ring[n + 1].epoch = epoch /\ epoch \in Nat
    BY <1>1 DEF WalInv, WalTypeOK, RingHoldsTheRest
  <2>2. k \in 1..n
    BY <2>1, <1>5, <1>0 DEF Precedes
  <2>3. Len(file) + k \in (Len(file) + 1)..(Len(file) + n) /\ (Len(file) + k) - Len(file) = k
        /\ Len(file) + k \in 1..Len(f)
    BY <2>2, <1>0, <1>2
  <2>4. f[Len(file) + k] = whole(ring[k])
    <3> DEFINE h == Len(file) + k
    <3>1. h \in (Len(file) + 1)..(Len(file) + n) /\ h - Len(file) = k
      BY <2>3
    <3> HIDE DEF h
    <3>2. f[h] = whole(ring[k])
      BY <3>1, <1>2
    <3> QED BY <3>2 DEF h
  <2>5. g[Len(file) + k] = whole(ring[k])
    BY <2>3, <2>4, <1>4
  <2>6. g[Len(file) + k].intact /\ g[Len(file) + k].rec = ring[k]
    BY <2>5 DEF whole
  <2> QED BY <2>3, <2>6
<1>6. ASSUME NEW i \in 1..Len(f), NEW r, \E h \in 1..(i - 1) : f[h].intact /\ f[h].rec = r
      PROVE  \E h \in 1..(i - 1) : g[h].intact /\ g[h].rec = r
  <2>1. PICK h \in 1..(i - 1) : f[h].intact /\ f[h].rec = r
    BY <1>6
  <2>2. h \in 1..Len(f)
    BY <1>4
  <2> QED BY <2>1, <2>2, <1>4
<1>7. TornBehind(g, ring)
  <2> SUFFICES ASSUME NEW i \in DOMAIN g, NEW k \in 1..Len(ring), ~ g[i].intact, Precedes(ring[k], g[i].rec)
               PROVE  \E h \in 1..(i - 1) : g[h].intact /\ g[h].rec = ring[k]
    BY DEF TornBehind
  <2>1. CASE i \in 1..Len(f)
    <3>1. \E h \in 1..(i - 1) : f[h].intact /\ f[h].rec = ring[k]
      BY <2>1, <1>2, <1>4 DEF TornBehind
    <3> QED BY <2>1, <3>1, <1>6
  <2>2. CASE i = Len(f) + 1
    <3>1. Precedes(ring[k], ring[n + 1]) /\ i - 1 = Len(f)
      BY <2>2, <1>3, <1>4
    <3> QED BY <3>1, <1>5
  <2> QED BY <2>1, <2>2, <1>4
<1>8. TornOrder(g)
  <2> SUFFICES ASSUME NEW i \in DOMAIN g, NEW j \in DOMAIN g, ~ g[i].intact, i < j, Precedes(g[j].rec, g[i].rec)
               PROVE  \E h \in 1..(i - 1) : g[h].intact /\ g[h].rec = g[j].rec
    BY DEF TornOrder
  <2>1. i \in 1..Len(f) /\ g[i] = f[i]
    BY <1>4
  <2>2. CASE j \in 1..Len(f)
    <3>1. \E h \in 1..(i - 1) : f[h].intact /\ f[h].rec = f[j].rec
      BY <2>1, <2>2, <1>2, <1>4 DEF TornOrder
    <3> QED BY <2>1, <2>2, <3>1, <1>4, <1>6
  <2>3. CASE j = Len(f) + 1
    <3>1. g[j].rec = ring[n + 1]
      BY <2>3, <1>3, <1>4
    <3> QED BY <3>1, <1>1, <1>7 DEF TornBehind
  <2> QED BY <2>2, <2>3, <1>4
<1> QED BY <1>7, <1>8 DEF f, g, t

\* Cutting the file hides nothing more.
LEMMA CutTorn ==
    ASSUME NEW f \in Seq(Frame), TornOrder(f), NEW n \in 0..Len(f)
    PROVE  /\ TornOrder(SubSeq(f, 1, n))
           /\ n < Len(f) => TornOrder(Append(SubSeq(f, 1, n), torn(f[n + 1].rec)))
<1> DEFINE g == SubSeq(f, 1, n)
           t == torn(f[n + 1].rec)
           h == Append(g, t)
<1>1. Len(f) \in Nat /\ DOMAIN f = 1..Len(f) /\ \A i \in 1..Len(f) : f[i] \in Frame
  BY ElementOfSeq, LenProperties
<1>2. /\ g \in Seq(Frame) /\ Len(g) = n /\ \A i \in 1..n : g[i] = f[i]
  BY <1>1, SubSeqProperties
<1> HIDE DEF g
<1>3. DOMAIN g = 1..n
  BY <1>2, LenProperties
<1>0. ASSUME NEW s, NEW m \in 0..Len(f), DOMAIN s = 1..m, \A i \in 1..m : s[i].rec = f[i].rec,
             \A i \in 1..(m - 1) : s[i] = f[i]
      PROVE  TornOrder(s)
  <2> SUFFICES ASSUME NEW i \in 1..m, NEW j \in 1..m, ~ s[i].intact, i < j, Precedes(s[j].rec, s[i].rec)
               PROVE  \E k \in 1..(i - 1) : s[k].intact /\ s[k].rec = s[j].rec
    BY <1>0 DEF TornOrder
  <2>1. i \in 1..(m - 1) /\ i \in 1..Len(f) /\ j \in 1..Len(f)
    BY <1>1
  <2>2. ~ f[i].intact /\ Precedes(f[j].rec, f[i].rec)
    BY <2>1, <1>0
  <2>3. PICK k \in 1..(i - 1) : f[k].intact /\ f[k].rec = f[j].rec
    BY <2>1, <2>2, <1>1 DEF TornOrder
  <2>4. k \in 1..(m - 1)
    BY <2>1
  <2> QED BY <2>3, <2>4, <1>0
<1>4. TornOrder(g)
  <2>1. \A i \in 1..n : g[i].rec = f[i].rec
    BY <1>2
  <2>2. \A i \in 1..(n - 1) : g[i] = f[i]
    BY <1>1, <1>2
  <2> QED BY <2>1, <2>2, <1>0, <1>3
<1>5. ASSUME n < Len(f) PROVE TornOrder(h)
  <2>1. n + 1 \in 1..Len(f) /\ f[n + 1] \in Frame
    BY <1>1, <1>5
  <2>2. t \in Frame /\ t.rec = f[n + 1].rec
    BY <2>1 DEF torn, Frame
  <2> HIDE DEF t
  <2>3. /\ DOMAIN h = 1..(n + 1) /\ h[n + 1] = t
        /\ \A i \in 1..n : h[i] = f[i]
    BY <1>2, <2>2, AppendProperties, LenProperties
  <2> HIDE DEF h
  <2>4. \A i \in 1..(n + 1) : h[i].rec = f[i].rec
    <3> SUFFICES ASSUME NEW i \in 1..(n + 1) PROVE h[i].rec = f[i].rec
      OBVIOUS
    <3>1. CASE i \in 1..n
      BY <3>1, <2>3
    <3>2. CASE i = n + 1
      BY <3>2, <2>2, <2>3
    <3> QED BY <3>1, <3>2, <1>1
  <2>5. n + 1 \in 0..Len(f) /\ \A i \in 1..((n + 1) - 1) : h[i] = f[i]
    BY <2>1, <2>3, <1>1
  <2> QED BY <2>3, <2>4, <2>5, <1>0
<1> QED BY <1>4, <1>5 DEF g, h, t

\* A record that is appended comes after all that has a frame.
LEMMA AppendTorn ==
    ASSUME WalInv, TornInv, NEW d \in Payloads, append(d)
    PROVE  TornInv'
<1> DEFINE r == [lsn |-> current_lsn + 1, epoch |-> epoch, data |-> d]
<1>1. /\ ring \in Seq(Record) /\ Len(ring) \in Nat /\ current_lsn \in Nat /\ epoch \in Nat
      /\ durable_lsn \in Nat /\ phase = "idle" /\ file \in Seq(Frame) /\ DOMAIN file = 1..Len(file)
      /\ ring' = Append(ring, r) /\ file' = file
  BY LenProperties DEF WalInv, WalTypeOK, append
<1>2. r \in Record /\ r.lsn = current_lsn + 1 /\ r.epoch = epoch
  BY <1>1 DEF Record
<1> HIDE DEF r
<1>3. /\ Len(ring') = Len(ring) + 1
      /\ \A i \in 1..Len(ring) : ring'[i] = ring[i]
      /\ ring'[Len(ring) + 1] = r
  BY <1>1, <1>2, AppendProperties
<1>4. \A i \in DOMAIN file : ~ Precedes(r, file[i].rec)
  <2> SUFFICES ASSUME NEW i \in DOMAIN file, Precedes(r, file[i].rec) PROVE FALSE
    OBVIOUS
  <2>1. file[i] \in Frame
    BY <1>1, ElementOfSeq
  <2>2. file[i].rec.lsn \in Nat /\ file[i].rec.epoch \in Nat
    BY <2>1 DEF Frame, Record
  <2>3. file[i].rec.epoch <= epoch
    BY DEF WalInv
  <2>4. file[i].rec.epoch = epoch /\ current_lsn + 1 < file[i].rec.lsn
    BY <2>2, <2>3, <1>1, <1>2 DEF Precedes
  <2>5. durable_lsn <= current_lsn
    BY <1>1 DEF WalInv, RingHoldsTheRest
  <2>6. file[i].rec.lsn > durable_lsn
    BY <2>2, <2>4, <2>5, <1>1
  <2>7. file[i].rec.lsn <= current_lsn
    BY <2>4, <2>6, <1>1 DEF WalInv, FramesExplained
  <2> QED BY <2>2, <2>4, <2>7, <1>1
<1>5. TornBehind(file, ring')
  <2> SUFFICES ASSUME NEW i \in DOMAIN file, NEW k \in 1..(Len(ring) + 1),
                      ~ file[i].intact, Precedes(ring'[k], file[i].rec)
               PROVE  \E h \in 1..(i - 1) : file[h].intact /\ file[h].rec = ring'[k]
    BY <1>3 DEF TornBehind
  <2>1. k \in 1..Len(ring)
    BY <1>1, <1>3, <1>4
  <2> QED BY <2>1, <1>3 DEF TornInv, TornBehind
<1> QED BY <1>5, <1>1 DEF TornInv

\* Every step keeps what a torn frame hides later than that frame.
LEMMA TornStep == ASSUME WalInv, TornInv, [WalNext]_walVars PROVE TornInv'
<1>0. /\ ring \in Seq(Record) /\ Len(ring) \in Nat /\ file \in Seq(Frame) /\ Len(file) \in Nat
  BY LenProperties DEF WalInv, WalTypeOK
<1>1. CASE \E d \in Payloads : append(d)
  BY <1>1, AppendTorn
<1>2. CASE BeginFlush \/ EndWrites \/ SyncOk \/ SyncFails \/ Restart \/ UNCHANGED walVars
  BY <1>2 DEF BeginFlush, EndWrites, SyncOk, SyncFails, Restart, walVars, TornInv
<1>3. CASE WriteBatch
  <2> DEFINE n == BatchLen
  <2>1. /\ file' = file \o frames(SubSeq(ring, 1, n)) /\ ring' = SubSeq(ring, n + 1, Len(ring)) /\ ring # <<>>
    BY <1>3 DEF WriteBatch
  <2>2. n \in 1..Len(ring)
    <3>1. Len(ring) # 0
      BY <1>0, <2>1, EmptySeq
    <3> QED BY <3>1, <1>0, WalBatchAssumption DEF BatchLen
  <2> HIDE DEF n
  <2>3. TornOrder(file') /\ TornBehind(file', ring)
    BY <2>1, <2>2, BatchTorn
  <2>4. /\ Len(ring') = Len(ring) - n
        /\ \A i \in 1..(Len(ring) - n) : ring'[i] = ring[n + i]
    <3>1. \A i \in (n + 1)..Len(ring) : ring[i] \in Record
      BY <1>0, <2>2, ElementOfSeq
    <3> QED BY <3>1, <2>1, <2>2, <1>0, SubSeqProperties
  <2>5. \A k \in 1..Len(ring') : \E m \in 1..Len(ring) : ring'[k] = ring[m]
    <3> TAKE k \in 1..Len(ring')
    <3>1. k \in 1..(Len(ring) - n) /\ n + k \in 1..Len(ring)
      BY <2>2, <2>4, <1>0
    <3> QED BY <3>1, <2>4
  <2>6. TornBehind(file', ring')
    <3> SUFFICES ASSUME NEW i \in DOMAIN file', NEW k \in 1..Len(ring'),
                        ~ file'[i].intact, Precedes(ring'[k], file'[i].rec)
                 PROVE  \E h \in 1..(i - 1) : file'[h].intact /\ file'[h].rec = ring'[k]
      BY DEF TornBehind
    <3>1. PICK m \in 1..Len(ring) : ring'[k] = ring[m]
      BY <2>5
    <3> QED BY <3>1, <2>3 DEF TornBehind
  <2> QED BY <2>3, <2>6 DEF TornInv
<1>4. CASE WriteBatchFails
  <2>0. phase = "writing" /\ ring' = ring /\ ring # <<>>
    BY <1>4 DEF WriteBatchFails
  <2>1. CASE UNCHANGED file
    BY <2>0, <2>1 DEF TornInv
  <2>2. CASE ~ UNCHANGED file
    <3> PICK n \in 0..(BatchLen - 1) :
           \/ file' = file \o frames(SubSeq(ring, 1, n))
           \/ file' = file \o frames(SubSeq(ring, 1, n)) \o <<torn(ring[n + 1])>>
      BY <2>2, <1>4 DEF WriteBatchFails
    <3> DEFINE f == file \o frames(SubSeq(ring, 1, n))
               t == torn(ring[n + 1])
    <3>1. n \in 0..(Len(ring) - 1) /\ n \in 0..Len(ring) /\ n + 1 \in 1..Len(ring)
      <4>1. Len(ring) # 0
        BY <1>0, <2>0, EmptySeq
      <4> QED BY <4>1, <1>0, WalBatchAssumption DEF BatchLen
    <3>2. TornOrder(f) /\ TornBehind(f, ring)
      BY <3>1, BatchTorn
    <3>3. TornOrder(Append(f, t)) /\ TornBehind(Append(f, t), ring)
      BY <3>1, <2>0, BatchTornOff
    <3>4. f \in Seq(Frame) /\ t \in Frame
      <4>1. f \in Seq(Frame)
        BY <3>1, WrittenProperties DEF WalInv
      <4>2. ring[n + 1] \in Record
        BY <1>0, <3>1, ElementOfSeq
      <4> QED BY <4>1, <4>2 DEF torn, Frame
    <3>5. file' = f \/ file' = f \o <<t>>
      OBVIOUS
    <3> HIDE DEF f, t
    <3>6. f \o <<t>> = Append(f, t)
      BY <3>4
    <3> QED BY <3>2, <3>3, <3>5, <3>6, <2>0 DEF TornInv
  <2> QED BY <2>1, <2>2
<1>5. CASE Crash
  <2> DEFINE f == InFlight
  <2>1. f \in Seq(Frame) /\ Len(f) \in Nat /\ Len(f) >= Len(file) /\ TornOrder(f)
    <3>1. CASE phase # "writing"
      BY <3>1, <1>0 DEF InFlight, TornInv
    <3>2. CASE phase = "writing"
      <4>1. BatchLen \in 0..Len(ring)
        BY <1>0, WalBatchAssumption DEF BatchLen
      <4>2. f = file \o frames(SubSeq(ring, 1, BatchLen))
        BY <3>2 DEF InFlight
      <4>3. f \in Seq(Frame) /\ Len(f) = Len(file) + BatchLen
        BY <4>1, <4>2, WrittenProperties DEF WalInv
      <4>4. TornOrder(f)
        BY <4>1, <4>2, BatchTorn
      <4> QED BY <4>1, <4>3, <4>4, <1>0
    <3> QED BY <3>1, <3>2
  <2>2. PICK n \in synced..Len(f) :
           \/ file' = SubSeq(f, 1, n)
           \/ n < Len(f) /\ file' = Append(SubSeq(f, 1, n), torn(f[n + 1].rec))
    BY <1>5 DEF Crash
  <2>3. ring' = <<>> /\ synced \in Nat
    BY <1>5 DEF Crash, WalInv, WalTypeOK
  <2> HIDE DEF f
  <2>4. TornOrder(file')
    <3>1. n \in 0..Len(f)
      BY <2>1, <2>2, <2>3
    <3>2. /\ TornOrder(SubSeq(f, 1, n))
          /\ n < Len(f) => TornOrder(Append(SubSeq(f, 1, n), torn(f[n + 1].rec)))
      BY <3>1, <2>1, CutTorn
    <3>3. CASE file' = SubSeq(f, 1, n)
      BY <3>2, <3>3
    <3>4. CASE n < Len(f) /\ file' = Append(SubSeq(f, 1, n), torn(f[n + 1].rec))
      BY <3>2, <3>4
    <3> QED BY <2>2, <3>3, <3>4
  <2>5. TornBehind(file', ring')
    BY <2>3 DEF TornBehind
  <2> QED BY <2>4, <2>5 DEF TornInv
<1> QED BY <1>1, <1>2, <1>3, <1>4, <1>5 DEF WalNext, WalStep

\* What recovery misses stands behind a torn frame of a record that was not
\* appended after it (durable_journal.rs:125-135).
LEMMA TornHidesLater ==
    ASSUME WalInv, TornInv, NEW r \in confirmed \ recover(file)
    PROVE  \E i \in DOMAIN file : ~ file[i].intact /\ ~ Precedes(r, file[i].rec)
<1>1. PICK k \in 1..synced : file[k].intact /\ file[k].rec = r
  BY DEF WalInv
<1>2. synced \in 0..Len(file) /\ Len(file) \in Nat /\ DOMAIN file = 1..Len(file) /\ k \in DOMAIN file
  BY LenProperties DEF WalInv, WalTypeOK
<1> DEFINE T == {h \in 1..k : ~ file[h].intact}
<1>3. T # {} /\ T \subseteq Nat
  BY <1>1, <1>2 DEF recover
<1>4. PICK i \in T : \A y \in T : i <= y
  <2> HIDE DEF T
  <2> QED BY <1>3, SmallestOf
<1>5. i \in DOMAIN file /\ i < k /\ ~ file[i].intact
  BY <1>1, <1>2, <1>4
<1>6. SUFFICES ASSUME Precedes(r, file[i].rec) PROVE FALSE
  BY <1>5
<1>7. PICK h \in 1..(i - 1) : file[h].intact /\ file[h].rec = r
  BY <1>1, <1>2, <1>5, <1>6 DEF TornInv, TornOrder
<1>8. h \in DOMAIN file /\ \A g \in 1..h : file[g].intact
  <2> SUFFICES ASSUME NEW g \in 1..h, ~ file[g].intact PROVE FALSE
    BY <1>2, <1>5
  <2>1. g \in T /\ g < i
    BY <1>2, <1>5
  <2> QED BY <2>1, <1>2, <1>4, <1>5
<1> QED BY <1>7, <1>8 DEF recover

\* No LSN is lost or repeated between the ring and the file, every record
\* confirmed to a caller is whole in the synced file, and a torn frame hides
\* from recovery no confirmed record that was appended before it (wal.rs:388-496).
THEOREM FlushLossless == WalSpec => []ConfirmedSurvives
<1>1. WalInv => FlushLosesNothing
  BY DEF WalInv, FlushLosesNothing, NoGapsInFile, Gapless
<1>2. WalInv /\ TornInv => ConfirmedSurvivesCrash
  BY TornHidesLater DEF WalInv, ConfirmedSurvivesCrash
<1>3. WalInv /\ TornInv => ConfirmedSurvives
  BY <1>1, <1>2 DEF ConfirmedSurvives
<1>4. WalInit => TornInv
  BY DEF WalInit, TornInv, TornOrder, TornBehind
<1>5. WalInv /\ TornInv /\ [WalNext]_walVars => TornInv'
  BY TornStep
<1> QED BY <1>3, <1>4, <1>5, WalInvariant, PTL DEF WalSpec

-------------------------------------------------------------------------------
\* Nodes done with the record being appended that have a whole copy of it.
DoneWithCopy == {n \in Nodes \ todo : HasCopy(n, lsn)}

\* No journal has two frames of one LSN.
OneFramePerLsn ==
    \A n \in Nodes : \A i, j \in DOMAIN journal[n] :
        journal[n][i].lsn = journal[n][j].lsn => i = j

\* A journal that is still to be written has only frames of earlier LSNs.
FramesAreEarlier ==
    \A n \in Nodes : \A i \in DOMAIN journal[n] :
        /\ journal[n][i].lsn <= lsn
        /\ (replPhase \in {"idle", "primary"} \/ n \in todo) => journal[n][i].lsn < lsn

\* Between any two writes: what was confirmed is on enough nodes, the primary
\* first, the acknowledgements counted so far are copies that exist, and while
\* nothing is torn or written twice the journals have one whole frame per LSN.
ReplInv ==
    /\ ReplTypeOK
    /\ \A n \in Nodes : Len(journal[n]) <= MaxReplFrames
    /\ replPhase \in {"primary", "replicas"} => lsn <= MaxReplLsn
    /\ replPhase = "replicas" => HasCopy(Primary, lsn) /\ acks <= Cardinality(DoneWithCopy)
    /\ ConfirmedOnQuorum
    /\ PrimaryFirst
    /\ ~ tearing => \A n \in Nodes : \A i \in DOMAIN journal[n] : journal[n][i].intact
    /\ ~ retrying => OneFramePerLsn
    /\ ~ retrying /\ replPhase # "down" => FramesAreEarlier
    /\ promoted # {} => replPhase = "down"
    /\ \A f \in promoted : \E n \in Replicas : f = journal[n]

\* The nodes are finitely many, the primary and the replicas.
LEMMA NodesFinite ==
    /\ IsFiniteSet(Nodes)
    /\ Cardinality(Nodes) \in Nat \ {0}
<1>1. Nodes = Replicas \union {Primary}
  BY DEF Nodes
<1>2. /\ IsFiniteSet(Nodes) /\ Cardinality(Nodes) = Cardinality(Replicas) + 1
      /\ Cardinality(Replicas) \in Nat
  BY <1>1, FS_AddElement, FS_CardinalityType, ReplicaAssumption
<1> QED BY <1>2

\* A node that acknowledges for the first time makes the set larger by one.
LEMMA NodeSetGrows ==
    ASSUME NEW S, NEW T, S \subseteq T, T \subseteq Nodes
    PROVE  Cardinality(S) \in Nat /\ Cardinality(T) \in Nat /\ Cardinality(S) <= Cardinality(T)
           /\ Cardinality(T) <= Cardinality(Nodes) /\ IsFiniteSet(S) /\ IsFiniteSet(T)
<1>1. IsFiniteSet(T) /\ Cardinality(T) <= Cardinality(Nodes)
  BY NodesFinite, FS_Subset
<1>2. IsFiniteSet(S) /\ Cardinality(S) <= Cardinality(T)
  BY <1>1, FS_Subset
<1> QED BY <1>1, <1>2, FS_CardinalityType

\* A journal grows by at most one frame, of the record being appended.
LEMMA JournalGrows ==
    ASSUME ReplTypeOK, lsn <= MaxReplLsn, NEW n \in Nodes, NEW ok \in BOOLEAN, append_and_sync(n, ok)
    PROVE  /\ journal' \in [Nodes -> Seq(Frames)]
           /\ \A m \in Nodes \ {n} : journal'[m] = journal[m]
           /\ Len(journal[n]) < MaxReplFrames
           /\ \/ ~ ok /\ journal' = journal
              \/ \E b \in BOOLEAN :
                    /\ ok \/ ~ tearing => b = TRUE
                    /\ Len(journal'[n]) = Len(journal[n]) + 1
                    /\ \A i \in 1..Len(journal[n]) : journal'[n][i] = journal[n][i]
                    /\ journal'[n][Len(journal[n]) + 1] = [lsn |-> lsn, intact |-> b]
<1>1. journal \in [Nodes -> Seq(Frames)] /\ lsn \in 1..MaxReplLsn /\ tearing \in BOOLEAN
  BY ReplicaAssumption DEF ReplTypeOK
<1>2. Len(journal[n]) < MaxReplFrames
  BY DEF append_and_sync
<1>3. CASE UNCHANGED journal /\ ~ ok
  BY <1>1, <1>2, <1>3
<1>4. ASSUME NEW b \in BOOLEAN, ok \/ ~ tearing => b = TRUE,
             journal' = [journal EXCEPT ![n] = Append(@, [lsn |-> lsn, intact |-> b])]
      PROVE  /\ journal' \in [Nodes -> Seq(Frames)]
             /\ \A m \in Nodes \ {n} : journal'[m] = journal[m]
             /\ Len(journal'[n]) = Len(journal[n]) + 1
             /\ \A i \in 1..Len(journal[n]) : journal'[n][i] = journal[n][i]
             /\ journal'[n][Len(journal[n]) + 1] = [lsn |-> lsn, intact |-> b]
  <2> DEFINE f == [lsn |-> lsn, intact |-> b]
             s == journal[n]
  <2>1. f \in Frames /\ s \in Seq(Frames)
    BY <1>1 DEF Frames
  <2>2. journal' = [journal EXCEPT ![n] = Append(s, f)]
    BY <1>4
  <2> HIDE DEF f, s
  <2>3. /\ Append(s, f) \in Seq(Frames) /\ Len(Append(s, f)) = Len(s) + 1
        /\ \A i \in 1..Len(s) : Append(s, f)[i] = s[i]
        /\ Append(s, f)[Len(s) + 1] = f
    BY <2>1, AppendProperties
  <2>4. journal'[n] = Append(s, f)
    BY <2>2, <1>1
  <2>5. /\ journal' \in [Nodes -> Seq(Frames)]
        /\ \A m \in Nodes \ {n} : journal'[m] = journal[m]
    BY <2>2, <2>3, <1>1
  <2> QED BY <2>3, <2>4, <2>5 DEF f, s
<1>5. \/ UNCHANGED journal /\ ~ ok
      \/ \E b \in BOOLEAN :
            /\ ok \/ ~ tearing => b = TRUE
            /\ journal' = [journal EXCEPT ![n] = Append(@, [lsn |-> lsn, intact |-> b])]
  BY DEF append_and_sync
<1> QED BY <1>2, <1>3, <1>4, <1>5

\* So copies stay, and a node written well has one of the record.
LEMMA CopiesStay ==
    ASSUME ReplTypeOK, lsn <= MaxReplLsn, NEW n \in Nodes, NEW ok \in BOOLEAN, append_and_sync(n, ok)
    PROVE  /\ \A m \in Nodes, l \in 1..MaxReplLsn : HasCopy(m, l) => HasCopy(m, l)'
           /\ ok => \A l \in 1..MaxReplLsn : l = lsn => HasCopy(n, l)'
           /\ \A m \in Nodes, l \in 1..MaxReplLsn :
                 HasCopy(m, l)' => HasCopy(m, l) \/ (m = n /\ l = lsn)
<1>1. /\ journal \in [Nodes -> Seq(Frames)] /\ journal' \in [Nodes -> Seq(Frames)]
      /\ \A m \in Nodes \ {n} : journal'[m] = journal[m]
      /\ \/ ~ ok /\ journal' = journal
         \/ \E b \in BOOLEAN :
              /\ ok \/ ~ tearing => b = TRUE
              /\ Len(journal'[n]) = Len(journal[n]) + 1
              /\ \A i \in 1..Len(journal[n]) : journal'[n][i] = journal[n][i]
              /\ journal'[n][Len(journal[n]) + 1] = [lsn |-> lsn, intact |-> b]
  BY JournalGrows DEF ReplTypeOK
<1>2. \A m \in Nodes : /\ DOMAIN journal[m] = 1..Len(journal[m]) /\ Len(journal[m]) \in Nat
                       /\ DOMAIN journal'[m] = 1..Len(journal'[m])
  BY <1>1, LenProperties
<1>3. ASSUME NEW m \in Nodes \ {n}, NEW l \in 1..MaxReplLsn
      PROVE  HasCopy(m, l) <=> HasCopy(m, l)'
  BY <1>1 DEF HasCopy
<1>4. CASE ~ ok /\ journal' = journal
  BY <1>4 DEF HasCopy
<1>5. CASE \E b \in BOOLEAN :
              /\ ok \/ ~ tearing => b = TRUE
              /\ Len(journal'[n]) = Len(journal[n]) + 1
              /\ \A i \in 1..Len(journal[n]) : journal'[n][i] = journal[n][i]
              /\ journal'[n][Len(journal[n]) + 1] = [lsn |-> lsn, intact |-> b]
  <2> PICK b \in BOOLEAN :
              /\ ok \/ ~ tearing => b = TRUE
              /\ Len(journal'[n]) = Len(journal[n]) + 1
              /\ \A i \in 1..Len(journal[n]) : journal'[n][i] = journal[n][i]
              /\ journal'[n][Len(journal[n]) + 1] = [lsn |-> lsn, intact |-> b]
    BY <1>5
  <2>1. ASSUME NEW l \in 1..MaxReplLsn, HasCopy(n, l)
        PROVE  HasCopy(n, l)'
    <3>1. PICK i \in 1..Len(journal[n]) : journal[n][i].intact /\ journal[n][i].lsn = l
      BY <2>1, <1>2 DEF HasCopy
    <3>2. i \in DOMAIN journal'[n] /\ journal'[n][i] = journal[n][i]
      BY <1>2
    <3> QED BY <3>1, <3>2 DEF HasCopy
  <2>2. ASSUME NEW l \in 1..MaxReplLsn
        PROVE  /\ ok /\ l = lsn => HasCopy(n, l)'
               /\ HasCopy(n, l)' => HasCopy(n, l) \/ l = lsn
    <3>1. Len(journal[n]) + 1 \in DOMAIN journal'[n]
      BY <1>2
    <3>2. ok /\ l = lsn => HasCopy(n, l)'
      BY <3>1 DEF HasCopy
    <3>3. ASSUME HasCopy(n, l)', l # lsn
          PROVE  HasCopy(n, l)
      <4>1. PICK i \in DOMAIN journal'[n] : journal'[n][i].intact /\ journal'[n][i].lsn = l
        BY <3>3 DEF HasCopy
      <4>2. i # Len(journal[n]) + 1
        BY <4>1, <3>3
      <4>3. i \in 1..Len(journal[n]) /\ journal'[n][i] = journal[n][i]
        <5>1. DOMAIN journal'[n] = 1..(Len(journal[n]) + 1) /\ Len(journal[n]) \in Nat
          BY <1>2
        <5> QED BY <5>1, <4>2
      <4> QED BY <4>1, <4>3, <1>2 DEF HasCopy
    <3> QED BY <3>2, <3>3
  <2> QED BY <2>1, <2>2, <1>3
<1> QED BY <1>1, <1>4, <1>5

\* What one write of the record leaves true of the journals.
LEMMA WriteKeeps ==
    ASSUME ReplInv, lsn <= MaxReplLsn, replPhase # "down",
           NEW n \in Nodes, NEW ok \in BOOLEAN, append_and_sync(n, ok),
           n = Primary \/ HasCopy(Primary, lsn),
           n \in todo \/ replPhase = "primary",
           UNCHANGED settings
    PROVE  /\ journal' \in [Nodes -> Seq(Frames)]
           /\ \A m \in Nodes : Len(journal'[m]) <= MaxReplFrames
           /\ \A l \in acknowledged : Cardinality({m \in Nodes : HasCopy(m, l)'}) >= required_acks
           /\ PrimaryFirst'
           /\ ~ tearing => \A m \in Nodes : \A i \in DOMAIN journal'[m] : journal'[m][i].intact
           /\ ~ retrying => OneFramePerLsn'
           /\ ~ retrying => \A m \in Nodes : \A i \in DOMAIN journal'[m] :
                                /\ journal'[m][i].lsn <= lsn
                                /\ m # n /\ (m \in todo \/ replPhase = "primary")
                                      => journal'[m][i].lsn < lsn
<1>1. /\ journal \in [Nodes -> Seq(Frames)] /\ journal' \in [Nodes -> Seq(Frames)]
      /\ \A m \in Nodes \ {n} : journal'[m] = journal[m]
      /\ Len(journal[n]) < MaxReplFrames
      /\ \/ ~ ok /\ journal' = journal
         \/ \E b \in BOOLEAN :
              /\ ok \/ ~ tearing => b = TRUE
              /\ Len(journal'[n]) = Len(journal[n]) + 1
              /\ \A i \in 1..Len(journal[n]) : journal'[n][i] = journal[n][i]
              /\ journal'[n][Len(journal[n]) + 1] = [lsn |-> lsn, intact |-> b]
  <2>1. ReplTypeOK
    BY DEF ReplInv
  <2> QED BY <2>1, JournalGrows DEF ReplTypeOK
<1>2. \A m \in Nodes : /\ DOMAIN journal[m] = 1..Len(journal[m]) /\ Len(journal[m]) \in Nat
                       /\ DOMAIN journal'[m] = 1..Len(journal'[m])
  BY <1>1, LenProperties
<1>3. /\ acknowledged \subseteq 1..MaxReplLsn /\ required_acks \in Nat
      /\ lsn \in 1..MaxReplLsn /\ MaxReplLsn \in Nat /\ MaxReplFrames \in Nat
  BY ReplicaAssumption DEF ReplInv, ReplTypeOK
<1>4. /\ \A m \in Nodes, l \in 1..MaxReplLsn : HasCopy(m, l) => HasCopy(m, l)'
      /\ ok => \A l \in 1..MaxReplLsn : l = lsn => HasCopy(n, l)'
      /\ \A m \in Nodes, l \in 1..MaxReplLsn :
            HasCopy(m, l)' => HasCopy(m, l) \/ (m = n /\ l = lsn)
  BY CopiesStay DEF ReplInv
<1>5. \A m \in Nodes : Len(journal'[m]) <= MaxReplFrames
  <2> TAKE m \in Nodes
  <2>1. CASE m # n
    BY <2>1, <1>1 DEF ReplInv
  <2>2. CASE m = n
    <3>1. Len(journal'[n]) = Len(journal[n]) \/ Len(journal'[n]) = Len(journal[n]) + 1
      BY <1>1
    <3>2. Len(journal[n]) < MaxReplFrames /\ Len(journal[n]) \in Nat
      BY <1>1, <1>2
    <3> QED BY <2>2, <3>1, <3>2, <1>3
  <2> QED BY <2>1, <2>2
<1>6. \A l \in acknowledged : Cardinality({m \in Nodes : HasCopy(m, l)'}) >= required_acks
  <2> TAKE l \in acknowledged
  <2>1. {m \in Nodes : HasCopy(m, l)} \subseteq {m \in Nodes : HasCopy(m, l)'}
    BY <1>3, <1>4
  <2>2. /\ Cardinality({m \in Nodes : HasCopy(m, l)}) <= Cardinality({m \in Nodes : HasCopy(m, l)'})
        /\ Cardinality({m \in Nodes : HasCopy(m, l)}) \in Nat
        /\ Cardinality({m \in Nodes : HasCopy(m, l)'}) \in Nat
    BY <2>1, NodeSetGrows
  <2>3. Cardinality({m \in Nodes : HasCopy(m, l)}) >= required_acks
    BY DEF ReplInv, ConfirmedOnQuorum
  <2> QED BY <2>2, <2>3, <1>3
<1>7. PrimaryFirst'
  <2> SUFFICES ASSUME NEW m \in Replicas, NEW l \in 1..MaxReplLsn, HasCopy(m, l)'
               PROVE  HasCopy(Primary, l)'
    BY DEF PrimaryFirst
  <2>1. m \in Nodes /\ Primary \in Nodes /\ m # Primary
    BY ReplicaAssumption DEF Nodes
  <2>2. CASE HasCopy(m, l)
    BY <2>1, <2>2, <1>4 DEF ReplInv, PrimaryFirst
  <2>3. CASE m = n /\ l = lsn
    BY <2>1, <2>3, <1>3, <1>4
  <2> QED BY <2>1, <2>2, <2>3, <1>4
<1>8. ASSUME NEW m \in Nodes, NEW i \in DOMAIN journal'[m]
      PROVE  \/ i \in DOMAIN journal[m] /\ journal'[m][i] = journal[m][i]
             \/ /\ m = n /\ i = Len(journal[n]) + 1 /\ journal'[m][i].lsn = lsn
                /\ ~ tearing => journal'[m][i].intact
  <2>1. CASE m # n \/ journal' = journal
    BY <2>1, <1>1
  <2>2. CASE m = n /\ journal' # journal
    <3>1. PICK b \in BOOLEAN :
              /\ ok \/ ~ tearing => b = TRUE
              /\ Len(journal'[n]) = Len(journal[n]) + 1
              /\ \A k \in 1..Len(journal[n]) : journal'[n][k] = journal[n][k]
              /\ journal'[n][Len(journal[n]) + 1] = [lsn |-> lsn, intact |-> b]
      BY <2>2, <1>1
    <3>2. /\ DOMAIN journal'[n] = 1..(Len(journal[n]) + 1) /\ Len(journal[n]) \in Nat
          /\ DOMAIN journal[n] = 1..Len(journal[n])
      BY <3>1, <1>2
    <3>3. CASE i \in 1..Len(journal[n])
      BY <3>1, <3>2, <3>3, <2>2
    <3>4. CASE i = Len(journal[n]) + 1
      BY <3>1, <3>4, <2>2
    <3> QED BY <3>2, <3>3, <3>4, <2>2
  <2> QED BY <2>1, <2>2
<1>9. ~ tearing => \A m \in Nodes : \A i \in DOMAIN journal'[m] : journal'[m][i].intact
  <2> SUFFICES ASSUME ~ tearing, NEW m \in Nodes, NEW i \in DOMAIN journal'[m]
               PROVE  journal'[m][i].intact
    OBVIOUS
  <2>1. \A k \in DOMAIN journal[m] : journal[m][k].intact
    BY DEF ReplInv
  <2> QED BY <2>1, <1>8
<1>10. ASSUME ~ retrying, NEW m \in Nodes, NEW i \in DOMAIN journal[m]
       PROVE  /\ journal[m][i].lsn <= lsn /\ journal[m][i].lsn \in Nat
              /\ m \in todo \/ replPhase = "primary" => journal[m][i].lsn < lsn
  <2>1. FramesAreEarlier
    BY <1>10 DEF ReplInv
  <2>2. journal[m][i] \in Frames
    BY <1>1, <1>2, ElementOfSeq
  <2> QED BY <1>10, <2>1, <2>2, <1>3 DEF FramesAreEarlier, Frames
<1>11. ~ retrying => \A m \in Nodes : \A i \in DOMAIN journal'[m] :
                                /\ journal'[m][i].lsn <= lsn
                                /\ m # n /\ (m \in todo \/ replPhase = "primary")
                                      => journal'[m][i].lsn < lsn
  BY <1>3, <1>8, <1>10
<1>12. ~ retrying => OneFramePerLsn'
  <2> SUFFICES ASSUME ~ retrying, NEW m \in Nodes, NEW i \in DOMAIN journal'[m],
                      NEW j \in DOMAIN journal'[m], journal'[m][i].lsn = journal'[m][j].lsn
               PROVE  i = j
    BY DEF OneFramePerLsn, settings
  <2>1. \A a, b \in DOMAIN journal[m] : journal[m][a].lsn = journal[m][b].lsn => a = b
    BY DEF ReplInv, OneFramePerLsn
  <2>2. \A k \in DOMAIN journal[m] : m = n => journal[m][k].lsn < lsn /\ journal[m][k].lsn \in Nat
    BY <1>10
  <2>3. lsn \in Nat
    BY <1>3
  <2>4. journal[m] \in Seq(Frames)
    BY <1>1
  <2> QED BY <1>8, <2>1, <2>2, <2>3
<1> QED BY <1>1, <1>5, <1>6, <1>7, <1>9, <1>11, <1>12

\* The write to the primary (replicated_journal.rs, append_and_replicate).
LEMMA PrimaryKeepsInv ==
    ASSUME ReplInv, PrimaryOk \/ PrimaryFails
    PROVE  ReplInv'
<1>1. /\ lsn \in 1..MaxReplLsn /\ replPhase = "primary" /\ MaxReplLsn \in Nat
      /\ UNCHANGED <<settings, mode, lost, promoted>> /\ required_acks \in Nat
      /\ todo \subseteq Replicas /\ promoted = {}
  <2>1. replPhase = "primary" /\ UNCHANGED <<settings, mode, lost, promoted>>
    BY DEF PrimaryOk, PrimaryFails
  <2>2. ReplTypeOK /\ lsn <= MaxReplLsn /\ promoted = {}
    BY <2>1 DEF ReplInv
  <2> QED BY <2>1, <2>2, ReplicaAssumption DEF ReplTypeOK
<1>2. PICK ok \in BOOLEAN : /\ append_and_sync(Primary, ok)
                            /\ ok <=> PrimaryOk
  BY DEF PrimaryOk, PrimaryFails
<1>3. Primary \in Nodes
  BY DEF Nodes
<1>4. /\ journal' \in [Nodes -> Seq(Frames)]
      /\ \A m \in Nodes : Len(journal'[m]) <= MaxReplFrames
      /\ \A l \in acknowledged : Cardinality({m \in Nodes : HasCopy(m, l)'}) >= required_acks
      /\ PrimaryFirst'
      /\ ~ tearing => \A m \in Nodes : \A i \in DOMAIN journal'[m] : journal'[m][i].intact
      /\ ~ retrying => OneFramePerLsn'
      /\ ~ retrying => \A m \in Nodes : \A i \in DOMAIN journal'[m] :
                           /\ journal'[m][i].lsn <= lsn
                           /\ m # Primary => journal'[m][i].lsn < lsn
  BY <1>1, <1>2, <1>3, WriteKeeps
<1>5. /\ acknowledged' = acknowledged
      /\ \/ lsn' = NextLsn(ok) /\ replPhase' = "idle" /\ acks' = 0 /\ todo' = {}
         \/ ok /\ lsn' = lsn /\ replPhase' = "replicas" /\ todo' = Replicas /\ acks' = 1
  BY <1>1, <1>2 DEF PrimaryOk, PrimaryFails, Return
<1>6. lsn' \in 1..(MaxReplLsn + 1) /\ lsn' >= lsn
  BY <1>1, <1>5 DEF NextLsn
<1>7. acks' \in 0..Cardinality(Nodes)
  BY <1>5, NodesFinite
<1>8. ReplTypeOK'
  BY <1>1, <1>4, <1>5, <1>6, <1>7 DEF ReplInv, ReplTypeOK, settings
<1>9. ConfirmedOnQuorum'
  BY <1>1, <1>4, <1>5 DEF ConfirmedOnQuorum, settings
<1>10. (replPhase = "replicas" => HasCopy(Primary, lsn) /\ acks <= Cardinality(DoneWithCopy))'
  <2> SUFFICES ASSUME replPhase' = "replicas"
               PROVE  HasCopy(Primary, lsn)' /\ acks' <= Cardinality(DoneWithCopy')
    OBVIOUS
  <2>1. ok /\ lsn' = lsn /\ todo' = Replicas /\ acks' = 1
    BY <1>5
  <2>2. ReplTypeOK /\ lsn <= MaxReplLsn
    BY <1>1 DEF ReplInv
  <2>3. \A l \in 1..MaxReplLsn : l = lsn => HasCopy(Primary, l)'
    BY <1>2, <1>3, <2>1, <2>2, CopiesStay
  <2>4. HasCopy(Primary, lsn)'
    BY <1>1, <2>1, <2>3 DEF HasCopy
  <2>5. {Primary} \subseteq DoneWithCopy' /\ DoneWithCopy' \subseteq Nodes
    BY <1>3, <2>1, <2>4, ReplicaAssumption DEF DoneWithCopy
  <2>6. /\ Cardinality({Primary}) <= Cardinality(DoneWithCopy') /\ Cardinality({Primary}) = 1
        /\ Cardinality(DoneWithCopy') \in Nat
    BY <2>5, NodeSetGrows, FS_Singleton
  <2> QED BY <2>1, <2>4, <2>6
<1>11. (~ retrying /\ replPhase # "down" => FramesAreEarlier)'
  <2> SUFFICES ASSUME ~ retrying, NEW m \in Nodes, NEW i \in DOMAIN journal'[m]
               PROVE  /\ journal'[m][i].lsn <= lsn'
                      /\ replPhase' \in {"idle", "primary"} \/ m \in todo' => journal'[m][i].lsn < lsn'
    BY <1>1 DEF FramesAreEarlier, settings
  <2>1. journal'[m][i].lsn <= lsn /\ (m # Primary => journal'[m][i].lsn < lsn)
    BY <1>4
  <2>2. journal'[m][i].lsn \in Nat
    <3>1. journal'[m] \in Seq(Frames)
      BY <1>4
    <3>2. journal'[m][i] \in Frames
      BY <3>1, ElementOfSeq, LenProperties
    <3> QED BY <3>2 DEF Frames
  <2>3. CASE lsn' = NextLsn(ok)
    BY <2>1, <2>2, <2>3, <1>1 DEF NextLsn
  <2>4. CASE lsn' = lsn /\ replPhase' = "replicas" /\ todo' = Replicas
    BY <2>1, <2>4, ReplicaAssumption
  <2> QED BY <2>3, <2>4, <1>5
<1>12. (\A f \in promoted : \E n \in Replicas : f = journal[n])' /\ promoted' = {}
  BY <1>1
<1>13. (replPhase \in {"primary", "replicas"} => lsn <= MaxReplLsn)'
  BY <1>1, <1>5
<1> QED BY <1>1, <1>4, <1>8, <1>9, <1>10, <1>11, <1>12, <1>13 DEF ReplInv, settings

\* The write to one replica, which may fail, whole or torn.
LEMMA ReplicaKeepsInv ==
    ASSUME ReplInv, NEW n \in Replicas, NEW ok \in BOOLEAN, WriteReplica(n, ok)
    PROVE  ReplInv'
<1>1. /\ lsn \in 1..MaxReplLsn /\ replPhase = "replicas" /\ MaxReplLsn \in Nat /\ required_acks \in Nat
      /\ UNCHANGED <<settings, mode, lsn, replPhase, lost, acknowledged, promoted>>
      /\ append_and_sync(n, ok) /\ n \in todo /\ todo' = todo \ {n} /\ promoted = {}
      /\ acks' = (IF ok THEN acks + 1 ELSE acks) /\ acks \in Nat /\ n # Primary
  BY ReplicaAssumption, NodesFinite DEF ReplInv, ReplTypeOK, WriteReplica
<1>2. n \in Nodes /\ Primary \in Nodes
  BY DEF Nodes
<1>3. /\ journal' \in [Nodes -> Seq(Frames)]
      /\ \A m \in Nodes : Len(journal'[m]) <= MaxReplFrames
      /\ \A l \in acknowledged : Cardinality({m \in Nodes : HasCopy(m, l)'}) >= required_acks
      /\ PrimaryFirst'
      /\ ~ tearing => \A m \in Nodes : \A i \in DOMAIN journal'[m] : journal'[m][i].intact
      /\ ~ retrying => OneFramePerLsn'
      /\ ~ retrying => \A m \in Nodes : \A i \in DOMAIN journal'[m] :
                           /\ journal'[m][i].lsn <= lsn
                           /\ m # n /\ m \in todo => journal'[m][i].lsn < lsn
  <2>1. HasCopy(Primary, lsn)
    BY <1>1 DEF ReplInv
  <2> QED BY <2>1, <1>1, <1>2, WriteKeeps
<1>4. /\ \A m \in Nodes, l \in 1..MaxReplLsn : HasCopy(m, l) => HasCopy(m, l)'
      /\ ok => \A l \in 1..MaxReplLsn : l = lsn => HasCopy(n, l)'
  <2>1. ReplTypeOK /\ lsn <= MaxReplLsn
    BY <1>1 DEF ReplInv
  <2> QED BY <2>1, <1>1, <1>2, CopiesStay
<1>5. \A m \in Nodes : (HasCopy(m, lsn) => HasCopy(m, lsn)') /\ (ok => HasCopy(n, lsn)')
  BY <1>1, <1>4 DEF HasCopy
<1>6. acks' <= Cardinality(DoneWithCopy') /\ acks' <= Cardinality(Nodes)
  <2>1. acks <= Cardinality(DoneWithCopy) /\ DoneWithCopy \subseteq Nodes /\ n \notin DoneWithCopy
    BY <1>1 DEF ReplInv, DoneWithCopy
  <2>2. IF ok THEN DoneWithCopy \union {n} \subseteq DoneWithCopy' ELSE DoneWithCopy \subseteq DoneWithCopy'
    BY <1>1, <1>2, <1>5 DEF DoneWithCopy
  <2>3. DoneWithCopy' \subseteq Nodes
    BY DEF DoneWithCopy
  <2>4. IsFiniteSet(DoneWithCopy) /\ Cardinality(DoneWithCopy) \in Nat
    BY <2>1, NodeSetGrows
  <2>5. Cardinality(DoneWithCopy \union {n}) = Cardinality(DoneWithCopy) + 1
    BY <2>1, <2>4, FS_AddElement
  <2>6. /\ (IF ok THEN Cardinality(DoneWithCopy) + 1 ELSE Cardinality(DoneWithCopy)) <= Cardinality(DoneWithCopy')
        /\ Cardinality(DoneWithCopy') \in Nat /\ Cardinality(DoneWithCopy') <= Cardinality(Nodes)
    BY <2>2, <2>3, <2>5, NodeSetGrows
  <2> QED BY <1>1, <2>1, <2>4, <2>6, NodesFinite
<1>7. ReplTypeOK'
  BY <1>1, <1>3, <1>6, NodesFinite DEF ReplInv, ReplTypeOK, settings
<1>8. ConfirmedOnQuorum'
  BY <1>1, <1>3 DEF ConfirmedOnQuorum, settings
<1>9. HasCopy(Primary, lsn)'
  BY <1>1, <1>2, <1>5 DEF ReplInv
<1>10. (~ retrying /\ replPhase # "down" => FramesAreEarlier)'
  BY <1>1, <1>3 DEF FramesAreEarlier, settings
<1> QED BY <1>1, <1>3, <1>6, <1>7, <1>8, <1>9, <1>10 DEF ReplInv, settings

\* A record is answered Ok in quorum mode when enough nodes have a copy.
LEMMA EndKeepsInv ==
    ASSUME ReplInv, EndAppend
    PROVE  ReplInv'
<1> DEFINE ok == mode = "AsynchronousMirror" \/ acks >= required_acks
<1>1. /\ lsn \in 1..MaxReplLsn /\ replPhase = "replicas" /\ MaxReplLsn \in Nat /\ required_acks \in Nat
      /\ UNCHANGED <<settings, mode, journal, lost, promoted>> /\ promoted = {} /\ acks \in Nat
      /\ lsn' = NextLsn(ok) /\ replPhase' = "idle" /\ acks' = 0 /\ todo' = {} /\ todo = {}
      /\ acknowledged' = IF ok /\ mode = "SynchronousQuorum" THEN acknowledged \union {lsn} ELSE acknowledged
  BY ReplicaAssumption, NodesFinite DEF ReplInv, ReplTypeOK, EndAppend, Return
<1> HIDE DEF ok
<1>2. lsn' \in 1..(MaxReplLsn + 1) /\ acknowledged' \subseteq 1..MaxReplLsn
  BY <1>1 DEF NextLsn, ReplInv, ReplTypeOK
<1>3. ReplTypeOK'
  BY <1>1, <1>2, NodesFinite DEF ReplInv, ReplTypeOK, settings
<1>4. \A m, l : HasCopy(m, l)' <=> HasCopy(m, l)
  BY <1>1 DEF HasCopy
<1>5. ConfirmedOnQuorum'
  <2> SUFFICES ASSUME NEW l \in acknowledged'
               PROVE  Cardinality({n \in Nodes : HasCopy(n, l)}) >= required_acks
    <3>1. \A l \in acknowledged' : {n \in Nodes : HasCopy(n, l)'} = {n \in Nodes : HasCopy(n, l)}
      BY <1>4
    <3>2. required_acks' = required_acks
      BY <1>1 DEF settings
    <3> QED BY <3>1, <3>2 DEF ConfirmedOnQuorum
  <2>1. CASE l \in acknowledged
    BY <2>1 DEF ReplInv, ConfirmedOnQuorum
  <2>2. CASE l \notin acknowledged
    <3>1. ok /\ mode = "SynchronousQuorum" /\ l = lsn
      BY <2>2, <1>1
    <3>2. acks >= required_acks
      BY <3>1 DEF ok
    <3>3. DoneWithCopy \subseteq {n \in Nodes : HasCopy(n, l)}
      BY <3>1 DEF DoneWithCopy
    <3>4. /\ Cardinality(DoneWithCopy) <= Cardinality({n \in Nodes : HasCopy(n, l)})
          /\ Cardinality(DoneWithCopy) \in Nat
          /\ Cardinality({n \in Nodes : HasCopy(n, l)}) \in Nat
      BY <3>3, NodeSetGrows
    <3>5. acks <= Cardinality(DoneWithCopy)
      BY <1>1 DEF ReplInv
    <3> QED BY <3>2, <3>4, <3>5, <1>1
  <2> QED BY <2>1, <2>2
<1>6. PrimaryFirst' /\ (~ retrying => OneFramePerLsn)'
  BY <1>1, <1>4 DEF ReplInv, PrimaryFirst, OneFramePerLsn, settings, HasCopy
<1>7. (~ retrying /\ replPhase # "down" => FramesAreEarlier)'
  <2> SUFFICES ASSUME ~ retrying, NEW m \in Nodes, NEW i \in DOMAIN journal[m]
               PROVE  journal[m][i].lsn <= lsn' /\ journal[m][i].lsn < lsn'
    BY <1>1 DEF FramesAreEarlier, settings
  <2>1. journal[m][i].lsn <= lsn
    BY <1>1 DEF ReplInv, FramesAreEarlier
  <2>2. journal[m][i].lsn \in Nat
    <3>1. journal[m] \in Seq(Frames)
      BY DEF ReplInv, ReplTypeOK
    <3>2. journal[m][i] \in Frames
      BY <3>1, ElementOfSeq, LenProperties
    <3> QED BY <3>2 DEF Frames
  <2>3. lsn' = lsn + 1
    BY <1>1 DEF NextLsn
  <2> QED BY <2>1, <2>2, <2>3, <1>1
<1>8. (~ tearing => \A n \in Nodes : \A i \in DOMAIN journal[n] : journal[n][i].intact)'
  BY <1>1 DEF ReplInv, settings
<1>9. (\A n \in Nodes : Len(journal[n]) <= MaxReplFrames)'
  BY <1>1 DEF ReplInv
<1> QED BY <1>1, <1>3, <1>5, <1>6, <1>7, <1>8, <1>9 DEF ReplInv

\* The steps that leave the journals alone.
LEMMA OtherKeepsInv ==
    ASSUME ReplInv, BeginAppend \/ (\E m \in Modes : set_mode(m)) \/ ProcessStops
                    \/ (\E n \in Nodes : LoseHost(n)) \/ (\E n \in Replicas : promote_to_primary(n))
    PROVE  ReplInv'
<1>1. /\ UNCHANGED <<settings, journal, lsn, acknowledged>>
      /\ ReplTypeOK /\ MaxReplLsn \in Nat
      /\ \/ promoted' = promoted
         \/ \E n \in Replicas : promoted' = {journal[n]}
  BY ReplicaAssumption DEF ReplInv, BeginAppend, set_mode, ProcessStops, LoseHost, promote_to_primary
<1>2. /\ todo' \subseteq Replicas /\ acks' \in 0..Cardinality(Nodes) /\ lost' \subseteq Nodes
      /\ mode' \in Modes
      /\ replPhase' \in {"idle", "primary", "replicas", "down"}
      /\ replPhase' # "replicas"
      /\ replPhase = "replicas" => replPhase' = "down"
      /\ replPhase' = "primary" => lsn <= MaxReplLsn
      /\ replPhase = "down" => replPhase' = "down"
      /\ replPhase' \in {"idle", "primary"} => replPhase \in {"idle", "primary"}
      /\ promoted' # {} => replPhase' = "down"
  <2>1. CASE BeginAppend
    BY <2>1, <1>1, NodesFinite DEF BeginAppend, ReplTypeOK, ReplInv
  <2>2. CASE \E m \in Modes : set_mode(m)
    BY <2>2, <1>1, NodesFinite DEF set_mode, ReplTypeOK, ReplInv
  <2>3. CASE ProcessStops
    BY <2>3, <1>1, NodesFinite DEF ProcessStops, ReplTypeOK, ReplInv
  <2>4. CASE \E n \in Nodes : LoseHost(n)
    BY <2>4, <1>1, NodesFinite DEF LoseHost, ReplTypeOK, ReplInv
  <2>5. CASE \E n \in Replicas : promote_to_primary(n)
    BY <2>5, <1>1, NodesFinite DEF promote_to_primary, ReplTypeOK, ReplInv
  <2> QED BY <2>1, <2>2, <2>3, <2>4, <2>5
<1>3. \A f \in promoted' : \E n \in Replicas : f = journal[n]
  BY <1>1 DEF ReplInv
<1>4. \A n \in Replicas : journal[n] \in Seq(Frames)
  BY <1>1 DEF ReplTypeOK, Nodes
<1>5. ReplTypeOK'
  <2>1. \A f \in promoted' : f \in Seq(Frames)
    BY <1>3, <1>4
  <2>2. UNCHANGED <<required_acks, tearing, retrying, journal, lsn, acknowledged>>
    BY <1>1 DEF settings
  <2> QED BY <1>1, <1>2, <2>1, <2>2 DEF ReplTypeOK
<1>6. \A m, l : HasCopy(m, l)' <=> HasCopy(m, l)
  BY <1>1 DEF HasCopy
<1>7. ConfirmedOnQuorum'
  <2>1. \A l : {n \in Nodes : HasCopy(n, l)'} = {n \in Nodes : HasCopy(n, l)}
    BY <1>6
  <2>2. required_acks' = required_acks /\ acknowledged' = acknowledged
    BY <1>1 DEF settings
  <2> QED BY <2>1, <2>2 DEF ReplInv, ConfirmedOnQuorum
<1>8. PrimaryFirst' /\ (~ retrying => OneFramePerLsn)'
  BY <1>1, <1>6 DEF ReplInv, PrimaryFirst, OneFramePerLsn, settings
<1>9. (~ retrying /\ replPhase # "down" => FramesAreEarlier)'
  <2> SUFFICES ASSUME ~ retrying, replPhase' # "down"
               PROVE  FramesAreEarlier'
    BY <1>1 DEF settings
  <2>1. replPhase \in {"idle", "primary"} /\ FramesAreEarlier
    BY <1>1, <1>2 DEF ReplInv, ReplTypeOK
  <2> QED BY <1>1, <2>1 DEF FramesAreEarlier
<1>10. (~ tearing => \A n \in Nodes : \A i \in DOMAIN journal[n] : journal[n][i].intact)'
  BY <1>1 DEF ReplInv, settings
<1>11. (\A n \in Nodes : Len(journal[n]) <= MaxReplFrames)'
  BY <1>1 DEF ReplInv
<1>12. (replPhase \in {"primary", "replicas"} => lsn <= MaxReplLsn)'
  BY <1>1, <1>2
<1>13. (\A f \in promoted : \E n \in Replicas : f = journal[n])'
  BY <1>1, <1>3
<1> QED BY <1>2, <1>5, <1>7, <1>8, <1>9, <1>10, <1>11, <1>12, <1>13 DEF ReplInv

\* An empty cluster satisfies the invariant.
LEMMA ReplInitInv == ASSUME ReplInit PROVE ReplInv
<1>1. journal = [n \in Nodes |-> <<>>] /\ \A n \in Nodes : journal[n] = <<>> /\ DOMAIN journal[n] = {}
  BY DEF ReplInit
<1>2. ReplTypeOK
  BY <1>1, NodesFinite, ReplicaAssumption DEF ReplInit, ReplTypeOK
<1>3. \A n \in Nodes : Len(journal[n]) <= MaxReplFrames
  BY <1>1, ReplicaAssumption
<1>4. PrimaryFirst /\ OneFramePerLsn /\ FramesAreEarlier /\ ConfirmedOnQuorum
  BY <1>1 DEF PrimaryFirst, OneFramePerLsn, FramesAreEarlier, ConfirmedOnQuorum, HasCopy, ReplInit, Nodes
<1> QED BY <1>1, <1>2, <1>3, <1>4 DEF ReplInit, ReplInv

\* The invariant holds for any number of replicas, any quorums and records,
\* whichever writes fail and whoever is promoted (replicated_journal.rs:105-224).
THEOREM ReplInvariant == ReplSpec => []ReplInv
<1>1. ReplInit => ReplInv
  BY ReplInitInv
<1>2. ReplInv /\ [ReplNext]_replVars => ReplInv'
  <2> SUFFICES ASSUME ReplInv, [ReplNext]_replVars PROVE ReplInv'
    OBVIOUS
  <2>1. CASE PrimaryOk \/ PrimaryFails
    BY <2>1, PrimaryKeepsInv
  <2>2. CASE \E n \in Replicas, ok \in BOOLEAN : WriteReplica(n, ok)
    BY <2>2, ReplicaKeepsInv
  <2>3. CASE EndAppend
    BY <2>3, EndKeepsInv
  <2>4. CASE BeginAppend \/ (\E m \in Modes : set_mode(m)) \/ ProcessStops
             \/ (\E n \in Nodes : LoseHost(n)) \/ (\E n \in Replicas : promote_to_primary(n))
    BY <2>4, OtherKeepsInv
  <2>5. CASE UNCHANGED replVars
    <3>1. UNCHANGED <<required_acks, tearing, retrying, mode, journal, lsn, replPhase, todo, acks, lost,
                      acknowledged, promoted>>
      BY <2>5 DEF replVars, settings
    <3>2. \A n, l : HasCopy(n, l)' <=> HasCopy(n, l)
      BY <3>1 DEF HasCopy
    <3>3. DoneWithCopy' = DoneWithCopy
      BY <3>1, <3>2 DEF DoneWithCopy
    <3>4. ReplTypeOK' /\ PrimaryFirst' /\ (OneFramePerLsn' <=> OneFramePerLsn) /\ (FramesAreEarlier' <=> FramesAreEarlier)
      BY <3>1, <3>2 DEF ReplInv, ReplTypeOK, PrimaryFirst, OneFramePerLsn, FramesAreEarlier
    <3>5. ConfirmedOnQuorum'
      <4>1. \A l : {n \in Nodes : HasCopy(n, l)'} = {n \in Nodes : HasCopy(n, l)}
        BY <3>2
      <4> QED BY <3>1, <4>1 DEF ReplInv, ConfirmedOnQuorum
    <3> QED BY <3>1, <3>2, <3>3, <3>4, <3>5 DEF ReplInv
  <2> QED BY <2>1, <2>2, <2>3, <2>4, <2>5 DEF ReplNext
<1> QED BY <1>1, <1>2, PTL DEF ReplSpec

\* Positions that recover_quorum counts for l.
Counted(l) == {c \in Surviving \X (1..MaxReplFrames) :
                  c[2] \in Readable(journal[c[1]]) /\ journal[c[1]][c[2]].lsn = l}

\* Only finitely many positions are counted.
LEMMA CountedFinite ==
    ASSUME NEW l PROVE IsFiniteSet(Counted(l)) /\ AckCount(l) = Cardinality(Counted(l))
                       /\ Cardinality(Counted(l)) \in Nat
<1>1. IsFiniteSet(Surviving) /\ IsFiniteSet(1..MaxReplFrames)
  BY NodesFinite, FS_Subset, FS_Interval, ReplicaAssumption DEF Surviving
<1>2. IsFiniteSet(Surviving \X (1..MaxReplFrames))
  BY <1>1, FS_Product
<1>3. Counted(l) \subseteq Surviving \X (1..MaxReplFrames)
  BY DEF Counted
<1> QED BY <1>2, <1>3, FS_Subset, FS_CardinalityType DEF AckCount, Counted

\* When every frame is intact, recovery counts at least the nodes with a copy.
LEMMA HoldersAreCounted ==
    ASSUME ReplInv, ~ tearing, lost = {}, NEW l \in 1..MaxReplLsn
    PROVE  Cardinality({n \in Nodes : HasCopy(n, l)}) <= AckCount(l)
<1> DEFINE H == {n \in Nodes : HasCopy(n, l)}
           At(n) == CHOOSE i \in DOMAIN journal[n] : journal[n][i].intact /\ journal[n][i].lsn = l
           f == [n \in H |-> <<n, At(n)>>]
<1>1. \A n \in H : At(n) \in DOMAIN journal[n] /\ journal[n][At(n)].lsn = l
  BY DEF HasCopy
<1>2. /\ \A n \in Nodes : journal[n] \in Seq(Frames) /\ Len(journal[n]) <= MaxReplFrames
      /\ \A n \in Nodes : \A i \in DOMAIN journal[n] : journal[n][i].intact
      /\ MaxReplFrames \in Nat /\ Surviving = Nodes
  BY ReplicaAssumption DEF ReplInv, ReplTypeOK, Surviving
<1>3. \A n \in Nodes : DOMAIN journal[n] = 1..Len(journal[n]) /\ Len(journal[n]) \in Nat
  BY <1>2, LenProperties
<1> HIDE DEF At
<1>4. \A n \in H : At(n) \in 1..MaxReplFrames /\ At(n) \in Readable(journal[n])
  <2> TAKE n \in H
  <2>1. At(n) \in 1..Len(journal[n])
    BY <1>1, <1>3
  <2>2. \A h \in 1..At(n) : h \in DOMAIN journal[n]
    BY <2>1, <1>3
  <2>3. At(n) \in Readable(journal[n])
    BY <1>1, <1>2, <2>2 DEF Readable
  <2> QED BY <2>1, <2>3, <1>2, <1>3
<1>5. \A n \in H : <<n, At(n)>> \in Counted(l)
  <2> TAKE n \in H
  <2> DEFINE c == <<n, At(n)>>
  <2>1. c \in Surviving \X (1..MaxReplFrames) /\ c[1] = n /\ c[2] = At(n)
    BY <1>2, <1>4
  <2>2. c[2] \in Readable(journal[c[1]]) /\ journal[c[1]][c[2]].lsn = l
    BY <2>1, <1>1, <1>4
  <2> HIDE DEF c
  <2>3. c \in Counted(l)
    BY <2>1, <2>2 DEF Counted
  <2> QED BY <2>3 DEF c
<1>6. f \in Injection(H, Counted(l))
  <2>1. f \in [H -> Counted(l)]
    BY <1>5
  <2>2. \A a, b \in H : f[a] = f[b] => a = b
    OBVIOUS
  <2> HIDE DEF f
  <2> QED BY <2>1, <2>2 DEF Injection, IsInjective
<1> HIDE DEF f
<1>7. IsFiniteSet(H) /\ Cardinality(H) <= Cardinality(Counted(l))
  BY <1>6, CountedFinite, FS_Injection
<1> QED BY <1>7, CountedFinite

\* With one frame per LSN a node is counted once, and it has a copy.
LEMMA CountedAreHolders ==
    ASSUME ReplInv, ~ retrying, NEW l
    PROVE  AckCount(l) <= Cardinality({n \in Surviving : HasCopy(n, l)})
<1> DEFINE H == {n \in Surviving : HasCopy(n, l)}
           f == [c \in Counted(l) |-> c[1]]
<1>1. /\ \A n \in Nodes : journal[n] \in Seq(Frames)
      /\ OneFramePerLsn /\ Surviving \subseteq Nodes
  BY DEF ReplInv, ReplTypeOK, Surviving
<1>2. \A n \in Nodes : DOMAIN journal[n] = 1..Len(journal[n]) /\ Len(journal[n]) \in Nat
  BY <1>1, LenProperties
<1>3. \A c \in Counted(l) : /\ c = <<c[1], c[2]>> /\ c[1] \in Surviving /\ c[2] \in DOMAIN journal[c[1]]
                            /\ journal[c[1]][c[2]].intact /\ journal[c[1]][c[2]].lsn = l
  <2> TAKE c \in Counted(l)
  <2>1. /\ c \in Surviving \X (1..MaxReplFrames)
        /\ c[2] \in Readable(journal[c[1]]) /\ journal[c[1]][c[2]].lsn = l
    BY DEF Counted
  <2>2. c[2] \in DOMAIN journal[c[1]] /\ (c[2] \in Nat /\ c[2] >= 1 => journal[c[1]][c[2]].intact)
    BY <2>1 DEF Readable
  <2>3. c[2] \in Nat /\ c[2] >= 1
    BY <2>1
  <2> QED BY <2>1, <2>2, <2>3
<1>4. \A c \in Counted(l) : c[1] \in H
  BY <1>3 DEF HasCopy
<1>5. \A a, b \in Counted(l) : a[1] = b[1] => a = b
  <2> TAKE a, b \in Counted(l)
  <2> HAVE a[1] = b[1]
  <2>1. a[2] = b[2]
    BY <1>1, <1>3 DEF OneFramePerLsn
  <2> QED BY <2>1, <1>3
<1>6. f \in Injection(Counted(l), H)
  <2>1. f \in [Counted(l) -> H]
    BY <1>4
  <2>2. \A a, b \in Counted(l) : f[a] = f[b] => a = b
    BY <1>5
  <2> HIDE DEF f
  <2> QED BY <2>1, <2>2 DEF Injection, IsInjective
<1> HIDE DEF f
<1>7. IsFiniteSet(H)
  BY <1>1, NodesFinite, FS_Subset
<1>8. Cardinality(Counted(l)) <= Cardinality(H)
  BY <1>6, <1>7, FS_Injection
<1> QED BY <1>8, CountedFinite

\* The invariant is strong enough.
LEMMA ReplInvIsEnough == ASSUME ReplInv PROVE QuorumIsKept
<1>1. /\ ReplTypeOK /\ ConfirmedOnQuorum /\ PrimaryFirst /\ required_acks \in Nat /\ lsn \in Nat
      /\ acknowledged \subseteq 1..MaxReplLsn
  BY ReplicaAssumption DEF ReplInv, ReplTypeOK
<1>2. ConfirmedRecovered
  <2> SUFFICES ASSUME ~ tearing, lost = {}, acknowledged = 1..(lsn - 1), required_acks # 0, NEW l \in acknowledged
               PROVE  l \in recover_quorum
    BY DEF ConfirmedRecovered
  <2>1. \A k \in 1..l : k \in acknowledged /\ k \in 1..MaxReplLsn
    BY <1>1
  <2>2. \A k \in 1..l : AckCount(k) >= required_acks
    <3> TAKE k \in 1..l
    <3>1. Cardinality({n \in Nodes : HasCopy(n, k)}) >= required_acks
      BY <1>1, <2>1 DEF ConfirmedOnQuorum
    <3>2. Cardinality({n \in Nodes : HasCopy(n, k)}) <= AckCount(k)
      BY <2>1, HoldersAreCounted
    <3>3. AckCount(k) \in Nat /\ Cardinality({n \in Nodes : HasCopy(n, k)}) \in Nat
      BY CountedFinite, NodeSetGrows
    <3> QED BY <1>1, <3>1, <3>2, <3>3
  <2> QED BY <1>1, <2>2 DEF recover_quorum
<1>3. RecoveredOnQuorum
  <2> SUFFICES ASSUME ~ retrying, NEW l \in recover_quorum
               PROVE  Cardinality({n \in Surviving : HasCopy(n, l)}) >= required_acks
    BY DEF RecoveredOnQuorum
  <2>1. AckCount(l) >= required_acks
    <3>1. l \in 1..l /\ \A k \in 1..l : AckCount(k) >= required_acks
      BY DEF recover_quorum
    <3> QED BY <3>1
  <2>2. AckCount(l) <= Cardinality({n \in Surviving : HasCopy(n, l)})
    BY CountedAreHolders
  <2>3. AckCount(l) \in Nat /\ Cardinality({n \in Surviving : HasCopy(n, l)}) \in Nat
    BY CountedFinite, NodeSetGrows DEF Surviving
  <2> QED BY <1>1, <2>1, <2>2, <2>3
<1>4. PromotedHasConfirmed
  <2> SUFFICES ASSUME required_acks = Cardinality(Nodes), NEW f \in promoted, NEW l \in acknowledged
               PROVE  \E i \in DOMAIN f : f[i].intact /\ f[i].lsn = l
    BY DEF PromotedHasConfirmed
  <2>1. PICK n \in Replicas : f = journal[n]
    BY DEF ReplInv
  <2>2. Cardinality({m \in Nodes : HasCopy(m, l)}) >= Cardinality(Nodes)
    BY <1>1 DEF ConfirmedOnQuorum
  <2>3. {m \in Nodes : HasCopy(m, l)} = Nodes
    <3> DEFINE H == {m \in Nodes : HasCopy(m, l)}
    <3>1. H \subseteq Nodes
      OBVIOUS
    <3> HIDE DEF H
    <3>2. Cardinality(H) <= Cardinality(Nodes) /\ Cardinality(H) \in Nat /\ Cardinality(Nodes) \in Nat
      BY <3>1, NodeSetGrows
    <3>3. Cardinality(H) = Cardinality(Nodes)
      BY <2>2, <3>2 DEF H
    <3>4. H = Nodes
      BY <3>1, <3>3, NodesFinite, FS_Subset
    <3> QED BY <3>4 DEF H
  <2>4. HasCopy(n, l)
    BY <2>3 DEF Nodes
  <2> QED BY <2>1, <2>4 DEF HasCopy
<1> QED BY <1>1, <1>2, <1>3, <1>4 DEF QuorumIsKept

\* What a quorum acknowledged is on a quorum, recovery and promotion return it
\* and nothing that too few nodes hold, for any number of replicas; a quorum
\* of nobody recovers nothing
\* (replicated_journal.rs:105-224).
THEOREM QuorumKept == ReplSpec => []QuorumIsKept
BY ReplInvariant, ReplInvIsEnough, PTL
-------------------------------------------------------------------------------
(* Transactions over the journal (transaction.rs, with wal.rs). *)

\* A record is that of the transaction at its LSN.
Recorded(r, txs) == r.data.tx \in DOMAIN txs /\ txs[r.data.tx] = r.lsn

\* Where the record of a transaction is.
Waits(t) == \E i \in 1..Len(ring) : ring[i].data.tx = t
OnFile(t) == \E i \in 1..Len(file) : file[i].intact /\ file[i].rec.data.tx = t

\* Every record, also one of a torn frame, is that of an executed transaction;
\* every executed transaction waits in the ring or is whole in the file.
TxInv ==
    /\ WalInv /\ phase # "down"
    /\ \A i \in 1..Len(ring) : Recorded(ring[i], executed_txs)
    /\ \A i \in 1..Len(file) : Recorded(file[i].rec, executed_txs)
    /\ \A t \in DOMAIN executed_txs : Waits(t) \/ OnFile(t)
    /\ awaiting \subseteq DOMAIN executed_txs
    /\ AckedIsSynced

\* Journal and file have the length their domains say.
LEMMA TxRanges ==
    ASSUME WalTypeOK
    PROVE  /\ ring \in Seq(Record) /\ Len(ring) \in Nat /\ DOMAIN ring = 1..Len(ring)
           /\ file \in Seq(Frame) /\ Len(file) \in Nat /\ DOMAIN file = 1..Len(file)
           /\ synced \in 0..Len(file)
BY LenProperties DEF WalTypeOK

\* execute_transaction appends the record of a transaction that has none
\* (transaction.rs:339).
LEMMA ExecuteKeepsInv ==
    ASSUME Commands \subseteq Payloads, TxInv, NEW tx \in TxIds, NEW op \in Ops, NEW s, NEW g, NEW durable,
           execute_transaction(tx, op, s, g, durable)
    PROVE  TxInv'
<1> DEFINE d == [tx |-> tx, op |-> op]
           r == [lsn |-> current_lsn + 1, epoch |-> epoch, data |-> d]
<1>1. /\ tx \notin DOMAIN executed_txs /\ append(d) /\ UNCHANGED acked
      /\ executed_txs' = [t \in DOMAIN executed_txs \union {tx} |->
                             IF t = tx THEN current_lsn + 1 ELSE executed_txs[t]]
      /\ awaiting' \subseteq {tx}
  BY DEF execute_transaction, Admitted, Commit
<1>2. WalInv' /\ phase' # "down"
  <2>1. d \in Payloads
    BY DEF Commands
  <2>2. WalInv'
    BY <2>1, <1>1, AppendKeepsInv DEF TxInv
  <2> QED BY <2>2, <1>1 DEF append
<1>3. /\ ring' = Append(ring, r) /\ UNCHANGED <<file, synced>>
      /\ r.data.tx = tx /\ r.lsn = current_lsn + 1
  BY <1>1 DEF append
<1> HIDE DEF d, r
<1>4. /\ Len(ring') = Len(ring) + 1 /\ Len(ring) \in Nat
      /\ \A i \in 1..Len(ring) : ring'[i] = ring[i]
      /\ ring'[Len(ring) + 1] = r
  <2>1. ring' \in Seq(Record)
    BY <1>2, TxRanges DEF WalInv, WalTypeOK
  <2>2. ring \in Seq(Record)
    BY TxRanges DEF TxInv, WalInv
  <2> QED BY <2>1, <2>2, <1>3, LenProperties
<1>5. /\ DOMAIN executed_txs' = DOMAIN executed_txs \union {tx}
      /\ executed_txs'[tx] = current_lsn + 1
      /\ \A t \in DOMAIN executed_txs : executed_txs'[t] = executed_txs[t]
  BY <1>1
<1>6. \A q : Recorded(q, executed_txs) => Recorded(q, executed_txs')
  BY <1>5 DEF Recorded
<1>7. Recorded(r, executed_txs')
  BY <1>3, <1>5 DEF Recorded
<1>8. (\A i \in 1..Len(ring) : Recorded(ring[i], executed_txs))'
  <2> SUFFICES ASSUME NEW i \in 1..(Len(ring) + 1) PROVE Recorded(ring'[i], executed_txs')
    BY <1>4
  <2>1. CASE i \in 1..Len(ring)
    BY <2>1, <1>4, <1>6 DEF TxInv
  <2>2. CASE i = Len(ring) + 1
    BY <2>2, <1>4, <1>7
  <2> QED BY <2>1, <2>2, <1>4
<1>9. (\A i \in 1..Len(file) : Recorded(file[i].rec, executed_txs))'
  BY <1>3, <1>6 DEF TxInv
<1>10. (\A t \in DOMAIN executed_txs : Waits(t) \/ OnFile(t))'
  <2>1. Waits(tx)'
    <3>1. Len(ring) + 1 \in 1..Len(ring') /\ ring'[Len(ring) + 1].data.tx = tx
      BY <1>3, <1>4
    <3> QED BY <3>1 DEF Waits
  <2>2. ASSUME NEW t \in DOMAIN executed_txs PROVE (Waits(t) \/ OnFile(t))'
    <3>1. CASE Waits(t)
      <4>1. PICK i \in 1..Len(ring) : ring[i].data.tx = t
        BY <3>1 DEF Waits
      <4>2. i \in 1..Len(ring') /\ ring'[i].data.tx = t
        BY <4>1, <1>4
      <4> QED BY <4>2 DEF Waits
    <3>2. CASE OnFile(t)
      BY <3>2, <1>3 DEF OnFile
    <3> QED BY <3>1, <3>2 DEF TxInv
  <2> QED BY <2>1, <2>2, <1>5
<1>11. (awaiting \subseteq DOMAIN executed_txs)' /\ AckedIsSynced'
  BY <1>1, <1>3, <1>5 DEF TxInv, AckedIsSynced
<1> QED BY <1>2, <1>8, <1>9, <1>10, <1>11 DEF TxInv

\* A flush moves records from the ring to the file and keeps all it finds.
Moved ==
    /\ Len(file') \in Nat /\ Len(file') >= Len(file)
    /\ \A i \in 1..Len(file) : file'[i] = file[i]
    /\ \A i \in (Len(file) + 1)..Len(file') : \E k \in 1..Len(ring) : file'[i].rec = ring[k]
    /\ \A i \in 1..Len(ring') : \E k \in 1..Len(ring) : ring'[i] = ring[k]
    /\ \A k \in 1..Len(ring) : \/ \E i \in 1..Len(ring') : ring'[i] = ring[k]
                               \/ \E i \in 1..Len(file') : file'[i].intact /\ file'[i].rec = ring[k]

\* Then no record is lost sight of (wal.rs:440-498).
LEMMA FileGrows ==
    ASSUME TxInv, WalInv', phase' # "down", UNCHANGED <<executed_txs, acked>>, awaiting' \subseteq awaiting,
           synced' = synced, Moved
    PROVE  TxInv'
<1>0. /\ Len(file') \in Nat /\ Len(file') >= Len(file)
      /\ \A i \in 1..Len(file) : file'[i] = file[i]
      /\ \A i \in (Len(file) + 1)..Len(file') : \E k \in 1..Len(ring) : file'[i].rec = ring[k]
      /\ \A i \in 1..Len(ring') : \E k \in 1..Len(ring) : ring'[i] = ring[k]
      /\ \A k \in 1..Len(ring) : \/ \E i \in 1..Len(ring') : ring'[i] = ring[k]
                                 \/ \E i \in 1..Len(file') : file'[i].intact /\ file'[i].rec = ring[k]
  BY DEF Moved
<1>1. Len(file) \in Nat /\ synced \in 0..Len(file)
  BY TxRanges DEF TxInv, WalInv
<1>2. \A i \in 1..Len(file) : i \in 1..Len(file') /\ file'[i] = file[i]
  BY <1>0, <1>1
<1>3. \A q : Recorded(q, executed_txs) => Recorded(q, executed_txs')
  BY DEF Recorded
<1>4. (\A i \in 1..Len(ring) : Recorded(ring[i], executed_txs))'
  BY <1>0, <1>3 DEF TxInv
<1>5. (\A i \in 1..Len(file) : Recorded(file[i].rec, executed_txs))'
  <2> SUFFICES ASSUME NEW i \in 1..Len(file') PROVE Recorded(file'[i].rec, executed_txs')
    OBVIOUS
  <2>1. CASE i \in 1..Len(file)
    BY <2>1, <1>0, <1>3 DEF TxInv
  <2>2. CASE i \in (Len(file) + 1)..Len(file')
    BY <2>2, <1>0, <1>3 DEF TxInv
  <2> QED BY <2>1, <2>2, <1>0, <1>1
<1>6. ASSUME NEW t, OnFile(t) PROVE OnFile(t)'
  BY <1>2, <1>6 DEF OnFile
<1>7. ASSUME NEW t, Waits(t) PROVE (Waits(t) \/ OnFile(t))'
  <2>1. PICK k \in 1..Len(ring) : ring[k].data.tx = t
    BY <1>7 DEF Waits
  <2> QED BY <2>1, <1>0 DEF Waits, OnFile
<1>8. (\A t \in DOMAIN executed_txs : Waits(t) \/ OnFile(t))'
  BY <1>6, <1>7 DEF TxInv
<1>9. AckedIsSynced'
  <2> SUFFICES ASSUME NEW t \in acked
               PROVE  \E i \in 1..synced : file'[i].intact /\ file'[i].rec.data.tx = t
    BY DEF AckedIsSynced
  <2>1. PICK i \in 1..synced : file[i].intact /\ file[i].rec.data.tx = t
    BY DEF TxInv, AckedIsSynced
  <2>2. i \in 1..Len(file)
    BY <1>1
  <2> QED BY <2>1, <2>2, <1>2
<1> QED BY <1>4, <1>5, <1>8, <1>9 DEF TxInv

\* A batch moves from the ring to the file, where its records are whole
\* (durable_journal.rs, append_batch).
LEMMA BatchMoved ==
    ASSUME TxInv, WriteBatch
    PROVE  Moved /\ WalInv' /\ phase' # "down" /\ synced' = synced
<1>1. WalInv' /\ WalTypeOK /\ phase' # "down" /\ synced' = synced
  BY WriteBatchKeepsInv DEF TxInv, WriteBatch, WalInv
<1> DEFINE n == BatchLen
<1>2. /\ Len(ring) \in Nat /\ n \in 0..Len(ring) /\ ring \in Seq(Record) /\ Len(file) \in Nat
  BY <1>1, TxRanges, WalBatchAssumption DEF BatchLen
<1>3. /\ file' = file \o frames(SubSeq(ring, 1, n)) /\ ring' = SubSeq(ring, n + 1, Len(ring))
  BY DEF WriteBatch
<1> HIDE DEF n
<1>4. /\ Len(file') = Len(file) + n
      /\ \A i \in 1..Len(file) : file'[i] = file[i]
      /\ \A i \in (Len(file) + 1)..(Len(file) + n) : file'[i] = whole(ring[i - Len(file)])
  BY <1>1, <1>2, <1>3, WrittenProperties
<1>5. Len(ring') = Len(ring) - n /\ \A i \in 1..(Len(ring) - n) : ring'[i] = ring[n + i]
  <2>1. \A i \in (n + 1)..Len(ring) : ring[i] \in Record
    BY <1>2, ElementOfSeq
  <2> QED BY <2>1, <1>2, <1>3, SubSeqProperties
<1>6. ASSUME NEW i \in (Len(file) + 1)..Len(file')
      PROVE  \E k \in 1..Len(ring) : file'[i].rec = ring[k]
  <2>1. i - Len(file) \in 1..Len(ring) /\ i \in (Len(file) + 1)..(Len(file) + n)
    BY <1>2, <1>4
  <2>2. file'[i].rec = ring[i - Len(file)]
    <3>1. file'[i] = whole(ring[i - Len(file)])
      BY <2>1, <1>4
    <3> QED BY <3>1 DEF whole
  <2> QED BY <2>1, <2>2
<1>7. ASSUME NEW i \in 1..Len(ring') PROVE \E k \in 1..Len(ring) : ring'[i] = ring[k]
  <2>1. n + i \in 1..Len(ring) /\ ring'[i] = ring[n + i]
    BY <1>2, <1>5
  <2> QED BY <2>1
<1>8. ASSUME NEW k \in 1..Len(ring)
      PROVE  \/ \E i \in 1..Len(ring') : ring'[i] = ring[k]
             \/ \E i \in 1..Len(file') : file'[i].intact /\ file'[i].rec = ring[k]
  <2>1. CASE k <= n
    <3> DEFINE i == Len(file) + k
    <3>1. i \in (Len(file) + 1)..(Len(file) + n) /\ i - Len(file) = k /\ i \in 1..Len(file')
      BY <2>1, <1>2, <1>4
    <3> HIDE DEF i
    <3>2. file'[i] = whole(ring[k])
      BY <3>1, <1>4
    <3> QED BY <3>1, <3>2 DEF whole
  <2>2. CASE k > n
    <3>1. k - n \in 1..(Len(ring) - n) /\ n + (k - n) = k
      BY <2>2, <1>2
    <3>2. ring'[k - n] = ring[k]
      BY <3>1, <1>5
    <3> QED BY <3>1, <3>2, <1>5
  <2> QED BY <2>1, <2>2, <1>2
<1>9. Len(file') \in Nat /\ Len(file') >= Len(file)
  BY <1>2, <1>4
<1> QED BY <1>1, <1>4, <1>6, <1>7, <1>8, <1>9 DEF Moved

\* Its transactions stay recorded.
LEMMA BatchWrittenKeepsInv ==
    ASSUME TxInv, WriteBatch, UNCHANGED txVars
    PROVE  TxInv'
BY BatchMoved, FileGrows DEF txVars

\* A batch that fails leaves its records in the ring, whatever part of it is in
\* the file (wal.rs:468-496).
LEMMA FailedBatchMoved == ASSUME TxInv, WriteBatchFails PROVE Moved
<1>1. /\ Len(file') \in Nat /\ Len(file') >= Len(file)
      /\ \A i \in 1..Len(file) : file'[i] = file[i]
      /\ \A i \in (Len(file) + 1)..Len(file') : \E k \in 1..Len(ring) : file'[i].rec = ring[k]
  BY FailedBatch DEF TxInv
<1>2. ring' = ring
  BY DEF WriteBatchFails
<1> QED BY <1>1, <1>2 DEF Moved

\* Its caller is told (transaction.rs:623-656).
LEMMA BatchFailedKeepsInv ==
    ASSUME TxInv, WriteBatchFails, awaiting' = {}, UNCHANGED <<executed_txs, acked>>
    PROVE  TxInv'
<1>1. WalInv' /\ phase' # "down" /\ synced' = synced
  BY WriteBatchFailsKeepsInv DEF TxInv, WriteBatchFails
<1> QED BY <1>1, FailedBatchMoved, FileGrows

\* A sync that succeeds covers all that was executed, so the caller is told
\* the truth (transaction.rs:623-656).
LEMMA SyncedKeepsInv == ASSUME TxInv, flush_ok PROVE TxInv'
<1>1. /\ SyncOk /\ acked' = acked \union awaiting /\ awaiting' = {} /\ UNCHANGED executed_txs
  BY DEF flush_ok
<1>2. WalInv' /\ phase' # "down" /\ UNCHANGED <<ring, file>> /\ synced' = Len(file) /\ ring = <<>>
  BY <1>1, SyncOkKeepsInv DEF TxInv, SyncOk, WalInv
<1>3. Len(file) \in Nat /\ synced \in 0..Len(file) /\ Len(ring) = 0
  BY <1>2, TxRanges DEF TxInv, WalInv
<1>4. ASSUME NEW t \in acked \union awaiting
      PROVE  \E i \in 1..Len(file) : file[i].intact /\ file[i].rec.data.tx = t
  <2>1. CASE t \in acked
    <3>1. PICK i \in 1..synced : file[i].intact /\ file[i].rec.data.tx = t
      BY <2>1 DEF TxInv, AckedIsSynced
    <3>2. i \in 1..Len(file)
      BY <1>3
    <3> QED BY <3>1, <3>2
  <2>2. CASE t \in awaiting
    <3>1. Waits(t) \/ OnFile(t)
      BY <2>2 DEF TxInv
    <3>2. ~ Waits(t)
      BY <1>3 DEF Waits
    <3> QED BY <3>1, <3>2 DEF OnFile
  <2> QED BY <2>1, <2>2
<1>5. AckedIsSynced'
  BY <1>1, <1>2, <1>4 DEF AckedIsSynced
<1> QED BY <1>1, <1>2, <1>5 DEF TxInv, Recorded, Waits, OnFile

\* What neither the ring nor the file sees: a transaction that is refused, the
\* locks, and the steps between the batches (transaction.rs:327-656).
LEMMA OtherTxKeepsInv ==
    ASSUME TxInv, WalInv', phase' # "down", awaiting' \subseteq awaiting,
           UNCHANGED <<ring, file, synced, executed_txs, acked>>
    PROVE  TxInv'
BY DEF TxInv, Recorded, Waits, OnFile, AckedIsSynced

\* Every step of the manager keeps the invariant (transaction.rs:327-656).
LEMMA TxStep == ASSUME Commands \subseteq Payloads, TxInv, [Next]_vars PROVE TxInv'
<1>1. CASE \E tx \in TxIds, op \in Ops, g \in issued, s \in Sessions, durable \in BOOLEAN :
              execute_transaction(tx, op, s, g, durable)
  BY <1>1, ExecuteKeepsInv
<1>2. ASSUME UNCHANGED walVars, UNCHANGED <<executed_txs, acked>>, awaiting' \subseteq awaiting
      PROVE  TxInv'
  <2>1. WalInv' /\ phase' # "down" /\ UNCHANGED <<ring, file, synced>>
    BY <1>2, WalKeepsInv DEF TxInv, walVars
  <2> QED BY <2>1, <1>2, OtherTxKeepsInv
<1>3. CASE \/ \E tx \in TxIds, op \in Ops, g \in issued, s \in Sessions :
                 execute_buffer_full(tx, op, s, g) \/ execute_aborted(tx, op, s, g)
           \/ acquire \/ advance_tick \/ UNCHANGED vars
  <2>1. UNCHANGED walVars /\ UNCHANGED <<executed_txs, acked>> /\ awaiting' \subseteq awaiting
    BY <1>3 DEF execute_buffer_full, execute_aborted, acquire, advance_tick, vars, txVars
  <2> QED BY <2>1, <1>2
<1>4. CASE flush_begin \/ (flush_step /\ EndWrites) \/ (flush_fails /\ SyncFails)
  <2>1. /\ BeginFlush \/ EndWrites \/ SyncFails
        /\ UNCHANGED <<executed_txs, acked>> /\ awaiting' \subseteq awaiting
    BY <1>4 DEF flush_begin, flush_step, flush_fails, txVars
  <2>2. WalInv'
    BY <2>1, WalKeepsInv DEF TxInv, WalNext, WalStep
  <2>3. phase' # "down" /\ UNCHANGED <<ring, file, synced>>
    BY <2>1 DEF BeginFlush, EndWrites, SyncFails
  <2> QED BY <2>1, <2>2, <2>3, OtherTxKeepsInv
<1>5. CASE flush_step /\ WriteBatch
  BY <1>5, BatchWrittenKeepsInv DEF flush_step
<1>6. CASE flush_fails /\ WriteBatchFails
  BY <1>6, BatchFailedKeepsInv DEF flush_fails
<1>7. CASE flush_ok
  BY <1>7, SyncedKeepsInv
<1>8. flush_step => WriteBatch \/ EndWrites
  BY DEF flush_step
<1>9. flush_fails => WriteBatchFails \/ SyncFails
  BY DEF flush_fails
<1> QED BY <1>1, <1>3, <1>4, <1>5, <1>6, <1>7, <1>8, <1>9 DEF Next

\* No transaction is executed at first (TransactionManager::new).
LEMMA TxInit == ASSUME Init PROVE TxInv
<1>1. WalInv /\ phase # "down" /\ Len(ring) = 0 /\ Len(file) = 0
  BY WalInitInv DEF Init, WalInit
<1>2. DOMAIN executed_txs = {} /\ awaiting = {} /\ acked = {}
  BY DEF Init
<1> QED BY <1>1, <1>2 DEF TxInv, AckedIsSynced

\* A transaction has one record whoever sends it and however often, and is on
\* stable storage when its caller is answered Ok, for any sessions, any
\* accounts and any operations (transaction.rs:339, 623-656).
THEOREM TransactionsRecorded == ASSUME Commands \subseteq Payloads PROVE Spec => []RecordedOnce
<1>1. Init => TxInv
  BY TxInit
<1>2. TxInv /\ [Next]_vars => TxInv'
  BY TxStep
<1>3. TxInv => RecordedOnce
  <2> SUFFICES ASSUME TxInv PROVE ExactlyOnce
    BY DEF TxInv, RecordedOnce
  <2>1. \A r \in Journalled : Recorded(r, executed_txs)
    <3>1. DOMAIN ring = 1..Len(ring) /\ DOMAIN file = 1..Len(file)
      BY TxRanges DEF TxInv, WalInv
    <3> QED BY <3>1 DEF TxInv, Journalled
  <2> QED BY <2>1 DEF ExactlyOnce, Recorded
<1> QED BY <1>1, <1>2, <1>3, PTL DEF Spec
-------------------------------------------------------------------------------
(* What the accounts own (transaction.rs, AccountState). *)

\* Accounts whose stacks are not empty.
Owned ==
    [currency : [Currencies -> 0..MaxBalance],
     inventory : [1..InvSlots -> OwnedStacks],
     equipment : [EquipSlots -> Items \union {NoItem}]]

\* What one slot of the inventory and one of the gear hold are numbers, and so
\* is what an account holds (transaction.rs:30-56).
LEMMA HoldingsAreNumbers ==
    ASSUME NEW a \in Owned, NEW i
    PROVE  /\ Carried(a, i) \in [1..InvSlots -> Int] /\ Worn(a, i) \in [EquipSlots -> Int]
           /\ IsFiniteSet(1..InvSlots) /\ IsFiniteSet(EquipSlots)
           /\ SumFunctionOnSet(Carried(a, i), 1..InvSlots) \in Int
           /\ SumFunctionOnSet(Worn(a, i), EquipSlots) \in Int
           /\ ItemsOf(a, i) \in Int
<1>1. Carried(a, i) \in [1..InvSlots -> Int]
  <2> SUFFICES ASSUME NEW s \in 1..InvSlots, a.inventory[s].item = i
               PROVE  a.inventory[s].quantity \in Int
    BY DEF Carried
  <2>1. a.inventory[s] \in OwnedStacks
    BY DEF Owned
  <2> QED BY <2>1, LimitsAssumption DEF OwnedStacks, Empty
<1>2. Worn(a, i) \in [EquipSlots -> Int]
  BY DEF Worn
<1>3. IsFiniteSet(1..InvSlots) /\ IsFiniteSet(EquipSlots)
  BY AccountsAssumption, FS_Interval
<1>4. SumFunctionOnSet(Carried(a, i), 1..InvSlots) \in Int
  BY <1>1, <1>3, SumIsNumber
<1>5. SumFunctionOnSet(Worn(a, i), EquipSlots) \in Int
  BY <1>2, <1>3, SumIsNumber
<1> QED BY <1>1, <1>2, <1>3, <1>4, <1>5 DEF ItemsOf

\* One slot of the inventory changes, and what the account holds by as much.
LEMMA SlotChanged ==
    ASSUME NEW a \in Owned, NEW b \in Owned, NEW s \in 1..InvSlots, NEW i,
           b.equipment = a.equipment,
           \A t \in (1..InvSlots) \ {s} : b.inventory[t] = a.inventory[t]
    PROVE  /\ ItemsOf(b, i) = ItemsOf(a, i) - Carried(a, i)[s] + Carried(b, i)[s]
           /\ ItemsOf(a, i) \in Int /\ Carried(a, i)[s] \in Int /\ Carried(b, i)[s] \in Int
<1>1. /\ Carried(a, i) \in [1..InvSlots -> Int] /\ Carried(b, i) \in [1..InvSlots -> Int]
      /\ IsFiniteSet(1..InvSlots) /\ ItemsOf(a, i) \in Int
      /\ SumFunctionOnSet(Carried(a, i), 1..InvSlots) \in Int
      /\ SumFunctionOnSet(Worn(a, i), EquipSlots) \in Int
  BY HoldingsAreNumbers
<1>2. \A t \in (1..InvSlots) \ {s} : Carried(b, i)[t] = Carried(a, i)[t]
  BY DEF Carried
<1>3. SumFunctionOnSet(Carried(b, i), 1..InvSlots)
        = SumFunctionOnSet(Carried(a, i), 1..InvSlots) - Carried(a, i)[s] + Carried(b, i)[s]
  <2> DEFINE u == Carried(a, i)  v == Carried(b, i)  E == 1..InvSlots  at == s
  <2>1. u \in [E -> Int] /\ v \in [E -> Int]
    BY <1>1
  <2>2. \A t \in E \ {at} : v[t] = u[t]
    BY <1>2
  <2>4. IsFiniteSet(E) /\ at \in E
    BY <1>1
  <2> HIDE DEF u, v, E, at
  <2>3. SumFunctionOnSet(v, E) = SumFunctionOnSet(u, E) - u[at] + v[at]
    BY <2>1, <2>2, <2>4, OneChanged
  <2> QED BY <2>3 DEF u, v, E, at
<1>4. Worn(b, i) = Worn(a, i)
  BY DEF Worn
<1>5. Carried(a, i)[s] \in Int /\ Carried(b, i)[s] \in Int
  BY <1>1
<1> DEFINE ca == SumFunctionOnSet(Carried(a, i), 1..InvSlots)
           cb == SumFunctionOnSet(Carried(b, i), 1..InvSlots)
           w == SumFunctionOnSet(Worn(a, i), EquipSlots)
           x == Carried(a, i)[s]
           y == Carried(b, i)[s]
<1>6. ItemsOf(a, i) = ca + w /\ ItemsOf(b, i) = cb + w
  BY <1>4 DEF ItemsOf
<1>7. cb = ca - x + y /\ ca \in Int /\ w \in Int /\ x \in Int /\ y \in Int
  BY <1>1, <1>3, <1>5
<1> HIDE DEF ca, cb, w, x, y
<1>8. ItemsOf(b, i) = ItemsOf(a, i) - x + y
  BY <1>6, <1>7
<1> QED BY <1>8, <1>1, <1>5 DEF x, y

\* So it is with a piece of gear.
LEMMA GearChanged ==
    ASSUME NEW a \in Owned, NEW b \in Owned, NEW e \in EquipSlots, NEW i,
           b.inventory = a.inventory,
           \A t \in EquipSlots \ {e} : b.equipment[t] = a.equipment[t]
    PROVE  /\ ItemsOf(b, i) = ItemsOf(a, i) - Worn(a, i)[e] + Worn(b, i)[e]
           /\ ItemsOf(a, i) \in Int /\ Worn(a, i)[e] \in Int /\ Worn(b, i)[e] \in Int
<1>1. /\ Worn(a, i) \in [EquipSlots -> Int] /\ Worn(b, i) \in [EquipSlots -> Int]
      /\ IsFiniteSet(EquipSlots) /\ ItemsOf(a, i) \in Int
      /\ SumFunctionOnSet(Carried(a, i), 1..InvSlots) \in Int
      /\ SumFunctionOnSet(Worn(a, i), EquipSlots) \in Int
  BY HoldingsAreNumbers
<1>2. \A t \in EquipSlots \ {e} : Worn(b, i)[t] = Worn(a, i)[t]
  BY DEF Worn
<1>3. SumFunctionOnSet(Worn(b, i), EquipSlots)
        = SumFunctionOnSet(Worn(a, i), EquipSlots) - Worn(a, i)[e] + Worn(b, i)[e]
  <2> DEFINE u == Worn(a, i)  v == Worn(b, i)  E == EquipSlots
  <2>1. u \in [E -> Int] /\ v \in [E -> Int]
    BY <1>1
  <2>2. \A t \in E \ {e} : v[t] = u[t]
    BY <1>2
  <2>4. IsFiniteSet(E) /\ e \in E
    BY <1>1
  <2> HIDE DEF u, v, E
  <2>3. SumFunctionOnSet(v, E) = SumFunctionOnSet(u, E) - u[e] + v[e]
    BY <2>1, <2>2, <2>4, OneChanged
  <2> QED BY <2>3 DEF u, v, E
<1>4. Carried(b, i) = Carried(a, i)
  BY DEF Carried
<1>5. Worn(a, i)[e] \in Int /\ Worn(b, i)[e] \in Int
  BY <1>1
<1> DEFINE c == SumFunctionOnSet(Carried(a, i), 1..InvSlots)
           wa == SumFunctionOnSet(Worn(a, i), EquipSlots)
           wb == SumFunctionOnSet(Worn(b, i), EquipSlots)
           x == Worn(a, i)[e]
           y == Worn(b, i)[e]
<1>6. ItemsOf(a, i) = c + wa /\ ItemsOf(b, i) = c + wb
  BY <1>4 DEF ItemsOf
<1>7. wb = wa - x + y /\ c \in Int /\ wa \in Int /\ x \in Int /\ y \in Int
  BY <1>1, <1>3, <1>5
<1> HIDE DEF c, wa, wb, x, y
<1>8. ItemsOf(b, i) = ItemsOf(a, i) - x + y
  BY <1>6, <1>7
<1> QED BY <1>8, <1>1, <1>5 DEF x, y

\* A stack that is added adds no more than its quantity, and only of its item;
\* it may be cut at the type's limit (transaction.rs:86-110, add_item).
LEMMA StackAdded ==
    ASSUME NEW a \in Owned, NEW i \in Items, NEW n \in Nat \ {0}, can_add(a, i)
    PROVE  /\ add_item(a, i, n) \in Owned
           /\ add_item(a, i, n).equipment = a.equipment
           /\ add_item(a, i, n).currency = a.currency
           /\ \A j \in Items : ItemsOf(add_item(a, i, n), j)
                                 <= ItemsOf(a, j) + (IF j = i THEN n ELSE 0)
<1> DEFINE S == IF SlotsOf(a, i) # {} THEN SlotsOf(a, i) ELSE SlotsOf(a, NoItem)
           s == Min(S)
           q == sat_add(a.inventory[s].quantity, n, MaxQuantity)
           b == add_item(a, i, n)
<1>1. s \in S /\ s \in 1..InvSlots
  <2>1. S # {} /\ S \subseteq 1..InvSlots
    BY DEF can_add, SlotsOf
  <2> HIDE DEF S
  <2>2. S \subseteq Nat
    BY <2>1, AccountsAssumption
  <2> QED BY <2>1, <2>2, MinOf
<1>2. a.inventory[s].item \in {i, NoItem} /\ a.inventory[s] \in OwnedStacks
  <2>1. a.inventory[s].item \in {i, NoItem}
    BY <1>1 DEF SlotsOf
  <2> HIDE DEF s
  <2> QED BY <2>1, <1>1 DEF Owned
<1>3. b = [a EXCEPT !.inventory[s] = [item |-> i, quantity |-> q]]
  BY DEF add_item
<1>4. /\ a.inventory[s].quantity \in 0..MaxQuantity
      /\ a.inventory[s].item = NoItem => a.inventory[s].quantity = 0
  BY <1>2, LimitsAssumption, ItemsAssumption DEF OwnedStacks, Empty
<1> HIDE DEF s, S
<1>5. q \in 1..MaxQuantity /\ q <= a.inventory[s].quantity + n
  BY <1>4, LimitsAssumption DEF sat_add
<1> HIDE DEF q, b
<1>6. /\ b.equipment = a.equipment /\ b.currency = a.currency
      /\ b.inventory[s] = [item |-> i, quantity |-> q]
      /\ \A t \in (1..InvSlots) \ {s} : b.inventory[t] = a.inventory[t]
  BY <1>1, <1>3 DEF Owned
<1>7. b \in Owned
  <2>1. [item |-> i, quantity |-> q] \in OwnedStacks
    BY <1>5 DEF OwnedStacks
  <2> QED BY <2>1, <1>1, <1>3 DEF Owned
<1>8. ASSUME NEW j \in Items
      PROVE  ItemsOf(b, j) <= ItemsOf(a, j) + (IF j = i THEN n ELSE 0)
  <2>1. /\ ItemsOf(b, j) = ItemsOf(a, j) - Carried(a, j)[s] + Carried(b, j)[s]
        /\ ItemsOf(a, j) \in Int /\ Carried(a, j)[s] \in Int /\ Carried(b, j)[s] \in Int
    BY <1>1, <1>6, <1>7, SlotChanged
  <2>2. CASE j = i
    <3>1. Carried(b, j)[s] = q
      BY <2>2, <1>1, <1>6 DEF Carried
    <3>2. Carried(a, j)[s] = a.inventory[s].quantity
      BY <2>2, <1>1, <1>2, <1>4, ItemsAssumption DEF Carried
    <3>3. a.inventory[s].quantity \in Int /\ q \in Int
      BY <1>4, <1>5, LimitsAssumption
    <3> QED BY <3>1, <3>2, <3>3, <2>1, <2>2, <1>5
  <2>3. CASE j # i
    <3>1. Carried(b, j)[s] = 0
      BY <2>3, <1>1, <1>6 DEF Carried
    <3>2. Carried(a, j)[s] = 0
      BY <2>3, <1>1, <1>2, <1>4, ItemsAssumption DEF Carried
    <3> QED BY <3>1, <3>2, <2>1, <2>3
  <2> QED BY <2>2, <2>3
<1> QED BY <1>6, <1>7, <1>8 DEF b

\* A stack that is taken away is taken from what the account holds, and there
\* is room for it where it was (transaction.rs:113-135, remove_item).
LEMMA StackRemoved ==
    ASSUME NEW a \in Owned, NEW i \in Items, NEW n \in Nat \ {0}, can_remove(a, i, n)
    PROVE  /\ remove_item(a, i, n) \in Owned
           /\ remove_item(a, i, n).equipment = a.equipment
           /\ remove_item(a, i, n).currency = a.currency
           /\ can_add(remove_item(a, i, n), i)
           /\ \A j \in Items : ItemsOf(remove_item(a, i, n), j)
                                 = ItemsOf(a, j) - (IF j = i THEN n ELSE 0)
<1> DEFINE s == Min(SlotsOf(a, i))
           x == a.inventory[s]
           y == IF x.quantity = n THEN Empty ELSE [item |-> i, quantity |-> x.quantity - n]
           b == remove_item(a, i, n)
<1>1. s \in 1..InvSlots /\ x.item = i /\ x.quantity >= n
  <2>1. SlotsOf(a, i) # {} /\ SlotsOf(a, i) \subseteq Nat /\ x.quantity >= n
    BY AccountsAssumption DEF can_remove, SlotsOf
  <2>2. s \in SlotsOf(a, i)
    BY <2>1, MinOf
  <2> QED BY <2>1, <2>2 DEF SlotsOf
<1>2. b = [a EXCEPT !.inventory[s] = y]
  BY DEF remove_item
<1> HIDE DEF s
<1>3. x \in [item : Items, quantity : 1..MaxQuantity]
  <2>1. x \in OwnedStacks
    BY <1>1 DEF Owned
  <2> QED BY <2>1, <1>1, ItemsAssumption DEF OwnedStacks, Empty, NoItem
<1> HIDE DEF x
<1>4. /\ y \in OwnedStacks /\ y.item \in {i, NoItem}
      /\ IF y.item = i THEN y.quantity = x.quantity - n ELSE x.quantity = n
  <2>1. CASE x.quantity = n
    BY <2>1, ItemsAssumption DEF OwnedStacks, Empty, NoItem
  <2>2. CASE x.quantity # n
    <3>1. y = [item |-> i, quantity |-> x.quantity - n]
      BY <2>2, <1>1, <1>3
    <3>2. x.quantity - n \in 1..MaxQuantity
      BY <2>2, <1>1, <1>3, LimitsAssumption
    <3> QED BY <3>1, <3>2 DEF OwnedStacks
  <2> QED BY <2>1, <2>2
<1> HIDE DEF y, b
<1>5. /\ b.equipment = a.equipment /\ b.currency = a.currency /\ b.inventory[s] = y
      /\ \A t \in (1..InvSlots) \ {s} : b.inventory[t] = a.inventory[t]
  BY <1>1, <1>2 DEF Owned
<1>6. b \in Owned
  BY <1>1, <1>2, <1>4 DEF Owned
<1>7. can_add(b, i)
  BY <1>1, <1>4, <1>5 DEF can_add, SlotsOf
<1>8. ASSUME NEW j \in Items
      PROVE  ItemsOf(b, j) = ItemsOf(a, j) - (IF j = i THEN n ELSE 0)
  <2>1. /\ ItemsOf(b, j) = ItemsOf(a, j) - Carried(a, j)[s] + Carried(b, j)[s]
        /\ ItemsOf(a, j) \in Int /\ Carried(a, j)[s] \in Int /\ Carried(b, j)[s] \in Int
    BY <1>1, <1>5, <1>6, SlotChanged
  <2>2. CASE j = i
    <3>1. Carried(b, j)[s] = IF y.item = i THEN y.quantity ELSE 0
      BY <2>2, <1>1, <1>5 DEF Carried
    <3>2. Carried(a, j)[s] = x.quantity
      BY <2>2, <1>1 DEF Carried, x
    <3>3. x.quantity \in Int
      BY <1>3, LimitsAssumption
    <3>4. Carried(b, j)[s] = x.quantity - n
      BY <3>1, <3>3, <1>4
    <3> QED BY <3>2, <3>3, <3>4, <2>1, <2>2
  <2>3. CASE j # i
    <3>1. Carried(b, j)[s] = 0
      BY <2>3, <1>1, <1>4, <1>5, ItemsAssumption DEF Carried
    <3>2. Carried(a, j)[s] = 0
      BY <2>3, <1>1 DEF Carried, x
    <3> QED BY <3>1, <3>2, <2>1, <2>3
  <2> QED BY <2>2, <2>3
<1> QED BY <1>5, <1>6, <1>7, <1>8 DEF b

\* Putting on what a slot carries takes the whole stack away and puts what was
\* worn so far in its place: nothing is added (transaction.rs:137-172, equip_item).
LEMMA ItemPutOn ==
    ASSUME NEW a \in Owned, NEW s \in 1..InvSlots, NEW e \in EquipSlots, can_equip(a, s, e)
    PROVE  /\ equip_item(a, s, e) \in Owned
           /\ equip_item(a, s, e).currency = a.currency
           /\ \A j \in Items : ItemsOf(equip_item(a, s, e), j) <= ItemsOf(a, j)
<1> DEFINE x == a.inventory[s]
           w == a.equipment[e]
           y == IF w = NoItem THEN Empty ELSE [item |-> w, quantity |-> 1]
           c == [a EXCEPT !.equipment[e] = x.item]
           b == [c EXCEPT !.inventory[s] = y]
<1>1. x \in [item : Items, quantity : 1..MaxQuantity] /\ w \in Items \union {NoItem}
  <2>1. x \in OwnedStacks /\ x # Empty
    BY DEF Owned, can_equip
  <2> QED BY <2>1 DEF OwnedStacks, Owned
<1>2. equip_item(a, s, e) = b
  BY DEF equip_item, Owned
<1> HIDE DEF x, w
<1>3. /\ y \in OwnedStacks
      /\ \A j \in Items : (IF y.item = j THEN y.quantity ELSE 0) = (IF w = j THEN 1 ELSE 0)
  BY <1>1, LimitsAssumption, ItemsAssumption DEF OwnedStacks, Empty, NoItem
<1> HIDE DEF y
<1>4. /\ c \in Owned /\ c.inventory = a.inventory /\ c.currency = a.currency
      /\ c.equipment[e] = x.item
      /\ \A t \in EquipSlots \ {e} : c.equipment[t] = a.equipment[t]
  BY <1>1 DEF Owned
<1> HIDE DEF c
<1>5. /\ b \in Owned /\ b.equipment = c.equipment /\ b.currency = c.currency
      /\ b.inventory[s] = y
      /\ \A t \in (1..InvSlots) \ {s} : b.inventory[t] = c.inventory[t]
  BY <1>3, <1>4 DEF Owned
<1> HIDE DEF b
<1>6. ASSUME NEW j \in Items PROVE ItemsOf(b, j) <= ItemsOf(a, j)
  <2>1. /\ ItemsOf(c, j) = ItemsOf(a, j) - Worn(a, j)[e] + Worn(c, j)[e]
        /\ ItemsOf(a, j) \in Int
    BY <1>4, GearChanged
  <2>2. /\ ItemsOf(b, j) = ItemsOf(c, j) - Carried(c, j)[s] + Carried(b, j)[s]
        /\ ItemsOf(c, j) \in Int
    BY <1>4, <1>5, SlotChanged
  <2>3. Worn(a, j)[e] = (IF w = j THEN 1 ELSE 0) /\ Worn(c, j)[e] = IF x.item = j THEN 1 ELSE 0
    BY <1>4 DEF Worn, w
  <2>4. Carried(c, j)[s] = IF x.item = j THEN x.quantity ELSE 0
    BY <1>4 DEF Carried, x
  <2>5. Carried(b, j)[s] = IF w = j THEN 1 ELSE 0
    BY <1>3, <1>5 DEF Carried
  <2>6. x.quantity \in Int /\ x.quantity >= 1
    BY <1>1, LimitsAssumption
  <2> QED BY <2>1, <2>2, <2>3, <2>4, <2>5, <2>6
<1>7. b.currency = a.currency
  BY <1>4, <1>5
<1> QED BY <1>2, <1>5, <1>6, <1>7

\* Taking gear off gives one item to the inventory (transaction.rs:175-191,
\* unequip_item).
LEMMA ItemTakenOff ==
    ASSUME NEW a \in Owned, NEW e \in EquipSlots, can_unequip(a, e)
    PROVE  /\ unequip_item(a, e) \in Owned
           /\ unequip_item(a, e).currency = a.currency
           /\ \A j \in Items : ItemsOf(unequip_item(a, e), j) <= ItemsOf(a, j)
<1> DEFINE w == a.equipment[e]
           c == [a EXCEPT !.equipment[e] = NoItem]
           b == add_item(c, w, 1)
<1>1. w \in Items /\ can_add(a, w)
  BY DEF Owned, can_unequip
<1>2. unequip_item(a, e) = b
  BY DEF unequip_item
<1> HIDE DEF w
<1>3. /\ c \in Owned /\ c.inventory = a.inventory /\ c.currency = a.currency
      /\ c.equipment[e] = NoItem
      /\ \A t \in EquipSlots \ {e} : c.equipment[t] = a.equipment[t]
  BY DEF Owned
<1> HIDE DEF c
<1>4. can_add(c, w)
  BY <1>1, <1>3 DEF can_add, SlotsOf
<1>5. /\ b \in Owned /\ b.currency = c.currency
      /\ \A j \in Items : ItemsOf(b, j) <= ItemsOf(c, j) + (IF j = w THEN 1 ELSE 0)
  <2>1. 1 \in Nat \ {0}
    OBVIOUS
  <2> QED BY <1>1, <1>3, <1>4, <2>1, StackAdded
<1> HIDE DEF b
<1>6. ASSUME NEW j \in Items PROVE ItemsOf(b, j) <= ItemsOf(a, j)
  <2>1. /\ ItemsOf(c, j) = ItemsOf(a, j) - Worn(a, j)[e] + Worn(c, j)[e]
        /\ ItemsOf(a, j) \in Int
    BY <1>3, GearChanged
  <2>2. Worn(a, j)[e] = (IF w = j THEN 1 ELSE 0) /\ Worn(c, j)[e] = 0
    BY <1>3, ItemsAssumption DEF Worn, w, NoItem
  <2>3. ItemsOf(b, j) <= ItemsOf(c, j) + (IF j = w THEN 1 ELSE 0) /\ ItemsOf(b, j) \in Int
    BY <1>5, HoldingsAreNumbers
  <2> QED BY <2>1, <2>2, <2>3
<1> QED BY <1>2, <1>3, <1>5, <1>6

\* Accounts that own no more in all than others.
NoMore(acc, next) ==
    /\ next \in [Accounts -> Owned]
    /\ \A c \in Currencies : TotalCurrency(next, c) <= TotalCurrency(acc, c)
    /\ \A i \in Items : TotalItems(next, i) <= TotalItems(acc, i)

\* What two accounts own together does not grow, and so what all own does not
\* (transaction.rs:389-528, both sides of a transfer).
LEMMA TwoOwnNoMore ==
    ASSUME NEW acc \in [Accounts -> Owned], NEW k \in Accounts, NEW m \in Accounts, k # m,
           NEW b \in Owned, NEW d \in Owned,
           \A c \in Currencies :
               b.currency[c] + d.currency[c] <= acc[k].currency[c] + acc[m].currency[c],
           \A i \in Items : ItemsOf(b, i) + ItemsOf(d, i) <= ItemsOf(acc[k], i) + ItemsOf(acc[m], i)
    PROVE  NoMore(acc, [acc EXCEPT ![k] = b, ![m] = d])
<1> DEFINE next == [acc EXCEPT ![k] = b, ![m] = d]
<1>1. /\ next \in [Accounts -> Owned] /\ next[k] = b /\ next[m] = d
      /\ \A y \in Accounts \ {k, m} : next[y] = acc[y]
  OBVIOUS
<1> HIDE DEF next
<1>2. ASSUME NEW c \in Currencies PROVE TotalCurrency(next, c) <= TotalCurrency(acc, c)
  <2> DEFINE u == Balances(acc, c)  v == Balances(next, c)
  <2>1. /\ u[k] = acc[k].currency[c] /\ u[m] = acc[m].currency[c]
        /\ v[k] = b.currency[c] /\ v[m] = d.currency[c]
    BY <1>1 DEF Balances
  <2>2. \A q \in Owned : q.currency[c] \in Int
    BY LimitsAssumption DEF Owned
  <2>3. u \in [Accounts -> Int] /\ v \in [Accounts -> Int]
    BY <1>1, <2>2 DEF Balances
  <2>4. \A y \in Accounts \ {k, m} : v[y] = u[y]
    BY <1>1 DEF Balances
  <2> HIDE DEF u, v
  <2>5. SumFunctionOnSet(v, Accounts) = SumFunctionOnSet(u, Accounts) - u[k] - u[m] + v[k] + v[m]
    BY <2>3, <2>4, AccountsAssumption, TwoChanged
  <2>6. SumFunctionOnSet(u, Accounts) \in Int /\ SumFunctionOnSet(v, Accounts) \in Int
    BY <2>3, AccountsAssumption, SumIsNumber
  <2>7. u[k] \in Int /\ u[m] \in Int /\ v[k] \in Int /\ v[m] \in Int /\ v[k] + v[m] <= u[k] + u[m]
    BY <2>1, <2>3
  <2>8. SumFunctionOnSet(v, Accounts) <= SumFunctionOnSet(u, Accounts)
    BY <2>5, <2>6, <2>7
  <2> QED BY <2>8 DEF TotalCurrency, u, v
<1>3. ASSUME NEW i \in Items PROVE TotalItems(next, i) <= TotalItems(acc, i)
  <2> DEFINE u == [a \in Accounts |-> ItemsOf(acc[a], i)]  v == [a \in Accounts |-> ItemsOf(next[a], i)]
  <2>1. /\ u[k] = ItemsOf(acc[k], i) /\ u[m] = ItemsOf(acc[m], i)
        /\ v[k] = ItemsOf(b, i) /\ v[m] = ItemsOf(d, i)
    BY <1>1
  <2>2. \A q \in Owned : ItemsOf(q, i) \in Int
    BY HoldingsAreNumbers
  <2>3. u \in [Accounts -> Int] /\ v \in [Accounts -> Int]
    BY <1>1, <2>2
  <2>4. \A y \in Accounts \ {k, m} : v[y] = u[y]
    BY <1>1
  <2>9. TotalItems(next, i) = SumFunctionOnSet(v, Accounts)
        /\ TotalItems(acc, i) = SumFunctionOnSet(u, Accounts)
    BY DEF TotalItems
  <2> HIDE DEF u, v
  <2>5. SumFunctionOnSet(v, Accounts) = SumFunctionOnSet(u, Accounts) - u[k] - u[m] + v[k] + v[m]
    BY <2>3, <2>4, AccountsAssumption, TwoChanged
  <2>6. SumFunctionOnSet(u, Accounts) \in Int /\ SumFunctionOnSet(v, Accounts) \in Int
    BY <2>3, AccountsAssumption, SumIsNumber
  <2>7. u[k] \in Int /\ u[m] \in Int /\ v[k] \in Int /\ v[m] \in Int /\ v[k] + v[m] <= u[k] + u[m]
    BY <2>1, <2>3
  <2>8. SumFunctionOnSet(v, Accounts) <= SumFunctionOnSet(u, Accounts)
    BY <2>5, <2>6, <2>7
  <2> QED BY <2>8, <2>9
<1> QED BY <1>1, <1>2, <1>3 DEF NoMore, next

\* Nor does it when one account owns no more than before.
LEMMA OneOwnsNoMore ==
    ASSUME NEW acc \in [Accounts -> Owned], NEW k \in Accounts, NEW b \in Owned,
           \A c \in Currencies : b.currency[c] <= acc[k].currency[c],
           \A i \in Items : ItemsOf(b, i) <= ItemsOf(acc[k], i)
    PROVE  NoMore(acc, [acc EXCEPT ![k] = b])
<1> DEFINE next == [acc EXCEPT ![k] = b]
<1>1. /\ next \in [Accounts -> Owned] /\ next[k] = b
      /\ \A y \in Accounts \ {k} : next[y] = acc[y]
  OBVIOUS
<1> HIDE DEF next
<1>2. ASSUME NEW c \in Currencies PROVE TotalCurrency(next, c) <= TotalCurrency(acc, c)
  <2> DEFINE u == Balances(acc, c)  v == Balances(next, c)
  <2>1. u[k] = acc[k].currency[c] /\ v[k] = b.currency[c]
    BY <1>1 DEF Balances
  <2>2. \A q \in Owned : q.currency[c] \in Int
    BY LimitsAssumption DEF Owned
  <2>3. u \in [Accounts -> Int] /\ v \in [Accounts -> Int]
    BY <1>1, <2>2 DEF Balances
  <2>4. \A y \in Accounts \ {k} : v[y] = u[y]
    BY <1>1 DEF Balances
  <2> HIDE DEF u, v
  <2>5. SumFunctionOnSet(v, Accounts) = SumFunctionOnSet(u, Accounts) - u[k] + v[k]
        /\ SumFunctionOnSet(u, Accounts) \in Int /\ SumFunctionOnSet(v, Accounts) \in Int
    BY <2>3, <2>4, AccountsAssumption, OneChanged
  <2>7. u[k] \in Int /\ v[k] \in Int /\ v[k] <= u[k]
    BY <2>1, <2>3
  <2>8. SumFunctionOnSet(v, Accounts) <= SumFunctionOnSet(u, Accounts)
    BY <2>5, <2>7
  <2> QED BY <2>8 DEF TotalCurrency, u, v
<1>3. ASSUME NEW i \in Items PROVE TotalItems(next, i) <= TotalItems(acc, i)
  <2> DEFINE u == [a \in Accounts |-> ItemsOf(acc[a], i)]  v == [a \in Accounts |-> ItemsOf(next[a], i)]
  <2>1. u[k] = ItemsOf(acc[k], i) /\ v[k] = ItemsOf(b, i)
    BY <1>1
  <2>2. \A q \in Owned : ItemsOf(q, i) \in Int
    BY HoldingsAreNumbers
  <2>3. u \in [Accounts -> Int] /\ v \in [Accounts -> Int]
    BY <1>1, <2>2
  <2>4. \A y \in Accounts \ {k} : v[y] = u[y]
    BY <1>1
  <2>9. TotalItems(next, i) = SumFunctionOnSet(v, Accounts)
        /\ TotalItems(acc, i) = SumFunctionOnSet(u, Accounts)
    BY DEF TotalItems
  <2> HIDE DEF u, v
  <2>5. SumFunctionOnSet(v, Accounts) = SumFunctionOnSet(u, Accounts) - u[k] + v[k]
        /\ SumFunctionOnSet(u, Accounts) \in Int /\ SumFunctionOnSet(v, Accounts) \in Int
    BY <2>3, <2>4, AccountsAssumption, OneChanged
  <2>7. u[k] \in Int /\ v[k] \in Int /\ v[k] <= u[k]
    BY <2>1, <2>3
  <2>8. SumFunctionOnSet(v, Accounts) <= SumFunctionOnSet(u, Accounts)
    BY <2>5, <2>7
  <2> QED BY <2>8, <2>9
<1> QED BY <1>1, <1>2, <1>3 DEF NoMore, next

\* Every operation a client can ask for, of an amount of items that is one.
AnyOp ==
    [kind : {"spend"}, account : Accounts, amount : Nat, currency : Currencies]
    \union
    [kind : {"transfer"}, account : Accounts, to : Accounts, amount : Nat, currency : Currencies]
    \union
    [kind : {"item"}, account : Accounts, to : Accounts, item : Items, amount : Nat \ {0}]
    \union
    [kind : {"equip"}, account : Accounts, from : 1..InvSlots, slot : EquipSlots]
    \union
    [kind : {"unequip"}, account : Accounts, slot : EquipSlots]

\* Debits and credits stay within their types and add nothing
\* (transaction.rs:68-104).
LEMMA Debited ==
    ASSUME NEW a \in Owned, NEW c \in Currencies, NEW n \in Nat, can_debit(a, c, n)
    PROVE  /\ debit_currency(a, c, n) \in Owned
           /\ debit_currency(a, c, n).inventory = a.inventory
           /\ debit_currency(a, c, n).equipment = a.equipment
           /\ debit_currency(a, c, n).currency[c] = a.currency[c] - n
           /\ \A x \in Currencies \ {c} : debit_currency(a, c, n).currency[x] = a.currency[x]
<1>1. a.currency[c] - n \in 0..MaxBalance
  BY LimitsAssumption DEF Owned, can_debit
<1> QED BY <1>1 DEF Owned, debit_currency

\* A credit adds no more than its amount, and only in its currency; it may be
\* cut at the type's limit (transaction.rs, credit_currency).
LEMMA Credited ==
    ASSUME NEW a \in Owned, NEW c \in Currencies, NEW n \in Nat
    PROVE  /\ credit_currency(a, c, n) \in Owned
           /\ credit_currency(a, c, n).inventory = a.inventory
           /\ credit_currency(a, c, n).equipment = a.equipment
           /\ credit_currency(a, c, n).currency[c] <= a.currency[c] + n
           /\ \A x \in Currencies \ {c} : credit_currency(a, c, n).currency[x] = a.currency[x]
<1> DEFINE q == sat_add(a.currency[c], n, MaxBalance)
<1>1. q \in 0..MaxBalance /\ q <= a.currency[c] + n
  BY LimitsAssumption DEF Owned, sat_add
<1>2. credit_currency(a, c, n) = [a EXCEPT !.currency[c] = q]
  BY DEF credit_currency
<1> HIDE DEF q
<1> QED BY <1>1, <1>2 DEF Owned

\* Accounts that hold the same own the same.
LEMMA SameHoldings ==
    ASSUME NEW a, NEW b, a.inventory = b.inventory, a.equipment = b.equipment
    PROVE  \A i : ItemsOf(a, i) = ItemsOf(b, i)
BY DEF ItemsOf, Carried, Worn

\* Whatever succeeds mints nothing (transaction.rs:361-601).
LEMMA MutatedMintsNothing ==
    ASSUME NEW acc \in [Accounts -> Owned], NEW op \in AnyOp, Succeeds(acc, op)
    PROVE  NoMore(acc, Mutated(acc, op))
<1> DEFINE a == acc[op.account]
<1>0. op.account \in Accounts /\ a \in Owned
  BY DEF AnyOp
<1>1. CASE op.kind = "spend"
  <2> DEFINE b == debit_currency(a, op.currency, op.amount)
  <2>1. op.currency \in Currencies /\ op.amount \in Nat
    BY <1>1 DEF AnyOp
  <2>2. can_debit(a, op.currency, op.amount) /\ Mutated(acc, op) = [acc EXCEPT ![op.account] = b]
    BY <1>1 DEF Succeeds, Mutated
  <2> HIDE DEF a
  <2>3. /\ b \in Owned /\ b.inventory = a.inventory /\ b.equipment = a.equipment
        /\ b.currency[op.currency] = a.currency[op.currency] - op.amount
        /\ \A x \in Currencies \ {op.currency} : b.currency[x] = a.currency[x]
    BY <1>0, <2>1, <2>2, Debited
  <2> HIDE DEF b
  <2>4. \A c \in Currencies : b.currency[c] <= a.currency[c]
    <3>1. \A c \in Currencies : a.currency[c] \in Int
      BY <1>0, LimitsAssumption DEF Owned
    <3> QED BY <2>1, <2>3, <3>1
  <2>5. \A i \in Items : ItemsOf(b, i) <= ItemsOf(a, i)
    <3>1. \A i \in Items : ItemsOf(b, i) = ItemsOf(a, i) /\ ItemsOf(a, i) \in Int
      BY <1>0, <2>3, SameHoldings, HoldingsAreNumbers
    <3> QED BY <3>1
  <2>6. NoMore(acc, [acc EXCEPT ![op.account] = b])
    BY <1>0, <2>3, <2>4, <2>5, OneOwnsNoMore DEF a
  <2> QED BY <2>2, <2>6
<1>2. CASE op.kind = "transfer"
  <2> DEFINE m == acc[op.to]
             b == debit_currency(a, op.currency, op.amount)
             d == credit_currency(m, op.currency, op.amount)
  <2>1. op.currency \in Currencies /\ op.amount \in Nat /\ op.to \in Accounts /\ m \in Owned
    BY <1>2 DEF AnyOp
  <2>2. /\ can_debit(a, op.currency, op.amount) /\ op.to # op.account
        /\ Mutated(acc, op) = [acc EXCEPT ![op.account] = b, ![op.to] = d]
    BY <1>2 DEF Succeeds, Mutated
  <2> HIDE DEF a, m
  <2>3. /\ b \in Owned /\ b.inventory = a.inventory /\ b.equipment = a.equipment
        /\ b.currency[op.currency] = a.currency[op.currency] - op.amount
        /\ \A x \in Currencies \ {op.currency} : b.currency[x] = a.currency[x]
    BY <1>0, <2>1, <2>2, Debited
  <2>4. /\ d \in Owned /\ d.inventory = m.inventory /\ d.equipment = m.equipment
        /\ d.currency[op.currency] <= m.currency[op.currency] + op.amount
        /\ \A x \in Currencies \ {op.currency} : d.currency[x] = m.currency[x]
    BY <2>1, Credited
  <2> HIDE DEF b, d
  <2>5. ASSUME NEW c \in Currencies
        PROVE  b.currency[c] + d.currency[c] <= a.currency[c] + m.currency[c]
    <3>1. a.currency[c] \in Int /\ m.currency[c] \in Int /\ b.currency[c] \in Int /\ d.currency[c] \in Int
      BY <1>0, <2>1, <2>3, <2>4, LimitsAssumption DEF Owned
    <3> QED BY <2>1, <2>3, <2>4, <3>1
  <2>6. ASSUME NEW i \in Items
        PROVE  ItemsOf(b, i) + ItemsOf(d, i) <= ItemsOf(a, i) + ItemsOf(m, i)
    <3>1. ItemsOf(b, i) = ItemsOf(a, i) /\ ItemsOf(d, i) = ItemsOf(m, i)
      BY <2>3, <2>4, SameHoldings
    <3>2. ItemsOf(a, i) \in Int /\ ItemsOf(m, i) \in Int
      BY <1>0, <2>1, HoldingsAreNumbers
    <3> QED BY <3>1, <3>2
  <2>7. NoMore(acc, [acc EXCEPT ![op.account] = b, ![op.to] = d])
    BY <1>0, <2>1, <2>2, <2>3, <2>4, <2>5, <2>6, TwoOwnNoMore DEF a, m
  <2> QED BY <2>2, <2>7
<1>3. CASE op.kind = "item"
  <2> DEFINE m == acc[op.to]
             b == remove_item(a, op.item, op.amount)
             d == add_item(m, op.item, op.amount)
  <2>1. op.item \in Items /\ op.amount \in Nat \ {0} /\ op.to \in Accounts /\ m \in Owned
    BY <1>3 DEF AnyOp
  <2>2. /\ can_remove(a, op.item, op.amount) /\ can_add(m, op.item) /\ op.to # op.account
        /\ Mutated(acc, op) = [acc EXCEPT ![op.account] = b, ![op.to] = d]
    BY <1>3 DEF Succeeds, Mutated
  <2> HIDE DEF a, m
  <2>3. /\ b \in Owned /\ b.currency = a.currency
        /\ \A j \in Items : ItemsOf(b, j) = ItemsOf(a, j) - (IF j = op.item THEN op.amount ELSE 0)
    BY <1>0, <2>1, <2>2, StackRemoved
  <2>4. /\ d \in Owned /\ d.currency = m.currency
        /\ \A j \in Items : ItemsOf(d, j) <= ItemsOf(m, j) + (IF j = op.item THEN op.amount ELSE 0)
    BY <2>1, <2>2, StackAdded
  <2> HIDE DEF b, d
  <2>5. ASSUME NEW c \in Currencies
        PROVE  b.currency[c] + d.currency[c] <= a.currency[c] + m.currency[c]
    <3>1. a.currency[c] \in Int /\ m.currency[c] \in Int
      BY <1>0, <2>1, LimitsAssumption DEF Owned
    <3> QED BY <2>3, <2>4, <3>1
  <2>6. ASSUME NEW i \in Items
        PROVE  ItemsOf(b, i) + ItemsOf(d, i) <= ItemsOf(a, i) + ItemsOf(m, i)
    <3>1. ItemsOf(a, i) \in Int /\ ItemsOf(m, i) \in Int /\ ItemsOf(b, i) \in Int /\ ItemsOf(d, i) \in Int
      BY <1>0, <2>1, <2>3, <2>4, HoldingsAreNumbers
    <3>2. op.amount \in Int
      BY <2>1
    <3> QED BY <2>3, <2>4, <3>1, <3>2
  <2>7. NoMore(acc, [acc EXCEPT ![op.account] = b, ![op.to] = d])
    BY <1>0, <2>1, <2>2, <2>3, <2>4, <2>5, <2>6, TwoOwnNoMore DEF a, m
  <2> QED BY <2>2, <2>7
<1>4. CASE op.kind = "equip"
  <2> DEFINE b == equip_item(a, op.from, op.slot)
  <2>1. op.from \in 1..InvSlots /\ op.slot \in EquipSlots
    BY <1>4 DEF AnyOp
  <2>2. can_equip(a, op.from, op.slot) /\ Mutated(acc, op) = [acc EXCEPT ![op.account] = b]
    BY <1>4 DEF Succeeds, Mutated
  <2> HIDE DEF a
  <2>3. b \in Owned /\ b.currency = a.currency /\ \A j \in Items : ItemsOf(b, j) <= ItemsOf(a, j)
    BY <1>0, <2>1, <2>2, ItemPutOn
  <2> HIDE DEF b
  <2>4. \A c \in Currencies : b.currency[c] <= a.currency[c]
    <3>1. \A c \in Currencies : a.currency[c] \in Int
      BY <1>0, LimitsAssumption DEF Owned
    <3> QED BY <2>3, <3>1
  <2>5. NoMore(acc, [acc EXCEPT ![op.account] = b])
    BY <1>0, <2>3, <2>4, OneOwnsNoMore DEF a
  <2> QED BY <2>2, <2>5
<1>5. CASE op.kind = "unequip"
  <2> DEFINE b == unequip_item(a, op.slot)
  <2>1. op.slot \in EquipSlots
    BY <1>5 DEF AnyOp
  <2>2. can_unequip(a, op.slot) /\ Mutated(acc, op) = [acc EXCEPT ![op.account] = b]
    BY <1>5 DEF Succeeds, Mutated
  <2> HIDE DEF a
  <2>3. b \in Owned /\ b.currency = a.currency /\ \A j \in Items : ItemsOf(b, j) <= ItemsOf(a, j)
    BY <1>0, <2>1, <2>2, ItemTakenOff
  <2> HIDE DEF b
  <2>4. \A c \in Currencies : b.currency[c] <= a.currency[c]
    <3>1. \A c \in Currencies : a.currency[c] \in Int
      BY <1>0, LimitsAssumption DEF Owned
    <3> QED BY <2>3, <3>1
  <2>5. NoMore(acc, [acc EXCEPT ![op.account] = b])
    BY <1>0, <2>3, <2>4, OneOwnsNoMore DEF a
  <2> QED BY <2>2, <2>5
<1>6. op.kind \in {"spend", "transfer", "item", "equip", "unequip"}
  BY DEF AnyOp
<1> QED BY <1>1, <1>2, <1>3, <1>4, <1>5, <1>6

\* The totals are numbers.
LEMMA TotalsAreNumbers ==
    ASSUME NEW acc \in [Accounts -> Owned]
    PROVE  /\ \A c \in Currencies : TotalCurrency(acc, c) \in Int
           /\ \A i \in Items : TotalItems(acc, i) \in Int
<1>1. ASSUME NEW c \in Currencies PROVE TotalCurrency(acc, c) \in Int
  <2> DEFINE u == Balances(acc, c)  E == Accounts
  <2>1. \A q \in Owned : q.currency[c] \in Int
    BY LimitsAssumption DEF Owned
  <2>2. u \in [Accounts -> Int]
    BY <2>1 DEF Balances
  <2>3. E \in SUBSET Accounts /\ IsFiniteSet(E)
    BY AccountsAssumption
  <2> HIDE DEF u, E
  <2>4. SumFunctionOnSet(u, E) \in Int
    BY <2>2, <2>3, SumIsNumber
  <2> QED BY <2>4 DEF TotalCurrency, u, E
<1>2. ASSUME NEW i \in Items PROVE TotalItems(acc, i) \in Int
  <2> DEFINE u == [a \in Accounts |-> ItemsOf(acc[a], i)]  E == Accounts
  <2>1. \A q \in Owned : ItemsOf(q, i) \in Int
    BY HoldingsAreNumbers
  <2>2. u \in [Accounts -> Int]
    BY <2>1
  <2>3. E \in SUBSET Accounts /\ IsFiniteSet(E)
    BY AccountsAssumption
  <2>5. TotalItems(acc, i) = SumFunctionOnSet(u, E)
    BY DEF TotalItems
  <2> HIDE DEF u, E
  <2>4. SumFunctionOnSet(u, E) \in Int
    BY <2>2, <2>3, SumIsNumber
  <2> QED BY <2>4, <2>5
<1> QED BY <1>1, <1>2

\* Accounts that do not change own no more (a refused transaction,
\* transaction.rs:339-360).
LEMMA SameOwnNoMore ==
    ASSUME NEW acc \in [Accounts -> Owned]
    PROVE  NoMore(acc, acc)
BY TotalsAreNumbers DEF NoMore

\* Nor does what is rolled back (transaction.rs:514-522).
LEMMA RolledBackMintsNothing ==
    ASSUME NEW acc \in [Accounts -> Owned], NEW op \in AnyOp
    PROVE  NoMore(acc, RolledBack(acc, op))
<1> DEFINE a == acc[op.account]
           Undone == /\ op.kind = "item" /\ op.to # op.account
                     /\ has_item(a, op.item, op.amount) /\ can_remove(a, op.item, op.amount)
<1>1. CASE ~ Undone
  <2>1. RolledBack(acc, op) = acc
    BY <1>1 DEF RolledBack
  <2> QED BY <2>1, SameOwnNoMore
<1>2. CASE Undone
  <2> DEFINE r == remove_item(a, op.item, op.amount)
             b == add_item(r, op.item, op.amount)
  <2>1. op.account \in Accounts /\ op.item \in Items /\ op.amount \in Nat \ {0} /\ a \in Owned
    BY <1>2 DEF AnyOp
  <2>2. RolledBack(acc, op) = [acc EXCEPT ![op.account] = b] /\ can_remove(a, op.item, op.amount)
    BY <1>2 DEF RolledBack
  <2> HIDE DEF a
  <2>3. /\ r \in Owned /\ r.currency = a.currency /\ can_add(r, op.item)
        /\ \A j \in Items : ItemsOf(r, j) = ItemsOf(a, j) - (IF j = op.item THEN op.amount ELSE 0)
    BY <2>1, <2>2, StackRemoved
  <2> HIDE DEF r
  <2>4. /\ b \in Owned /\ b.currency = r.currency
        /\ \A j \in Items : ItemsOf(b, j) <= ItemsOf(r, j) + (IF j = op.item THEN op.amount ELSE 0)
    BY <2>1, <2>3, StackAdded
  <2> HIDE DEF b
  <2>5. \A c \in Currencies : b.currency[c] <= a.currency[c]
    <3>1. \A c \in Currencies : a.currency[c] \in Int
      BY <2>1, LimitsAssumption DEF Owned
    <3> QED BY <2>3, <2>4, <3>1
  <2>6. ASSUME NEW i \in Items PROVE ItemsOf(b, i) <= ItemsOf(a, i)
    <3>1. ItemsOf(a, i) \in Int /\ ItemsOf(b, i) \in Int /\ ItemsOf(r, i) \in Int /\ op.amount \in Int
      BY <2>1, <2>3, <2>4, HoldingsAreNumbers
    <3> QED BY <2>3, <2>4, <3>1
  <2>7. NoMore(acc, [acc EXCEPT ![op.account] = b])
    BY <2>1, <2>4, <2>5, <2>6, OneOwnsNoMore DEF a
  <2> QED BY <2>2, <2>7
<1> QED BY <1>1, <1>2

\* Operation by operation the totals only fall.
LEMMA NoMoreThanFirst ==
    ASSUME NEW base \in [Accounts -> Owned], NEW acc \in [Accounts -> Owned], NEW next,
           NoMore(base, acc), NoMore(acc, next)
    PROVE  NoMore(base, next)
<1>1. next \in [Accounts -> Owned]
  BY DEF NoMore
<1>2. ASSUME NEW c \in Currencies PROVE TotalCurrency(next, c) <= TotalCurrency(base, c)
  <2>1. TotalCurrency(next, c) <= TotalCurrency(acc, c) /\ TotalCurrency(acc, c) <= TotalCurrency(base, c)
    BY DEF NoMore
  <2>2. /\ TotalCurrency(next, c) \in Int /\ TotalCurrency(acc, c) \in Int
        /\ TotalCurrency(base, c) \in Int
    BY <1>1, TotalsAreNumbers
  <2> QED BY <2>1, <2>2
<1>3. ASSUME NEW i \in Items PROVE TotalItems(next, i) <= TotalItems(base, i)
  <2>1. TotalItems(next, i) <= TotalItems(acc, i) /\ TotalItems(acc, i) <= TotalItems(base, i)
    BY DEF NoMore
  <2>2. /\ TotalItems(next, i) \in Int /\ TotalItems(acc, i) \in Int
        /\ TotalItems(base, i) \in Int
    BY <1>1, TotalsAreNumbers
  <2> QED BY <2>1, <2>2
<1> QED BY <1>1, <1>2, <1>3 DEF NoMore

\* What a step of the manager does to the accounts, for the transaction ids
\* and the operations that clients use.
TxEffect(ids, ops) ==
    \/ \E tx \in ids, op \in ops :
          /\ Succeeds(accounts, op)
          /\ accounts' = Mutated(accounts, op)
          /\ current_lsn' = current_lsn + 1
          /\ executed_txs' = [t \in DOMAIN executed_txs \union {tx} |->
                                IF t = tx THEN current_lsn + 1 ELSE executed_txs[t]]
          /\ awaiting' \subseteq {tx}
          /\ UNCHANGED acked
    \/ \E op \in ops :
          /\ \/ Succeeds(accounts, op) /\ accounts' = Mutated(accounts, op)
             \/ accounts' = RolledBack(accounts, op)
          /\ UNCHANGED <<executed_txs, current_lsn, awaiting, acked>>
    \/ /\ UNCHANGED <<accounts, executed_txs, current_lsn>>
       /\ awaiting' \subseteq awaiting
       /\ acked' \subseteq acked \union awaiting

\* The accounts own no more than at first, and the ids that were executed have
\* the LSN of a record.
MintInv(ids, base) ==
    /\ base \in [Accounts -> Owned] /\ NoMore(base, accounts)
    /\ current_lsn \in Nat
    /\ DOMAIN executed_txs \subseteq ids
    /\ \A t \in DOMAIN executed_txs : executed_txs[t] \in 1..current_lsn
    /\ awaiting \subseteq DOMAIN executed_txs
    /\ acked \subseteq DOMAIN executed_txs

\* It is kept (transaction.rs:327-656).
LEMMA EffectMintsNothing ==
    ASSUME NEW ids, NEW ops, NEW base, ops \subseteq AnyOp, MintInv(ids, base), TxEffect(ids, ops)
    PROVE  MintInv(ids, base)'
<1>0. base \in [Accounts -> Owned] /\ NoMore(base, accounts) /\ accounts \in [Accounts -> Owned]
  BY DEF MintInv, NoMore
<1>1. CASE \E tx \in ids, op \in ops :
          /\ Succeeds(accounts, op)
          /\ accounts' = Mutated(accounts, op)
          /\ current_lsn' = current_lsn + 1
          /\ executed_txs' = [t \in DOMAIN executed_txs \union {tx} |->
                                IF t = tx THEN current_lsn + 1 ELSE executed_txs[t]]
          /\ awaiting' \subseteq {tx}
          /\ UNCHANGED acked
  <2>1. PICK tx \in ids, op \in ops :
          /\ Succeeds(accounts, op)
          /\ accounts' = Mutated(accounts, op)
          /\ current_lsn' = current_lsn + 1
          /\ executed_txs' = [t \in DOMAIN executed_txs \union {tx} |->
                                IF t = tx THEN current_lsn + 1 ELSE executed_txs[t]]
          /\ awaiting' \subseteq {tx}
          /\ UNCHANGED acked
    BY <1>1
  <2>2. NoMore(accounts, accounts')
    BY <1>0, <2>1, MutatedMintsNothing
  <2>3. NoMore(base, accounts')
    BY <1>0, <2>2, NoMoreThanFirst
  <2>4. /\ DOMAIN executed_txs' = DOMAIN executed_txs \union {tx}
        /\ executed_txs'[tx] = current_lsn + 1
        /\ \A t \in DOMAIN executed_txs \ {tx} : executed_txs'[t] = executed_txs[t]
    BY <2>1
  <2>5. \A t \in DOMAIN executed_txs' : executed_txs'[t] \in 1..current_lsn'
    BY <2>1, <2>4 DEF MintInv
  <2> QED BY <1>0, <2>1, <2>3, <2>4, <2>5 DEF MintInv
<1>2. CASE \E op \in ops :
          /\ \/ Succeeds(accounts, op) /\ accounts' = Mutated(accounts, op)
             \/ accounts' = RolledBack(accounts, op)
          /\ UNCHANGED <<executed_txs, current_lsn, awaiting, acked>>
  <2>1. PICK op \in ops :
          /\ \/ Succeeds(accounts, op) /\ accounts' = Mutated(accounts, op)
             \/ accounts' = RolledBack(accounts, op)
          /\ UNCHANGED <<executed_txs, current_lsn, awaiting, acked>>
    BY <1>2
  <2>2. NoMore(accounts, accounts')
    BY <1>0, <2>1, MutatedMintsNothing, RolledBackMintsNothing
  <2>3. NoMore(base, accounts')
    BY <1>0, <2>2, NoMoreThanFirst
  <2> QED BY <1>0, <2>1, <2>3 DEF MintInv
<1>3. CASE /\ UNCHANGED <<accounts, executed_txs, current_lsn>>
           /\ awaiting' \subseteq awaiting
           /\ acked' \subseteq acked \union awaiting
  BY <1>3 DEF MintInv
<1> QED BY <1>1, <1>2, <1>3 DEF TxEffect

\* Every step of the manager has such an effect.
LEMMA NextHasEffect == ASSUME [Next]_vars PROVE TxEffect(TxIds, Ops)
<1>1. CASE \E tx \in TxIds, op \in Ops, g \in issued, s \in Sessions, durable \in BOOLEAN :
              execute_transaction(tx, op, s, g, durable)
  <2>1. PICK tx \in TxIds, op \in Ops, g \in issued, s \in Sessions, durable \in BOOLEAN :
              execute_transaction(tx, op, s, g, durable)
    BY <1>1
  <2>2. /\ Succeeds(accounts, op)
        /\ accounts' = Mutated(accounts, op)
        /\ current_lsn' = current_lsn + 1
        /\ executed_txs' = [t \in DOMAIN executed_txs \union {tx} |->
                              IF t = tx THEN current_lsn + 1 ELSE executed_txs[t]]
        /\ awaiting' \subseteq {tx}
        /\ UNCHANGED acked
    BY <2>1 DEF execute_transaction, Commit, append
  <2> QED BY <2>2 DEF TxEffect
<1>2. CASE \E tx \in TxIds, op \in Ops, g \in issued, s \in Sessions :
              execute_buffer_full(tx, op, s, g) \/ execute_aborted(tx, op, s, g)
  <2>1. PICK tx \in TxIds, op \in Ops, g \in issued, s \in Sessions :
              execute_buffer_full(tx, op, s, g) \/ execute_aborted(tx, op, s, g)
    BY <1>2
  <2>2. /\ \/ Succeeds(accounts, op) /\ accounts' = Mutated(accounts, op)
           \/ accounts' = RolledBack(accounts, op)
        /\ UNCHANGED <<executed_txs, current_lsn, awaiting, acked>>
    BY <2>1 DEF execute_buffer_full, execute_aborted, walVars
  <2> QED BY <2>2 DEF TxEffect
<1>3. CASE flush_begin \/ flush_step \/ flush_ok \/ flush_fails \/ acquire \/ advance_tick
           \/ UNCHANGED vars
  <2>1. /\ UNCHANGED <<accounts, executed_txs, current_lsn>>
        /\ awaiting' \subseteq awaiting
        /\ acked' \subseteq acked \union awaiting
    BY <1>3 DEF flush_begin, flush_step, flush_ok, flush_fails, acquire, advance_tick, vars, txVars,
       walVars, BeginFlush, WriteBatch, EndWrites, SyncOk, WriteBatchFails, SyncFails
  <2> QED BY <2>1 DEF TxEffect
<1> QED BY <1>1, <1>2, <1>3 DEF Next

\* Nobody asks for no items at all: a transfer of none would leave an empty
\* stack that can be worn.
SomeItems == "item" \in Kinds => 0 \notin Amounts

\* Every operation a client may submit is then one that asks for something
\* (transaction.rs, TransactionOp).
LEMMA OpsAreAny == ASSUME SomeItems PROVE Ops \subseteq AnyOp
<1> SUFFICES ASSUME NEW op \in Ops PROVE op \in AnyOp
  OBVIOUS
<1>1. Amounts \subseteq Nat
  BY AmountsAssumption
<1> USE <1>1
<1>2. CASE op \in [kind : {"spend"} \intersect Kinds, account : Accounts, amount : Amounts,
                   currency : Currencies]
  BY <1>2 DEF AnyOp
<1>3. CASE op \in [kind : {"transfer"} \intersect Kinds, account : Accounts, to : Accounts,
                   amount : Amounts, currency : Currencies]
  BY <1>3 DEF AnyOp
<1>4. CASE op \in [kind : {"item"} \intersect Kinds, account : Accounts, to : Accounts,
                   item : Items, amount : Amounts]
  <2>1. Amounts \subseteq Nat \ {0}
    BY <1>4 DEF SomeItems
  <2> QED BY <1>4, <2>1 DEF AnyOp
<1>5. CASE op \in [kind : {"equip"} \intersect Kinds, account : Accounts, from : 1..InvSlots,
                   slot : EquipSlots]
  BY <1>5 DEF AnyOp
<1>6. CASE op \in [kind : {"unequip"} \intersect Kinds, account : Accounts, slot : EquipSlots]
  BY <1>6 DEF AnyOp
<1> QED BY <1>2, <1>3, <1>4, <1>5, <1>6 DEF Ops

\* The accounts at first (AccountState::new and register_account).
LEMMA FirstAccounts ==
    ASSUME NEW inv \in [Accounts -> [1..InvSlots -> OwnedStacks]]
    PROVE  [a \in Accounts |-> [currency |-> [c \in Currencies |-> InitialBalance],
                                inventory |-> inv[a],
                                equipment |-> [e \in EquipSlots |-> NoItem]]] \in [Accounts -> Owned]
BY LimitsAssumption DEF Owned

\* Accounts without empty stacks have the type of accounts (transaction.rs,
\* AccountState).
LEMMA OwnedIsTyped == Owned \subseteq AccountState
<1>1. OwnedStacks \subseteq Stacks
  BY LimitsAssumption DEF OwnedStacks, Stacks
<1> QED BY <1>1 DEF Owned, AccountState

\* What the invariant says of the manager's own state.
LEMMA MintInvIsEnough ==
    ASSUME NEW base, MintInv(TxIds, base)
    PROVE  /\ TxTypeOK
           /\ \A c \in Currencies : TotalCurrency(accounts, c) <= TotalCurrency(base, c)
           /\ \A i \in Items : TotalItems(accounts, i) <= TotalItems(base, i)
<1>1. accounts \in [Accounts -> AccountState]
  <2>1. accounts \in [Accounts -> Owned]
    BY DEF MintInv, NoMore
  <2> QED BY <2>1, OwnedIsTyped
<1> QED BY <1>1 DEF MintInv, NoMore, TxTypeOK

\* It holds at first, when the accounts are as they were created and nothing
\* was executed (transaction.rs, TransactionManager::new).
LEMMA MintInit == ASSUME Init PROVE MintInv(TxIds, InitialAccounts)
<1>1. InitialAccounts \in [Accounts -> Owned]
  BY FirstAccounts, InventoryAssumption DEF InitialAccounts
<1>2. accounts = InitialAccounts
  BY DEF Init, InitialAccounts
<1>3. NoMore(InitialAccounts, accounts)
  BY <1>1, <1>2, SameOwnNoMore
<1>4. current_lsn = 0 /\ DOMAIN executed_txs = {} /\ awaiting = {} /\ acked = {}
  BY DEF Init, WalInit
<1> QED BY <1>1, <1>3, <1>4 DEF MintInv

\* No operation of any kind, in any order, whatever fails, mints currency or
\* items, and balances, stacks and LSNs stay within their types.
THEOREM NothingIsMinted ==
    ASSUME SomeItems PROVE Spec => [](TxTypeOK /\ NoMintedCurrency /\ NoMintedItems)
<1>1. Init => MintInv(TxIds, InitialAccounts)
  BY MintInit
<1>2. MintInv(TxIds, InitialAccounts) /\ [Next]_vars => MintInv(TxIds, InitialAccounts)'
  <2> SUFFICES ASSUME MintInv(TxIds, InitialAccounts), [Next]_vars
               PROVE  MintInv(TxIds, InitialAccounts)'
    OBVIOUS
  <2>1. TxEffect(TxIds, Ops) /\ Ops \subseteq AnyOp
    BY NextHasEffect, OpsAreAny
  <2> QED BY <2>1, EffectMintsNothing
<1>3. MintInv(TxIds, InitialAccounts) => TxTypeOK /\ NoMintedCurrency /\ NoMintedItems
  BY MintInvIsEnough DEF NoMintedCurrency, NoMintedItems
<1> QED BY <1>1, <1>2, <1>3, PTL DEF Spec

\* Trading is by the same accounts and the same operations on them.
LEMMA TradesAreOps ==
    ASSUME NEW acc, NEW op
    PROVE  /\ Trading!Succeeds(acc, op) <=> Succeeds(acc, op)
           /\ Trading!Mutated(acc, op) = Mutated(acc, op)
           /\ Trading!RolledBack(acc, op) = RolledBack(acc, op)
<1>1. \A a, i : Trading!SlotsOf(a, i) = SlotsOf(a, i)
  BY DEF Trading!SlotsOf, SlotsOf
<1>2. Trading!Empty = Empty /\ Trading!NoItem = NoItem
  BY DEF Trading!Empty, Empty, Trading!NoItem, NoItem
<1>0. \A S : Trading!Min(S) = Min(S)
  BY DEF Trading!Min, Min
<1>3. \A a, b, m : Trading!sat_add(a, b, m) = sat_add(a, b, m)
  BY DEF Trading!sat_add, sat_add
<1>4. \A a, c, n : /\ Trading!can_debit(a, c, n) <=> can_debit(a, c, n)
                   /\ Trading!debit_currency(a, c, n) = debit_currency(a, c, n)
                   /\ Trading!credit_currency(a, c, n) = credit_currency(a, c, n)
  BY DEF Trading!can_debit, can_debit, Trading!debit_currency, debit_currency,
     Trading!credit_currency, credit_currency, Trading!sat_add, sat_add
<1>5. \A a, i, n : /\ Trading!can_add(a, i) <=> can_add(a, i)
                   /\ Trading!can_remove(a, i, n) <=> can_remove(a, i, n)
                   /\ Trading!has_item(a, i, n) <=> has_item(a, i, n)
  <2> SUFFICES ASSUME NEW a, NEW i, NEW n
               PROVE  /\ Trading!can_add(a, i) <=> can_add(a, i)
                      /\ Trading!can_remove(a, i, n) <=> can_remove(a, i, n)
                      /\ Trading!has_item(a, i, n) <=> has_item(a, i, n)
    OBVIOUS
  <2>1. Trading!can_add(a, i) <=> can_add(a, i)
    BY <1>1, <1>2 DEF Trading!can_add, can_add
  <2>2. Trading!can_remove(a, i, n) <=> can_remove(a, i, n)
    BY <1>0, <1>1 DEF Trading!can_remove, can_remove
  <2>3. Trading!has_item(a, i, n) <=> has_item(a, i, n)
    BY <1>1 DEF Trading!has_item, has_item
  <2> QED BY <2>1, <2>2, <2>3
<1>6. ASSUME NEW a, NEW i, NEW n PROVE Trading!add_item(a, i, n) = add_item(a, i, n)
  BY <1>0, <1>1, <1>2, <1>3 DEF Trading!add_item, add_item
<1>7. ASSUME NEW a, NEW i, NEW n PROVE Trading!remove_item(a, i, n) = remove_item(a, i, n)
  BY <1>0, <1>1, <1>2 DEF Trading!remove_item, remove_item
<1>8. \A a, s, e : /\ Trading!can_equip(a, s, e) <=> can_equip(a, s, e)
                   /\ Trading!equip_item(a, s, e) = equip_item(a, s, e)
  BY DEF Trading!can_equip, can_equip, Trading!equip_item, equip_item, Trading!Compatible, Compatible,
     Trading!Empty, Empty, Trading!NoItem, NoItem
<1>9. \A a, e : /\ Trading!can_unequip(a, e) <=> can_unequip(a, e)
                /\ Trading!unequip_item(a, e) = unequip_item(a, e)
  BY <1>2, <1>5, <1>6 DEF Trading!can_unequip, can_unequip, Trading!unequip_item, unequip_item
<1>10. Trading!Succeeds(acc, op) <=> Succeeds(acc, op)
  BY <1>4, <1>5, <1>8, <1>9 DEF Trading!Succeeds, Succeeds
<1>11. Trading!Mutated(acc, op) = Mutated(acc, op)
  BY <1>4, <1>6, <1>7, <1>8, <1>9 DEF Trading!Mutated, Mutated
<1>12. Trading!RolledBack(acc, op) = RolledBack(acc, op)
  BY <1>5, <1>6, <1>7 DEF Trading!RolledBack, RolledBack
<1> QED BY <1>10, <1>11, <1>12

\* A trader's operations ask for something: one item moves, or is worn or
\* taken off (transaction.rs, TransactionOp).
LEMMA TradedAreAny == Trading!Ops \subseteq AnyOp
<1> SUFFICES ASSUME NEW op \in Trading!Ops PROVE op \in AnyOp
  OBVIOUS
<1>1. CASE op.kind = "item"
  BY <1>1 DEF Trading!Ops, AnyOp
<1>2. CASE op.kind = "equip"
  BY <1>2 DEF Trading!Ops, AnyOp
<1>3. CASE op.kind = "unequip"
  BY <1>3 DEF Trading!Ops, AnyOp
<1>4. op.kind \in {"item", "equip", "unequip"}
  BY DEF Trading!Ops
<1> QED BY <1>1, <1>2, <1>3, <1>4

\* Every step of a trading session has such an effect.
LEMMA TradeHasEffect ==
    ASSUME Trading!Next \/ UNCHANGED vars PROVE TxEffect(TraderTxIds, Trading!Ops)
<1>1. CASE \E tx \in TraderTxIds, op \in Trading!Ops, g \in issued, s \in {TraderSession}, durable \in BOOLEAN :
              Trading!execute_transaction(tx, op, s, g, durable)
  <2>1. PICK tx \in TraderTxIds, op \in Trading!Ops, g \in issued, s \in {TraderSession}, durable \in BOOLEAN :
              Trading!execute_transaction(tx, op, s, g, durable)
    BY <1>1
  <2>2. /\ Trading!Succeeds(accounts, op)
        /\ accounts' = Trading!Mutated(accounts, op)
        /\ current_lsn' = current_lsn + 1
        /\ executed_txs' = [t \in DOMAIN executed_txs \union {tx} |->
                              IF t = tx THEN current_lsn + 1 ELSE executed_txs[t]]
        /\ awaiting' \subseteq {tx}
        /\ UNCHANGED acked
    BY <2>1 DEF Trading!execute_transaction, Trading!Commit, Trading!append
  <2>3. Succeeds(accounts, op) /\ accounts' = Mutated(accounts, op)
    BY <2>2, TradesAreOps
  <2> QED BY <2>2, <2>3 DEF TxEffect
<1>2. CASE \E tx \in TraderTxIds, op \in Trading!Ops, g \in issued, s \in {TraderSession} :
              Trading!execute_buffer_full(tx, op, s, g) \/ Trading!execute_aborted(tx, op, s, g)
  <2>1. PICK tx \in TraderTxIds, op \in Trading!Ops, g \in issued, s \in {TraderSession} :
              Trading!execute_buffer_full(tx, op, s, g) \/ Trading!execute_aborted(tx, op, s, g)
    BY <1>2
  <2>2. /\ \/ Trading!Succeeds(accounts, op) /\ accounts' = Trading!Mutated(accounts, op)
           \/ accounts' = Trading!RolledBack(accounts, op)
        /\ UNCHANGED <<executed_txs, current_lsn, awaiting, acked>>
    BY <2>1 DEF Trading!execute_buffer_full, Trading!execute_aborted, Trading!walVars
  <2>3. \/ Succeeds(accounts, op) /\ accounts' = Mutated(accounts, op)
        \/ accounts' = RolledBack(accounts, op)
    BY <2>2, TradesAreOps
  <2> QED BY <2>2, <2>3 DEF TxEffect
<1>3. CASE Trading!flush_begin \/ Trading!flush_step \/ Trading!flush_ok \/ Trading!flush_fails
           \/ Trading!acquire \/ Trading!advance_tick \/ UNCHANGED vars
  <2>1. /\ UNCHANGED <<accounts, executed_txs, current_lsn>>
        /\ awaiting' \subseteq awaiting
        /\ acked' \subseteq acked \union awaiting
    BY <1>3 DEF Trading!flush_begin, Trading!flush_step, Trading!flush_ok, Trading!flush_fails,
       Trading!acquire, Trading!advance_tick, vars, txVars, walVars, Trading!txVars, Trading!walVars,
       Trading!BeginFlush, Trading!WriteBatch, Trading!EndWrites, Trading!SyncOk,
       Trading!WriteBatchFails, Trading!SyncFails
  <2> QED BY <2>1 DEF TxEffect
<1> QED BY <1>1, <1>2, <1>3 DEF Trading!Next

\* The trader's accounts at first: a ring and a sword.
TradedAccounts == Trading!InitialAccounts

\* Those two are items, and a bag has slots for both.
TraderBags == InvSlots >= 2 /\ {"band", "sword"} \subseteq Items

\* What the traders start with is well formed, and nothing was minted yet
\* (transaction.rs, AccountState).
LEMMA TradeInit ==
    ASSUME TraderBags, Trading!Init PROVE MintInv(TraderTxIds, TradedAccounts)
<1>1. BagsSingle \in [Accounts -> [1..InvSlots -> OwnedStacks]]
  <2>1. Nothing \in [1..InvSlots -> OwnedStacks]
    BY DEF Nothing, OwnedStacks
  <2>2. stack("band", 1) \in OwnedStacks /\ stack("sword", 1) \in OwnedStacks
    BY LimitsAssumption DEF TraderBags, OwnedStacks, stack
  <2>3. [Nothing EXCEPT ![1] = stack("band", 1), ![2] = stack("sword", 1)] \in [1..InvSlots -> OwnedStacks]
    BY <2>1, <2>2
  <2> QED BY <2>1, <2>3 DEF BagsSingle
<1>2. TradedAccounts \in [Accounts -> Owned]
  <2>1. TradedAccounts = [a \in Accounts |-> [currency |-> [c \in Currencies |-> InitialBalance],
                                inventory |-> BagsSingle[a],
                                equipment |-> [e \in EquipSlots |-> NoItem]]]
    BY DEF TradedAccounts, Trading!InitialAccounts, Trading!NoItem, NoItem
  <2> QED BY <1>1, <2>1, FirstAccounts
<1>3. accounts = TradedAccounts
  BY DEF Trading!Init, TradedAccounts, Trading!InitialAccounts
<1>4. NoMore(TradedAccounts, accounts)
  BY <1>2, <1>3, SameOwnNoMore
<1>5. current_lsn = 0 /\ DOMAIN executed_txs = {} /\ awaiting = {} /\ acked = {}
  BY DEF Trading!Init, Trading!WalInit
<1> QED BY <1>2, <1>4, <1>5 DEF MintInv

\* The invariant gives the traders' properties too: the totals that their
\* instance of the manager defines are the same totals (transaction.rs).
LEMMA TradeInvIsEnough ==
    ASSUME MintInv(TraderTxIds, TradedAccounts)
    PROVE  Trading!TxTypeOK /\ Trading!NoMintedItems
<1>1. accounts \in [Accounts -> Trading!AccountState]
  <2>1. accounts \in [Accounts -> Owned]
    BY DEF MintInv, NoMore
  <2>2. Trading!AccountState = AccountState
    BY DEF Trading!AccountState, AccountState, Trading!Stacks, Stacks, Trading!Empty, Empty,
       Trading!NoItem, NoItem
  <2> QED BY <2>1, <2>2, OwnedIsTyped
<1>2. Trading!TxTypeOK
  BY <1>1 DEF MintInv, Trading!TxTypeOK
<1>3. ASSUME NEW acc, NEW i PROVE Trading!TotalItems(acc, i) = TotalItems(acc, i)
  <2>0. ASSUME NEW f, NEW S PROVE Trading!SumFunctionOnSet(f, S) = SumFunctionOnSet(f, S)
    BY DEF Trading!SumFunctionOnSet, SumFunctionOnSet, Trading!FoldFunctionOnSet, FoldFunctionOnSet,
       Trading!MapThenFoldSet, MapThenFoldSet
  <2>1. \A a : Trading!ItemsOf(a, i) = ItemsOf(a, i)
    <3> SUFFICES ASSUME NEW a PROVE Trading!ItemsOf(a, i) = ItemsOf(a, i)
      OBVIOUS
    <3>1. Trading!Carried(a, i) = Carried(a, i) /\ Trading!Worn(a, i) = Worn(a, i)
      BY DEF Trading!Carried, Carried, Trading!Worn, Worn
    <3> QED BY <2>0, <3>1 DEF Trading!ItemsOf, ItemsOf
  <2>2. [a \in Accounts |-> Trading!ItemsOf(acc[a], i)] = [a \in Accounts |-> ItemsOf(acc[a], i)]
    BY <2>1
  <2> QED BY <2>0, <2>2 DEF Trading!TotalItems, TotalItems
<1>4. Trading!NoMintedItems
  BY <1>3 DEF MintInv, NoMore, Trading!NoMintedItems, TradedAccounts
<1> QED BY <1>2, <1>4

\* A flush leaves the journal the records it had, in the ring or in the file
\* (wal.rs:440-498).
LEMMA MovedAreJournalled ==
    ASSUME WalTypeOK, WalTypeOK', Moved PROVE Journalled' = Journalled
<1>1. /\ DOMAIN ring = 1..Len(ring) /\ DOMAIN file = 1..Len(file) /\ Len(file) \in Nat
      /\ DOMAIN ring' = 1..Len(ring') /\ DOMAIN file' = 1..Len(file') /\ Len(file') \in Nat
  BY LenProperties DEF WalTypeOK
<1>2. ASSUME NEW r \in Journalled PROVE r \in Journalled'
  <2>1. CASE \E i \in 1..Len(file) : file[i].intact /\ r = file[i].rec
    <3>1. PICK i \in 1..Len(file) : file[i].intact /\ r = file[i].rec
      BY <2>1
    <3>2. i \in 1..Len(file') /\ file'[i] = file[i]
      <4>1. Len(file') >= Len(file) /\ file'[i] = file[i]
        BY DEF Moved
      <4> QED BY <1>1, <4>1
    <3> QED BY <1>1, <3>1, <3>2 DEF Journalled
  <2>2. CASE \E k \in 1..Len(ring) : r = ring[k]
    <3>1. PICK k \in 1..Len(ring) : r = ring[k]
      BY <2>2
    <3>2. \/ \E i \in 1..Len(ring') : ring'[i] = r
          \/ \E i \in 1..Len(file') : file'[i].intact /\ file'[i].rec = r
      BY <3>1 DEF Moved
    <3> QED BY <1>1, <3>2 DEF Journalled
  <2> QED BY <1>1, <2>1, <2>2 DEF Journalled
<1>3. ASSUME NEW r \in Journalled' PROVE r \in Journalled
  <2>1. CASE \E i \in 1..Len(file') : file'[i].intact /\ r = file'[i].rec
    <3>1. PICK i \in 1..Len(file') : file'[i].intact /\ r = file'[i].rec
      BY <2>1
    <3>2. CASE i \in 1..Len(file)
      <4>1. file'[i] = file[i]
        BY <3>2 DEF Moved
      <4> QED BY <1>1, <3>1, <3>2, <4>1 DEF Journalled
    <3>3. CASE i \in (Len(file) + 1)..Len(file')
      <4>1. \E k \in 1..Len(ring) : file'[i].rec = ring[k]
        BY <3>3 DEF Moved
      <4> QED BY <1>1, <3>1, <4>1 DEF Journalled
    <3> QED BY <1>1, <3>2, <3>3
  <2>2. CASE \E k \in 1..Len(ring') : r = ring'[k]
    <3>1. \E k \in 1..Len(ring) : r = ring[k]
      BY <2>2 DEF Moved
    <3> QED BY <1>1, <3>1 DEF Journalled
  <2> QED BY <1>1, <2>1, <2>2 DEF Journalled
<1> QED BY <1>2, <1>3

\* The record of an LSN in a set of records, and what replaying n of them does
\* to the first accounts.
RecordIn(J, n) == CHOOSE r \in J : r.lsn = n

Replaying(J, n) ==
    FoldLeft(LAMBDA acc, k : Mutated(acc, RecordIn(J, k).data.op),
             InitialAccounts, [k \in 1..n |-> k])

\* Operations on wallets, which a replay applies without a check.
WalletOps ==
    [kind : {"spend"}, account : Accounts, amount : Nat, currency : Currencies]
    \union
    [kind : {"transfer"}, account : Accounts, to : Accounts, amount : Nat, currency : Currencies]

\* Accounts whose balances are any integers: what a replay that checks nothing
\* may reach.
Unchecked ==
    [Accounts -> [currency : [Currencies -> Int],
                  inventory : [1..InvSlots -> OwnedStacks],
                  equipment : [EquipSlots -> Items \union {NoItem}]]]

\* A wallet operation applied without its checks gives such accounts again
\* (transaction.rs, the mutation after the log append).
LEMMA WalletsStayTyped ==
    ASSUME NEW acc \in Unchecked, NEW op \in WalletOps PROVE Mutated(acc, op) \in Unchecked
<1> DEFINE A == [currency : [Currencies -> Int],
                 inventory : [1..InvSlots -> OwnedStacks],
                 equipment : [EquipSlots -> Items \union {NoItem}]]
           a == acc[op.account]
<1>1. /\ op.account \in Accounts /\ op.currency \in Currencies /\ op.amount \in Int
      /\ a \in A /\ MaxBalance \in Int
  BY LimitsAssumption DEF WalletOps, Unchecked
<1> HIDE DEF a
<1>2. debit_currency(a, op.currency, op.amount) \in A
  <2> DEFINE q == a.currency[op.currency] - op.amount
  <2>1. q \in Int
    BY <1>1
  <2>2. debit_currency(a, op.currency, op.amount) = [a EXCEPT !.currency[op.currency] = q]
    BY DEF debit_currency
  <2> HIDE DEF q
  <2> QED BY <1>1, <2>1, <2>2
<1>3. CASE op.kind = "spend"
  <2>1. Mutated(acc, op) = [acc EXCEPT ![op.account] = debit_currency(a, op.currency, op.amount)]
    BY <1>3 DEF Mutated, a
  <2> HIDE DEF A
  <2> QED BY <1>1, <1>2, <2>1 DEF Unchecked, A
<1>4. CASE op.kind = "transfer"
  <2> DEFINE m == acc[op.to]
  <2>1. Mutated(acc, op) = [acc EXCEPT ![op.account] = debit_currency(a, op.currency, op.amount),
                                       ![op.to] = credit_currency(@, op.currency, op.amount)]
    BY <1>4 DEF Mutated, a
  <2>2. op.to \in Accounts
    BY <1>4 DEF WalletOps
  <2>3. ASSUME NEW x \in A PROVE credit_currency(x, op.currency, op.amount) \in A
    <3>1. sat_add(x.currency[op.currency], op.amount, MaxBalance) \in Int
      BY <1>1 DEF sat_add
    <3> QED BY <1>1, <3>1 DEF credit_currency
  <2>4. acc \in [Accounts -> A]
    BY DEF Unchecked
  <2> HIDE DEF A
  <2>5. Mutated(acc, op) \in [Accounts -> A]
    BY <1>1, <1>2, <2>1, <2>2, <2>3, <2>4
  <2> QED BY <2>5 DEF A, Unchecked
<1>5. op.kind \in {"spend", "transfer"}
  BY DEF WalletOps
<1> QED BY <1>3, <1>4, <1>5

\* A replay goes record by record.
Replays(h, J, n) ==
    /\ h[0] = InitialAccounts
    /\ \A k \in 1..n : h[k] = Mutated(h[k - 1], RecordIn(J, k).data.op)

\* Replaying n records is applying their operations one after the other, in
\* the order of their LSNs (the fold of recovery over transaction.rs's records).
LEMMA ReplayedInOrder ==
    ASSUME NEW J, NEW n \in Nat, \A k \in 1..n : RecordIn(J, k).data.op \in WalletOps
    PROVE  \E h : Replays(h, J, n) /\ Replaying(J, n) = h[n]
<1> DEFINE T == Unchecked
           base == InitialAccounts
           of(k) == RecordIn(J, k).data.op
           F == [x \in (1..n) \X T |-> Mutated(x[2], of(x[1]))]
           Step(g) == [S \in SUBSET (1..n) |->
                         IF S = {} THEN base
                         ELSE LET m == Max(S) IN Mutated(g[S \ {m}], of(m))]
           it == CHOOSE g : g = Step(g)
<1>1. Replaying(J, n) = it[1..n]
  <2> DEFINE row == [k \in 1..n |-> k]
  <2>1. Replaying(J, n) = FoldLeft(LAMBDA acc, k : Mutated(acc, of(k)), base, row)
    BY DEF Replaying
  <2>2. DOMAIN row = 1..n /\ \A S \in SUBSET (1..n) : S # {} => row[Max(S)] = Max(S)
    <3>1. \A S \in SUBSET (1..n) : S # {} => Max(S) \in 1..n
      <4> SUFFICES ASSUME NEW S \in SUBSET (1..n), S # {} PROVE Max(S) \in 1..n
        OBVIOUS
      <4>1. S \subseteq 0..n
        OBVIOUS
      <4>2. \E m \in S : \A y \in S : m >= y
        BY <4>1, LargestOf
      <4> QED BY <4>2 DEF Max
    <3> QED BY <3>1
  <2> DEFINE Rows(g) == [S \in SUBSET (1..n) |->
                         IF S = {} THEN base
                         ELSE LET m == Max(S) IN Mutated(g[S \ {m}], of(row[m]))]
  <2>3. ASSUME NEW g PROVE Rows(g) = Step(g)
    <3> HIDE DEF row
    <3> QED BY <2>2
  <2>4. FoldLeft(LAMBDA acc, k : Mutated(acc, of(k)), base, row) = (CHOOSE g : g = Rows(g))[1..n]
    <3>1. DOMAIN row = 1..n
      BY <2>2
    <3> HIDE DEF base, row, of
    <3> QED BY <3>1 DEF FoldLeft, MapThenFoldSet
  <2>5. (CHOOSE g : g = Rows(g)) = it
    <3> HIDE DEF Rows, Step
    <3> QED BY <2>3
  <2> HIDE DEF it, Rows
  <2> QED BY <2>1, <2>4, <2>5
<1>2. \A k \in 1..n : of(k) \in WalletOps
  OBVIOUS
<1> HIDE DEF of
<1>3. F \in [(1..n) \X T -> T]
  <2> SUFFICES ASSUME NEW k \in 1..n, NEW p \in T PROVE Mutated(p, of(k)) \in T
    OBVIOUS
  <2> QED BY <1>2, WalletsStayTyped
<1>4. base \in T
  <2>1. base \in [Accounts -> Owned]
    BY FirstAccounts, InventoryAssumption DEF InitialAccounts
  <2>2. base = [a \in Accounts |-> base[a]] /\ \A a \in Accounts : base[a] \in Owned
    BY <2>1
  <2> HIDE DEF base
  <2>3. \A a \in Accounts : base[a] \in [currency : [Currencies -> Int],
                  inventory : [1..InvSlots -> OwnedStacks],
                  equipment : [EquipSlots -> Items \union {NoItem}]]
    BY <2>2, LimitsAssumption DEF Owned
  <2> QED BY <2>2, <2>3 DEF Unchecked
<1> HIDE DEF base
<1>5. \A S \in SUBSET (1..n) : S # {} => Max(S) \in S /\ \A y \in S : Max(S) >= y
  <2> SUFFICES ASSUME NEW S \in SUBSET (1..n), S # {}
               PROVE  Max(S) \in S /\ \A y \in S : Max(S) >= y
    OBVIOUS
  <2>1. \E m \in S : \A y \in S : m >= y
    <3>1. S \subseteq 0..n
      OBVIOUS
    <3> QED BY <3>1, LargestOf
  <2> QED BY <2>1 DEF Max
<1>6. it = Step(it)
  <2>0. PICK g : FoldsAs(g, n, T, base, F)
    <3> HIDE DEF T, F
    <3> QED BY <1>3, <1>4, FoldExists
  <2>1. /\ g \in [SUBSET (1..n) -> T] /\ g[{}] = base
        /\ \A S \in SUBSET (1..n) : \A m \in S :
               (\A y \in S : m >= y) => g[S] = F[<<m, g[S \ {m}]>>]
    <3> HIDE DEF T, F
    <3> QED BY <2>0 DEF FoldsAs
  <2>2. ASSUME NEW S \in SUBSET (1..n)
        PROVE  g[S] = IF S = {} THEN base
                      ELSE LET m == Max(S) IN Mutated(g[S \ {m}], of(m))
    <3>1. CASE S # {}
      <4> DEFINE m == Max(S)
      <4>1. m \in S /\ m \in 1..n /\ g[S \ {m}] \in T /\ \A y \in S : m >= y
        BY <3>1, <1>5, <2>1
      <4> HIDE DEF m, T
      <4>2. g[S] = F[<<m, g[S \ {m}]>>]
        BY <4>1, <2>1
      <4>3. F[<<m, g[S \ {m}]>>] = Mutated(g[S \ {m}], of(m))
        BY <4>1
      <4> QED BY <3>1, <4>2, <4>3 DEF m
    <3> QED BY <3>1, <2>1
  <2>3. g = Step(g)
    <3> HIDE DEF T, F
    <3> QED BY <2>1, <2>2
  <2> HIDE DEF Step
  <2> QED BY <2>3
<1> HIDE DEF it
<1> DEFINE h == [k \in 0..n |-> it[1..k]]
<1>7. h[0] = base
  <2>1. 1..0 = {} /\ 1..0 \in SUBSET (1..n) /\ 0 \in 0..n
    OBVIOUS
  <2>2. it[1..0] = base
    BY <2>1, <1>6
  <2> QED BY <2>1, <2>2
<1>8. ASSUME NEW k \in 1..n PROVE h[k] = Mutated(h[k - 1], of(k))
  <2> DEFINE S == 1..k  m == Max(S)
  <2>1. S \in SUBSET (1..n) /\ S # {} /\ k \in S /\ k \in 0..n /\ k - 1 \in 0..n
    OBVIOUS
  <2>2. m = k
    <3>1. m \in S /\ m >= k
      BY <2>1, <1>5
    <3> HIDE DEF m
    <3> QED BY <3>1
  <2>3. S \ {k} = 1..(k - 1)
    OBVIOUS
  <2>4. it[S] = Mutated(it[S \ {k}], of(k))
    <3> HIDE DEF S
    <3>1. it[S] = Mutated(it[S \ {m}], of(m))
      BY <2>1, <1>6
    <3> QED BY <3>1, <2>2
  <2> QED BY <2>1, <2>3, <2>4
<1>9. Replays(h, J, n)
  <2> HIDE DEF h
  <2> QED BY <1>7, <1>8 DEF Replays, base, of
<1>10. h[n] = it[1..n]
  OBVIOUS
<1> HIDE DEF h
<1> QED BY <1>1, <1>9, <1>10

\* One more record is replayed last.
LEMMA ReplayedNext ==
    ASSUME NEW J, NEW L, NEW n \in Nat, \A k \in 1..n : RecordIn(L, k) = RecordIn(J, k),
           \A k \in 1..(n + 1) : RecordIn(L, k).data.op \in WalletOps
    PROVE  Replaying(L, n + 1) = Mutated(Replaying(J, n), RecordIn(L, n + 1).data.op)
<1>1. PICK h : Replays(h, J, n) /\ Replaying(J, n) = h[n]
  <2>1. \A k \in 1..n : RecordIn(J, k).data.op \in WalletOps
    <3>1. \A k \in 1..n : k \in 1..(n + 1)
      OBVIOUS
    <3> QED BY <3>1
  <2> QED BY <2>1, ReplayedInOrder
<1>2. PICK g : Replays(g, L, n + 1) /\ Replaying(L, n + 1) = g[n + 1]
  <2>1. n + 1 \in Nat
    OBVIOUS
  <2> QED BY <2>1, ReplayedInOrder
<1> DEFINE G == {k \in 0..n : g[k] = h[k]}
<1>3. 0 \in G
  BY <1>1, <1>2 DEF Replays
<1>4. ASSUME NEW k \in 1..n, k - 1 \in G PROVE k \in G
  <2>1. g[k] = Mutated(g[k - 1], RecordIn(L, k).data.op)
    <3>1. k \in 1..(n + 1)
      OBVIOUS
    <3> QED BY <3>1, <1>2 DEF Replays
  <2>2. h[k] = Mutated(h[k - 1], RecordIn(J, k).data.op)
    BY <1>1 DEF Replays
  <2>3. g[k - 1] = h[k - 1] /\ RecordIn(L, k) = RecordIn(J, k) /\ k \in 0..n
    BY <1>4
  <2> QED BY <2>1, <2>2, <2>3
<1>5. n \in G
  <2> HIDE DEF G
  <2>1. \A k \in 0..n : k \in G
    BY <1>3, <1>4, UpTo
  <2>2. n \in 0..n
    OBVIOUS
  <2> QED BY <2>1, <2>2
<1>6. g[n + 1] = Mutated(g[n], RecordIn(L, n + 1).data.op)
  <2>1. n + 1 \in 1..(n + 1) /\ (n + 1) - 1 = n
    OBVIOUS
  <2>2. g[n + 1] = Mutated(g[(n + 1) - 1], RecordIn(L, n + 1).data.op)
    BY <2>1, <1>2 DEF Replays
  <2> QED BY <2>1, <2>2
<1> QED BY <1>1, <1>2, <1>5, <1>6

\* Replaying no record leaves the accounts as they were created.
LEMMA ReplayedNone == Replaying({}, 0) = InitialAccounts
<1>1. \A k \in 1..0 : RecordIn({}, k).data.op \in WalletOps
  OBVIOUS
<1>2. PICK h : Replays(h, {}, 0) /\ Replaying({}, 0) = h[0]
  BY <1>1, ReplayedInOrder
<1> QED BY <1>2 DEF Replays

\* The journal has one record of each LSN, and replaying them gives the
\* accounts.
ExplainInv ==
    /\ \A r \in Journalled : r.data.op \in WalletOps /\ r.lsn \in 1..current_lsn
    /\ \A r, q \in Journalled : r.lsn = q.lsn => r = q
    /\ \A n \in 1..current_lsn : \E r \in Journalled : r.lsn = n
    /\ accounts = Replaying(Journalled, current_lsn)

\* For wallets: no operation moves items.
WalletsOnly == Kinds \subseteq {"spend", "transfer"}

\* An operation whose record the full ring turned away: its caller is told
\* WalBufferFull, and the accounts keep the change (transaction.rs:374).
TurnedAway ==
    \E tx \in TxIds, op \in Ops, g \in issued, s \in Sessions : execute_buffer_full(tx, op, s, g)

\* The record of an LSN is the one there is.
LEMMA TheRecord ==
    ASSUME NEW J, NEW r \in J, NEW n, r.lsn = n, \A q \in J : q.lsn = n => q = r
    PROVE  RecordIn(J, n) = r
BY DEF RecordIn

\* An executed transaction adds its record and applies its operation.
LEMMA ExecuteExplains ==
    ASSUME WalletsOnly, TxInv, WalTypeOK', ExplainInv, current_lsn \in Nat,
           NEW tx \in TxIds, NEW op \in Ops, NEW s, NEW g, NEW durable,
           execute_transaction(tx, op, s, g, durable)
    PROVE  ExplainInv'
<1> DEFINE r == [lsn |-> current_lsn + 1, epoch |-> epoch, data |-> [tx |-> tx, op |-> op]]
           J == Journalled  L == Journalled'  n == current_lsn
<1>1. /\ ring' = Append(ring, r) /\ UNCHANGED file /\ current_lsn' = n + 1
      /\ accounts' = Mutated(accounts, op)
  BY DEF execute_transaction, Commit, append
<1>2. r.lsn = n + 1 /\ r.data.op = op
  OBVIOUS
<1> HIDE DEF r
<1>3. op \in WalletOps
  BY AmountsAssumption DEF Ops, WalletOps, WalletsOnly
<1>4. L = J \union {r}
  <2>1. /\ DOMAIN ring = 1..Len(ring) /\ Len(ring) \in Nat
        /\ DOMAIN ring' = 1..Len(ring')
    BY LenProperties DEF TxInv, WalInv, WalTypeOK
  <2>2. /\ Len(ring') = Len(ring) + 1 /\ ring'[Len(ring) + 1] = r
        /\ \A i \in 1..Len(ring) : ring'[i] = ring[i]
    <3>1. ring \in Seq(Record) /\ ring' \in Seq(Record)
      BY DEF TxInv, WalInv, WalTypeOK
    <3> QED BY <3>1, <1>1, LenProperties
  <2>3. {ring'[i] : i \in DOMAIN ring'} = {ring[i] : i \in DOMAIN ring} \union {r}
    <3>1. DOMAIN ring' = DOMAIN ring \union {Len(ring) + 1}
      BY <2>1, <2>2
    <3> QED BY <2>1, <2>2, <3>1
  <2> QED BY <1>1, <2>3 DEF Journalled
<1>5. /\ \A q \in J : q.data.op \in WalletOps /\ q.lsn \in 1..n
      /\ \A p, q \in J : p.lsn = q.lsn => p = q
      /\ \A k \in 1..n : \E q \in J : q.lsn = k
      /\ accounts = Replaying(J, n) /\ n \in Nat
  BY DEF ExplainInv
<1> HIDE DEF J, L, n
<1>6. \A q \in L : q.data.op \in WalletOps /\ q.lsn \in 1..(n + 1)
  BY <1>2, <1>3, <1>4, <1>5
<1>7. \A p, q \in L : p.lsn = q.lsn => p = q
  <2>1. \A q \in J : q.lsn # r.lsn
    BY <1>2, <1>5
  <2> QED BY <1>4, <1>5, <2>1
<1>8. \A k \in 1..(n + 1) : \E q \in L : q.lsn = k
  <2> SUFFICES ASSUME NEW k \in 1..(n + 1) PROVE \E q \in L : q.lsn = k
    OBVIOUS
  <2>1. CASE k \in 1..n
    BY <2>1, <1>4, <1>5
  <2>2. CASE k = n + 1
    BY <2>2, <1>2, <1>4
  <2> QED BY <2>1, <2>2, <1>5
<1>9. \A k \in 1..n : RecordIn(L, k) = RecordIn(J, k)
  <2> SUFFICES ASSUME NEW k \in 1..n PROVE RecordIn(L, k) = RecordIn(J, k)
    OBVIOUS
  <2>1. PICK q \in J : q.lsn = k
    BY <1>5
  <2>2. q \in L
    BY <1>4
  <2>3. RecordIn(J, k) = q
    BY <2>1, <1>5, TheRecord
  <2>4. RecordIn(L, k) = q
    BY <2>1, <2>2, <1>7, TheRecord
  <2> QED BY <2>3, <2>4
<1>10. RecordIn(L, n + 1) = r
  <2>1. r \in L
    BY <1>4
  <2> QED BY <2>1, <1>2, <1>7, TheRecord
<1>11. \A k \in 1..(n + 1) : RecordIn(L, k).data.op \in WalletOps
  <2> SUFFICES ASSUME NEW k \in 1..(n + 1) PROVE RecordIn(L, k).data.op \in WalletOps
    OBVIOUS
  <2>1. PICK q \in L : q.lsn = k
    BY <1>8
  <2>2. RecordIn(L, k) = q
    BY <2>1, <1>7, TheRecord
  <2> QED BY <2>2, <1>6
<1>12. Replaying(L, n + 1) = Mutated(Replaying(J, n), RecordIn(L, n + 1).data.op)
  BY <1>5, <1>9, <1>11, ReplayedNext
<1>13. accounts' = Replaying(L, n + 1)
  BY <1>1, <1>2, <1>5, <1>10, <1>12
<1>14. current_lsn' = n + 1
  BY <1>1
<1> QED BY <1>6, <1>7, <1>8, <1>13, <1>14 DEF ExplainInv, L

\* A flush, whatever fails in it, leaves the journal its records.
LEMMA FlushKeepsRecords ==
    ASSUME TxInv, WalTypeOK', flush_begin \/ flush_step \/ flush_ok \/ flush_fails
    PROVE  UNCHANGED <<Journalled, accounts, current_lsn>>
<1>1. UNCHANGED <<accounts, current_lsn>>
  BY DEF flush_begin, flush_step, flush_ok, flush_fails, txVars, BeginFlush, WriteBatch, EndWrites,
     SyncOk, WriteBatchFails, SyncFails
<1>2. CASE WriteBatch \/ WriteBatchFails
  <2>1. Moved /\ WalTypeOK
    BY <1>2, BatchMoved, FailedBatchMoved DEF TxInv, WalInv
  <2> QED BY <1>1, <2>1, MovedAreJournalled
<1>3. CASE BeginFlush \/ EndWrites \/ SyncOk \/ SyncFails
  <2>1. UNCHANGED <<ring, file>>
    BY <1>3 DEF BeginFlush, EndWrites, SyncOk, SyncFails
  <2> QED BY <1>1, <2>1 DEF Journalled
<1> QED BY <1>2, <1>3 DEF flush_begin, flush_step, flush_ok, flush_fails

\* Every step of the manager that turns no record away keeps the accounts
\* explained (transaction.rs:327-656).
LEMMA ExplainStep ==
    ASSUME WalletsOnly, TxInv, WalTypeOK', ExplainInv, [Next]_vars, [~TurnedAway]_vars
    PROVE  ExplainInv'
<1>0. current_lsn \in Nat
  BY DEF TxInv, WalInv, WalTypeOK
<1>1. CASE \E tx \in TxIds, op \in Ops, g \in issued, s \in Sessions, durable \in BOOLEAN :
              execute_transaction(tx, op, s, g, durable)
  BY <1>0, <1>1, ExecuteExplains
<1>2. ASSUME UNCHANGED <<Journalled, accounts, current_lsn>> PROVE ExplainInv'
  BY <1>2 DEF ExplainInv
<1>3. ~TurnedAway \/ UNCHANGED vars
  OBVIOUS
<1>4. CASE \E tx \in TxIds, op \in Ops, g \in issued, s \in Sessions : execute_aborted(tx, op, s, g)
  <2>1. PICK tx \in TxIds, op \in Ops, g \in issued, s \in Sessions : execute_aborted(tx, op, s, g)
    BY <1>4
  <2>2. op.kind # "item"
    BY DEF Ops, WalletsOnly
  <2>3. accounts' = accounts
    BY <2>1, <2>2 DEF execute_aborted, RolledBack
  <2>4. UNCHANGED <<ring, file, current_lsn>>
    BY <2>1 DEF execute_aborted, walVars
  <2> QED BY <2>3, <2>4, <1>2 DEF Journalled
<1>5. CASE flush_begin \/ flush_step \/ flush_ok \/ flush_fails
  BY <1>5, <1>2, FlushKeepsRecords
<1>6. CASE acquire \/ advance_tick \/ UNCHANGED vars
  <2>1. UNCHANGED <<ring, file, current_lsn, accounts>>
    BY <1>6 DEF acquire, advance_tick, vars, txVars, walVars
  <2> QED BY <2>1, <1>2 DEF Journalled
<1> QED BY <1>1, <1>3, <1>4, <1>5, <1>6 DEF Next, TurnedAway

\* It holds at first: no record was written, and the accounts are as they were
\* created (transaction.rs, TransactionManager::new).
LEMMA ExplainInit == ASSUME Init PROVE ExplainInv
<1>1. ring = <<>> /\ file = <<>> /\ current_lsn = 0 /\ accounts = InitialAccounts
  BY DEF Init, WalInit, InitialAccounts
<1>2. Journalled = {}
  BY <1>1 DEF Journalled
<1>3. accounts = Replaying(Journalled, current_lsn)
  BY <1>1, <1>2, ReplayedNone
<1> QED BY <1>1, <1>2, <1>3 DEF ExplainInv

\* What the two kinds of behaviours keep.
LedgerInv ==
    \/ ledger = "wallet" /\ TxInv /\ MintInv(TxIds, InitialAccounts) /\ ExplainInv
    \/ ledger = "items" /\ MintInv(TraderTxIds, TradedAccounts)

\* While no record is turned away by a full ring, replaying the journal's
\* records in order gives the wallets, whatever else fails; and neither wallets
\* nor the traders' bags hold anything that was minted (transaction.rs:327-656).
\* An operation whose record is turned away is in the wallets and not in the
\* journal: the hypothesis says exactly that this does not happen.
THEOREM AccountsAreExplained ==
    ASSUME Commands \subseteq Payloads, WalletsOnly, TraderBags
    PROVE  TransactionsSpec /\ [][ledger = "wallet" => ~TurnedAway]_<<ledger, vars>>
               => []AccountsExplained
<1>1. TransactionsInit => LedgerInv
  <2> SUFFICES ASSUME TransactionsInit PROVE LedgerInv
    OBVIOUS
  <2>1. CASE ledger = "wallet" /\ Init
    <3>1. TxInv
      BY <2>1, TxInit
    <3> QED BY <2>1, <3>1, MintInit, ExplainInit DEF LedgerInv
  <2>2. CASE ledger = "items" /\ Trading!Init
    BY <2>2, TradeInit DEF LedgerInv
  <2> QED BY <2>1, <2>2 DEF TransactionsInit
<1>2. LedgerInv /\ [TransactionsNext]_<<ledger, vars>>
          /\ [ledger = "wallet" => ~TurnedAway]_<<ledger, vars>> => LedgerInv'
  <2> SUFFICES ASSUME LedgerInv, [TransactionsNext]_<<ledger, vars>>,
                      [ledger = "wallet" => ~TurnedAway]_<<ledger, vars>>
               PROVE  LedgerInv'
    OBVIOUS
  <2>1. CASE ledger = "wallet"
    <3>1. TxInv /\ MintInv(TxIds, InitialAccounts) /\ ExplainInv
      BY <2>1 DEF LedgerInv
    <3>2. [Next]_vars /\ ledger' = ledger /\ [~TurnedAway]_vars
      BY <2>1 DEF TransactionsNext
    <3>3. TxInv'
      BY <3>1, <3>2, TxStep
    <3>4. MintInv(TxIds, InitialAccounts)'
      <4>1. TxEffect(TxIds, Ops)
        BY <3>2, NextHasEffect
      <4>2. Ops \subseteq AnyOp
        <5>1. SomeItems
          BY DEF SomeItems, WalletsOnly
        <5> QED BY <5>1, OpsAreAny
      <4> QED BY <3>1, <4>1, <4>2, EffectMintsNothing
    <3>5. ExplainInv'
      <4>1. WalTypeOK'
        BY <3>3 DEF TxInv, WalInv
      <4> QED BY <3>1, <3>2, <4>1, ExplainStep
    <3> QED BY <2>1, <3>2, <3>3, <3>4, <3>5 DEF LedgerInv
  <2>2. CASE ledger = "items"
    <3>1. MintInv(TraderTxIds, TradedAccounts)
      BY <2>2 DEF LedgerInv
    <3>2. (Trading!Next \/ UNCHANGED vars) /\ ledger' = ledger
      BY <2>2 DEF TransactionsNext
    <3>3. MintInv(TraderTxIds, TradedAccounts)'
      <4>1. TxEffect(TraderTxIds, Trading!Ops)
        BY <3>2, TradeHasEffect
      <4> QED BY <3>1, <4>1, TradedAreAny, EffectMintsNothing
    <3> QED BY <2>2, <3>2, <3>3 DEF LedgerInv
  <2> QED BY <2>1, <2>2 DEF LedgerInv
<1>3. LedgerInv => AccountsExplained
  <2> SUFFICES ASSUME LedgerInv PROVE AccountsExplained
    OBVIOUS
  <2>1. CASE ledger = "wallet"
    <3>1. MintInv(TxIds, InitialAccounts) /\ ExplainInv
      BY <2>1 DEF LedgerInv
    <3>2. TxTypeOK /\ NoMintedCurrency
      BY <3>1, MintInvIsEnough DEF NoMintedCurrency
    <3>3. JournalExplainsAccounts
      <4>1. accounts = Replaying(Journalled, current_lsn)
        BY <3>1 DEF ExplainInv
      <4> QED BY <4>1 DEF JournalExplainsAccounts, Replaying, RecordAt, RecordIn
    <3> QED BY <2>1, <3>2, <3>3 DEF AccountsExplained, NothingMinted, WalletsExplained
  <2>2. CASE ledger = "items"
    <3>1. Trading!TxTypeOK /\ Trading!NoMintedItems
      BY <2>2, TradeInvIsEnough DEF LedgerInv
    <3> QED BY <2>2, <3>1 DEF AccountsExplained, NothingMinted, WalletsExplained
  <2> QED BY <2>1, <2>2 DEF LedgerInv
<1> QED BY <1>1, <1>2, <1>3, PTL DEF TransactionsSpec

-------------------------------------------------------------------------------
(* The asynchronous journal (the SQPOLL journal of wal.rs). *)

\* A drainer between its switch of buffers and its look into the old one; and
\* between that and the end of its sync.
Taking(d) == drain_at[d].pc = "take"
Writing(d) == drain_at[d].pc \in {"write", "sync"}
Busy == {p \in Pushers : push_at[p].pc # "idle"}

\* What the parts of the state range over.
HalfFrames == [sequence : Nat, part : {"header", "record"}]
DrainStates == [pc : {"idle", "loop", "swap", "store", "take", "write", "sync", "done"}, old_idx : 0..1,
                batch : Seq(Nat), done : Nat, passes : Nat, end : {"idle", "loop", "done"}]

\* The variables are well typed, and the calls follow one another: flush_sync
\* and drop have the journal for themselves, and a drainer has a batch exactly
\* while it writes.
CallInv ==
    /\ active_buf_idx \in 0..1 /\ is_running \in BOOLEAN /\ disturbed \in BOOLEAN
    /\ buffers \in [0..1 -> Seq(Nat)] /\ \A b \in 0..1 : Len(buffers[b]) <= JOURNAL_BUFFER_CAPACITY
    /\ lock \in [0..1 -> Pushers \union {NoPusher}]
    /\ latest_sequence \in Nat /\ answered \in Nat
    /\ latest_sequence + Cardinality(Busy) <= MaxSequence
    /\ Len(buffers[0]) + Len(buffers[1]) <= latest_sequence
    /\ halves \in Seq(HalfFrames) /\ synced_len \in 0..Len(halves)
    /\ push_at \in [Pushers -> [pc : {"idle", "lock", "append"}, buf_idx : 0..1]]
    /\ drain_at \in [Drainers -> DrainStates]
    /\ drain_at["caller"].end = "idle" /\ drain_at["worker"].end # "idle"
    /\ drain_at["caller"].pc \notin {"loop", "done"} /\ drain_at["worker"].pc # "idle"
    /\ drain_at["worker"].pc = "done" => drain_at["worker"].end = "done"
    /\ \A d \in Drainers :
           /\ drain_at[d].pc \notin {"idle", "loop", "done"} => drain_at[d].passes \in 1..2
           /\ drain_at[d].pc = "write" <=> drain_at[d].batch # <<>>
           /\ drain_at[d].pc = "write" => drain_at[d].done <= 2 * Len(drain_at[d].batch)
           /\ drain_at[d].pc \notin {"write", "sync"} => drain_at[d].done = 0
    /\ ~ CallerIdle => PushersIdle /\ is_running
    /\ ~ is_running => PushersIdle
    /\ drain_at["worker"].end = "done" => ~ is_running

\* A record waits in one place of one buffer, or of one batch, and only the
\* halves that its batch has done are in the file, once each.
Batch(d) == drain_at[d].batch
InBuffer(s) == \E b \in 0..1 : \E i \in DOMAIN buffers[b] : buffers[b][i] = s
InBatch(s) == \E d \in Drainers : \E i \in DOMAIN Batch(d) : Batch(d)[i] = s
InFile(s, half) == \E k \in DOMAIN halves : halves[k] = [sequence |-> s, part |-> half]

\* A record that waits in a buffer is nowhere else; one of a batch is in no
\* other batch, and in the file as far as its drainer has come; the file has
\* no half twice; and no record is nowhere.
BuffersApart ==
    \A b \in 0..1 : \A i \in DOMAIN buffers[b] :
        /\ buffers[b][i] \in 1..latest_sequence
        /\ \A c \in 0..1 : \A j \in DOMAIN buffers[c] : buffers[b][i] = buffers[c][j] => b = c /\ i = j
        /\ ~ InBatch(buffers[b][i])
        /\ ~ InFile(buffers[b][i], "header") /\ ~ InFile(buffers[b][i], "record")
BatchesApart ==
    \A d \in Drainers : \A i \in DOMAIN Batch(d) :
        /\ Batch(d)[i] \in 1..latest_sequence
        /\ \A e \in Drainers : \A j \in DOMAIN Batch(e) : Batch(d)[i] = Batch(e)[j] => d = e /\ i = j
        /\ InFile(Batch(d)[i], "header") <=> 2 * i <= drain_at[d].done + 1
        /\ InFile(Batch(d)[i], "record") <=> 2 * i <= drain_at[d].done
HalvesOnce ==
    /\ \A k, l \in DOMAIN halves : halves[k] = halves[l] => k = l
    /\ \A k \in DOMAIN halves : halves[k].sequence \in 1..latest_sequence
NothingLost ==
    \A s \in 1..latest_sequence : InBuffer(s) \/ InBatch(s) \/ InFile(s, "record") \/ s \in dropped
HeldInv ==
    /\ BuffersApart /\ BatchesApart /\ HalvesOnce /\ NothingLost
    /\ committed_sequence \in 0..latest_sequence /\ answered <= latest_sequence

\* The flusher's two last passes empty both buffers, since nobody pushes.
Active == active_buf_idx
Inactive == 1 - active_buf_idx
ClosedInv ==
    LET w == drain_at["worker"]
    IN  w.end = "done" =>
        /\ w.pc = "store" => w.old_idx = Active
        /\ w.pc = "take" => w.old_idx = Inactive
        /\ w.passes = 2 /\ Writing("worker") => buffers[Inactive] = <<>>
        /\ w.passes = 1 /\ w.pc \in {"swap", "store"} => buffers[Inactive] = <<>>
        /\ w.passes = 1 /\ w.pc = "take" => buffers[Active] = <<>>
        /\ w.passes = 1 /\ Writing("worker") => buffers[Active] = <<>> /\ buffers[Inactive] = <<>>
        /\ w.pc = "done" => buffers[Active] = <<>> /\ buffers[Inactive] = <<>>

\* As long as nothing disturbs it, the records go to the file in the order of
\* their numbers: a batch, then the inactive buffer, which waits only for a
\* drainer that has switched, then the active one.  When flush_sync is late to
\* store the index, nothing was pushed since the flusher stored it.
InHand == Len(Batch("worker")) + Len(Batch("caller"))
QueueInv ==
    /\ \A d \in Drainers : Taking(d) => drain_at[d].old_idx = Inactive
    /\ ~ Taking("worker") /\ ~ Taking("caller") => buffers[Inactive] = <<>>
    /\ \A d \in Drainers : \A i \in DOMAIN Batch(d) : Batch(d)[i] = committed_sequence + i
    /\ \A i \in DOMAIN buffers[Inactive] : buffers[Inactive][i] = committed_sequence + InHand + i
    /\ \A i \in DOMAIN buffers[Active] :
           buffers[Active][i] = committed_sequence + InHand + Len(buffers[Inactive]) + i
    /\ latest_sequence = committed_sequence + InHand + Len(buffers[Inactive]) + Len(buffers[Active])
    /\ drain_at["caller"].pc = "store" /\ drain_at["caller"].old_idx # Active => buffers[Active] = <<>>
    /\ drain_at["caller"].passes = 1 /\ Taking("caller") => buffers[Active] = <<>>
    /\ drain_at["caller"].passes = 1 /\ Writing("caller") => buffers[Active] = <<>> /\ buffers[Inactive] = <<>>

\* The fence, the frames, the half just written, the sync and the answer.
FenceWritten == \A s \in 1..committed_sequence : Written(s)
FramesWhole ==
    \A k \in DOMAIN halves : halves[k].part = "record" =>
        k > 1 /\ halves[k - 1] = [sequence |-> halves[k].sequence, part |-> "header"]
HeaderFirst ==
    \A d \in Drainers : drain_at[d].pc = "write" /\ drain_at[d].done % 2 # 0 =>
        /\ Len(halves) > 0
        /\ halves[Len(halves)] = [sequence |-> Batch(d)[drain_at[d].done \div 2 + 1], part |-> "header"]
AllSynced == ~ Writing("worker") /\ ~ Writing("caller") => synced_len = Len(halves)
AnsweredSynced == \A s \in 1..answered : WrittenWithin(s, synced_len)

\* All of it holds until something disturbs the journal; SqInv is the inductive
\* invariant.
OrderInv ==
    ~ disturbed /\ dropped = {} =>
        /\ ~ (Writing("worker") /\ Writing("caller"))
        /\ ~ (Taking("worker") /\ Taking("caller")) => QueueInv
        /\ FenceWritten /\ FramesWhole /\ HeaderFirst /\ AllSynced /\ AnsweredSynced
SqInv == CallInv /\ HeldInv /\ ClosedInv /\ OrderInv

\* The empty sequence, of any kind.
LEMMA SqpollEmptySeq == ASSUME NEW S PROVE <<>> \in Seq(S) /\ Len(<<>>) = 0 /\ DOMAIN <<>> = {}
OBVIOUS

\* What an idle drainer and one that starts a pass look like.
LEMMA DrainerState ==
    ASSUME NEW pc \in {"idle", "loop", "swap", "done"}, NEW n \in Nat, NEW end \in {"idle", "loop", "done"}
    PROVE  /\ Drainer(pc, n, end) \in DrainStates
           /\ Drainer(pc, n, end).pc = pc /\ Drainer(pc, n, end).batch = <<>>
           /\ Drainer(pc, n, end).passes = n /\ Drainer(pc, n, end).end = end
           /\ Drainer(pc, n, end).done = 0
BY SqpollEmptySeq DEF Drainer, DrainStates

\* After a pass, or a failure, a drainer starts its next pass or is back where
\* it came from; it has no batch.
LEMMA AfterPassState ==
    ASSUME CallInv, NEW d \in Drainers, drain_at[d].pc \in {"take", "write", "sync"},
           NEW r, r \in {AfterPass(d), AfterFailure(d)}
    PROVE  /\ r \in DrainStates /\ r.batch = <<>> /\ r.done = 0 /\ r.end = drain_at[d].end
           /\ \/ r.pc = "swap" /\ r.passes = 1 /\ drain_at[d].passes = 2
              \/ /\ r.pc = drain_at[d].end
                 /\ drain_at[d].passes = 1 \/ d = "caller"
<1> drain_at[d] \in DrainStates /\ drain_at[d].passes \in 1..2
    /\ (d = "caller" => drain_at[d].end = "idle")
    /\ drain_at[d].end \in {"idle", "loop", "done"}
  BY DEF CallInv, DrainStates
<1>1. CASE r = AfterPass(d) /\ drain_at[d].passes = 2
  <2>1. r = Drainer("swap", 1, drain_at[d].end)
    BY <1>1 DEF AfterPass
  <2> QED BY <2>1, <1>1, DrainerState
<1>2. CASE r = AfterPass(d) /\ drain_at[d].passes = 1
  <2>1. r = Drainer(drain_at[d].end, 0, drain_at[d].end)
    BY <1>2 DEF AfterPass
  <2> QED BY <2>1, <1>2, DrainerState
<1>3. CASE r = AfterFailure(d) /\ d = "caller"
  <2>1. r = Drainer("idle", 0, "idle")
    BY <1>3 DEF AfterFailure
  <2> QED BY <2>1, <1>3, DrainerState
<1> QED BY <1>1, <1>2, <1>3 DEF AfterFailure

\* A step that leaves the queue and the callers alone and puts a drainer into a
\* state that fits keeps the calls in order.
LEMMA DrainKeepsCalls ==
    ASSUME CallInv, NEW d \in Drainers, NEW r \in DrainStates,
           drain_at' = [drain_at EXCEPT ![d] = r],
           UNCHANGED <<lock, latest_sequence, is_running, push_at>>,
           active_buf_idx' \in 0..1, disturbed' \in BOOLEAN, answered' \in Nat,
           buffers' \in [0..1 -> Seq(Nat)], \A b \in 0..1 : Len(buffers'[b]) <= Len(buffers[b]),
           halves' \in Seq(HalfFrames), synced_len' \in 0..Len(halves'),
           r.end = drain_at[d].end, ~ (d = "caller" /\ CallerIdle),
           r.pc \in {"swap", "store", "take", "write", "sync", drain_at[d].end},
           r.pc \in {"swap", "store", "take", "write", "sync"} => r.passes \in 1..2,
           r.pc = "write" <=> r.batch # <<>>,
           r.pc = "write" => r.done <= 2 * Len(r.batch),
           r.pc \notin {"write", "sync"} => r.done = 0
    PROVE  CallInv'
<1>0. /\ drain_at' \in [Drainers -> DrainStates] /\ drain_at'[d] = r
      /\ \A e \in Drainers \ {d} : drain_at'[e] = drain_at[e]
  BY DEF CallInv
<1>1. /\ drain_at'["caller"].end = "idle" /\ drain_at'["worker"].end # "idle"
      /\ drain_at'["caller"].pc \notin {"loop", "done"} /\ drain_at'["worker"].pc # "idle"
      /\ drain_at'["worker"].pc = "done" => drain_at'["worker"].end = "done"
  BY <1>0 DEF CallInv, Drainers, DrainStates
<1>2. \A e \in Drainers :
         /\ drain_at'[e].pc \notin {"idle", "loop", "done"} => drain_at'[e].passes \in 1..2
         /\ drain_at'[e].pc = "write" <=> drain_at'[e].batch # <<>>
         /\ drain_at'[e].pc = "write" => drain_at'[e].done <= 2 * Len(drain_at'[e].batch)
         /\ drain_at'[e].pc \notin {"write", "sync"} => drain_at'[e].done = 0
  <2> SUFFICES ASSUME NEW e \in Drainers
               PROVE /\ drain_at'[e].pc \notin {"idle", "loop", "done"} => drain_at'[e].passes \in 1..2
                     /\ drain_at'[e].pc = "write" <=> drain_at'[e].batch # <<>>
                     /\ drain_at'[e].pc = "write" => drain_at'[e].done <= 2 * Len(drain_at'[e].batch)
                     /\ drain_at'[e].pc \notin {"write", "sync"} => drain_at'[e].done = 0
    OBVIOUS
  <2>1. CASE e = d
    BY <2>1, <1>0 DEF CallInv, DrainStates
  <2>2. CASE e # d
    BY <2>2, <1>0 DEF CallInv
  <2> QED BY <2>1, <2>2
<1>3. /\ ~ CallerIdle' => PushersIdle' /\ is_running'
      /\ ~ is_running' => PushersIdle'
      /\ drain_at'["worker"].end = "done" => ~ is_running'
  <2>1. ~ CallerIdle' => ~ CallerIdle
    BY <1>0 DEF CallerIdle, Drainers
  <2>2. drain_at'["worker"].end = drain_at["worker"].end
    BY <1>0 DEF Drainers
  <2> QED BY <2>1, <2>2 DEF CallInv, PushersIdle
<1>4. Busy' = Busy
  BY DEF Busy
<1>5. /\ \A b \in 0..1 : Len(buffers'[b]) <= JOURNAL_BUFFER_CAPACITY
      /\ Len(buffers'[0]) + Len(buffers'[1]) <= latest_sequence
  <2>1. \A b \in 0..1 : Len(buffers[b]) \in Nat /\ Len(buffers'[b]) \in Nat
    BY LenProperties DEF CallInv
  <2>2. /\ JOURNAL_BUFFER_CAPACITY \in Nat /\ latest_sequence \in Nat
        /\ \A b \in 0..1 : Len(buffers[b]) <= JOURNAL_BUFFER_CAPACITY
        /\ Len(buffers[0]) + Len(buffers[1]) <= latest_sequence
    BY SqpollAssumption DEF CallInv
  <2>3. 0 \in 0..1 /\ 1 \in 0..1
    OBVIOUS
  <2>4. \A b \in 0..1 : Len(buffers'[b]) <= JOURNAL_BUFFER_CAPACITY
    BY <2>1, <2>2
  <2>5. Len(buffers'[0]) + Len(buffers'[1]) <= latest_sequence
    <3> DEFINE m == Len(buffers[0])  n == Len(buffers[1])  k == Len(buffers'[0])  l == Len(buffers'[1])
    <3>1. /\ m \in Nat /\ n \in Nat /\ k \in Nat /\ l \in Nat
          /\ k <= m /\ l <= n /\ m + n <= latest_sequence /\ latest_sequence \in Nat
      BY <2>1, <2>2, <2>3
    <3> HIDE DEF m, n, k, l
    <3>2. k + l <= latest_sequence
      BY <3>1
    <3> QED BY <3>2 DEF k, l
  <2> QED BY <2>4, <2>5
<1> QED BY <1>0, <1>1, <1>2, <1>3, <1>4, <1>5 DEF CallInv

\* What CallInv says of a drainer's batch (sqpoll_journal.rs:118-125).
LEMMA BatchType ==
    ASSUME CallInv, NEW d \in Drainers
    PROVE  /\ drain_at[d] \in DrainStates /\ drain_at[d].batch \in Seq(Nat)
           /\ Len(drain_at[d].batch) \in Nat
           /\ DOMAIN drain_at[d].batch = 1..Len(drain_at[d].batch)
BY LenProperties DEF CallInv, DrainStates

\* A sum of lengths, when one of them grows.
LEMMA SumGrows ==
    ASSUME NEW m \in Nat, NEW n \in Nat, NEW k, NEW l, (k = m + 1 /\ l = n) \/ (k = m /\ l = n + 1)
    PROVE  k + l = m + n + 1
OBVIOUS

\* The three accesses of a push (sqpoll_journal.rs:62-88) keep the calls in order.
LEMMA PushKeepsCalls ==
    ASSUME CallInv, NEW p \in Pushers, push(p) \/ PushLock(p) \/ PushAppend(p)
    PROVE  CallInv'
<1> DEFINE PushStates == [pc : {"idle", "lock", "append"}, buf_idx : 0..1]
<1>0. /\ push_at \in [Pushers -> PushStates] /\ push_at[p] \in PushStates
      /\ active_buf_idx \in 0..1 /\ latest_sequence \in Nat /\ lock \in [0..1 -> Pushers \union {NoPusher}]
      /\ \A b \in 0..1 : buffers[b] \in Seq(Nat) /\ Len(buffers[b]) \in Nat
      /\ buffers \in [0..1 -> Seq(Nat)] /\ 0 \in 0..1 /\ 1 \in 0..1
  BY LenProperties DEF CallInv
<1>f. IsFiniteSet(Busy) /\ Cardinality(Busy) \in Nat
  BY FS_Subset, FS_CardinalityType, SqpollAssumption DEF Busy
<1>m. MaxSequence \in Nat /\ JOURNAL_BUFFER_CAPACITY \in Nat
  BY SqpollAssumption
<1>1. CASE push(p)
  <2>1. /\ push_at' = [push_at EXCEPT ![p] = [pc |-> "lock", buf_idx |-> active_buf_idx]]
        /\ UNCHANGED <<queueVars, fileVars, is_running, drain_at, answered, disturbed>>
        /\ push_at[p].pc = "idle" /\ CallerIdle /\ is_running
        /\ latest_sequence + Cardinality(Busy) < MaxSequence
    BY <1>1 DEF push, Busy
  <2>2. push_at' \in [Pushers -> PushStates]
    BY <2>1, <1>0
  <2>3. Busy' = Busy \union {p} /\ p \notin Busy
    BY <2>1, <1>0 DEF Busy
  <2>4. Cardinality(Busy') = Cardinality(Busy) + 1
    BY <2>3, <1>f, FS_AddElement
  <2>5. latest_sequence' + Cardinality(Busy') <= MaxSequence
    BY <2>1, <2>4, <1>f, <1>0, <1>m DEF queueVars
  <2>6. CallerIdle' /\ is_running'
    BY <2>1 DEF CallerIdle
  <2> QED BY <2>1, <2>2, <2>5, <2>6 DEF CallInv, queueVars, fileVars
<1>2. CASE PushLock(p)
  <2>1. /\ \/ push_at' = [push_at EXCEPT ![p].buf_idx = active_buf_idx] /\ lock' = lock
           \/ /\ push_at' = [push_at EXCEPT ![p].pc = "append"]
              /\ lock' = [lock EXCEPT ![push_at[p].buf_idx] = p]
        /\ push_at[p].pc = "lock"
        /\ UNCHANGED <<active_buf_idx, buffers, latest_sequence, committed_sequence, fileVars,
                       is_running, drain_at, answered, disturbed>>
    BY <1>2 DEF PushLock
  <2>2. /\ push_at' \in [Pushers -> PushStates] /\ lock' \in [0..1 -> Pushers \union {NoPusher}]
        /\ \A q \in Pushers : push_at'[q].pc # "idle" <=> push_at[q].pc # "idle"
    <3> DEFINE r == [push_at[p] EXCEPT !.buf_idx = active_buf_idx]
               s == [push_at[p] EXCEPT !.pc = "append"]
    <3>1. r \in PushStates /\ s \in PushStates /\ r.pc = "lock" /\ s.pc = "append"
      BY <2>1, <1>0
    <3>2. push_at' = [push_at EXCEPT ![p] = r] \/ push_at' = [push_at EXCEPT ![p] = s]
      BY <2>1, <1>0
    <3>3. lock' \in [0..1 -> Pushers \union {NoPusher}]
      BY <2>1, <1>0
    <3> HIDE DEF r, s, PushStates
    <3> QED BY <3>1, <3>2, <3>3, <2>1, <1>0
  <2>3. Busy' = Busy
    BY <2>2 DEF Busy
  <2>4. ~ PushersIdle
    BY <2>1 DEF PushersIdle
  <2>5. CallerIdle /\ is_running /\ CallerIdle' /\ is_running'
    BY <2>1, <2>4 DEF CallInv, CallerIdle
  <2> QED BY <2>1, <2>2, <2>3, <2>5 DEF CallInv, fileVars
<1>3. CASE PushAppend(p)
  <2> DEFINE b == push_at[p].buf_idx
  <2>1. /\ push_at[p].pc = "append" /\ push_at' = [push_at EXCEPT ![p] = IdlePush]
        /\ lock' = [lock EXCEPT ![b] = NoPusher] /\ disturbed' \in BOOLEAN
        /\ \/ latest_sequence' = latest_sequence /\ buffers' = buffers
           \/ /\ latest_sequence' = latest_sequence + 1
              /\ buffers' = [buffers EXCEPT ![b] = Append(buffers[b], latest_sequence + 1)]
              /\ Len(buffers[b]) < JOURNAL_BUFFER_CAPACITY
        /\ UNCHANGED <<active_buf_idx, committed_sequence, fileVars, is_running, drain_at, answered>>
    BY <1>3, <1>0 DEF PushAppend, CallInv, Late
  <2>2. push_at' \in [Pushers -> PushStates] /\ lock' \in [0..1 -> Pushers \union {NoPusher}]
    BY <2>1, <1>0 DEF IdlePush
  <2>3. Busy' = Busy \ {p} /\ p \in Busy
    BY <2>1, <1>0 DEF Busy, IdlePush
  <2>4. Cardinality(Busy') = Cardinality(Busy) - 1
    BY <2>3, <1>f, FS_RemoveElement
  <2>5. latest_sequence' + Cardinality(Busy') <= MaxSequence
    BY <2>1, <2>4, <1>f, <1>0, <1>m, SMTT(30) DEF CallInv
  <2>6. CallerIdle /\ is_running /\ CallerIdle' /\ is_running'
    BY <2>1 DEF CallInv, CallerIdle, PushersIdle
  <2>7. /\ buffers' \in [0..1 -> Seq(Nat)] /\ \A c \in 0..1 : Len(buffers'[c]) <= JOURNAL_BUFFER_CAPACITY
        /\ Len(buffers'[0]) + Len(buffers'[1]) <= latest_sequence' /\ latest_sequence' \in Nat
    <3>0. /\ \A c \in 0..1 : Len(buffers[c]) <= JOURNAL_BUFFER_CAPACITY
          /\ Len(buffers[0]) + Len(buffers[1]) <= latest_sequence
      BY DEF CallInv
    <3>1. CASE latest_sequence' = latest_sequence /\ buffers' = buffers
      BY <3>1, <3>0, <1>0
    <3>2. CASE /\ latest_sequence' = latest_sequence + 1
               /\ buffers' = [buffers EXCEPT ![b] = Append(buffers[b], latest_sequence + 1)]
               /\ Len(buffers[b]) < JOURNAL_BUFFER_CAPACITY
      <4>1. b \in 0..1
        BY <1>0
      <4>2. Append(buffers[b], latest_sequence + 1) \in Seq(Nat)
            /\ Len(Append(buffers[b], latest_sequence + 1)) = Len(buffers[b]) + 1
        BY <1>0, <4>1, AppendProperties
      <4>3. buffers' \in [0..1 -> Seq(Nat)] /\ buffers'[b] = Append(buffers[b], latest_sequence + 1)
            /\ \A c \in (0..1) \ {b} : buffers'[c] = buffers[c]
        BY <3>2, <4>1, <4>2, <1>0
      <4>4. Len(buffers'[b]) = Len(buffers[b]) + 1
        BY <4>2, <4>3
      <4>5. \A c \in 0..1 : Len(buffers'[c]) <= JOURNAL_BUFFER_CAPACITY
        BY <4>3, <4>4, <3>2, <3>0, <1>0, <1>m
      <4>6. Len(buffers'[0]) + Len(buffers'[1]) <= latest_sequence'
        <5> DEFINE m == Len(buffers[0])  n == Len(buffers[1])  k == Len(buffers'[0])  l == Len(buffers'[1])
        <5>1. m \in Nat /\ n \in Nat /\ m + n <= latest_sequence
          BY <1>0, <3>0
        <5>2. (k = m + 1 /\ l = n) \/ (k = m /\ l = n + 1)
          <6>1. b = 0 \/ b = 1
            BY <4>1
          <6>2. CASE b = 0
            <7>1. 1 \in (0..1) \ {b}
              BY <6>2
            <7>2. buffers'[1] = buffers[1] /\ Len(buffers'[0]) = Len(buffers[0]) + 1
              BY <7>1, <6>2, <4>3, <4>4
            <7>3. Len(buffers'[1]) = Len(buffers[1])
              BY <7>2
            <7> QED BY <7>2, <7>3
          <6>3. CASE b = 1
            <7>1. 0 \in (0..1) \ {b}
              BY <6>3
            <7>2. buffers'[0] = buffers[0] /\ Len(buffers'[1]) = Len(buffers[1]) + 1
              BY <7>1, <6>3, <4>3, <4>4
            <7>3. Len(buffers'[0]) = Len(buffers[0])
              BY <7>2
            <7> QED BY <7>2, <7>3
          <6> QED BY <6>1, <6>2, <6>3
        <5> HIDE DEF m, n, k, l
        <5>3. k + l <= latest_sequence'
          BY <5>1, <5>2, SumGrows, <3>2, <1>0
        <5> QED BY <5>3 DEF k, l
      <4>7. latest_sequence' \in Nat
        BY <3>2, <1>0
      <4> QED BY <4>3, <4>5, <4>6, <4>7
    <3> QED BY <3>1, <3>2, <2>1
  <2> QED BY <2>1, <2>2, <2>5, <2>6, <2>7 DEF CallInv, fileVars
<1> QED BY <1>1, <1>2, <1>3

\* So do the flusher's wake-up, flush_sync and drop (sqpoll_journal.rs:198-299).
LEMMA OwnerKeepsCalls ==
    ASSUME CallInv, WorkerLoop \/ flush_sync \/ drop
    PROVE  CallInv'
<1>t. drain_at \in [Drainers -> DrainStates]
  BY DEF CallInv
<1>b. UNCHANGED <<queueVars, fileVars, push_at, answered, disturbed>>
  BY DEF WorkerLoop, flush_sync, drop
<1>f. Busy' = Busy
  BY <1>b DEF Busy
<1>1. CASE WorkerLoop
  <2>1. PICK n \in 1..2, end \in {"loop", "done"} :
          /\ drain_at' = [drain_at EXCEPT !["worker"] = Drainer("swap", n, end)]
          /\ end = "done" => ~ is_running
    <3>1. CASE is_running
      BY <3>1, <1>1 DEF WorkerLoop, DrainGoesTo
    <3>2. CASE ~ is_running
      BY <3>2, <1>1 DEF WorkerLoop, DrainGoesTo
    <3> QED BY <3>1, <3>2
  <2> DEFINE r == Drainer("swap", n, end)
  <2>2. r \in DrainStates /\ r.pc = "swap" /\ r.batch = <<>> /\ r.done = 0 /\ r.passes = n /\ r.end = end
    BY DrainerState
  <2> HIDE DEF r
  <2>3. drain_at' \in [Drainers -> DrainStates] /\ drain_at'["worker"] = r
        /\ drain_at'["caller"] = drain_at["caller"] /\ is_running' = is_running
    BY <2>1, <2>2, <1>t, <1>1 DEF r, Drainers, WorkerLoop
  <2>4. CallerIdle' = CallerIdle /\ PushersIdle' = PushersIdle
    BY <2>3, <1>b DEF CallerIdle, PushersIdle
  <2>5. \A d \in Drainers :
           /\ drain_at'[d].pc \notin {"idle", "loop", "done"} => drain_at'[d].passes \in 1..2
           /\ drain_at'[d].pc = "write" <=> drain_at'[d].batch # <<>>
           /\ drain_at'[d].pc = "write" => drain_at'[d].done <= 2 * Len(drain_at'[d].batch)
           /\ drain_at'[d].pc \notin {"write", "sync"} => drain_at'[d].done = 0
    <3> SUFFICES ASSUME NEW d \in Drainers
                 PROVE /\ drain_at'[d].pc \notin {"idle", "loop", "done"} => drain_at'[d].passes \in 1..2
                       /\ drain_at'[d].pc = "write" <=> drain_at'[d].batch # <<>>
                       /\ drain_at'[d].pc = "write" => drain_at'[d].done <= 2 * Len(drain_at'[d].batch)
                       /\ drain_at'[d].pc \notin {"write", "sync"} => drain_at'[d].done = 0
      OBVIOUS
    <3>1. CASE d = "worker"
      BY <3>1, <2>2, <2>3
    <3>2. CASE d = "caller"
      BY <3>2, <2>3 DEF CallInv
    <3> QED BY <3>1, <3>2 DEF Drainers
  <2>6. /\ drain_at'["caller"].end = "idle" /\ drain_at'["worker"].end # "idle"
        /\ drain_at'["caller"].pc \notin {"loop", "done"} /\ drain_at'["worker"].pc # "idle"
        /\ drain_at'["worker"].pc = "done" => drain_at'["worker"].end = "done"
        /\ drain_at'["worker"].end = "done" => ~ is_running'
    BY <2>1, <2>2, <2>3 DEF CallInv
  <2> QED BY <2>3, <2>4, <2>5, <2>6, <1>b, <1>f DEF CallInv, queueVars, fileVars
<1>2. CASE flush_sync
  <2> DEFINE r == Drainer("swap", 2, "idle")
  <2>2. r \in DrainStates /\ r.pc = "swap" /\ r.batch = <<>> /\ r.done = 0 /\ r.passes = 2 /\ r.end = "idle"
    BY DrainerState
  <2>1. drain_at' = [drain_at EXCEPT !["caller"] = r] /\ is_running /\ PushersIdle /\ is_running' = is_running
    BY <1>2 DEF flush_sync, DrainGoesTo
  <2> HIDE DEF r
  <2>3. drain_at' \in [Drainers -> DrainStates] /\ drain_at'["caller"] = r
        /\ drain_at'["worker"] = drain_at["worker"]
    BY <2>1, <2>2, <1>t DEF Drainers
  <2>4. PushersIdle' /\ is_running'
    BY <2>1, <1>b DEF PushersIdle
  <2>5. \A d \in Drainers :
           /\ drain_at'[d].pc \notin {"idle", "loop", "done"} => drain_at'[d].passes \in 1..2
           /\ drain_at'[d].pc = "write" <=> drain_at'[d].batch # <<>>
           /\ drain_at'[d].pc = "write" => drain_at'[d].done <= 2 * Len(drain_at'[d].batch)
           /\ drain_at'[d].pc \notin {"write", "sync"} => drain_at'[d].done = 0
    <3> SUFFICES ASSUME NEW d \in Drainers
                 PROVE /\ drain_at'[d].pc \notin {"idle", "loop", "done"} => drain_at'[d].passes \in 1..2
                       /\ drain_at'[d].pc = "write" <=> drain_at'[d].batch # <<>>
                       /\ drain_at'[d].pc = "write" => drain_at'[d].done <= 2 * Len(drain_at'[d].batch)
                       /\ drain_at'[d].pc \notin {"write", "sync"} => drain_at'[d].done = 0
      OBVIOUS
    <3>1. CASE d = "caller"
      BY <3>1, <2>2, <2>3
    <3>2. CASE d = "worker"
      BY <3>2, <2>3 DEF CallInv
    <3> QED BY <3>1, <3>2 DEF Drainers
  <2>6. /\ drain_at'["caller"].end = "idle" /\ drain_at'["worker"].end # "idle"
        /\ drain_at'["caller"].pc \notin {"loop", "done"} /\ drain_at'["worker"].pc # "idle"
        /\ drain_at'["worker"].pc = "done" => drain_at'["worker"].end = "done"
        /\ drain_at'["worker"].end = "done" => ~ is_running'
    BY <2>1, <2>2, <2>3 DEF CallInv
  <2> QED BY <2>1, <2>3, <2>4, <2>5, <2>6, <1>b, <1>f DEF CallInv, queueVars, fileVars
<1>3. CASE drop
  <2>1. is_running' = FALSE /\ CallerIdle /\ PushersIdle /\ drain_at' = drain_at
    BY <1>3 DEF drop
  <2>2. CallerIdle' /\ PushersIdle'
    BY <2>1, <1>b DEF CallerIdle, PushersIdle
  <2> QED BY <2>1, <2>2, <1>b, <1>f DEF CallInv, queueVars, fileVars
<1> QED BY <1>1, <1>2, <1>3

\* The half frame that comes next is one of the batch.
LEMMA HalfType ==
    ASSUME NEW d \in Drainers, drain_at[d].batch \in Seq(Nat), Len(drain_at[d].batch) \in Nat,
           drain_at[d].done \in Nat, drain_at[d].done < 2 * Len(drain_at[d].batch)
    PROVE  /\ drain_at[d].done \div 2 + 1 \in 1..Len(drain_at[d].batch)
           /\ Half(d) \in HalfFrames
<1> DEFINE n == drain_at[d].done  m == Len(drain_at[d].batch)
<1>1. n \div 2 + 1 \in 1..m
  BY DEF n, m
<1>2. drain_at[d].batch[n \div 2 + 1] \in Nat
  BY <1>1, ElementOfSeq
<1> QED BY <1>1, <1>2 DEF Half, HalfFrames

\* The fence never goes back, and not beyond what was in the batch.
LEMMA FenceAfterBatch ==
    ASSUME NEW L \in Nat, NEW c \in 0..L, NEW s \in Seq(Nat), \A i \in DOMAIN s : s[i] <= L
    PROVE  LET m == Max({c} \union ToSet(s))
           IN  /\ m \in 0..L /\ m >= c
               /\ m = c \/ \E i \in DOMAIN s : m = s[i]
               /\ \A i \in DOMAIN s : m >= s[i]
<1> DEFINE S == {c} \union ToSet(s)
<1>1. ToSet(s) = {s[i] : i \in DOMAIN s} /\ \A i \in DOMAIN s : s[i] \in 0..L
  <2>1. DOMAIN s = 1..Len(s)
    BY LenProperties
  <2>2. \A i \in DOMAIN s : s[i] \in Nat
    BY <2>1, ElementOfSeq
  <2> QED BY <2>2 DEF ToSet
<1>2. S \subseteq 0..L /\ S # {}
  BY <1>1
<1> HIDE DEF S
<1>3. \E m \in S : \A y \in S : m >= y
  BY <1>2, LargestOf
<1>4. Max(S) \in S /\ \A y \in S : Max(S) >= y
  BY <1>3 DEF Max
<1> QED BY <1>1, <1>2, <1>4 DEF S

\* A batch as long as its halves say, step by step.
LEMMA DrainStepKeepsCalls ==
    ASSUME CallInv, NEW d \in Drainers, DrainStep(d)
    PROVE  CallInv'
<1>0. /\ drain_at[d] \in DrainStates /\ drain_at[d].batch \in Seq(Nat) /\ Len(drain_at[d].batch) \in Nat
      /\ drain_at[d].done \in Nat /\ active_buf_idx \in 0..1 /\ buffers \in [0..1 -> Seq(Nat)]
      /\ \A b \in 0..1 : Len(buffers[b]) \in Nat
      /\ disturbed \in BOOLEAN /\ latest_sequence \in Nat /\ answered \in Nat
      /\ halves \in Seq(HalfFrames) /\ Len(halves) \in Nat /\ synced_len \in 0..Len(halves)
  BY BatchType, LenProperties DEF CallInv, DrainStates
<1>1. CASE SwapLoad(d) \/ SwapStore(d)
  <2>0. PICK r \in DrainStates :
        /\ drain_at[d].pc \in {"swap", "store"} /\ drain_at' = [drain_at EXCEPT ![d] = r]
        /\ active_buf_idx' \in 0..1
        /\ UNCHANGED <<buffers, lock, latest_sequence, committed_sequence, fileVars, is_running,
                       push_at, answered, disturbed>>
        /\ r.pc \in {"store", "take"} /\ r.end = drain_at[d].end /\ r.passes = drain_at[d].passes
        /\ r.batch = drain_at[d].batch /\ r.done = drain_at[d].done
    <3>1. CASE SwapLoad(d)
      <4> DEFINE r == [drain_at[d] EXCEPT !.pc = "store", !.old_idx = active_buf_idx]
      <4>1. r \in DrainStates /\ r.pc = "store" /\ r.end = drain_at[d].end /\ r.passes = drain_at[d].passes
            /\ r.batch = drain_at[d].batch /\ r.done = drain_at[d].done
        BY <1>0 DEF DrainStates
      <4> QED BY <4>1, <3>1, <1>0 DEF SwapLoad, DrainGoesTo, queueVars
    <3>2. CASE SwapStore(d)
      <4> DEFINE r == [drain_at[d] EXCEPT !.pc = "take"]
      <4>1. r \in DrainStates /\ r.pc = "take" /\ r.end = drain_at[d].end /\ r.passes = drain_at[d].passes
            /\ r.batch = drain_at[d].batch /\ r.done = drain_at[d].done
        BY <1>0 DEF DrainStates
      <4>2. active_buf_idx' \in 0..1
        BY <3>2, <1>0 DEF SwapStore, DrainStates
      <4> QED BY <4>1, <4>2, <3>2 DEF SwapStore, DrainGoesTo
    <3> QED BY <1>1, <3>1, <3>2
  <2>1. r \in DrainStates /\ r.pc \in {"store", "take"} /\ r.end = drain_at[d].end /\ r.passes = drain_at[d].passes
        /\ r.batch = drain_at[d].batch /\ r.done = drain_at[d].done
    BY <2>0
  <2>2. drain_at[d].pc \in {"swap", "store"} /\ drain_at' = [drain_at EXCEPT ![d] = r] /\ active_buf_idx' \in 0..1
        /\ UNCHANGED <<buffers, lock, latest_sequence, committed_sequence, fileVars, is_running,
                       push_at, answered, disturbed>>
    BY <2>0
  <2>3. r.passes \in 1..2 /\ r.batch = <<>> /\ r.done = 0 /\ ~ (d = "caller" /\ CallerIdle)
    BY <2>1, <2>2 DEF CallInv, CallerIdle
  <2>4. /\ r.pc \in {"swap", "store", "take", "write", "sync", drain_at[d].end}
        /\ buffers' \in [0..1 -> Seq(Nat)] /\ \A b \in 0..1 : Len(buffers'[b]) <= Len(buffers[b])
        /\ halves' \in Seq(HalfFrames) /\ synced_len' \in 0..Len(halves')
        /\ disturbed' \in BOOLEAN /\ answered' \in Nat
        /\ UNCHANGED <<lock, latest_sequence, is_running, push_at>>
    BY <2>1, <2>2, <1>0 DEF fileVars
  <2> QED BY <2>1, <2>2, <2>3, <2>4, DrainKeepsCalls
<1>2. CASE Take(d)
  <2> DEFINE b == drain_at[d].old_idx
             r == [drain_at[d] EXCEPT !.pc = "write", !.batch = buffers[b]]
  <2>1. b \in 0..1
    BY <1>0 DEF DrainStates
  <2>2. /\ drain_at[d].pc = "take" /\ buffers' = [buffers EXCEPT ![b] = <<>>]
        /\ \/ buffers[b] = <<>> /\ drain_at' = [drain_at EXCEPT ![d] = AfterPass(d)]
           \/ buffers[b] # <<>> /\ drain_at' = [drain_at EXCEPT ![d] = r]
        /\ answered' \in Nat /\ disturbed' \in BOOLEAN
        /\ UNCHANGED <<active_buf_idx, lock, latest_sequence, committed_sequence, fileVars,
                       is_running, push_at>>
    BY <1>2, <1>0 DEF Take, DrainGoesTo, Overlapping
  <2>3. buffers' \in [0..1 -> Seq(Nat)] /\ \A c \in 0..1 : Len(buffers'[c]) <= Len(buffers[c])
    <3>1. buffers' \in [0..1 -> Seq(Nat)] /\ buffers'[b] = <<>> /\ \A c \in (0..1) \ {b} : buffers'[c] = buffers[c]
      BY <2>1, <2>2, <1>0, SqpollEmptySeq
    <3> SUFFICES ASSUME NEW c \in 0..1 PROVE Len(buffers'[c]) <= Len(buffers[c])
      BY <3>1
    <3>2. CASE c = b
      BY <3>2, <3>1, <1>0, SqpollEmptySeq
    <3>3. CASE c # b
      BY <3>3, <3>1, <1>0
    <3> QED BY <3>2, <3>3
  <2>4. ~ (d = "caller" /\ CallerIdle)
    BY <2>2 DEF CallerIdle
  <2>7. /\ halves' \in Seq(HalfFrames) /\ synced_len' \in 0..Len(halves') /\ active_buf_idx' \in 0..1
        /\ disturbed' \in BOOLEAN /\ answered' \in Nat
        /\ UNCHANGED <<lock, latest_sequence, is_running, push_at>>
    BY <2>2, <1>0 DEF fileVars
  <2>5. CASE buffers[b] = <<>> /\ drain_at' = [drain_at EXCEPT ![d] = AfterPass(d)]
    <3> DEFINE a == AfterPass(d)
    <3>1. /\ a \in DrainStates /\ a.batch = <<>> /\ a.done = 0 /\ a.end = drain_at[d].end
          /\ \/ a.pc = "swap" /\ a.passes = 1
             \/ a.pc = drain_at[d].end
      BY <2>2, AfterPassState
    <3>2. a.end \in {"idle", "loop", "done"}
      BY <3>1 DEF DrainStates
    <3> HIDE DEF a
    <3>3. drain_at' = [drain_at EXCEPT ![d] = a]
      BY <2>5 DEF a
    <3>4. /\ a.pc \in {"swap", "store", "take", "write", "sync", drain_at[d].end}
          /\ a.pc \in {"swap", "store", "take", "write", "sync"} => a.passes \in 1..2
          /\ a.pc # "write"
      BY <3>1, <3>2
    <3> QED BY <3>1, <3>3, <3>4, <2>7, <2>3, <2>4, DrainKeepsCalls
  <2>6. CASE buffers[b] # <<>> /\ drain_at' = [drain_at EXCEPT ![d] = r]
    <3>1. r \in DrainStates /\ r.pc = "write" /\ r.batch = buffers[b] /\ r.end = drain_at[d].end
          /\ r.passes = drain_at[d].passes /\ r.done = drain_at[d].done
      BY <2>1, <1>0 DEF DrainStates
    <3>2. r.passes \in 1..2 /\ r.done = 0 /\ r.batch # <<>>
      BY <3>1, <2>2, <2>6 DEF CallInv
    <3>3. Len(r.batch) \in Nat /\ r.done <= 2 * Len(r.batch)
      BY <3>1, <3>2, <2>1, <1>0, SMTT(30)
    <3> HIDE DEF r
    <3> QED BY <3>1, <3>2, <3>3, <2>6, <2>7, <2>3, <2>4, DrainKeepsCalls
  <2> QED BY <2>2, <2>5, <2>6
<1>3. CASE flush_records(d)
  <2> DEFINE r == [drain_at[d] EXCEPT !.done = @ + 1]
  <2>0. drain_at[d].done + 1 \in Nat /\ r = [drain_at[d] EXCEPT !.done = drain_at[d].done + 1]
    BY <1>0
  <2>1. r \in DrainStates /\ r.pc = drain_at[d].pc /\ r.end = drain_at[d].end /\ r.passes = drain_at[d].passes
        /\ r.batch = drain_at[d].batch /\ r.done = drain_at[d].done + 1
    BY <1>0, <2>0 DEF DrainStates
  <2>2. drain_at[d].pc = "write" /\ drain_at' = [drain_at EXCEPT ![d] = r]
        /\ drain_at[d].done < 2 * Len(drain_at[d].batch) /\ halves' = Append(halves, Half(d))
        /\ UNCHANGED <<queueVars, synced_len, is_running, push_at, answered, disturbed>>
    BY <1>3 DEF flush_records, DrainGoesTo
  <2>3. r.passes \in 1..2 /\ r.batch # <<>> /\ ~ (d = "caller" /\ CallerIdle)
    BY <2>1, <2>2 DEF CallInv, CallerIdle
  <2>4. Half(d) \in HalfFrames
    BY <1>0, <2>2, HalfType
  <2>5. halves' \in Seq(HalfFrames) /\ Len(halves') = Len(halves) + 1
    BY <2>2, <2>4, <1>0, AppendProperties
  <2>7. r.done <= 2 * Len(r.batch)
    <3> DEFINE m == Len(drain_at[d].batch)
    <3>1. m \in Nat /\ drain_at[d].done \in Nat /\ drain_at[d].done < 2 * m
      BY <2>2, <1>0
    <3> HIDE DEF m
    <3>2. drain_at[d].done + 1 <= 2 * m
      BY <3>1
    <3> QED BY <3>2, <2>1 DEF m
  <2>6. /\ r.pc \in {"swap", "store", "take", "write", "sync", drain_at[d].end} /\ r.pc = "write"
        /\ active_buf_idx' \in 0..1
        /\ buffers' \in [0..1 -> Seq(Nat)] /\ \A b \in 0..1 : Len(buffers'[b]) <= Len(buffers[b])
        /\ synced_len' \in 0..Len(halves')
        /\ disturbed' \in BOOLEAN /\ answered' \in Nat
        /\ UNCHANGED <<lock, latest_sequence, is_running, push_at>>
    BY <2>1, <2>2, <2>5, <1>0 DEF queueVars
  <2> HIDE DEF r
  <2> QED BY <2>1, <2>2, <2>3, <2>5, <2>6, <2>7, DrainKeepsCalls
<1>4. CASE CommitFence(d)
  <2> DEFINE r == [drain_at[d] EXCEPT !.pc = "sync", !.batch = <<>>]
  <2>1. r \in DrainStates /\ r.pc = "sync" /\ r.end = drain_at[d].end /\ r.passes = drain_at[d].passes
        /\ r.batch = <<>>
    BY <1>0, SqpollEmptySeq DEF DrainStates
  <2>2. drain_at[d].pc = "write" /\ drain_at' = [drain_at EXCEPT ![d] = r]
        /\ committed_sequence' = Max({committed_sequence} \union ToSet(drain_at[d].batch))
        /\ UNCHANGED <<active_buf_idx, buffers, lock, latest_sequence, fileVars, is_running, push_at,
                       answered, disturbed>>
    BY <1>4 DEF CommitFence, DrainGoesTo
  <2>3. r.passes \in 1..2 /\ ~ (d = "caller" /\ CallerIdle)
    BY <2>1, <2>2 DEF CallInv, CallerIdle
  <2>6. /\ r.pc \in {"swap", "store", "take", "write", "sync", drain_at[d].end}
        /\ active_buf_idx' \in 0..1
        /\ buffers' \in [0..1 -> Seq(Nat)] /\ \A b \in 0..1 : Len(buffers'[b]) <= Len(buffers[b])
        /\ halves' \in Seq(HalfFrames) /\ synced_len' \in 0..Len(halves')
        /\ disturbed' \in BOOLEAN /\ answered' \in Nat
        /\ UNCHANGED <<lock, latest_sequence, is_running, push_at>>
    BY <2>1, <2>2, <1>0 DEF fileVars
  <2> HIDE DEF r
  <2> QED BY <2>1, <2>2, <2>3, <2>6, DrainKeepsCalls
<1>5. CASE WriteFails(d) \/ sync_data(d) \/ SyncDataFails(d)
  <2>1. PICK r \in {AfterPass(d), AfterFailure(d)} : drain_at' = [drain_at EXCEPT ![d] = r]
    BY <1>5 DEF WriteFails, sync_data, SyncDataFails, DrainGoesTo
  <2>2. /\ drain_at[d].pc \in {"write", "sync"}
        /\ active_buf_idx' \in 0..1
        /\ buffers' \in [0..1 -> Seq(Nat)] /\ \A b \in 0..1 : Len(buffers'[b]) <= Len(buffers[b])
        /\ halves' \in Seq(HalfFrames) /\ synced_len' \in 0..Len(halves')
        /\ disturbed' \in BOOLEAN /\ answered' \in Nat
        /\ UNCHANGED <<lock, latest_sequence, is_running, push_at>>
    <3>1. CASE WriteFails(d)
      BY <3>1, <1>0 DEF WriteFails, queueVars, fileVars
    <3>2. CASE sync_data(d)
      BY <3>2, <1>0 DEF sync_data, queueVars
    <3>3. CASE SyncDataFails(d)
      BY <3>3, <1>0 DEF SyncDataFails, queueVars, fileVars
    <3> QED BY <3>1, <3>2, <3>3, <1>5
  <2>3. /\ r \in DrainStates /\ r.batch = <<>> /\ r.done = 0 /\ r.end = drain_at[d].end
        /\ \/ r.pc = "swap" /\ r.passes = 1
           \/ r.pc = drain_at[d].end
    BY <2>2, AfterPassState
  <2>4. r.end \in {"idle", "loop", "done"}
    BY <2>3 DEF DrainStates
  <2>5. /\ r.pc \in {"swap", "store", "take", "write", "sync", drain_at[d].end}
        /\ r.pc \in {"swap", "store", "take", "write", "sync"} => r.passes \in 1..2
        /\ r.pc # "write" /\ ~ (d = "caller" /\ CallerIdle)
    BY <2>2, <2>3, <2>4 DEF CallerIdle
  <2> QED BY <2>1, <2>2, <2>3, <2>5, DrainKeepsCalls
<1> QED BY <1>1, <1>2, <1>3, <1>4, <1>5 DEF DrainStep

\* Every step keeps the variables well typed and the calls in order.
LEMMA CallStep == ASSUME CallInv, [SqpollNext]_sqpollVars PROVE CallInv'
<1>1. CASE \E p \in Pushers : push(p) \/ PushLock(p) \/ PushAppend(p)
  BY <1>1, PushKeepsCalls
<1>2. CASE WorkerLoop \/ flush_sync \/ drop
  BY <1>2, OwnerKeepsCalls
<1>3. CASE \E d \in Drainers : DrainStep(d)
  BY <1>3, DrainStepKeepsCalls
<1>4. CASE UNCHANGED sqpollVars
  <2>1. Busy' = Busy /\ CallerIdle' = CallerIdle /\ PushersIdle' = PushersIdle
    BY <1>4 DEF sqpollVars, Busy, CallerIdle, PushersIdle
  <2> QED BY <1>4, <2>1 DEF CallInv, sqpollVars, queueVars, fileVars
<1> QED BY <1>1, <1>2, <1>3, <1>4 DEF SqpollNext

\* A new journal has no call under way (sqpoll_journal.rs:31-58).
LEMMA CallInit == ASSUME SqpollInit PROVE CallInv
<1>1. Busy = {} /\ Cardinality(Busy) = 0
  BY FS_EmptySet DEF SqpollInit, Busy, IdlePush
<1>2. Drainer("loop", 0, "loop") \in DrainStates /\ Drainer("idle", 0, "idle") \in DrainStates
  BY DrainerState
<1>3. /\ drain_at = [worker |-> Drainer("loop", 0, "loop"), caller |-> Drainer("idle", 0, "idle")]
      /\ push_at = [p \in Pushers |-> IdlePush] /\ is_running = TRUE
  BY DEF SqpollInit
<1>4. /\ drain_at["worker"] = Drainer("loop", 0, "loop") /\ drain_at["caller"] = Drainer("idle", 0, "idle")
      /\ drain_at \in [Drainers -> DrainStates]
  BY <1>2, <1>3 DEF Drainers
<1>5. \A d \in Drainers :
           /\ drain_at[d].pc \in {"idle", "loop"} /\ drain_at[d].batch = <<>> /\ drain_at[d].done = 0
  BY <1>4 DEF Drainers, Drainer
<1>6. /\ drain_at["caller"].end = "idle" /\ drain_at["worker"].end = "loop"
      /\ drain_at["caller"].pc = "idle" /\ drain_at["worker"].pc = "loop"
  BY <1>4 DEF Drainer
<1>7. /\ push_at \in [Pushers -> [pc : {"idle", "lock", "append"}, buf_idx : 0..1]]
      /\ PushersIdle /\ CallerIdle
  BY <1>3, <1>6 DEF PushersIdle, CallerIdle, IdlePush
<1>8. /\ buffers \in [0..1 -> Seq(Nat)] /\ \A b \in 0..1 : Len(buffers[b]) <= JOURNAL_BUFFER_CAPACITY
      /\ Len(buffers[0]) + Len(buffers[1]) <= latest_sequence
      /\ halves \in Seq(HalfFrames) /\ synced_len \in 0..Len(halves)
  BY SqpollEmptySeq, SqpollAssumption DEF SqpollInit
<1>9. /\ active_buf_idx \in 0..1 /\ disturbed \in BOOLEAN /\ lock \in [0..1 -> Pushers \union {NoPusher}]
      /\ latest_sequence \in Nat /\ answered \in Nat
      /\ latest_sequence + Cardinality(Busy) <= MaxSequence
  <2>1. /\ active_buf_idx = 0 /\ disturbed = FALSE /\ lock = [b \in 0..1 |-> NoPusher]
        /\ latest_sequence = 0 /\ answered = 0
    BY DEF SqpollInit
  <2>2. MaxSequence \in Nat
    BY SqpollAssumption
  <2>3. active_buf_idx \in 0..1
    BY <2>1, SMT
  <2>6. disturbed \in BOOLEAN
    BY <2>1, Zenon
  <2>5. lock \in [0..1 -> Pushers \union {NoPusher}]
    BY <2>1, Zenon
  <2>4. latest_sequence + Cardinality(Busy) <= MaxSequence
    BY <2>1, <2>2, <1>1
  <2> QED BY <2>1, <2>3, <2>4, <2>5, <2>6
<1> QED BY <1>3, <1>4, <1>5, <1>6, <1>7, <1>8, <1>9 DEF CallInv

\* Steps that move no record.
LEMMA NothingMoved ==
    ASSUME HeldInv, UNCHANGED <<buffers, halves, latest_sequence>>, dropped \subseteq dropped',
           \A d \in Drainers : Batch(d)' = Batch(d),
           \A d \in Drainers : Batch(d) # <<>> => drain_at'[d].done = drain_at[d].done,
           committed_sequence' \in 0..latest_sequence, answered' <= latest_sequence
    PROVE  HeldInv'
<1>1. \A s : /\ InBuffer(s)' <=> InBuffer(s)
             /\ InBatch(s)' <=> InBatch(s)
             /\ InFile(s, "header")' <=> InFile(s, "header")
             /\ InFile(s, "record")' <=> InFile(s, "record")
  BY DEF InBuffer, InBatch, InFile
<1>2. BuffersApart'
  BY <1>1 DEF HeldInv, BuffersApart
<1>3. BatchesApart'
  <2>1. \A d \in Drainers : \A i \in DOMAIN Batch(d) : drain_at'[d].done = drain_at[d].done
    BY SqpollEmptySeq
  <2> QED BY <2>1, <1>1 DEF HeldInv, BatchesApart
<1>4. HalvesOnce' /\ NothingLost'
  BY <1>1 DEF HeldInv, HalvesOnce, NothingLost
<1> QED BY <1>2, <1>3, <1>4 DEF HeldInv

\* Steps that end a batch, whose records are in the file or given up.
LEMMA BatchEnds ==
    ASSUME HeldInv, UNCHANGED <<buffers, halves, latest_sequence>>, dropped \subseteq dropped',
           NEW d \in Drainers, Batch(d)' = <<>>,
           \A e \in Drainers \ {d} : drain_at'[e] = drain_at[e],
           \A i \in DOMAIN Batch(d) : InFile(Batch(d)[i], "record") \/ Batch(d)[i] \in dropped',
           committed_sequence' \in 0..latest_sequence, answered' <= latest_sequence
    PROVE  HeldInv'
<1>1. \A s : /\ InBuffer(s)' <=> InBuffer(s)
             /\ InBatch(s)' => InBatch(s)
             /\ InBatch(s) => InBatch(s)' \/ \E i \in DOMAIN Batch(d) : Batch(d)[i] = s
             /\ InFile(s, "header")' <=> InFile(s, "header")
             /\ InFile(s, "record")' <=> InFile(s, "record")
  BY SqpollEmptySeq DEF InBuffer, InBatch, InFile, Batch
<1>2. BuffersApart'
  BY <1>1 DEF HeldInv, BuffersApart
<1>3. BatchesApart'
  BY <1>1, SqpollEmptySeq DEF HeldInv, BatchesApart, Batch
<1>4. HalvesOnce' /\ NothingLost'
  BY <1>1 DEF HeldInv, HalvesOnce, NothingLost
<1> QED BY <1>2, <1>3, <1>4 DEF HeldInv

\* A drainer takes what a buffer holds.
LEMMA BufferTaken ==
    ASSUME CallInv, HeldInv, UNCHANGED <<halves, latest_sequence, dropped, committed_sequence, answered>>,
           NEW d \in Drainers, NEW b \in 0..1, Batch(d) = <<>>,
           buffers' = [buffers EXCEPT ![b] = <<>>], Batch(d)' = buffers[b], drain_at'[d].done = 0,
           \A e \in Drainers \ {d} : drain_at'[e] = drain_at[e]
    PROVE  HeldInv'
<1>0. /\ buffers'[b] = <<>> /\ \A c \in (0..1) \ {b} : buffers'[c] = buffers[c]
      /\ DOMAIN <<>> = {}
      /\ \A e \in Drainers \ {d} : Batch(e)' = Batch(e)
  BY SqpollEmptySeq DEF CallInv, Batch
<1>1. \A s : InBuffer(s)' <=> \E c \in (0..1) \ {b} : \E i \in DOMAIN buffers[c] : buffers[c][i] = s
  BY <1>0 DEF InBuffer
<1>2. \A s : InBatch(s)' <=> InBatch(s) \/ \E i \in DOMAIN buffers[b] : buffers[b][i] = s
  BY <1>0 DEF InBatch
<1>3. \A s : /\ InFile(s, "header")' <=> InFile(s, "header")
             /\ InFile(s, "record")' <=> InFile(s, "record")
  BY DEF InFile
<1>4. BuffersApart'
  BY <1>0, <1>2, <1>3 DEF HeldInv, BuffersApart
<1>5. BatchesApart'
  <2> SUFFICES ASSUME NEW e \in Drainers, NEW i \in DOMAIN Batch(e)'
               PROVE /\ Batch(e)'[i] \in 1..latest_sequence
                     /\ \A f \in Drainers : \A j \in DOMAIN Batch(f)' : Batch(e)'[i] = Batch(f)'[j] => e = f /\ i = j
                     /\ InFile(Batch(e)'[i], "header") <=> 2 * i <= drain_at'[e].done + 1
                     /\ InFile(Batch(e)'[i], "record") <=> 2 * i <= drain_at'[e].done
    BY <1>3 DEF BatchesApart
  <2>1. CASE e = d
    <3>1. i \in DOMAIN buffers[b] /\ Batch(e)'[i] = buffers[b][i]
      BY <2>1
    <3>2. i \in Nat /\ i >= 1
      <4>1. DOMAIN buffers[b] = 1..Len(buffers[b]) /\ Len(buffers[b]) \in Nat
        BY LenProperties DEF CallInv
      <4> QED BY <4>1, <3>1
    <3>3. \A f \in Drainers : \A j \in DOMAIN Batch(f)' : Batch(e)'[i] = Batch(f)'[j] => e = f /\ i = j
      BY <3>1, <2>1, <1>0 DEF HeldInv, BuffersApart, InBatch
    <3>4. /\ ~ InFile(Batch(e)'[i], "header") /\ ~ InFile(Batch(e)'[i], "record")
          /\ Batch(e)'[i] \in 1..latest_sequence
      BY <3>1 DEF HeldInv, BuffersApart
    <3> QED BY <3>2, <3>3, <3>4, <2>1
  <2>2. CASE e # d
    <3>1. Batch(e)' = Batch(e) /\ drain_at'[e] = drain_at[e]
      BY <2>2, <1>0
    <3>2. \A j \in DOMAIN buffers[b] : Batch(e)[i] # buffers[b][j]
      BY <3>1 DEF HeldInv, BuffersApart, InBatch
    <3> QED BY <3>1, <3>2, <2>2, <1>0 DEF HeldInv, BatchesApart
  <2> QED BY <2>1, <2>2
<1>6. HalvesOnce' /\ NothingLost'
  <2>1. \A s : InBuffer(s) => InBuffer(s)' \/ InBatch(s)'
    BY <1>1, <1>2 DEF InBuffer
  <2> QED BY <2>1, <1>2, <1>3 DEF HeldInv, HalvesOnce, NothingLost
<1> QED BY <1>4, <1>5, <1>6 DEF HeldInv

\* Which half comes next, for n halves done.
LEMMA HalfCount ==
    ASSUME NEW n \in Nat
    PROVE  LET i == n \div 2 + 1
           IN  /\ i \in Nat /\ i >= 1
               /\ n % 2 \in {0, 1}
               /\ n % 2 = 0 => n = 2 * i - 2
               /\ n % 2 # 0 => n = 2 * i - 1 /\ n % 2 = 1
OBVIOUS

\* A drainer writes the next half frame of its batch.
LEMMA HalfWritten ==
    ASSUME CallInv, HeldInv, NEW d \in Drainers, flush_records(d)
    PROVE  HeldInv'
<1> DEFINE n == drain_at[d].done  i == n \div 2 + 1  s == Batch(d)[i]
           part == IF n % 2 = 0 THEN "header" ELSE "record"
           h == [sequence |-> s, part |-> part]
<1>0. /\ drain_at[d] \in DrainStates /\ n \in Nat /\ Batch(d) \in Seq(Nat) /\ Len(Batch(d)) \in Nat
      /\ DOMAIN Batch(d) = 1..Len(Batch(d)) /\ n < 2 * Len(Batch(d))
      /\ halves \in Seq(HalfFrames) /\ Len(halves) \in Nat /\ DOMAIN halves = 1..Len(halves)
  BY BatchType, LenProperties DEF CallInv, DrainStates, flush_records, Batch
<1>1. i \in DOMAIN Batch(d) /\ Half(d) \in HalfFrames
  BY <1>0, HalfType DEF Batch
<1>2. /\ halves' = Append(halves, h) /\ h \in HalfFrames
      /\ UNCHANGED <<buffers, latest_sequence, committed_sequence, answered, dropped>>
      /\ drain_at' = [drain_at EXCEPT ![d] = [drain_at[d] EXCEPT !.done = n + 1]]
  BY <1>1 DEF flush_records, Half, DrainGoesTo, queueVars, Batch
<1>3. /\ drain_at'[d].done = n + 1
      /\ \A e \in Drainers : Batch(e)' = Batch(e)
      /\ \A e \in Drainers \ {d} : drain_at'[e] = drain_at[e]
  <2>1. \A e \in Drainers : drain_at[e] \in DrainStates
    BY BatchType
  <2> QED BY <1>2, <1>0, <2>1 DEF CallInv, Batch, DrainStates
<1>4. /\ DOMAIN halves' = 1..Len(halves) + 1 /\ halves'[Len(halves) + 1] = h
      /\ \A k \in DOMAIN halves : halves'[k] = halves[k]
  BY <1>2, <1>0, AppendProperties, LenProperties
<1> HIDE DEF h, part, s, i, n
<1>5. \A x, p : InFile(x, p)' <=> InFile(x, p) \/ [sequence |-> x, part |-> p] = h
  <2> SUFFICES ASSUME NEW x, NEW p PROVE InFile(x, p)' <=> InFile(x, p) \/ [sequence |-> x, part |-> p] = h
    OBVIOUS
  <2>1. DOMAIN halves' = DOMAIN halves \union {Len(halves) + 1} /\ Len(halves) + 1 \notin DOMAIN halves
    BY <1>4, <1>0
  <2>2. \A k \in DOMAIN halves : halves'[k] = halves[k]
    BY <1>4
  <2> QED BY <2>1, <2>2, <1>4 DEF InFile
<1>6. \A x, p : [sequence |-> x, part |-> p] = h <=> x = s /\ p = part
  BY DEF h
<1>7. /\ i \in Nat /\ i >= 1
      /\ \/ part = "header" /\ n = 2 * i - 2
         \/ part = "record" /\ n = 2 * i - 1
  BY <1>0, HalfCount DEF i, part, n
<1>8. \A y : InBatch(y)' <=> InBatch(y)
  BY <1>3 DEF InBatch
<1>9. \A y : InBuffer(y)' <=> InBuffer(y)
  BY <1>2 DEF InBuffer
<1>10. s \in 1..latest_sequence /\ InBatch(s)
  BY <1>1 DEF s, i, n, HeldInv, BatchesApart, InBatch
<1>11. BuffersApart'
  BY <1>2, <1>5, <1>6, <1>8, <1>10 DEF HeldInv, BuffersApart
<1>12. BatchesApart'
  <2>0. /\ s = Batch(d)[i] /\ i \in DOMAIN Batch(d) /\ n = drain_at[d].done
    BY <1>1 DEF s, i, n
  <2> SUFFICES ASSUME NEW e \in Drainers, NEW j \in DOMAIN Batch(e)
               PROVE /\ Batch(e)[j] \in 1..latest_sequence
                     /\ \A f \in Drainers : \A k \in DOMAIN Batch(f) : Batch(e)[j] = Batch(f)[k] => e = f /\ j = k
                     /\ InFile(Batch(e)[j], "header")' <=> 2 * j <= drain_at'[e].done + 1
                     /\ InFile(Batch(e)[j], "record")' <=> 2 * j <= drain_at'[e].done
    BY <1>2, <1>3 DEF BatchesApart, InFile
  <2>1. /\ Batch(e)[j] \in 1..latest_sequence
        /\ \A f \in Drainers : \A k \in DOMAIN Batch(f) : Batch(e)[j] = Batch(f)[k] => e = f /\ j = k
        /\ InFile(Batch(e)[j], "header") <=> 2 * j <= drain_at[e].done + 1
        /\ InFile(Batch(e)[j], "record") <=> 2 * j <= drain_at[e].done
    BY DEF HeldInv, BatchesApart
  <2>2. j \in Nat
    BY BatchType DEF Batch
  <2>3. CASE e = d /\ j = i
    <3>1. Batch(e)[j] = s
      BY <2>3, <2>0
    <3>2. /\ InFile(Batch(e)[j], "header")' <=> InFile(Batch(e)[j], "header") \/ part = "header"
          /\ InFile(Batch(e)[j], "record")' <=> InFile(Batch(e)[j], "record") \/ part = "record"
      BY <3>1, <1>5, <1>6, <1>3
    <3>3. CASE part = "header" /\ n = 2 * i - 2
      BY <3>3, <3>2, <2>1, <2>3, <1>7, <1>3, <2>0
    <3>4. CASE part = "record" /\ n = 2 * i - 1
      BY <3>4, <3>2, <2>1, <2>3, <1>7, <1>3, <2>0
    <3> QED BY <3>3, <3>4, <1>7
  <2>4. CASE ~ (e = d /\ j = i)
    <3>1. Batch(e)[j] # s
      BY <2>4, <2>0, <2>1
    <3>2. /\ InFile(Batch(e)[j], "header")' <=> InFile(Batch(e)[j], "header")
          /\ InFile(Batch(e)[j], "record")' <=> InFile(Batch(e)[j], "record")
      BY <3>1, <1>5, <1>6, <1>3
    <3>3. CASE e # d
      BY <3>3, <3>2, <2>1, <1>3
    <3>4. CASE e = d /\ j # i
      <4>1. (2 * j <= (n + 1) + 1) <=> (2 * j <= n + 1)
        BY <3>4, <1>7, <2>2
      <4>2. (2 * j <= n + 1) <=> (2 * j <= n)
        BY <3>4, <1>7, <2>2
      <4>3. drain_at'[e].done = n + 1 /\ drain_at[e].done = n
        BY <3>4, <1>3, <2>0
      <4>4. InFile(Batch(e)[j], "header")' <=> 2 * j <= drain_at'[e].done + 1
        BY <4>1, <4>3, <3>2, <2>1
      <4>5. InFile(Batch(e)[j], "record")' <=> 2 * j <= drain_at'[e].done
        BY <4>2, <4>3, <3>2, <2>1
      <4> QED BY <2>1, <4>4, <4>5
    <3> QED BY <3>3, <3>4, <2>4
  <2> QED BY <2>3, <2>4
<1>13. HalvesOnce'
  <2>1. ~ InFile(s, part)
    <3>1. /\ InFile(s, "header") <=> 2 * i <= n + 1
          /\ InFile(s, "record") <=> 2 * i <= n
      BY <1>1 DEF s, i, n, HeldInv, BatchesApart
    <3>2. CASE part = "header" /\ n = 2 * i - 2
      BY <3>1, <3>2, <1>7
    <3>3. CASE part = "record" /\ n = 2 * i - 1
      BY <3>1, <3>3, <1>7
    <3> QED BY <3>2, <3>3, <1>7
  <2>2. \A k \in DOMAIN halves : halves[k] # h
    BY <2>1 DEF InFile, h
  <2>3. DOMAIN halves' = DOMAIN halves \union {Len(halves) + 1}
    BY <1>4, <1>0
  <2>4. h.sequence = s
    BY DEF h
  <2> QED BY <2>2, <2>3, <2>4, <1>4, <1>10, <1>2 DEF HeldInv, HalvesOnce
<1>14. NothingLost'
  BY <1>2, <1>5, <1>8, <1>9 DEF HeldInv, NothingLost
<1> QED BY <1>2, <1>11, <1>12, <1>13, <1>14 DEF HeldInv

\* A record gets the next number and a place at the end of a buffer.
LEMMA RecordPushed ==
    ASSUME CallInv, HeldInv, NEW b \in 0..1,
           latest_sequence' = latest_sequence + 1,
           buffers' = [buffers EXCEPT ![b] = Append(buffers[b], latest_sequence + 1)],
           UNCHANGED <<halves, drain_at, committed_sequence, answered, dropped>>
    PROVE  HeldInv'
<1> DEFINE new == latest_sequence + 1  last == Len(buffers[b]) + 1
<1>0. /\ \A c \in 0..1 : buffers[c] \in Seq(Nat) /\ Len(buffers[c]) \in Nat /\ DOMAIN buffers[c] = 1..Len(buffers[c])
      /\ latest_sequence \in Nat /\ new \in Nat /\ committed_sequence \in 0..latest_sequence
      /\ answered \in Nat /\ answered <= latest_sequence
  BY LenProperties DEF CallInv, HeldInv
<1>1. /\ \A c \in (0..1) \ {b} : buffers'[c] = buffers[c]
      /\ buffers'[b] = Append(buffers[b], new)
  BY DEF CallInv
<1>2. /\ DOMAIN buffers'[b] = DOMAIN buffers[b] \union {last} /\ last \notin DOMAIN buffers[b]
      /\ buffers'[b][last] = new /\ \A i \in DOMAIN buffers[b] : buffers'[b][i] = buffers[b][i]
  <2>1. Len(buffers'[b]) = last /\ DOMAIN buffers'[b] = 1..last
    BY <1>0, <1>1, AppendProperties, LenProperties
  <2> QED BY <2>1, <1>0, <1>1, AppendProperties
<1> HIDE DEF last
<1>3. /\ \A s : InBatch(s)' <=> InBatch(s)
      /\ \A s, h : InFile(s, h)' <=> InFile(s, h)
      /\ \A d \in Drainers : Batch(d)' = Batch(d)
  BY DEF InBatch, InFile, Batch
<1>4. \A s : InBuffer(s)' <=> InBuffer(s) \/ s = new
  <2> SUFFICES ASSUME NEW s PROVE InBuffer(s)' <=> InBuffer(s) \/ s = new
    OBVIOUS
  <2>1. InBuffer(s) => InBuffer(s)'
    BY <1>1, <1>2 DEF InBuffer
  <2>2. s = new => InBuffer(s)'
    BY <1>2 DEF InBuffer
  <2>3. InBuffer(s)' => InBuffer(s) \/ s = new
    BY <1>1, <1>2 DEF InBuffer
  <2> QED BY <2>1, <2>2, <2>3
<1>5. new \notin 1..latest_sequence /\ 1..latest_sequence' = 1..latest_sequence \union {new}
  BY <1>0
<1>6. ~ InBuffer(new) /\ ~ InBatch(new) /\ ~ InFile(new, "header") /\ ~ InFile(new, "record")
  <2>1. ~ InBuffer(new)
    BY <1>5 DEF InBuffer, HeldInv, BuffersApart
  <2>2. ~ InBatch(new)
    BY <1>5 DEF InBatch, HeldInv, BatchesApart
  <2>3. \A h : ~ InFile(new, h)
    BY <1>5 DEF InFile, HeldInv, HalvesOnce
  <2> QED BY <2>1, <2>2, <2>3
<1> HIDE DEF new
<1>7. BuffersApart'
  <2> SUFFICES ASSUME NEW c \in 0..1, NEW i \in DOMAIN buffers'[c]
               PROVE /\ buffers'[c][i] \in 1..latest_sequence'
                     /\ \A e \in 0..1 : \A j \in DOMAIN buffers'[e] : buffers'[c][i] = buffers'[e][j] => c = e /\ i = j
                     /\ ~ InBatch(buffers'[c][i])
                     /\ ~ InFile(buffers'[c][i], "header") /\ ~ InFile(buffers'[c][i], "record")
    BY <1>3 DEF BuffersApart
  <2>1. \A e \in 0..1 : \A j \in DOMAIN buffers[e] : buffers[e][j] # new
    BY <1>6 DEF InBuffer
  <2>2. CASE c = b /\ i = last
    <3>1. buffers'[c][i] = new
      BY <2>2, <1>2
    <3> QED BY <3>1, <2>1, <2>2, <1>1, <1>2, <1>5, <1>6
  <2>3. CASE ~ (c = b /\ i = last)
    <3>1. i \in DOMAIN buffers[c] /\ buffers'[c][i] = buffers[c][i]
      BY <2>3, <1>1, <1>2
    <3>2. /\ buffers[c][i] \in 1..latest_sequence
          /\ \A e \in 0..1 : \A j \in DOMAIN buffers[e] : buffers[c][i] = buffers[e][j] => c = e /\ i = j
          /\ ~ InBatch(buffers[c][i])
          /\ ~ InFile(buffers[c][i], "header") /\ ~ InFile(buffers[c][i], "record")
      BY <3>1 DEF HeldInv, BuffersApart
    <3>3. \A e \in 0..1 : \A j \in DOMAIN buffers'[e] : buffers'[c][i] = buffers'[e][j] => c = e /\ i = j
      BY <3>1, <3>2, <2>1, <1>1, <1>2
    <3> QED BY <3>1, <3>2, <3>3, <1>5
  <2> QED BY <2>2, <2>3
<1>8. BatchesApart'
  BY <1>3, <1>5 DEF HeldInv, BatchesApart
<1>9. HalvesOnce'
  BY <1>5 DEF HeldInv, HalvesOnce
<1>10. NothingLost'
  BY <1>3, <1>4, <1>5 DEF HeldInv, NothingLost
<1>11. committed_sequence' \in 0..latest_sequence' /\ answered' <= latest_sequence'
  BY <1>0
<1> QED BY <1>7, <1>8, <1>9, <1>10, <1>11 DEF HeldInv

\* Every step keeps each record in one place, and its halves in the file once
\* (sqpoll_journal.rs:62-174).
LEMMA HeldStep == ASSUME CallInv, HeldInv, [SqpollNext]_sqpollVars PROVE HeldInv'
<1>0. /\ \A d \in Drainers : drain_at[d] \in DrainStates
      /\ drain_at \in [Drainers -> DrainStates] /\ latest_sequence \in Nat /\ answered \in Nat
      /\ committed_sequence \in 0..latest_sequence /\ answered <= latest_sequence
  BY DEF CallInv, HeldInv
<1>1. CASE \E p \in Pushers : push(p) \/ PushLock(p)
  <2>1. UNCHANGED <<buffers, halves, latest_sequence, dropped, drain_at, committed_sequence, answered>>
    BY <1>1 DEF push, PushLock, queueVars, fileVars
  <2> QED BY <2>1, <1>0, NothingMoved DEF Batch
<1>2. CASE \E p \in Pushers : PushAppend(p)
  <2>1. PICK p \in Pushers : PushAppend(p)
    BY <1>2
  <2>2. push_at[p].buf_idx \in 0..1
    BY DEF CallInv
  <2>3. UNCHANGED <<halves, drain_at, committed_sequence, answered, dropped>>
    BY <2>1 DEF PushAppend, fileVars
  <2>4. CASE latest_sequence' = latest_sequence /\ buffers' = buffers
    BY <2>4, <2>3, <1>0, NothingMoved DEF Batch
  <2>5. CASE /\ latest_sequence' = latest_sequence + 1
             /\ buffers' = [buffers EXCEPT ![push_at[p].buf_idx] =
                                Append(buffers[push_at[p].buf_idx], latest_sequence + 1)]
    BY <2>5, <2>2, <2>3, RecordPushed
  <2> QED BY <2>1, <2>4, <2>5 DEF PushAppend
<1>3. CASE WorkerLoop \/ flush_sync \/ drop
  <2>1. UNCHANGED <<buffers, halves, latest_sequence, dropped, committed_sequence, answered>>
    BY <1>3 DEF WorkerLoop, flush_sync, drop, queueVars, fileVars
  <2>2. \A d \in Drainers : Batch(d)' = Batch(d) /\ (Batch(d) # <<>> => drain_at'[d].done = drain_at[d].done)
    <3>1. CASE WorkerLoop
      <4>1. PICK n \in 1..2, end \in {"loop", "done"} : drain_at' = [drain_at EXCEPT !["worker"] = Drainer("swap", n, end)]
        <5>1. CASE is_running
          BY <5>1, <3>1 DEF WorkerLoop, DrainGoesTo
        <5>2. CASE ~ is_running
          BY <5>2, <3>1 DEF WorkerLoop, DrainGoesTo
        <5> QED BY <5>1, <5>2
      <4>2. Batch("worker") = <<>>
        BY <3>1 DEF WorkerLoop, CallInv, Drainers, Batch
      <4>3. Drainer("swap", n, end).batch = <<>>
        BY DrainerState
      <4> QED BY <4>1, <4>2, <4>3, <1>0 DEF Drainers, Batch
    <3>2. CASE flush_sync
      <4>1. drain_at' = [drain_at EXCEPT !["caller"] = Drainer("swap", 2, "idle")] /\ CallerIdle
        BY <3>2 DEF flush_sync, DrainGoesTo
      <4>2. Batch("caller") = <<>>
        BY <4>1 DEF CallerIdle, CallInv, Drainers, Batch
      <4>3. Drainer("swap", 2, "idle").batch = <<>>
        BY DrainerState
      <4> QED BY <4>1, <4>2, <4>3, <1>0 DEF Drainers, Batch
    <3>3. CASE drop
      BY <3>3 DEF drop, Batch
    <3> QED BY <3>1, <3>2, <3>3, <1>3
  <2> QED BY <2>1, <2>2, <1>0, NothingMoved
<1>4. CASE \E d \in Drainers : DrainStep(d)
  <2>1. PICK d \in Drainers : DrainStep(d)
    BY <1>4
  <2>2. CASE SwapLoad(d) \/ SwapStore(d)
    <3>1. /\ UNCHANGED <<buffers, halves, latest_sequence, dropped, committed_sequence, answered>>
          /\ \/ drain_at' = [drain_at EXCEPT ![d] = [drain_at[d] EXCEPT !.pc = "store", !.old_idx = active_buf_idx]]
             \/ drain_at' = [drain_at EXCEPT ![d] = [drain_at[d] EXCEPT !.pc = "take"]]
      BY <2>2 DEF SwapLoad, SwapStore, DrainGoesTo, queueVars, fileVars
    <3>2. /\ drain_at'[d].batch = drain_at[d].batch /\ drain_at'[d].done = drain_at[d].done
          /\ \A e \in Drainers \ {d} : drain_at'[e] = drain_at[e]
      <4>1. CASE SwapLoad(d)
        BY <4>1, <1>0 DEF SwapLoad, DrainGoesTo, DrainStates
      <4>2. CASE SwapStore(d)
        BY <4>2, <1>0 DEF SwapStore, DrainGoesTo, DrainStates
      <4> QED BY <4>1, <4>2, <2>2
    <3>3. \A e \in Drainers : Batch(e)' = Batch(e) /\ drain_at'[e].done = drain_at[e].done
      BY <3>2 DEF Batch
    <3> QED BY <3>1, <3>3, <1>0, NothingMoved
  <2>3. CASE Take(d)
    <3> DEFINE b == drain_at[d].old_idx
    <3>1. /\ drain_at[d].pc = "take" /\ buffers' = [buffers EXCEPT ![b] = <<>>]
          /\ UNCHANGED <<latest_sequence, committed_sequence, halves, dropped>>
          /\ b \in 0..1 /\ Batch(d) = <<>> /\ drain_at[d].done = 0
          /\ answered' \in {answered, latest_sequence}
      BY <2>3, <1>0 DEF Take, fileVars, CallInv, Batch, DrainStates
    <3>2. CASE buffers[b] = <<>> /\ drain_at' = [drain_at EXCEPT ![d] = AfterPass(d)]
      <4>1. AfterPass(d).batch = <<>>
        BY <3>1, AfterPassState
      <4>2. buffers' = buffers
        BY <3>1, <3>2 DEF CallInv
      <4>3. \A e \in Drainers : Batch(e)' = Batch(e) /\ (Batch(e) # <<>> => drain_at'[e].done = drain_at[e].done)
        BY <4>1, <3>1, <3>2, <1>0 DEF Batch
      <4>4. committed_sequence' \in 0..latest_sequence /\ answered' <= latest_sequence
        BY <3>1, <1>0
      <4> QED BY <4>2, <4>3, <4>4, <3>1, NothingMoved
    <3>3. CASE /\ answered' = answered
               /\ drain_at' = [drain_at EXCEPT ![d] = [drain_at[d] EXCEPT !.pc = "write", !.batch = buffers[b]]]
      <4>1. Batch(d)' = buffers[b] /\ drain_at'[d].done = 0 /\ \A e \in Drainers \ {d} : drain_at'[e] = drain_at[e]
        BY <3>1, <3>3, <1>0 DEF Batch, DrainStates
      <4> QED BY <4>1, <3>1, <3>3, BufferTaken
    <3> QED BY <2>3, <3>2, <3>3 DEF Take, DrainGoesTo
  <2>4. CASE flush_records(d)
    BY <2>4, HalfWritten
  <2>5. CASE CommitFence(d)
    <3>1. /\ drain_at' = [drain_at EXCEPT ![d] = [drain_at[d] EXCEPT !.pc = "sync", !.batch = <<>>]]
          /\ committed_sequence' = Max({committed_sequence} \union ToSet(Batch(d)))
          /\ drain_at[d].done = 2 * Len(Batch(d))
          /\ UNCHANGED <<buffers, latest_sequence, halves, answered, dropped>>
      BY <2>5 DEF CommitFence, DrainGoesTo, fileVars, Batch
    <3>2. Batch(d) \in Seq(Nat) /\ DOMAIN Batch(d) = 1..Len(Batch(d)) /\ Len(Batch(d)) \in Nat
      BY BatchType DEF Batch
    <3>3. \A i \in DOMAIN Batch(d) : Batch(d)[i] <= latest_sequence
      BY <1>0 DEF HeldInv, BatchesApart
    <3>4. committed_sequence' \in 0..latest_sequence
      BY <3>1, <3>2, <3>3, <1>0, FenceAfterBatch
    <3>5. \A i \in DOMAIN Batch(d) : InFile(Batch(d)[i], "record")
      <4> SUFFICES ASSUME NEW i \in DOMAIN Batch(d) PROVE InFile(Batch(d)[i], "record")
        OBVIOUS
      <4>1. 2 * i <= drain_at[d].done
        BY <3>1, <3>2
      <4> QED BY <4>1 DEF HeldInv, BatchesApart
    <3>6. Batch(d)' = <<>> /\ \A e \in Drainers \ {d} : drain_at'[e] = drain_at[e]
      BY <3>1, <1>0 DEF Batch, DrainStates
    <3>7. answered' <= latest_sequence
      BY <3>1, <1>0
    <3> QED BY <3>1, <3>4, <3>5, <3>6, <3>7, BatchEnds
  <2>6. CASE WriteFails(d)
    <3>1. /\ drain_at[d].pc = "write" /\ drain_at' = [drain_at EXCEPT ![d] = AfterFailure(d)]
          /\ dropped' = dropped \union ToSet(Batch(d))
          /\ UNCHANGED <<buffers, latest_sequence, committed_sequence, halves, answered>>
      BY <2>6 DEF WriteFails, DrainGoesTo, queueVars, fileVars, Batch
    <3>2. AfterFailure(d).batch = <<>>
      BY <3>1, AfterPassState
    <3>3. Batch(d)' = <<>> /\ \A e \in Drainers \ {d} : drain_at'[e] = drain_at[e]
      BY <3>1, <3>2, <1>0 DEF Batch
    <3>4. \A i \in DOMAIN Batch(d) : Batch(d)[i] \in dropped'
      BY <3>1 DEF ToSet
    <3>5. committed_sequence' \in 0..latest_sequence /\ answered' <= latest_sequence
      BY <3>1, <1>0
    <3> QED BY <3>1, <3>3, <3>4, <3>5, BatchEnds
  <2>7. CASE sync_data(d) \/ SyncDataFails(d)
    <3>1. /\ drain_at[d].pc = "sync" /\ Batch(d) = <<>>
          /\ UNCHANGED <<buffers, latest_sequence, committed_sequence, halves, dropped>>
          /\ answered' \in {answered, latest_sequence}
      BY <2>7 DEF sync_data, SyncDataFails, queueVars, fileVars, CallInv, Batch
    <3>2. PICK r \in {AfterPass(d), AfterFailure(d)} : drain_at' = [drain_at EXCEPT ![d] = r]
      BY <2>7 DEF sync_data, SyncDataFails, DrainGoesTo
    <3>3. r.batch = <<>>
      BY <3>1, AfterPassState
    <3>4. \A e \in Drainers : Batch(e)' = Batch(e) /\ (Batch(e) # <<>> => drain_at'[e].done = drain_at[e].done)
      BY <3>1, <3>2, <3>3, <1>0 DEF Batch
    <3>5. committed_sequence' \in 0..latest_sequence /\ answered' <= latest_sequence
      BY <3>1, <1>0
    <3> QED BY <3>1, <3>4, <3>5, NothingMoved
  <2> QED BY <2>1, <2>2, <2>3, <2>4, <2>5, <2>6, <2>7 DEF DrainStep
<1>5. CASE UNCHANGED sqpollVars
  <2>1. UNCHANGED <<buffers, halves, latest_sequence, dropped, drain_at, committed_sequence, answered>>
    BY <1>5 DEF sqpollVars, queueVars, fileVars
  <2> QED BY <2>1, <1>0, NothingMoved DEF Batch
<1> QED BY <1>1, <1>2, <1>3, <1>4, <1>5 DEF SqpollNext

\* A new journal holds nothing.
LEMMA HeldInit == ASSUME SqpollInit PROVE HeldInv
<1>1. /\ buffers = [b \in 0..1 |-> <<>>] /\ halves = <<>> /\ latest_sequence = 0
      /\ committed_sequence = 0 /\ answered = 0
      /\ drain_at = [worker |-> Drainer("loop", 0, "loop"), caller |-> Drainer("idle", 0, "idle")]
  BY DEF SqpollInit
<1>2. \A d \in Drainers : Batch(d) = <<>>
  BY <1>1 DEF Batch, Drainers, Drainer
<1>3. 1..latest_sequence = {} /\ committed_sequence \in 0..latest_sequence /\ answered <= latest_sequence
  BY <1>1
<1>4. \A b \in 0..1 : buffers[b] = <<>>
  BY <1>1
<1>5. BuffersApart
  BY <1>4, SqpollEmptySeq DEF BuffersApart
<1>6. BatchesApart
  BY <1>2, SqpollEmptySeq DEF BatchesApart
<1>7. HalvesOnce
  BY <1>1, SqpollEmptySeq DEF HalvesOnce
<1>8. NothingLost
  BY <1>3 DEF NothingLost
<1> QED BY <1>3, <1>5, <1>6, <1>7, <1>8 DEF HeldInv

\* Where a drainer goes, whatever its step.
LEMMA DrainStepState ==
    ASSUME CallInv, NEW d \in Drainers, DrainStep(d)
    PROVE  /\ drain_at'[d].end = drain_at[d].end
           /\ \A e \in Drainers \ {d} : drain_at'[e] = drain_at[e]
           /\ UNCHANGED <<is_running, push_at, latest_sequence>>
           /\ \/ /\ drain_at[d].pc = "swap" /\ drain_at'[d].pc = "store"
                 /\ drain_at'[d].passes = drain_at[d].passes
                 /\ drain_at'[d].old_idx = active_buf_idx
                 /\ UNCHANGED <<active_buf_idx, buffers>>
              \/ /\ drain_at[d].pc = "store" /\ drain_at'[d].pc = "take"
                 /\ drain_at'[d].passes = drain_at[d].passes
                 /\ drain_at'[d].old_idx = drain_at[d].old_idx
                 /\ active_buf_idx' = 1 - drain_at[d].old_idx
                 /\ buffers' = buffers
              \/ /\ drain_at[d].pc = "take" /\ active_buf_idx' = active_buf_idx
                 /\ buffers' = [buffers EXCEPT ![drain_at[d].old_idx] = <<>>]
                 /\ \/ drain_at'[d].pc = "write" /\ drain_at'[d].passes = drain_at[d].passes
                    \/ drain_at'[d].pc = "swap" /\ drain_at'[d].passes = 1 /\ drain_at[d].passes = 2
                    \/ drain_at'[d].pc = drain_at[d].end /\ (drain_at[d].passes = 1 \/ d = "caller")
              \/ /\ drain_at[d].pc \in {"write", "sync"}
                 /\ UNCHANGED <<active_buf_idx, buffers>>
                 /\ \/ drain_at'[d].pc \in {"write", "sync"} /\ drain_at'[d].passes = drain_at[d].passes
                    \/ drain_at'[d].pc = "swap" /\ drain_at'[d].passes = 1 /\ drain_at[d].passes = 2
                    \/ drain_at'[d].pc = drain_at[d].end /\ (drain_at[d].passes = 1 \/ d = "caller")
<1>0. drain_at \in [Drainers -> DrainStates] /\ drain_at[d] \in DrainStates
  BY DEF CallInv
<1>1. CASE SwapLoad(d) \/ SwapStore(d)
  <2>1. CASE SwapLoad(d)
    BY <2>1, <1>0 DEF SwapLoad, DrainGoesTo, DrainStates, queueVars
  <2>2. CASE SwapStore(d)
    BY <2>2, <1>0 DEF SwapStore, DrainGoesTo, DrainStates
  <2> QED BY <1>1, <2>1, <2>2
<1>2. CASE Take(d)
  <2>1. drain_at[d].pc = "take"
    BY <1>2 DEF Take
  <2>2. CASE drain_at' = [drain_at EXCEPT ![d] = AfterPass(d)]
    BY <2>1, <2>2, <1>2, <1>0, AfterPassState DEF Take
  <2>3. CASE drain_at' = [drain_at EXCEPT ![d] = [drain_at[d] EXCEPT !.pc = "write", !.batch = buffers[drain_at[d].old_idx]]]
    BY <2>1, <2>3, <1>2, <1>0 DEF Take, DrainStates
  <2> QED BY <1>2, <2>2, <2>3 DEF Take, DrainGoesTo
<1>3. CASE flush_records(d)
  BY <1>3, <1>0 DEF flush_records, DrainGoesTo, DrainStates, queueVars
<1>4. CASE CommitFence(d)
  BY <1>4, <1>0 DEF CommitFence, DrainGoesTo, DrainStates
<1>5. CASE WriteFails(d) \/ sync_data(d) \/ SyncDataFails(d)
  <2>1. PICK r \in {AfterPass(d), AfterFailure(d)} : drain_at' = [drain_at EXCEPT ![d] = r]
    BY <1>5 DEF WriteFails, sync_data, SyncDataFails, DrainGoesTo
  <2>2. drain_at[d].pc \in {"write", "sync"}
    BY <1>5 DEF WriteFails, sync_data, SyncDataFails
  <2>3. UNCHANGED <<active_buf_idx, buffers, is_running, push_at, latest_sequence>>
    BY <1>5 DEF WriteFails, sync_data, SyncDataFails, queueVars
  <2>4. drain_at'[d] = r /\ \A e \in Drainers \ {d} : drain_at'[e] = drain_at[e]
    BY <2>1, <1>0
  <2> QED BY <2>2, <2>3, <2>4, AfterPassState
<1> QED BY <1>1, <1>2, <1>3, <1>4, <1>5 DEF DrainStep

\* Once the flusher is on its last passes nobody else moves.
LEMMA ClosedStep == ASSUME CallInv, ClosedInv, [SqpollNext]_sqpollVars PROVE ClosedInv'
<1>0. /\ drain_at \in [Drainers -> DrainStates] /\ "worker" \in Drainers /\ "caller" \in Drainers
      /\ active_buf_idx \in 0..1 /\ buffers \in [0..1 -> Seq(Nat)]
      /\ drain_at["worker"].end = "done" => PushersIdle /\ CallerIdle /\ ~ is_running
  BY DEF CallInv, Drainers
<1>1. CASE \E p \in Pushers : push(p) \/ PushLock(p) \/ PushAppend(p)
  <2>1. ~ PushersIdle \/ is_running
    BY <1>1 DEF push, PushLock, PushAppend, PushersIdle
  <2>2. drain_at' = drain_at
    BY <1>1 DEF push, PushLock, PushAppend
  <2> QED BY <2>1, <2>2, <1>0 DEF ClosedInv
<1>2. CASE WorkerLoop
  <2>1. /\ \/ drain_at' = [drain_at EXCEPT !["worker"] = Drainer("swap", 1, "loop")]
           \/ drain_at' = [drain_at EXCEPT !["worker"] = Drainer("swap", 2, "done")]
    <3>1. CASE is_running
      BY <3>1, <1>2 DEF WorkerLoop, DrainGoesTo
    <3>2. CASE ~ is_running
      BY <3>2, <1>2 DEF WorkerLoop, DrainGoesTo
    <3> QED BY <3>1, <3>2
  <2>2. drain_at'["worker"].end # "done" \/ (drain_at'["worker"].pc = "swap" /\ drain_at'["worker"].passes = 2)
    BY <2>1, <1>0 DEF Drainer
  <2> QED BY <2>2 DEF ClosedInv, Writing
<1>3. CASE flush_sync \/ drop
  <2>1. is_running /\ UNCHANGED <<queueVars>> /\ drain_at'["worker"] = drain_at["worker"]
    BY <1>3, <1>0 DEF flush_sync, drop, DrainGoesTo
  <2> QED BY <2>1, <1>0 DEF ClosedInv
<1>4. CASE \E d \in Drainers : DrainStep(d)
  <2>1. PICK d \in Drainers : DrainStep(d)
    BY <1>4
  <2>2. CASE d = "caller"
    <3>1. ~ CallerIdle
      BY <2>1, <2>2 DEF DrainStep, CallerIdle, SwapLoad, SwapStore, Take, flush_records, CommitFence, WriteFails, sync_data, SyncDataFails
    <3>2. drain_at'["worker"] = drain_at["worker"]
      BY <2>1, <2>2, <1>0, DrainStepState
    <3> QED BY <3>1, <3>2, <1>0 DEF ClosedInv
  <2>3. CASE d = "worker"
    <3> SUFFICES ASSUME drain_at'["worker"].end = "done" PROVE ClosedInv'
      BY DEF ClosedInv
    <3> DEFINE w == drain_at["worker"]
    <3>0. (w.end = "done" /\ w.passes \in 1..2) \/ w.pc = "done"
      BY <2>1, <2>3, DrainStepState DEF CallInv
    <3>1. CASE /\ w.pc = "store" /\ drain_at'["worker"].pc = "take"
               /\ drain_at'["worker"].passes = w.passes
               /\ drain_at'["worker"].old_idx = w.old_idx
               /\ active_buf_idx' = 1 - w.old_idx
               /\ buffers' = buffers
      <4>0. w.end = "done" /\ w.old_idx = Active
        BY <3>1, <3>0 DEF ClosedInv
      <4>1. Inactive' = Active /\ Active' = Inactive
        BY <3>1, <4>0, <1>0 DEF Inactive, Active
      <4> QED BY <4>0, <4>1, <3>1, <1>0 DEF ClosedInv, Writing
    <3>4. CASE /\ w.pc = "swap" /\ drain_at'["worker"].pc = "store"
               /\ drain_at'["worker"].passes = w.passes
               /\ drain_at'["worker"].old_idx = active_buf_idx
               /\ UNCHANGED <<active_buf_idx, buffers>>
      <4>0. w.end = "done"
        BY <3>4, <3>0
      <4>1. Inactive' = Inactive /\ Active' = Active
        BY <3>4 DEF Inactive, Active
      <4> QED BY <4>0, <4>1, <3>4 DEF ClosedInv, Writing, Active
    <3>2. CASE /\ w.pc = "take" /\ active_buf_idx' = active_buf_idx
               /\ buffers' = [buffers EXCEPT ![w.old_idx] = <<>>]
      <4>1. Inactive' = Inactive /\ Active' = Active /\ Inactive \in 0..1 /\ Active \in 0..1 /\ Active # Inactive
        BY <3>2, <1>0 DEF Inactive, Active
      <4>2. w.old_idx = Inactive /\ w.end = "done" /\ w.passes \in 1..2
        BY <3>2, <2>1, <2>3, DrainStepState DEF ClosedInv, CallInv
      <4>3. buffers'[Inactive] = <<>> /\ buffers'[Active] = buffers[Active]
        BY <4>1, <4>2, <3>2, <1>0
      <4>4. \/ drain_at'["worker"].pc = "write" /\ drain_at'["worker"].passes = w.passes
            \/ drain_at'["worker"].pc = "swap" /\ drain_at'["worker"].passes = 1 /\ w.passes = 2
            \/ drain_at'["worker"].pc = "done" /\ w.passes = 1
        BY <3>2, <4>2, <2>1, <2>3, DrainStepState
      <4> QED BY <4>1, <4>2, <4>3, <4>4, <3>2 DEF ClosedInv, Writing
    <3>3. CASE /\ w.pc \in {"write", "sync"}
               /\ UNCHANGED <<active_buf_idx, buffers>>
      <4>1. Inactive' = Inactive /\ Active' = Active
        BY <3>3 DEF Inactive, Active
      <4>2. w.end = "done" /\ w.passes \in 1..2
        BY <3>3, <2>1, <2>3, DrainStepState DEF CallInv
      <4>4. \/ drain_at'["worker"].pc \in {"write", "sync"} /\ drain_at'["worker"].passes = w.passes
            \/ drain_at'["worker"].pc = "swap" /\ drain_at'["worker"].passes = 1 /\ w.passes = 2
            \/ drain_at'["worker"].pc = "done" /\ w.passes = 1
        BY <3>3, <4>2, <2>1, <2>3, DrainStepState
      <4> QED BY <4>1, <4>2, <4>4, <3>3 DEF ClosedInv, Writing
    <3> QED BY <2>1, <2>3, <3>1, <3>2, <3>3, <3>4, DrainStepState
  <2> QED BY <2>2, <2>3 DEF Drainers
<1>5. CASE UNCHANGED sqpollVars
  BY <1>5 DEF sqpollVars, queueVars, ClosedInv, Writing, Active, Inactive
<1> QED BY <1>1, <1>2, <1>3, <1>4, <1>5 DEF SqpollNext

\* Steps that leave the order alone.
LEMMA OrderUnchanged ==
    ASSUME OrderInv, UNCHANGED <<queueVars, fileVars, drain_at, answered, disturbed, dropped>>
    PROVE  OrderInv'
BY DEF OrderInv, QueueInv, FenceWritten, FramesWhole, HeaderFirst, AllSynced, AnsweredSynced,
       Writing, Taking, Active, Inactive, InHand, Batch, Written, WrittenWithin, queueVars, fileVars

\* The active and the inactive buffer are the two there are.
LEMMA TwoBuffers ==
    ASSUME CallInv
    PROVE  /\ Active \in 0..1 /\ Inactive \in 0..1 /\ Active # Inactive /\ 0..1 = {Active, Inactive}
           /\ \A b \in 0..1 : buffers[b] \in Seq(Nat) /\ Len(buffers[b]) \in Nat
                              /\ DOMAIN buffers[b] = 1..Len(buffers[b])
           /\ "worker" \in Drainers /\ "caller" \in Drainers
           /\ InHand \in Nat
           /\ halves \in Seq(HalfFrames) /\ Len(halves) \in Nat /\ DOMAIN halves = 1..Len(halves)
           /\ synced_len \in 0..Len(halves)
<1>1. active_buf_idx \in 0..1 /\ \A b \in 0..1 : buffers[b] \in Seq(Nat)
  BY DEF CallInv
<1>2. Active \in 0..1 /\ Inactive \in 0..1 /\ Active # Inactive /\ 0..1 = {Active, Inactive}
  BY <1>1 DEF Active, Inactive
<1>3. "worker" \in Drainers /\ "caller" \in Drainers
  BY DEF Drainers
<1>4. InHand \in Nat
  <2>1. Len(Batch("worker")) \in Nat /\ Len(Batch("caller")) \in Nat
    BY <1>3, BatchType DEF Batch
  <2> QED BY <2>1 DEF InHand
<1> QED BY <1>1, <1>2, <1>3, <1>4, LenProperties DEF CallInv

\* A record pushed into the active buffer is the last of the queue.
LEMMA PushKeepsOrder ==
    ASSUME CallInv, HeldInv, OrderInv, NEW p \in Pushers, PushAppend(p)
    PROVE  OrderInv'
<1> DEFINE b == push_at[p].buf_idx
<1>1. /\ UNCHANGED <<active_buf_idx, committed_sequence, fileVars, drain_at, answered, dropped>>
      /\ disturbed' = (disturbed \/ Late(p)) /\ push_at[p].pc = "append" /\ b \in 0..1
  BY DEF PushAppend, CallInv
<1>2. CASE latest_sequence' = latest_sequence /\ buffers' = buffers
  <2> SUFFICES ASSUME ~ disturbed', dropped' = {} PROVE OrderInv'
    BY DEF OrderInv
  <2>1. ~ disturbed /\ dropped = {}
    BY <1>1
  <2> QED BY <2>1, <1>1, <1>2
        DEF OrderInv, QueueInv, FenceWritten, FramesWhole, HeaderFirst, AllSynced, AnsweredSynced,
            Writing, Taking, Active, Inactive, InHand, Batch, Written, WrittenWithin, fileVars
<1>3. CASE /\ latest_sequence' = latest_sequence + 1
           /\ buffers' = [buffers EXCEPT ![b] = Append(buffers[b], latest_sequence + 1)]
  <2> SUFFICES ASSUME ~ disturbed', dropped' = {} PROVE OrderInv'
    BY DEF OrderInv
  <2>1. ~ disturbed /\ dropped = {} /\ b = Active
    BY <1>1 DEF Late, Active
  <2>2. /\ Active' = Active /\ Inactive' = Inactive /\ InHand' = InHand
        /\ \A d \in Drainers : Batch(d)' = Batch(d) /\ Taking(d)' = Taking(d) /\ Writing(d)' = Writing(d)
    BY <1>1 DEF Active, Inactive, InHand, Batch, Taking, Writing
  <2>3. /\ FenceWritten' /\ FramesWhole' /\ HeaderFirst' /\ AllSynced' /\ AnsweredSynced'
        /\ ~ (Writing("worker") /\ Writing("caller"))'
    BY <2>1, <2>2, <1>1 DEF OrderInv, FenceWritten, FramesWhole, HeaderFirst, AllSynced, AnsweredSynced,
            Writing, Batch, Written, WrittenWithin, fileVars
  <2>4. ASSUME QueueInv PROVE QueueInv'
    <3>1. /\ buffers'[Inactive] = buffers[Inactive]
          /\ buffers'[Active] = Append(buffers[Active], latest_sequence + 1)
      BY <1>3, <2>1, TwoBuffers DEF CallInv
    <3>2. /\ buffers[Active] \in Seq(Nat) /\ Len(buffers[Active]) \in Nat
          /\ DOMAIN buffers[Active] = 1..Len(buffers[Active]) /\ latest_sequence + 1 \in Nat
          /\ latest_sequence \in Nat /\ committed_sequence \in Nat
      BY TwoBuffers DEF CallInv, HeldInv
    <3>3. /\ Len(buffers'[Active]) = Len(buffers[Active]) + 1
          /\ DOMAIN buffers'[Active] = 1..Len(buffers[Active]) + 1
          /\ \A i \in 1..Len(buffers[Active]) : buffers'[Active][i] = buffers[Active][i]
          /\ buffers'[Active][Len(buffers[Active]) + 1] = latest_sequence + 1
      BY <3>1, <3>2, AppendProperties, LenProperties
    <3>4. ~ CallerIdle => FALSE
      BY <1>1 DEF CallInv, PushersIdle
    <3>5. ~ Taking("caller")' /\ ~ Writing("caller")' /\ drain_at'["caller"].pc # "store"
      BY <3>4, <2>2, <1>1, TwoBuffers DEF CallerIdle, Taking, Writing
    <3> DEFINE m == Len(buffers[Active])  k == committed_sequence + InHand + Len(buffers[Inactive])
    <3>6. m \in Nat /\ k \in Nat /\ latest_sequence = k + m
      BY <3>2, <2>4, TwoBuffers, SMTT(30) DEF QueueInv
    <3>7. \A i \in DOMAIN buffers'[Active] : buffers'[Active][i] = k + i
      <4> SUFFICES ASSUME NEW i \in 1..m + 1 PROVE buffers'[Active][i] = k + i
        BY <3>3
      <4>1. CASE i = m + 1
        BY <4>1, <3>6, <3>3
      <4>2. CASE i \in 1..m
        BY <4>2, <3>3, <3>2, <2>4 DEF QueueInv
      <4> QED BY <4>1, <4>2, <3>6
    <3>8. latest_sequence' = k + Len(buffers'[Active])
      BY <3>3, <3>6, <1>3
    <3> HIDE DEF m
    <3>9. Len(buffers'[Inactive]) = Len(buffers[Inactive]) /\ committed_sequence' = committed_sequence
      BY <3>1, <1>1
    <3>10. /\ \A d \in Drainers : Taking(d)' => drain_at'[d].old_idx = Inactive'
           /\ ~ Taking("worker")' /\ ~ Taking("caller")' => buffers'[Inactive'] = <<>>
           /\ \A d \in Drainers : \A i \in DOMAIN Batch(d)' : Batch(d)'[i] = committed_sequence' + i
      BY <2>4, <2>2, <3>1, <1>1, TwoBuffers DEF QueueInv
    <3>11. \A i \in DOMAIN buffers'[Inactive'] : buffers'[Inactive'][i] = committed_sequence' + InHand' + i
      BY <2>4, <2>2, <3>1, <1>1 DEF QueueInv
    <3>12. \A i \in DOMAIN buffers'[Active'] :
              buffers'[Active'][i] = committed_sequence' + InHand' + Len(buffers'[Inactive']) + i
      BY <3>7, <3>9, <2>2
    <3>13. latest_sequence' = committed_sequence' + InHand' + Len(buffers'[Inactive']) + Len(buffers'[Active'])
      BY <3>8, <3>9, <2>2
    <3> QED BY <3>5, <3>10, <3>11, <3>12, <3>13 DEF QueueInv
  <2> QED BY <2>1, <2>2, <2>3, <2>4, TwoBuffers DEF OrderInv
<1> QED BY <1>2, <1>3 DEF PushAppend

\* flush_sync and the flusher start a pass with nothing in hand.
LEMMA StartKeepsOrder ==
    ASSUME CallInv, OrderInv, WorkerLoop \/ flush_sync
    PROVE  OrderInv'
<1>0. drain_at \in [Drainers -> DrainStates]
  BY DEF CallInv
<1>1. UNCHANGED <<queueVars, fileVars, answered, disturbed, dropped>>
  BY DEF WorkerLoop, flush_sync
<1>2. PICK d \in Drainers :
        /\ drain_at[d].pc \in {"loop", "idle"} /\ drain_at'[d].pc = "swap" /\ Batch(d)' = <<>>
        /\ \A e \in Drainers \ {d} : drain_at'[e] = drain_at[e]
        /\ d = "caller" => drain_at'[d].passes = 2
  <2>1. CASE WorkerLoop
    <3>1. PICK n \in 1..2, end \in {"loop", "done"} : drain_at' = [drain_at EXCEPT !["worker"] = Drainer("swap", n, end)]
      <4>1. CASE is_running
        BY <4>1, <2>1 DEF WorkerLoop, DrainGoesTo
      <4>2. CASE ~ is_running
        BY <4>2, <2>1 DEF WorkerLoop, DrainGoesTo
      <4> QED BY <4>1, <4>2
    <3> QED BY <3>1, <2>1, <1>0, DrainerState DEF Drainers, WorkerLoop, Batch
  <2>2. CASE flush_sync
    <3>1. drain_at' = [drain_at EXCEPT !["caller"] = Drainer("swap", 2, "idle")] /\ CallerIdle
      BY <2>2 DEF flush_sync, DrainGoesTo
    <3> QED BY <3>1, <1>0, DrainerState DEF Drainers, CallerIdle, Batch
  <2> QED BY <2>1, <2>2
<1>3. Batch(d) = <<>>
  BY <1>2 DEF CallInv, Batch
<1>4. \A e \in Drainers : Batch(e)' = Batch(e) /\ Taking(e)' = Taking(e) /\ Writing(e)' = Writing(e)
  BY <1>2, <1>3 DEF Batch, Taking, Writing
<1>5. /\ Active' = Active /\ Inactive' = Inactive /\ InHand' = InHand
  BY <1>1, <1>4 DEF Active, Inactive, InHand, queueVars, Drainers
<1>6. \A e \in Drainers : /\ Taking(e) \/ Writing(e) => drain_at'[e] = drain_at[e]
                          /\ drain_at'[e].pc = "store" => drain_at'[e] = drain_at[e]
  BY <1>2 DEF Taking, Writing
<1>7. QueueInv => QueueInv'
  BY <1>1, <1>4, <1>5, <1>6, TwoBuffers DEF QueueInv, queueVars
<1>8. HeaderFirst => HeaderFirst'
  BY <1>1, <1>2, <1>4 DEF HeaderFirst, fileVars
<1> QED BY <1>1, <1>4, <1>7, <1>8, TwoBuffers
      DEF OrderInv, FenceWritten, FramesWhole, AllSynced, AnsweredSynced, Written, WrittenWithin, queueVars, fileVars

\* For each of the two drainers there is the other.
LEMMA BothAreDrainers ==
    ASSUME NEW d \in Drainers
    PROVE  \E e \in Drainers : e # d /\ Drainers = {d, e} /\ {d, e} = {"worker", "caller"}
BY DEF Drainers

\* Reading the index disturbs nothing.
LEMMA LoadKeepsOrder ==
    ASSUME CallInv, OrderInv, NEW d \in Drainers, SwapLoad(d)
    PROVE  OrderInv'
<1>1. /\ UNCHANGED <<queueVars, fileVars, answered, disturbed, dropped>> /\ drain_at[d].pc = "swap"
      /\ drain_at' = [drain_at EXCEPT ![d] = [drain_at[d] EXCEPT !.pc = "store", !.old_idx = active_buf_idx]]
  BY DEF SwapLoad, DrainGoesTo
<1>2. /\ drain_at'[d].pc = "store" /\ drain_at'[d].old_idx = active_buf_idx /\ Batch(d)' = Batch(d)
      /\ \A e \in Drainers \ {d} : drain_at'[e] = drain_at[e]
  <2>1. drain_at \in [Drainers -> DrainStates] /\ drain_at[d] \in DrainStates
    BY DEF CallInv
  <2> QED BY <1>1, <2>1 DEF Batch, DrainStates
<1>4. \A e \in Drainers : Batch(e)' = Batch(e) /\ Taking(e)' = Taking(e) /\ Writing(e)' = Writing(e)
  BY <1>1, <1>2 DEF Batch, Taking, Writing
<1>5. /\ Active' = Active /\ Inactive' = Inactive /\ InHand' = InHand
  BY <1>1, <1>4 DEF Active, Inactive, InHand, queueVars, Drainers
<1>6. \A e \in Drainers : /\ Taking(e) \/ Writing(e) => drain_at'[e] = drain_at[e]
                          /\ drain_at'[e].pc = "store" => drain_at'[e] = drain_at[e] \/ drain_at'[e].old_idx = Active
  BY <1>1, <1>2 DEF Taking, Writing, Active
<1>7. QueueInv => QueueInv'
  <2> SUFFICES ASSUME QueueInv PROVE QueueInv'
    OBVIOUS
  <2>1. /\ buffers' = buffers /\ committed_sequence' = committed_sequence /\ latest_sequence' = latest_sequence
        /\ "caller" \in Drainers /\ "worker" \in Drainers
    BY <1>1 DEF queueVars, Drainers
  <2>2. drain_at'["caller"].pc = "store" /\ drain_at'["caller"].old_idx # Active => buffers[Active] = <<>>
    BY <1>6, <2>1 DEF QueueInv
  <2>3. /\ drain_at'["caller"].passes = 1 /\ Taking("caller") => buffers[Active] = <<>>
        /\ drain_at'["caller"].passes = 1 /\ Writing("caller") => buffers[Active] = <<>> /\ buffers[Inactive] = <<>>
    BY <1>6, <2>1 DEF QueueInv
  <2>4. \A e \in Drainers : Taking(e) => drain_at'[e].old_idx = Inactive
    BY <1>6 DEF QueueInv
  <2> QED BY <1>4, <1>5, <2>1, <2>2, <2>3, <2>4 DEF QueueInv
<1>8. HeaderFirst => HeaderFirst'
  BY <1>1, <1>2, <1>4 DEF HeaderFirst, fileVars
<1> QED BY <1>1, <1>4, <1>7, <1>8, TwoBuffers
      DEF OrderInv, FenceWritten, FramesWhole, AllSynced, AnsweredSynced, Written, WrittenWithin, queueVars, fileVars

\* A switch puts what waited last behind the buffer that was empty; one that
\* comes late switches nothing.
LEMMA StoreKeepsOrder ==
    ASSUME CallInv, HeldInv, OrderInv, NEW d \in Drainers, SwapStore(d)
    PROVE  OrderInv'
<1>1. /\ UNCHANGED <<buffers, latest_sequence, committed_sequence, fileVars, answered, disturbed, dropped>>
      /\ drain_at[d].pc = "store" /\ active_buf_idx' = 1 - drain_at[d].old_idx
      /\ drain_at' = [drain_at EXCEPT ![d] = [drain_at[d] EXCEPT !.pc = "take"]]
  BY DEF SwapStore, DrainGoesTo
<1>2. /\ drain_at'[d].pc = "take" /\ drain_at'[d].old_idx = drain_at[d].old_idx
      /\ drain_at'[d].passes = drain_at[d].passes /\ Batch(d)' = Batch(d) /\ drain_at'[d].done = drain_at[d].done
      /\ \A e \in Drainers \ {d} : drain_at'[e] = drain_at[e]
  <2>1. drain_at \in [Drainers -> DrainStates] /\ drain_at[d] \in DrainStates
    BY DEF CallInv
  <2> QED BY <1>1, <2>1 DEF Batch, DrainStates
<1>3. /\ drain_at[d].old_idx = Active => Active' = Inactive /\ Inactive' = Active
      /\ drain_at[d].old_idx # Active => /\ Active' = Active /\ Inactive' = Inactive
                                        /\ drain_at[d].old_idx = Inactive
  <2>1. active_buf_idx \in 0..1 /\ drain_at[d].old_idx \in 0..1
    BY DEF CallInv, DrainStates
  <2> QED BY <2>1, <1>1 DEF Active, Inactive
<1>4. \A e \in Drainers : Batch(e)' = Batch(e) /\ (Writing(e)' <=> Writing(e))
  BY <1>1, <1>2 DEF Writing, Batch
<1>5. InHand' = InHand
  BY <1>4 DEF InHand, Drainers
<1>6. Taking(d)' /\ ~ Taking(d) /\ ~ Writing(d) /\ \A e \in Drainers \ {d} : Taking(e)' <=> Taking(e)
  BY <1>1, <1>2 DEF Taking, Writing
<1>7. ASSUME QueueInv, ~ (Taking("worker") /\ Taking("caller"))' PROVE QueueInv'
  <2>1. CASE drain_at[d].old_idx = Active
    <3>1. ~ Taking("worker") /\ ~ Taking("caller")
      BY <1>6, <1>7, BothAreDrainers
    <3>2. buffers[Inactive] = <<>> /\ Len(buffers[Inactive]) = 0 /\ DOMAIN buffers[Inactive] = {}
      BY <3>1, <1>7, SqpollEmptySeq DEF QueueInv
    <3>3. /\ \A e \in Drainers : Taking(e)' => drain_at'[e].old_idx = Inactive'
          /\ Taking("worker")' \/ Taking("caller")'
          /\ \A e \in Drainers : \A i \in DOMAIN Batch(e)' : Batch(e)'[i] = committed_sequence' + i
      <4>1. \A e \in Drainers \ {d} : ~ Taking(e)'
        BY <1>6, <3>1, BothAreDrainers
      <4>2. drain_at'[d].old_idx = Inactive'
        BY <1>2, <1>3, <2>1
      <4>3. Taking("worker")' \/ Taking("caller")'
        BY <1>6, BothAreDrainers
      <4>4. \A e \in Drainers : \A i \in DOMAIN Batch(e)' : Batch(e)'[i] = committed_sequence' + i
        BY <1>1, <1>4, <1>7 DEF QueueInv
      <4> QED BY <4>1, <4>2, <4>3, <4>4
    <3> DEFINE k == committed_sequence + InHand
    <3>4. k \in Nat /\ committed_sequence' + InHand' = k /\ Len(buffers[Active]) \in Nat
          /\ DOMAIN buffers[Active] = 1..Len(buffers[Active])
      BY <1>1, <1>5, TwoBuffers DEF HeldInv
    <3>5. \A i \in DOMAIN buffers[Active] : buffers[Active][i] = k + 0 + i
      BY <1>7, <3>2 DEF QueueInv
    <3>6. latest_sequence = k + 0 + Len(buffers[Active])
      BY <1>7, <3>2 DEF QueueInv
    <3> HIDE DEF k
    <3>7. \A i \in DOMAIN buffers'[Inactive'] : buffers'[Inactive'][i] = committed_sequence' + InHand' + i
      <4>1. \A i \in 1..Len(buffers[Active]) : buffers[Active][i] = k + i
        BY <3>4, <3>5
      <4>2. buffers'[Inactive'] = buffers[Active]
        BY <1>1, <1>3, <2>1
      <4> QED BY <4>1, <4>2, <3>4
    <3>8. DOMAIN buffers'[Active'] = {} /\ buffers'[Active'] = <<>>
      BY <3>2, <1>1, <1>3, <2>1
    <3>9. latest_sequence' = committed_sequence' + InHand' + Len(buffers'[Inactive']) + Len(buffers'[Active'])
      BY <3>2, <3>4, <3>6, <1>1, <1>3, <2>1
    <3>10. drain_at'["caller"].passes = 1 /\ Writing("caller")' => buffers'[Active'] = <<>> /\ buffers'[Inactive'] = <<>>
      <4>1. drain_at'["caller"].passes = drain_at["caller"].passes
        BY <1>2, TwoBuffers
      <4> QED BY <4>1, <1>1, <1>3, <2>1, <1>4, <1>7, <3>2, TwoBuffers DEF QueueInv
    <3> QED BY <3>3, <3>7, <3>8, <3>9, <3>10 DEF QueueInv
  <2>2. CASE drain_at[d].old_idx # Active
    <3>1. \A e \in Drainers \ {d} : ~ Taking(e)'
      BY <1>6, <1>7, BothAreDrainers
    <3>2. /\ Active' = Active /\ Inactive' = Inactive /\ buffers' = buffers
          /\ latest_sequence' = latest_sequence /\ committed_sequence' = committed_sequence
      BY <1>1, <1>3, <2>2
    <3>3. /\ \A e \in Drainers : Taking(e)' => drain_at'[e].old_idx = Inactive'
          /\ Taking("worker")' \/ Taking("caller")'
      BY <3>1, <3>2, <1>2, <1>3, <2>2, <1>6, BothAreDrainers
    <3>4. drain_at'["caller"].pc = "store" /\ drain_at'["caller"].old_idx # Active' => buffers'[Active'] = <<>>
      <4>1. d # "caller" => drain_at'["caller"] = drain_at["caller"]
        BY <1>2, TwoBuffers
      <4> QED BY <4>1, <3>2, <1>2, <1>7 DEF QueueInv
    <3>5. drain_at'["caller"].passes = 1 /\ Taking("caller")' => buffers'[Active'] = <<>>
      <4>1. Taking("caller")' => d = "caller"
        BY <3>1, TwoBuffers
      <4> QED BY <4>1, <3>2, <2>2, <1>1, <1>7 DEF QueueInv
    <3>6. drain_at'["caller"].passes = 1 /\ Writing("caller")' => buffers'[Active'] = <<>> /\ buffers'[Inactive'] = <<>>
      <4>1. drain_at'["caller"].passes = drain_at["caller"].passes
        BY <1>2, TwoBuffers
      <4> QED BY <4>1, <3>2, <1>4, <1>7, TwoBuffers DEF QueueInv
    <3>7. \A e \in Drainers : \A i \in DOMAIN Batch(e)' : Batch(e)'[i] = committed_sequence' + i
      BY <3>2, <1>4, <1>7 DEF QueueInv
    <3>8. /\ \A i \in DOMAIN buffers'[Inactive'] : buffers'[Inactive'][i] = committed_sequence' + InHand' + i
          /\ \A i \in DOMAIN buffers'[Active'] :
                buffers'[Active'][i] = committed_sequence' + InHand' + Len(buffers'[Inactive']) + i
          /\ latest_sequence' = committed_sequence' + InHand' + Len(buffers'[Inactive']) + Len(buffers'[Active'])
      BY <3>2, <1>5, <1>7 DEF QueueInv
    <3> QED BY <3>3, <3>4, <3>5, <3>6, <3>7, <3>8 DEF QueueInv
  <2> QED BY <2>1, <2>2
<1>8. HeaderFirst => HeaderFirst'
  <2>1. \A e \in Drainers : drain_at'[e].pc = "write" => drain_at[e].pc = "write" /\ drain_at'[e].done = drain_at[e].done
    BY <1>2
  <2> QED BY <2>1, <1>1, <1>4 DEF HeaderFirst, fileVars
<1>9. (Taking("worker") /\ Taking("caller")) => (Taking("worker") /\ Taking("caller"))'
  BY <1>6, BothAreDrainers
<1>10. Writing("worker")' = Writing("worker") /\ Writing("caller")' = Writing("caller")
  BY <1>4, TwoBuffers DEF Writing
<1>11. UNCHANGED <<halves, synced_len, committed_sequence, answered, disturbed, dropped>>
  BY <1>1 DEF fileVars
<1>12. /\ FenceWritten => FenceWritten'
       /\ FramesWhole => FramesWhole'
       /\ AllSynced => AllSynced'
       /\ AnsweredSynced => AnsweredSynced'
  BY <1>10, <1>11 DEF FenceWritten, FramesWhole, AllSynced, AnsweredSynced, Written, WrittenWithin
<1> QED BY <1>7, <1>8, <1>9, <1>10, <1>11, <1>12 DEF OrderInv

\* A drainer that takes a buffer undisturbed has the file for itself.
LEMMA TakeKeepsOrder ==
    ASSUME CallInv, HeldInv, OrderInv, NEW d \in Drainers, Take(d)
    PROVE  OrderInv'
<1> SUFFICES ASSUME ~ disturbed', dropped' = {} PROVE OrderInv'
  BY DEF OrderInv
<1> DEFINE b == drain_at[d].old_idx
<1>t. drain_at \in [Drainers -> DrainStates] /\ drain_at[d] \in DrainStates /\ latest_sequence \in Nat
      /\ committed_sequence \in Nat /\ "worker" \in Drainers /\ "caller" \in Drainers
  BY DEF CallInv, HeldInv, Drainers
<1>1. /\ UNCHANGED <<active_buf_idx, latest_sequence, committed_sequence, fileVars, dropped>>
      /\ drain_at[d].pc = "take" /\ ~ disturbed /\ dropped = {}
      /\ \A e \in Drainers \ {d} : ~ Taking(e) /\ ~ Writing(e)
      /\ buffers' = [buffers EXCEPT ![b] = <<>>]
  BY DEF Take, Overlapping, Taking, Writing
<1>2. /\ QueueInv /\ FenceWritten /\ FramesWhole /\ AllSynced /\ AnsweredSynced
      /\ Taking(d) /\ b = Inactive
  <2>1. Taking(d) /\ ~ (Taking("worker") /\ Taking("caller"))
    BY <1>1, BothAreDrainers DEF Taking
  <2> QED BY <2>1, <1>1 DEF OrderInv, QueueInv
<1>3. \A e \in Drainers : Batch(e) = <<>> /\ ~ Writing(e)
  BY <1>1 DEF CallInv, Batch, Writing
<1>4. InHand = 0 /\ synced_len = Len(halves)
  BY <1>2, <1>3, SqpollEmptySeq, <1>t DEF InHand, AllSynced
<1>5. /\ Active' = Active /\ Inactive' = Inactive
      /\ buffers'[Inactive] = <<>> /\ buffers'[Active] = buffers[Active]
  <2>1. Active \in 0..1 /\ Inactive \in 0..1 /\ Active # Inactive /\ buffers \in [0..1 -> Seq(Nat)]
    BY TwoBuffers DEF CallInv
  <2> QED BY <2>1, <1>1, <1>2 DEF Active, Inactive
<1> DEFINE m == Len(buffers[Inactive])  n == Len(buffers[Active])
<1>6. /\ m \in Nat /\ n \in Nat /\ latest_sequence = committed_sequence + m + n
      /\ DOMAIN buffers[Active] = 1..n /\ DOMAIN buffers[Inactive] = 1..m
      /\ \A i \in 1..m : buffers[Inactive][i] = committed_sequence + i
      /\ \A i \in 1..n : buffers[Active][i] = committed_sequence + m + i
  <2>1. /\ m \in Nat /\ n \in Nat
        /\ DOMAIN buffers[Active] = 1..n /\ DOMAIN buffers[Inactive] = 1..m
    BY TwoBuffers
  <2>2. /\ latest_sequence = committed_sequence + 0 + m + n
        /\ \A i \in 1..m : buffers[Inactive][i] = committed_sequence + 0 + i
        /\ \A i \in 1..n : buffers[Active][i] = committed_sequence + 0 + m + i
    BY <1>2, <1>4, <2>1 DEF QueueInv
  <2>3. committed_sequence \in Nat
    BY <1>t
  <2>4. committed_sequence + 0 = committed_sequence
    BY <2>3
  <2> HIDE DEF m, n
  <2> QED BY <2>1, <2>2, <2>4
<1>7. FenceWritten' /\ FramesWhole'
  BY <1>1, <1>2 DEF FenceWritten, FramesWhole, Written, WrittenWithin, fileVars
<1>8. CASE buffers[b] = <<>> /\ drain_at' = [drain_at EXCEPT ![d] = AfterPass(d)]
           /\ answered' = IF Answers(d) THEN latest_sequence ELSE answered
  <2>1. /\ AfterPass(d).batch = <<>>
        /\ AfterPass(d).pc \in {"swap", drain_at[d].end}
    BY <1>1, AfterPassState
  <2>2. drain_at[d].end \in {"idle", "loop", "done"}
    BY <1>t DEF DrainStates
  <2>3. \A e \in Drainers : Batch(e)' = <<>> /\ ~ Writing(e)' /\ ~ Taking(e)' /\ drain_at'[e].pc # "write"
    BY <2>1, <2>2, <1>1, <1>3, <1>8, <1>t DEF Batch, Writing, Taking
  <2>4. InHand' = 0
    BY <2>3, SqpollEmptySeq, <1>t DEF InHand
  <2>5. m = 0 /\ Len(buffers'[Inactive]) = 0
    BY <1>8, <1>2, <1>5, SqpollEmptySeq
  <2> HIDE DEF m
  <2>6. QueueInv'
    <3>1. /\ \A e \in Drainers : Taking(e)' => drain_at'[e].old_idx = Inactive'
          /\ buffers'[Inactive'] = <<>>
          /\ \A e \in Drainers : \A i \in DOMAIN Batch(e)' : Batch(e)'[i] = committed_sequence' + i
          /\ \A i \in DOMAIN buffers'[Inactive'] : buffers'[Inactive'][i] = committed_sequence' + InHand' + i
          /\ ~ Taking("caller")' /\ ~ Writing("caller")'
      BY <2>3, <1>5, <1>t, SqpollEmptySeq
    <3>4. drain_at'["caller"].pc = "store" /\ drain_at'["caller"].old_idx # Active' => buffers'[Active'] = <<>>
      <4>1. drain_at'["caller"].pc = "store" => drain_at'["caller"] = drain_at["caller"]
        BY <2>1, <2>2, <1>8, <1>t
      <4> QED BY <4>1, <1>2, <1>5 DEF QueueInv
    <3>2. \A i \in DOMAIN buffers'[Active'] :
             buffers'[Active'][i] = committed_sequence' + InHand' + Len(buffers'[Inactive']) + i
      <4>1. \A i \in 1..n : buffers[Active][i] = committed_sequence + 0 + 0 + i
        BY <1>6, <2>5, <1>t
      <4> QED BY <4>1, <1>1, <1>5, <1>6, <2>4, <2>5
    <3>3. latest_sequence' = committed_sequence' + InHand' + Len(buffers'[Inactive']) + Len(buffers'[Active'])
      <4>1. latest_sequence = committed_sequence + 0 + 0 + n
        BY <1>6, <2>5, <1>t
      <4> QED BY <4>1, <1>1, <1>5, <2>4, <2>5
    <3> QED BY <3>1, <3>2, <3>3, <3>4 DEF QueueInv
  <2>7. AllSynced' /\ HeaderFirst'
    BY <2>3, <1>1, <1>4 DEF AllSynced, HeaderFirst, fileVars
  <2>8. AnsweredSynced'
    <3>1. CASE Answers(d)
      <4>1. buffers[Active] = <<>>
        BY <3>1, <1>2 DEF Answers, QueueInv
      <4>2. n = 0
        BY <4>1, SqpollEmptySeq
      <4>3. latest_sequence = committed_sequence /\ answered' = latest_sequence
        BY <4>2, <2>5, <1>6, <1>t, <3>1, <1>8
      <4> QED BY <4>3, <1>1, <1>2, <1>4 DEF AnsweredSynced, FenceWritten, Written, WrittenWithin, fileVars
    <3>2. CASE ~ Answers(d)
      BY <3>2, <1>1, <1>2, <1>8 DEF AnsweredSynced, WrittenWithin, fileVars
    <3> QED BY <3>1, <3>2
  <2> QED BY <2>3, <2>6, <2>7, <2>8, <1>7, <1>t DEF OrderInv
<1>9. CASE /\ buffers[b] # <<>> /\ answered' = answered
           /\ drain_at' = [drain_at EXCEPT ![d] = [drain_at[d] EXCEPT !.pc = "write", !.batch = buffers[b]]]
  <2>1. /\ drain_at'[d].pc = "write" /\ Batch(d)' = buffers[Inactive] /\ drain_at'[d].done = drain_at[d].done
        /\ drain_at'[d].passes = drain_at[d].passes
        /\ \A e \in Drainers \ {d} : drain_at'[e] = drain_at[e]
    BY <1>9, <1>2, <1>t DEF Batch, DrainStates
  <2>2. drain_at'[d].done = 0
    BY <2>1, <1>1 DEF CallInv
  <2>3. /\ \A e \in Drainers \ {d} : Batch(e)' = <<>> /\ ~ Writing(e)' /\ ~ Taking(e)' /\ drain_at'[e].pc # "write"
        /\ Writing(d)' /\ ~ Taking(d)'
    BY <2>1, <1>1, <1>3 DEF Batch, Writing, Taking
  <2>4. InHand' = m
    <3>1. PICK e \in Drainers : e # d /\ {d, e} = {"worker", "caller"}
      BY BothAreDrainers
    <3>2. Len(Batch(d)') = m /\ Len(Batch(e)') = 0
      BY <2>1, <2>3, <3>1, SqpollEmptySeq
    <3>3. \/ InHand' = Len(Batch(d)') + Len(Batch(e)')
          \/ InHand' = Len(Batch(e)') + Len(Batch(d)')
      BY <3>1 DEF InHand
    <3> HIDE DEF m
    <3> QED BY <3>2, <3>3, <1>6
  <2>5. Len(buffers'[Inactive]) = 0 /\ DOMAIN buffers'[Inactive] = {}
    BY <1>5, SqpollEmptySeq
  <2> HIDE DEF m, n
  <2>6. QueueInv'
    <3>1. \A e \in Drainers : ~ Taking(e)'
      BY <2>3
    <3>2. \A e \in Drainers : \A i \in DOMAIN Batch(e)' : Batch(e)'[i] = committed_sequence' + i
      BY <2>1, <2>3, <1>1, <1>6, SqpollEmptySeq
    <3>3. \A i \in DOMAIN buffers'[Inactive'] : buffers'[Inactive'][i] = committed_sequence' + InHand' + i
      BY <2>5, <1>5
    <3>4. \A i \in DOMAIN buffers'[Active'] :
             buffers'[Active'][i] = committed_sequence' + InHand' + Len(buffers'[Inactive']) + i
      <4>1. \A i \in 1..n : buffers[Active][i] = committed_sequence + m + 0 + i
        BY <1>6, <1>t
      <4> QED BY <4>1, <1>1, <1>5, <1>6, <2>4, <2>5
    <3>5. latest_sequence' = committed_sequence' + InHand' + Len(buffers'[Inactive']) + Len(buffers'[Active'])
      <4>1. latest_sequence = committed_sequence + m + 0 + n
        BY <1>6, <1>t
      <4>2. Len(buffers'[Active']) = n
        BY <1>5 DEF n
      <4> QED BY <4>1, <4>2, <1>1, <1>5, <2>4, <2>5
    <3>6. drain_at'["caller"].passes = 1 /\ Writing("caller")' => buffers'[Active'] = <<>>
      BY <2>1, <2>3, <1>2, <1>5, <1>t DEF QueueInv
    <3>7. buffers'[Inactive'] = <<>>
      BY <1>5
    <3>8. drain_at'["caller"].pc = "store" /\ drain_at'["caller"].old_idx # Active' => buffers'[Active'] = <<>>
      BY <2>1, <1>2, <1>5, <1>t DEF QueueInv
    <3> QED BY <3>1, <3>2, <3>3, <3>4, <3>5, <3>6, <3>7, <3>8, <1>t DEF QueueInv
  <2>7. HeaderFirst'
    <3>1. \A e \in Drainers : drain_at'[e].pc = "write" => drain_at'[e].done % 2 = 0
      BY <2>2, <2>3
    <3> QED BY <3>1 DEF HeaderFirst
  <2>8. AllSynced' /\ AnsweredSynced' /\ ~ (Writing("worker") /\ Writing("caller"))'
    BY <2>3, <1>1, <1>2, <1>9, <1>t, BothAreDrainers DEF AllSynced, AnsweredSynced, WrittenWithin, fileVars
  <2> QED BY <2>6, <2>7, <2>8, <1>7 DEF OrderInv
<1> QED BY <1>8, <1>9 DEF Take, DrainGoesTo

\* The other drainer is neither writing nor syncing while this one is.
LEMMA WriterAlone ==
    ASSUME CallInv, OrderInv, ~ disturbed, dropped = {}, NEW d \in Drainers, Writing(d)
    PROVE  /\ \A e \in Drainers \ {d} : ~ Writing(e) /\ Batch(e) = <<>> /\ drain_at[e].pc # "write"
           /\ QueueInv /\ FenceWritten /\ FramesWhole /\ HeaderFirst /\ AnsweredSynced
           /\ InHand = Len(Batch(d)) /\ Len(Batch(d)) \in Nat /\ DOMAIN Batch(d) = 1..Len(Batch(d))
<1>1. PICK e \in Drainers : e # d /\ Drainers = {d, e} /\ {d, e} = {"worker", "caller"}
  BY BothAreDrainers
<1>2. ~ Writing(e) /\ ~ Taking(d)
  BY <1>1 DEF OrderInv, Writing, Taking
<1>3. Batch(e) = <<>> /\ drain_at[e].pc # "write"
  BY <1>2 DEF CallInv, Writing, Batch
<1>4. QueueInv /\ FenceWritten /\ FramesWhole /\ HeaderFirst /\ AnsweredSynced
  BY <1>1, <1>2 DEF OrderInv
<1>5. Len(Batch(d)) \in Nat /\ DOMAIN Batch(d) = 1..Len(Batch(d))
  BY BatchType DEF Batch
<1>6. InHand = Len(Batch(d))
  <2>1. InHand = Len(Batch(d)) + Len(Batch(e)) \/ InHand = Len(Batch(e)) + Len(Batch(d))
    BY <1>1 DEF InHand
  <2>2. Len(Batch(e)) = 0
    BY <1>3, SqpollEmptySeq
  <2> QED BY <2>1, <2>2, <1>5
<1> QED BY <1>1, <1>2, <1>3, <1>4, <1>5, <1>6

\* A half frame goes to the end of the file, the record behind its header.
LEMMA FlushKeepsOrder ==
    ASSUME CallInv, HeldInv, OrderInv, NEW d \in Drainers, flush_records(d)
    PROVE  OrderInv'
<1> SUFFICES ASSUME ~ disturbed', dropped' = {} PROVE OrderInv'
  BY DEF OrderInv
<1> DEFINE n == drain_at[d].done  i == n \div 2 + 1
           part == IF n % 2 = 0 THEN "header" ELSE "record"
           h == [sequence |-> Batch(d)[i], part |-> part]
<1>1. /\ UNCHANGED <<queueVars, synced_len, answered, dropped, disturbed>> /\ drain_at[d].pc = "write"
      /\ ~ disturbed /\ dropped = {} /\ halves' = Append(halves, h)
      /\ drain_at' = [drain_at EXCEPT ![d] = [drain_at[d] EXCEPT !.done = n + 1]]
  BY DEF flush_records, DrainGoesTo, Half, Batch
<1>2. /\ drain_at'[d].pc = "write" /\ drain_at'[d].done = n + 1 /\ Batch(d)' = Batch(d)
      /\ drain_at'[d].passes = drain_at[d].passes /\ n \in Nat
      /\ \A e \in Drainers \ {d} : drain_at'[e] = drain_at[e]
  <2>1. drain_at \in [Drainers -> DrainStates] /\ drain_at[d] \in DrainStates
    BY DEF CallInv
  <2> QED BY <1>1, <2>1 DEF Batch, DrainStates
<1>3. /\ \A e \in Drainers \ {d} : ~ Writing(e) /\ drain_at[e].pc # "write"
      /\ QueueInv /\ FenceWritten /\ FramesWhole /\ HeaderFirst /\ AnsweredSynced
  BY <1>1, WriterAlone DEF Writing
<1>4. /\ h \in HalfFrames /\ halves \in Seq(HalfFrames) /\ Len(halves) \in Nat /\ synced_len \in 0..Len(halves)
      /\ DOMAIN halves = 1..Len(halves)
  <2>1. drain_at[d].done < 2 * Len(drain_at[d].batch)
    BY DEF flush_records
  <2>2. Half(d) \in HalfFrames /\ Half(d) = h
    BY <2>1, <1>2, BatchType, HalfType DEF Half, Batch
  <2> QED BY <2>2, TwoBuffers
<1> HIDE DEF h
<1>5. /\ DOMAIN halves' = 1..Len(halves) + 1 /\ Len(halves') = Len(halves) + 1
      /\ halves'[Len(halves) + 1] = h /\ \A k \in 1..Len(halves) : halves'[k] = halves[k]
  BY <1>1, <1>4, AppendProperties, LenProperties
<1>6. \A e \in Drainers : /\ Batch(e)' = Batch(e) /\ Taking(e)' = Taking(e) /\ Writing(e)' = Writing(e)
                          /\ drain_at'[e].passes = drain_at[e].passes
                          /\ Taking(e) => drain_at'[e].old_idx = drain_at[e].old_idx
                          /\ drain_at'[e].pc = "store" => drain_at'[e] = drain_at[e]
  BY <1>1, <1>2 DEF Batch, Taking, Writing
<1>7. /\ Active' = Active /\ Inactive' = Inactive /\ InHand' = InHand
  BY <1>1, <1>6, TwoBuffers DEF Active, Inactive, InHand, queueVars
<1>8. QueueInv'
  BY <1>1, <1>3, <1>6, <1>7, TwoBuffers DEF QueueInv, queueVars
<1>9. FenceWritten' /\ AnsweredSynced'
  <2>1. \A k \in 1..Len(halves) : k \in 1..Len(halves')
    BY <1>4, <1>5
  <2>2. synced_len' = synced_len /\ \A k \in 1..synced_len : k \in 1..Len(halves)
    BY <1>1, <1>4
  <2>3. committed_sequence' = committed_sequence /\ answered' = answered
    BY <1>1 DEF queueVars
  <2>4. FenceWritten'
    BY <2>1, <2>3, <1>3, <1>5 DEF FenceWritten, Written, WrittenWithin
  <2>5. AnsweredSynced'
    BY <2>2, <2>3, <1>3, <1>5 DEF AnsweredSynced, WrittenWithin
  <2> QED BY <2>4, <2>5
<1>10. FramesWhole'
  <2> SUFFICES ASSUME NEW k \in 1..Len(halves) + 1, halves'[k].part = "record"
               PROVE k > 1 /\ halves'[k - 1] = [sequence |-> halves'[k].sequence, part |-> "header"]
    BY <1>5 DEF FramesWhole
  <2>1. CASE k \in 1..Len(halves)
    <3>1. halves'[k] = halves[k]
      BY <2>1, <1>5
    <3>2. k > 1 /\ halves[k - 1] = [sequence |-> halves[k].sequence, part |-> "header"]
      BY <2>1, <3>1, <1>3, <1>4 DEF FramesWhole
    <3>3. k - 1 \in 1..Len(halves)
      BY <2>1, <3>2, <1>4
    <3> QED BY <3>1, <3>2, <3>3, <1>5
  <2>2. CASE k = Len(halves) + 1
    <3>1. halves'[k] = h /\ part = "record" /\ n % 2 # 0
      BY <2>2, <1>5 DEF h
    <3>2. Len(halves) > 0 /\ halves[Len(halves)] = [sequence |-> Batch(d)[i], part |-> "header"]
      BY <3>1, <1>1, <1>3 DEF HeaderFirst
    <3>3. k - 1 = Len(halves) /\ k > 1 /\ Len(halves) \in 1..Len(halves)
      BY <2>2, <3>2, <1>4
    <3>4. halves'[k - 1] = halves[Len(halves)]
      BY <3>3, <1>5
    <3> QED BY <3>1, <3>2, <3>3, <3>4 DEF h
  <2> QED BY <2>1, <2>2, <1>4
<1>11. HeaderFirst'
  <2> SUFFICES ASSUME (n + 1) % 2 # 0
               PROVE /\ Len(halves') > 0
                     /\ halves'[Len(halves')] = [sequence |-> Batch(d)[(n + 1) \div 2 + 1], part |-> "header"]
    BY <1>2, <1>3 DEF HeaderFirst
  <2>1. n % 2 = 0 /\ (n + 1) \div 2 + 1 = i
    BY <1>2
  <2>2. h = [sequence |-> Batch(d)[i], part |-> "header"]
    BY <2>1 DEF h
  <2> HIDE DEF i
  <2> QED BY <2>1, <2>2, <1>4, <1>5
<1>12. Writing(d)' /\ \A e \in Drainers \ {d} : ~ Writing(e)'
  BY <1>1, <1>3, <1>6 DEF Writing
<1>13. AllSynced' /\ ~ (Writing("worker") /\ Writing("caller"))'
  BY <1>12, BothAreDrainers DEF AllSynced
<1> QED BY <1>8, <1>9, <1>10, <1>11, <1>13 DEF OrderInv

\* The fence moves to the last number of the batch, all of which is written.
LEMMA FenceKeepsOrder ==
    ASSUME CallInv, HeldInv, OrderInv, NEW d \in Drainers, CommitFence(d)
    PROVE  OrderInv'
<1> SUFFICES ASSUME ~ disturbed', dropped' = {} PROVE OrderInv'
  BY DEF OrderInv
<1> DEFINE c == committed_sequence  m == Len(Batch(d))
<1>1. /\ UNCHANGED <<active_buf_idx, buffers, latest_sequence, fileVars, answered, dropped, disturbed>>
      /\ drain_at[d].pc = "write" /\ drain_at[d].done = 2 * m
      /\ ~ disturbed /\ dropped = {}
      /\ committed_sequence' = Max({c} \union ToSet(Batch(d)))
      /\ drain_at' = [drain_at EXCEPT ![d] = [drain_at[d] EXCEPT !.pc = "sync", !.batch = <<>>]]
  BY DEF CommitFence, DrainGoesTo, Batch
<1>2. /\ drain_at'[d].pc = "sync" /\ Batch(d)' = <<>> /\ drain_at'[d].passes = drain_at[d].passes
      /\ \A e \in Drainers \ {d} : drain_at'[e] = drain_at[e]
      /\ Batch(d) \in Seq(Nat) /\ Batch(d) # <<>>
  <2>1. drain_at \in [Drainers -> DrainStates] /\ drain_at[d] \in DrainStates
    BY DEF CallInv
  <2>2. Batch(d) # <<>>
    BY <1>1 DEF CallInv, Batch
  <2> QED BY <1>1, <2>1, <2>2 DEF Batch, DrainStates
<1>3. /\ \A e \in Drainers \ {d} : ~ Writing(e) /\ Batch(e) = <<>> /\ drain_at[e].pc # "write"
      /\ QueueInv /\ FenceWritten /\ FramesWhole /\ AnsweredSynced
      /\ InHand = m /\ m \in Nat /\ DOMAIN Batch(d) = 1..m
  BY <1>1, WriterAlone DEF Writing
<1>4. c \in Nat /\ m > 0 /\ \A i \in 1..m : Batch(d)[i] = c + i
  <2>1. \A i \in 1..m : Batch(d)[i] = c + i
    BY <1>3 DEF QueueInv
  <2>2. m # 0
    BY <1>2, EmptySeq
  <2> QED BY <2>1, <2>2, <1>3 DEF HeldInv
<1> HIDE DEF m
<1>5. committed_sequence' = c + m
  <2>1. latest_sequence \in Nat /\ c \in 0..latest_sequence
    BY DEF CallInv, HeldInv
  <2>2. \A i \in DOMAIN Batch(d) : Batch(d)[i] <= latest_sequence
    BY <2>1 DEF HeldInv, BatchesApart
  <2>3. /\ committed_sequence' \in 0..latest_sequence
        /\ committed_sequence' = c \/ \E i \in 1..m : committed_sequence' = Batch(d)[i]
        /\ \A i \in 1..m : committed_sequence' >= Batch(d)[i]
    <3>1. Batch(d) \in Seq(Nat) /\ DOMAIN Batch(d) = 1..m
          /\ committed_sequence' = Max({c} \union ToSet(Batch(d)))
      BY <1>1, <1>2, <1>3
    <3> QED BY <2>1, <2>2, <3>1, FenceAfterBatch
  <2>4. m \in 1..m
    BY <1>3, <1>4
  <2>5. committed_sequence' >= c + m
    BY <2>3, <2>4, <1>4
  <2>6. committed_sequence' <= c + m
    BY <2>3, <1>3, <1>4
  <2> QED BY <2>1, <2>3, <2>5, <2>6, <1>3, <1>4
<1>6. \A e \in Drainers : Batch(e)' = <<>> /\ drain_at'[e].pc # "write"
  BY <1>2, <1>3 DEF Batch
<1>7. InHand' = 0
  BY <1>6, TwoBuffers, SqpollEmptySeq DEF InHand
<1>8. \A e \in Drainers : /\ Taking(e)' = Taking(e) /\ Writing(e)' = Writing(e)
                          /\ drain_at'[e].passes = drain_at[e].passes
                          /\ Taking(e) => drain_at'[e].old_idx = drain_at[e].old_idx
                          /\ drain_at'[e].pc = "store" => drain_at'[e] = drain_at[e]
  BY <1>1, <1>2 DEF Taking, Writing
<1>9. Active' = Active /\ Inactive' = Inactive /\ buffers' = buffers /\ latest_sequence' = latest_sequence
  BY <1>1 DEF Active, Inactive
<1>10. QueueInv'
  <2> DEFINE k == Len(buffers[Inactive])  l == Len(buffers[Active])
  <2>1. k \in Nat /\ l \in Nat /\ DOMAIN buffers[Inactive] = 1..k /\ DOMAIN buffers[Active] = 1..l
    BY TwoBuffers
  <2>2. /\ \A i \in 1..k : buffers[Inactive][i] = c + m + i
        /\ \A i \in 1..l : buffers[Active][i] = c + m + k + i
        /\ latest_sequence = c + m + k + l
    BY <2>1, <1>3 DEF QueueInv
  <2>3. committed_sequence' + InHand' = c + m
    BY <1>3, <1>4, <1>5, <1>7
  <2>4. \A i \in DOMAIN buffers'[Inactive'] : buffers'[Inactive'][i] = committed_sequence' + InHand' + i
    BY <2>1, <2>2, <2>3, <1>9
  <2>5. \A i \in DOMAIN buffers'[Active'] :
           buffers'[Active'][i] = committed_sequence' + InHand' + Len(buffers'[Inactive']) + i
    BY <2>1, <2>2, <2>3, <1>9
  <2>6. latest_sequence' = committed_sequence' + InHand' + Len(buffers'[Inactive']) + Len(buffers'[Active'])
    BY <2>1, <2>2, <2>3, <1>9
  <2>7. \A e \in Drainers : \A i \in DOMAIN Batch(e)' : Batch(e)'[i] = committed_sequence' + i
    BY <1>6, SqpollEmptySeq
  <2>8. /\ \A e \in Drainers : Taking(e)' => drain_at'[e].old_idx = Inactive'
        /\ ~ Taking("worker")' /\ ~ Taking("caller")' => buffers'[Inactive'] = <<>>
        /\ drain_at'["caller"].pc = "store" /\ drain_at'["caller"].old_idx # Active' => buffers'[Active'] = <<>>
        /\ drain_at'["caller"].passes = 1 /\ Taking("caller")' => buffers'[Active'] = <<>>
        /\ drain_at'["caller"].passes = 1 /\ Writing("caller")' => buffers'[Active'] = <<>> /\ buffers'[Inactive'] = <<>>
    BY <1>3, <1>8, <1>9, TwoBuffers DEF QueueInv
  <2> HIDE DEF k, l
  <2> QED BY <2>4, <2>5, <2>6, <2>7, <2>8 DEF QueueInv
<1>11. FenceWritten'
  <2> SUFFICES ASSUME NEW s \in 1..c + m PROVE Written(s)'
    BY <1>5 DEF FenceWritten
  <2>1. \A x : Written(x)' <=> Written(x)
    BY <1>1 DEF Written, WrittenWithin, fileVars
  <2>2. CASE s \in 1..c
    BY <2>1, <2>2, <1>3 DEF FenceWritten
  <2>3. CASE s > c
    <3>1. s - c \in 1..m /\ c + (s - c) = s
      BY <2>3, <1>3, <1>4
    <3>2. Batch(d)[s - c] = s
      BY <3>1, <1>4
    <3>3. 2 * (s - c) <= drain_at[d].done
      BY <3>1, <1>1, <1>3
    <3>4. InFile(s, "record")
      BY <3>1, <3>2, <3>3, <1>3 DEF HeldInv, BatchesApart
    <3>5. Written(s)
      BY <3>4, TwoBuffers DEF InFile, Written, WrittenWithin
    <3> QED BY <3>5, <2>1
  <2> QED BY <2>2, <2>3, <1>3, <1>4
<1>12. HeaderFirst' /\ FramesWhole' /\ AnsweredSynced'
  BY <1>1, <1>3, <1>6 DEF HeaderFirst, FramesWhole, AnsweredSynced, WrittenWithin, fileVars
<1>13. Writing(d)' /\ \A e \in Drainers \ {d} : ~ Writing(e)'
  BY <1>1, <1>3, <1>8 DEF Writing
<1>14. AllSynced' /\ ~ (Writing("worker") /\ Writing("caller"))'
  BY <1>13, BothAreDrainers DEF AllSynced
<1> QED BY <1>10, <1>11, <1>12, <1>14 DEF OrderInv

\* What was written is synced; flush_sync answers when nothing is left.
LEMMA SyncKeepsOrder ==
    ASSUME CallInv, HeldInv, OrderInv, NEW d \in Drainers, sync_data(d)
    PROVE  OrderInv'
<1> SUFFICES ASSUME ~ disturbed', dropped' = {} PROVE OrderInv'
  BY DEF OrderInv
<1>1. /\ UNCHANGED <<queueVars, halves, dropped, disturbed>>
      /\ drain_at[d].pc = "sync" /\ synced_len' = Len(halves) /\ ~ disturbed /\ dropped = {}
      /\ answered' = IF Answers(d) THEN latest_sequence ELSE answered
      /\ drain_at' = [drain_at EXCEPT ![d] = AfterPass(d)]
  BY DEF sync_data, DrainGoesTo
<1>2. /\ \A e \in Drainers \ {d} : ~ Writing(e) /\ Batch(e) = <<>> /\ drain_at[e].pc # "write"
      /\ QueueInv /\ FenceWritten /\ FramesWhole /\ AnsweredSynced
      /\ Batch(d) = <<>> /\ InHand = Len(Batch(d)) /\ Writing(d)
  <2>1. Batch(d) = <<>> /\ Writing(d)
    BY <1>1 DEF CallInv, Batch, Writing
  <2> QED BY <1>1, <2>1, WriterAlone
<1>3. InHand = 0
  BY <1>2, SqpollEmptySeq
<1>4. /\ Batch(d)' = <<>> /\ ~ Taking(d)' /\ ~ Writing(d)' /\ drain_at'[d].pc # "write"
      /\ \A e \in Drainers \ {d} : drain_at'[e] = drain_at[e]
      /\ drain_at'[d].pc # "store"
  <2>1. drain_at \in [Drainers -> DrainStates] /\ drain_at[d].end \in {"idle", "loop", "done"}
    BY DEF CallInv, DrainStates
  <2>2. AfterPass(d).batch = <<>> /\ AfterPass(d).pc \in {"swap", drain_at[d].end}
    BY <1>1, AfterPassState
  <2> QED BY <1>1, <2>1, <2>2 DEF Batch, Taking, Writing
<1>5. /\ \A e \in Drainers : Batch(e)' = <<>> /\ Batch(e) = <<>> /\ ~ Writing(e)' /\ drain_at'[e].pc # "write"
      /\ \A e \in Drainers : Taking(e)' => Taking(e) /\ drain_at'[e] = drain_at[e]
      /\ \A e \in Drainers : drain_at'[e].pc = "store" => drain_at'[e] = drain_at[e]
      /\ ~ Taking(d)
  BY <1>1, <1>2, <1>4 DEF Batch, Taking, Writing
<1>6. InHand' = 0
  BY <1>5, TwoBuffers, SqpollEmptySeq DEF InHand
<1>7. /\ Active' = Active /\ Inactive' = Inactive /\ buffers' = buffers /\ latest_sequence' = latest_sequence
      /\ committed_sequence' = committed_sequence
  BY <1>1 DEF Active, Inactive, queueVars
<1>8. QueueInv'
  <2>1. ~ Taking("worker")' /\ ~ Taking("caller")' => ~ Taking("worker") /\ ~ Taking("caller")
    BY <1>4, <1>5, TwoBuffers DEF Taking
  <2>2. /\ \A e \in Drainers : Taking(e)' => drain_at'[e].old_idx = Inactive'
        /\ ~ Taking("worker")' /\ ~ Taking("caller")' => buffers'[Inactive'] = <<>>
        /\ \A e \in Drainers : \A i \in DOMAIN Batch(e)' : Batch(e)'[i] = committed_sequence' + i
        /\ drain_at'["caller"].pc = "store" /\ drain_at'["caller"].old_idx # Active' => buffers'[Active'] = <<>>
        /\ drain_at'["caller"].passes = 1 /\ Taking("caller")' => buffers'[Active'] = <<>>
        /\ ~ Writing("caller")'
    BY <2>1, <1>2, <1>5, <1>7, TwoBuffers, SqpollEmptySeq DEF QueueInv
  <2>3. /\ \A i \in DOMAIN buffers'[Inactive'] : buffers'[Inactive'][i] = committed_sequence' + InHand' + i
        /\ \A i \in DOMAIN buffers'[Active'] :
              buffers'[Active'][i] = committed_sequence' + InHand' + Len(buffers'[Inactive']) + i
        /\ latest_sequence' = committed_sequence' + InHand' + Len(buffers'[Inactive']) + Len(buffers'[Active'])
    BY <1>2, <1>3, <1>6, <1>7 DEF QueueInv
  <2> QED BY <2>2, <2>3 DEF QueueInv
<1>9. FenceWritten' /\ FramesWhole' /\ HeaderFirst' /\ AllSynced'
  BY <1>1, <1>2, <1>5, <1>7 DEF FenceWritten, FramesWhole, HeaderFirst, AllSynced, Written, WrittenWithin
<1>10. AnsweredSynced'
  <2>1. CASE Answers(d)
    <3>1. buffers[Active] = <<>> /\ buffers[Inactive] = <<>>
      BY <2>1, <1>2 DEF Answers, QueueInv
    <3>2. latest_sequence = committed_sequence + 0 + 0 + 0 /\ committed_sequence \in Nat
      BY <3>1, <1>2, <1>3, SqpollEmptySeq DEF QueueInv, HeldInv, CallInv
    <3>3. answered' = committed_sequence
      BY <2>1, <3>2, <1>1
    <3> QED BY <3>3, <1>1, <1>2 DEF AnsweredSynced, FenceWritten, Written, WrittenWithin
  <2>2. CASE ~ Answers(d)
    <3>1. answered' = answered /\ \A k \in 1..synced_len : k \in 1..synced_len'
      BY <2>2, <1>1, TwoBuffers
    <3> QED BY <3>1, <1>1, <1>2 DEF AnsweredSynced, WrittenWithin
  <2> QED BY <2>1, <2>2
<1> QED BY <1>5, <1>8, <1>9, <1>10, TwoBuffers DEF OrderInv

\* A failed write gives its batch up, and a failed sync is a disturbance: then
\* the order is not promised any more.
LEMMA FailureKeepsOrder ==
    ASSUME CallInv, OrderInv, NEW d \in Drainers, WriteFails(d) \/ SyncDataFails(d)
    PROVE  OrderInv'
<1>1. CASE WriteFails(d)
  <2>1. Batch(d) \in Seq(Nat) /\ Batch(d) # <<>>
    BY <1>1, BatchType DEF WriteFails, CallInv, Batch
  <2>2. 1 \in DOMAIN Batch(d)
    BY <2>1, LenProperties, EmptySeq
  <2>3. Batch(d)[1] \in ToSet(Batch(d))
    BY <2>2 DEF ToSet
  <2>4. dropped' # {}
    BY <2>3, <1>1 DEF WriteFails, Batch
  <2> QED BY <2>4 DEF OrderInv
<1>2. CASE SyncDataFails(d)
  <2>1. disturbed'
    BY <1>2 DEF SyncDataFails
  <2> QED BY <2>1 DEF OrderInv
<1> QED BY <1>1, <1>2

\* Every step that disturbs nothing keeps the records in the order of their
\* numbers, from the buffers to the file.
LEMMA OrderStep == ASSUME CallInv, HeldInv, OrderInv, [SqpollNext]_sqpollVars PROVE OrderInv'
<1>1. CASE \E p \in Pushers : push(p) \/ PushLock(p) \/ PushAppend(p)
  <2> PICK p \in Pushers : push(p) \/ PushLock(p) \/ PushAppend(p)
    BY <1>1
  <2>1. CASE push(p)
    BY <2>1, OrderUnchanged DEF push
  <2>2. CASE PushLock(p)
    <3>1. /\ UNCHANGED <<active_buf_idx, buffers, latest_sequence, committed_sequence, fileVars>>
          /\ UNCHANGED <<drain_at, answered, disturbed, dropped>>
      BY <2>2 DEF PushLock
    <3> QED BY <3>1
        DEF OrderInv, QueueInv, FenceWritten, FramesWhole, HeaderFirst, AllSynced, AnsweredSynced,
            Writing, Taking, Active, Inactive, InHand, Batch, Written, WrittenWithin, fileVars
  <2> QED BY <2>1, <2>2, PushKeepsOrder
<1>2. CASE WorkerLoop \/ flush_sync
  BY <1>2, StartKeepsOrder
<1>3. CASE drop
  BY <1>3, OrderUnchanged DEF drop
<1>4. CASE \E d \in Drainers : DrainStep(d)
  BY <1>4, LoadKeepsOrder, StoreKeepsOrder, TakeKeepsOrder, FlushKeepsOrder, FenceKeepsOrder, SyncKeepsOrder,
     FailureKeepsOrder DEF DrainStep
<1>5. CASE UNCHANGED sqpollVars
  BY <1>5, OrderUnchanged DEF sqpollVars
<1> QED BY <1>1, <1>2, <1>3, <1>4, <1>5 DEF SqpollNext

\* A new journal is in order.
LEMMA OrderInit == ASSUME SqpollInit PROVE ClosedInv /\ OrderInv
<1>1. /\ buffers = [b \in 0..1 |-> <<>>] /\ halves = <<>> /\ latest_sequence = 0 /\ active_buf_idx = 0
      /\ committed_sequence = 0 /\ answered = 0 /\ synced_len = 0
      /\ drain_at = [worker |-> Drainer("loop", 0, "loop"), caller |-> Drainer("idle", 0, "idle")]
  BY DEF SqpollInit
<1>2. /\ drain_at["worker"].end = "loop" /\ drain_at["worker"].pc = "loop" /\ drain_at["caller"].pc = "idle"
      /\ Batch("worker") = <<>> /\ Batch("caller") = <<>>
      /\ \A d \in Drainers : ~ Taking(d) /\ ~ Writing(d) /\ Batch(d) = <<>> /\ drain_at[d].pc # "write"
  BY <1>1 DEF Batch, Drainers, Drainer, Taking, Writing
<1>3. /\ InHand = 0 /\ Inactive = 1 /\ Active = 0 /\ buffers[0] = <<>> /\ buffers[1] = <<>>
      /\ "worker" \in Drainers /\ "caller" \in Drainers
  BY <1>1, <1>2, SqpollEmptySeq DEF InHand, Inactive, Active, Drainers
<1>4. QueueInv
  <2>1. /\ \A d \in Drainers : Taking(d) => drain_at[d].old_idx = Inactive
        /\ ~ Taking("worker") /\ ~ Taking("caller") => buffers[Inactive] = <<>>
        /\ \A d \in Drainers : \A i \in DOMAIN Batch(d) : Batch(d)[i] = committed_sequence + i
        /\ \A i \in DOMAIN buffers[Inactive] : buffers[Inactive][i] = committed_sequence + InHand + i
        /\ \A i \in DOMAIN buffers[Active] :
               buffers[Active][i] = committed_sequence + InHand + Len(buffers[Inactive]) + i
    BY <1>2, <1>3, SqpollEmptySeq
  <2>2. latest_sequence = committed_sequence + InHand + Len(buffers[Inactive]) + Len(buffers[Active])
    BY <1>1, <1>3, SqpollEmptySeq
  <2> QED BY <2>1, <2>2, <1>3, <1>2 DEF QueueInv
<1>5. /\ FenceWritten /\ AnsweredSynced
  BY <1>1 DEF FenceWritten, AnsweredSynced
<1>6. FramesWhole /\ AllSynced
  BY <1>1, SqpollEmptySeq DEF FramesWhole, AllSynced
<1>7. HeaderFirst
  BY <1>2 DEF HeaderFirst
<1>8. ~ (Writing("worker") /\ Writing("caller")) /\ ClosedInv
  BY <1>2, <1>3 DEF ClosedInv
<1> QED BY <1>4, <1>5, <1>6, <1>7, <1>8 DEF OrderInv

\* However pushes and the two drainers interleave and fail, the strengthened
\* invariant of the asynchronous journal holds.
THEOREM SqpollInvariant == SqpollSpec => []SqInv
<1>1. SqpollInit => SqInv
  BY CallInit, HeldInit, OrderInit DEF SqInv
<1>2. SqInv /\ [SqpollNext]_sqpollVars => SqInv'
  BY CallStep, HeldStep, ClosedStep, OrderStep DEF SqInv
<1> QED BY <1>1, <1>2, PTL DEF SqpollSpec

\* A set without two different elements has at most one.
LEMMA AtMostOne ==
    ASSUME NEW S, \A x, y \in S : x = y
    PROVE  Cardinality(S) \in 0..1 /\ (Cardinality(S) = 0 => S = {})
<1>1. CASE S = {}
  BY <1>1, FS_EmptySet
<1>2. CASE S # {}
  <2>1. PICK x \in S : TRUE
    BY <1>2
  <2>2. S = {x}
    BY <2>1
  <2>3. Cardinality({x}) = 1
    BY FS_Singleton
  <2> QED BY <2>2, <2>3
<1> QED BY <1>1, <1>2

\* A record written is in the file.
LEMMA FileIsWritten == ASSUME CallInv, NEW s PROVE InFile(s, "record") <=> Written(s)
<1> DOMAIN halves = 1..Len(halves)
  BY LenProperties DEF CallInv
<1> QED BY DEF InFile, Written, WrittenWithin

\* Each record in one place means: counted once in memory, and in the file
\* once.
LEMMA HeldOnce == ASSUME CallInv, HeldInv PROVE RecordsHeldOnce
<1> SUFFICES ASSUME NEW s \in 1..latest_sequence
             PROVE /\ InMemory(s) <= 1 /\ Copies(s, "header") <= 1 /\ Copies(s, "record") <= 1
                   /\ InMemory(s) = 0 => Written(s) \/ s \in dropped
  BY DEF RecordsHeldOnce
<1> DEFINE A == {c \in (0..1) \X (1..MaxSequence) : c[2] <= Len(buffers[c[1]]) /\ buffers[c[1]][c[2]] = s}
           D == {d \in Drainers : s \in ToSet(drain_at[d].batch)}
<1>0. /\ \A b \in 0..1 : buffers[b] \in Seq(Nat) /\ Len(buffers[b]) \in Nat
                         /\ DOMAIN buffers[b] = 1..Len(buffers[b])
      /\ latest_sequence \in Nat /\ MaxSequence \in Nat
      /\ \A d \in Drainers : DOMAIN Batch(d) = 1..Len(Batch(d)) /\ Len(Batch(d)) \in Nat
      /\ Cardinality(Busy) \in Nat
  <2>1. IsFiniteSet(Busy)
    BY SqpollAssumption, FS_Subset DEF Busy
  <2>2. Cardinality(Busy) \in Nat
    BY <2>1, FS_CardinalityType
  <2>3. MaxSequence \in Nat
    BY SqpollAssumption
  <2>4. \A d \in Drainers : DOMAIN Batch(d) = 1..Len(Batch(d)) /\ Len(Batch(d)) \in Nat
    BY BatchType, LenProperties DEF Batch
  <2> QED BY <2>2, <2>3, <2>4, TwoBuffers DEF CallInv
<1>1. \A b \in 0..1 : \A i \in DOMAIN buffers[b] : i \in 1..MaxSequence
  <2>1. Len(buffers[0]) + Len(buffers[1]) <= latest_sequence /\ latest_sequence + Cardinality(Busy) <= MaxSequence
    BY DEF CallInv
  <2> DEFINE m == Len(buffers[0])  n == Len(buffers[1])  q == Cardinality(Busy)
  <2>5. 0 \in 0..1 /\ 1 \in 0..1
    OBVIOUS
  <2>6. m \in Nat /\ n \in Nat
    BY <2>5, <1>0, Zenon
  <2>2. m \in Nat /\ n \in Nat /\ q \in Nat /\ m + n <= latest_sequence /\ latest_sequence + q <= MaxSequence
    BY <2>1, <2>6, <1>0, Zenon
  <2> HIDE DEF m, n, q
  <2>3. m <= MaxSequence /\ n <= MaxSequence
    BY <2>2, <1>0
  <2>4. \A b \in 0..1 : Len(buffers[b]) <= MaxSequence
    BY <2>3 DEF m, n
  <2> QED BY <2>4, <1>0
<1>2. \A c \in A : c[1] \in 0..1 /\ c[2] \in DOMAIN buffers[c[1]] /\ buffers[c[1]][c[2]] = s /\ c = <<c[1], c[2]>>
  BY <1>0
<1>3. \A x, y \in A : x = y
  BY <1>2 DEF HeldInv, BuffersApart
<1>4. \A d \in D : d \in Drainers /\ \E i \in DOMAIN Batch(d) : Batch(d)[i] = s
  BY DEF ToSet, Batch
<1>5. \A x, y \in D : x = y
  BY <1>4 DEF HeldInv, BatchesApart
<1>6. Cardinality(A) \in 0..1 /\ (Cardinality(A) = 0 => A = {})
  <2> HIDE DEF A
  <2> QED BY <1>3, AtMostOne
<1>7. Cardinality(D) \in 0..1 /\ (Cardinality(D) = 0 => D = {})
  <2> HIDE DEF D
  <2> QED BY <1>5, AtMostOne
<1>8. A = {} \/ D = {}
  <2> SUFFICES ASSUME NEW c \in A, NEW d \in D PROVE FALSE
    OBVIOUS
  <2>1. InBatch(s)
    BY <1>4 DEF InBatch
  <2> QED BY <2>1, <1>2 DEF HeldInv, BuffersApart
<1>9. Cardinality(A) = 0 \/ Cardinality(D) = 0
  BY <1>8, FS_EmptySet
<1>10. InMemory(s) = Cardinality(A) + Cardinality(D)
  BY DEF InMemory
<1>11. InMemory(s) <= 1 /\ (InMemory(s) = 0 => A = {} /\ D = {})
  <2> HIDE DEF A, D
  <2> QED BY <1>6, <1>7, <1>9, <1>10
<1>12. \A half : Copies(s, half) <= 1
  <2> SUFFICES ASSUME NEW half PROVE Copies(s, half) <= 1
    OBVIOUS
  <2> DEFINE K == {k \in DOMAIN halves : halves[k] = [sequence |-> s, part |-> half]}
  <2>1. \A k, l \in K : k = l
    BY DEF HeldInv, HalvesOnce
  <2>2. Copies(s, half) = Cardinality(K)
    BY DEF Copies
  <2> HIDE DEF K
  <2>3. Cardinality(K) \in 0..1
    BY <2>1, AtMostOne
  <2> QED BY <2>2, <2>3
<1>13. ASSUME A = {}, D = {} PROVE Written(s) \/ s \in dropped
  <2>1. ~ InBuffer(s)
    <3> SUFFICES ASSUME NEW b \in 0..1, NEW i \in DOMAIN buffers[b], buffers[b][i] = s PROVE FALSE
      BY DEF InBuffer
    <3>1. <<b, i>> \in A
      BY <1>0, <1>1
    <3> QED BY <3>1, <1>13
  <2>2. ~ InBatch(s)
    <3> SUFFICES ASSUME NEW d \in Drainers, NEW i \in DOMAIN Batch(d), Batch(d)[i] = s PROVE FALSE
      BY DEF InBatch
    <3>1. d \in D
      BY DEF ToSet, Batch
    <3> QED BY <3>1, <1>13
  <2>3. NothingLost
    BY DEF HeldInv
  <2> QED BY <2>1, <2>2, <2>3, FileIsWritten DEF NothingLost
<1> HIDE DEF A, D
<1> QED BY <1>11, <1>12, <1>13

\* After the two last passes both buffers are empty, so what was pushed is in
\* the file or given up (sqpoll_journal.rs:217-229).
LEMMA ClosedWritten == ASSUME CallInv, HeldInv, ClosedInv PROVE ClosedIsWritten
<1> SUFFICES ASSUME drain_at["worker"].pc = "done", NEW s \in 1..latest_sequence
             PROVE Written(s) \/ s \in dropped
  BY DEF ClosedIsWritten
<1>1. drain_at["worker"].end = "done" /\ CallerIdle
  BY DEF CallInv
<1>2. buffers[Active] = <<>> /\ buffers[Inactive] = <<>>
  BY <1>1 DEF ClosedInv
<1>3. ~ InBuffer(s)
  <2>1. \A b \in 0..1 : DOMAIN buffers[b] = {}
    BY <1>2, TwoBuffers, SqpollEmptySeq
  <2> QED BY <2>1 DEF InBuffer
<1>4. ~ InBatch(s)
  <2>1. \A d \in Drainers : drain_at[d].pc # "write"
    BY <1>1 DEF CallerIdle, Drainers
  <2>2. \A d \in Drainers : Batch(d) = <<>>
    BY <2>1 DEF CallInv, Batch
  <2> QED BY <2>2, SqpollEmptySeq DEF InBatch
<1> QED BY <1>3, <1>4, FileIsWritten DEF HeldInv, NothingLost

\* In order, the fence covers only what is in the file and flush_sync answers
\* for what is synced (sqpoll_journal.rs:95-103, 254-269).
LEMMA OrderIsExact == ASSUME CallInv, HeldInv, OrderInv PROVE FenceExact
<1> SUFFICES ASSUME ~ disturbed, dropped = {} PROVE FenceExact
  BY DEF FenceExact
<1>1. FenceWritten /\ FramesWhole /\ AnsweredSynced
  BY DEF OrderInv
<1>2. committed_sequence \in Nat /\ MaxSequence \in Nat
  BY SqpollAssumption DEF CallInv, HeldInv
<1>3. \A s \in 1..MaxSequence : is_durable(s) => Written(s)
  BY <1>1, <1>2 DEF is_durable, FenceWritten
<1> QED BY <1>1, <1>3 DEF FenceExact, FramesWhole, AnsweredSynced

\* However pushes, the flusher and flush_sync of the asynchronous journal
\* interleave, and whatever write or sync fails: no record is lost or written
\* twice, closing leaves none behind, and undisturbed the fence is exact.
THEOREM NoRecordLost == SqpollSpec => []SqpollSound
<1>1. SqInv => SqpollSound
  <2> SUFFICES ASSUME SqInv PROVE SqpollSound
    OBVIOUS
  <2>1. SqpollTypeOK
    <3>1. IsFiniteSet(Busy)
      BY SqpollAssumption, FS_Subset DEF Busy
    <3>2. Cardinality(Busy) \in Nat /\ MaxSequence \in Nat
      BY <3>1, FS_CardinalityType, SqpollAssumption
    <3>3. latest_sequence \in 0..MaxSequence
      BY <3>2 DEF SqInv, CallInv
    <3> QED BY <3>3 DEF SqInv, CallInv, HeldInv, SqpollTypeOK
  <2> QED BY <2>1, HeldOnce, ClosedWritten, OrderIsExact DEF SqInv, SqpollSound
<1> QED BY <1>1, SqpollInvariant, PTL
===============================================================================
