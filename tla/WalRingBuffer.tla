----------------------------- MODULE WalRingBuffer ----------------------------
(*****************************************************************************)
(* WalRingBuffer (crates/eidolon-world/src/wal.rs): a fixed array of         *)
(* RING_CAP slots with head and tail cursors and a length, behind a mutex.   *)
(* The simulation thread pushes while the flusher peeks a batch, writes it   *)
(* out without the mutex, and only then advances the head: the two calls     *)
(* are separate critical sections and pushes happen in between.              *)
(*****************************************************************************)
EXTENDS Naturals, Sequences

CONSTANTS
    Records,      \* record contents, as far as the buffer tells them apart
    RING_CAP,     \* slots
    RING_BATCH,   \* length of the caller's scratch buffer (drain_scratch)
    NoRecord      \* default content of a slot never written

ASSUME CapAssumption == RING_CAP \in Nat \ {0}
ASSUME BatchAssumption == RING_BATCH \in Nat \ {0}

VARIABLES
    slots,        \* 0..RING_CAP-1 -> record
    head, tail,   \* cursors
    len,          \* queued records
    scratch       \* what the flusher copied out and has not acknowledged yet

ringVars == <<slots, head, tail, len, scratch>>

Slot == 0..(RING_CAP - 1)

RingTypeOK ==
    /\ slots \in [Slot -> Records \union {NoRecord}]
    /\ head \in Slot
    /\ tail \in Slot
    /\ len \in 0..RING_CAP
    /\ scratch \in Seq(Records)

RingInit ==
    /\ slots = [i \in Slot |-> NoRecord]
    /\ head = 0
    /\ tail = 0
    /\ len = 0
    /\ scratch = <<>>

BatchSize == IF RING_BATCH < len THEN RING_BATCH ELSE len

\* Mutated form: a saturated buffer gives up its oldest record.
try_push_overwrite(r) ==
    /\ slots' = [slots EXCEPT ![tail] = r]
    /\ tail' = (tail + 1) % RING_CAP
    /\ IF len < RING_CAP
         THEN len' = len + 1 /\ UNCHANGED head
         ELSE head' = (head + 1) % RING_CAP /\ UNCHANGED len
    /\ UNCHANGED scratch

\* A saturated buffer refuses the record (WalBufferFull) and is unchanged.
try_push(r) ==
    /\ len < RING_CAP
    /\ slots' = [slots EXCEPT ![tail] = r]
    /\ tail' = (tail + 1) % RING_CAP
    /\ len' = len + 1
    /\ UNCHANGED <<head, scratch>>

peek_batch ==
    /\ scratch = <<>>
    /\ BatchSize > 0
    /\ scratch' = [i \in 1..BatchSize |-> slots[(head + i - 1) % RING_CAP]]
    /\ UNCHANGED <<slots, head, tail, len>>

\* The sink took the batch: acknowledge as many records as were peeked.
advance_head ==
    LET actual == IF Len(scratch) < len THEN Len(scratch) ELSE len IN
    /\ scratch # <<>>
    /\ head' = (head + actual) % RING_CAP
    /\ len' = len - actual
    /\ scratch' = <<>>
    /\ UNCHANGED <<slots, tail>>

\* The sink failed: the batch is forgotten, the records stay queued.
DropScratch ==
    /\ scratch # <<>>
    /\ scratch' = <<>>
    /\ UNCHANGED <<slots, head, tail, len>>

\* Copy out and remove in one critical section.
drain_batch ==
    /\ scratch = <<>>
    /\ BatchSize > 0
    /\ head' = (head + BatchSize) % RING_CAP
    /\ len' = len - BatchSize
    /\ UNCHANGED <<slots, tail, scratch>>

RingNext ==
    \/ \E r \in Records : try_push(r)
    \/ peek_batch
    \/ advance_head
    \/ DropScratch
    \/ drain_batch

RingSpec == RingInit /\ [][RingNext]_ringVars

-------------------------------------------------------------------------------
\* The queue the slots stand for.
Contents == [i \in 1..len |-> slots[(head + i - 1) % RING_CAP]]

Fifo == INSTANCE AbstractQueue
            WITH Elements <- Records, Capacity <- RING_CAP, queue <- Contents

\* The ring of wal.rs:267-332 implements a bounded FIFO queue: nothing is
\* overwritten, lost, duplicated or reordered across the wrap-around.
ImplementsFifo == Fifo!FifoSpec

\* What the flusher is writing out is still at the head of the queue, so
\* acknowledging it later removes exactly those records (wal.rs:478-487).
ScratchIsPrefix ==
    /\ Len(scratch) <= len
    /\ \A i \in 1..Len(scratch) : scratch[i] = Contents[i]

\* The ring is a bounded FIFO queue with sound cursors, and the batch being
\* written out is its prefix until it is acknowledged (wal.rs:240-340).
RingIsFifo == [](RingTypeOK /\ ScratchIsPrefix) /\ ImplementsFifo
===============================================================================
