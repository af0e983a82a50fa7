---------------------------- MODULE PacketQueues -----------------------------
(*****************************************************************************)
(* The bounded queues between the network and the tick: the circular packet  *)
(* buffers (queue.rs of eidolon-server and of eidolon-net) and the queues    *)
(* that shed by class (eidolon-net/src/backpressure.rs), which both          *)
(* implement AbstractQueue's ShedSpec; and the UDP worker that moves         *)
(* datagrams between the sockets and such queues (io.rs).  They share no     *)
(* state.                                                                    *)
(*****************************************************************************)
EXTENDS Integers, Sequences, FiniteSets, SequencesExt

(* ---------------------------- packet buffers ----------------------------- *)
(* SpscPacketQueue of eidolon-server's queue.rs, whose operations run under a *)
(* mutex, and PacketRingBuffer of eidolon-net's queue.rs, which also          *)
(* overwrites and clears.  A batch is pushed packet by packet while the lock  *)
(* is held.                                                                   *)

CONSTANTS
    Packets,
    QUEUE_CAP,            \* slots
    MaxBatch        \* bound: packets of one batch call

NoPacket == "none"

ASSUME QueueAssumption ==
    QUEUE_CAP \in Nat \ {0} /\ MaxBatch \in Nat /\ NoPacket \notin Packets

VARIABLES
    slots,          \* [0..CAP - 1 -> packet or None]
    head, tail, len,
    batch           \* what the batch push that holds the lock has left

queueVars == <<slots, head, tail, len, batch>>

Unlocked == batch = <<>>
Next1(i) == (i + 1) % QUEUE_CAP

(* One packet goes to the tail. *)
Stored(p) == slots' = [slots EXCEPT ![tail] = p] /\ tail' = Next1(tail) /\ len' = len + 1

QueueInit ==
    /\ slots = [i \in 0..QUEUE_CAP - 1 |-> NoPacket]
    /\ head = 0 /\ tail = 0 /\ len = 0
    /\ batch = <<>>

(* try_push and PacketRingBuffer::push; a full buffer refuses. *)
try_push(p) ==
    /\ Unlocked /\ len < QUEUE_CAP
    /\ Stored(p)
    /\ UNCHANGED <<head, batch>>

(* try_push_batch takes the lock ... *)
try_push_batch ==
    /\ Unlocked
    /\ \E n \in 1..MaxBatch : batch' \in [1..n -> Packets]
    /\ UNCHANGED <<slots, head, tail, len>>

(* ... and pushes until the batch or the room is used up. *)
PushNext ==
    /\ batch # <<>>
    /\ IF len >= QUEUE_CAP
       THEN batch' = <<>> /\ UNCHANGED <<slots, tail, len>>
       ELSE Stored(Head(batch)) /\ batch' = Tail(batch)
    /\ UNCHANGED head

(* try_pop and pop for n = 1; try_pop_batch and drain_into for more. *)
try_pop(n) ==
    /\ Unlocked /\ n <= len
    /\ slots' = [i \in 0..QUEUE_CAP - 1 |-> IF (i - head) % QUEUE_CAP < n THEN NoPacket ELSE slots[i]]
    /\ head' = (head + n) % QUEUE_CAP
    /\ len' = len - n
    /\ UNCHANGED <<tail, batch>>

(* PacketRingBuffer::push_overwrite_oldest on a full buffer: the oldest *)
(* packet is popped and its slot is the tail's.                         *)
push_overwrite_oldest(p) ==
    /\ Unlocked /\ len = QUEUE_CAP
    /\ slots' = [slots EXCEPT ![head] = NoPacket, ![tail] = p]
    /\ head' = Next1(head)
    /\ tail' = Next1(tail)
    /\ UNCHANGED <<len, batch>>

clear ==
    /\ Unlocked
    /\ slots' = [i \in 0..QUEUE_CAP - 1 |-> NoPacket]
    /\ head' = 0 /\ tail' = 0 /\ len' = 0
    /\ UNCHANGED batch

QueueNext ==
    \/ \E p \in Packets : try_push(p) \/ push_overwrite_oldest(p)
    \/ try_push_batch \/ PushNext
    \/ \E n \in 1..QUEUE_CAP : try_pop(n)
    \/ clear

QueueSpec == QueueInit /\ [][QueueNext]_queueVars

-----------------------------------------------------------------------------
InUse(i) == (i - head) % QUEUE_CAP < len
Contents == [i \in 1..len |-> slots[(head + i - 1) % QUEUE_CAP]]

(* A slot holds a packet exactly when it is between head and tail, so no   *)
(* take() finds an empty slot and none keeps a packet that was handed out. *)
SlotsMatch == \A i \in 0..QUEUE_CAP - 1 : InUse(i) <=> slots[i] # NoPacket

S == INSTANCE AbstractQueue WITH
        Elements <- {[id |-> p, reliable |-> FALSE] : p \in Packets}, Capacity <- QUEUE_CAP,
        queue <- [i \in 1..len |-> [id |-> Contents[i], reliable |-> FALSE]]

(* Across the wrap-around packets leave in the order they came, and only a *)
(* full buffer gives up its oldest packet for a new one.                   *)
ImplementsFifo == S!ShedSpec

(* ------------------------- queues with two classes ----------------------- *)
(* BoundedIngressQueue and BoundedEgressQueue: a ring of slots with head,     *)
(* tail and a count of each class of packet.  A full queue makes room by      *)
(* taking its oldest unreliable packet out of the middle of the ring and      *)
(* shifting the younger ones down over the wrap-around.  The two differ in    *)
(* what a new unreliable packet may do: the ingress queue refuses it from 95% *)
(* on, the egress queue lets it replace the oldest one.                       *)

CONSTANTS
    Payloads,       \* packet contents
    BP_CAP,         \* slots
    DrainLen        \* length of the slice drain_into fills

ASSUME BackpressureAssumption ==
    BP_CAP \in Nat \ {0} /\ DrainLen \in Nat \ {0}

VARIABLES
    ingressSide,                        \* TRUE: BoundedIngressQueue, FALSE: BoundedEgressQueue
    bpSlots,                            \* [0..BP_CAP-1 -> packet or Empty]
    bpHead, bpTail, bpLen,
    reliable_count, unreliable_count,
    refused                             \* the packet the last call refused, or Empty

bpVars == <<ingressSide, bpSlots, bpHead, bpTail, bpLen, reliable_count, unreliable_count, refused>>

BpSlot == 0..(BP_CAP - 1)
Packet == [payload : Payloads, reliable : BOOLEAN]
Empty == [payload |-> "empty"]

is_full == bpLen = BP_CAP
utilization_pct == (bpLen * 100) \div BP_CAP

(* Cursors one step on and one step back. *)
Succ(i) == (i + 1) % BP_CAP
Pred(i) == IF i = 0 THEN BP_CAP - 1 ELSE i - 1

(* Offset, from the head, of the oldest unreliable packet. *)
UnreliableOffsets == {i \in 0..(bpLen - 1) : ~ bpSlots[(bpHead + i) % BP_CAP].reliable}

(* Mutated form: the youngest unreliable packet is evicted. *)
Target_youngest ==
    (bpHead + (CHOOSE i \in UnreliableOffsets : \A j \in UnreliableOffsets : i >= j)) % BP_CAP

(* The slot the search from the head stops at. *)
Target ==
    (bpHead + (CHOOSE i \in UnreliableOffsets : \A j \in UnreliableOffsets : i <= j)) % BP_CAP

(* evict_oldest_unreliable: the packets from the target up to the one before *)
(* the tail move down by one slot.                                           *)
ShiftedDown ==
    [i \in BpSlot |-> IF i = Pred(bpTail) THEN Empty
                    ELSE IF (i - Target) % BP_CAP < (Pred(bpTail) - Target) % BP_CAP
                    THEN bpSlots[Succ(i)] ELSE bpSlots[i]]

(* What the eviction leaves, when there is an unreliable packet to evict. *)
Evicted == [slots |-> ShiftedDown, tail |-> Pred(bpTail), len |-> bpLen - 1,
            unreliable |-> unreliable_count - 1]
Kept    == [slots |-> bpSlots, tail |-> bpTail, len |-> bpLen, unreliable |-> unreliable_count]

(* The calls that return QueueFull. *)
Refuses(p) ==
    \/ is_full /\ unreliable_count = 0
    \/ ingressSide /\ ~ p.reliable /\ (is_full \/ utilization_pct >= 95)

(* Mutated form: the eviction forgets its counter. *)
push_forgets_count(p) ==
    LET q == IF is_full THEN Evicted ELSE Kept
    IN  /\ ~ Refuses(p)
        /\ bpSlots' = [q.slots EXCEPT ![q.tail] = p]
        /\ bpTail' = Succ(q.tail)
        /\ bpLen' = q.len + 1
        /\ reliable_count' = reliable_count + (IF p.reliable THEN 1 ELSE 0)
        /\ unreliable_count' = unreliable_count + (IF p.reliable THEN 0 ELSE 1)
        /\ refused' = Empty
        /\ UNCHANGED <<ingressSide, bpHead>>

(* push, accepted *)
push(p) ==
    LET q == IF is_full THEN Evicted ELSE Kept
    IN  /\ ~ Refuses(p)
        /\ bpSlots' = [q.slots EXCEPT ![q.tail] = p]
        /\ bpTail' = Succ(q.tail)
        /\ bpLen' = q.len + 1
        /\ reliable_count' = reliable_count + (IF p.reliable THEN 1 ELSE 0)
        /\ unreliable_count' = q.unreliable + (IF p.reliable THEN 0 ELSE 1)
        /\ refused' = Empty
        /\ UNCHANGED <<ingressSide, bpHead>>

(* push, refused *)
push_refused(p) ==
    /\ Refuses(p)
    /\ refused' = p
    /\ UNCHANGED <<ingressSide, bpSlots, bpHead, bpTail, bpLen, reliable_count, unreliable_count>>

(* drain_into, as many pop calls as the slice and the queue allow; pop is *)
(* the case of one.                                                       *)
drain_into(room) ==
    LET n    == IF room < bpLen THEN room ELSE bpLen
        gone == {(bpHead + i) % BP_CAP : i \in 0..(n - 1)}
        rel  == Cardinality({i \in gone : bpSlots[i].reliable})
    IN  /\ bpLen > 0
        /\ bpSlots' = [i \in BpSlot |-> IF i \in gone THEN Empty ELSE bpSlots[i]]
        /\ bpHead' = (bpHead + n) % BP_CAP
        /\ bpLen' = bpLen - n
        /\ reliable_count' = reliable_count - rel
        /\ unreliable_count' = unreliable_count - (n - rel)
        /\ refused' = Empty
        /\ UNCHANGED <<ingressSide, bpTail>>

BackpressureInit ==
    /\ ingressSide \in BOOLEAN
    /\ bpSlots = [i \in BpSlot |-> Empty]
    /\ bpHead = 0 /\ bpTail = 0 /\ bpLen = 0
    /\ reliable_count = 0 /\ unreliable_count = 0
    /\ refused = Empty

BackpressureNext ==
    \/ \E p \in Packet : push(p) \/ push_refused(p)
    \/ \E room \in 1..DrainLen : drain_into(room)

BackpressureSpec == BackpressureInit /\ [][BackpressureNext]_bpVars

-----------------------------------------------------------------------------
Waiting == [i \in 1..bpLen |-> bpSlots[(bpHead + i - 1) % BP_CAP]]

Shedding == INSTANCE AbstractQueue
            WITH Elements <- Packet, Capacity <- BP_CAP, queue <- Waiting

(* The ring implements the shedding queue: eviction takes exactly the oldest *)
(* unreliable packet, keeps the order of all others across the wrap-around,  *)
(* and never drops a reliable one.                                           *)
ImplementsShedding == Shedding!ShedSpec

(* The counters the eviction relies on count what the ring holds, and the *)
(* used slots are exactly the ones between the cursors.                   *)
CountsAgree ==
    /\ reliable_count = Cardinality({i \in BpSlot : bpSlots[i] # Empty /\ bpSlots[i].reliable})
    /\ unreliable_count = Cardinality({i \in BpSlot : bpSlots[i] # Empty /\ ~ bpSlots[i].reliable})
    /\ bpLen = reliable_count + unreliable_count
    /\ bpTail = (bpHead + bpLen) % BP_CAP

(* A reliable packet is refused only by a queue that is full of reliable *)
(* packets.                                                              *)
ReliableRefusedOnlyWhenFull ==
    refused # Empty /\ refused.reliable
        => bpLen = BP_CAP /\ \A i \in BpSlot : bpSlots[i] # Empty /\ bpSlots[i].reliable

(* ------------------------------ UDP worker ------------------------------- *)
(* The worker between the sockets and the simulation (eidolon-server's       *)
(* io.rs).  Its queues are packet buffers, shown above to be first in, first *)
(* out; the simulation takes from the ingress queue and adds to the egress   *)
(* queue while the worker is inside a call.  Datagrams are numbered in the   *)
(* order they arrive, replies in the order they are made.                    *)

CONSTANTS
    IO_CAP,         \* slots of either queue
    BATCH_SIZE,     \* datagrams read or sent at a time; 1 for drain_ingress and flush_egress
    MaxIn, MaxOut   \* bounds: datagrams received, replies made

ASSUME IoAssumption ==
    /\ IO_CAP \in Nat \ {0} /\ BATCH_SIZE \in Nat \ {0}
    /\ MaxIn \in Nat /\ MaxOut \in Nat

VARIABLES
    prioritized,    \* drain_ingress_batch_prioritized is called, not drain_ingress_batch
    sendFails,      \* what a send may answer besides Ok
    arrived,        \* datagrams that reached the socket so far
    socketIn,       \* the ones not read yet
    ingress, egress,
    reader,         \* the call that reads: where it is, its batch and what it saw
    staging,        \* what the call that sends has popped and not sent
    enqueued, shed, \* what the calls counted
    popped,         \* number of the datagram the simulation took last
    replies,        \* replies made
    lastSent        \* number of the one sent last

worker == <<prioritized, sendFails>>
ioVars == <<worker, arrived, socketIn, ingress, egress, reader, staging, enqueued, shed, popped, replies, lastSent>>

NoCall == [pc |-> "idle", batch |-> <<>>, pressure |-> FALSE]
Threshold == (IO_CAP * 80) \div 100
Taken(s, n) == SubSeq(s, 1, IF n < Len(s) THEN n ELSE Len(s))
Left(s, n) == SubSeq(s, n + 1, Len(s))

(* A datagram reaches the socket. *)
Arrive ==
    /\ arrived < MaxIn
    /\ arrived' = arrived + 1
    /\ \E r \in BOOLEAN : socketIn' = Append(socketIn, [id |-> arrived + 1, reliable |-> r])
    /\ UNCHANGED <<worker, ingress, egress, reader, staging, enqueued, shed, popped, replies, lastSent>>

(* The batch is filled until it is full or the socket would block. *)
ReadBatch ==
    /\ reader.pc = "idle" \/ reader.pc = "again"
    /\ LET got == Taken(socketIn, BATCH_SIZE)
       IN  /\ reader' = IF got = <<>> THEN NoCall
                        ELSE [pc |-> IF prioritized THEN "look" ELSE "push",
                              batch |-> got, pressure |-> FALSE]
           /\ socketIn' = Left(socketIn, Len(got))
    /\ UNCHANGED <<worker, arrived, ingress, egress, staging, enqueued, shed, popped, replies, lastSent>>

(* drain_ingress_batch_prioritized looks at the length under one lock ... *)
ReadPressure ==
    /\ reader.pc = "look"
    /\ reader' = [reader EXCEPT !.pc = "push", !.pressure = Len(ingress) >= Threshold]
    /\ UNCHANGED <<worker, arrived, socketIn, ingress, egress, staging, enqueued, shed, popped, replies, lastSent>>

(* Mutated form: under pressure the unreliable datagrams only wait behind *)
(* the reliable ones.                                                     *)
Staged_sorted(call) ==
    IF call.pressure
    THEN SelectSeq(call.batch, LAMBDA p : p.reliable) \o SelectSeq(call.batch, LAMBDA p : ~ p.reliable)
    ELSE call.batch

Staged(call) == IF call.pressure THEN SelectSeq(call.batch, LAMBDA p : p.reliable) ELSE call.batch

(* Only the prioritized call counts what it drops. *)
CountedShed(call, pushed) == IF prioritized THEN Len(call.batch) - pushed ELSE 0

(* ... and pushes under another. *)
PushBatch ==
    /\ reader.pc = "push"
    /\ LET staged == Staged(reader)
           room == IO_CAP - Len(ingress)
           pushed == IF Len(staged) < room THEN Len(staged) ELSE room
           stop == IF prioritized THEN Len(reader.batch) < BATCH_SIZE
                   ELSE pushed < Len(staged)
       IN  /\ ingress' = ingress \o Taken(staged, pushed)
           /\ enqueued' = enqueued + pushed
           /\ shed' = shed + CountedShed(reader, pushed)
           /\ reader' = [NoCall EXCEPT !.pc = IF stop THEN "idle" ELSE "again"]
    /\ UNCHANGED <<worker, arrived, socketIn, egress, staging, popped, replies, lastSent>>

(* The simulation takes a datagram ... *)
TakeIngress ==
    /\ ingress # <<>>
    /\ popped' = Head(ingress).id
    /\ ingress' = Tail(ingress)
    /\ UNCHANGED <<worker, arrived, socketIn, egress, reader, staging, enqueued, shed, replies, lastSent>>

(* ... and queues a reply if there is room for it. *)
Reply ==
    /\ replies < MaxOut /\ Len(egress) < IO_CAP
    /\ replies' = replies + 1
    /\ egress' = Append(egress, replies + 1)
    /\ UNCHANGED <<worker, arrived, socketIn, ingress, reader, staging, enqueued, shed, popped, lastSent>>

(* flush_egress and flush_egress_batch *)
PopEgress ==
    /\ staging = <<>> /\ egress # <<>>
    /\ staging' = Taken(egress, BATCH_SIZE)
    /\ egress' = Left(egress, Len(staging'))
    /\ UNCHANGED <<worker, arrived, socketIn, ingress, reader, enqueued, shed, popped, replies, lastSent>>

(* A send that would block ends the call with what it had popped; any other *)
(* error drops the packet, and with it the call of flush_egress.            *)
Send ==
    /\ staging # <<>>
    /\ \/ lastSent' = Head(staging) /\ staging' = Tail(staging)
       \/ "WouldBlock" \in sendFails /\ staging' = <<>> /\ UNCHANGED lastSent
       \/ "Err" \in sendFails /\ staging' = Tail(staging) /\ UNCHANGED lastSent
    /\ UNCHANGED <<worker, arrived, socketIn, ingress, egress, reader, enqueued, shed, popped, replies>>

IoInit ==
    /\ prioritized \in BOOLEAN /\ sendFails \in {{}, {"WouldBlock", "Err"}}
    /\ arrived = 0 /\ socketIn = <<>> /\ ingress = <<>> /\ egress = <<>>
    /\ reader = NoCall /\ staging = <<>>
    /\ enqueued = 0 /\ shed = 0 /\ popped = 0 /\ replies = 0 /\ lastSent = 0

IoNext == \/ Arrive \/ ReadBatch \/ ReadPressure \/ PushBatch
          \/ TakeIngress \/ Reply \/ PopEgress \/ Send

IoSpec == IoInit /\ [][IoNext]_ioVars

(* The simulation sees datagrams in the order they arrived, whatever is shed *)
(* between them.                                                             *)
IngressInOrder == [][popped' # popped => popped' > popped]_ioVars

(* Every datagram the prioritized call has read is in the queue's count or *)
(* in the count of what was dropped.                                       *)
AllAccounted ==
    prioritized => arrived = Len(socketIn) + Len(reader.batch) + enqueued + shed

(* A reliable datagram is given up only when the queue has no room for it, *)
(* also when the length that decided was read before the simulation took   *)
(* something.                                                              *)
ReliableShedOnlyWhenFull ==
    [][\A p \in ToSet(reader.batch) :
          p.reliable /\ p \notin ToSet(reader'.batch) /\ p \notin ToSet(ingress')
          => Len(ingress') = IO_CAP]_ioVars

(* Above the threshold the queue takes reliable datagrams only. *)
ReservedForReliable ==
    [][\A i \in Len(ingress) + 1..Len(ingress') :
          prioritized /\ i > Threshold => ingress'[i].reliable]_ioVars

(* While the socket takes what it is given, no reply is lost between the *)
(* simulation and the socket, and they are sent in order.                *)
RepliesSent ==
    sendFails = {} => staging \o egress = [i \in 1..(replies - lastSent) |-> lastSent + i]

(* The simulation sees datagrams in order, and a reliable one is given up *)
(* only when the queue is full (io.rs:180-270).                           *)
IngressFair == IngressInOrder /\ ReliableShedOnlyWhenFull
===============================================================================
