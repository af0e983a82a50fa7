---------------------------- MODULE ReliableChannel ---------------------------
(*****************************************************************************)
(* ReliableChannel and UnreliableSequencer                                   *)
(* (crates/eidolon-net/src/channel.rs): a sender with a retransmission       *)
(* buffer, a receiver with a reorder buffer, and a network between them      *)
(* that loses, duplicates and reorders packets and acknowledgements.         *)
(* Sequence numbers are u16 in the code and Modulus values here; message k   *)
(* of the connection has sequence k % Modulus.  The network is assumed to    *)
(* forget a packet before half the sequence space has gone by (MaxAge).  The *)
(* receiver's caller drains what has become next before it hands in another  *)
(* packet, as receive_and_drain_ordered does with an output slice that is    *)
(* long enough.                                                              *)
(*****************************************************************************)
EXTENDS Naturals, Sequences, FiniteSets, FiniteSetsExt

CONSTANTS
    Modulus,         \* size of the sequence space, 65536 in the code
    AckBits,         \* width of the acknowledgement bitfield, 32 in the code
    PENDING_CAP,     \* slots of the retransmission buffer
    ORDERED_CAP,     \* slots of the reorder buffer
    RetryTicks,      \* DEFAULT_RETRY_TICKS
    MaxBackoff,      \* longest countdown, 32 in the code
    max_retries,     \* retransmissions before the connection times out
    EagerAcks,       \* TRUE: acknowledgement headers are also sent before
                     \* anything has been received
    MaxAge,          \* bound: packets older than this are gone
    MaxMessages      \* bound: messages queued

ASSUME WindowAssumption ==
    /\ Modulus \in Nat /\ {PENDING_CAP, MaxAge} \subseteq 0..(Modulus \div 2 - 1)
    /\ {AckBits, ORDERED_CAP, MaxBackoff, max_retries, MaxMessages} \subseteq Nat
    /\ PENDING_CAP <= AckBits /\ RetryTicks \in 0..MaxBackoff /\ EagerAcks \in BOOLEAN

VARIABLES
    sent,            \* messages queued so far (next_outgoing_seq, unwrapped)
    pending,         \* slot -> pending packet or Free
    is_timed_out,
    wire,            \* messages some copy of which is on its way
    ackWire,         \* acknowledgement on its way, if any
    expected,        \* expected_incoming_seq
    reorder,         \* packets waiting in the reorder buffer
    highest,         \* sequencer: highest_received_sequence
    bitfield,        \* sequencer: distances behind highest that were received
    has_received_any,
    delivered        \* messages handed to the application, in order

senderVars == <<sent, pending, is_timed_out>>
receiverVars == <<expected, reorder, highest, bitfield, has_received_any, delivered>>
chanVars == <<senderVars, wire, ackWire, receiverVars>>

Seqs == 0..(Modulus - 1)
Slots == 1..PENDING_CAP
Free == [sequence |-> 0, id |-> 0, countdown |-> 0, retries |-> 0, used |-> FALSE]

ChanTypeOK ==
    /\ sent \in 0..MaxMessages
    /\ \A i \in Slots : pending[i].sequence \in Seqs /\ pending[i].countdown \in 0..MaxBackoff
    /\ wire \subseteq 1..MaxMessages
    /\ expected \in Seqs
    /\ Cardinality(reorder) <= ORDERED_CAP
    /\ highest \in Seqs
    /\ bitfield \subseteq 1..AckBits
    /\ delivered \in Seq(1..MaxMessages)

ChanInit ==
    /\ sent = 0
    /\ pending = [i \in Slots |-> Free]
    /\ is_timed_out = FALSE
    /\ wire = {}
    /\ ackWire = {}
    /\ expected = 0
    /\ reorder = {}
    /\ highest = 0
    /\ bitfield = {}
    /\ has_received_any = FALSE
    /\ delivered = <<>>

-------------------------------------------------------------------------------
(* Circular sequence arithmetic *)

\* Message k (counted from 1) carries this sequence number.
seq_of(k) == (k - 1) % Modulus

next_outgoing_seq == sent % Modulus

wrapping_sub(a, b) == (a + Modulus - b) % Modulus

\* (a - b) as i16 > 0
is_sequence_newer(a, b) == wrapping_sub(a, b) \in 1..(Modulus \div 2 - 1)

-------------------------------------------------------------------------------
(* Sender *)

Used == {i \in Slots : pending[i].used}

\* Distance from the oldest unacknowledged sequence to the next one.
Flight == IF Used = {} THEN 0
          ELSE Max({wrapping_sub(next_outgoing_seq, pending[i].sequence) : i \in Used})

\* The caller sends the queued packet for the first time; the packets that
\* are too old by now are gone.
queue_reliable_message ==
    /\ sent < MaxMessages
    /\ Flight < PENDING_CAP
    /\ Used # Slots
    /\ pending' = [pending EXCEPT ![Min(Slots \ Used)] =
           [sequence |-> next_outgoing_seq, id |-> sent + 1, countdown |-> RetryTicks,
            retries |-> 0, used |-> TRUE]]
    /\ sent' = sent + 1
    /\ wire' = {k \in wire : k + MaxAge > sent + 1} \union {sent + 1}
    /\ UNCHANGED <<is_timed_out, ackWire, receiverVars>>

acked(a, p) ==
    \/ p.sequence = a.ack
    \/ /\ is_sequence_newer(a.ack, p.sequence)
       /\ wrapping_sub(a.ack, p.sequence) \in a.bits

\* Mutated form: everything up to the acknowledged sequence is retired.
process_cumulative_ack ==
    /\ \E a \in ackWire :
          pending' = [i \in Slots |->
              IF pending[i].used /\ (acked(a, pending[i])
                    \/ is_sequence_newer(a.ack, pending[i].sequence))
                THEN Free ELSE pending[i]]
    /\ ackWire' = {}
    /\ UNCHANGED <<sent, is_timed_out, wire, receiverVars>>

process_remote_ack ==
    /\ \E a \in ackWire :
          pending' = [i \in Slots |->
              IF pending[i].used /\ acked(a, pending[i]) THEN Free ELSE pending[i]]
    /\ ackWire' = {}
    /\ UNCHANGED <<sent, is_timed_out, wire, receiverVars>>

\* Countdown after the n-th retransmission: doubled three times at most.
backoff(n) == Min({RetryTicks * <<1, 2, 4, 8>>[Min({n, 4})], MaxBackoff})

\* The first slot, in order, whose packet has used up its retries.
Exhausted == {i \in Used : pending[i].countdown = 0 /\ pending[i].retries + 1 > max_retries}
Reached == IF Exhausted = {} THEN Used ELSE {i \in Used : i < Min(Exhausted)}

\* Mutated form: a packet out of retries leaves the connection as it is.
check_stays_connected ==
    /\ ~is_timed_out
    /\ Used # {}
    /\ pending' = [i \in Slots |->
          IF i \in Reached /\ pending[i].countdown = 0
            THEN [pending[i] EXCEPT !.retries = @ + 1,
                                    !.countdown = backoff(pending[i].retries + 1)]
          ELSE IF i \in Reached THEN [pending[i] EXCEPT !.countdown = @ - 1]
          ELSE pending[i]]
    /\ wire' = wire \union {pending[i].id : i \in {j \in Reached : pending[j].countdown = 0}}
    /\ UNCHANGED <<sent, is_timed_out, ackWire, receiverVars>>

\* One tick of the retransmission timers.
check_retransmissions ==
    /\ ~is_timed_out
    /\ Used # {}
    /\ pending' = [i \in Slots |->
          IF i \in Reached /\ pending[i].countdown = 0
            THEN [pending[i] EXCEPT !.retries = @ + 1,
                                    !.countdown = backoff(pending[i].retries + 1)]
          ELSE IF i \in Reached THEN [pending[i] EXCEPT !.countdown = @ - 1]
          ELSE pending[i]]
    /\ wire' = wire \union {pending[i].id : i \in {j \in Reached : pending[j].countdown = 0}}
    /\ is_timed_out' = (Exhausted # {})
    /\ UNCHANGED <<sent, ackWire, receiverVars>>

-------------------------------------------------------------------------------
(* Receiver *)

\* UnreliableSequencer::process_incoming_sequence
process_incoming_sequence(s) ==
    LET up == wrapping_sub(s, highest)
        down == wrapping_sub(highest, s) IN
    /\ has_received_any' = TRUE
    /\ IF ~has_received_any
         THEN highest' = s /\ bitfield' = {}
       ELSE IF is_sequence_newer(s, highest)
         THEN /\ highest' = s
              /\ bitfield' = {d \in {e + up : e \in bitfield} \union {up} : d <= AckBits}
         ELSE /\ bitfield' = IF down \in 1..AckBits THEN bitfield \union {down} ELSE bitfield
              /\ UNCHANGED highest

\* Buffered packets with sequence number s.
buffered(s) == {j \in reorder : seq_of(j) = s}

\* The expected packet, or the next one of the reorder buffer, is handed over.
hand_over(k) ==
    /\ seq_of(k) = expected
    /\ expected' = (expected + 1) % Modulus
    /\ delivered' = Append(delivered, k)

deliver(k) == hand_over(k) /\ UNCHANGED reorder

drain_next_ordered_packet ==
    /\ \E j \in reorder : hand_over(j) /\ reorder' = reorder \ {j}
    /\ UNCHANGED <<senderVars, wire, ackWire, highest, bitfield, has_received_any>>

\* A packet ahead of the expected one waits in the reorder buffer, once.
buffer(k) ==
    /\ is_sequence_newer(seq_of(k), expected)
    /\ \/ buffered(seq_of(k)) # {} /\ UNCHANGED reorder
       \/ /\ buffered(seq_of(k)) = {}
          /\ Cardinality(reorder) < ORDERED_CAP
          /\ reorder' = reorder \union {k}
    /\ UNCHANGED <<expected, delivered>>

\* An old duplicate is ignored.
ignore(k) ==
    /\ seq_of(k) # expected
    /\ ~is_sequence_newer(seq_of(k), expected)
    /\ UNCHANGED <<expected, reorder, delivered>>

\* A packet arrives, once the caller has drained the reorder buffer, and is
\* acknowledged unless that buffer is full; the copy on the wire may arrive
\* again.
receive(k) ==
    /\ k \in wire
    /\ buffered(expected) = {}
    /\ deliver(k) \/ buffer(k) \/ ignore(k)
    /\ process_incoming_sequence(seq_of(k))
    /\ ackWire' = {[ack |-> highest', bits |-> bitfield']}
    /\ UNCHANGED <<senderVars, wire>>

\* ack_data in the header of any other packet the peer sends.
send_ack_header ==
    /\ has_received_any \/ EagerAcks
    /\ ackWire' = {[ack |-> highest, bits |-> bitfield]}
    /\ UNCHANGED <<senderVars, wire, receiverVars>>

lose(k) ==
    /\ k \in wire
    /\ wire' = wire \ {k}
    /\ UNCHANGED <<senderVars, ackWire, receiverVars>>

lose_ack ==
    /\ ackWire # {}
    /\ ackWire' = {}
    /\ UNCHANGED <<senderVars, wire, receiverVars>>

Messages == 1..MaxMessages

ChanNext ==
    \/ queue_reliable_message
    \/ process_remote_ack
    \/ check_retransmissions
    \/ \E k \in Messages : receive(k) \/ lose(k)
    \/ drain_next_ordered_packet
    \/ send_ack_header
    \/ lose_ack

ChanSpec == ChanInit /\ [][ChanNext]_chanVars

\* Both ends run (their loops call these functions every tick), and a packet
\* or acknowledgement that is sent again and again gets through.
ChanLiveSpec ==
    /\ ChanSpec
    /\ WF_chanVars(check_retransmissions)
    /\ WF_chanVars(drain_next_ordered_packet)
    /\ SF_chanVars(process_remote_ack)
    /\ \A k \in Messages : SF_chanVars(receive(k))

-------------------------------------------------------------------------------
\* Messages are delivered in order, once, without gaps, across the wrap-around
\* of the sequence numbers (channel.rs:213-324).
InOrderExactlyOnce ==
    /\ \A i \in 1..Len(delivered) : delivered[i] = i
    /\ Len(delivered) % Modulus = expected

\* The reorder buffer holds only messages that are still to come, so no slot
\* is taken by a packet that can never leave it (channel.rs:237-261).
ReorderAhead == \A k \in reorder : k > Len(delivered)

\* A packet leaves the retransmission buffer only when the receiver has it:
\* an acknowledgement never retires another packet (channel.rs:194-211).
RetiredWasReceived ==
    \A k \in 1..sent :
        (\A i \in Used : pending[i].id # k) => k <= Len(delivered) \/ k \in reorder

\* The unacknowledged packets never span more than the window, so sequence
\* numbers cannot be confused (channel.rs:158-164).
WindowBounded ==
    \A i, j \in Used : pending[i].id < pending[j].id + PENDING_CAP

\* Every queued message is delivered unless the connection times out
\* (channel.rs:266-310).
EventuallyDelivered ==
    \A k \in Messages : (sent >= k) ~> (Len(delivered) >= k \/ is_timed_out)

\* The channel delivers in order and once, keeps a packet until the receiver
\* has it and never lets the window outgrow what acknowledgements and reorder
\* buffer can tell apart (channel.rs:158-324).
DeliveryExact ==
    /\ ChanTypeOK
    /\ InOrderExactlyOnce
    /\ ReorderAhead
    /\ RetiredWasReceived
    /\ WindowBounded
===============================================================================
