---------------------------- MODULE AbstractQueue ----------------------------
(*****************************************************************************)
(* What the queues of the engine promise.  All hold at most Capacity         *)
(* elements in the order they were accepted, lose none and hand none out     *)
(* twice; they differ in who may take and in what a full queue does.         *)
(*****************************************************************************)
EXTENDS Naturals, Sequences, SequencesExt

CONSTANTS Elements, Capacity

VARIABLE queue      \* what waits, oldest first

QueueInit == queue = <<>>

Push ==
    /\ Len(queue) < Capacity
    /\ \E e \in Elements : queue' = Append(queue, e)

\* A batch of n elements leaves at the head.
Take == \E n \in 1..Len(queue) : queue' = SubSeq(queue, n + 1, Len(queue))

TakeNewest == queue # <<>> /\ queue' = Front(queue)

TakeOldest == queue # <<>> /\ queue' = Tail(queue)

Unreliable == {i \in 1..Len(queue) : ~ queue[i].reliable}
OldestUnreliable == CHOOSE i \in Unreliable : \A j \in Unreliable : i <= j

\* A full queue gives up its oldest unreliable element for a new one.
Replace ==
    /\ Len(queue) = Capacity
    /\ Unreliable # {}
    /\ \E e \in Elements : queue' = Append(RemoveAt(queue, OldestUnreliable), e)

-------------------------------------------------------------------------------
\* The ring buffers: a full one takes nothing.
FifoSpec == QueueInit /\ [][Push \/ Take]_queue

\* The packet queues: a reliable packet leaves only by being taken.
ShedSpec == QueueInit /\ [][Push \/ Replace \/ Take]_queue

\* The work-stealing deque: the owner takes at the end it adds to, anybody
\* else at the other.
DequeSpec == QueueInit /\ [][Push \/ TakeNewest \/ TakeOldest]_queue
===============================================================================
