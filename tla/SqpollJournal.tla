---------------------------- MODULE SqpollJournal ----------------------------
(*****************************************************************************)
(* The asynchronous journal (crates/eidolon-world/src/sqpoll_journal.rs):    *)
(* threads push records into the active one of two buffers, each behind its  *)
(* own lock; the flusher thread, and flush_sync of the owner, switch the     *)
(* active buffer, take what the other one holds and write it to the file.    *)
(* A step is one access to shared state; a frame is written in two calls.    *)
(*****************************************************************************)
EXTENDS Naturals, Sequences, SequencesExt, FiniteSetsExt

CONSTANTS
    Pushers, NoPusher,          \* threads that share the journal, and none
    JOURNAL_BUFFER_CAPACITY,
    MaxSequence,                \* bound on the records pushed
    MaxFlushes,                 \* bound on the calls of flush_sync
    Faulty                      \* whether writes and syncs may fail

ASSUME SqpollAssumption ==
    /\ NoPusher \notin Pushers /\ IsFiniteSet(Pushers) /\ JOURNAL_BUFFER_CAPACITY \in Nat \ {0}
    /\ {MaxSequence, MaxFlushes} \subseteq Nat /\ Faulty \in BOOLEAN

VARIABLES
    active_buf_idx,
    buffers,                \* 0..1 -> the sequence numbers it holds
    lock,                   \* 0..1 -> the pusher that holds its lock, or NoPusher
    latest_sequence,
    committed_sequence,
    is_running,
    push_at,                \* pusher -> [pc, buf_idx]
    drain_at,               \* drainer -> [pc, old_idx, batch, done, passes]
    halves,                 \* the file: the halves of frames in it
    synced_len,             \* how much of it is synced
    flushes,                \* calls of flush_sync (bound)
    answered,               \* latest_sequence when flush_sync last succeeded (history)
    dropped,                \* records given up by a failed write (history)
    disturbed               \* a late push, overlapping drains or a failed sync (history)

queueVars == <<active_buf_idx, buffers, lock, latest_sequence, committed_sequence>>
fileVars == <<halves, synced_len>>
sqpollVars == <<queueVars, fileVars, is_running, push_at, drain_at, flushes, answered,
                dropped, disturbed>>

Drainers == {"worker", "caller"}

IdlePush == [pc |-> "idle", buf_idx |-> 0]
\* passes: how often it will switch buffers; end: where it is afterwards.
Drainer(pc, passes, end) ==
    [pc |-> pc, old_idx |-> 0, batch |-> <<>>, done |-> 0, passes |-> passes, end |-> end]

SqpollInit ==
    /\ active_buf_idx = 0
    /\ buffers = [b \in 0..1 |-> <<>>]
    /\ lock = [b \in 0..1 |-> NoPusher]
    /\ latest_sequence = 0 /\ committed_sequence = 0
    /\ is_running = TRUE
    /\ push_at = [p \in Pushers |-> IdlePush]
    /\ drain_at = [worker |-> Drainer("loop", 0, "loop"), caller |-> Drainer("idle", 0, "idle")]
    /\ halves = <<>> /\ synced_len = 0
    /\ flushes = 0 /\ answered = 0 /\ dropped = {} /\ disturbed = FALSE

PushersIdle == \A p \in Pushers : push_at[p].pc = "idle"
CallerIdle == drain_at["caller"].pc = "idle"

(* ---------------------------------- push --------------------------------- *)

\* The active buffer is looked up before its lock is taken.  (flush_sync and
\* drop need the journal for themselves.)
push(p) ==
    /\ push_at[p].pc = "idle" /\ CallerIdle /\ is_running
    /\ latest_sequence + Cardinality({q \in Pushers : push_at[q].pc # "idle"}) < MaxSequence
    /\ push_at' = [push_at EXCEPT ![p] = [pc |-> "lock", buf_idx |-> active_buf_idx]]
    /\ UNCHANGED <<queueVars, fileVars, is_running, drain_at, flushes, answered, dropped, disturbed>>

\* With the lock held the index is read again; on a change the lock is dropped
\* and the other one is tried.
PushLock(p) ==
    LET b == push_at[p].buf_idx
    IN  /\ push_at[p].pc = "lock" /\ lock[b] = NoPusher
        /\ IF active_buf_idx # b
           THEN push_at' = [push_at EXCEPT ![p].buf_idx = active_buf_idx] /\ UNCHANGED lock
           ELSE /\ lock' = [lock EXCEPT ![b] = p]
                /\ push_at' = [push_at EXCEPT ![p].pc = "append"]
        /\ UNCHANGED <<active_buf_idx, buffers, latest_sequence, committed_sequence, fileVars,
                       is_running, drain_at, flushes, answered, dropped, disturbed>>

\* A push into a buffer that was switched off meanwhile.
Late(p) == push_at[p].buf_idx # active_buf_idx

PushAppend(p) ==
    LET b == push_at[p].buf_idx
        fits == Len(buffers[b]) < JOURNAL_BUFFER_CAPACITY
    IN  /\ push_at[p].pc = "append"
        /\ latest_sequence' = IF fits THEN latest_sequence + 1 ELSE latest_sequence
        /\ buffers' = IF fits THEN [buffers EXCEPT ![b] = Append(@, latest_sequence + 1)]
                      ELSE buffers
        /\ lock' = [lock EXCEPT ![b] = NoPusher]
        /\ push_at' = [push_at EXCEPT ![p] = IdlePush]
        /\ disturbed' = (disturbed \/ Late(p))
        /\ UNCHANGED <<active_buf_idx, committed_sequence, fileVars, is_running, drain_at,
                       flushes, answered, dropped>>

is_durable(sequence) == committed_sequence >= sequence

(* ---------------------------- swap, write, sync -------------------------- *)

DrainGoesTo(d, at) == drain_at' = [drain_at EXCEPT ![d] = at]

\* The flusher wakes up, or starts its two last passes.
WorkerLoop ==
    /\ drain_at["worker"].pc = "loop"
    /\ DrainGoesTo("worker", IF is_running THEN Drainer("swap", 1, "loop")
                                           ELSE Drainer("swap", 2, "done"))
    /\ UNCHANGED <<queueVars, fileVars, is_running, push_at, flushes, answered, dropped, disturbed>>

\* The owner calls flush_sync.
flush_sync ==
    /\ CallerIdle /\ PushersIdle /\ is_running /\ flushes < MaxFlushes
    /\ DrainGoesTo("caller", Drainer("swap", 2, "idle"))
    /\ flushes' = flushes + 1
    /\ UNCHANGED <<queueVars, fileVars, is_running, push_at, answered, dropped, disturbed>>

\* Dropping the journal stops the flusher; it is joined, never cut off.
drop ==
    /\ is_running /\ CallerIdle /\ PushersIdle
    /\ is_running' = FALSE
    /\ UNCHANGED <<queueVars, fileVars, push_at, drain_at, flushes, answered, dropped, disturbed>>

\* swap_and_drain reads the index and stores the other one in two accesses, so
\* two drainers may read the same index, and a store may come late.
SwapLoad(d) ==
    /\ drain_at[d].pc = "swap"
    /\ DrainGoesTo(d, [drain_at[d] EXCEPT !.pc = "store", !.old_idx = active_buf_idx])
    /\ UNCHANGED <<queueVars, fileVars, is_running, push_at, flushes, answered, dropped, disturbed>>

SwapStore(d) ==
    /\ drain_at[d].pc = "store"
    /\ active_buf_idx' = 1 - drain_at[d].old_idx
    /\ DrainGoesTo(d, [drain_at[d] EXCEPT !.pc = "take"])
    /\ UNCHANGED <<buffers, lock, latest_sequence, committed_sequence, fileVars, is_running,
                   push_at, flushes, answered, dropped, disturbed>>

\* Where a drainer goes after a pass, and when a call of it fails: flush_sync
\* returns the error, the flusher goes on.
AfterPass(d) ==
    LET r == drain_at[d]
    IN  IF r.passes > 1 THEN Drainer("swap", r.passes - 1, r.end) ELSE Drainer(r.end, 0, r.end)
AfterFailure(d) == IF d = "caller" THEN Drainer("idle", 0, "idle") ELSE AfterPass(d)

\* Another drainer has switched buffers and not yet synced what it took.
Overlapping(d) == \E e \in Drainers \ {d} : drain_at[e].pc \in {"take", "write", "sync"}

Answers(d) == d = "caller" /\ drain_at[d].passes = 1

Take(d) ==
    LET b == drain_at[d].old_idx
    IN  /\ drain_at[d].pc = "take" /\ lock[b] = NoPusher
        /\ buffers' = [buffers EXCEPT ![b] = <<>>]
        /\ IF buffers[b] = <<>>
           THEN /\ DrainGoesTo(d, AfterPass(d))
                /\ answered' = IF Answers(d) THEN latest_sequence ELSE answered
           ELSE /\ DrainGoesTo(d, [drain_at[d] EXCEPT !.pc = "write", !.batch = buffers[b]])
                /\ UNCHANGED answered
        /\ disturbed' = (disturbed \/ Overlapping(d))
        /\ UNCHANGED <<active_buf_idx, lock, latest_sequence, committed_sequence, fileVars,
                       is_running, push_at, flushes, dropped>>

\* The next half frame of the batch: the header, then the record.
Half(d) ==
    LET n == drain_at[d].done
    IN  [sequence |-> drain_at[d].batch[n \div 2 + 1],
         part |-> IF n % 2 = 0 THEN "header" ELSE "record"]

flush_records(d) ==
    /\ drain_at[d].pc = "write" /\ drain_at[d].done < 2 * Len(drain_at[d].batch)
    /\ halves' = Append(halves, Half(d))
    /\ DrainGoesTo(d, [drain_at[d] EXCEPT !.done = @ + 1])
    /\ UNCHANGED <<queueVars, synced_len, is_running, push_at, flushes, answered, dropped, disturbed>>

\* Mutated form: the fence moves to the latest record pushed.
CommitFence_latest(d) ==
    /\ drain_at[d].pc = "write" /\ drain_at[d].done = 2 * Len(drain_at[d].batch)
    /\ committed_sequence' = latest_sequence
    /\ DrainGoesTo(d, [drain_at[d] EXCEPT !.pc = "sync", !.batch = <<>>])
    /\ UNCHANGED <<active_buf_idx, buffers, lock, latest_sequence, fileVars, is_running, push_at,
                   flushes, answered, dropped, disturbed>>

\* The whole batch is in the file: the fence moves, and the sync comes next.
CommitFence(d) ==
    /\ drain_at[d].pc = "write" /\ drain_at[d].done = 2 * Len(drain_at[d].batch)
    /\ committed_sequence' = Max({committed_sequence} \union ToSet(drain_at[d].batch))
    /\ DrainGoesTo(d, [drain_at[d] EXCEPT !.pc = "sync", !.batch = <<>>])
    /\ UNCHANGED <<active_buf_idx, buffers, lock, latest_sequence, fileVars, is_running, push_at,
                   flushes, answered, dropped, disturbed>>

\* A write fails: the rest of the batch is nowhere.
WriteFails(d) ==
    /\ Faulty /\ drain_at[d].pc = "write"
    /\ dropped' = dropped \union ToSet(drain_at[d].batch)
    /\ DrainGoesTo(d, AfterFailure(d))
    /\ UNCHANGED <<queueVars, fileVars, is_running, push_at, flushes, answered, disturbed>>

sync_data(d) ==
    /\ drain_at[d].pc = "sync"
    /\ synced_len' = Len(halves)
    /\ answered' = IF Answers(d) THEN latest_sequence ELSE answered
    /\ DrainGoesTo(d, AfterPass(d))
    /\ UNCHANGED <<queueVars, halves, is_running, push_at, flushes, dropped, disturbed>>

SyncDataFails(d) ==
    /\ Faulty /\ drain_at[d].pc = "sync"
    /\ DrainGoesTo(d, AfterFailure(d))
    /\ disturbed' = TRUE
    /\ UNCHANGED <<queueVars, fileVars, is_running, push_at, flushes, answered, dropped>>

DrainStep(d) ==
    \/ SwapLoad(d) \/ SwapStore(d) \/ Take(d) \/ flush_records(d) \/ CommitFence(d) \/ WriteFails(d)
    \/ sync_data(d) \/ SyncDataFails(d)

SqpollNext ==
    \/ \E p \in Pushers : push(p) \/ PushLock(p) \/ PushAppend(p)
    \/ WorkerLoop \/ flush_sync \/ drop
    \/ \E d \in Drainers : DrainStep(d)

SqpollSpec == SqpollInit /\ [][SqpollNext]_sqpollVars

-------------------------------------------------------------------------------
SqpollTypeOK ==
    /\ active_buf_idx \in 0..1
    /\ committed_sequence \in 0..latest_sequence /\ latest_sequence \in 0..MaxSequence
    /\ lock \in [0..1 -> Pushers \union {NoPusher}]
    /\ \A b \in 0..1 : Len(buffers[b]) <= JOURNAL_BUFFER_CAPACITY
    /\ synced_len \in 0..Len(halves)

\* How often record s is in memory, and its halves in the first n of the file.
InMemory(s) ==
    Cardinality({c \in (0..1) \X (1..MaxSequence) :
                    c[2] <= Len(buffers[c[1]]) /\ buffers[c[1]][c[2]] = s})
    + Cardinality({d \in Drainers : s \in ToSet(drain_at[d].batch)})
Copies(s, half) == Cardinality({k \in DOMAIN halves : halves[k] = [sequence |-> s, part |-> half]})
WrittenWithin(s, n) == \E k \in 1..n : halves[k] = [sequence |-> s, part |-> "record"]
Written(s) == WrittenWithin(s, Len(halves))

\* However pushes and the two drainers interleave, a record that was given a
\* sequence number is in one buffer, in one batch or in the file, and never
\* written twice; only a failed write gives records up (sqpoll_journal.rs).
RecordsHeldOnce ==
    \A s \in 1..latest_sequence :
        /\ InMemory(s) <= 1 /\ Copies(s, "header") <= 1 /\ Copies(s, "record") <= 1
        /\ InMemory(s) = 0 => Written(s) \/ s \in dropped

\* When the flusher has ended, nothing is left behind: "Final drain on
\* termination: drain both partitions to guarantee zero lost records"
\* (sqpoll_journal.rs:217).
ClosedIsWritten ==
    drain_at["worker"].pc = "done" => \A s \in 1..latest_sequence : Written(s) \/ s \in dropped

\* As long as no push came late, no two drains overlapped and nothing failed,
\* the fence covers only records in the file, frames are whole, and
\* flush_sync answers when everything pushed before is synced
\* (sqpoll_journal.rs:95-103, 254-269).
FenceExact ==
    ~ disturbed /\ dropped = {} =>
        /\ \A s \in 1..MaxSequence : is_durable(s) => Written(s)
        /\ \A k \in DOMAIN halves : halves[k].part = "record" =>
               k > 1 /\ halves[k - 1] = [sequence |-> halves[k].sequence, part |-> "header"]
        /\ \A s \in 1..answered : WrittenWithin(s, synced_len)

\* The asynchronous journal loses no record and moves its fence in order.
SqpollSound == SqpollTypeOK /\ RecordsHeldOnce /\ ClosedIsWritten /\ FenceExact

\* "Returns true if the specified transaction sequence number has been
\* physically written and synchronized to disk via fdatasync"
\* (sqpoll_journal.rs:101-102): not so when a thread that checked the active
\* buffer before it was switched gets a later number in the older buffer.
DurableIsWritten == \A s \in 1..MaxSequence : is_durable(s) => Written(s)
==============================================================================
