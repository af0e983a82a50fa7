--------------------------- MODULE WriteAheadJournal --------------------------
(*****************************************************************************)
(* WriteAheadJournal (crates/eidolon-world/src/wal.rs) over the append-only  *)
(* file of DurableFileJournal (durable_journal.rs).                          *)
(*                                                                           *)
(* append puts a record in the memory ring; flush_pending writes the ring    *)
(* out batch by batch and then calls sync_data.  Each write and the sync     *)
(* can fail, and the machine can stop between any two of them.  The file is  *)
(* a sequence of frames; a frame cut short by a failed write or a crash is   *)
(* torn, and fails the length or checksum test of recover_from_journal.      *)
(* `synced' counts the leading frames that are on stable storage.            *)
(*****************************************************************************)
EXTENDS Naturals, Sequences

CONSTANTS
    Payloads,        \* mutations that are journalled
    CAP,             \* capacity of the ring
    BATCH,           \* records per write_batch (128 in the code)
    FileSink,        \* TRUE: file sink (writes can stop half-way);
                     \* FALSE: all-or-nothing sink (MockDurableStorage)
    MaxLsn,          \* bound: records appended by one process
    MaxEpoch,        \* bound: process incarnations
    MaxFrames        \* bound: frames in the file

ASSUME WalCapAssumption == CAP \in Nat \ {0}
ASSUME WalBatchAssumption == BATCH \in Nat \ {0}
ASSUME SinkAssumption == FileSink \in BOOLEAN
ASSUME WalBoundsAssumption == MaxLsn \in Nat /\ MaxEpoch \in Nat /\ MaxFrames \in Nat

VARIABLES
    current_lsn,     \* highest LSN appended to the ring
    durable_lsn,     \* highest LSN the journal calls flushed
    ring,            \* records waiting in memory
    phase,           \* where flush_pending stands, or "down"
    written,         \* total_flushed of the running flush_pending
    epoch,           \* history: which process incarnation wrote a record
    file,            \* frames in the journal file
    synced,          \* frames on stable storage
    confirmed        \* history: records whose flush_pending returned Ok

walVars == <<current_lsn, durable_lsn, ring, phase, written, epoch, file,
             synced, confirmed>>

Record == [lsn : Nat, epoch : Nat, data : Payloads]

\* A frame of the file: a record, or what is left of one.
Frame == [rec : Record, intact : BOOLEAN]

WalTypeOK ==
    /\ current_lsn \in Nat
    /\ durable_lsn \in Nat
    /\ ring \in Seq(Record)
    /\ phase \in {"idle", "writing", "syncing", "down"}
    /\ written \in Nat
    /\ epoch \in Nat
    /\ file \in Seq(Frame)
    /\ synced \in 0..Len(file)
    /\ confirmed \subseteq Record

WalInit ==
    /\ current_lsn = 0
    /\ durable_lsn = 0
    /\ ring = <<>>
    /\ phase = "idle"
    /\ written = 0
    /\ epoch = 1
    /\ file = <<>>
    /\ synced = 0
    /\ confirmed = {}

-------------------------------------------------------------------------------
whole(r) == [rec |-> r, intact |-> TRUE]
torn(r) == [rec |-> r, intact |-> FALSE]
frames(s) == [i \in 1..Len(s) |-> whole(s[i])]

BatchLen == IF BATCH < Len(ring) THEN BATCH ELSE Len(ring)

\* recover_from_journal: the records before the first torn frame.
recover(f) ==
    {f[i].rec : i \in {j \in DOMAIN f : \A h \in 1..j : f[h].intact}}

\* WriteAheadJournal::append, refused with WalBufferFull when the ring is full.
append(d) ==
    /\ phase = "idle"
    /\ Len(ring) < CAP
    /\ current_lsn < MaxLsn
    /\ current_lsn' = current_lsn + 1
    /\ ring' = Append(ring, [lsn |-> current_lsn + 1, epoch |-> epoch, data |-> d])
    /\ UNCHANGED <<durable_lsn, phase, written, epoch, file, synced, confirmed>>

-------------------------------------------------------------------------------
(* flush_pending *)

BeginFlush ==
    /\ phase = "idle"
    /\ phase' = "writing"
    /\ written' = 0
    /\ UNCHANGED <<current_lsn, durable_lsn, ring, epoch, file, synced, confirmed>>

\* write_batch succeeds; the batch leaves the ring and durable_lsn follows it.
WriteBatch ==
    /\ phase = "writing"
    /\ ring # <<>>
    /\ Len(file) + BatchLen <= MaxFrames
    /\ file' = file \o frames(SubSeq(ring, 1, BatchLen))
    /\ ring' = SubSeq(ring, BatchLen + 1, Len(ring))
    /\ durable_lsn' = IF ring[BatchLen].lsn > durable_lsn
                        THEN ring[BatchLen].lsn ELSE durable_lsn
    /\ written' = written + BatchLen
    /\ UNCHANGED <<current_lsn, phase, epoch, synced, confirmed>>

\* Mutated form: the batch leaves the ring although its write failed.
WriteBatchFails_evicts ==
    /\ phase = "writing"
    /\ ring # <<>>
    /\ phase' = "idle"
    /\ ring' = SubSeq(ring, BatchLen + 1, Len(ring))
    /\ UNCHANGED <<current_lsn, durable_lsn, written, epoch, file, synced, confirmed>>

\* write_batch fails after n whole records, with or without a part of the
\* next one in the file; flush_pending returns the error.
WriteBatchFails ==
    /\ phase = "writing"
    /\ ring # <<>>
    /\ \/ ~FileSink /\ UNCHANGED file
       \/ /\ FileSink
          /\ Len(file) + BatchLen <= MaxFrames
          /\ \E n \in 0..(BatchLen - 1) :
               \/ file' = file \o frames(SubSeq(ring, 1, n))
               \/ file' = file \o frames(SubSeq(ring, 1, n)) \o <<torn(ring[n + 1])>>
    /\ phase' = "idle"
    /\ UNCHANGED <<current_lsn, durable_lsn, ring, written, epoch, synced, confirmed>>

\* The ring is empty: sync if anything was written, else return Ok(0).
EndWrites ==
    /\ phase = "writing"
    /\ ring = <<>>
    /\ phase' = IF written > 0 THEN "syncing" ELSE "idle"
    /\ UNCHANGED <<current_lsn, durable_lsn, ring, written, epoch, file, synced,
                   confirmed>>

\* Mutated form: Ok is returned without sync_data.
SyncOk_no_sync ==
    /\ phase = "syncing"
    /\ phase' = "idle"
    /\ confirmed' = confirmed \union
         {file[i].rec : i \in {j \in DOMAIN file : file[j].rec.epoch = epoch}}
    /\ UNCHANGED <<current_lsn, durable_lsn, ring, written, epoch, file, synced>>

SyncOk ==
    /\ phase = "syncing"
    /\ phase' = "idle"
    /\ synced' = Len(file)
    /\ confirmed' = confirmed \union
         {file[i].rec : i \in {j \in DOMAIN file : file[j].rec.epoch = epoch}}
    /\ UNCHANGED <<current_lsn, durable_lsn, ring, written, epoch, file>>

SyncFails ==
    /\ phase = "syncing"
    /\ phase' = "idle"
    /\ UNCHANGED <<current_lsn, durable_lsn, ring, written, epoch, file, synced,
                   confirmed>>

-------------------------------------------------------------------------------
\* What may have reached the file when the process or the host stops: the
\* batch being written comes after what is there already.
InFlight == IF phase = "writing"
              THEN file \o frames(SubSeq(ring, 1, BatchLen)) ELSE file

\* Everything on stable storage survives, then any part of the rest, cut
\* possibly in the middle of a frame.  Memory is lost.
Crash ==
    /\ phase # "down"
    /\ \E n \in synced..Len(InFlight) :
          \/ /\ n <= MaxFrames
             /\ file' = SubSeq(InFlight, 1, n)
          \/ /\ n < Len(InFlight) /\ n < MaxFrames /\ FileSink
             /\ file' = Append(SubSeq(InFlight, 1, n), torn(InFlight[n + 1].rec))
    /\ synced' = Len(file')
    /\ phase' = "down"
    /\ ring' = <<>>
    /\ UNCHANGED <<current_lsn, durable_lsn, written, epoch, confirmed>>

\* A new process opens the same file for appending: the journal starts with
\* LSN 0 and the file keeps its torn tail.
Restart ==
    /\ phase = "down"
    /\ epoch < MaxEpoch
    /\ epoch' = epoch + 1
    /\ phase' = "idle"
    /\ current_lsn' = 0
    /\ durable_lsn' = 0
    /\ written' = 0
    /\ UNCHANGED <<ring, file, synced, confirmed>>

WalStep ==
    \/ \E d \in Payloads : append(d)
    \/ BeginFlush
    \/ WriteBatch
    \/ WriteBatchFails
    \/ EndWrites
    \/ SyncOk
    \/ SyncFails

WalNext == WalStep \/ Crash \/ Restart

WalSpec == WalInit /\ [][WalNext]_walVars

\* A process that is not stopped: flush_pending runs to its end once it is
\* called, and the storage is not out for ever.  Nothing makes anybody call it.
WalLiveSpec ==
    /\ WalInit /\ [][WalStep]_walVars
    /\ SF_walVars(WriteBatch)
    /\ WF_walVars(EndWrites)
    /\ SF_walVars(SyncOk)
    /\ WF_walVars(SyncOk \/ SyncFails)

-------------------------------------------------------------------------------
\* While the process is up the ring holds exactly the records above
\* durable_lsn, in order: no LSN is skipped, repeated or reordered between
\* append, failed flushes and retries (wal.rs:440-498).
RingHoldsTheRest ==
    phase # "down" =>
        /\ current_lsn = durable_lsn + Len(ring)
        /\ \A i \in 1..Len(ring) : ring[i].lsn = durable_lsn + i

\* Everything the journal calls flushed has a whole frame in the file, even
\* after batches that failed half-way and were written again.
FlushedIsInFile ==
    phase # "down" =>
        \A n \in 1..durable_lsn :
            \E i \in DOMAIN file :
                file[i].intact /\ file[i].rec.lsn = n /\ file[i].rec.epoch = epoch

\* Whatever fails, each process leaves its records in the file without gaps:
\* a frame's predecessor in LSN order is whole and stands before it.
NoGapsInFile ==
    \A i \in DOMAIN file :
        file[i].rec.lsn > 1 =>
            \E j \in 1..(i - 1) :
                /\ file[j].intact
                /\ file[j].rec.epoch = file[i].rec.epoch
                /\ file[j].rec.lsn = file[i].rec.lsn - 1

\* r was appended before s.
Precedes(r, s) == r.epoch < s.epoch \/ (r.epoch = s.epoch /\ r.lsn < s.lsn)

\* When flush_pending returned Ok, no crash takes the records from the file.
\* Recovery stops at the first torn frame (durable_journal.rs:125-135): it
\* misses a confirmed record only behind the torn frame of a record that was
\* not appended after it, so what is torn never hides what was there before.
ConfirmedSurvivesCrash ==
    /\ \A r \in confirmed : \E i \in 1..synced : file[i].intact /\ file[i].rec = r
    /\ \A r \in confirmed \ recover(file) :
           \E i \in DOMAIN file : ~ file[i].intact /\ ~ Precedes(r, file[i].rec)

\* flush_pending is called again and again: by every transaction that is to be
\* durable (transaction.rs:651) and by nothing else.
KeepsFlushing == []<>(phase = "writing")

\* Failed batches are retried: every appended record is eventually a whole
\* frame of the file if flushes keep coming and the storage is not out for
\* ever (wal.rs:468-496).
EventuallyWritten ==
    KeepsFlushing =>
        \A n \in 1..MaxLsn :
            (current_lsn >= n) ~>
                (\E i \in DOMAIN file : file[i].intact /\ file[i].rec.lsn = n)

\* wal.rs:467: "If storage fails, all pending records remain intact in memory
\* for subsequent retry", so every record eventually reaches stable storage
\* if flushes keep coming and the storage is not out for ever.
EventuallySynced ==
    KeepsFlushing =>
        \A n \in 1..MaxLsn :
            (current_lsn >= n) ~>
                (\E i \in 1..synced : file[i].intact /\ file[i].rec.lsn = n)

\* wal.rs:466: durable_lsn advances "only upon successful storage
\* synchronization": between calls every record up to durable_lsn is synced.
DurableLsnIsSynced ==
    phase = "idle" =>
        \A n \in 1..durable_lsn :
            \E i \in 1..synced :
                file[i].intact /\ file[i].rec.lsn = n /\ file[i].rec.epoch = epoch

\* durable_journal.rs:5: a confirmed record is there for recovery after any
\* crash (RPO = 0).
ConfirmedIsRecovered == confirmed \subseteq recover(file)

\* No record is lost, repeated out of place or reordered on its way from
\* append to the file, through failed and torn batches, retries and crashes
\* (wal.rs:440-498, durable_journal.rs:160-200).
FlushLosesNothing ==
    /\ WalTypeOK
    /\ RingHoldsTheRest
    /\ FlushedIsInFile
    /\ NoGapsInFile

\* No LSN is lost or repeated between the ring and the file while writes
\* fail; a record confirmed to a caller stays whole in the file through every
\* crash, torn write and restart, and recovery returns it unless a frame was
\* torn before it was appended (wal.rs:388-496, durable_journal.rs:130).
ConfirmedSurvives == FlushLosesNothing /\ ConfirmedSurvivesCrash
===============================================================================
