------------------------------ MODULE MCJournals ------------------------------
(*****************************************************************************)
(* What survives a crash, for TLC: the ring in memory, the write-ahead       *)
(* journal over one file, the replicated files, the SQPOLL journal, the      *)
(* flight recorder and the images of hibernating accounts.  They share no    *)
(* state, so every behaviour exercises one of them while the others stay as  *)
(* they were created.                                                        *)
(*****************************************************************************)
EXTENDS WalRingBuffer, WriteAheadJournal, ReplicatedJournal, SqpollJournal, Snapshots

VARIABLE layer

(* A process that is never stopped, over storage that takes all or nothing. *)
Steady == INSTANCE WriteAheadJournal WITH FileSink <- FALSE

walLayerVars == <<ringVars, walVars, replVars>>
journalVars == <<layer, walLayerVars, sqpollVars, snapshotVars>>

JournalsInit ==
    /\ layer \in {"ring", "file", "steady", "replicated", "sqpoll", "recorder", "hibernation"}
    /\ RingInit /\ WalInit /\ ReplInit /\ SqpollInit /\ SnapshotInit
    /\ layer # "replicated" =>
           /\ mode = "LocalOnly" /\ required_acks = Cardinality(Nodes)
           /\ ~ tearing /\ ~ retrying

JournalsNext ==
    /\ UNCHANGED layer
    /\ \/ /\ \/ layer = "ring" /\ RingNext /\ UNCHANGED <<walVars, replVars>>
             \/ layer = "file" /\ WalNext /\ UNCHANGED <<ringVars, replVars>>
             \/ layer = "steady" /\ Steady!WalStep /\ UNCHANGED <<ringVars, replVars>>
             \/ layer = "replicated" /\ ReplNext /\ UNCHANGED <<ringVars, walVars>>
          /\ UNCHANGED <<sqpollVars, snapshotVars>>
       \/ /\ layer = "sqpoll" /\ SqpollNext
          /\ UNCHANGED <<walLayerVars, snapshotVars>>
       \/ /\ \/ layer = "recorder" /\ RecorderNext /\ UNCHANGED hibernationVars
             \/ layer = "hibernation" /\ HibernationNext /\ UNCHANGED recorderVars
          /\ UNCHANGED <<walLayerVars, sqpollVars>>

(* The fairness of WalLiveSpec, for the process that is never stopped. *)
JournalsSpec ==
    /\ JournalsInit /\ [][JournalsNext]_journalVars
    /\ SF_walVars(layer = "steady" /\ WriteBatch)
    /\ WF_walVars(layer = "steady" /\ EndWrites)
    /\ SF_walVars(layer = "steady" /\ SyncOk)
    /\ WF_walVars(layer = "steady" /\ (SyncOk \/ SyncFails))

-------------------------------------------------------------------------------
(* Failed batches are retried: every record appended by a process that goes  *)
(* on is eventually a whole frame of the file, if flush_pending keeps being  *)
(* called and the storage is not out for ever (wal.rs:468-496).              *)
SteadyWritten == layer = "steady" => EventuallyWritten
===============================================================================
