--------------------------- MODULE ReplicatedJournal --------------------------
(*****************************************************************************)
(* ReplicatedJournalSink (crates/eidolon-world/src/replicated_journal.rs):   *)
(* one primary and several replica journal files, each a                     *)
(* DurableFileJournal.  append_and_replicate writes and syncs the primary,   *)
(* then the replicas one by one; every write can fail, leaving nothing, a    *)
(* whole record whose sync failed, or a torn frame.  The process can stop    *)
(* between two writes and hosts can be lost with their journal.  After that  *)
(* recover_quorum reads what is left, or one replica is promoted.            *)
(*****************************************************************************)
EXTENDS Naturals, Sequences, FiniteSets

CONSTANTS
    Primary,         \* node of the primary journal
    Replicas,        \* nodes of the replica journals
    Quorums,         \* values of required_acks that are considered
    Modes,           \* replication modes the operator switches between
    MaxReplLsn,      \* bound on LSNs
    MaxReplFrames,   \* bound on the frames of one journal
    MaxLost          \* bound on lost hosts

ASSUME ReplicaAssumption ==
    /\ Primary \notin Replicas /\ IsFiniteSet(Replicas)
    /\ Quorums \subseteq Nat /\ {MaxReplLsn, MaxReplFrames} \subseteq Nat

VARIABLES
    required_acks,   \* of SynchronousQuorum and of recover_quorum
    tearing,         \* TRUE: a failed write can leave a torn frame
    retrying,        \* TRUE: the caller repeats a refused record;
                     \* FALSE: it goes on with the next LSN
    mode,            \* active ReplicationMode
    journal,         \* node -> frames of its journal file
    lsn,             \* LSN of the record being appended or next to append
    replPhase,       \* "idle", "primary", "replicas" or "down"
    todo,            \* replicas still to be written for this record
    acks,            \* acknowledgements counted for this record
    lost,            \* hosts lost for good
    acknowledged,    \* history: LSNs answered Ok under SynchronousQuorum
    promoted         \* the journal of the promoted replica, if any

settings == <<required_acks, tearing, retrying>>
replVars == <<settings, mode, journal, lsn, replPhase, todo, acks, lost, acknowledged, promoted>>

Nodes == {Primary} \union Replicas
Frames == [lsn : 1..MaxReplLsn, intact : BOOLEAN]

ReplTypeOK ==
    /\ required_acks \in Quorums /\ tearing \in BOOLEAN /\ retrying \in BOOLEAN
    /\ mode \in Modes
    /\ journal \in [Nodes -> Seq(Frames)]
    /\ lsn \in 1..(MaxReplLsn + 1)
    /\ replPhase \in {"idle", "primary", "replicas", "down"}
    /\ todo \subseteq Replicas
    /\ acks \in 0..Cardinality(Nodes)
    /\ lost \subseteq Nodes
    /\ acknowledged \subseteq 1..MaxReplLsn
    /\ \A f \in promoted : f \in Seq(Frames)

ReplInit ==
    /\ required_acks \in Quorums /\ tearing \in BOOLEAN /\ retrying \in BOOLEAN
    /\ mode \in Modes
    /\ journal = [n \in Nodes |-> <<>>]
    /\ lsn = 1
    /\ replPhase = "idle"
    /\ todo = {}
    /\ acks = 0
    /\ lost = {}
    /\ acknowledged = {}
    /\ promoted = {}

-------------------------------------------------------------------------------
(* append_and_replicate.  The code walks the replicas in registration order; *)
(* no property depends on it, so any order is allowed.                       *)

\* append_and_sync on node n, ok or not.
append_and_sync(n, ok) ==
    /\ Len(journal[n]) < MaxReplFrames
    /\ \/ /\ journal' = [journal EXCEPT ![n] = Append(@, [lsn |-> lsn, intact |-> TRUE])]
       \/ /\ ~ok
          /\ UNCHANGED journal
       \/ /\ ~ok /\ tearing
          /\ journal' = [journal EXCEPT ![n] = Append(@, [lsn |-> lsn, intact |-> FALSE])]

\* The caller's next LSN after the call returned Ok (or not).
NextLsn(ok) == IF ok \/ ~retrying THEN lsn + 1 ELSE lsn

Return(ok) ==
    /\ lsn' = NextLsn(ok)
    /\ replPhase' = "idle"
    /\ acks' = 0
    /\ todo' = {}
    /\ acknowledged' = IF ok /\ mode = "SynchronousQuorum"
                      THEN acknowledged \union {lsn} ELSE acknowledged

BeginAppend ==
    /\ replPhase = "idle"
    /\ lsn <= MaxReplLsn
    /\ replPhase' = "primary"
    /\ UNCHANGED <<settings, mode, journal, lsn, todo, acks, lost, acknowledged, promoted>>

PrimaryOk ==
    /\ replPhase = "primary"
    /\ append_and_sync(Primary, TRUE)
    /\ IF mode = "LocalOnly"
         THEN Return(TRUE)
         ELSE /\ replPhase' = "replicas"
              /\ todo' = Replicas
              /\ acks' = 1
              /\ UNCHANGED <<lsn, acknowledged>>
    /\ UNCHANGED <<settings, mode, lost, promoted>>

\* The primary fails: the error is returned before any replica is written.
PrimaryFails ==
    /\ replPhase = "primary"
    /\ append_and_sync(Primary, FALSE)
    /\ Return(FALSE)
    /\ UNCHANGED <<settings, mode, lost, promoted>>

WriteReplica(n, ok) ==
    /\ replPhase = "replicas"
    /\ n \in todo
    /\ append_and_sync(n, ok)
    /\ acks' = IF ok THEN acks + 1 ELSE acks
    /\ todo' = todo \ {n}
    /\ UNCHANGED <<settings, mode, lsn, replPhase, lost, acknowledged, promoted>>

\* Mutated form: one acknowledgement less is enough.
EndAppend_one_less ==
    /\ replPhase = "replicas"
    /\ todo = {}
    /\ Return(mode = "AsynchronousMirror" \/ acks + 1 >= required_acks)
    /\ UNCHANGED <<settings, mode, journal, lost, promoted>>

EndAppend ==
    /\ replPhase = "replicas"
    /\ todo = {}
    /\ Return(mode = "AsynchronousMirror" \/ acks >= required_acks)
    /\ UNCHANGED <<settings, mode, journal, lost, promoted>>

set_mode(m) ==
    /\ replPhase = "idle"
    /\ m # mode
    /\ mode' = m
    /\ UNCHANGED <<settings, journal, lsn, replPhase, todo, acks, lost, acknowledged, promoted>>

\* The process stops, possibly between two journals.
ProcessStops ==
    /\ replPhase # "down"
    /\ replPhase' = "down"
    /\ todo' = {}
    /\ acks' = 0
    /\ UNCHANGED <<settings, mode, journal, lsn, lost, acknowledged, promoted>>

LoseHost(n) ==
    /\ replPhase = "down"
    /\ n \notin lost
    /\ Cardinality(lost) < MaxLost
    /\ lost' = lost \union {n}
    /\ UNCHANGED <<settings, mode, journal, lsn, replPhase, todo, acks, acknowledged, promoted>>

\* A surviving replica's journal is copied and opened as the new primary.
promote_to_primary(n) ==
    /\ replPhase = "down"
    /\ promoted = {}
    /\ n \in Replicas \ lost
    /\ promoted' = {journal[n]}
    /\ UNCHANGED <<settings, mode, journal, lsn, replPhase, todo, acks, lost, acknowledged>>

ReplNext ==
    \/ BeginAppend
    \/ PrimaryOk
    \/ PrimaryFails
    \/ \E n \in Replicas, ok \in BOOLEAN : WriteReplica(n, ok)
    \/ EndAppend
    \/ \E m \in Modes : set_mode(m)
    \/ ProcessStops
    \/ \E n \in Nodes : LoseHost(n)
    \/ \E n \in Replicas : promote_to_primary(n)

ReplSpec == ReplInit /\ [][ReplNext]_replVars

-------------------------------------------------------------------------------
(* recover_quorum *)

\* recover_from_journal: positions before the first torn frame.
Readable(f) == {i \in DOMAIN f : \A h \in 1..i : f[h].intact}

Surviving == Nodes \ lost

\* ack_map: readable records with LSN l in the surviving journals.
AckCount(l) ==
    Cardinality({c \in Surviving \X (1..MaxReplFrames) :
                    c[2] \in Readable(journal[c[1]]) /\ journal[c[1]][c[2]].lsn = l})

\* The LSNs returned: the contiguous ones from 1 on that reach the threshold,
\* and none if no acknowledgement is asked for.
recover_quorum ==
    {l \in 1..MaxReplLsn : required_acks # 0 /\ \A k \in 1..l : AckCount(k) >= required_acks}

-------------------------------------------------------------------------------
HasCopy(n, l) == \E i \in DOMAIN journal[n] : journal[n][i].intact /\ journal[n][i].lsn = l

\* A record answered Ok in quorum mode has a whole copy on required_acks
\* different nodes, however writes failed, were torn or repeated
\* (replicated_journal.rs:132-143).
ConfirmedOnQuorum ==
    \A l \in acknowledged : Cardinality({n \in Nodes : HasCopy(n, l)}) >= required_acks

\* A record that some journal has was attempted on the primary first; a
\* replica is never ahead of the primary (replicated_journal.rs:115).
PrimaryFirst ==
    \A n \in Replicas, l \in 1..MaxReplLsn : HasCopy(n, l) => HasCopy(Primary, l)

\* Every acknowledged record comes back from recover_quorum while all hosts live:
\* only "Incomplete transactions that failed to reach quorum are safely
\* discarded" (replicated_journal.rs:161).  True when writes fail cleanly and
\* every LSN so far was acknowledged by a quorum, as for a caller that repeats
\* refused records and never leaves SynchronousQuorum, unless the quorum is
\* nobody, which recovery takes for a request of nothing.
ConfirmedRecovered ==
    ~tearing /\ lost = {} /\ acknowledged = 1..(lsn - 1) /\ required_acks # 0 =>
        acknowledged \subseteq recover_quorum

\* With a caller that never repeats an LSN, recover_quorum returns only
\* records that required_acks nodes hold (replicated_journal.rs:157-161).
RecoveredOnQuorum ==
    ~retrying => \A l \in recover_quorum :
        Cardinality({n \in Surviving : HasCopy(n, l)}) >= required_acks

\* When required_acks is the whole group, any promoted replica has every
\* acknowledged record (replicated_journal.rs:209-224).
PromotedHasConfirmed ==
    required_acks = Cardinality(Nodes) =>
      \A f \in promoted, l \in acknowledged : \E i \in DOMAIN f : f[i].intact /\ f[i].lsn = l

\* What a quorum acknowledged is on a quorum, the primary first, and recovery
\* and promotion return it and nothing a quorum does not hold, as far as each
\* part says (replicated_journal.rs:105-224).
QuorumIsKept ==
    /\ ReplTypeOK
    /\ ConfirmedOnQuorum
    /\ PrimaryFirst
    /\ ConfirmedRecovered
    /\ RecoveredOnQuorum
    /\ PromotedHasConfirmed
===============================================================================
