------------------------------- MODULE MCServer -------------------------------
(*****************************************************************************)
(* Inside one server, for TLC: the lock registry with every operation and as *)
(* TransactionManager uses it, the command fence, the identity registry, the *)
(* pool of workers on its injector, the deque with an owner that also pops   *)
(* and with fewer slots than jobs, the entity storages and the sectors, the  *)
(* operation of the cluster, and what runs in a tick: creatures, behaviour   *)
(* trees, the event bus and scripts.  They share no state, so every          *)
(* behaviour exercises one of them while the others stay as they were        *)
(* created.                                                                  *)
(*****************************************************************************)
EXTENDS GenerationLock, AuthorityFencer, IdentityRegistry, WorkStealingPool,
        EntityStorage, Operations, Behaviours

CONSTANT FewSlots       \* slots of the deque whose positions wrap around

VARIABLE unit           \* the part this behaviour exercises

Wrapping == INSTANCE WorkStealingPool WITH Capacity <- FewSlots

authorityVars == <<lockVars, fenceVars, identityVars>>
serverVars == <<unit, authorityVars, poolVars, storageVars, operationsVars, behaviourVars>>

ServerInit ==
    /\ LockInit /\ FenceInit /\ IdentityInit
    /\ StorageInit /\ OperationsInit /\ BehavioursInit
    /\ active = TRUE /\ handled = {}
    /\ \/ unit \in {"lock", "manager", "fence", "identity", "pool", "deque", "arrays",
                    "blocks", "chunk", "sectors", "admin", "pace", "pods", "rolling",
                    "creature", "tree", "events", "scripts"}
          /\ with_capacity
       \/ unit = "wrapping" /\ Wrapping!with_capacity

AuthorityNext ==
    \/ unit = "lock" /\ LockNext /\ UNCHANGED <<fenceVars, identityVars>>
    \/ unit = "manager" /\ ManagerNext /\ UNCHANGED <<fenceVars, identityVars>>
    \/ unit = "fence" /\ FenceNext /\ UNCHANGED <<lockVars, identityVars>>
    \/ unit = "identity" /\ IdentityNext /\ UNCHANGED <<lockVars, fenceVars>>

SchedulerNext ==
    \/ unit = "pool" /\ PoolNext
    \/ unit = "deque" /\ DequeNext /\ UNCHANGED <<active, handled>>
    \/ unit = "wrapping" /\ Wrapping!DequeNext /\ UNCHANGED <<active, handled>>

StorageNext ==
    \/ unit = "arrays" /\ SoaNext
    \/ unit = "blocks" /\ BlocksNext
    \/ unit = "chunk" /\ ChunkNext
    \/ unit = "sectors" /\ SectorsNext

OperationsNext ==
    \/ unit = "admin" /\ AdminNext /\ UNCHANGED <<paceVars, podVars, rollingVars>>
    \/ unit = "pace" /\ PaceNext /\ UNCHANGED <<adminVars, podVars, rollingVars>>
    \/ unit = "pods" /\ PodNext /\ UNCHANGED <<adminVars, paceVars, rollingVars>>
    \/ unit = "rolling" /\ RollingNext /\ UNCHANGED <<adminVars, paceVars, podVars>>

BehavioursNext ==
    \/ unit = "creature" /\ NpcNext /\ UNCHANGED <<treeVars, busVars, vmVars>>
    \/ unit = "tree" /\ TreeNext /\ UNCHANGED <<npcVars, busVars, vmVars>>
    \/ unit = "events" /\ BusNext /\ UNCHANGED <<npcVars, treeVars, vmVars>>
    \/ unit = "scripts" /\ VmNext /\ UNCHANGED <<npcVars, treeVars, busVars>>

ServerNext ==
    /\ UNCHANGED unit
    /\ \/ AuthorityNext /\ UNCHANGED <<poolVars, storageVars, operationsVars, behaviourVars>>
       \/ SchedulerNext /\ UNCHANGED <<authorityVars, storageVars, operationsVars, behaviourVars>>
       \/ StorageNext /\ UNCHANGED <<authorityVars, poolVars, operationsVars, behaviourVars>>
       \/ OperationsNext /\ UNCHANGED <<authorityVars, poolVars, storageVars, behaviourVars>>
       \/ BehavioursNext /\ UNCHANGED <<authorityVars, poolVars, storageVars, operationsVars>>

(* The fairness of PoolSpec, for the pool's workers. *)
ServerSpec ==
    /\ ServerInit /\ [][ServerNext]_serverVars
    /\ \A w \in Thieves :
           WF_poolVars(unit = "pool" /\ (WorkerLoop(w) \/ WorkerSteal(w) \/ WorkerHandle(w)))

\* The cluster's servers run versions 1 and 2 when the upgrade begins.
MixedVersions == <<1, 2>>

\* A script for every kind of instruction, and ones that run out of gas, of
\* stack and of program.
SamplePrograms ==
    {<< <<"Push", 1>>, <<"StoreVar", 0>>, <<"LoadVar", 0>>, <<"Halt", 0>> >>,
     << <<"LoadVar", 0>>, <<"Push", 2>>, <<"Add", 0>>, <<"Halt", 0>> >>,
     << <<"Push", 3>>, <<"Dup", 0>>, <<"Mul", 0>>, <<"StoreVar", 0>>, <<"Jump", 1>> >>,
     << <<"Push", -4>>, <<"Push", -1>>, <<"Div", 0>>, <<"JumpIfTrue", 0>>, <<"CallSyscall", 1>> >>,
     << <<"LoadVar", 0>>, <<"JumpIfFalse", 3>>, <<"Jump", 7>>, <<"Halt", 0>> >>}

-------------------------------------------------------------------------------
\* At any moment one session can write under a lock, whatever tokens are kept
\* from earlier grants; and as TransactionManager uses the registry (it never
\* releases a lock) a superseded token is never accepted again and a
\* generation names one session (lock.rs:190-290).
OneWriter ==
    /\ SingleWriter
    /\ unit = "manager" => SupersededTokensRejected /\ OneSessionPerGeneration

Abstract == INSTANCE AbstractQueue
                WITH Elements <- Jobs, queue <- IF unit = "wrapping" THEN <<>> ELSE Items

(* While no slot is used twice the deque is linearizable: every step adds the *)
(* newest job within the capacity, gives the owner the newest or a thief the  *)
(* oldest, or changes nothing (work_stealing.rs).                             *)
Linearizable == Abstract!DequeSpec

(* Every job submitted to the pool is handled, unless the pool is shut down  *)
(* first, as long as no slot is used twice; and shutting down loses no job a *)
(* worker has already won (work_stealing.rs).                                *)
JobsHandled == unit = "pool" => JobsRun /\ WonJobsRun
===============================================================================
