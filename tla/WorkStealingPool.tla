--------------------------- MODULE WorkStealingPool ---------------------------
(* The lock-free work-stealing deque (eidolon-server/src/work_stealing.rs),   *)
(* one action per access to shared memory, and the worker pool on it.  The    *)
(* fences and the acquire and release orders of the code are taken to give    *)
(* sequential consistency.  Jobs are numbered in the order they are pushed.   *)
EXTENDS Integers, FiniteSets, FiniteSetsExt, SequencesExt

CONSTANTS
    Capacity,       \* slots: a power of two, for which the code's & mask is % Capacity
    Thieves,
    MaxJobs         \* bound: jobs the owner pushes

ASSUME DequeAssumption == Capacity \in Nat \ {0} /\ MaxJobs \in Nat

EMPTY_SLOT == 0
Jobs == 1..MaxJobs

VARIABLES
    top, bottom,    \* AtomicUsize, never reduced modulo the capacity
    slots,          \* [0..Capacity - 1 -> job or EMPTY_SLOT]
    owner,          \* the owner's program counter and locals
    thief,          \* [thief -> its program counter and locals]
    pushed,         \* jobs pushed so far
    taken,          \* [job -> times pop or steal returned it]
    active,         \* AtomicBool: the workers keep looping
    handled         \* jobs whose handler has run

dequeVars == <<top, bottom, slots, owner, thief, pushed, taken>>

Slot(i) == i % Capacity
Idle == [pc |-> "idle", b |-> 0, t |-> 0, val |-> EMPTY_SLOT]
Took(j) == taken' = IF j = EMPTY_SLOT THEN taken ELSE [taken EXCEPT ![j] = @ + 1]

-----------------------------------------------------------------------------
(* push, by the owner *)

IsFull(b, t) == b - t >= Capacity

PushCheck ==
    /\ owner.pc = "idle" /\ pushed < MaxJobs
    /\ owner' = IF IsFull(bottom, top) THEN owner
                ELSE [owner EXCEPT !.pc = "push_slot", !.b = bottom]
    /\ UNCHANGED <<top, bottom, slots, thief, pushed, taken>>

PushSlot ==
    /\ owner.pc = "push_slot"
    /\ slots' = [slots EXCEPT ![Slot(owner.b)] = pushed + 1]
    /\ owner' = [owner EXCEPT !.pc = "push_bottom"]
    /\ UNCHANGED <<top, bottom, thief, pushed, taken>>

PushBottom ==
    /\ owner.pc = "push_bottom"
    /\ bottom' = owner.b + 1
    /\ pushed' = pushed + 1
    /\ owner' = Idle
    /\ UNCHANGED <<top, slots, thief, taken>>

push == PushCheck \/ PushSlot \/ PushBottom

-----------------------------------------------------------------------------
(* pop, by the owner: bottom is lowered first, and top read after it. *)
PopBottom ==
    /\ owner.pc = "idle"
    /\ IF bottom = 0 /\ top = 0
       THEN UNCHANGED <<bottom, owner>>
       ELSE /\ bottom' = bottom - 1
            /\ owner' = [owner EXCEPT !.pc = "pop_top", !.b = bottom - 1]
    /\ UNCHANGED <<top, slots, thief, pushed, taken>>

PopTop ==
    /\ owner.pc = "pop_top"
    /\ IF top <= owner.b
       THEN owner' = [owner EXCEPT !.pc = "pop_slot", !.t = top] /\ UNCHANGED bottom
       ELSE owner' = Idle /\ bottom' = top
    /\ UNCHANGED <<top, slots, thief, pushed, taken>>

(* Mutated form: the last job is taken without racing the thieves for it. *)
PopSlot_no_race ==
    /\ owner.pc = "pop_slot"
    /\ slots' = [slots EXCEPT ![Slot(owner.b)] = EMPTY_SLOT]
    /\ Took(slots[Slot(owner.b)])
    /\ owner' = Idle
    /\ UNCHANGED <<top, bottom, thief, pushed>>

PopSlot ==
    /\ owner.pc = "pop_slot"
    /\ slots' = [slots EXCEPT ![Slot(owner.b)] = EMPTY_SLOT]
    /\ IF owner.t = owner.b
       THEN /\ owner' = [owner EXCEPT !.pc = "pop_race", !.val = slots[Slot(owner.b)]]
            /\ UNCHANGED taken
       ELSE owner' = Idle /\ Took(slots[Slot(owner.b)])
    /\ UNCHANGED <<top, bottom, thief, pushed>>

(* The compare-exchange on top for the last job. *)
PopRace ==
    /\ owner.pc = "pop_race"
    /\ IF top = owner.t THEN top' = top + 1 /\ Took(owner.val) ELSE UNCHANGED <<top, taken>>
    /\ owner' = [owner EXCEPT !.pc = "pop_restore"]
    /\ UNCHANGED <<bottom, slots, thief, pushed>>

PopRestore ==
    /\ owner.pc = "pop_restore"
    /\ bottom' = owner.t + 1
    /\ owner' = Idle
    /\ UNCHANGED <<top, slots, thief, pushed, taken>>

pop == PopBottom \/ PopTop \/ PopSlot \/ PopRace \/ PopRestore

-----------------------------------------------------------------------------
(* steal, by any thief *)
StealTop(p) ==
    /\ thief[p].pc = "idle"
    /\ thief' = [thief EXCEPT ![p].pc = "steal_bottom", ![p].t = top]
    /\ UNCHANGED <<top, bottom, slots, owner, pushed, taken>>

(* Mutated form: the last job is left to the owner. *)
StealBottom_leaves_last(p) ==
    /\ thief[p].pc = "steal_bottom"
    /\ thief' = [thief EXCEPT ![p] =
           IF @.t + 1 >= bottom THEN Idle ELSE [@ EXCEPT !.pc = "steal_slot"]]
    /\ UNCHANGED <<top, bottom, slots, owner, pushed, taken>>

StealBottom(p) ==
    /\ thief[p].pc = "steal_bottom"
    /\ thief' = [thief EXCEPT ![p] =
           IF @.t >= bottom THEN Idle ELSE [@ EXCEPT !.pc = "steal_slot"]]
    /\ UNCHANGED <<top, bottom, slots, owner, pushed, taken>>

(* Mutated form: the slot after the one at top is read. *)
StealSlot_next(p) ==
    /\ thief[p].pc = "steal_slot"
    /\ LET val == slots[Slot(thief[p].t + 1)]
       IN  thief' = [thief EXCEPT ![p] = IF val = EMPTY_SLOT THEN Idle
                                         ELSE [@ EXCEPT !.pc = "steal_race", !.val = val]]
    /\ UNCHANGED <<top, bottom, slots, owner, pushed, taken>>

StealSlot(p) ==
    /\ thief[p].pc = "steal_slot"
    /\ LET val == slots[Slot(thief[p].t)]
       IN  thief' = [thief EXCEPT ![p] = IF val = EMPTY_SLOT THEN Idle
                                         ELSE [@ EXCEPT !.pc = "steal_race", !.val = val]]
    /\ UNCHANGED <<top, bottom, slots, owner, pushed, taken>>

StealRace(p) ==
    /\ thief[p].pc = "steal_race"
    /\ IF top = thief[p].t
       THEN /\ top' = top + 1 /\ Took(thief[p].val)
            /\ thief' = [thief EXCEPT ![p].pc = "steal_clear"]
       ELSE thief' = [thief EXCEPT ![p] = Idle] /\ UNCHANGED <<top, taken>>
    /\ UNCHANGED <<bottom, slots, owner, pushed>>

(* The slot is emptied after the race is won. *)
StealClear(p) ==
    /\ thief[p].pc = "steal_clear"
    /\ slots' = [slots EXCEPT ![Slot(thief[p].t)] = EMPTY_SLOT]
    /\ thief' = [thief EXCEPT ![p] = Idle]
    /\ UNCHANGED <<top, bottom, owner, pushed, taken>>

steal(p) == StealTop(p) \/ StealBottom(p) \/ StealSlot(p) \/ StealRace(p) \/ StealClear(p)

-----------------------------------------------------------------------------
with_capacity ==
    /\ top = 0 /\ bottom = 0
    /\ slots = [i \in 0..Capacity - 1 |-> EMPTY_SLOT]
    /\ owner = Idle
    /\ thief = [p \in Thieves |-> Idle]
    /\ pushed = 0
    /\ taken = [j \in Jobs |-> 0]

DequeNext == push \/ pop \/ \E p \in Thieves : steal(p)

DequeSpec == with_capacity /\ [][DequeNext]_dequeVars

-----------------------------------------------------------------------------
(* The jobs that wait, oldest first. *)
Waiting == {j \in 1..pushed : taken[j] = 0}
Items == SetToSortSeq(Waiting, <)

(* No job is returned twice, whichever of the owner and the thieves race for *)
(* it.                                                                       *)
TakenOnce == \A j \in Jobs : taken[j] <= 1

D == INSTANCE AbstractQueue WITH Elements <- Jobs, queue <- Items

(* The deque is linearizable: every step adds the newest job within the   *)
(* capacity, gives the owner the newest or a thief the oldest, or changes *)
(* nothing.                                                               *)
ImplementsDeque == D!DequeSpec

-----------------------------------------------------------------------------
(* The worker pool: jobs are submitted to one shared injector deque and every *)
(* worker steals from it.  Nothing is ever pushed to the workers' own deques, *)
(* so a worker's pop and its steals from its peers find them empty and only   *)
(* the injector has a state here.                                             *)

poolVars == <<dequeVars, active, handled>>

PoolInit == with_capacity /\ active = TRUE /\ handled = {}

(* submit, by the single thread that owns the pool. *)
submit == push /\ UNCHANGED <<active, handled>>

(* The head of a worker's loop: while active, steal from the injector. *)
WorkerLoop(w) == active /\ StealTop(w) /\ UNCHANGED <<active, handled>>

(* The rest of the steal, ending in the call of the handler if it succeeded. *)
WorkerSteal(w) ==
    /\ StealBottom(w) \/ StealSlot(w) \/ StealRace(w)
    /\ UNCHANGED <<active, handled>>

WorkerHandle(w) ==
    /\ StealClear(w)
    /\ handled' = handled \cup {thief[w].val}
    /\ UNCHANGED active

(* Signals the workers, who look at the flag between two jobs only. *)
shutdown == active /\ active' = FALSE /\ UNCHANGED <<dequeVars, handled>>

PoolNext == submit \/ shutdown \/ \E w \in Thieves : WorkerLoop(w) \/ WorkerSteal(w) \/ WorkerHandle(w)

(* Threads that are runnable run. *)
PoolSpec ==
    /\ PoolInit /\ [][PoolNext]_poolVars
    /\ \A w \in Thieves : WF_poolVars(WorkerLoop(w) \/ WorkerSteal(w) \/ WorkerHandle(w))

-----------------------------------------------------------------------------
(* Every submitted job is handled, unless the pool is shut down first *)
(* (work_stealing.rs, submit and the loop of WorkStealingPool::new).  *)
JobsRun == \A j \in Jobs : (pushed >= j) ~> (j \in handled \/ ~ active)

(* Shutting down loses no job that a worker has already won: once taken, it *)
(* is handled.                                                              *)
WonJobsRun == \A j \in Jobs : (taken[j] = 1) ~> (j \in handled)
=============================================================================
