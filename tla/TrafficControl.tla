----------------------------- MODULE TrafficControl -----------------------------
(*****************************************************************************)
(* What bounds and disturbs a client's traffic in eidolon-net: which packets *)
(* go out under pressure (admission.rs), how many come in and how much       *)
(* memory they may hold (quota.rs), and the harness that loses, delays and   *)
(* duplicates packets (impairment.rs).                                       *)
(*****************************************************************************)
EXTENDS Integers, Sequences, SequencesExt, FiniteSets, FiniteSetsExt, PartialFunctions

CONSTANTS
    MAX_BYTES, MAX_SLOTS, RESERVED,     \* per tick: bytes, packets, bytes for combat alone
    SendSizes, MaxAdmissionTick,
    RATE, BYTE_RATE,                    \* packets and bytes per second
    TICKS_PER_SECOND,                   \* 20 in the code
    ArrivalSizes, Pauses, MaxPoliceTick,
    MEMORY_LIMIT, AllocationSizes, MaxAllocations,
    DelaySlots, TravelTimes, CLONE_DELAY,
    BURST_LENGTH, MaxTravellers, MaxTravelTime

ASSUME TrafficAssumption ==
    /\ {MAX_BYTES, MAX_SLOTS, RESERVED, RATE, BYTE_RATE, MEMORY_LIMIT, CLONE_DELAY, DelaySlots,
        MaxAdmissionTick, MaxPoliceTick, MaxAllocations, MaxTravellers, MaxTravelTime} \subseteq Nat
    /\ {TICKS_PER_SECOND, BURST_LENGTH} \subseteq Nat \ {0}
    /\ UNION {SendSizes, ArrivalSizes, Pauses, AllocationSizes, TravelTimes} \subseteq Nat

VARIABLES
    admission,      \* AdmissionController: tick, allowances used, metrics
    offered,        \* packets offered, class -> how many (history)
    admitted_now,   \* what was admitted this tick, as [class, size] (history)
    policer,        \* SocketRatePolicer and the present tick
    passed_in,      \* packets that came in, as [tick, size] (history)
    allocated_bytes,\* ConnectionMemoryAccountant
    held,           \* allocations not yet released (history)
    harness,        \* NetworkImpairmentHarness: slots, rest of a burst, metrics, the time
    fates,          \* packet -> what became of it (history)
    arrivals        \* copies that arrived, as [packet, due, at] (history)

admissionVars == <<admission, offered, admitted_now>>
quotaVars == <<policer, passed_in, allocated_bytes, held>>
harnessPartVars == <<harness, fates, arrivals>>
trafficVars == <<admissionVars, quotaVars, harnessPartVars>>

SumSizes(s) == FoldLeft(LAMBDA n, x : n + x.size, 0, s)

(* -------------------------------- admission ------------------------------- *)

\* From the highest priority to the lowest, and from no pressure to the worst.
PriorityClasses == 0..4
Pressures == 0..3
CriticalCombat == 0
ImmediateMovement == 1
MidRangeMovement == 2
FarState == 3

NewController ==
    [current_tick |-> 0, bytes_used |-> 0, packets_admitted |-> 0,
     admitted |-> [c \in PriorityClasses |-> 0], shed |-> [c \in PriorityClasses |-> 0]]

general_limit == IF MAX_BYTES > RESERVED THEN MAX_BYTES - RESERVED ELSE 0

remaining_general_budget(a) ==
    IF general_limit > a.bytes_used THEN general_limit - a.bytes_used ELSE 0

\* Whether pressure alone sheds a packet: everything below a class that falls as pressure
\* rises, and every other tick that class itself when the pressure is high.
ShedByPressure(a, class, pressure) ==
    \/ class > FarState + 1 - pressure
    \/ pressure >= 2 /\ class = FarState + 1 - pressure /\ a.current_tick % 2 # 0

\* Mutated form: the slots of a tick are counted, and its bytes are not.
HasRoom_no_bytes(a, size) == a.packets_admitted < MAX_SLOTS

HasRoom(a, size) ==
    a.packets_admitted < MAX_SLOTS /\ a.bytes_used + size <= general_limit

Admits(a, class, size, pressure) ==
    /\ ~ ShedByPressure(a, class, pressure)
    /\ class = CriticalCombat \/ HasRoom(a, size)

try_admit(class, size, pressure) ==
    /\ offered' = [offered EXCEPT ![class] = @ + 1]
    /\ IF Admits(admission, class, size, pressure)
       THEN /\ admission' = [admission EXCEPT !.bytes_used = @ + size, !.packets_admitted = @ + 1,
                                              !.admitted[class] = @ + 1]
            /\ admitted_now' = Append(admitted_now, [class |-> class, size |-> size])
       ELSE /\ admission' = [admission EXCEPT !.shed[class] = @ + 1]
            /\ UNCHANGED admitted_now
    /\ FoldFunction(+, 0, offered) < MaxAdmissionTick * MAX_SLOTS

\* The allowances are renewed when the tick is another one.
advance_tick(tick) ==
    /\ tick <= MaxAdmissionTick
    /\ admission' = IF tick = admission.current_tick THEN admission
                    ELSE [admission EXCEPT !.current_tick = tick, !.bytes_used = 0,
                                           !.packets_admitted = 0]
    /\ admitted_now' = IF tick = admission.current_tick THEN admitted_now ELSE <<>>
    /\ UNCHANGED offered

AdmissionInit ==
    /\ admission = NewController
    /\ offered = [c \in PriorityClasses |-> 0] /\ admitted_now = <<>>

AdmissionNext ==
    \/ \E class \in PriorityClasses, size \in SendSizes, pressure \in Pressures :
           try_admit(class, size, pressure)
    \/ \E step \in {0, 1} : advance_tick(admission.current_tick + step)

-------------------------------------------------------------------------------
(* --------------------------------- quotas --------------------------------- *)

PerTick(rate) == Max({rate \div TICKS_PER_SECOND, 1})

NewPolicer == [packet_tokens |-> RATE, byte_tokens |-> BYTE_RATE, last |-> 0, now |-> 0]

replenish(p, tick) ==
    IF tick <= p.last THEN p
    ELSE [p EXCEPT !.last = tick,
                   !.packet_tokens = Min({@ + (tick - p.last) * PerTick(RATE), RATE}),
                   !.byte_tokens = Min({@ + (tick - p.last) * PerTick(BYTE_RATE), BYTE_RATE})]

\* A datagram arrives: it is dropped unless both buckets have enough.
check_ingress(size) ==
    LET p == replenish(policer, policer.now)
    IN  /\ IF p.packet_tokens < 1 \/ p.byte_tokens < size
           THEN policer' = p /\ UNCHANGED passed_in
           ELSE /\ policer' = [p EXCEPT !.packet_tokens = @ - 1, !.byte_tokens = @ - size]
                /\ passed_in' = Append(passed_in, [tick |-> policer.now, size |-> size])
        /\ UNCHANGED <<allocated_bytes, held>>

PoliceTicks ==
    /\ \E pause \in Pauses : policer' = [policer EXCEPT !.now = @ + pause]
    /\ policer'.now <= MaxPoliceTick
    /\ UNCHANGED <<passed_in, allocated_bytes, held>>

track_allocation(bytes) ==
    /\ Len(held) < MaxAllocations
    /\ allocated_bytes + bytes <= MEMORY_LIMIT
    /\ allocated_bytes' = allocated_bytes + bytes
    /\ held' = Append(held, [size |-> bytes])
    /\ UNCHANGED <<policer, passed_in>>

\* What was allocated is released, in any order.
release_allocation(k) ==
    /\ k \in DOMAIN held
    /\ allocated_bytes' = Max({allocated_bytes - held[k].size, 0})
    /\ held' = RemoveAt(held, k)
    /\ UNCHANGED <<policer, passed_in>>

QuotaInit == policer = NewPolicer /\ passed_in = <<>> /\ allocated_bytes = 0 /\ held = <<>>

QuotaNext ==
    \/ \E size \in ArrivalSizes : check_ingress(size)
    \/ PoliceTicks
    \/ \E bytes \in AllocationSizes : track_allocation(bytes)
    \/ \E k \in 1..MaxAllocations : release_allocation(k)

-------------------------------------------------------------------------------
(* ------------------------------- impairment ------------------------------- *)

NoTraveller == [packet |-> 0, due |-> 0]

NewHarness ==
    [slots |-> [k \in 1..DelaySlots |-> NoTraveller], burst_loss_remaining |-> 0, now |-> 0,
     dropped |-> 0, delayed |-> 0, passed |-> 0, duplicated |-> 0]

delayed_count(h) == Cardinality({k \in 1..DelaySlots : h.slots[k] # NoTraveller})

\* The first free slot takes the packet, if there is one.
enqueue_delayed(h, packet, due) ==
    LET free == {k \in 1..DelaySlots : h.slots[k] = NoTraveller}
    IN  IF free = {} THEN h
        ELSE [h EXCEPT !.slots[Min(free)] = [packet |-> packet, due |-> due]]

Arrived(packet, due) == [packet |-> packet, due |-> due, at |-> harness.now]

\* The generator decides on loss, travel time, duplication and reordering.
process_egress(packet) ==
    /\ packet \notin DOMAIN fates /\ packet = Cardinality(DOMAIN fates) + 1
    /\ \/ /\ harness.burst_loss_remaining > 0
          /\ harness' = [harness EXCEPT !.burst_loss_remaining = @ - 1, !.dropped = @ + 1]
          /\ fates' = With(fates, packet, [copies |-> 0, outcome |-> "Burst"])
          /\ UNCHANGED arrivals
       \/ /\ harness.burst_loss_remaining = 0
          /\ harness' = [harness EXCEPT !.burst_loss_remaining = BURST_LENGTH - 1,
                                        !.dropped = @ + 1]
          /\ fates' = With(fates, packet, [copies |-> 0, outcome |-> "Dropped"])
          /\ UNCHANGED arrivals
       \/ /\ harness.burst_loss_remaining = 0
          /\ \E travel \in TravelTimes, duplicate, reorder \in BOOLEAN :
                LET due == harness.now + travel
                    later == enqueue_delayed(harness, packet, due)
                    queued == (travel > 0 \/ reorder) /\ later # harness
                    cloned == enqueue_delayed(harness, packet, harness.now + CLONE_DELAY)
                    next == IF queued THEN later ELSE IF duplicate THEN cloned ELSE harness
                    now_too == ~ queued \/ duplicate
                IN  /\ harness' = [next EXCEPT
                           !.delayed = IF queued THEN @ + 1 ELSE @,
                           !.passed = IF queued THEN @ ELSE @ + 1,
                           !.duplicated = IF duplicate THEN @ + 1 ELSE @]
                    /\ arrivals' = IF now_too THEN Append(arrivals, Arrived(packet, harness.now))
                                   ELSE arrivals
                    /\ fates' = With(fates, packet,
                           [copies |-> IF duplicate /\ next # harness THEN 2 ELSE 1,
                            outcome |-> IF duplicate THEN "Duplicated"
                                        ELSE IF queued THEN "DelayedUntil" ELSE "PassedImmediate"])

\* The packet that is due the longest, the first slot among equals.
drain_ready ==
    LET ready == {k \in 1..DelaySlots : harness.slots[k] # NoTraveller
                                        /\ harness.slots[k].due <= harness.now}
        oldest == {k \in ready : \A j \in ready : harness.slots[k].due <= harness.slots[j].due}
    IN  /\ ready # {}
        /\ harness' = [harness EXCEPT !.slots[Min(oldest)] = NoTraveller]
        /\ arrivals' = Append(arrivals, Arrived(harness.slots[Min(oldest)].packet,
                                                harness.slots[Min(oldest)].due))
        /\ UNCHANGED fates

TravelTimePasses ==
    /\ harness.now < MaxTravelTime
    /\ harness' = [harness EXCEPT !.now = @ + 1]
    /\ UNCHANGED <<fates, arrivals>>

HarnessPartInit == harness = NewHarness /\ fates = << >> /\ arrivals = <<>>

HarnessPartNext ==
    \/ \E packet \in 1..MaxTravellers : process_egress(packet)
    \/ drain_ready
    \/ TravelTimePasses

TrafficInit == AdmissionInit /\ QuotaInit /\ HarnessPartInit

-------------------------------------------------------------------------------
(* "Strict priority-based packet shedding" (admission.rs:3): whatever is     *)
(* admitted, a packet of a higher class or under less pressure would be too; *)
(* lower classes leave combat its reserve; every packet is counted once.     *)
AdmissionSound ==
    /\ \A class \in PriorityClasses, size \in SendSizes, pressure \in Pressures :
           Admits(admission, class, size, pressure) =>
               /\ \A higher \in 0..class : Admits(admission, higher, size, pressure)
               /\ \A lower \in 0..pressure : Admits(admission, class, size, lower)
    /\ LET general == SelectSeq(admitted_now, LAMBDA x : x.class # CriticalCombat)
       IN  SumSizes(general) <= general_limit /\ Len(general) <= MAX_SLOTS
    /\ admission.bytes_used = SumSizes(admitted_now)
    /\ \A class \in PriorityClasses \ {CriticalCombat}, size \in SendSizes, pressure \in Pressures :
           Admits(admission, class, size, pressure) => size <= remaining_general_budget(admission)
    /\ admission.shed[CriticalCombat] = 0
    /\ \A c \in PriorityClasses : admission.admitted[c] + admission.shed[c] = offered[c]

(* Over any stretch of ticks no more comes in than a full bucket and what    *)
(* that stretch adds (quota.rs); the account is what is held, under its      *)
(* limit.                                                                    *)
QuotasSound ==
    /\ \A i, j \in DOMAIN passed_in : i <= j =>
           LET ticks == passed_in[j].tick - passed_in[i].tick
           IN  /\ j - i + 1 <= RATE + ticks * PerTick(RATE)
               /\ SumSizes(SubSeq(passed_in, i, j)) <= BYTE_RATE + ticks * PerTick(BYTE_RATE)
    /\ allocated_bytes = SumSizes(held) /\ allocated_bytes <= MEMORY_LIMIT

(* The harness never loses a packet it did not say it dropped, however full  *)
(* its delay buffer is; none arrives early; losses come in bursts of the     *)
(* given length (impairment.rs).                                             *)
ImpairmentSound ==
    /\ \A packet \in DOMAIN fates :
           fates[packet].copies =
               Cardinality({k \in 1..DelaySlots : harness.slots[k].packet = packet})
             + Cardinality({k \in DOMAIN arrivals : arrivals[k].packet = packet})
    /\ \A k \in DOMAIN arrivals : arrivals[k].due <= arrivals[k].at
    /\ \A packet \in DOMAIN fates : fates[packet].outcome = "Dropped" =>
           \A later \in (packet + 1)..(packet + BURST_LENGTH - 1) :
               later \in DOMAIN fates => fates[later].outcome = "Burst"
    /\ Cardinality(DOMAIN fates) = harness.dropped + harness.delayed + harness.passed
    /\ delayed_count(harness) <= DelaySlots

(* A client's traffic stays within its bounds.                               *)
TrafficSound == AdmissionSound /\ QuotasSound /\ ImpairmentSound
===============================================================================
