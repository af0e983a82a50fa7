------------------------------ MODULE Behaviours ------------------------------
(*****************************************************************************)
(* What the world does by itself: an autonomous creature with its threat     *)
(* table and leash (eidolon-world/src/threat.rs and npc_ecosystem.rs, stepped *)
(* by the server's tick), the behaviour trees of eidolon-core                *)
(* (behavior_tree.rs), the event bus (event_bus.rs) and the virtual machine  *)
(* of gameplay scripts (script_engine.rs).                                   *)
(*                                                                           *)
(* The creature and the players stand on the z axis, distances are in steps; *)
(* the creature faces +z, as no code turns it.  It decides by its state      *)
(* machine: the tree it carries is never ticked by the manager.              *)
(*****************************************************************************)
EXTENDS Integers, Sequences, SequencesExt, FiniteSets, FiniteSetsExt, PartialFunctions

CONSTANTS
    Foes, NoFoe,            \* player entities, and a value that is none
    Hidden,                 \* players whose stealth exceeds its detection
    Sites,                  \* where players stand
    SpawnOrigin, LeashRadius, HearingRange, SightRange,
    ChaseStep, EvadeStep, HomeRange, AttackRange, LoseRange,
    NearRange, MidRange, MidPeriod,
    THREAT_SLOTS, AggroThreat, Blows, MaxNpcHealth,
    TauntTicks, StaleTicks,
    MaxNpcTick, MaxHits     \* bounds: the ticks; the blows, taunts and decays

CONSTANTS
    MAX_NODES, ChildCounts, \* slots of a behaviour tree (32 in the code); children of a node
    Leaves,                 \* the ids of its leaves
    EVENT_QUEUE_CAPACITY, MAX_SUBSCRIBERS, Subscribers,
    MaxEvents,              \* bound on the events published
    Scripts,                \* bytecode programs, sequences of <<opcode, operand>>
    GasLimits, VM_STACK_CAPACITY, VM_VARS_CAPACITY, I64_MAX,
    FailingCalls            \* the syscalls its host refuses

ASSUME BehavioursAssumption ==
    /\ NoFoe \notin Foes /\ Hidden \subseteq Foes /\ Sites \subseteq Int
    /\ {ChaseStep, EvadeStep, HomeRange, MidPeriod, THREAT_SLOTS, MaxNpcHealth} \subseteq Nat \ {0}
    /\ AttackRange <= LoseRange /\ ChaseStep <= AttackRange
    /\ {MAX_NODES, EVENT_QUEUE_CAPACITY, MAX_SUBSCRIBERS} \subseteq Nat \ {0} /\ 0 \in Leaves
    /\ {VM_STACK_CAPACITY, VM_VARS_CAPACITY, I64_MAX} \subseteq Nat \ {0}
    /\ GasLimits \subseteq Nat

VARIABLES
    npc,            \* position, health, target, state, LOD tier
    threat,         \* its table: slots, count, taunt target and expiry
    present,        \* player in the world -> where it stands
    npcTick, hits,
    nodes,          \* the behaviour tree: its slots from 0, each with its last status
    node_count,     \* slots in use, the first ones
    walked,         \* the slots the last tick evaluated, none when a node came after it (history)
    bus,            \* ring of events, head, tail, count, subscriber slots
    published, dispatched,  \* number of events, and the ones dispatched in order (history)
    script, vm,     \* what runs, and the machine
    answers         \* script and gas limit -> how it first ended (history)

npcVars == <<npc, threat, present, npcTick, hits>>
treeVars == <<nodes, node_count, walked>>
busVars == <<bus, published, dispatched>>
vmVars == <<script, vm, answers>>
behaviourVars == <<npcVars, treeVars, busVars, vmVars>>

Gap(x, y) == IF x < y THEN y - x ELSE x - y

(* ------------------------------ threat table ------------------------------ *)

Slots == 1..THREAT_SLOTS
NoEntry == [id |-> NoFoe, points |-> 0, last |-> 0]

NoThreat == [slots |-> [i \in Slots |-> NoEntry], count |-> 0,
             taunt |-> NoFoe, until |-> 0]

Filled(t) == {i \in Slots : t.slots[i].id # NoFoe}

add_threat(t, foe, amount, now) ==
    LET mine == {i \in Filled(t) : t.slots[i].id = foe}
        empty == Slots \ Filled(t)
        lowest == CHOOSE i \in Slots : \A j \in Slots :
                      \/ t.slots[i].points < t.slots[j].points
                      \/ t.slots[i].points = t.slots[j].points /\ i <= j
        entry == [id |-> foe, points |-> amount, last |-> now]
    IN  CASE mine # {} ->
                [t EXCEPT !.slots[Min(mine)].points = @ + amount,
                          !.slots[Min(mine)].last = now]
          [] mine = {} /\ empty # {} ->
                [t EXCEPT !.slots[Min(empty)] = entry, !.count = @ + 1]
          [] OTHER ->
                IF amount > t.slots[lowest].points
                THEN [t EXCEPT !.slots[lowest] = entry] ELSE t

taunted(t, foe, duration) ==
    [(IF \E i \in Filled(t) : t.slots[i].id = foe THEN t ELSE add_threat(t, foe, 1, npcTick))
        EXCEPT !.taunt = foe, !.until = npcTick + duration]

\* get_top_threat: the first slot with the most points.
top_slot(t) ==
    CHOOSE i \in Filled(t) : \A j \in Filled(t) :
        \/ t.slots[i].points > t.slots[j].points
        \/ t.slots[i].points = t.slots[j].points /\ i <= j

\* A competitor must exceed the current target's points by a tenth in melee, by
\* three tenths from afar.
select_target(t, current, is_melee, now) ==
    LET top == t.slots[top_slot(t)]
        mine == {i \in Filled(t) : t.slots[i].id = current}
        points == t.slots[Min(mine)].points
        threshold == points + (IF is_melee THEN points ELSE 3 * points) \div 10
    IN  IF t.taunt # NoFoe /\ now < t.until THEN t.taunt
        ELSE IF Filled(t) = {} THEN NoFoe
        ELSE IF mine # {} /\ top.points < threshold THEN current ELSE top.id

remove_entity(t, foe) ==
    LET mine == {i \in Filled(t) : t.slots[i].id = foe}
    IN  [(IF mine = {} THEN t
          ELSE [t EXCEPT !.slots[Min(mine)] = NoEntry, !.count = @ - 1])
            EXCEPT !.taunt = IF @ = foe THEN NoFoe ELSE @]

decay_threat(percent) ==
    /\ Filled(threat) # {} /\ hits < MaxHits
    /\ hits' = hits + 1
    /\ threat' = [threat EXCEPT !.slots =
                     [i \in Slots |-> [@[i] EXCEPT !.points = (@ * (100 - percent)) \div 100]]]
    /\ UNCHANGED <<npc, present, npcTick>>

\* The taunt stays, whoever is purged.
decay_stale_threat ==
    LET stale == {i \in Filled(threat) : npcTick - threat.slots[i].last > StaleTicks}
    IN  /\ stale # {}
        /\ threat' = [threat EXCEPT
                         !.slots = [i \in Slots |-> IF i \in stale THEN NoEntry ELSE @[i]],
                         !.count = @ - Cardinality(stale)]
        /\ UNCHANGED <<npc, present, npcTick, hits>>

(* ------------------------------- creatures -------------------------------- *)

NewNpc == [pos |-> SpawnOrigin, health |-> MaxNpcHealth, target |-> NoFoe,
           state |-> "Idle", lod |-> "Dormant"]

is_beyond_leash(n) == Gap(n.pos, SpawnOrigin) > LeashRadius

Fighting(n) == n.state \in {"Chasing", "Attacking"}

\* Evading creatures are immune; nothing happens at zero health.
apply_damage(foe, amount) ==
    /\ npc.state # "Evading" /\ hits < MaxHits
    /\ hits' = hits + 1
    /\ threat' = add_threat(threat, foe, amount, npcTick)
    /\ npc' = [npc EXCEPT
                  !.health = IF @ > amount THEN @ - amount ELSE 0,
                  !.lod = "ActiveCombat",
                  !.state = IF Fighting(npc) THEN @ ELSE "Chasing",
                  !.target = IF Fighting(npc) THEN @ ELSE foe]
    /\ UNCHANGED <<present, npcTick>>

\* An idle creature takes the target, and stays idle.
apply_taunt(foe, duration) ==
    /\ npc.state # "Evading" /\ hits < MaxHits
    /\ hits' = hits + 1
    /\ threat' = taunted(threat, foe, duration)
    /\ npc' = [npc EXCEPT !.lod = "ActiveCombat", !.target = foe]
    /\ UNCHANGED <<present, npcTick>>

update_lod_tiers(n) ==
    LET Within(r) == \E p \in DOMAIN present : Gap(n.pos, present[p]) <= r
    IN  [n EXCEPT !.lod = IF Fighting(n) \/ Within(NearRange) THEN "ActiveCombat"
                          ELSE IF Within(MidRange) THEN "MidTier" ELSE "Dormant"]

\* evaluate_perception: heard all around, seen ahead.
perceived(n, p) ==
    /\ p \notin Hidden
    /\ \/ Gap(n.pos, present[p]) <= HearingRange
       \/ n.pos < present[p] /\ present[p] - n.pos <= SightRange

Toward(from, to, step) ==
    IF Gap(from, to) <= step THEN to ELSE IF from < to THEN from + step ELSE from - step

Evade(n, t) ==
    /\ threat' = t
    /\ npc' = IF Gap(n.pos, SpawnOrigin) < HomeRange
              THEN [n EXCEPT !.pos = SpawnOrigin, !.health = MaxNpcHealth, !.state = "Idle"]
              ELSE [n EXCEPT !.pos = Toward(@, SpawnOrigin, EvadeStep)]

\* The first player perceived, in the order of the server's entity map.
Watch(n, t, now) ==
    LET noticed == {p \in DOMAIN present : perceived(n, p)}
    IN  IF noticed = {} THEN npc' = n /\ threat' = t
        ELSE \E p \in noticed :
                /\ threat' = add_threat(t, p, AggroThreat, now)
                /\ npc' = [n EXCEPT !.target = p, !.state = "Chasing"]

Chase(n, t, now) ==
    LET p == select_target(t, n.target, FALSE, now)
        m == [n EXCEPT !.target = p]
    IN  IF p = NoFoe THEN npc' = [m EXCEPT !.state = "Evading"] /\ threat' = t
        ELSE IF p \notin DOMAIN present THEN npc' = m /\ threat' = remove_entity(t, p)
        ELSE /\ threat' = t
             /\ npc' = IF Gap(n.pos, present[p]) <= AttackRange
                       THEN [m EXCEPT !.state = "Attacking"]
                       ELSE [m EXCEPT !.pos = Toward(@, present[p], ChaseStep)]

Attack(n, t, now) ==
    LET p == select_target(t, n.target, TRUE, now)
        m == [n EXCEPT !.target = p]
    IN  IF p = NoFoe THEN npc' = [m EXCEPT !.state = "Evading"] /\ threat' = t
        ELSE IF p \notin DOMAIN present
             THEN npc' = [m EXCEPT !.state = "Chasing"] /\ threat' = remove_entity(t, p)
        ELSE /\ threat' = t
             /\ npc' = [m EXCEPT !.state =
                           IF Gap(n.pos, present[p]) > LoseRange THEN "Chasing" ELSE @]

\* NpcEcosystemManager::tick on one creature, after the LOD filter.
Decide(n, now) ==
    LET leashed == is_beyond_leash(n) /\ n.state # "Evading"
        m == IF leashed THEN [n EXCEPT !.state = "Evading", !.target = NoFoe] ELSE n
        t == IF leashed THEN NoThreat ELSE threat
    IN  \/ m.state = "Evading" /\ Evade(m, t)
        \/ m.state = "Idle" /\ Watch(m, t, now)
        \/ m.state = "Chasing" /\ Chase(m, t, now)
        \/ m.state = "Attacking" /\ Attack(m, t, now)

\* The server's step: the tiers from where the players stand, then the tick.
NpcTick ==
    LET n == update_lod_tiers(npc)
        now == npcTick + 1
    IN  /\ npcTick < MaxNpcTick
        /\ npcTick' = now
        /\ IF n.lod = "Dormant" \/ (n.lod = "MidTier" /\ now % MidPeriod # 0)
           THEN npc' = n /\ threat' = threat
           ELSE Decide(n, now)
        /\ UNCHANGED <<present, hits>>

\* Players come, walk and log out.
Visit(p, z) ==
    /\ p \in DOMAIN present => present[p] # z
    /\ present' = With(present, p, z) /\ UNCHANGED <<npc, threat, npcTick, hits>>

LogOut(p) ==
    /\ p \in DOMAIN present
    /\ present' = Without(present, {p}) /\ UNCHANGED <<npc, threat, npcTick, hits>>

NpcNext ==
    \/ \E p \in Foes, d \in Blows : apply_damage(p, d)
    \/ \E p \in Foes, d \in TauntTicks : apply_taunt(p, d)
    \/ NpcTick
    \/ \E p \in Foes, z \in Sites : Visit(p, z)
    \/ \E p \in Foes : LogOut(p)
    \/ decay_threat(50)
    \/ decay_stale_threat

\* The table knows a foe once and counts its foes; a creature that goes home
\* forgot them all; it is never farther than a step past its leash; and an idle
\* one stands whole where it spawned (npc_ecosystem.rs:205-383, threat.rs).
NpcSound ==
    /\ threat.count = Cardinality(Filled(threat))
    /\ \A i, j \in Filled(threat) : threat.slots[i].id = threat.slots[j].id => i = j
    /\ npc.state = "Evading" => Filled(threat) = {} /\ npc.target = NoFoe
    /\ Gap(npc.pos, SpawnOrigin) <= LeashRadius + ChaseStep
    /\ npc.state = "Idle" => npc.pos = SpawnOrigin /\ npc.health = MaxNpcHealth

(* ----------------------------- behaviour tree ----------------------------- *)

Statuses == {"Success", "Failure", "Running"}

\* Indices are from 0.  Children come after their parent, as a builder places
\* them: a node among its own descendants would recurse for ever.
Kinds(i) ==
    [type : {"Sequence", "Selector"}, start : i + 1 .. MAX_NODES, count : ChildCounts, leaf : {0}]
    \cup [type : {"Inverter"}, start : i + 1 .. MAX_NODES, count : {1}, leaf : {0}]
    \cup [type : {"Action", "Condition"}, start : {0}, count : {0}, leaf : Leaves]

\* What a slot holds before a node is put there.
BtNode(kind) == [kind |-> kind, status |-> "Failure"]
EmptyTree ==
    [i \in 0 .. MAX_NODES - 1 |-> BtNode([type |-> "Action", start |-> 0, count |-> 0, leaf |-> 0])]

add_node ==
    /\ node_count < MAX_NODES
    /\ \E kind \in Kinds(node_count) : nodes' = [nodes EXCEPT ![node_count] = BtNode(kind)]
    /\ node_count' = node_count + 1
    /\ walked' = {}

children(i) ==
    LET k == nodes[i].kind IN k.start .. k.start + k.count - 1

\* The status after which the next sibling is evaluated.
Continues(kind) == IF kind.type = "Sequence" THEN "Success" ELSE "Failure"

\* eval_node of every slot, the callbacks answering with reply.  A child beyond
\* the nodes that were added is the action 0, one beyond the slots fails.
Values(reply) ==
    LET Value[i \in 0 .. 2 * MAX_NODES] ==
            IF i >= MAX_NODES THEN "Failure"
            ELSE LET kind == nodes[i].kind
                     stops == {c \in children(i) : Value[c] # Continues(kind)}
                 IN  CASE kind.type = "Action" -> reply[kind.leaf]
                       [] kind.type = "Condition" ->
                            IF reply[kind.leaf] = "Success" THEN "Success" ELSE "Failure"
                       [] kind.type = "Inverter" ->
                            (CASE Value[kind.start] = "Success" -> "Failure"
                               [] Value[kind.start] = "Failure" -> "Success"
                               [] OTHER -> "Running")
                       [] OTHER -> IF stops = {} THEN Continues(kind) ELSE Value[Min(stops)]
    IN  Value

\* The slots reached from the root.
Reached(value) ==
    LET Reach[i \in 0 .. MAX_NODES - 1] ==
            \/ i = 0
            \/ \E m \in 0 .. i - 1 :
                  /\ i \in children(m) /\ Reach[m]
                  /\ \A c \in children(m) : c < i => value[c] = Continues(nodes[m].kind)
    IN  {i \in 0 .. MAX_NODES - 1 : Reach[i]}

\* BehaviorTree::tick with the first node as the root; a node that is skipped
\* keeps the status of an earlier tick.
TreeTick(reply) ==
    LET value == Values(reply)
        seen == Reached(value)
    IN  /\ node_count > 0
        /\ walked' = seen
        /\ nodes' = [i \in DOMAIN nodes |->
                        IF i \in seen THEN [nodes[i] EXCEPT !.status = value[i]] ELSE nodes[i]]
        /\ UNCHANGED node_count

TreeNext == add_node \/ \E reply \in [Leaves -> Statuses] : TreeTick(reply)

\* At most one action is left running, and exactly then the tree answers that
\* it runs: no sibling is evaluated past a running one (behavior_tree.rs:123-184).
TreeSound ==
    LET running == {i \in walked : nodes[i].kind.type = "Action" /\ nodes[i].status = "Running"}
    IN  walked # {} =>
            /\ Cardinality(running) <= 1
            /\ nodes[0].status = "Running" <=> running # {}

(* -------------------------------- event bus ------------------------------- *)

Cells == 0 .. EVENT_QUEUE_CAPACITY - 1
NewBus == [cells |-> [i \in Cells |-> 0], head |-> 0, tail |-> 0, count |-> 0,
           subs |-> [i \in 1..MAX_SUBSCRIBERS |-> 0], triggered |-> 0]

\* Events are numbered as they are published.  A full ring drops its oldest.
publish ==
    LET full == bus.count >= EVENT_QUEUE_CAPACITY
    IN  /\ published < MaxEvents
        /\ published' = published + 1
        /\ bus' = [bus EXCEPT
                      !.cells[bus.tail] = published + 1,
                      !.head = IF full THEN (@ + 1) % EVENT_QUEUE_CAPACITY ELSE @,
                      !.tail = (@ + 1) % EVENT_QUEUE_CAPACITY,
                      !.count = IF full THEN @ ELSE @ + 1]
        /\ UNCHANGED dispatched

\* A subscriber may subscribe twice; a subscriber is the set of types it asks for.
subscribe(s) ==
    LET free == {i \in DOMAIN bus.subs : bus.subs[i] = 0}
    IN  /\ free # {}
        /\ bus' = [bus EXCEPT !.subs[Min(free)] = s]
        /\ UNCHANGED <<published, dispatched>>

unsubscribe(s) ==
    LET mine == {i \in DOMAIN bus.subs : bus.subs[i] = s}
    IN  /\ mine # {}
        /\ bus' = [bus EXCEPT !.subs[Min(mine)] = 0]
        /\ UNCHANGED <<published, dispatched>>

Undispatched == [i \in 1 .. bus.count |-> bus.cells[(bus.head + i - 1) % EVENT_QUEUE_CAPACITY]]

\* Every subscriber's callback on every event of its type, here its parity.
dispatch_all ==
    LET heard == {c \in (1 .. bus.count) \X (1 .. MAX_SUBSCRIBERS) :
                      bus.subs[c[2]] # 0 /\ Undispatched[c[1]] % 2 = bus.subs[c[2]] % 2}
    IN  /\ bus.count > 0
        /\ dispatched' = dispatched \o Undispatched
        /\ bus' = [bus EXCEPT
                      !.cells = [c \in Cells |->
                                    IF bus.cells[c] \in Range(Undispatched) THEN 0 ELSE @[c]],
                      !.head = (@ + bus.count) % EVENT_QUEUE_CAPACITY,
                      !.count = 0,
                      !.triggered = @ + Cardinality(heard)]
        /\ UNCHANGED published

BusNext ==
    \/ publish \/ dispatch_all
    \/ \E s \in Subscribers : subscribe(s) \/ unsubscribe(s)

\* Events are dispatched once and in the order they were published, and one is
\* dropped only when a whole ring of later ones followed before a dispatch
\* (event_bus.rs:142-212).
BusSound ==
    LET all == dispatched \o Undispatched
    IN  /\ \A i, j \in DOMAIN all : i < j => all[i] < all[j]
        /\ \A e \in 1 .. published :
              e \notin Range(all) => published >= e + EVENT_QUEUE_CAPACITY

(* -------------------------------- scripts --------------------------------- *)

Ended(how, value) == [how |-> how, value |-> value]

Fresh == [pc |-> 0, stack |-> <<>>, gas |-> 0, out |-> Ended("New", 0),
          locals |-> [i \in 0 .. VM_VARS_CAPACITY - 1 |-> 0]]

\* Arithmetic saturates at 64 bits; division rounds towards zero, and the one
\* quotient that overflows is 0.
Saturated(x) ==
    IF x > I64_MAX THEN I64_MAX ELSE IF x < - I64_MAX - 1 THEN - I64_MAX - 1 ELSE x

Quotient(b, a) ==
    LET q == Gap(b, 0) \div Gap(a, 0) IN IF (b < 0) # (a < 0) THEN - q ELSE q

Truth(holds) == IF holds THEN 1 ELSE 0

BinaryOps == {"Add", "Sub", "Mul", "Div", "Mod", "Eq", "Neq", "Lt", "Lte", "Gt", "Gte"}

Binary(op, b, a) ==
    CASE op = "Add" -> Saturated(b + a)
      [] op = "Sub" -> Saturated(b - a)
      [] op = "Mul" -> Saturated(b * a)
      [] op = "Div" -> IF Quotient(b, a) > I64_MAX THEN 0 ELSE Quotient(b, a)
      [] op = "Mod" -> b - a * Quotient(b, a)
      [] op = "Eq" -> Truth(b = a)
      [] op = "Neq" -> Truth(b # a)
      [] op = "Lt" -> Truth(b < a)
      [] op = "Lte" -> Truth(b <= a)
      [] op = "Gt" -> Truth(b > a)
      [] op = "Gte" -> Truth(b >= a)

\* What an opcode takes from the stack and puts back.
Takes(op) ==
    IF op \in BinaryOps \cup {"Swap"} THEN 2
    ELSE IF op \in {"Push", "Jump", "LoadVar", "Halt"} THEN 0 ELSE 1

Top(k) == vm.stack[Len(vm.stack) + 1 - k]

Puts(op, arg) ==
    CASE op \in BinaryOps -> <<Binary(op, Top(2), Top(1))>>
      [] op = "Swap" -> <<Top(1), Top(2)>>
      [] op = "Dup" -> <<Top(1), Top(1)>>
      [] op = "Push" -> <<arg>>
      [] op = "LoadVar" -> <<vm.locals[arg]>>
      [] op = "CallSyscall" -> <<0>>
      [] OTHER -> <<>>

\* What an instruction fails with, checked in this order; "Ok" if it does not.
Fault(op, arg) ==
    IF op \in {"Jump", "JumpIfTrue", "JumpIfFalse"} /\ arg >= Len(script)
        THEN "InvalidJumpTarget"
    ELSE IF op \in {"LoadVar", "StoreVar"} /\ arg >= VM_VARS_CAPACITY
        THEN "InvalidVariableIndex"
    ELSE IF Len(vm.stack) < Takes(op) THEN "StackUnderflow"
    ELSE IF op \in {"Div", "Mod"} /\ Top(1) = 0 THEN "DivisionByZero"
    ELSE IF op = "CallSyscall" /\ arg \in FailingCalls THEN "SyscallFailed"
    ELSE IF Len(vm.stack) - Takes(op) + Len(Puts(op, arg)) > VM_STACK_CAPACITY
        THEN "StackOverflow"
    ELSE "Ok"

Jumps(op) ==
    \/ op = "Jump"
    \/ op = "JumpIfTrue" /\ Top(1) # 0
    \/ op = "JumpIfFalse" /\ Top(1) = 0

\* Mutated form: the stack is emptied, the variables keep what they held.
reset_stack_only(gas) ==
    [Fresh EXCEPT !.gas = gas, !.locals = vm.locals, !.out = Ended("Running", 0)]

reset(gas) == [Fresh EXCEPT !.gas = gas, !.out = Ended("Running", 0)]

Running == vm.out.how = "Running"

execute(program, gas) ==
    /\ ~ Running
    /\ script' = program
    /\ vm' = reset(gas)
    /\ UNCHANGED answers

\* What the script returned, remembered the first time it ends with this gas.
Finish(out) ==
    /\ vm' = [vm EXCEPT !.out = out]
    /\ answers' = IF script \in DOMAIN answers THEN answers ELSE With(answers, script, out)
    /\ UNCHANGED script

Instruction ==
    LET op == script[vm.pc + 1][1]
        arg == script[vm.pc + 1][2]
        below == SubSeq(vm.stack, 1, Len(vm.stack) - Takes(op))
    IN  /\ Running /\ vm.pc < Len(script) /\ vm.gas > 0
        /\ op # "Halt" /\ Fault(op, arg) = "Ok"
        /\ vm' = [vm EXCEPT
                     !.gas = @ - 1,
                     !.stack = below \o Puts(op, arg),
                     !.locals = IF op = "StoreVar" THEN [@ EXCEPT ![arg] = Top(1)] ELSE @,
                     !.pc = IF Jumps(op) THEN arg ELSE @ + 1]
        /\ UNCHANGED <<script, answers>>

\* An execution ends past the last instruction, out of gas, at Halt with the top
\* of the stack or 0, or at a fault.
End ==
    /\ Running
    /\ \/ vm.pc >= Len(script) /\ Finish(Ended("UnexpectedEndOfBytecode", 0))
       \/ vm.pc < Len(script) /\ vm.gas = 0 /\ Finish(Ended("GasExhausted", 0))
       \/ /\ vm.pc < Len(script) /\ vm.gas > 0
          /\ LET op == script[vm.pc + 1][1]
                 fault == Fault(op, script[vm.pc + 1][2])
             IN  \/ /\ op = "Halt"
                    /\ Finish(Ended("Ok", IF vm.stack = <<>> THEN 0 ELSE Top(1)))
                 \/ fault # "Ok" /\ Finish(Ended(fault, 0))

VmNext ==
    \/ \E program \in Scripts, gas \in GasLimits : execute(program, gas)
    \/ Instruction \/ End

\* A script ends as it did the first time, whatever the machine ran in between
\* (script_engine.rs:155-365).
VmSound ==
    /\ Len(vm.stack) <= VM_STACK_CAPACITY
    /\ ~ Running /\ script \in DOMAIN answers => vm.out = answers[script]

-------------------------------------------------------------------------------
BehavioursInit ==
    /\ npc = NewNpc /\ threat = NoThreat /\ present = <<>> /\ npcTick = 0 /\ hits = 0
    /\ nodes = EmptyTree /\ node_count = 0 /\ walked = {}
    /\ bus = NewBus /\ published = 0 /\ dispatched = <<>>
    /\ script = <<>> /\ vm = Fresh /\ answers = <<>>

\* Creatures go home whole, trees leave one action running, events arrive in
\* order, and a script's answer does not depend on what ran before it
\* (npc_ecosystem.rs:205-383, behavior_tree.rs:123-184, event_bus.rs:142-212,
\* script_engine.rs:155-365).
BehavioursSound == NpcSound /\ TreeSound /\ BusSound /\ VmSound
===============================================================================
