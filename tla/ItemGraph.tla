------------------------------ MODULE ItemGraph ------------------------------
(* Containers, nested bags and the coordinator that moves items between them *)
(* (eidolon-core/src/item_graph.rs, eidolon-world/src/item_transaction.rs).  *)
(* A transfer is one call on the coordinator; slots can also be locked by    *)
(* whoever holds the container.  An item weighs as much as its quantity, and *)
(* callers state that weight truthfully.                                     *)
EXTENDS Integers, Sequences, SequencesExt, FiniteSets, FiniteSetsExt

CONSTANTS
    Containers,
    SlotCount,          \* slots of every container
    Bags,               \* the containers that are bags: item b holds container b
    MaxWeight,          \* max_weight_grams of every container
    Homes,              \* the containers that hold a stack at first
    Stack,              \* its quantity
    StackLimit,         \* of merge_stack; a bag does not stack
    TxIds,              \* bound: transaction identifiers used by callers
    MaxCommits,         \* bound: transfers that get past phase 1
    AutoSlot,           \* callers may leave the target slot open
    OutsideLocks        \* slots may be locked from outside

ASSUME GraphAssumption ==
    /\ SlotCount \in Nat \ {0} /\ MaxWeight \in Nat \ {0} /\ Stack \in Nat
    /\ Bags \subseteq Containers /\ Homes \subseteq Containers \ Bags
    /\ AutoSlot \in BOOLEAN /\ OutsideLocks \in BOOLEAN
    /\ IsFiniteSet(Containers) /\ "none" \notin Containers /\ \A c \in Containers : c \notin Nat
    /\ StackLimit \in Nat /\ MaxCommits \in Nat
    /\ Stack + Cardinality(Bags) <= MaxWeight

VARIABLES
    box,                \* [container -> its slots, locked slots and weight]
    processed,          \* processed_transactions, as a set: the ring is larger than TxIds
    nextId,             \* next_instance_id
    applied,            \* [transaction id -> transfers committed under it]
    wasted              \* history: quantity split off by a transfer that failed for want of an open slot

graphVars == <<box, processed, nextId, applied, wasted>>

Slots == 0..SlotCount - 1
Empty == [id |-> 0, qty |-> 0, bag |-> "none"]
AnySlot == -1
NoSlot == -2

ItemIn(c, i) == box[c].slot[i]
Filled(c) == {i \in Slots : ItemIn(c, i) # Empty}

-----------------------------------------------------------------------------
(* Container *)

Free(b) == {i \in Slots : b.slot[i] = Empty /\ i \notin b.locked}

(* insert_item: the slot it takes, or NoSlot for any of its errors. *)
Place(c, b, item, j, w) ==
    CASE item.bag = c \/ b.weight + w > MaxWeight -> NoSlot
      [] j # AnySlot -> IF j \in Free(b) THEN j ELSE NoSlot
      [] OTHER    -> IF Free(b) = {} THEN NoSlot ELSE Min(Free(b))

Inserted(b, item, j, w) == [b EXCEPT !.slot[j] = item, !.weight = @ + w]

(* commit_remove_item *)
Removed(b, i, w) ==
    [b EXCEPT !.slot[i] = Empty, !.weight = IF @ < w THEN 0 ELSE @ - w]

(* commit_split_stack: the weight stays. *)
Split(b, i, q) == [b EXCEPT !.slot[i].qty = @ - q]

lock_slot(c, i) ==
    /\ OutsideLocks /\ i \notin box[c].locked
    /\ box' = [box EXCEPT ![c].locked = @ \cup {i}]
    /\ UNCHANGED <<processed, nextId, applied, wasted>>

unlock_slot(c, i) ==
    /\ i \in box[c].locked
    /\ box' = [box EXCEPT ![c].locked = @ \ {i}]
    /\ UNCHANGED <<processed, nextId, applied, wasted>>

(* As much of slot i as fits is added to slot j. *)
Merged(slot, i, j) ==
    LET n == Min({slot[i].qty, StackLimit - slot[j].qty})
    IN  [slot EXCEPT ![j].qty = @ + n,
                     ![i] = IF @.qty = n THEN Empty ELSE [@ EXCEPT !.qty = slot[i].qty - n]]

(* Bags do not stack: their stack limit is 1. *)
merge_stack(c, i, j) ==
    /\ i # j /\ {i, j} \cap box[c].locked = {} /\ {i, j} \subseteq Filled(c)
    /\ ItemIn(c, i).bag = "none" /\ ItemIn(c, j).bag = "none"
    /\ ItemIn(c, j).qty < StackLimit
    /\ box' = [box EXCEPT ![c].slot = Merged(@, i, j)]
    /\ UNCHANGED <<processed, nextId, applied, wasted>>

-----------------------------------------------------------------------------
(* execute_transfer *)

(* Phase 1. *)
Prepared(tx, src, i, dst, j, q) ==
    /\ tx \notin processed
    /\ i \notin box[src].locked /\ ItemIn(src, i) # Empty /\ q <= ItemIn(src, i).qty
    /\ ItemIn(src, i).bag # dst
    /\ box[dst].weight + q <= MaxWeight
    /\ IF j # AnySlot THEN j \in Free(box[dst]) ELSE src = dst \/ \E k \in Slots : ItemIn(dst, k) = Empty

(* What moves: the item itself, or a part of the stack under a new id. *)
Moved(item, q) == IF item.qty = q THEN item ELSE [item EXCEPT !.qty = q, !.id = nextId]

(* commit_transfer within one container.  When the insertion fails what was *)
(* taken out of the slot is dropped.                                        *)
CommitIntra(c, i, j, q) ==
    LET item == ItemIn(c, i)
        out == IF item.qty = q THEN Removed(box[c], i, 0) ELSE Split(box[c], i, q)
        at == Place(c, out, Moved(item, q), j, 0)
    IN  [done |-> at # NoSlot,
         box |-> [box EXCEPT ![c] = IF at = NoSlot THEN out ELSE Inserted(out, Moved(item, q), at, 0)]]

(* Mutated form: the rollback forgets the weight of what it puts back. *)
PutBack_weightless(src, b, item, i, q) ==
    IF Place(src, b, item, i, q) = NoSlot THEN b ELSE Inserted(b, item, i, 0)

(* The rollback puts what was taken into the source slot, if it is empty. *)
PutBack(src, b, item, i, q) ==
    IF Place(src, b, item, i, q) = NoSlot THEN b ELSE Inserted(b, item, i, q)

(* commit_transfer between two containers. *)
CommitInter(src, i, dst, j, q) ==
    LET item == ItemIn(src, i)
        out == IF item.qty = q THEN Removed(box[src], i, q) ELSE Split(box[src], i, q)
        at == Place(dst, box[dst], Moved(item, q), j, q)
    IN  [done |-> at # NoSlot,
         box |-> IF at = NoSlot
                 THEN [box EXCEPT ![src] = PutBack(src, out, Moved(item, q), i, q)]
                 ELSE [box EXCEPT ![src] = out, ![dst] = Inserted(box[dst], Moved(item, q), at, q)]]

execute_transfer(tx, src, i, dst, j, q) ==
    /\ nextId < 100 + MaxCommits
    /\ Prepared(tx, src, i, dst, j, q)
    /\ LET commit == IF src = dst THEN CommitIntra(src, i, j, q) ELSE CommitInter(src, i, dst, j, q)
       IN  /\ box' = commit.box
           /\ processed' = IF commit.done THEN processed \cup {tx} ELSE processed
           /\ applied' = IF commit.done THEN [applied EXCEPT ![tx] = @ + 1] ELSE applied
           /\ wasted' = IF ~ commit.done /\ j = AnySlot /\ q < ItemIn(src, i).qty THEN wasted + q ELSE wasted
    /\ nextId' = nextId + 1

(* A request that phase 1 turns down. *)
Rejected ==
    /\ \E tx \in TxIds, src, dst \in Containers, i, j \in Slots : ~ Prepared(tx, src, i, dst, j, 1)
    /\ UNCHANGED graphVars

-----------------------------------------------------------------------------
(* The containers are registered, a stack in each home and the bags in a *)
(* container that is no bag.                                             *)
FirstStack(c) == [id |-> c, qty |-> Stack, bag |-> "none"]
BagItem(b) == [id |-> b, qty |-> 1, bag |-> b]
FirstSlot(c, i, at, home) ==
    IF i = 0 THEN IF c \in Homes THEN FirstStack(c) ELSE Empty
    ELSE LET here == {b \in Bags : c = home /\ at[b] = i}
         IN  IF here = {} THEN Empty ELSE BagItem(CHOOSE b \in here : TRUE)

GraphInit ==
    /\ \E home \in Containers \ Bags, at \in [Bags -> Slots \ {0}] :
           /\ \A b, d \in Bags : b # d => at[b] # at[d]
           /\ box = [c \in Containers |->
                  [slot |-> [i \in Slots |-> FirstSlot(c, i, at, home)], locked |-> {},
                   weight |-> (IF c \in Homes THEN Stack ELSE 0)
                              + (IF c = home THEN Cardinality(Bags) ELSE 0)]]
    /\ processed = {}
    /\ nextId = 100
    /\ applied = [tx \in TxIds |-> 0]
    /\ wasted = 0

GraphNext ==
    \/ \E tx \in TxIds, src, dst \in Containers, i \in Slots, q \in 1..Stack + 1 :
           \E j \in Slots \cup (IF AutoSlot THEN {AnySlot} ELSE {}) :
               execute_transfer(tx, src, i, dst, j, q)
    \/ \E c \in Containers, i, j \in Slots : merge_stack(c, i, j)
    \/ \E c \in Containers, i \in Slots : lock_slot(c, i) \/ unlock_slot(c, i)
    \/ Rejected

GraphSpec == GraphInit /\ [][GraphNext]_graphVars

-----------------------------------------------------------------------------
Held(c) == [i \in Slots |-> ItemIn(c, i).qty]
Content(c) == SumFunctionOnSet(Held(c), Slots)

(* Nothing is created or destroyed by transfers, failed ones included, by    *)
(* splits and by merges, but for a part of a stack: what a transfer that     *)
(* leaves the target slot open has split off is dropped when the container   *)
(* has no open slot (item_transaction.rs:342, :391).                         *)
ItemsConserved ==
    SumFunctionOnSet([c \in Containers |-> Content(c)], Containers) + wasted
        = Stack * Cardinality(Homes) + Cardinality(Bags)

(* A transfer that fails leaves everything where it was. *)
NothingLost == wasted = 0

(* No two items of the graph have the same instance id. *)
InstanceIdsUnique ==
    \A c, d \in Containers, i, j \in Slots :
        <<c, i>> # <<d, j>> /\ ItemIn(c, i) # Empty => ItemIn(c, i).id # ItemIn(d, j).id

(* No transaction id moves items twice. *)
AppliedOnce == \A tx \in TxIds : applied[tx] <= 1

(* A container never holds more than it can carry: the recorded weight may *)
(* drift from what is inside, but never below it.                          *)
WithinWeightLimit == \A c \in Containers : Content(c) <= MaxWeight

(* The recorded weight is the weight of what is inside. *)
WeightExact == \A c \in Containers : box[c].weight = Content(c)

(* No bag is inside itself, directly or through other bags. *)
Inside(b) == {c \in Containers : \E i \in Slots : ItemIn(c, i).bag = b}
NoNestingCycle ==
    \A b \in Bags : ~ \E c \in Inside(b) : c = b \/ (c \in Bags /\ b \in Inside(c))

(* Transfers, splits and merges, repeated ones included, conserve the items,  *)
(* keep their ids apart, apply a transaction once and respect the weight      *)
(* limit; a transfer that fails is undone, whole stacks by the rollback, but  *)
(* for a split into an open slot that is not there (item_transaction.rs,      *)
(* item_graph.rs).                                                            *)
ItemsSound ==
    /\ ItemsConserved
    /\ InstanceIdsUnique
    /\ AppliedOnce
    /\ WithinWeightLimit
===============================================================================
