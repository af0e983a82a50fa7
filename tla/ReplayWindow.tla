----------------------------- MODULE ReplayWindow -----------------------------
(*****************************************************************************)
(* ReplayWindow (crates/eidolon-net/src/auth.rs): the sliding window a       *)
(* SessionSecurityContext keeps per session.  The 64-bit mask is kept as     *)
(* the set of distances behind highest_sequence whose bit is set.  The       *)
(* network may deliver any sequence number in any order and any number of    *)
(* times.                                                                    *)
(*****************************************************************************)
EXTENDS Naturals

CONSTANTS
    Width,           \* bits of the window, 64 in the code
    Sequences64      \* sequence numbers packets can carry

ASSUME WidthAssumption == Width \in Nat \ {0}
ASSUME SequencesAssumption == Sequences64 \subseteq Nat

VARIABLES
    highest_sequence,
    window,          \* set of distances d: bit d is set
    accepted         \* history: how often each sequence number was accepted

windowVars == <<highest_sequence, window, accepted>>

WindowTypeOK ==
    /\ highest_sequence \in Nat
    /\ window \subseteq 0..(Width - 1)
    /\ accepted \in [Sequences64 -> Nat]

WindowInit ==
    /\ highest_sequence = 0
    /\ window = {}
    /\ accepted = [s \in Sequences64 |-> 0]

-------------------------------------------------------------------------------
\* No packet was accepted yet.
Fresh == window = {} /\ highest_sequence = 0

\* The window after moving ahead by d: "window <<= d; window |= 1", and 1
\* when d is the width or more.
Shifted(d) == {b + d : b \in {c \in window : c + d < Width}} \union {0}

Accept(s) == accepted' = [accepted EXCEPT ![s] = @ + 1]

AcceptFirst(s) ==
    /\ Fresh
    /\ highest_sequence' = s
    /\ window' = {0}
    /\ Accept(s)

AcceptNewer(s) ==
    /\ ~Fresh
    /\ s > highest_sequence
    /\ highest_sequence' = s
    /\ window' = Shifted(s - highest_sequence)
    /\ Accept(s)

\* Mutated form: a packet older than the window is let through.
AcceptLate_any_age(s) ==
    /\ ~Fresh
    /\ s <= highest_sequence
    /\ highest_sequence - s \notin window
    /\ window' = window \union ({highest_sequence - s} \intersect 0..(Width - 1))
    /\ UNCHANGED highest_sequence
    /\ Accept(s)

AcceptLate(s) ==
    /\ ~Fresh
    /\ s <= highest_sequence
    /\ highest_sequence - s < Width
    /\ highest_sequence - s \notin window
    /\ window' = window \union {highest_sequence - s}
    /\ UNCHANGED highest_sequence
    /\ Accept(s)

\* In every other case the packet is refused with ReplayDetected and nothing
\* changes.
check_and_update(s) == AcceptFirst(s) \/ AcceptNewer(s) \/ AcceptLate(s)

WindowNext == \E s \in Sequences64 : check_and_update(s)

WindowSpec == WindowInit /\ [][WindowNext]_windowVars

-------------------------------------------------------------------------------
\* No packet is accepted twice, in whatever order packets and their
\* duplicates arrive and however far the sequence jumps (auth.rs:297-333).
AcceptedOnce == \A s \in Sequences64 : accepted[s] <= 1

\* The window remembers exactly the accepted sequences that are not too old,
\* so a packet inside the window is refused only if it was accepted before
\* and late packets are never lost to the window (auth.rs:318-330).
WindowIsHistory ==
    \A s \in Sequences64 :
        (s <= highest_sequence /\ highest_sequence - s < Width) =>
            ((highest_sequence - s \in window) <=> accepted[s] > 0)

-------------------------------------------------------------------------------
\* What AcceptedOnce needs to be inductive: an accepted packet is not ahead
\* of the window, and nothing is accepted by an untouched window.
AcceptedBehind ==
    /\ \A s \in Sequences64 : accepted[s] > 0 => s <= highest_sequence
    /\ Fresh => \A s \in Sequences64 : accepted[s] = 0

\* The inductive invariant of the window: nothing is accepted twice because
\* inside its width the window is the history (auth.rs:297-333).
WindowInv == WindowTypeOK /\ WindowIsHistory /\ AcceptedBehind /\ AcceptedOnce
===============================================================================
