---------------------------- MODULE AuthorityFencer ----------------------------
(*****************************************************************************)
(* AuthorityFencer (crates/eidolon-core/src/authority.rs): the epoch and     *)
(* sequence fence in front of a session's commands.  Tokens may arrive in    *)
(* any order, any number of times, and from servers of older and newer       *)
(* epochs.  The fencer compares only the epoch and the sequence of a token.  *)
(*****************************************************************************)
EXTENDS Naturals

CONSTANTS
    U32Max,          \* largest epoch, 2^32 - 1 in the code
    InitialEpoch,
    Sequences        \* sequence numbers tokens can carry

ASSUME EpochAssumption == U32Max \in Nat /\ InitialEpoch \in 0..U32Max
ASSUME TokenAssumption == Sequences \subseteq Nat

VARIABLES
    active_epoch,
    highest_sequence,
    accepted,        \* history: the tokens accepted so far
    regressed        \* history: a token was accepted that is not after all of them

fenceVars == <<active_epoch, highest_sequence, accepted, regressed>>

Epochs == 0..U32Max
FenceTokens == [authority_epoch : Epochs, sequence : Sequences]

\* The order of commands: by epoch, then by sequence.
Before(t, u) ==
    \/ t.authority_epoch < u.authority_epoch
    \/ t.authority_epoch = u.authority_epoch /\ t.sequence < u.sequence

FenceTypeOK ==
    /\ active_epoch \in Epochs
    /\ highest_sequence \in Nat
    /\ accepted \subseteq FenceTokens
    /\ regressed \in BOOLEAN

FenceInit ==
    /\ active_epoch = InitialEpoch
    /\ highest_sequence = 0
    /\ accepted = {}
    /\ regressed = FALSE

-------------------------------------------------------------------------------
\* What an accepted token does to the history.
Record(token) ==
    /\ accepted' = accepted \union {token}
    /\ regressed' = (regressed \/ \E t \in accepted : ~Before(t, token))

Promote(token) ==
    /\ token.authority_epoch > active_epoch
    /\ active_epoch' = token.authority_epoch
    /\ highest_sequence' = token.sequence
    /\ Record(token)

Advance(token) ==
    /\ token.authority_epoch = active_epoch
    /\ token.sequence > highest_sequence
    /\ highest_sequence' = token.sequence
    /\ UNCHANGED active_epoch
    /\ Record(token)

\* Mutated form: a token at the highest sequence is accepted again.
validate_not_strict(token) ==
    \/ Promote(token)
    \/ /\ token.authority_epoch = active_epoch
       /\ token.sequence >= highest_sequence
       /\ highest_sequence' = token.sequence
       /\ UNCHANGED active_epoch
       /\ Record(token)

\* StaleEpoch and SequenceRegression change nothing.
validate_and_advance(token) == Promote(token) \/ Advance(token)

\* Mutated form: the epoch wraps around instead of saturating.
increment_wrapping ==
    /\ active_epoch' = (active_epoch + 1) % (U32Max + 1)
    /\ highest_sequence' = 0
    /\ UNCHANGED <<accepted, regressed>>

\* Client reconnect or zone failover; the epoch saturates.
increment_epoch ==
    /\ active_epoch' = IF active_epoch < U32Max THEN active_epoch + 1
                       ELSE active_epoch
    /\ highest_sequence' = 0
    /\ UNCHANGED <<accepted, regressed>>

FenceNext ==
    \/ \E token \in FenceTokens : validate_and_advance(token)
    \/ increment_epoch

FenceSpec == FenceInit /\ [][FenceNext]_fenceVars

-------------------------------------------------------------------------------
\* Below the last epoch no command is accepted twice and none is accepted
\* after a later one, across reconnects and failovers: authority.rs:161-189.
FencedBelowLastEpoch == regressed => active_epoch = U32Max

\* The same in every epoch, the last one included: what authority.rs:167 says
\* of validate_and_advance.
StrictlyIncreasing == ~regressed

\* The epoch in force never goes back, so a superseded server stays fenced.
EpochMonotone == [][active_epoch' >= active_epoch]_fenceVars

-------------------------------------------------------------------------------
\* The fence stands at or past every accepted token.
FencePastAccepted ==
    \A t \in accepted :
        \/ t.authority_epoch < active_epoch
        \/ t.authority_epoch = active_epoch
               /\ (t.sequence <= highest_sequence \/ active_epoch = U32Max)

\* The inductive invariant of the fence: commands come in strictly increasing
\* order below the last epoch because the fence stands at or past each of them
\* (authority.rs:161-196).
FenceInv == FenceTypeOK /\ FencePastAccepted /\ FencedBelowLastEpoch
===============================================================================
