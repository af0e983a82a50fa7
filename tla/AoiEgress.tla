------------------------------ MODULE AoiEgress ------------------------------
(*****************************************************************************)
(* The per-client egress budget: BandwidthGovernor                           *)
(* (crates/eidolon-net/src/governor.rs) driven by broadcast_aoi_updates      *)
(* (crates/eidolon-server/src/facade.rs).  Every tick refills the client's   *)
(* token bucket and then packs the entity records in view, in the order of   *)
(* the spatial query, into packets that are sent if the bucket covers them   *)
(* and dropped otherwise.  A record is its frequency tier.                   *)
(*****************************************************************************)
EXTENDS Naturals, Sequences, SequencesExt, FiniteSetsExt

CONSTANTS
    client_id,         \* the client whose egress is followed
    max_clients,       \* the slots of the governor
    Profiles,          \* max_bytes_per_sec of the density profiles
    TicksPerSec,       \* 20 in the code
    HEADER_SIZE, RECORD_LEN, MAX_PACKET_SIZE,
    Tiers,             \* the frequency tiers met, of 0 .. 4
    MaxVisible,        \* bound on the records in view
    MaxTicks           \* bound on the ticks

ASSUME EgressAssumption ==
    /\ {client_id, max_clients} \subseteq Nat
    /\ Profiles \subseteq Nat /\ TicksPerSec \in Nat \ {0}
    /\ {HEADER_SIZE, RECORD_LEN} \subseteq Nat \ {0}
    /\ MAX_PACKET_SIZE >= HEADER_SIZE + RECORD_LEN
    /\ Tiers \subseteq 0..4

VARIABLES
    profile, active, client_tokens,
    bytes_sent,        \* since the client was registered (history)
    allowance,         \* initial bucket and refills since then (history)
    last_tick,         \* [tokens, visible, bytes, records] of the latest tick (history)
    ticks

egressVars == <<profile, active, client_tokens, bytes_sent, allowance, last_tick, ticks>>

bytes_per_tick(pr) == pr \div TicksPerSec
bucket_capacity(pr) == bytes_per_tick(pr) * 3

Quiet == [tokens |-> 0, visible |-> << >>, bytes |-> 0, records |-> 0]

EgressTypeOK ==
    /\ profile \in Profiles
    /\ active \in BOOLEAN
    /\ client_tokens \in 0..bucket_capacity(Max(Profiles))
    /\ {bytes_sent, allowance} \subseteq Nat
    /\ Len(last_tick.visible) <= MaxVisible
    /\ ticks \in 0..MaxTicks

EgressInit ==
    /\ profile \in Profiles
    /\ active = FALSE
    /\ client_tokens = bucket_capacity(profile)
    /\ bytes_sent = 0
    /\ allowance = 0
    /\ last_tick = Quiet
    /\ ticks = 0

register_client ==
    /\ client_id < max_clients
    /\ active' = TRUE
    /\ client_tokens' = bucket_capacity(profile)
    /\ bytes_sent' = 0
    /\ allowance' = bucket_capacity(profile)
    /\ last_tick' = Quiet
    /\ UNCHANGED <<profile, ticks>>

unregister_client ==
    /\ active
    /\ active' = FALSE
    /\ last_tick' = Quiet
    /\ UNCHANGED <<profile, client_tokens, bytes_sent, allowance, ticks>>

set_profile(pr) ==
    /\ profile' = pr
    /\ last_tick' = Quiet
    /\ UNCHANGED <<active, client_tokens, bytes_sent, allowance, ticks>>

\* The refill of one tick.
refill(t) == Min({t + bytes_per_tick(profile), bucket_capacity(profile)})

should_admit_tier(t, tier) ==
    LET cap == bucket_capacity(profile)
    IN  /\ t >= RECORD_LEN
        /\ \/ tier \in {0, 1}
           \/ tier = 2 /\ t >= cap \div 4
           \/ tier = 3 /\ t >= cap \div 2
           \/ tier = 4 /\ t >= (cap * 3) \div 4

\* The packet built so far is sent if the bucket covers all of it.
send_packet(st) ==
    IF st.p_idx > HEADER_SIZE /\ st.tokens >= st.p_idx
    THEN [st EXCEPT !.tokens = @ - st.p_idx,
                    !.bytes = @ + st.p_idx,
                    !.records = @ + (st.p_idx - HEADER_SIZE) \div RECORD_LEN]
    ELSE st

\* One record of the loop: skipped if its tier is not admitted, else added,
\* after a full packet has been sent or dropped.  When the bucket cannot
\* cover one more record the loop is left with that packet still in the
\* buffer.
pack_record(st, tier) ==
    IF st.stop \/ ~should_admit_tier(st.tokens, tier) THEN st
    ELSE IF st.p_idx + RECORD_LEN <= MAX_PACKET_SIZE
    THEN [st EXCEPT !.p_idx = @ + RECORD_LEN]
    ELSE LET sent == send_packet(st)
         IN  IF sent.tokens < HEADER_SIZE + RECORD_LEN THEN [sent EXCEPT !.stop = TRUE]
             ELSE [sent EXCEPT !.p_idx = HEADER_SIZE + RECORD_LEN]

\* governor.tick, then the records in view are packed and the last packet is
\* sent.
broadcast_aoi_updates(visible) ==
    LET refilled == IF active THEN refill(client_tokens) ELSE client_tokens
        empty == [tokens |-> refilled, p_idx |-> HEADER_SIZE, stop |-> FALSE,
                  bytes |-> 0, records |-> 0]
        done  == IF active THEN send_packet(FoldLeft(pack_record, empty, visible))
                 ELSE empty
    IN  /\ ticks < MaxTicks
        /\ ticks' = ticks + 1
        /\ client_tokens' = done.tokens
        /\ bytes_sent' = bytes_sent + done.bytes
        /\ allowance' = IF active THEN allowance + bytes_per_tick(profile) ELSE allowance
        /\ last_tick' = [tokens |-> refilled, visible |-> visible,
                         bytes |-> done.bytes, records |-> done.records]
        /\ UNCHANGED <<profile, active>>

EgressNext ==
    \/ register_client
    \/ unregister_client
    \/ \E pr \in Profiles : set_profile(pr)
    \/ \E v \in BoundedSeq(Tiers, MaxVisible) : broadcast_aoi_updates(v)

EgressSpec == EgressInit /\ [][EgressNext]_egressVars

-------------------------------------------------------------------------------
\* What a client has been sent is covered by its first bucket and the refills
\* since, whatever the crowd and through changes of the profile; and no tick
\* sends more than the bucket of the profile in force ("Enforces byte budgets
\* using token-bucket rate limiting", governor.rs:3).
EgressWithinAllowance ==
    /\ active => bytes_sent + client_tokens <= allowance
    /\ last_tick.bytes <= bucket_capacity(profile)

\* No record is sent twice in a tick, although the buffer still holds the
\* last packet when the loop is left (facade.rs:1788-1842).
RecordsSentOnce == last_tick.records <= Len(last_tick.visible)

\* A client whose bucket covers a packet with one record gets some record
\* when one of the immediate tier is in view: "prioritizing high-relevance
\* combat entities and shedding distant tiers when egress budgets are
\* saturated" (governor.rs:3-4).
ImmediateTierServed ==
    /\ 0 \in ToSet(last_tick.visible)
    /\ active
    /\ last_tick.tokens >= HEADER_SIZE + RECORD_LEN
    => last_tick.records > 0

\* No client is sent more than its allowance, and no record twice in a tick
\* (facade.rs:1780-1845, governor.rs).
EgressSound ==
    /\ EgressTypeOK
    /\ EgressWithinAllowance
    /\ RecordsSentOnce
===============================================================================
