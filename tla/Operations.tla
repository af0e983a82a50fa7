------------------------------ MODULE Operations ------------------------------
(*****************************************************************************)
(* Running a server: the administrators' bridge between the HTTP thread and  *)
(* the simulation (eidolon-server/src/admin.rs, facade.rs), the pacing and   *)
(* load shedding of the tick loop (main.rs, tick.rs, clock.rs), alerts and   *)
(* the life of the pod (alerting.rs, agones.rs), and sessions that move      *)
(* between nodes of mixed versions (rolling.rs, eidolon-net/src/version.rs). *)
(* Times are whole units.                                                    *)
(*****************************************************************************)
EXTENDS Integers, Sequences, FiniteSets, PartialFunctions

CONSTANTS
    AdminToken, OtherTokens,            \* bearer tokens; NoBearer is none
    NoBearer,
    Managed,                            \* entities a command may name
    Spots,                              \* where players stand and are teleported
    MAX_ADMIN_LOGS, MAX_PENDING_GM_COMMANDS,
    MaxRequests,                        \* bound on the requests
    TickInterval, SuspendThreshold, MAX_CATCH_UP,
    ShedLevel1, ShedLevel2,             \* LEVEL1_SHEDDING_MICROS, LEVEL2_SHEDDING_MICROS
    CalmTicks2, CalmTicks1,             \* calm ticks before level 2, then level 1 is left
    ExecTimes, Oversleeps,              \* how long a tick takes, and how late a sleep ends
    MaxPaceTime,                        \* bound on the time
    OverrunTicks, PressureTicks,        \* thresholds of the two counted alerts
    MAX_DRAIN_TICKS, MaxPodTicks,       \* the latter a bound
    ClusterVersions,                    \* node id -> protocol version deployed there
    UpgradeSessions, ClientVersions, MAX_UPGRADE_SESSIONS,
    MIN_SUPPORTED, MAX_SUPPORTED,
    MaxMoves                            \* bound on migrations of a session

ASSUME OperationsAssumption ==
    /\ NoBearer \notin {AdminToken} \cup OtherTokens /\ AdminToken \notin OtherTokens
    /\ {MAX_ADMIN_LOGS, MAX_PENDING_GM_COMMANDS, TickInterval, CalmTicks1, CalmTicks2,
        OverrunTicks, PressureTicks, MIN_SUPPORTED} \subseteq Nat \ {0}
    /\ {SuspendThreshold, MAX_CATCH_UP, ShedLevel1, ShedLevel2, MaxRequests, MaxPaceTime,
        MAX_DRAIN_TICKS, MaxPodTicks, MAX_UPGRADE_SESSIONS, MAX_SUPPORTED, MaxMoves} \subseteq Nat
    /\ ExecTimes \subseteq Nat /\ Oversleeps \subseteq Nat /\ ClientVersions \subseteq Nat
    \* A suspension is at least two ticks long (200 ms at 20 Hz); the histories count up to
    \* the thresholds.
    /\ SuspendThreshold >= 2 * TickInterval /\ ShedLevel1 <= ShedLevel2
    /\ MaxPodTicks >= OverrunTicks /\ MaxPodTicks >= PressureTicks
    /\ MaxPodTicks >= MAX_DRAIN_TICKS
    \* The versions there are, and those nodes are deployed with.
    /\ MAX_SUPPORTED <= 2
    /\ \A n \in DOMAIN ClusterVersions : ClusterVersions[n] \in 0..MAX_SUPPORTED

VARIABLES
    commands, admin_logs,       \* AdminBridge: pending_commands, logs
    snapshot,                   \* AdminBridge: the players shown
    avatars,                    \* the server's players: entity -> where it is
    requested,                  \* queued commands of authorized requests, in order (history)
    executing,                  \* commands the simulation has taken and not yet carried out
    executed,                   \* commands carried out, in order (history)
    requests,                   \* requests handled (history)
    pace,                       \* ClockGovernor, the time and the latest sleep
    shedding,                   \* TickCoordinator: level, consecutive_normal_ticks
    calm,                       \* calm ticks since the latest busy one, overrun or drop of level (history)
    pod, agones,                \* PodLifecycleController; AgonesClient's state
    alerting,                   \* AlertEvaluator: counters and active alerts
    strain,                     \* latest ticks in a row with each condition (history)
    drained,                    \* ticks since the drain was last asked for (history)
    upgrades,                   \* session -> its client, node, features and moves
    node_sessions               \* node -> active_sessions

adminVars == <<commands, admin_logs, snapshot, avatars, requested, executing, executed, requests>>
paceVars == <<pace, shedding, calm>>
podVars == <<pod, agones, alerting, strain, drained>>
rollingVars == <<upgrades, node_sessions>>
operationsVars == <<adminVars, paceVars, podVars, rollingVars>>

Least(a, b) == IF a < b THEN a ELSE b
Less(a, b) == IF a > b THEN a - b ELSE 0

(* ------------------------------ administration ---------------------------- *)

GmCommands ==
    [op : {"Kick"}, entity : Managed]
    \cup [op : {"Teleport"}, entity : Managed, spot : Spots]
    \cup [op : {"Broadcast", "Checkpoint"}]

log_event(logs, entry) ==
    Append(IF Len(logs) >= MAX_ADMIN_LOGS THEN Tail(logs) ELSE logs, entry)

drain_commands(queue) == queue

is_authorized(bearer) == bearer = AdminToken

\* The queue with the command, or as it was when it is full.
enqueue_command(queue, cmd) ==
    IF Len(queue) < MAX_PENDING_GM_COMMANDS THEN Append(queue, cmd) ELSE queue

\* A POST of the dashboard: logged and queued; whether the queue took the command is not
\* looked at, and the answer is a success.
handle_http_connection(bearer, cmd) ==
    /\ requests < MaxRequests /\ requests' = requests + 1
    /\ IF ~ is_authorized(bearer)
       THEN UNCHANGED <<commands, admin_logs, requested>>
       ELSE /\ admin_logs' = log_event(admin_logs, <<"asked", cmd.op>>)
            /\ commands' = enqueue_command(commands, cmd)
            /\ requested' = IF commands' = commands THEN requested ELSE Append(requested, cmd)
    /\ UNCHANGED <<snapshot, avatars, executing, executed>>

\* The commands are taken in one critical section and carried out one by one, each with its own
\* entry in the log; the HTTP thread logs and queues in between.
drain_admin_commands ==
    /\ executing = <<>>
    /\ executing' = drain_commands(commands)
    /\ commands' = <<>>
    /\ UNCHANGED <<admin_logs, snapshot, avatars, requested, executed, requests>>

\* The players after a command; those that left in the meantime are passed over.
Obeyed(players, cmd) ==
    CASE cmd.op = "Kick" -> Without(players, {cmd.entity})
      [] cmd.op = "Teleport" /\ cmd.entity \in DOMAIN players ->
             [players EXCEPT ![cmd.entity] = cmd.spot]
      [] OTHER -> players

Execute ==
    /\ executing # <<>>
    /\ LET cmd == Head(executing)
           missed == cmd.op = "Teleport" /\ cmd.entity \notin DOMAIN avatars
       IN  /\ avatars' = Obeyed(avatars, cmd)
           /\ admin_logs' = IF missed THEN admin_logs
                            ELSE log_event(admin_logs, <<"done", cmd.op>>)
           /\ executed' = Append(executed, cmd)
    /\ executing' = Tail(executing)
    /\ UNCHANGED <<commands, snapshot, requested, requests>>

\* The rest of the tick, in which players come and go by themselves.
update_admin_snapshot ==
    /\ executing = <<>>
    /\ snapshot' = avatars
    /\ UNCHANGED <<commands, admin_logs, avatars, requested, executing, executed, requests>>

PlayerComes(e, spot) ==
    /\ executing = <<>>
    /\ e \notin DOMAIN avatars
    /\ avatars' = With(avatars, e, spot)
    /\ UNCHANGED <<commands, admin_logs, snapshot, requested, executing, executed, requests>>

AdminInit ==
    /\ commands = <<>> /\ admin_logs = <<>> /\ snapshot = << >>
    /\ avatars = << >> /\ requested = <<>> /\ executing = <<>> /\ executed = <<>>
    /\ requests = 0

AdminNext ==
    \/ \E bearer \in {AdminToken, NoBearer} \cup OtherTokens, cmd \in GmCommands :
           handle_http_connection(bearer, cmd)
    \/ drain_admin_commands
    \/ Execute
    \/ update_admin_snapshot
    \/ \E e \in Managed, spot \in Spots : PlayerComes(e, spot)

-------------------------------------------------------------------------------
(* --------------------------------- pacing --------------------------------- *)

NewGovernor ==
    [now |-> 0, current_tick |-> 0, baseline_tick |-> 0, baseline |-> 0, last |-> 0, slept |-> 0]

ClampedLag == TickInterval * MAX_CATCH_UP
TargetOf(g) == g.baseline + TickInterval * (g.current_tick - g.baseline_tick)

\* Mutated form: the schedule moves to the present and keeps its first tick.
Rebased_time(g, now) == [g EXCEPT !.baseline = Less(now, ClampedLag)]

\* The schedule that is MAX_CATCH_UP ticks behind at this tick.
Rebased(g, now) ==
    [g EXCEPT !.baseline = Less(now, ClampedLag),
              !.baseline_tick = Less(g.current_tick, MAX_CATCH_UP)]

\* The governor after the tick that ended at `now`, and how long it sleeps.
evaluate_pacing(g, now) ==
    LET ticked == [g EXCEPT !.current_tick = @ + 1, !.last = now, !.now = now, !.slept = 0]
        target == TargetOf(ticked)
    IN  IF now - g.last >= SuspendThreshold THEN Rebased(ticked, now)
        ELSE IF target > now THEN [ticked EXCEPT !.slept = target - now]
        ELSE IF now - target > ClampedLag THEN Rebased(ticked, now)
        ELSE ticked

\* Calm ticks are counted anew from a tick that overran its interval.
CalmSince(n, duration) == IF duration >= TickInterval THEN 0 ELSE n

\* Load shedding rises at once and falls one level after enough calm ticks.
record_tick_execution(before, duration) ==
    LET s == [before EXCEPT !.normal = CalmSince(@, duration)] IN
    CASE duration >= ShedLevel2 -> [level |-> 2, normal |-> 0]
      [] duration >= ShedLevel1 /\ duration < ShedLevel2 ->
             [level |-> IF s.level < 1 THEN 1 ELSE s.level, normal |-> 0]
      [] OTHER ->
             IF s.level = 2 /\ s.normal + 1 >= CalmTicks2 THEN [level |-> 1, normal |-> 0]
             ELSE IF s.level = 1 /\ s.normal + 1 >= CalmTicks1 THEN [level |-> 0, normal |-> 0]
             ELSE [s EXCEPT !.normal = Least(@ + 1, CalmTicks1 + CalmTicks2)]

\* One iteration of run_authoritative_loop: the tick, its record, the sleep.
run_authoritative_loop(duration, late) ==
    LET g == evaluate_pacing(pace, pace.now + duration)
        s == record_tick_execution(shedding, duration)
    IN  /\ pace.now + duration <= MaxPaceTime
        /\ pace' = [g EXCEPT !.now = IF g.slept > 0 THEN @ + g.slept + late ELSE @]
        /\ shedding' = s
        /\ calm' = IF duration >= ShedLevel1 \/ s.level < shedding.level THEN 0
                   ELSE Least(CalmSince(calm, duration) + 1, CalmTicks1 + CalmTicks2)

PaceInit ==
    /\ pace = NewGovernor
    /\ shedding = [level |-> 0, normal |-> 0] /\ calm = 0

PaceNext == \E duration \in ExecTimes, late \in Oversleeps : run_authoritative_loop(duration, late)

-------------------------------------------------------------------------------
(* ----------------------------- alerts and pods ---------------------------- *)

AlertConditions == {"tick", "pressure", "lag", "lapses"}
Severity(kind) == IF kind = "lapses" THEN 3 ELSE 2
NewEvaluator == [overruns |-> 0, critical |-> 0, alerts |-> {}]

\* Counters restart when their condition ends; the other two alert at once.
evaluate_tick(ev, conditions) ==
    LET overruns == IF "tick" \in conditions THEN Least(ev.overruns + 1, OverrunTicks) ELSE 0
        critical == IF "pressure" \in conditions THEN Least(ev.critical + 1, PressureTicks) ELSE 0
    IN  [overruns |-> overruns, critical |-> critical,
         alerts |-> {k \in conditions \cap {"lag", "lapses"} : TRUE}
                    \cup {k \in conditions \cap {"tick"} : overruns >= OverrunTicks}
                    \cup {k \in conditions \cap {"pressure"} : critical >= PressureTicks}]

has_alert_at_least(ev, severity) == \E k \in ev.alerts : Severity(k) >= severity

pod_update(p, ev) ==
    CASE p.state \in {"Allocated", "Degraded"} /\ has_alert_at_least(ev, 3) ->
             [state |-> "Draining", draining_ticks |-> 0]
      [] p.state = "Allocated" /\ ~ has_alert_at_least(ev, 3) /\ has_alert_at_least(ev, 2) ->
             [p EXCEPT !.state = "Degraded"]
      [] p.state = "Degraded" /\ ~ has_alert_at_least(ev, 1) -> [p EXCEPT !.state = "Allocated"]
      [] p.state = "Draining" ->
             [state |-> IF p.draining_ticks + 1 >= MAX_DRAIN_TICKS THEN "Shutdown" ELSE "Draining",
              draining_ticks |-> p.draining_ticks + 1]
      [] OTHER -> p

\* A tick of the supervised server; the counters of the alerts need not pass their thresholds.
PodTick(conditions) ==
    LET ev == evaluate_tick(alerting, conditions)
    IN  /\ alerting' = ev
        /\ pod' = pod_update(pod, ev)
        /\ strain' = [k \in AlertConditions |->
                         IF k \in conditions THEN Least(strain[k] + 1, MaxPodTicks) ELSE 0]
        /\ drained' = CASE pod.state = "Draining" -> Least(drained + 1, MaxPodTicks)
                      [] pod.state = "Shutdown" -> drained
                      [] OTHER -> 0
        /\ UNCHANGED agones

mark_ready ==
    /\ pod' = [pod EXCEPT !.state = IF @ = "Starting" THEN "Ready" ELSE @]
    /\ UNCHANGED <<agones, alerting, strain, drained>>

mark_allocated ==
    /\ pod' = [pod EXCEPT !.state = IF @ = "Ready" THEN "Allocated" ELSE @]
    /\ UNCHANGED <<agones, alerting, strain, drained>>

\* Asked again while draining, the pod starts the drain anew.
initiate_drain ==
    /\ pod' = IF pod.state = "Shutdown" THEN pod
              ELSE [state |-> "Draining", draining_ticks |-> 0]
    /\ drained' = IF pod.state = "Shutdown" THEN drained ELSE 0
    /\ UNCHANGED <<agones, alerting, strain>>

\* The sidecar may not be reachable: the state stays.
send_command(state) ==
    /\ \E reachable \in BOOLEAN : agones' = IF reachable THEN state ELSE agones
    /\ UNCHANGED <<pod, alerting, strain, drained>>

PodInit ==
    /\ pod = [state |-> "Starting", draining_ticks |-> 0]
    /\ agones = "Scheduled"
    /\ alerting = NewEvaluator
    /\ strain = [k \in AlertConditions |-> 0] /\ drained = 0

PodNext ==
    \/ \E conditions \in SUBSET AlertConditions : PodTick(conditions)
    \/ mark_ready \/ mark_allocated \/ initiate_drain
    \/ \E state \in {"Ready", "Allocated", "Shutdown"} : send_command(state)

-------------------------------------------------------------------------------
(* ---------------------------- rolling upgrades ---------------------------- *)

UpgradeNodes == DOMAIN ClusterVersions

features_for_version(version) ==
    CASE version = 1 -> {"BASE_SIMULATION", "CELL_ANCHOR_REPLICATION"}
      [] version = 2 -> {"BASE_SIMULATION", "CELL_ANCHOR_REPLICATION",
                         "AUTHENTICATED_SESSIONS", "REPLAY_WINDOW_64BIT"}
      [] OTHER -> {}

\* The versions agreed on: none if the client's is not supported.
negotiate(server, client) ==
    IF client < MIN_SUPPORTED \/ client > MAX_SUPPORTED THEN {} ELSE {Least(client, server)}

connect_session(s, client, n) ==
    /\ s \notin DOMAIN upgrades /\ Cardinality(DOMAIN upgrades) < MAX_UPGRADE_SESSIONS
    /\ n \in UpgradeNodes
    /\ \E agreed \in negotiate(ClusterVersions[n], client) :
           upgrades' = With(upgrades, s, [client_version |-> client, assigned_node |-> n,
                            features |-> features_for_version(agreed), migrations_count |-> 0])
    /\ node_sessions' = [node_sessions EXCEPT ![n] = @ + 1]

\* A session at its new node, with what the versions there agree on.
Moved(u, target, agreed) ==
    [u EXCEPT !.assigned_node = target, !.features = features_for_version(agreed),
              !.migrations_count = @ + 1]

live_migrate_session(s, target) ==
    /\ s \in DOMAIN upgrades /\ target \in UpgradeNodes
    /\ upgrades[s].migrations_count < MaxMoves
    /\ \E agreed \in negotiate(ClusterVersions[target], upgrades[s].client_version) :
           upgrades' = [upgrades EXCEPT ![s] = Moved(@, target, agreed)]
    /\ LET left == [node_sessions EXCEPT ![upgrades[s].assigned_node] = Less(@, 1)]
       IN  node_sessions' = [left EXCEPT ![target] = @ + 1]

RollingInit == upgrades = << >> /\ node_sessions = [n \in UpgradeNodes |-> 0]

RollingNext ==
    \E s \in UpgradeSessions, n \in UpgradeNodes :
        \/ \E client \in ClientVersions : connect_session(s, client, n)
        \/ live_migrate_session(s, n)

OperationsInit == AdminInit /\ PaceInit /\ PodInit /\ RollingInit

-------------------------------------------------------------------------------
(* What administrators were promised is carried out once and in order, and   *)
(* nothing else is; the log is bounded.                                      *)
CommandsKept ==
    /\ requested = executed \o executing \o commands
    /\ Len(commands) <= MAX_PENDING_GM_COMMANDS /\ Len(admin_logs) <= MAX_ADMIN_LOGS

(* The loop is never ahead of the wall clock, never more behind its schedule *)
(* than it may catch up, never sleeps longer than a tick; load shedding      *)
(* falls only after enough calm ticks.                                       *)
PacingSound ==
    /\ pace.current_tick * TickInterval <= pace.now
    /\ pace.slept = 0 => pace.now - TargetOf(pace) <= ClampedLag
    /\ pace.slept <= TickInterval
    /\ shedding.level > 0 => calm < (IF shedding.level = 2 THEN CalmTicks2 ELSE CalmTicks1)

(* A counted alert is up exactly while its condition has held long enough; a *)
(* pod does not shut down before its drain had its time.                     *)
PodSound ==
    /\ "tick" \in alerting.alerts <=> strain["tick"] >= OverrunTicks
    /\ "pressure" \in alerting.alerts <=> strain["pressure"] >= PressureTicks
    /\ pod.state = "Shutdown" => drained >= MAX_DRAIN_TICKS

(* Each node's count is that of its sessions, and a session uses only        *)
(* features its client and its node both know, wherever it moved.            *)
RollingSound ==
    /\ \A n \in UpgradeNodes :
           node_sessions[n] = Cardinality({s \in DOMAIN upgrades : upgrades[s].assigned_node = n})
    /\ \A s \in DOMAIN upgrades :
           LET u == upgrades[s]
           IN  u.features = features_for_version(u.client_version)
                            \cap features_for_version(ClusterVersions[u.assigned_node])

(* The administrators' commands (admin.rs, facade.rs), the pacing of the     *)
(* loop (clock.rs, tick.rs, main.rs), alerts and pods (alerting.rs) and      *)
(* rolling upgrades (rolling.rs, version.rs) are sound.                      *)
OperationsSound == CommandsKept /\ PacingSound /\ PodSound /\ RollingSound
===============================================================================
