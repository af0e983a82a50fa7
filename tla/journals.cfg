SPECIFICATION JournalsSpec
CONSTANTS
    Records = {r1, r2}
    RING_CAP = 3
    RING_BATCH = 2
    NoRecord = NoRecord
    Payloads = {d1}
    CAP = 2
    BATCH = 2
    FileSink = TRUE
    MaxLsn = 3
    MaxEpoch = 2
    MaxFrames = 5
    Primary = p
    Replicas = {q1, q2}
    Quorums = {0, 2, 3}
    Modes = {"SynchronousQuorum", "AsynchronousMirror", "LocalOnly"}
    MaxReplLsn = 2
    MaxReplFrames = 3
    MaxLost = 1
    Pushers = {p1, p2}
    NoPusher = none
    JOURNAL_BUFFER_CAPACITY = 2
    MaxSequence = 3
    MaxFlushes = 1
    Faulty = TRUE
    Actors = {1, 2}
    Velocities = {1, 2}
    MAX_INPUT_FRAMES_CAPACITY = 3
    MAX_KEYFRAMES_CAPACITY = 2
    MAX_KEYFRAME_ENTITIES = 1
    FRAME_BUF = 2
    MaxRecorded = 3
    MaxInputs = 4
    MAX_ROSTER_SIZE = 2
    Blueprints = {1, 2}
    Amounts = {1, 2}
    MaxSaves = 1
INVARIANTS
    ConfirmedSurvives
    QuorumIsKept
    SqpollSound
    SnapshotsFaithful
PROPERTIES
    RingIsFifo
    SteadyWritten
CHECK_DEADLOCK FALSE
