\* Channel: nine messages over eight sequence numbers, so the numbers wrap
\* around.  Window: sequences around a window of three, with jumps of its width
\* and past it.  Rings: the cursors wrap around, batches larger than the room.
SPECIFICATION TransportSpec
CONSTANTS
    Modulus = 8
    AckBits = 3
    PENDING_CAP = 3
    ORDERED_CAP = 1
    RetryTicks = 1
    MaxBackoff = 1
    max_retries = 1
    EagerAcks = FALSE
    MaxAge = 3
    MaxMessages = 9
    FewMessages = 3
    Width = 3
    Sequences64 = {0, 1, 2, 3, 4, 5, 8, 9}
    Packets = {p, q}
    QUEUE_CAP = 3
    MaxBatch = 2
    Payloads = {"p", "q"}
    BP_CAP = 4
    DrainLen = 2
    IO_CAP = 3
    BATCH_SIZE = 2
    MaxIn = 4
    MaxOut = 2
    MAX_BYTES = 4
    MAX_SLOTS = 2
    RESERVED = 1
    SendSizes = {1, 2}
    MaxAdmissionTick = 2
    RATE = 3
    BYTE_RATE = 4
    TICKS_PER_SECOND = 2
    ArrivalSizes = {1, 2, 5}
    Pauses = {1, 2}
    MaxPoliceTick = 3
    MEMORY_LIMIT = 3
    AllocationSizes = {1, 2, 4}
    MaxAllocations = 2
    DelaySlots = 2
    TravelTimes = {0, 1, 2}
    CLONE_DELAY = 1
    BURST_LENGTH = 2
    MaxTravellers = 3
    MaxTravelTime = 3
INVARIANTS
    DeliveryExact
    WindowInv
    QueuesConsistent
    TrafficSound
PROPERTIES
    QueuesShed
    IngressFair
    SteadyDelivered
CHECK_DEADLOCK FALSE
