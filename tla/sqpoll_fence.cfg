\* Two threads push while the flusher and flush_sync drain; nothing fails.
SPECIFICATION SqpollSpec
CONSTANTS
    Pushers = {p1, p2}
    NoPusher = none
    JOURNAL_BUFFER_CAPACITY = 2
    MaxSequence = 3
    MaxFlushes = 1
    Faulty = FALSE
INVARIANTS
    DurableIsWritten
CHECK_DEADLOCK FALSE
