\* A worker deque of two slots that are used again, and two thieves.
SPECIFICATION PoolSpec
CONSTANTS
    Capacity = 2
    Thieves = {p, q}
    MaxJobs = 3
PROPERTIES JobsRun
CHECK_DEADLOCK FALSE
