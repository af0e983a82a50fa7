\* Grid: three entities over three cells in two buckets; a cell splits at two
\* entities and merges at one.  Zones: one grid smaller than the other.
\* Cluster: two nodes.  Interior: two rooms with room for one item.
\* Structures: two structures in two chunks, which can decay to nothing.
\* Continent: two shards with two sectors, one token at a time; boxes of two.
SPECIFICATION WorldSpec
CONSTANTS
    max_entities = 3
    num_cells = 3
    CellSize = 4
    num_buckets = 2
    max_hotspots = 3
    SPLIT_THRESHOLD = 2
    MERGE_THRESHOLD = 1
    Visited = {0, 3, 5, 8}
    Radii = {0, 1, 4}
    MaxEntities1 = 2
    MaxEntities2 = 1
    Extent = 6
    SeamMin = 2
    SeamMax = 4
    MaxStep = 1
    MaxLsn = 3
    Nodes = {a, b}
    Travellers = {e}
    MaxDispatch = 3
    MaxCuts = 1
    Visitors = {e1, e2}
    Items = {i1, i2}
    MAX_INTERIOR_ITEMS_PER_BUILDING = 1
    MaxCells = 2
    Chunks = {c1, c2}
    Materials = {"Wood", "Stone"}
    MaxStructures = 2
    MaxPieces = 3
    MaxRevision = 5
    MaxCycles = 2
    MAX_STABILITY = 3
    max_health = 2
    PieceTypes = {"Wall", "Foundation"}
    ShardCount = 2
    Leaders = {0}
    Regions = {0, 1}
    Crowds = {0, 2}
    Hotspot = 2
    Wilderness = 0
    Riders = {7}
    Drives <- AtTheSeam
    Lookahead = 4
    SectorWidth = 4
    MAX_ACTIVE_PRE_AUTHS = 1
    TokenTtl = 0
    MaxContinentTick = 1
    MaxSeamTokens = 2
    PARTITION_TIMEOUT = 1
    LEASE_DURATION = 2
    MaxBoundaryTick = 6
    ZoneNodes <- UnequalGrids
    BOX = 2
    STAGED = 3
INVARIANTS
    GridExact
    OnePlace
    ContinentSound
    BuildingsSound
PROPERTIES
    MigrationsSettle
CHECK_DEADLOCK FALSE
