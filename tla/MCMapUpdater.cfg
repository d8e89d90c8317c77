CONSTANTS
    Workers = {w1, w2, w3}
    continent = continent
    dungeon = dungeon
    i1 = i1
    i2 = i2
    NoMap = NoMap
    BaseMaps <- MCBaseMaps
    InstancedMaps <- MCInstanced
    Instances <- MCInstances
    ParentOf <- MCParentOf
SPECIFICATION Spec
CHECK_DEADLOCK FALSE
INVARIANTS TypeOK PendingIsExact WorldHasMaps NoDeadMap OneRequestPerMap NoNullRequest NothingDropped
PROPERTIES ImplementsBarrier TickCompletes ShutdownCompletes
