CONSTANTS
    Clients = {c1}
    AttrLists <- Lists
    Groups <- GroupNames
    Projects = {""}
    MaxQueueSize = 1
    MaxLoggers = 3
    LevelNames = {"info"}
SPECIFICATION MCSpec
CHECK_DEADLOCK FALSE
INVARIANTS ReservedKeysOwn
