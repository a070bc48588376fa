CONSTANTS
    Clients = {c1, c2}
    AttrLists <- Lists
    Groups <- GroupNames
    Projects = {"", "tolo"}
    MaxQueueSize = 1
    MaxLoggers = 6
    LevelNames = {"info", "unknown"}
SPECIFICATION MCSpec
CHECK_DEADLOCK FALSE
INVARIANTS TypeOK NothingHidden SpanOnlyAddsTrace CleanExitLosesNoRequest ResourcesReleased SpansExported
PROPERTIES EndsOnceStopped
