SPECIFICATION Spec
CONSTANTS
    Topics <- MCTopics
    Values <- MCValues
    NoValue = "unset"
    SendCapacity = 2
    MaxChanges = 3
PROPERTIES
    ConnectionEnds
    ClientCatchesUp
CHECK_DEADLOCK FALSE
