SPECIFICATION Spec
CONSTANTS
    Command = {c1, c2}
    Pid = {p1, p2}
    Missing = Missing
    MaxSpawns = 2
    MaxOthers = 1
INVARIANTS
    RunningIsRecorded
PROPERTIES
    StopHitsOwnGateway
    CommandsEnd
