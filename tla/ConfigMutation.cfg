CONSTANTS
    Command = {c1, c2}
    p0 = p0
    p1 = p1
    p2 = p2
    m0 = m0
    m1 = m1
    m2 = m2
    Provider <- MCProvider
    Fake = p0
    Model <- MCModel
    Owner <- MCOwner
    NoModel = NoModel
    Default <- MCDefault
    Job <- MCJob
    Edited <- MCEdited
    Missing = Missing
    MaxHistory = 2
    MaxEdits = 2
SYMMETRY Symmetry
SPECIFICATION Spec
INVARIANTS
    LocksAccounted
    HistoryIsChain
    UndoPossible
    CredentialsBehindReferences
PROPERTIES
    RefinesUndoStack
CHECK_DEADLOCK FALSE
