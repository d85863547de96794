SPECIFICATION Spec
CONSTANTS
    System <- MCSystem
    Replies <- MCReplies
    Outputs <- MCOutputs
    Notes <- MCNotes
    Trigger = 5
    Recent = 2
    MaxTurns = 7
INVARIANTS
    Accepted
    Conveyed
\* A conversation may end.
CHECK_DEADLOCK FALSE
