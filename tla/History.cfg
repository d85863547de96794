SPECIFICATION TranscriptSpec
CONSTANTS
    Writer = {w1, w2}
    prompt = prompt
    u = u
    v = v
    reply = reply
    Message <- MCMessage
    System <- MCSystem
    Answer <- MCAnswer
    Incoming <- MCIncoming
    MaxLength = 5
SYMMETRY WriterSymmetry
INVARIANTS
    RetransmissionAddsNothing
PROPERTIES
    TurnsKept
