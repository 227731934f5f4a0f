\* Two sessions of one page, its requests and its stream, and a server that fails or restarts once.
SPECIFICATION Spec
CONSTANTS
    None = None
    Sessions = {1, 2}
    Recent = 1
    MaxWire = 2
    Budgets <- Chances
INVARIANTS TranscriptIsTrue
PROPERTIES PageSettles
CHECK_DEADLOCK FALSE
