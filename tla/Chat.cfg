\* One client guesses; two sessions of one person ask at the same time; a conversation under four
\* security profiles; the files of two requests of a session; up to three runs of an evaluation.
SPECIFICATION ChatSpec
CONSTANTS
    k1 = k1 k2 = k2 None = None
    Profiles <- Some
    Limit = 2
    MaxSteps = 2
    MaxRetries = 0
    Ids = {1, 2, 3}
    MaxSnaps = 2
INVARIANTS LimitsHold CallsArePaired OutputsHold EvalHolds
PROPERTY StrikesStick
CHECK_DEADLOCK FALSE
