CONSTANTS
    e1 = e1
    e2 = e2
    p1 = p1
    p2 = p2
    Events = {e1}
    Starts = {3, 6}
    Repliers = {p1}
    Lookahead = 3
    PruneAfter = 3
    MaxWake = 2
    Coalesce = 1
    Listing = FALSE
    Echoes = FALSE
    Horizon = 6
    MaxChanges = 2
    MaxTroubles = 2
    MaxReplies = 1
SPECIFICATION Spec
INVARIANT TypeOK
INVARIANT PromptedOnce
INVARIANT NothingUnseenAsleep
PROPERTY Reconciled
CHECK_DEADLOCK FALSE
