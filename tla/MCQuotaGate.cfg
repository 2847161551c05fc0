CONSTANTS
    sync = sync
    user = user
    events = events
    tasks = tasks
    c1 = c1
    c2 = c2
    Gates = {events, tasks}
    Callers = {c1, c2}
    Providers = {sync, user}
    ProviderOf <- MCProviderOf
    Pace = 1
    MaxInlineDelay = 4
    MaxInlineRetryWait = 6
    MaxReadRetries = 2
    RetryDelays <- MCRetryDelays
    Horizon = 3
    MaxCalls = 3
SPECIFICATION Spec
SYMMETRY Symmetry
INVARIANT TypeOK
INVARIANT WaitsBounded
INVARIANT SentOnce
PROPERTY Paced
PROPERTY CooldownKept
CHECK_DEADLOCK FALSE
