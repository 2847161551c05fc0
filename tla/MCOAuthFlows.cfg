CONSTANTS
    f1 = f1
    f2 = f2
    r1 = r1
    r2 = r2
    Flows = {f1, f2}
    Requests = {r1, r2}
SPECIFICATION Spec
INVARIANT TypeOK
INVARIANT NoPanic
INVARIANT StoppedAddsNothing
PROPERTY Refines
PROPERTY EachEnds
CHECK_DEADLOCK FALSE
