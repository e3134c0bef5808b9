\* Two requests in flight when the signal arrives.
SPECIFICATION Spec
CONSTANTS
    r1 = r1
    r2 = r2
    Reqs = {r1, r2}
    Blank = Blank
    Garbled = Garbled
    Err = Err
    ToLower <- MCToLower
    Environments <- MCOneEnvironment
    Calls <- MCFewCalls
    CallTime = 3
    ShutdownTime = 2
INVARIANTS
    InFlightFinish
CHECK_DEADLOCK FALSE
