\* One request against every environment of the module.
SPECIFICATION FairSpec
CONSTANTS
    r1 = r1
    Reqs = {r1}
    Blank = Blank
    Garbled = Garbled
    Err = Err
    ToLower <- MCToLower
    Environments <- MCEnvironments
    Calls <- MCCalls
    CallTime = 3
    ShutdownTime = 2
INVARIANTS
    SettingsTakeEffect
    ApprovalsCanResolve
    LandsWhereNamed
    StatusTellsEffect
    AnsweredIsAudited
PROPERTIES
    CallEnds
CHECK_DEADLOCK FALSE
