\* One child that is updated and scaled, one that is deleted when disabled.
SPECIFICATION FirstSpec
CONSTANTS
    c1 = c1
    Cfgs = {c1, c2}
    Absent = Absent
    Gone = Gone
    Children <- Scaled
    MaxGen = 3
    TierLimits <- PublicTiers
    Legacy <- OperatorSizes
    Unset = Unset
    MaxDisturbances = 1
INVARIANTS TypeOK ObservedHonest ChildrenNeedFinalizer ReadyIsRunning RestsSettled
PROPERTIES NoOrphans Converges
CHECK_DEADLOCK FALSE
