SPECIFICATION Spec
CONSTANTS
    s1 = s1
    s2 = s2
    x1 = x1
    None = None
    Commands = {s1}
    Type <- MCType
    Execution <- MCExecution
    Confirmed = {s1}
    MaxBoots = 2
    MaxWire = 1
CHECK_DEADLOCK FALSE
PROPERTY RecoveryFollowsThePatrol
