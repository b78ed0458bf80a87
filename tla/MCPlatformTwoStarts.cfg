SPECIFICATION Spec
CONSTANTS
    s1 = s1
    s2 = s2
    x1 = x1
    None = None
    Commands = {s1, s2}
    Type <- MCType
    Execution <- MCExecution
    Confirmed = {s1, s2}
    MaxBoots = 1
    MaxWire = 1
INVARIANTS OneStartWaits
SYMMETRY MCSymmetry
CHECK_DEADLOCK FALSE
