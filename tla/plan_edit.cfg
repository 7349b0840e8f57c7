SPECIFICATION Spec
CONSTANTS
    a = a
    b = b
    Clients = {a, b}
    Conns = {1}
    Names = {1}
    MaxPlans = 2
    MaxSteps = 4
    MaxSeq = 2
    MaxCalls = 3
SYMMETRY Interchangeable
INVARIANTS
  TablesAreSound
PROPERTIES
  EditsKeepPlan
CHECK_DEADLOCK FALSE
