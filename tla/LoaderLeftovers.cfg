SPECIFICATION Spec
CONSTANTS
    k1 = k1  k2 = k2  i1 = i1  i2 = i2  o1 = o1  o2 = o2
    None = None
    Malformed = Malformed
    Keys = {k1, k2}
    Ids = {i1, i2}
    Owners = {o1, o2}
    Policies <- MCPolicies
    MaxRules = 2
    GenMod = 4
    EpochMod = 4
    FaultPoints = {"get", "next_key", "delete", "index", "rules", "scope", "config", "epoch"}
    MaxFaults = 1
INVARIANTS OnlyActiveGeneration
