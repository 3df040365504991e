SPECIFICATION DaemonSpec
CONSTANTS
    k1 = k1  k2 = k2  i1 = i1  i2 = i2  o1 = o1  o2 = o2
    None = None
    Malformed = Malformed
    Keys = {k1, k2}
    Ids = {i1}
    Owners = {o1}
    Policies <- MCPolicies
    Texts <- MCTexts
    MaxRules = 1
    GenMod = 3
    EpochMod = 3
    FaultPoints = {"index", "rules", "scope", "config", "delete"}
    MaxFaults = 1
CHECK_DEADLOCK FALSE
INVARIANTS DaemonTypeOK AttachedToPolicy OnlyActiveGeneration SpaceSuffices RoomInv DaemonInv
PROPERTIES SignalledPolicyInstalled
