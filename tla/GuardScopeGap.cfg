SPECIFICATION GuardSpec
CONSTANTS
    k1 = k1  k2 = k2  i1 = i1  i2 = i2  o1 = o1  o2 = o2  t1 = t1  t2 = t2
    None = None
    Malformed = Malformed
    Keys = {k1, k2}
    Ids = {i1, i2}
    Owners = {o1, o2}
    Policies <- OneScoped
    MaxRules = 2
    GenMod = 4
    EpochMod = 3
    FaultPoints = {}
    MaxFaults = 0
    Tasks = {t1}
    Cpus = {1}
    Objects <- OneProgram
    Rids = {"ino1", "ino2", "ino3", "ino4", "ino5", "ino6", "sock1"}
    IdOf <- MCIdOf
    L1Size = 1
    Preemptible = FALSE
CHECK_DEADLOCK FALSE
INVARIANTS MatchingTasksAreGuarded
