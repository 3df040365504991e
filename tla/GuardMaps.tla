------------------------------ MODULE GuardMaps ------------------------------
(***************************************************************************)
(* The BPF maps that the loader (user space) writes and the LSM hooks      *)
(* (kernel) read: include/policy.h, include/common.h and bpf/maps.bpf.h.   *)
(*                                                                         *)
(* Data are abstracted to what decisions tell apart.  A policy is the      *)
(* result of parsing a policy directory: the settings of                   *)
(* mcp_policy_config, one partial function from keys to rules for each     *)
(* policy index, and the selectors of the agent profile.  A key of an      *)
(* index stands for an LPM prefix (path, command, or port and CIDR) or for *)
(* an inode number; the generation is the other component of every key.    *)
(***************************************************************************)
EXTENDS Integers, FiniteSets

CONSTANTS
    Keys,        \* keys of the policy indexes, generation excluded
    Ids,         \* comm names, pids and tgids
    Owners,      \* pairs of non-zero profile_id and agent_id
    None,        \* an absent entry, a zero id
    Policies,    \* the policies that policy directories may hold
    MaxRules,    \* MCP_GUARD_MAX_RULES
    GenMod,      \* 2^32 in the code: active_generation is a __u32
    EpochMod     \* 2^64 in the code: global_epoch is a __u64

Allow == "allow"
Deny  == "deny"
Audit == "audit"
Actions == {Allow, Deny, Audit}

Exec     == "exec"
FileOpen == "file_open"
Read     == "file_read"
Write    == "file_write"
Connect  == "socket_connect"
Hooks    == {Exec, FileOpen, Read, Write, Connect}

(* MCP_GUARD_POLICY_F_*.  DENY_TAILCALL_FAIL is loaded but read by no hook *)
SkipDirRead        == "skip_dir_read"
CacheFileFollowups == "cache_file_followups"
SkipL2Safe         == "skip_l2_safe"
Flags == {SkipDirRead, CacheFileFollowups, SkipL2Safe}

(* The policy indexes, in the order in which mcp_policy_load_dir visits    *)
(* them, and the scope maps, in the order of write_scope_maps.             *)
PathTrie     == 1
CommandTrie  == 2
NetworkTrie  == 3
ResourceHash == 4
Kinds == 1 .. 4

ScopeComm == 1
ScopePid  == 2
ScopeTgid == 3
ScopeMaps == 1 .. 3

Gens   == 0 .. (GenMod - 1)
Epochs == 0 .. (EpochMod - 1)

Rules == [action : Actions, hooks : SUBSET Hooks]
Slices == [Keys -> Rules \cup {None}]
ScopeTables == [Ids -> Owners \cup {None}]

(* struct mcp_policy_config without active_generation; hasRules is         *)
(* rule_count # 0, the only thing a hook reads of it.                      *)
Settings == [default  : Actions,
             enforce  : BOOLEAN,
             flags    : SUBSET Flags,
             hasRules : BOOLEAN,
             scoped   : BOOLEAN,
             owner    : Owners \cup {None}]

PolicyType == [settings : Settings,
               index    : [Kinds -> Slices],
               scope    : [ScopeMaps -> SUBSET Ids]]

ASSUME PoliciesAssumption == Policies \subseteq PolicyType
ASSUME NoneAssumption ==
    /\ None \notin Rules
    /\ None \notin Owners
    /\ None \notin Policies
ASSUME BoundsAssumption ==
    /\ MaxRules \in Nat
    /\ GenMod \in Nat /\ GenMod > 2
    /\ EpochMod \in Nat /\ EpochMod > 2

VARIABLES
    config,      \* policy_config: the settings and active_generation
    idx,         \* the path, command and network tries and the resource hash
    scope,       \* scope_comm, scope_pid and scope_tgid
    slots,       \* policy_rules: the policy whose rules fill it, or None
    epoch        \* global_epoch

mapVars == <<config, idx, scope, slots, epoch>>

EmptySlice == [k \in Keys |-> None]
EmptyIndex == [kind \in Kinds |-> [g \in Gens |-> EmptySlice]]
EmptyScope == [m \in ScopeMaps |-> [i \in Ids |-> None]]

(* A BPF array map starts zero filled: action 0 is ALLOW, mode 0 is        *)
(* SYSTEM_WIDE, and a lookup in it always finds the element.               *)
ZeroSettings == [default  |-> Allow, enforce |-> FALSE, flags |-> {},
                 hasRules |-> FALSE, scoped  |-> FALSE, owner |-> None]
ZeroConfig == [gen |-> 0, settings |-> ZeroSettings]

(* The policy that zero filled maps stand for.                             *)
ZeroPolicy == [settings |-> ZeroSettings,
               index    |-> [kind \in Kinds |-> EmptySlice],
               scope    |-> [m \in ScopeMaps |-> {}]]

MapsInit ==
    /\ config = ZeroConfig
    /\ idx = EmptyIndex
    /\ scope = EmptyScope
    /\ slots = None
    /\ epoch = 0

MapsTypeOK ==
    /\ config \in [gen : Gens, settings : Settings]
    /\ idx \in [Kinds -> [Gens -> Slices]]
    /\ scope \in [ScopeMaps -> ScopeTables]
    /\ slots \in Policies \cup {None}
    /\ epoch \in Epochs

-----------------------------------------------------------------------------
(* Map operations. *)

Entries(slice) == {k \in Keys : slice[k] # None}

(* add_rule takes at most MAX_RULES rules, and a rule has at most one      *)
(* entry in an index.                                                      *)
ASSUME RoomAssumption ==
    \A p \in Policies : \A kind \in Kinds :
        /\ IsFiniteSet(Entries(p.index[kind]))
        /\ Cardinality(Entries(p.index[kind])) <= MaxRules

(* The entries of one index, over all generations. *)
IndexEntries(kind) == {e \in Gens \X Keys : idx[kind][e[1]][e[2]] # None}

(* The tries and the hash are created with max_entries = 2 * MAX_RULES.    *)
(* IndexFullHalf, as every definition that stands before the one it is a   *)
(* variant of and is used nowhere, is a mistake that a run must notice.    *)
IndexFullHalf(kind) == Cardinality(IndexEntries(kind)) >= MaxRules
IndexFull(kind) == Cardinality(IndexEntries(kind)) >= 2 * MaxRules

SetEntry(kind, gen, key, rule) == [idx EXCEPT ![kind][gen][key] = rule]
SetScope(m, id, owner) == [scope EXCEPT ![m][id] = owner]

(* The contents that write_scope_maps gives the scope maps: every selector *)
(* carries the profile and agent of the configuration.                     *)
ScopeOf(p) == [m \in ScopeMaps |->
                  [i \in Ids |-> IF i \in p.scope[m] THEN p.settings.owner
                                                     ELSE None]]

(* Unsigned increments that skip zero. *)
NextGenNoWrap(g) == g + 1
NextGenSame(g) == g
NextGen(g) == IF g + 1 = GenMod THEN 1 ELSE g + 1
NextEpochZero(e) == (e + 1) % EpochMod
NextEpoch(e) == IF e + 1 = EpochMod THEN 1 ELSE e + 1
=============================================================================
