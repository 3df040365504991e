----------------------------- MODULE PolicyLoader -----------------------------
(***************************************************************************)
(* mcp_policy_load_dir (loader/policy_loader.c): one policy load, as the   *)
(* sequence of bpf(2) map operations it performs.  Each operation on an    *)
(* entry is a step of its own, because the LSM hooks run between any two   *)
(* of them; the snapshot is one step, because only the loader writes the   *)
(* maps it reads.  Any update may fail, and the rollback of each error     *)
(* path is modelled operation by operation too.                            *)
(***************************************************************************)
EXTENDS GuardMaps

CONSTANTS
    Malformed,    \* a policy directory that cannot be parsed
    FaultPoints,  \* the map operations that may fail in this instance
    MaxFaults     \* bound on the number of failing operations

(* "get" is bpf_map_lookup_elem, "next_key" bpf_map_get_next_key and       *)
(* "delete" bpf_map_delete_elem; the others are bpf_map_update_elem on the *)
(* indexes, policy_rules, the scope maps, policy_config and global_epoch.  *)
AllFaultPoints == {"get", "next_key", "delete", "index", "rules", "scope",
                   "config", "epoch"}

ASSUME FaultAssumption ==
    /\ FaultPoints \subseteq AllFaultPoints
    /\ MaxFaults \in Nat
ASSUME MalformedAssumption == Malformed \notin Policies /\ Malformed # None

VARIABLES
    pc,       \* the next operation of the load
    at,       \* the index or scope map that the current loop works on
    upto,     \* the last index whose staged generation is to be deleted
    target,   \* the parsed policy (state, scope and config in the code)
    next,     \* config.active_generation, the generation being staged
    snap,     \* the policy_map_snapshot, kept until the next load
    lost,     \* selectors whose reinsertion failed in the current map
    result,   \* main's policy_result, and what the last load returned
    faults,   \* number of operations that have failed
    live,     \* history: the policy staged under config.gen
    masked    \* history: an error was discarded and work left undone

loadVars == <<pc, at, upto, target, next, snap, lost, result, faults, live,
              masked>>
vars == <<mapVars, loadVars>>

ForwardPcs == {"snapshot", "clear_next", "write", "rules", "scope_clear",
               "scope_write", "config", "config_rest", "bump", "clear_old", "finish"}
RestorePcs == {"r_rules", "r_clear", "r_write", "r_scope_clear",
               "r_scope_write", "r_config", "r_config_rest"}
Pcs == {"idle", "unstage"} \cup ForwardPcs \cup RestorePcs

Lives == Policies \cup {ZeroPolicy}

(* struct policy_map_snapshot; epoch and live are history fields. *)
Snapshots == [have   : BOOLEAN,
              config : [gen : Gens, settings : Settings],
              idx    : [Kinds -> [Gens -> Slices]],
              scope  : [ScopeMaps -> ScopeTables],
              slots  : Policies \cup {None},
              epoch  : Epochs,
              live   : Lives]

NoSnap == [have   |-> FALSE,      config |-> ZeroConfig, idx   |-> EmptyIndex,
           scope  |-> EmptyScope, slots  |-> None,       epoch |-> 0,
           live   |-> ZeroPolicy]

TypeOK ==
    /\ MapsTypeOK
    /\ pc \in Pcs
    /\ at \in Kinds
    /\ upto \in Kinds
    /\ target \in Policies \cup {None}
    /\ next \in Gens
    /\ snap \in Snapshots
    /\ lost \subseteq Ids
    /\ result \in [status : {"none", "ok", "failed"}, gen : Gens, epoch : Epochs]
    /\ faults \in 0 .. MaxFaults
    /\ live \in Lives
    /\ masked \in BOOLEAN

Init ==
    /\ MapsInit
    /\ pc = "idle"
    /\ at = 1
    /\ upto = 1
    /\ target = None
    /\ next = 0
    /\ snap = NoSnap
    /\ lost = {}
    /\ result = [status |-> "none", gen |-> 0, epoch |-> 0]
    /\ faults = 0
    /\ live = ZeroPolicy
    /\ masked = FALSE

-----------------------------------------------------------------------------
Fault(point) ==
    /\ point \in FaultPoints
    /\ faults < MaxFaults
    /\ faults' = faults + 1

Goto(label, map) == pc' = label /\ at' = map

(* Leave mcp_policy_load_dir with an error: *result is not written. *)
ReturnError ==
    /\ Goto("idle", 1)
    /\ result' = [result EXCEPT !.status = "failed"]

(* The error paths from write_path_trie on: the staged generation is       *)
(* deleted from the indexes written so far, then the snapshot restored.    *)
RollBack(last) ==
    /\ Goto("unstage", 1)
    /\ upto' = last

(* Parse the policy directory.  What a policy directory holds is parsed in *)
(* full before any map is touched.                                         *)
Begin(files) ==
    /\ pc = "idle"
    /\ snap' = NoSnap
    /\ IF files = Malformed
         THEN ReturnError /\ UNCHANGED <<target>>
         ELSE /\ Goto("snapshot", 1)
              /\ target' = files
              /\ result' = [result EXCEPT !.status = "none"]
    /\ UNCHANGED <<mapVars, upto, next, lost, faults, live, masked>>

(* validate_policy_state: what parsing does not already rule out. *)
Validate(p) ==
    /\ p.settings.owner # None
    /\ p.settings.scoped => \E m \in ScopeMaps : p.scope[m] # {}
    /\ \A kind \in Kinds : \A k \in Entries(p.index[kind]) :
           p.index[kind][k].hooks # {}

(* Each snapshot array has room for MAX_RULES entries of any generation. *)
SnapshotOverflows ==
    \E kind \in Kinds : Cardinality(IndexEntries(kind)) > MaxRules

TakeSnapshot(have, rules, index, selectors) ==
    snap' = [have   |-> have,
             config |-> IF have THEN config ELSE ZeroConfig,
             idx    |-> index,  scope |-> selectors,  slots |-> rules,
             epoch  |-> epoch,  live |-> live]

(* What a map's iteration has seen when it fails: some of the entries. *)
SeenOfIndex(kind, seen) ==
    [idx EXCEPT ![kind] = [g \in Gens |-> [k \in Keys |->
        IF <<g, k>> \in seen THEN idx[kind][g][k] ELSE None]]]
SeenOfScope(m, seen) ==
    [scope EXCEPT ![m] = [i \in Ids |-> IF i \in seen THEN scope[m][i] ELSE None]]

(* A map holds more entries than the snapshot, or a lookup fails. *)
SnapshotFails ==
    /\ pc = "snapshot"
    /\ \/ SnapshotOverflows /\ UNCHANGED faults
       \/ Fault("get")
    /\ ReturnError
    /\ UNCHANGED <<mapVars, upto, target, next, snap, lost, live, masked>>

(* snapshot_policy_maps, the choice of the generation, and validation.  A  *)
(* failing lookup of policy_config is taken for an empty map, one of a     *)
(* rule for an empty slot, and an iteration that fails for one that ended. *)
SnapshotMaps ==
    /\ pc = "snapshot"
    /\ ~SnapshotOverflows
    /\ \/ TakeSnapshot(TRUE, slots, idx, scope) /\ UNCHANGED <<faults, masked>>
       \/ /\ \/ TakeSnapshot(FALSE, slots, idx, scope)
             \/ TakeSnapshot(TRUE, None, idx, scope)
          /\ Fault("get")
          /\ masked' = TRUE
       \/ /\ \/ \E kind \in Kinds : \E seen \in SUBSET IndexEntries(kind) :
                    TakeSnapshot(TRUE, slots, SeenOfIndex(kind, seen), scope)
             \/ \E m \in ScopeMaps, seen \in SUBSET Ids :
                    TakeSnapshot(TRUE, slots, idx, SeenOfScope(m, seen))
          /\ Fault("next_key")
          /\ masked' = TRUE
    /\ next' = NextGen(snap'.config.gen)
    /\ IF Validate(target)
         THEN Goto("clear_next", 1) /\ UNCHANGED result
         ELSE ReturnError
    /\ UNCHANGED <<mapVars, upto, target, lost, live>>

-----------------------------------------------------------------------------
(* Staging. *)

(* clear_path_generation and its three copies: at label, delete the        *)
(* entries of generation gen from the indexes at .. last, then go on.      *)
ClearGeneration(label, gen, last, after) ==
    /\ pc = label
    /\ \/ /\ \E k \in Entries(idx[at][gen]) :
                 idx' = SetEntry(at, gen, k, None)
          /\ UNCHANGED <<pc, at>>
       \/ /\ Entries(idx[at][gen]) = {}
          /\ IF at < last THEN Goto(label, at + 1) ELSE Goto(after, 1)
          /\ UNCHANGED idx
    /\ UNCHANGED <<config, scope, slots, epoch, upto, target, next, snap, lost,
                   result, faults, live, masked>>

ClearNext == ClearGeneration("clear_next", next, 4, "write")

(* The insertion of an entry fails: no memory, or no room in the map. *)
InsertFails ==
    \/ IndexFull(at) /\ UNCHANGED faults
    \/ Fault("index")

Unwritten == {k \in Keys : idx[at][next][k] # target.index[at][k]}

(* write_path_trie, write_command_trie, write_network_trie and             *)
(* write_resource_hash. *)
WriteIndex ==
    /\ pc = "write"
    /\ \/ /\ ~IndexFull(at)
          /\ \E k \in Unwritten :
                 idx' = SetEntry(at, next, k, target.index[at][k])
          /\ UNCHANGED <<pc, at, upto, faults>>
       \/ /\ Unwritten # {}
          /\ InsertFails
          /\ RollBack(at)
          /\ UNCHANGED idx
       \/ /\ Unwritten = {}
          /\ IF at < 4 THEN Goto("write", at + 1) ELSE Goto("rules", 1)
          /\ UNCHANGED <<idx, upto, faults>>
    /\ UNCHANGED <<config, scope, slots, epoch, target, next, snap, lost,
                   result, live, masked>>

(* write_rules: no hook reads policy_rules, so its 32 updates are one      *)
(* step; a failure leaves some slots of each policy.                       *)
WriteRules ==
    /\ pc = "rules"
    /\ \/ /\ slots' = target
          /\ Goto("scope_clear", 1)
          /\ UNCHANGED <<upto, faults>>
       \/ /\ Fault("rules")
          /\ slots' = None
          /\ RollBack(4)
    /\ UNCHANGED <<config, idx, scope, epoch, target, next, snap, lost, result,
                   live, masked>>

(* clear_comm_scopes, clear_id_scopes twice. *)
ClearScope ==
    /\ pc = "scope_clear"
    /\ \/ /\ \E i \in Ids : /\ scope[at][i] # None
                            /\ scope' = SetScope(at, i, None)
          /\ UNCHANGED <<pc, at>>
       \/ /\ \A i \in Ids : scope[at][i] = None
          /\ IF at < 3 THEN Goto("scope_clear", at + 1) ELSE Goto("scope_write", 1)
          /\ UNCHANGED scope
    /\ UNCHANGED <<config, idx, slots, epoch, upto, target, next, snap, lost,
                   result, faults, live, masked>>

(* A mistake: the selectors of scope_tgid are forgotten. *)
WriteScopeTwoMaps ==
    /\ pc = "scope_write"
    /\ LET todo == {i \in Ids : scope[at][i] # ScopeOf(target)[at][i]}
       IN  \/ /\ \E i \in todo : scope' = SetScope(at, i, ScopeOf(target)[at][i])
              /\ UNCHANGED <<pc, at>>
           \/ /\ todo = {}
              /\ IF at < 2 THEN Goto("scope_write", at + 1) ELSE Goto("config", 1)
              /\ UNCHANGED scope
    /\ UNCHANGED <<config, idx, slots, epoch, upto, faults, target, next, snap,
                   lost, result, live, masked>>

(* The three insertion loops of write_scope_maps. *)
WriteScope ==
    /\ pc = "scope_write"
    /\ LET todo == {i \in Ids : scope[at][i] # ScopeOf(target)[at][i]}
       IN  \/ /\ \E i \in todo : scope' = SetScope(at, i, ScopeOf(target)[at][i])
              /\ UNCHANGED <<pc, at, upto, faults>>
           \/ /\ todo # {}
              /\ Fault("scope")
              /\ RollBack(4)
              /\ UNCHANGED scope
           \/ /\ todo = {}
              /\ IF at < 3 THEN Goto("scope_write", at + 1) ELSE Goto("config", 1)
              /\ UNCHANGED <<scope, upto, faults>>
    /\ UNCHANGED <<config, idx, slots, epoch, target, next, snap, lost, result,
                   live, masked>>

-----------------------------------------------------------------------------
(* The visible switch: configuration, then epoch. *)

NewConfig == [gen |-> next, settings |-> target.settings]

(* The kernel copies the new value over the one the hooks are reading: a   *)
(* hook may see the new generation with the old settings or the reverse.   *)
HalfWritten(new) == {[config EXCEPT !.gen = new.gen],
                     [config EXCEPT !.settings = new.settings]}

WriteConfig ==
    /\ pc = "config"
    /\ \/ /\ config' \in HalfWritten(NewConfig)
          /\ live' = IF config'.gen = next THEN target ELSE live
          /\ Goto("config_rest", 1)
          /\ UNCHANGED <<upto, faults>>
       \/ /\ Fault("config")
          /\ RollBack(4)
          /\ UNCHANGED <<config, live>>
    /\ UNCHANGED <<idx, scope, slots, epoch, target, next, snap, lost, result,
                   masked>>

WriteConfigRest ==
    /\ pc = "config_rest"
    /\ config' = NewConfig
    /\ live' = target
    /\ Goto("bump", 1)
    /\ UNCHANGED <<idx, scope, slots, epoch, upto, target, next, snap, lost,
                   result, faults, masked>>

(* A mistake: a failure that returns at once. *)
BumpEpochNoRollback ==
    /\ pc = "bump"
    /\ \/ epoch' = NextEpoch(epoch) /\ Goto("clear_old", 1) /\ UNCHANGED <<faults, result>>
       \/ Fault("epoch") /\ ReturnError /\ UNCHANGED epoch
    /\ UNCHANGED <<config, idx, scope, slots, upto, target, next, snap, lost,
                   live, masked>>

(* bump_epoch; the error of its lookup is ignored and leaves epoch = 0.    *)
(* Its failure restores the snapshot without deleting what was staged.     *)
BumpEpoch ==
    /\ pc = "bump"
    /\ \/ /\ \/ epoch' = NextEpoch(epoch) /\ UNCHANGED <<faults, masked>>
             \/ epoch' = NextEpoch(0) /\ Fault("get") /\ masked' = TRUE
          /\ IF snap.have /\ snap.config.gen # next
               THEN Goto("clear_old", 1)
               ELSE Goto("finish", 1)
       \/ /\ Fault("epoch")
          /\ Goto("r_rules", 1)
          /\ UNCHANGED <<epoch, masked>>
    /\ UNCHANGED <<config, idx, scope, slots, upto, target, next, snap, lost,
                   result, live>>

(* Mistakes: the wrong generation; deletions that delete nothing. *)
ClearOldNext == ClearGeneration("clear_old", next, 4, "finish")
ClearOldStuck ==
    /\ pc = "clear_old"
    /\ IF at < 4 /\ Entries(idx[at][snap.config.gen]) = {}
         THEN Goto("clear_old", at + 1)
         ELSE UNCHANGED <<pc, at>>
    /\ UNCHANGED <<mapVars, upto, target, next, snap, lost, result, faults, live,
                   masked>>

ClearOld == ClearGeneration("clear_old", snap.config.gen, 4, "finish")

(* A mistake: the report names the generation that was replaced. *)
FinishStale ==
    /\ pc = "finish"
    /\ result' = [status |-> "ok", gen |-> snap.config.gen, epoch |-> epoch]
    /\ Goto("idle", 1)
    /\ UNCHANGED <<mapVars, upto, target, next, snap, lost, faults, live,
                   masked>>

Finish ==
    /\ pc = "finish"
    /\ result' = [status |-> "ok", gen |-> next, epoch |-> epoch]
    /\ Goto("idle", 1)
    /\ UNCHANGED <<mapVars, upto, target, next, snap, lost, faults, live,
                   masked>>

-----------------------------------------------------------------------------
(* Rollback. *)

(* A mistake: only the path trie is cleaned. *)
UnstagePathsOnly == ClearGeneration("unstage", next, 1, "r_rules")

Unstage == ClearGeneration("unstage", next, upto, "r_rules")

(* restore_policy_maps records the first error and goes on; its callers    *)
(* discard the error it returns.                                           *)
RestoreRules ==
    /\ pc = "r_rules"
    /\ \/ slots' = snap.slots /\ UNCHANGED <<faults, masked>>
       \/ slots' = None /\ Fault("rules") /\ masked' = TRUE
    /\ Goto("r_clear", 1)
    /\ UNCHANGED <<config, idx, scope, epoch, upto, target, next, snap, lost,
                   result, live>>

(* restore_path_trie empties the trie; the three others delete the         *)
(* snapshotted, that is the active, generation.                            *)
RestoreClear ==
    /\ pc = "r_clear"
    /\ LET doomed == {e \in IndexEntries(at) :
                          at = PathTrie \/ e[1] = snap.config.gen}
       IN  \/ /\ \E e \in doomed : idx' = SetEntry(at, e[1], e[2], None)
              /\ UNCHANGED pc
           \/ /\ doomed = {}
              /\ pc' = "r_write"
              /\ UNCHANGED idx
    /\ UNCHANGED <<config, scope, slots, epoch, at, upto, target, next, snap,
                   lost, result, faults, live, masked>>

(* A mistake: the selectors are not restored. *)
AfterIndexNoScopes == IF at < 4 THEN Goto("r_clear", at + 1) ELSE Goto("r_config", 1)

AfterIndex == IF at < 4 THEN Goto("r_clear", at + 1) ELSE Goto("r_scope_clear", 1)

(* A mistake: nothing is reinserted. *)
RestoreIndexSkips ==
    /\ pc = "r_write"
    /\ AfterIndex
    /\ UNCHANGED <<mapVars, upto, target, next, snap, lost, result, faults, live,
                   masked>>

(* Reinsert what the snapshot holds, of every generation.  The first       *)
(* failure abandons the rest of the index.                                 *)
RestoreIndex ==
    /\ pc = "r_write"
    /\ LET missing == {e \in Gens \X Keys :
                           /\ snap.idx[at][e[1]][e[2]] # None
                           /\ snap.idx[at][e[1]][e[2]] # idx[at][e[1]][e[2]]}
       IN  \/ /\ \E e \in missing :
                     idx' = SetEntry(at, e[1], e[2], snap.idx[at][e[1]][e[2]])
              /\ ~IndexFull(at)
              /\ UNCHANGED <<pc, at, faults, masked>>
           \/ /\ missing # {}
              /\ InsertFails
              /\ masked' = TRUE
              /\ AfterIndex
              /\ UNCHANGED idx
           \/ /\ missing = {}
              /\ AfterIndex
              /\ UNCHANGED <<idx, faults, masked>>
    /\ UNCHANGED <<config, scope, slots, epoch, upto, target, next, snap, lost,
                   result, live>>

RestoreScopeClear ==
    /\ pc = "r_scope_clear"
    /\ \/ /\ \E i \in Ids : /\ scope[at][i] # None
                            /\ scope' = SetScope(at, i, None)
          /\ UNCHANGED pc
       \/ /\ \A i \in Ids : scope[at][i] = None
          /\ pc' = "r_scope_write"
          /\ UNCHANGED scope
    /\ UNCHANGED <<config, idx, slots, epoch, at, upto, target, next, snap,
                   lost, result, faults, live, masked>>

(* A selector that cannot be reinserted is skipped. *)
RestoreScope ==
    /\ pc = "r_scope_write"
    /\ LET todo == {i \in Ids \ lost : scope[at][i] # snap.scope[at][i]}
       IN  \/ /\ \E i \in todo : scope' = SetScope(at, i, snap.scope[at][i])
              /\ UNCHANGED <<pc, at, lost, faults, masked>>
           \/ /\ \E i \in todo : lost' = lost \cup {i}
              /\ Fault("scope")
              /\ masked' = TRUE
              /\ UNCHANGED <<pc, at, scope>>
           \/ /\ todo = {}
              /\ lost' = {}
              /\ IF at < 3 THEN Goto("r_scope_clear", at + 1) ELSE Goto("r_config", 1)
              /\ UNCHANGED <<scope, faults, masked>>
    /\ UNCHANGED <<config, idx, slots, epoch, upto, target, next, snap, result,
                   live>>

RestoreConfig ==
    /\ pc = "r_config"
    /\ \/ /\ snap.have
          /\ config' \in HalfWritten(snap.config)
          /\ live' = IF config'.gen = snap.config.gen THEN snap.live ELSE live
          /\ Goto("r_config_rest", 1)
          /\ UNCHANGED <<result, faults, masked>>
       \/ /\ snap.have
          /\ Fault("config")
          /\ masked' = TRUE
          /\ ReturnError
          /\ UNCHANGED <<config, live>>
       \/ /\ ~snap.have
          /\ ReturnError
          /\ UNCHANGED <<config, faults, live, masked>>
    /\ UNCHANGED <<idx, scope, slots, epoch, upto, target, next, snap, lost>>

RestoreConfigRest ==
    /\ pc = "r_config_rest"
    /\ config' = snap.config
    /\ live' = snap.live
    /\ ReturnError
    /\ UNCHANGED <<idx, scope, slots, epoch, upto, target, next, snap, lost,
                   faults, masked>>

-----------------------------------------------------------------------------
(* Deletions that fail. *)

(* The current loop still has something to delete. *)
DeletesLeft ==
    \/ pc \in {"clear_next", "unstage"} /\ Entries(idx[at][next]) # {}
    \/ pc = "clear_old" /\ Entries(idx[at][snap.config.gen]) # {}
    \/ pc = "r_clear" /\ \E e \in IndexEntries(at) :
                             at = PathTrie \/ e[1] = snap.config.gen
    \/ pc \in {"scope_clear", "r_scope_clear"} /\ \E i \in Ids : scope[at][i] # None

(* No loop looks at what bpf_map_delete_elem returns: each starts over,    *)
(* finds the key again and tries again.                                    *)
DeleteFails ==
    /\ DeletesLeft
    /\ Fault("delete")
    /\ UNCHANGED <<mapVars, pc, at, upto, target, next, snap, lost, result, live,
                   masked>>

NextMap(last, after) == IF at < last THEN Goto(pc, at + 1) ELSE Goto(after, 1)

(* Where each loop goes when it finds no key. *)
LoopEnds ==
    \/ pc = "clear_next" /\ NextMap(4, "write")
    \/ pc = "scope_clear" /\ NextMap(3, "scope_write")
    \/ pc = "clear_old" /\ NextMap(4, "finish")
    \/ pc = "unstage" /\ NextMap(upto, "r_rules")
    \/ pc = "r_clear" /\ Goto("r_write", at)
    \/ pc = "r_scope_clear" /\ Goto("r_scope_write", at)

(* bpf_map_get_next_key fails, and the loop takes it for the end.          *)
IterationFails ==
    /\ DeletesLeft
    /\ LoopEnds
    /\ Fault("next_key")
    /\ masked' = TRUE
    /\ UNCHANGED <<mapVars, upto, target, next, snap, lost, result, live>>

-----------------------------------------------------------------------------
(* What a load does once it has begun. *)
LoadStep ==
    \/ SnapshotFails \/ SnapshotMaps
    \/ ClearNext \/ WriteIndex \/ WriteRules \/ ClearScope \/ WriteScope
    \/ WriteConfig \/ WriteConfigRest \/ BumpEpoch \/ ClearOld \/ Finish
    \/ Unstage \/ RestoreRules \/ RestoreClear \/ RestoreIndex
    \/ RestoreScopeClear \/ RestoreScope \/ RestoreConfig \/ RestoreConfigRest
    \/ DeleteFails \/ IterationFails

Next ==
    \/ \E files \in Policies \cup {Malformed} : Begin(files)
    \/ LoadStep

Spec == Init /\ [][Next]_vars

(* Every bpf(2) call returns, so a load that has begun takes its steps. *)
FairSpec == Spec /\ WF_vars(LoadStep)

-----------------------------------------------------------------------------
(* Properties. *)

(* While no error has been discarded, the index that hooks search, the     *)
(* slice of config.gen in every trie and in the resource hash, holds       *)
(* exactly the rules of the policy installed under that generation,        *)
(* through staging, switch, cleaning and every rollback.  The exceptions   *)
(* are the ones restore_policy_maps really makes: the index it is          *)
(* rewriting in place, and, when bump_epoch failed after the switch, the   *)
(* new generation, which config still names while the path trie is emptied *)
(* and entries left by an earlier failed load may be reinserted.           *)
ActiveIndexIntact ==
    ~masked =>
        \A kind \in Kinds :
            \/ idx[kind][config.gen] = live.index[kind]
            \/ pc \in {"r_clear", "r_write"} /\ kind = at
            \/ pc \in RestorePcs /\ config.gen = next

(* A load that fails after its snapshot leaves the configuration, the      *)
(* epoch, the selectors, policy_rules and the active rules as it found     *)
(* them, whatever operation failed.                                        *)
RollbackRestores ==
    (pc = "idle" /\ result.status = "failed" /\ snap.have /\ ~masked) =>
        /\ config = snap.config
        /\ epoch = snap.epoch
        /\ scope = snap.scope
        /\ slots = snap.slots
        /\ live = snap.live
        /\ \A kind \in Kinds :
               idx[kind][config.gen] = snap.idx[kind][config.gen]

(* Between loads, the generation and epoch that main keeps in              *)
(* policy_result, and publishes even when a later load fails, are the ones *)
(* in the maps.                                                            *)
ReportMatchesMaps ==
    (pc = "idle" /\ ~masked) =>
        /\ result.gen = config.gen
        /\ result.epoch = epoch

(* Between loads no index holds an entry of a generation other than the    *)
(* active one: what a failed load staged, and what a successful load       *)
(* replaced, has been deleted.                                             *)
OnlyActiveGeneration ==
    (pc = "idle" /\ ~masked) =>
        \A kind \in Kinds : \A e \in IndexEntries(kind) : e[1] = config.gen

(* Room: no load is refused for lack of space.  A map never holds more     *)
(* entries than a snapshot has room for when one is taken, and an index    *)
(* always has room for the next entry of a policy within MAX_RULES.        *)
SpaceSuffices ==
    ~masked =>
        /\ pc = "snapshot" => ~SnapshotOverflows
        /\ pc = "write" /\ Unwritten # {} => ~IndexFull(at)

(* No step of the forward path, from staging to the deletion of the old    *)
(* generation, changes the slice that the hooks search at that moment.     *)
StagingInvisible ==
    [][(pc \in ForwardPcs /\ ~masked') =>
           \A kind \in Kinds : idx'[kind][config.gen] = idx[kind][config.gen]]_vars

(* The epoch moves only as the last act of a complete switch: rules,       *)
(* selectors and configuration of the new policy are all in place, and the *)
(* new epoch is not the zero of a blank per-CPU cache slot.                *)
EpochCommits ==
    [][(epoch' # epoch /\ ~masked') =>
           /\ config = NewConfig
           /\ scope = ScopeOf(target)
           /\ \A kind \in Kinds : idx[kind][next] = target.index[kind]
           /\ epoch' # 0]_vars

(* A load ends, whichever of its operations fail, with one exception: no   *)
(* loop looks at what a deletion returns, so one that failed every time    *)
(* would be tried for ever.  Here a deletion fails MaxFaults times at most.*)
LoadTerminates == (pc # "idle") ~> (pc = "idle")

-----------------------------------------------------------------------------
(* The loader as an atomic register.  The register holds what hooks can    *)
(* find in the maps through policy_config.  From the snapshot to the move  *)
(* of the epoch, and during a rollback, the load is not decided, and the   *)
(* value of the register is the snapshotted one.                           *)

View(settings, slices, selectors) ==
    [settings |-> settings, index |-> slices, scope |-> selectors]
MapsView == View(config.settings, [kind \in Kinds |-> idx[kind][config.gen]], scope)
SnapView == View(snap.config.settings,
                 [kind \in Kinds |-> snap.idx[kind][snap.config.gen]], snap.scope)
PolicyView(p) == View(p.settings, p.index, ScopeOf(p))

CommittedPcs == {"clear_old", "finish"}

PhaseOf == IF pc = "idle" THEN "idle"
           ELSE IF pc \in CommittedPcs THEN "committed" ELSE "loading"
RequestOf == IF pc = "idle" THEN None ELSE target
InstalledOf == IF pc \in {"idle", "snapshot"} \cup CommittedPcs THEN MapsView ELSE SnapView

Register == INSTANCE PolicyRegister WITH
    Requests        <- Policies,
    NoRequest       <- None,
    Contents        <- PolicyView,
    InitialContents <- PolicyView(ZeroPolicy),
    Stamps          <- Epochs,
    ZeroStamp       <- 0,
    phase     <- PhaseOf,
    request   <- RequestOf,
    installed <- InstalledOf,
    stamp     <- epoch,
    outcome   <- result.status,
    sound     <- ~masked

(* As long as it discards no error, the loader implements the register:    *)
(* what the maps hold is replaced as a whole by the policy that was asked  *)
(* for, at the moment when bump_epoch succeeds, under another epoch than   *)
(* the one before; a load that fails, wherever it fails, ends with the     *)
(* contents and the epoch that it began with.                              *)
AtomicReload == Register!RegSpec

-----------------------------------------------------------------------------
(* The inductive invariant behind the safety properties, in four parts.    *)

StagingPcs == {"clear_next", "write", "rules", "scope_clear", "scope_write",
               "config"}
StagedPcs == {"rules", "scope_clear", "scope_write", "config", "config_rest",
              "bump", "clear_old", "finish"}
ScopePcs == {"scope_clear", "scope_write", "r_scope_clear", "r_scope_write"}

(* Types, and what the current step may assume of target and at. *)
TypeInv ==
    /\ TypeOK
    /\ pc # "idle" => target \in Policies
    /\ pc \in ScopePcs => at \in ScopeMaps

(* Which policy the configuration names, phase by phase. *)
ConfigInv ==
    /\ pc = "snapshot" => ~snap.have
    /\ pc \in {"idle", "snapshot"} => result.gen = config.gen /\ result.epoch = epoch
    /\ pc \notin {"idle", "snapshot"} =>
           /\ snap.have
           /\ next = NextGen(snap.config.gen)
           /\ result.gen = snap.config.gen
           /\ result.epoch = snap.epoch
    /\ pc \in StagingPcs \cup {"unstage"} => config = snap.config /\ live = snap.live
    /\ pc \in StagingPcs \cup {"unstage", "config_rest", "bump"} \cup RestorePcs =>
           epoch = snap.epoch
    /\ pc \in {"config_rest"} \cup RestorePcs =>
           \/ config.gen = snap.config.gen /\ live = snap.live
           \/ config.gen = next /\ live = target
    /\ pc \in {"bump", "clear_old", "finish"} => config = NewConfig /\ live = target
    /\ pc \in RestorePcs \ {"r_rules"} => slots = snap.slots

(* The slices of the generation at the start of the load, and of the one   *)
(* being staged.                                                           *)
SliceInv ==
    /\ pc \in {"idle", "snapshot"} =>
           \A kind \in Kinds : idx[kind][config.gen] = live.index[kind]
    /\ pc \notin {"idle", "snapshot"} =>
           \A kind \in Kinds : snap.idx[kind][snap.config.gen] = snap.live.index[kind]
    /\ pc \notin {"idle", "snapshot", "clear_old", "finish"} =>
           \A kind \in Kinds :
               \/ idx[kind][snap.config.gen] = snap.live.index[kind]
               \/ pc \in {"r_clear", "r_write"} /\ kind = at
    /\ pc \in {"r_clear", "r_write"} =>
           \A k \in Keys :
               idx[at][snap.config.gen][k] \in {None, snap.live.index[at][k]}
    /\ pc = "write" =>
           \A kind \in Kinds : kind < at => idx[kind][next] = target.index[kind]
    /\ pc \in StagedPcs => \A kind \in Kinds : idx[kind][next] = target.index[kind]

(* The selectors, in the loops that rewrite them. *)
SelectorInv ==
    /\ lost = {}
    /\ pc = "scope_write" =>
           \A m \in ScopeMaps : m < at => scope[m] = ScopeOf(target)[m]
    /\ pc \in {"config", "config_rest", "bump"} => scope = ScopeOf(target)
    /\ pc \in {"r_scope_clear", "r_scope_write"} =>
           \A m \in ScopeMaps : m < at => scope[m] = snap.scope[m]
    /\ pc \in {"r_config", "r_config_rest"} => scope = snap.scope

(* In every reachable state in which no error was discarded, the maps are  *)
(* in the condition that the phase of the load accounts for, and a load    *)
(* that failed left them as it found them.                                 *)
LoaderInv ==
    /\ TypeInv
    /\ ~masked => ConfigInv /\ SliceInv /\ SelectorInv
    /\ RollbackRestores

-----------------------------------------------------------------------------
(* The inductive invariant behind OnlyActiveGeneration and SpaceSuffices,  *)
(* for loads whose epoch update does not fail.                             *)

Bare(kind, gen) == idx[kind][gen] = EmptySlice

(* As long as no error was discarded and bump_epoch's update succeeds, a   *)
(* load works on two generations only, the active one and the one that it  *)
(* stages, and takes away whichever it does not leave active: all that a   *)
(* failed load wrote, and all that a successful one replaced.              *)
RoomInv ==
    ~masked =>
        /\ pc \in {"idle", "snapshot"} =>
               \A kind \in Kinds, g \in Gens \ {config.gen} : Bare(kind, g)
        /\ pc \notin {"idle", "snapshot"} =>
               /\ \A kind \in Kinds, g \in Gens \ {snap.config.gen} :
                      snap.idx[kind][g] = EmptySlice
               /\ \A kind \in Kinds, g \in Gens \ {snap.config.gen, next} : Bare(kind, g)
        /\ pc \in {"clear_next"} \cup RestorePcs => \A kind \in Kinds : Bare(kind, next)
        /\ pc = "write" =>
               /\ \A kind \in Kinds : kind > at => Bare(kind, next)
               /\ \A k \in Keys : idx[at][next][k] \in {None, target.index[at][k]}
        /\ pc = "unstage" =>
               \A kind \in Kinds : (kind < at \/ kind > upto) => Bare(kind, next)
        /\ pc = "clear_old" => \A kind \in Kinds : kind < at => Bare(kind, snap.config.gen)
        /\ pc = "finish" => \A kind \in Kinds : Bare(kind, snap.config.gen)
=============================================================================
