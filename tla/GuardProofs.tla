------------------------------ MODULE GuardProofs ------------------------------
(***************************************************************************)
(* Proofs about the whole guard: any number of tasks, CPUs, objects and    *)
(* policies, with the loader's map operations and the steps of the hooks   *)
(* interleaved in any way.                                                 *)
(***************************************************************************)
EXTENDS Guard, PolicyLoaderProofs, WellFoundedInduction

-----------------------------------------------------------------------------
(* Operators. *)

(* A non-empty set of positions has a first one. *)
LEMMA FirstExists ==
    ASSUME NEW S \in SUBSET Nat, S # {}
    PROVE  \E i \in S : \A j \in S : i <= j
  <1>1. PICK i \in S : \A j \in S : ~ (<<j, i>> \in OpToRel(<, Nat))
    BY NatLessThanWellFounded, WFMin
  <1>2. ASSUME NEW j \in S, ~(i <= j) PROVE FALSE
    <2>1. j \in Nat /\ i \in Nat /\ j < i
      BY <1>2
    <2>2. <<j, i>> \in OpToRel(<, Nat)
      BY <2>1 DEF OpToRel
    <2> QED
      BY <1>1, <2>2
  <1> QED
    BY <1>2

(* A lookup finds a rule or nothing. *)
LEMMA LookupTyped ==
    ASSUME NEW slice \in Slices, NEW keys \in Seq(Keys)
    PROVE  Lookup(slice, keys) \in Rules \cup {None}
  <1> DEFINE hits == {i \in DOMAIN keys : slice[keys[i]] # None}
             first == CHOOSE i \in hits : \A j \in hits : i <= j
  <1>1. hits \in SUBSET Nat
    OBVIOUS
  <1>2. CASE hits = {}
    BY <1>2 DEF Lookup
  <1>3. CASE hits # {}
    <2>1. first \in hits
      <3>1. \E i \in hits : \A j \in hits : i <= j
        BY <1>1, <1>3, FirstExists
      <3> QED
        BY <3>1
    <2>2. slice[keys[first]] \in Rules \cup {None}
      BY <2>1 DEF Slices
    <2> QED
      BY <1>3, <2>2 DEF Lookup
  <1> QED
    BY <1>2, <1>3

(* A lookup in an empty slice finds nothing. *)
LEMMA LookupEmpty ==
    ASSUME NEW keys \in Seq(Keys)
    PROVE  Lookup(EmptySlice, keys) = None
  BY DEF Lookup, EmptySlice

(* The keys of an object, and its index. *)
LEMMA KeysTyped ==
    ASSUME NEW obj \in Objects, NEW hook \in Hooks
    PROVE  /\ KeysOf(hook, obj) \in Seq(Keys)
           /\ obj.anyPort \in Seq(Keys)
           /\ obj.lpm \in Seq(Keys)
           /\ obj.class \in Classes
           /\ obj.rid \in Rids \cup {None}
           /\ IndexOf(hook) \in Kinds
  <1>1. obj \in ObjectType
    BY ObjectsAssumption
  <1>2. IndexOf(hook) \in Kinds
    BY DEF IndexOf, Kinds, Hooks, Exec, FileOpen, Read, Write, Connect, CommandTrie,
           PathTrie, NetworkTrie, ResourceHash
  <1>3. obj.ino # None => <<obj.ino>> \in Seq(Keys)
    BY <1>1 DEF ObjectType
  <1>4. KeysOf(hook, obj) \in Seq(Keys)
    BY <1>1, <1>3 DEF KeysOf, ObjectType, Read, Write
  <1> QED
    BY <1>1, <1>2, <1>4 DEF ObjectType

(* The installed policy, were it the one of zeroed maps, has the parts of  *)
(* a policy, and without rules it decides by its default alone.            *)
LEMMA LivesParts ==
    ASSUME NEW p \in Lives
    PROVE  /\ p.settings \in Settings
           /\ p.index \in [Kinds -> Slices]
           /\ ~p.settings.hasRules => \A kind \in Kinds : p.index[kind] = EmptySlice
  <1>1. CASE p \in Policies
    BY <1>1, PolicyParts, RuleCountAssumption
  <1>2. CASE p = ZeroPolicy
    BY <1>2, ZeroTypes DEF ZeroPolicy, PolicyType
  <1> QED
    BY <1>1, <1>2 DEF Lives

LEMMA NoRulesMeansDefault ==
    ASSUME NEW p \in Lives, NEW obj \in Objects, NEW hook \in Hooks,
           ~p.settings.hasRules
    PROVE  PromiseL3(p, hook, obj) = p.settings.default
  <1>1. p.index[IndexOf(hook)] = EmptySlice
    BY LivesParts, KeysTyped
  <1>2. /\ Lookup(p.index[IndexOf(hook)], KeysOf(hook, obj)) = None
        /\ Lookup(p.index[IndexOf(hook)], obj.anyPort) = None
    BY <1>1, KeysTyped, LookupEmpty
  <1> QED
    BY <1>2 DEF PromiseL3, Applies

-----------------------------------------------------------------------------
(* The loader's part of the invariant. *)

(* Settings and selectors follow the installed policy in every step. *)
LEMMA ViewStep ==
    ASSUME LoaderInv, ViewInv, Next, ~masked'
    PROVE  ViewInv'
  <1>1. TypeInv /\ ConfigInv /\ SelectorInv /\ ConfigInv' /\ SelectorInv'
    BY MaskedStays, NextPhase DEF LoaderInv, Phase
  <1> USE <1>1 DEF ViewInv, ScopeOf, Goto, ReturnError
  <1>2. ASSUME NEW files \in Policies \cup {Malformed}, Begin(files) PROVE ViewInv'
    BY <1>2 DEF Begin, mapVars
  <1>3. CASE SnapshotFails
    BY <1>3 DEF SnapshotFails, mapVars
  <1>4. CASE SnapshotMaps
    <2>1. TakeSnapshot(TRUE, slots, idx, scope)
      BY <1>4, Zenon DEF SnapshotMaps
    <2>2. /\ snap'.config = config /\ snap'.scope = scope /\ snap'.live = live
          /\ UNCHANGED <<config, scope, live>>
          /\ pc = "snapshot" /\ pc' \in {"idle", "clear_next"}
      BY <1>4, <2>1 DEF TakeSnapshot, SnapshotMaps, mapVars
    <2> QED
      BY <2>2
  <1>5. CASE ClearNext \/ ClearOld \/ Unstage
    BY <1>5 DEF ClearNext, ClearOld, Unstage, ClearGeneration
  <1>6. CASE WriteIndex
    BY <1>6 DEF WriteIndex, RollBack
  <1>7. CASE WriteRules
    BY <1>7 DEF WriteRules, RollBack
  <1>8. CASE ClearScope
    BY <1>8 DEF ClearScope
  <1>9. CASE WriteScope
    BY <1>9 DEF WriteScope, RollBack
  <1>10. CASE WriteConfig
    BY <1>10 DEF WriteConfig, RollBack
  <1>11. CASE WriteConfigRest
    BY <1>11 DEF WriteConfigRest
  <1>12. CASE BumpEpoch
    BY <1>12 DEF BumpEpoch, SelectorInv
  <1>13. CASE Finish
    <2>1. config = NewConfig /\ live = target
      BY <1>13 DEF Finish, ConfigInv
    <2> QED
      BY <1>13, <2>1 DEF Finish, mapVars, NewConfig
  <1>14. CASE RestoreRules \/ RestoreClear \/ RestoreScopeClear
    BY <1>14 DEF RestoreRules, RestoreClear, RestoreScopeClear
  <1>15. CASE RestoreIndex
    <2>1. pc' = pc \/ AfterIndex
      BY <1>15, Zenon DEF RestoreIndex
    <2>2. pc = "r_write" /\ UNCHANGED <<config, scope, snap, live>>
      BY <1>15, Zenon DEF RestoreIndex
    <2>3. pc' \in {"r_write", "r_clear", "r_scope_clear"}
      BY <2>1, <2>2 DEF AfterIndex
    <2> QED
      BY <2>2, <2>3
  <1>16. CASE RestoreScope
    <2>1. /\ pc = "r_scope_write" /\ UNCHANGED <<snap>>
          /\ pc' \in {"r_scope_write", "r_scope_clear", "r_config"}
      BY <1>16 DEF RestoreScope
    <2> QED
      BY <2>1
  <1>17. CASE RestoreConfig
    <2>1. pc = "r_config" /\ snap.have /\ snap' = snap
      BY <1>17 DEF RestoreConfig, ConfigInv
    <2>2. pc' = "r_config_rest"
      BY <1>17, <2>1, Zenon DEF RestoreConfig
    <2> QED
      BY <2>1, <2>2
  <1>18. CASE RestoreConfigRest
    <2>1. scope = snap.scope
      BY <1>18 DEF RestoreConfigRest, SelectorInv
    <2>2. /\ pc = "r_config_rest" /\ pc' = "idle"
          /\ config' = snap.config /\ live' = snap.live /\ scope' = scope
      BY <1>18 DEF RestoreConfigRest
    <2> QED
      BY <2>1, <2>2
  <1>19. CASE DeleteFails
    BY <1>19 DEF DeleteFails, mapVars
  <1>20. ~IterationFails
    BY DEF IterationFails
  <1> QED
    BY <1>2, <1>3, <1>4, <1>5, <1>6, <1>7, <1>8, <1>9, <1>10, <1>11, <1>12, <1>13,
       <1>14, <1>15, <1>16, <1>17, <1>18, <1>19, <1>20 DEF Next, LoadStep

(* What a step of the loader other than the bump and the last one leaves   *)
(* alone, and between which parts of a load it moves.                      *)
LEMMA OtherSteps ==
    ASSUME TypeInv, Next, ~BumpEpoch, ~Finish
    PROVE  /\ epoch' = epoch
           /\ result'.gen = result.gen /\ result'.epoch = result.epoch
           /\ pc \in {"clear_old", "finish"} <=> pc' \in {"clear_old", "finish"}
           /\ \/ UNCHANGED <<config, live>>
              \/ pc \in {"config_rest"} \cup RestorePcs
              \/ pc' = "config_rest"
  <1>1. result \in [status : {"none", "ok", "failed"}, gen : Gens, epoch : Epochs]
    BY DEF TypeInv, TypeOK
  <1> USE <1>1 DEF Goto, ReturnError, RollBack, RestorePcs
  <1>2. CASE \E files \in Policies \cup {Malformed} : Begin(files)
    BY <1>2 DEF Begin, mapVars
  <1>3. CASE SnapshotFails \/ SnapshotMaps
    BY <1>3 DEF SnapshotFails, SnapshotMaps, mapVars
  <1>4. CASE ClearNext \/ ClearOld \/ Unstage
    BY <1>4 DEF ClearNext, ClearOld, Unstage, ClearGeneration
  <1>5. CASE WriteIndex \/ WriteRules
    BY <1>5 DEF WriteIndex, WriteRules
  <1>6. CASE ClearScope \/ WriteScope
    BY <1>6 DEF ClearScope, WriteScope
  <1>7. CASE WriteConfig \/ WriteConfigRest
    BY <1>7 DEF WriteConfig, WriteConfigRest
  <1>8. CASE RestoreRules \/ RestoreClear \/ RestoreScopeClear
    BY <1>8 DEF RestoreRules, RestoreClear, RestoreScopeClear
  <1>9. CASE RestoreIndex
    <2>1. pc' = pc \/ AfterIndex
      BY <1>9, Zenon DEF RestoreIndex
    <2>2. pc = "r_write" /\ UNCHANGED <<epoch, result>>
      BY <1>9, Zenon DEF RestoreIndex
    <2> QED
      BY <2>1, <2>2 DEF AfterIndex
  <1>10. CASE RestoreScope
    BY <1>10 DEF RestoreScope
  <1>11. CASE RestoreConfig \/ RestoreConfigRest
    BY <1>11 DEF RestoreConfig, RestoreConfigRest
  <1>12. CASE DeleteFails
    BY <1>12 DEF DeleteFails, mapVars
  <1>13. CASE IterationFails
    BY <1>13 DEF IterationFails, LoopEnds, NextMap, mapVars
  <1> QED
    BY <1>2, <1>3, <1>4, <1>5, <1>6, <1>7, <1>8, <1>9, <1>10, <1>11, <1>12, <1>13
       DEF Next, LoadStep

(* The epoch stays clear of zero and of its bound. *)
LEMMA EpochStep ==
    ASSUME LoaderInv, EpochInv, Next, ~masked', pc = "idle" => epoch + 1 < EpochMod
    PROVE  EpochInv' /\ (Attached => Attached')
  <1>1. TypeInv /\ ConfigInv /\ ConfigInv'
    BY MaskedStays, NextPhase DEF LoaderInv, Phase
  <1>2. /\ result \in [status : {"none", "ok", "failed"}, gen : Gens, epoch : Epochs]
        /\ epoch \in Epochs
    BY <1>1 DEF TypeInv, TypeOK, MapsTypeOK
  <1>3. CASE BumpEpoch
    <2>1. /\ pc = "bump" /\ result' = result
          /\ \/ epoch' = NextEpoch(epoch) /\ pc' \in {"clear_old", "finish"}
             \/ epoch' = epoch /\ pc' = "r_rules"
      BY <1>3, Zenon DEF BumpEpoch, Goto
    <2>2. NextEpoch(epoch) # 0
      BY <1>2, NextEpochNonZero
    <2> QED
      BY <2>1, <2>2 DEF EpochInv, Attached
  <1>4. CASE Finish
    <2>1. next # 0 /\ epoch # 0
      BY <1>1, <1>4, MapTypes, NextGenDiffers DEF Finish, ConfigInv, EpochInv
    <2>2. result'.gen = next /\ result'.epoch = epoch /\ pc' = "idle"
      BY <1>4 DEF Finish, Goto
    <2> QED
      BY <2>1, <2>2 DEF EpochInv, Attached
  <1>5. CASE ~BumpEpoch /\ ~Finish
    BY <1>1, <1>5, OtherSteps DEF EpochInv, Attached
  <1> QED
    BY <1>3, <1>4, <1>5

(* A step of the loader outside the switch and the rollback leaves the     *)
(* configuration and the installed policy alone.                           *)
LEMMA QuietLoad ==
    ASSUME TypeInv, Next, ~Changing, ~Changing'
    PROVE  UNCHANGED <<config, live>>
  <1>1. CASE BumpEpoch \/ Finish
    BY <1>1 DEF BumpEpoch, Finish, mapVars
  <1>2. CASE ~BumpEpoch /\ ~Finish
    BY <1>2, OtherSteps DEF Changing, SwitchPcs, RestorePcs
  <1> QED
    BY <1>1, <1>2

(* Outside them, hooks find the installed policy in the maps. *)
LEMMA MapsHoldLive ==
    ASSUME LoaderInv, ViewInv, ~masked, ~Changing
    PROVE  /\ config.settings = live.settings
           /\ \A kind \in Kinds : idx[kind][config.gen] = live.index[kind]
           /\ ScopeSettled => scope = ScopeOf(live)
           /\ live \in Lives
  <1>1. TypeInv /\ ConfigInv /\ SliceInv /\ SelectorInv
    BY DEF LoaderInv
  <1>2. pc \in {"idle", "snapshot"} \cup StagingPcs \cup {"unstage", "clear_old", "finish"}
    BY <1>1 DEF TypeInv, TypeOK, Pcs, ForwardPcs, Changing, SwitchPcs, StagingPcs
  <1>3. CASE pc \in {"idle", "snapshot"}
    BY <1>1, <1>3 DEF SliceInv, ViewInv, TypeInv, TypeOK
  <1>4. CASE pc \in StagingPcs \cup {"unstage"}
    <2>1. config = snap.config /\ live = snap.live
      BY <1>1, <1>4 DEF ConfigInv
    <2>2. pc \notin {"idle", "snapshot", "clear_old", "finish", "r_clear", "r_write"}
      BY <1>4 DEF StagingPcs
    <2>3. ScopeSettled => pc \in {"clear_next", "write", "rules"}
      BY <1>4 DEF StagingPcs, ScopeSettled
    <2> QED
      BY <1>1, <2>1, <2>2, <2>3 DEF SliceInv, ViewInv, TypeInv, TypeOK, ScopeOf
  <1>5. CASE pc \in {"clear_old", "finish"}
    <2>1. config = NewConfig /\ live = target
      BY <1>1, <1>5 DEF ConfigInv
    <2> QED
      BY <1>1, <1>5, <2>1 DEF SliceInv, StagedPcs, ViewInv, TypeInv, TypeOK, NewConfig
  <1> QED
    BY <1>2, <1>3, <1>4, <1>5

-----------------------------------------------------------------------------
(* The steps of a run: types. *)

(* What a run under way may rely on, for the record r of its task. *)
RunReady(r, buffers) ==
    r.pc # "done" =>
        /\ r.obj \in Objects /\ r.cpu \in Cpus
        /\ r.hook \in HooksOf(r.obj)
        /\ (r.pc = "l2name" \/ (r.pc = "l3gen" /\ r.hook \in {Exec, FileOpen})) =>
               buffers[r.cpu] \in Objects
        /\ r.pc \in {"l3look", "l3any"} => r.key \in Objects

L1Typed ==
    /\ DOMAIN l1 \subseteq CacheKeys
    /\ \A key \in DOMAIN l1 : l1[key] \in
           [Cpus -> [epoch : Epochs, act : Actions, dirty : BOOLEAN]]
    /\ l1 = [key \in DOMAIN l1 |-> l1[key]]

Buffers == [Cpus -> Objects \cup {None}]

(* A step that gives its task a well-formed record, and may fill scratch   *)
(* buffers, keeps the types.                                               *)
LEMMA Retyped ==
    ASSUME HookTypeInv, NEW t \in Tasks, NEW r \in RunType,
           run' = [run EXCEPT ![t] = r], L1Typed', scratch' \in Buffers,
           \A c \in Cpus : scratch[c] \in Objects => scratch'[c] \in Objects,
           RunReady(r, scratch')
    PROVE  HookTypeInv'
  <1>1. run' \in [Tasks -> RunType]
    BY DEF HookTypeInv
  <1>2. ASSUME NEW u \in Tasks PROVE RunReady(run'[u], scratch')
    <2>1. CASE u = t
      BY <2>1 DEF HookTypeInv
    <2>2. CASE u # t
      <3>1. run'[u] = run[u]
        BY <2>2 DEF HookTypeInv
      <3> QED
        BY <3>1 DEF HookTypeInv, RunReady, InFlight
    <2> QED
      BY <2>1, <2>2
  <1> QED
    BY <1>1, <1>2 DEF HookTypeInv, L1Typed, Buffers, RunReady, InFlight

(* The same for a step that changes its own record only. *)
LEMMA RetypedRun ==
    ASSUME HookTypeInv, NEW t \in Tasks, NEW r \in RunType,
           run' = [run EXCEPT ![t] = r], UNCHANGED <<l1, scratch>>, RunReady(r, scratch)
    PROVE  HookTypeInv'
  BY Retyped DEF HookTypeInv, L1Typed, Buffers

(* The record of a task. *)
LEMMA RunRecord ==
    ASSUME HookTypeInv, NEW t \in Tasks
    PROVE  run[t] \in RunType /\ RunReady(run[t], scratch)
  BY DEF HookTypeInv, RunReady, InFlight

(* mcp_scope_matches. *)
LEMMA ScopeTyped ==
    ASSUME HookTypeInv, NEW t \in Tasks, EnterScope(t)
    PROVE  HookTypeInv'
  <1>0. ScopeSettled \in BOOLEAN /\ ScopeMatches(config.settings, scope, t) \in BOOLEAN
    BY Zenon DEF ScopeMatches, ScopeSettled
  <1>1. PICK in \in BOOLEAN, settled \in BOOLEAN :
            in = ScopeMatches(config.settings, scope, t) /\ settled = ScopeSettled
    BY <1>0, Zenon
  <1> DEFINE label == IF in THEN "l1" ELSE "done"
             r == [run[t] EXCEPT !.pc = label, !.inScope = in, !.scopeSettled = settled]
  <1>a. label \in RunPcs
    BY DEF RunPcs
  <1>2. r \in RunType
    <2> HIDE DEF label
    <2> QED
      BY <1>a, RunRecord DEF RunType
  <1>3. /\ run[t].pc = "scope"
        /\ run' = [run EXCEPT ![t] = r] /\ UNCHANGED <<l1, scratch>>
    BY <1>1 DEF EnterScope, CheckScope
  <1>4. RunReady(r, scratch)
    BY <1>3, RunRecord DEF RunReady, RunType
  <1> QED
    BY <1>2, <1>3, <1>4, RetypedRun

(* Reading a path fills the buffer of the CPU. *)
LEMMA ReadPathFills ==
    ASSUME HookTypeInv, NEW t \in Tasks, InFlight(t),
           ReadPath(t) \/ UNCHANGED scratch
    PROVE  /\ scratch' \in Buffers
           /\ \A c \in Cpus : scratch[c] \in Objects => scratch'[c] \in Objects
           /\ \A c \in Cpus : c # run[t].cpu => scratch'[c] = scratch[c]
           /\ ReadPath(t) => scratch'[run[t].cpu] = run[t].obj
           /\ run[t].obj \in Objects /\ run[t].cpu \in Cpus
  BY DEF HookTypeInv, ReadPath, Buffers

(* A step that only moves on, or only moves on with a decision. *)
LEMMA JumpTyped ==
    ASSUME HookTypeInv, NEW t \in Tasks, InFlight(t), NEW label \in RunPcs,
           Jump(t, label), UNCHANGED l1, ReadPath(t) \/ UNCHANGED scratch,
           label = "l2name" \/ (label = "l3gen" /\ run[t].hook \in {Exec, FileOpen})
               => ReadPath(t),
           label \in {"l3look", "l3any"} => run[t].key \in Objects
    PROVE  HookTypeInv'
  <1> DEFINE r == [run[t] EXCEPT !.pc = label]
  <1>1. r \in RunType /\ run' = [run EXCEPT ![t] = r]
    BY RunRecord DEF RunType, Jump
  <1>2. RunReady(r, scratch')
    BY RunRecord, ReadPathFills DEF RunReady, RunType, InFlight
  <1>3. L1Typed'
    BY DEF HookTypeInv, L1Typed
  <1> HIDE DEF r
  <1> QED
    BY <1>1, <1>2, <1>3, ReadPathFills, Retyped

LEMMA DecideTyped ==
    ASSUME HookTypeInv, NEW t \in Tasks, InFlight(t),
           NEW label \in RunPcs \ {"l2name", "l3gen", "l3look", "l3any"},
           NEW act \in Actions, NEW layer \in 0 .. 3,
           Decide(t, act, layer, label), UNCHANGED <<l1, scratch>>
    PROVE  HookTypeInv'
  <1> DEFINE r == [run[t] EXCEPT !.pc = label, !.act = act, !.layer = layer]
  <1>1. r \in RunType /\ run' = [run EXCEPT ![t] = r]
    BY RunRecord DEF RunType, Decide
  <1>2. RunReady(r, scratch)
    BY RunRecord DEF RunReady, RunType, InFlight
  <1> HIDE DEF r
  <1> QED
    BY <1>1, <1>2, RetypedRun

(* L1. *)
LEMMA HitRecord ==
    ASSUME NEW r \in RunType, NEW label \in RunPcs, NEW act \in Actions,
           NEW layer \in 0 .. 3, NEW dirty \in BOOLEAN
    PROVE  [r EXCEPT !.pc = label, !.act = act, !.layer = layer, !.dirty = dirty] \in RunType
  BY DEF RunType

LEMMA L1LookupTyped ==
    ASSUME HookTypeInv, NEW t \in Tasks, L1Lookup(t)
    PROVE  HookTypeInv'
  <1>1. /\ run[t].pc = "l1" /\ InFlight(t) /\ UNCHANGED l1
        /\ ReadPath(t) \/ UNCHANGED scratch
    BY DEF L1Lookup, InFlight
  <1>2. CASE Cached(t) = None
    <2>1. Jump(t, "l2")
      BY <1>2 DEF L1Lookup
    <2> QED
      BY <1>1, <2>1, JumpTyped DEF RunPcs
  <1>3. CASE Cached(t) # None
    <2>1. PICK slot \in [epoch : Epochs, act : Actions, dirty : BOOLEAN] : slot = Cached(t)
      BY <1>1, <1>3, RunRecord DEF Cached, HookTypeInv, RunReady
    <2>2. PICK dirty \in BOOLEAN : dirty = (run[t].dirty \/ slot.dirty)
      BY Zenon
    <2>a. PICK act \in Actions : act = slot.act
      BY Zenon
    <2> DEFINE label == EventOrRet(act)
               r == [run[t] EXCEPT !.pc = label, !.act = act, !.layer = 1,
                                   !.dirty = dirty]
    <2>3. run' = [run EXCEPT ![t] = r]
      BY <1>3, <2>1, <2>2, <2>a DEF L1Lookup
    <2>4. label \in {"event", "ret"} /\ label \in RunPcs
      BY DEF EventOrRet, RunPcs
    <2> HIDE DEF label
    <2>5. r \in RunType /\ RunReady(r, scratch')
      <3>0. 1 \in 0 .. 3 /\ run[t] \in RunType
        BY RunRecord
      <3>1. r \in RunType
        BY <2>4, <3>0, HitRecord, Zenon
      <3>2. RunReady(r, scratch')
        BY <1>1, <2>4, RunRecord DEF RunType, RunReady, InFlight
      <3> QED
        BY <3>1, <3>2
    <2>6. L1Typed'
      BY <1>1 DEF HookTypeInv, L1Typed
    <2> HIDE DEF r
    <2> QED
      BY <1>1, <2>3, <2>5, <2>6, ReadPathFills, Retyped
  <1> QED
    BY <1>2, <1>3

(* L2. *)
LEMMA L2Typed ==
    ASSUME HookTypeInv, NEW t \in Tasks, L2Decide(t) \/ L2Directory(t) \/ L2Name(t)
    PROVE  HookTypeInv'
  <1> USE DEF RunPcs, Actions, Allow, Deny
  <1>1. InFlight(t) /\ UNCHANGED l1
    BY DEF L2Decide, L2Directory, L2Name, InFlight
  <1>2. \/ ReadPath(t) /\ Jump(t, "l2name")
        \/ Decide(t, Allow, 2, "store") /\ UNCHANGED scratch
        \/ Decide(t, Deny, 2, "store") /\ UNCHANGED scratch
        \/ Decide(t, Allow, 2, "ret") /\ UNCHANGED scratch
        \/ Jump(t, "l2dir") /\ UNCHANGED scratch
        \/ Jump(t, "l3") /\ UNCHANGED scratch
    BY DEF L2Decide, L2Directory, L2Name
  <1> QED
    BY <1>1, <1>2, JumpTyped, DecideTyped

(* L3: a search finds a rule of the index, whose action is an action. *)
LEMMA SearchTyped ==
    ASSUME TypeInv, HookTypeInv, NEW t \in Tasks, InFlight(t), NEW keys \in Seq(Keys),
           NEW none \in RunPcs \ {"l2name", "l3gen", "l3look"},
           none = "l3any" => run[t].key \in Objects,
           L3Search(t, keys, none), UNCHANGED <<l1, scratch>>
    PROVE  HookTypeInv'
  <1> DEFINE slice == idx[IndexOf(run[t].hook)][run[t].gen]
             rule == Lookup(slice, keys)
  <1>1. run[t].hook \in Hooks /\ run[t].gen \in Gens /\ run[t].obj \in Objects
    BY RunRecord DEF RunType, RunReady, InFlight
  <1>2. IndexOf(run[t].hook) \in Kinds
    BY <1>1, KeysTyped
  <1>3. slice \in Slices
    BY <1>1, <1>2, MapTypes DEF Indexes
  <1>4. rule \in Rules \cup {None}
    BY <1>3, LookupTyped
  <1>5. rule # None => rule.action \in Actions
    BY <1>4 DEF Rules
  <1>6. \/ Jump(t, none)
        \/ rule # None /\ Decide(t, rule.action, 3, "store")
        \/ Jump(t, "l3def")
    BY DEF L3Search
  <1> HIDE DEF rule
  <1> QED
    BY <1>5, <1>6, JumpTyped, DecideTyped DEF RunPcs

LEMMA L3Typed ==
    ASSUME TypeInv, HookTypeInv, NEW t \in Tasks,
           \/ L3HasRules(t) \/ L3NoRules(t) \/ L3Path(t) \/ L3Key(t) \/ L3Lookup(t)
           \/ L3AnyPort(t) \/ L3Default(t)
    PROVE  HookTypeInv'
  <1>1. InFlight(t) /\ UNCHANGED l1
    BY DEF L3HasRules, L3NoRules, L3Path, L3Key, L3Lookup, L3AnyPort, L3Default, InFlight
  <1>a. config.settings \in Settings /\ config.gen \in Gens
    BY PartTypes
  <1>b. run[t].hook \in Hooks /\ run[t].obj \in Objects /\ run[t].cpu \in Cpus
    BY <1>1, RunRecord DEF RunType, RunReady, InFlight
  <1>2. CASE L3HasRules(t)
    <2>1. (Jump(t, "l3path") \/ Jump(t, "l3none")) /\ UNCHANGED scratch
      BY <1>2 DEF L3HasRules
    <2> QED
      BY <1>1, <2>1, JumpTyped DEF RunPcs
  <1>3. CASE L3NoRules(t)
    <2>1. /\ \/ Decide(t, Allow, 3, "ret") \/ Decide(t, Allow, 3, "store")
             \/ Jump(t, "l3path")
          /\ UNCHANGED scratch
      BY <1>3 DEF L3NoRules
    <2> QED
      BY <1>1, <2>1, JumpTyped, DecideTyped DEF RunPcs, Actions
  <1>4. CASE L3Path(t)
    <2>1. /\ Jump(t, "l3gen")
          /\ IF run[t].hook \in {Exec, FileOpen} THEN ReadPath(t) ELSE UNCHANGED scratch
      BY <1>4 DEF L3Path
    <2> QED
      BY <1>1, <2>1, JumpTyped DEF RunPcs
  <1>5. CASE L3Key(t)
    <2> DEFINE label == IF config.settings.hasRules THEN "l3look" ELSE "l3def"
               key == IF run[t].hook \in {Exec, FileOpen} THEN scratch[run[t].cpu]
                                                          ELSE run[t].obj
               r == [run[t] EXCEPT !.pc = label, !.gen = config.gen, !.key = key]
    <2>1. label \in {"l3look", "l3def"} /\ label \in RunPcs
      BY DEF RunPcs
    <2>2. key \in Objects
      BY <1>b, <1>5, RunRecord DEF L3Key, RunReady
    <2>3. run' = [run EXCEPT ![t] = r] /\ UNCHANGED scratch
      BY <1>5 DEF L3Key
    <2> HIDE DEF label, key
    <2>4. r \in RunType
      BY <1>a, <2>1, <2>2, RunRecord DEF RunType
    <2>5. RunReady(r, scratch)
      BY <1>1, <2>1, <2>2, RunRecord DEF RunReady, RunType, InFlight
    <2> HIDE DEF r
    <2> QED
      BY <1>1, <2>3, <2>4, <2>5, RetypedRun
  <1>6. CASE L3Lookup(t)
    <2> DEFINE none == IF run[t].hook = Connect THEN "l3any" ELSE "l3def"
    <2>1. run[t].key \in Objects
      BY <1>6, RunRecord DEF L3Lookup, RunReady
    <2>2. KeysOf(run[t].hook, run[t].key) \in Seq(Keys)
      BY <1>b, <2>1, KeysTyped
    <2>3. L3Search(t, KeysOf(run[t].hook, run[t].key), none) /\ UNCHANGED scratch
      BY <1>6 DEF L3Lookup
    <2>4. none \in RunPcs \ {"l2name", "l3gen", "l3look"}
      BY DEF RunPcs
    <2> HIDE DEF none
    <2> QED
      BY <1>1, <2>1, <2>2, <2>3, <2>4, SearchTyped
  <1>7. CASE L3AnyPort(t)
    <2>1. run[t].key \in Objects
      BY <1>7, RunRecord DEF L3AnyPort, RunReady
    <2>2. run[t].key.anyPort \in Seq(Keys)
      BY <1>b, <2>1, KeysTyped
    <2>3. L3Search(t, run[t].key.anyPort, "l3def") /\ UNCHANGED scratch
      BY <1>7 DEF L3AnyPort
    <2>4. "l3def" \in RunPcs \ {"l2name", "l3gen", "l3look"}
      BY DEF RunPcs
    <2> QED
      BY <1>1, <2>1, <2>2, <2>3, <2>4, SearchTyped
  <1>8. CASE L3Default(t)
    <2>1. Decide(t, config.settings.default, 3, "store") /\ UNCHANGED scratch
      BY <1>8 DEF L3Default
    <2>2. config.settings.default \in Actions
      BY <1>a DEF Settings
    <2> QED
      BY <1>1, <2>1, <2>2, DecideTyped DEF RunPcs
  <1> QED
    BY <1>2, <1>3, <1>4, <1>5, <1>6, <1>7, <1>8

(* After the decision: the cache. *)

(* mcp_l1_store writes this CPU's slot of one entry; in a new entry the    *)
(* slots of the other CPUs are blank.                                      *)
LEMMA StoreFrame ==
    ASSUME TypeInv, HookTypeInv, NEW t \in Tasks, InFlight(t), NEW hook \in Hooks,
           Store(t, hook)
    PROVE  /\ L1Typed'
           /\ \A key \in DOMAIN l1', c \in Cpus :
                  \/ key \in DOMAIN l1 /\ l1'[key][c] = l1[key][c]
                  \/ l1'[key][c] = ZeroSlot
                  \/ /\ l1'[key][c] = [epoch |-> epoch, act |-> run[t].act,
                                       dirty |-> run[t].dirty]
                     /\ key = <<t, hook, run[t].obj.rid>>
  <1> DEFINE key == CacheKey(t, hook)
             value == [epoch |-> epoch, act |-> run[t].act, dirty |-> run[t].dirty]
             slots0 == IF key \in DOMAIN l1 THEN l1[key] ELSE [c \in Cpus |-> ZeroSlot]
             Slot == [epoch : Epochs, act : Actions, dirty : BOOLEAN]
  <1>1. CASE run[t].obj.rid = None
    BY <1>1 DEF Store, HookTypeInv, L1Typed
  <1>2. CASE run[t].obj.rid # None
    <2>1. l1' = [k \in DOMAIN l1 \cup {key} |->
                    IF k = key THEN [slots0 EXCEPT ![run[t].cpu] = value] ELSE l1[k]]
      BY <1>2 DEF Store
    <2>2. run[t].obj \in Objects /\ run[t].cpu \in Cpus /\ run[t].act \in Actions
          /\ run[t].dirty \in BOOLEAN /\ epoch \in Epochs
      BY RunRecord DEF RunReady, RunType, InFlight, TypeInv, TypeOK, MapsTypeOK
    <2>3. key \in CacheKeys
      BY <1>2, <2>2, KeysTyped DEF CacheKey, CacheKeys
    <2>4. value \in Slot
      BY <2>2
    <2>5. ZeroSlot \in Slot
      BY ZeroInRange DEF ZeroSlot, Actions
    <2>6. slots0 \in [Cpus -> Slot]
      BY <2>5 DEF HookTypeInv
    <2>7. /\ \A c \in Cpus : \/ key \in DOMAIN l1 /\ slots0[c] = l1[key][c]
                             \/ slots0[c] = ZeroSlot
          /\ key = <<t, hook, run[t].obj.rid>>
      BY DEF CacheKey
    <2> HIDE DEF key, value, slots0
    <2>8. [slots0 EXCEPT ![run[t].cpu] = value] \in [Cpus -> Slot]
      BY <2>4, <2>6
    <2>9. L1Typed'
      BY <2>1, <2>3, <2>8 DEF HookTypeInv, L1Typed
    <2>10. ASSUME NEW k \in DOMAIN l1', NEW c \in Cpus
           PROVE  \/ k \in DOMAIN l1 /\ l1'[k][c] = l1[k][c]
                  \/ l1'[k][c] = ZeroSlot
                  \/ l1'[k][c] = value /\ k = key
      <3>1. CASE k # key
        BY <2>1, <3>1
      <3>2. CASE k = key
        BY <2>1, <2>2, <2>6, <2>7, <3>2
      <3> QED
        BY <3>1, <3>2
    <2> QED
      BY <2>7, <2>9, <2>10 DEF value
  <1> QED
    BY <1>1, <1>2

(* A store keeps the types. *)
LEMMA StoreTyped ==
    ASSUME TypeInv, HookTypeInv, NEW t \in Tasks, InFlight(t), NEW hook \in Hooks,
           Store(t, hook), NEW label \in {"follow", "followWrite", "event", "ret"},
           Jump(t, label), UNCHANGED scratch
    PROVE  HookTypeInv'
  <1> DEFINE r == [run[t] EXCEPT !.pc = label]
  <1>0. label \in RunPcs
    BY DEF RunPcs
  <1>1. r \in RunType /\ run' = [run EXCEPT ![t] = r]
    BY <1>0, RunRecord DEF RunType, Jump
  <1>2. RunReady(r, scratch')
    BY RunRecord DEF RunReady, RunType, InFlight
  <1>3. L1Typed'
    BY StoreFrame
  <1> HIDE DEF r
  <1> QED
    BY <1>1, <1>2, <1>3, ReadPathFills, Retyped

LEMMA AfterTyped ==
    ASSUME TypeInv, HookTypeInv, NEW t \in Tasks,
           \/ StoreDecision(t) \/ FollowUps(t) \/ FollowRead(t) \/ FollowWrite(t)
    PROVE  HookTypeInv'
  <1>1. InFlight(t) /\ UNCHANGED scratch
    BY DEF StoreDecision, FollowUps, FollowRead, FollowWrite, InFlight
  <1>2. run[t].hook \in Hooks /\ Read \in Hooks /\ Write \in Hooks
    BY RunRecord DEF RunType, Hooks
  <1>3. EventOrRet(run[t].act) \in {"event", "ret"}
    BY DEF EventOrRet
  <1>4. CASE StoreDecision(t)
    <2>1. Store(t, run[t].hook) /\ \E label \in {"follow", "event", "ret"} : Jump(t, label)
      BY <1>3, <1>4 DEF StoreDecision
    <2> QED
      BY <1>1, <1>2, <2>1, StoreTyped
  <1>5. CASE FollowUps(t)
    <2>1. UNCHANGED l1 /\ \E label \in {"followRead", "event", "ret"} : Jump(t, label)
      BY <1>3, <1>5 DEF FollowUps
    <2> QED
      BY <1>1, <2>1, JumpTyped DEF RunPcs
  <1>6. CASE FollowRead(t)
    BY <1>1, <1>2, <1>6, StoreTyped DEF FollowRead
  <1>7. CASE FollowWrite(t)
    BY <1>1, <1>2, <1>3, <1>7, StoreTyped DEF FollowWrite
  <1> QED
    BY <1>4, <1>5, <1>6, <1>7

LEMMA EmitTyped ==
    ASSUME HookTypeInv, NEW t \in Tasks, EmitEvent(t)
    PROVE  HookTypeInv'
  <1>1. PICK sent \in {"blocked", "passed", "lost"} :
            run' = [run EXCEPT ![t].pc = "ret", ![t].event = sent]
    BY DEF EmitEvent
  <1> DEFINE r == [run[t] EXCEPT !.pc = "ret", !.event = sent]
  <1>2. run' = [run EXCEPT ![t] = r] /\ UNCHANGED <<l1, scratch>>
    BY <1>1 DEF EmitEvent
  <1>3. "ret" \in RunPcs /\ sent \in {"none", "lost", "blocked", "passed"}
    BY DEF RunPcs
  <1>4. r \in RunType
    BY <1>3, RunRecord DEF RunType
  <1>5. RunReady(r, scratch)
    BY RunRecord DEF RunReady, RunType, EmitEvent
  <1> HIDE DEF r
  <1> QED
    BY <1>2, <1>4, <1>5, RetypedRun

(* A run that does nothing. *)
LEMMA NoRunTyped == NoRun \in RunType
  BY ZeroInRange DEF NoRun, RunType, RunPcs, Hooks, Actions

LEMMA ReturnTyped ==
    ASSUME HookTypeInv, NEW t \in Tasks, Return(t)
    PROVE  HookTypeInv'
  <1>1. CASE run[t].dirty
    <2>1. run' = [run EXCEPT ![t] = NoRun] /\ UNCHANGED <<l1, scratch>>
      BY <1>1 DEF Return
    <2>2. RunReady(NoRun, scratch)
      BY DEF RunReady, NoRun
    <2> QED
      BY <2>1, <2>2, NoRunTyped, RetypedRun
  <1>2. CASE ~run[t].dirty
    <2>1. PICK blocked \in BOOLEAN : blocked = Blocks(t)
      BY Zenon DEF Blocks
    <2> DEFINE r == [run[t] EXCEPT !.pc = "done", !.blocked = blocked, !.gen = 0,
                                   !.key = None]
    <2>2. run' = [run EXCEPT ![t] = r] /\ UNCHANGED <<l1, scratch>>
      BY <1>2, <2>1 DEF Return
    <2>3. "done" \in RunPcs /\ 0 \in Gens /\ None \in Objects \cup {None}
      BY ZeroInRange DEF RunPcs
    <2>4. r \in RunType
      BY <2>3, RunRecord DEF RunType
    <2>5. RunReady(r, scratch)
      BY RunRecord DEF RunReady, RunType
    <2> HIDE DEF r
    <2> QED
      BY <2>2, <2>4, <2>5, RetypedRun
  <1> QED
    BY <1>1, <1>2

(* Eviction only forgets. *)
LEMMA EvictTyped ==
    ASSUME HookTypeInv, EvictEntry
    PROVE  HookTypeInv'
  <1>1. PICK key \in DOMAIN l1 : l1' = [k \in DOMAIN l1 \ {key} |-> l1[k]]
    BY DEF EvictEntry, Evict
  <1>2. L1Typed'
    BY <1>1 DEF HookTypeInv, L1Typed
  <1>3. UNCHANGED <<scratch, run>>
    BY DEF EvictEntry, Evict
  <1> QED
    BY <1>2, <1>3 DEF HookTypeInv, L1Typed, InFlight

(* Entering a hook. *)
EnterRun(hook, obj, cpu, p, dirty) ==
    [NoRun EXCEPT !.pc = "scope", !.hook = hook, !.obj = obj, !.cpu = cpu, !.pol = p,
                  !.dirty = dirty]

LEMMA EnterRecord ==
    ASSUME NEW hook \in Hooks, NEW obj \in Objects, NEW cpu \in Cpus, NEW p \in Lives,
           NEW dirty \in BOOLEAN, hook \in HooksOf(obj)
    PROVE  LET r == EnterRun(hook, obj, cpu, p, dirty)
           IN  /\ r \in RunType
               /\ r.pc = "scope" /\ r.cpu = cpu /\ r.pol = p /\ r.dirty = dirty
               /\ r.event = "none" /\ r.hook = hook /\ r.obj = obj
  <1>1. NoRun \in RunType /\ NoRun.event = "none" /\ "scope" \in RunPcs
    BY NoRunTyped DEF NoRun, RunPcs
  <1> QED
    BY <1>1 DEF RunType, EnterRun

(* What EnterHook does, with the history it records. *)
LEMMA EnterStep ==
    ASSUME TypeInv, HookTypeInv, NEW t \in Tasks, EnterHook(t)
    PROVE  \E r \in RunType :
               /\ run' = [run EXCEPT ![t] = r]
               /\ r.pc = "scope" /\ r.event = "none" /\ r.pol = live
               /\ r.dirty \in BOOLEAN /\ (r.dirty <=> Changing)
               /\ r.obj \in Objects /\ r.cpu \in Cpus /\ r.hook \in HooksOf(r.obj)
               /\ CpuFree(r.cpu)
               /\ UNCHANGED <<l1, scratch>> /\ UNCHANGED vars
               /\ Attached /\ run[t].pc = "done"
  <1>1. PICK c \in Cpus, hook \in Hooks, obj \in Objects :
            CpuFree(c) /\ Enter(t, c, hook, obj, live, Changing)
    BY DEF EnterHook
  <1>a. Changing \in BOOLEAN
    BY DEF Changing
  <1>2. PICK dirty \in BOOLEAN : dirty = Changing
    BY <1>a, Zenon
  <1>b. PICK r : r = EnterRun(hook, obj, c, live, dirty)
    OBVIOUS
  <1>3. run' = [run EXCEPT ![t] = r] /\ UNCHANGED <<l1, scratch>> /\ hook \in HooksOf(obj)
    BY <1>1, <1>2, <1>b DEF Enter, EnterRun
  <1>4. live \in Lives
    BY DEF TypeInv, TypeOK
  <1>5. /\ r \in RunType /\ r.pc = "scope" /\ r.cpu = c /\ r.pol = live /\ r.dirty = dirty
        /\ r.event = "none" /\ r.hook = hook /\ r.obj = obj
    BY <1>3, <1>4, <1>b, EnterRecord
  <1>6. UNCHANGED vars /\ Attached /\ run[t].pc = "done"
    BY <1>1 DEF EnterHook, Enter
  <1>7. r.dirty \in BOOLEAN /\ (r.dirty <=> Changing)
    BY <1>a, <1>2, <1>5
  <1>8. r.obj \in Objects /\ r.cpu \in Cpus /\ r.hook \in HooksOf(r.obj) /\ CpuFree(r.cpu)
    BY <1>1, <1>3, <1>5
  <1> QED
    BY <1>3, <1>5, <1>6, <1>7, <1>8, Zenon

LEMMA EnterTyped ==
    ASSUME TypeInv, HookTypeInv, NEW t \in Tasks, EnterHook(t)
    PROVE  HookTypeInv'
  <1>1. PICK r \in RunType :
            /\ run' = [run EXCEPT ![t] = r] /\ r.pc = "scope" /\ r.obj \in Objects
            /\ r.cpu \in Cpus /\ r.hook \in HooksOf(r.obj) /\ UNCHANGED <<l1, scratch>>
    BY EnterStep
  <1>2. RunReady(r, scratch)
    BY <1>1 DEF RunReady
  <1> QED
    BY <1>1, <1>2, RetypedRun

(* A step of the loader marks runs, and does nothing else to them. *)
LEMMA OverlappedRecord ==
    ASSUME HookTypeInv, run' = Overlapped, NEW t \in Tasks
    PROVE  /\ run'[t] \in RunType
           /\ run'[t] = run[t] \/ run'[t] = [run[t] EXCEPT !.dirty = TRUE]
           /\ ~InFlight(t) => run'[t] = run[t]
           /\ (InFlight(t) /\ ~(Changing \/ Changing')) => run'[t] = run[t]
           /\ (InFlight(t) /\ (Changing \/ Changing')) => run'[t].dirty
           /\ run'[t].pc = run[t].pc /\ run'[t].cpu = run[t].cpu
  <1>1. run[t] \in RunType
    BY DEF HookTypeInv
  <1>2. [run[t] EXCEPT !.dirty = TRUE] \in RunType
    BY <1>1 DEF RunType
  <1>3. /\ [run[t] EXCEPT !.dirty = TRUE].dirty
        /\ [run[t] EXCEPT !.dirty = TRUE].pc = run[t].pc
        /\ [run[t] EXCEPT !.dirty = TRUE].cpu = run[t].cpu
    BY <1>1 DEF RunType
  <1>4. run'[t] = IF (Changing \/ Changing') /\ run[t].pc # "done"
                    THEN [run[t] EXCEPT !.dirty = TRUE] ELSE run[t]
    BY Zenon DEF Overlapped
  <1>5. CASE (Changing \/ Changing') /\ run[t].pc # "done"
    <2>1. run'[t] = [run[t] EXCEPT !.dirty = TRUE]
      BY <1>4, <1>5, Zenon
    <2> QED
      BY <1>2, <1>3, <1>5, <2>1, Zenon DEF InFlight
  <1>6. CASE ~((Changing \/ Changing') /\ run[t].pc # "done")
    <2>1. run'[t] = run[t]
      BY <1>4, <1>6, Zenon
    <2> QED
      BY <1>1, <1>6, <2>1, Zenon DEF InFlight
  <1> QED
    BY <1>5, <1>6, Zenon

LEMMA LoadTyped ==
    ASSUME HookTypeInv, Load
    PROVE  HookTypeInv'
  <1>1. run' = Overlapped /\ UNCHANGED <<l1, scratch>>
    BY DEF Load
  <1>2. run' \in [Tasks -> RunType]
    <2>1. run' = [t \in Tasks |-> run'[t]]
      BY <1>1 DEF Overlapped
    <2> QED
      BY <1>1, <2>1, OverlappedRecord
  <1>3. ASSUME NEW t \in Tasks PROVE RunReady(run'[t], scratch)
    <2>1. CASE run'[t] = run[t]
      BY <2>1, RunRecord
    <2>2. CASE run'[t] = [run[t] EXCEPT !.dirty = TRUE]
      BY <2>2, RunRecord DEF RunReady, RunType
    <2> QED
      BY <1>1, <2>1, <2>2, OverlappedRecord
  <1> QED
    BY <1>1, <1>2, <1>3 DEF HookTypeInv, L1Typed, RunReady, InFlight

(* Every step of the guard keeps the types. *)
LEMMA GuardTyped ==
    /\ GuardInit => TypeInv /\ HookTypeInv
    /\ TypeInv /\ HookTypeInv /\ [GuardNext]_guardVars => TypeInv' /\ HookTypeInv'
  <1>1. ASSUME GuardInit PROVE TypeInv /\ HookTypeInv
    <2>1. /\ l1 = [k \in {} |-> None] /\ scratch = [c \in Cpus |-> None]
          /\ run = [t \in Tasks |-> NoRun]
      BY <1>1 DEF GuardInit, HooksInit
    <2>2. DOMAIN l1 = {}
      BY <2>1
    <2>3. NoRun.pc = "done"
      BY DEF NoRun
    <2> QED
      BY <1>1, <2>1, <2>2, <2>3, InitTyped, NoRunTyped DEF GuardInit, HookTypeInv, InFlight
  <1>2. ASSUME TypeInv, HookTypeInv, Load PROVE TypeInv' /\ HookTypeInv'
    <2>1. Next
      BY <1>2 DEF Load, Next
    <2> QED
      BY <1>2, <2>1, NextTyped, LoadTyped
  <1>3. ASSUME TypeInv, UNCHANGED vars PROVE TypeInv'
    BY <1>3 DEF vars, mapVars, loadVars, TypeInv, TypeOK, MapsTypeOK
  <1>4. ASSUME TypeInv, HookTypeInv, EvictEntry PROVE TypeInv' /\ HookTypeInv'
    BY <1>3, <1>4, EvictTyped DEF EvictEntry
  <1>5. ASSUME TypeInv, HookTypeInv, NEW t \in Tasks,
               EnterHook(t) \/ EnterScope(t) \/ RunHook(t)
        PROVE  TypeInv' /\ HookTypeInv'
    <2>1. UNCHANGED vars
      BY <1>5 DEF EnterHook, EnterScope, RunHook
    <2>2. CASE RunHook(t)
      <3>1. HookStep(t)
        BY <2>2 DEF RunHook
      <3>2. HookTypeInv'
        BY <1>5, <3>1, L1LookupTyped, L2Typed, L3Typed, AfterTyped, EmitTyped, ReturnTyped,
           Zenon DEF HookStep
      <3> QED
        BY <1>3, <1>5, <2>1, <3>2
    <2> QED
      BY <1>3, <1>5, <2>1, <2>2, EnterTyped, ScopeTyped
  <1>6. ASSUME TypeInv, HookTypeInv, UNCHANGED guardVars PROVE TypeInv' /\ HookTypeInv'
    BY <1>3, <1>6 DEF guardVars, hookVars, HookTypeInv, InFlight
  <1> QED
    BY <1>1, <1>2, <1>4, <1>5, <1>6 DEF GuardNext

(* THEOREM: the state of the guard is well-formed, with or without         *)
(* preemption and whatever fails: in particular a lookup never uses a path *)
(* that was not read, and every decision is an action.                     *)
THEOREM GuardTypeCorrect == GuardSpec => []GuardTypeOK
  <1>1. TypeInv /\ HookTypeInv => GuardTypeOK
    BY DEF TypeInv, HookTypeInv, GuardTypeOK, RunType
  <1> QED
    BY <1>1, GuardTyped, PTL DEF GuardSpec

-----------------------------------------------------------------------------
(* The steps of a run: decisions. *)

(* What L2 promises, class by class. *)
LEMMA PromiseL2Cases ==
    ASSUME NEW p, NEW hook, NEW obj
    PROVE  /\ obj.class = "unnamed" => PromiseL2(p, hook, obj) = Deny
           /\ obj.class = "otherFamily" => PromiseL2(p, hook, obj) = Allow
           /\ obj.class = "special" =>
                  PromiseL2(p, hook, obj) =
                      IF SkipL2Safe \notin p.settings.flags THEN Allow ELSE None
           /\ obj.class = "directory" =>
                  PromiseL2(p, hook, obj) =
                      IF hook = Read /\ SkipL2Safe \notin p.settings.flags
                         /\ SkipDirRead \in p.settings.flags THEN Allow ELSE None
           /\ obj.class \in {"program", "regular", "inet"} =>
                  PromiseL2(p, hook, obj) = None
  BY DEF PromiseL2

(* L2's promise comes first. *)
LEMMA PromiseOrder ==
    ASSUME NEW p, NEW hook, NEW obj
    PROVE  /\ PromiseL2(p, hook, obj) = None => Promise(p, hook, obj) = PromiseL3(p, hook, obj)
           /\ PromiseL2(p, hook, obj) = Allow => Promise(p, hook, obj) = Allow
           /\ PromiseL2(p, hook, obj) = Deny => Promise(p, hook, obj) = Deny
  BY NoActionAssumption DEF Promise, Actions

(* Which hooks see which objects. *)
LEMMA HookClasses ==
    ASSUME NEW obj \in Objects, NEW hook \in HooksOf(obj)
    PROVE  /\ hook \in Hooks
           /\ hook = Exec <=> obj.class \in {"program", "unnamed"}
           /\ hook = Connect <=> obj.class \in {"inet", "otherFamily"}
           /\ hook \in {FileOpen, Read, Write} <=>
                  obj.class \in {"regular", "directory", "special"}
           /\ hook = FileOpen => Read \in HooksOf(obj) /\ Write \in HooksOf(obj)
  <1>1. obj.class \in Classes
    BY ObjectsAssumption DEF ObjectType
  <1> QED
    BY <1>1 DEF HooksOf, Classes, Hooks, Exec, FileOpen, Read, Write, Connect

(* What holds while no error was discarded. *)
Context ==
    /\ LoaderInv /\ HookTypeInv /\ CpuInv /\ ~masked
    /\ ViewInv /\ EpochInv /\ CacheInv
    /\ \A t \in Tasks : RunInv(t)

(* A run that no change of policy overlapped finds its policy in the maps. *)
LEMMA CleanRun ==
    ASSUME Context, NEW t \in Tasks, InFlight(t), ~run[t].dirty
    PROVE  /\ ~Changing /\ run[t].pol = live /\ run[t].pol \in Lives
           /\ Sound(run[t], scratch[run[t].cpu], config.gen)
           /\ config.settings = run[t].pol.settings
           /\ \A kind \in Kinds : idx[kind][config.gen] = run[t].pol.index[kind]
  BY MapsHoldLive DEF Context, RunInv

(* The run of t moves on to a label with a decision, or keeps the one that *)
(* it has; nothing else that matters later changes in it.                  *)
Moved(t, label, act) ==
    /\ run'[t].pc = label /\ run'[t].act = act
    /\ run'[t].hook = run[t].hook /\ run'[t].obj = run[t].obj
    /\ run'[t].cpu = run[t].cpu /\ run'[t].key = run[t].key
    /\ run'[t].gen = run[t].gen /\ run'[t].event = run[t].event
    /\ run'[t].inScope = run[t].inScope /\ run'[t].pol = run[t].pol
    /\ run'[t].dirty = run[t].dirty
    /\ \A u \in Tasks : u # t => run'[u] = run[u]

LEMMA JumpMoves ==
    ASSUME HookTypeInv, NEW t \in Tasks, NEW label, Jump(t, label)
    PROVE  Moved(t, label, run[t].act)
  BY RunRecord DEF HookTypeInv, RunType, Jump, Moved

LEMMA DecideMoves ==
    ASSUME HookTypeInv, NEW t \in Tasks, NEW act, NEW layer, NEW label,
           Decide(t, act, layer, label)
    PROVE  Moved(t, label, act)
  BY RunRecord DEF HookTypeInv, RunType, Decide, Moved

(* To keep RunInv a step has to bring its own run to a sound point. *)
LEMMA SoundStep ==
    ASSUME Context, NEW t \in Tasks, InFlight(t), UNCHANGED vars,
           run'[t].pol = run[t].pol, ~run'[t].dirty => ~run[t].dirty,
           ~run'[t].dirty => Sound(run'[t], scratch'[run'[t].cpu], config.gen)
    PROVE  RunInv(t)'
  BY CleanRun DEF RunInv, InFlight, Changing, vars, loadVars, mapVars

(* It does not disturb the others, which are on other CPUs. *)
LEMMA OthersSound ==
    ASSUME Context, NEW t \in Tasks, InFlight(t), UNCHANGED vars,
           NEW u \in Tasks, u # t, run'[u] = run[u],
           \A c \in Cpus : c # run[t].cpu => scratch'[c] = scratch[c]
    PROVE  RunInv(u)'
  <1>1. InFlight(u) => run[u].cpu # run[t].cpu /\ run[u].cpu \in Cpus
    BY DEF Context, CpuInv, HookTypeInv
  <1>2. InFlight(u)' <=> InFlight(u)
    BY DEF InFlight
  <1>3. InFlight(u) => scratch'[run'[u].cpu] = scratch[run[u].cpu]
    BY <1>1
  <1>4. RunInv(u)
    BY DEF Context
  <1> QED
    BY <1>2, <1>3, <1>4 DEF RunInv, Changing, vars, loadVars, mapVars

(* A step of a run that moves on to a sound point. *)
LEMMA SoundMove ==
    ASSUME Context, NEW t \in Tasks, InFlight(t), UNCHANGED vars,
           NEW act, NEW label, Moved(t, label, act),
           ReadPath(t) \/ UNCHANGED scratch,
           ~run[t].dirty => Sound(run'[t], scratch'[run[t].cpu], config.gen)
    PROVE  \A u \in Tasks : RunInv(u)'
  <1>1. HookTypeInv
    BY DEF Context
  <1>2. /\ run'[t].pol = run[t].pol /\ run'[t].dirty = run[t].dirty
        /\ run'[t].cpu = run[t].cpu /\ \A u \in Tasks : u # t => run'[u] = run[u]
    BY DEF Moved
  <1>3. \A c \in Cpus : c # run[t].cpu => scratch'[c] = scratch[c]
    BY <1>1, ReadPathFills
  <1>4. RunInv(t)'
    BY <1>2, SoundStep
  <1> QED
    BY <1>2, <1>3, <1>4, OthersSound

(* A decision that a policy promises for a resource may be cached for it. *)
LEMMA PromisesHave ==
    ASSUME NEW p, NEW hook, NEW obj \in Objects, hook \in HooksOf(obj),
           NEW h, \/ h = hook
                  \/ /\ h = FileOpen /\ hook \in {Read, Write}
                     /\ CacheFileFollowups \in p.settings.flags
    PROVE  Promise(p, h, obj) \in Promises(p, hook, obj.rid)
  <1>1. h \in {hook} \cup (IF /\ hook \in {Read, Write}
                              /\ CacheFileFollowups \in p.settings.flags
                             THEN {FileOpen} ELSE {})
    OBVIOUS
  <1>2. obj \in {x \in Objects : x.rid = obj.rid /\ hook \in HooksOf(x)}
    OBVIOUS
  <1> QED
    BY <1>1, <1>2 DEF Promises

(* A run that has its decision, and has to report it or not. *)
LEMMA SoundEnd ==
    ASSUME NEW r, NEW path, NEW gen, r.pc = EventOrRet(r.act), r.inScope,
           r.event = "none", Decided(r)
    PROVE  Sound(r, path, gen)
  <1>1. \/ r.pc = "ret" /\ r.act = Allow
        \/ r.pc = "event" /\ r.act # Allow
    BY DEF EventOrRet
  <1> QED
    BY <1>1 DEF Sound, EventTells

(* A run that has its own decision, and has to store it. *)
LEMMA SoundStore ==
    ASSUME NEW r, NEW path, NEW gen, r.pc = "store", r.inScope, r.event = "none",
           r.act = Promise(r.pol, r.hook, r.obj)
    PROVE  Sound(r, path, gen)
  BY DEF Sound

(* The L1 lookup: a clean entry of the current epoch is by the installed   *)
(* policy.                                                                 *)
LEMMA L1LookupSound ==
    ASSUME Context, NEW t \in Tasks, L1Lookup(t), UNCHANGED vars
    PROVE  \A u \in Tasks : RunInv(u)'
  <1>0. HookTypeInv /\ CacheInv
    BY DEF Context
  <1>1. /\ run[t].pc = "l1" /\ InFlight(t)
        /\ ReadPath(t) \/ UNCHANGED scratch
    BY DEF L1Lookup, InFlight
  <1>2. CASE Cached(t) = None
    <2>1. Moved(t, "l2", run[t].act)
      BY <1>0, <1>2, JumpMoves DEF L1Lookup
    <2>3. ~run[t].dirty => Sound(run'[t], scratch'[run[t].cpu], config.gen)
      BY <1>1, <2>1, CleanRun DEF Sound, Moved
    <2> QED
      BY <1>1, <2>1, <2>3, SoundMove
  <1>3. CASE Cached(t) # None
    <2>1. PICK slot \in [epoch : Epochs, act : Actions, dirty : BOOLEAN] : slot = Cached(t)
      BY <1>0, <1>1, <1>3, RunRecord DEF Cached, HookTypeInv, RunReady
    <2> DEFINE key == <<t, run[t].hook, run[t].obj.rid>>
    <2>2. /\ key \in DOMAIN l1 /\ run[t].cpu \in Cpus
          /\ l1[key][run[t].cpu] = slot /\ slot.epoch = epoch
      BY <1>0, <1>1, <1>3, <2>1, RunRecord DEF Cached, CacheKey, RunReady
    <2>3. PICK dirty \in BOOLEAN : dirty = (run[t].dirty \/ slot.dirty)
      BY Zenon
    <2>4. run' = [run EXCEPT ![t] = [run[t] EXCEPT !.pc = EventOrRet(slot.act),
                      !.act = slot.act, !.layer = 1, !.dirty = dirty]]
      BY <1>3, <2>1, <2>3 DEF L1Lookup
    <2>5. /\ run'[t].pc = EventOrRet(run'[t].act) /\ run'[t].act = slot.act
          /\ run'[t].hook = run[t].hook /\ run'[t].obj = run[t].obj
          /\ run'[t].cpu = run[t].cpu /\ run'[t].event = run[t].event
          /\ run'[t].inScope = run[t].inScope /\ run'[t].pol = run[t].pol
          /\ run'[t].dirty = dirty
          /\ \A u \in Tasks : u # t => run'[u] = run[u]
      BY <1>0, <2>4, RunRecord DEF HookTypeInv, RunType
    <2>6. ASSUME ~dirty PROVE Sound(run'[t], scratch'[run[t].cpu], config.gen)
      <3>1. ~run[t].dirty /\ ~slot.dirty
        BY <2>3, <2>6
      <3>2. /\ ~Changing /\ run[t].pol = live
            /\ Sound(run[t], scratch[run[t].cpu], config.gen)
        BY <1>1, <3>1, CleanRun
      <3>3. slot.act \in Promises(live, run[t].hook, run[t].obj.rid)
        BY <1>0, <2>2, <3>1, <3>2 DEF CacheInv, CachedPolicy
      <3>4. Decided(run'[t])
        BY <2>5, <3>2, <3>3 DEF Decided
      <3>5. run'[t].inScope /\ run'[t].event = "none"
        BY <1>1, <2>5, <3>2 DEF Sound
      <3> QED
        BY <2>5, <3>4, <3>5, SoundEnd
    <2>7. \A c \in Cpus : c # run[t].cpu => scratch'[c] = scratch[c]
      BY <1>0, <1>1, ReadPathFills
    <2>8. RunInv(t)'
      BY <1>1, <2>3, <2>5, <2>6, SoundStep
    <2> QED
      BY <1>1, <2>5, <2>7, <2>8, OthersSound
  <1> QED
    BY <1>2, <1>3

(* L2. *)
LEMMA L2Sound ==
    ASSUME Context, NEW t \in Tasks, L2Decide(t) \/ L2Directory(t) \/ L2Name(t),
           UNCHANGED vars
    PROVE  \A u \in Tasks : RunInv(u)'
  <1>0. HookTypeInv
    BY DEF Context
  <1>1. /\ run[t].pc \in {"l2", "l2dir", "l2name"} /\ InFlight(t)
        /\ ReadPath(t) \/ UNCHANGED scratch
    BY DEF L2Decide, L2Directory, L2Name, InFlight
  <1>2. run[t].obj \in Objects /\ run[t].hook \in HooksOf(run[t].obj)
    BY <1>0, <1>1, RunRecord DEF RunReady, InFlight
  <1> DEFINE before == Sound(run[t], scratch[run[t].cpu], config.gen)
             after == Sound(run'[t], scratch'[run[t].cpu], config.gen)
             flags == run[t].pol.settings.flags
             class == run[t].obj.class
             promise == PromiseL2(run[t].pol, run[t].hook, run[t].obj)
  <1>3. ~run[t].dirty => before /\ config.settings.flags = flags
    BY <1>1, CleanRun
  <1>4. ASSUME NEW act \in {Allow, Deny}, ~run[t].dirty => promise = act,
               Moved(t, "store", act)
        PROVE  ~run[t].dirty => after
    <2>1. ~run[t].dirty => Promise(run[t].pol, run[t].hook, run[t].obj) = act
      BY <1>4, PromiseOrder
    <2> QED
      BY <1>1, <1>3, <1>4, <2>1, SoundStore DEF Moved, Sound
  <1>5. ASSUME ~run[t].dirty => promise = None, Moved(t, "l3", run[t].act)
        PROVE  ~run[t].dirty => after
    BY <1>1, <1>3, <1>5 DEF Moved, Sound
  <1>6. CASE L2Decide(t)
    <2> USE <1>0
    <2>0. run[t].pc = "l2"
      BY <1>6 DEF L2Decide
    <2>1. CASE /\ run[t].hook = Exec /\ ReadPath(t) /\ Jump(t, "l2name")
      <3>1. Moved(t, "l2name", run[t].act) /\ scratch'[run[t].cpu] = run[t].obj
        BY <1>1, <2>1, JumpMoves, ReadPathFills
      <3>2. ~run[t].dirty => after
        BY <1>3, <2>0, <2>1, <3>1 DEF Moved, Sound
      <3> QED
        BY <1>1, <3>1, <3>2, SoundMove
    <2>2. CASE /\ class = "special" /\ SkipL2Safe \notin config.settings.flags
               /\ Decide(t, Allow, 2, "store")
      <3>1. Moved(t, "store", Allow) /\ (~run[t].dirty => promise = Allow)
        BY <1>3, <2>2, DecideMoves, PromiseL2Cases
      <3> QED
        BY <1>1, <1>4, <3>1, SoundMove
    <2>3. CASE class = "otherFamily" /\ Decide(t, Allow, 2, "ret")
      <3>1. Moved(t, "ret", Allow) /\ promise = Allow
        BY <2>3, DecideMoves, PromiseL2Cases
      <3>2. ~run[t].dirty => after
        <4>1. Decided(run'[t])
          BY <3>1, PromiseOrder DEF Decided, Moved
        <4>2. run'[t].pc = EventOrRet(run'[t].act)
          BY <3>1 DEF Moved, EventOrRet
        <4> QED
          BY <1>3, <2>0, <3>1, <4>1, <4>2, SoundEnd DEF Moved, Sound
      <3> QED
        BY <1>1, <3>1, <3>2, SoundMove
    <2>4. CASE /\ class = "directory" /\ SkipL2Safe \notin config.settings.flags
               /\ run[t].hook = Read /\ Jump(t, "l2dir")
      <3>1. Moved(t, "l2dir", run[t].act)
        BY <2>4, JumpMoves
      <3>2. ~run[t].dirty => after
        BY <1>3, <2>0, <2>4, <3>1 DEF Moved, Sound
      <3> QED
        BY <1>1, <3>1, <3>2, SoundMove
    <2>5. CASE /\ \/ class \in {"regular", "inet"}
                  \/ class = "special" /\ SkipL2Safe \in config.settings.flags
                  \/ class = "directory" /\ ~(/\ SkipL2Safe \notin config.settings.flags
                                              /\ run[t].hook = Read)
               /\ Jump(t, "l3")
      <3>1. Moved(t, "l3", run[t].act) /\ (~run[t].dirty => promise = None)
        BY <1>3, <2>5, JumpMoves, PromiseL2Cases
      <3> QED
        BY <1>1, <1>5, <3>1, SoundMove
    <2> QED
      BY <1>6, <2>1, <2>2, <2>3, <2>4, <2>5 DEF L2Decide
  <1>7. CASE L2Directory(t)
    <2>0. run[t].pc = "l2dir"
      BY <1>7 DEF L2Directory
    <2>1. ~run[t].dirty => /\ class = "directory" /\ run[t].hook = Read
                           /\ SkipL2Safe \notin flags
      BY <1>3, <2>0 DEF Sound
    <2>2. CASE SkipDirRead \in config.settings.flags
      <3>1. Moved(t, "store", Allow) /\ (~run[t].dirty => promise = Allow)
        BY <1>0, <1>3, <1>7, <2>1, <2>2, DecideMoves, PromiseL2Cases DEF L2Directory
      <3> QED
        BY <1>1, <1>4, <3>1, SoundMove
    <2>3. CASE SkipDirRead \notin config.settings.flags
      <3>1. Moved(t, "l3", run[t].act) /\ (~run[t].dirty => promise = None)
        BY <1>0, <1>3, <1>7, <2>1, <2>3, JumpMoves, PromiseL2Cases DEF L2Directory
      <3> QED
        BY <1>1, <1>5, <3>1, SoundMove
    <2> QED
      BY <2>2, <2>3
  <1>8. CASE L2Name(t)
    <2>0. run[t].pc = "l2name"
      BY <1>8 DEF L2Name
    <2>1. ~run[t].dirty => run[t].hook = Exec /\ scratch[run[t].cpu] = run[t].obj
      BY <1>3, <2>0 DEF Sound
    <2>2. CASE scratch[run[t].cpu].class = "unnamed"
      <3>1. Moved(t, "store", Deny) /\ (~run[t].dirty => promise = Deny)
        BY <1>0, <1>8, <2>1, <2>2, DecideMoves, PromiseL2Cases DEF L2Name
      <3> QED
        BY <1>1, <1>4, <3>1, SoundMove
    <2>3. CASE scratch[run[t].cpu].class # "unnamed"
      <3>1. Moved(t, "l3", run[t].act)
        BY <1>0, <1>8, <2>3, JumpMoves DEF L2Name
      <3>2. ~run[t].dirty => class = "program"
        BY <1>2, <2>1, <2>3, HookClasses
      <3>3. ~run[t].dirty => promise = None
        BY <3>2, PromiseL2Cases
      <3> QED
        BY <1>1, <1>5, <3>1, <3>3, SoundMove
    <2> QED
      BY <2>2, <2>3
  <1> QED
    BY <1>6, <1>7, <1>8

(* What L3 promises, by what the lookups find. *)
LEMMA PromiseL3Cases ==
    ASSUME NEW p, NEW hook, NEW obj, NEW exact, NEW any,
           exact = Lookup(p.index[IndexOf(hook)], KeysOf(hook, obj)),
           any = Lookup(p.index[IndexOf(hook)], obj.anyPort)
    PROVE  /\ Applies(exact, hook) => PromiseL3(p, hook, obj) = exact.action
           /\ exact # None /\ ~Applies(exact, hook) =>
                  PromiseL3(p, hook, obj) = p.settings.default
           /\ exact = None /\ hook # Connect =>
                  PromiseL3(p, hook, obj) = p.settings.default
           /\ exact = None /\ hook = Connect /\ Applies(any, hook) =>
                  PromiseL3(p, hook, obj) = any.action
           /\ exact = None /\ hook = Connect /\ ~Applies(any, hook) =>
                  PromiseL3(p, hook, obj) = p.settings.default
  BY DEF PromiseL3, Applies

(* A clean run that is in L3 works for an object that L2 leaves to L3. *)
InL3 == {"l3", "l3none", "l3path", "l3gen", "l3look", "l3any", "l3def"}

LEMMA L3Decides ==
    ASSUME Context, NEW t \in Tasks, InFlight(t), run[t].pc \in InL3, UNCHANGED vars,
           UNCHANGED scratch, NEW act, Moved(t, "store", act),
           ~run[t].dirty => act = PromiseL3(run[t].pol, run[t].hook, run[t].obj)
    PROVE  \A u \in Tasks : RunInv(u)'
  <1>1. ASSUME ~run[t].dirty PROVE Sound(run'[t], scratch'[run[t].cpu], config.gen)
    <2>1. Sound(run[t], scratch[run[t].cpu], config.gen)
      BY <1>1, CleanRun
    <2>2. /\ PromiseL2(run[t].pol, run[t].hook, run[t].obj) = None
          /\ run[t].inScope /\ run[t].event = "none"
      BY <2>1 DEF Sound, InL3
    <2>3. act = Promise(run[t].pol, run[t].hook, run[t].obj)
      BY <1>1, <2>2, PromiseOrder
    <2> QED
      BY <2>2, <2>3, SoundStore DEF Moved
  <1> QED
    BY <1>1, SoundMove

(* L3 before the lookups. *)
LEMMA L3HeadSound ==
    ASSUME Context, NEW t \in Tasks, UNCHANGED vars,
           L3HasRules(t) \/ L3NoRules(t) \/ L3Path(t) \/ L3Default(t)
    PROVE  \A u \in Tasks : RunInv(u)'
  <1>0. HookTypeInv
    BY DEF Context
  <1>1. /\ run[t].pc \in InL3 /\ InFlight(t)
        /\ ReadPath(t) \/ UNCHANGED scratch
    BY DEF L3HasRules, L3NoRules, L3Path, L3Default, InFlight, InL3
  <1>2. run[t].obj \in Objects /\ run[t].hook \in HooksOf(run[t].obj) /\ run[t].hook \in Hooks
    BY <1>0, <1>1, RunRecord DEF RunReady, InFlight, RunType
  <1> DEFINE before == Sound(run[t], scratch[run[t].cpu], config.gen)
             after == Sound(run'[t], scratch'[run[t].cpu], config.gen)
             default == run[t].pol.settings.default
             promise == PromiseL3(run[t].pol, run[t].hook, run[t].obj)
  <1>3. ~run[t].dirty => /\ before /\ run[t].pol \in Lives
                         /\ config.settings = run[t].pol.settings
    BY <1>1, CleanRun
  <1>4. CASE L3HasRules(t)
    <2>1. PICK label \in {"l3path", "l3none"} :
              /\ Jump(t, label)
              /\ label = "l3none" => ~config.settings.hasRules
      BY <1>4 DEF L3HasRules
    <2>2. Moved(t, label, run[t].act)
      BY <1>0, <2>1, JumpMoves
    <2>3. ~run[t].dirty => after
      BY <1>1, <1>3, <2>1, <2>2 DEF Sound, Moved, InL3
    <2> QED
      BY <1>1, <2>2, <2>3, SoundMove
  <1>5. CASE L3NoRules(t)
    <2>0. run[t].pc = "l3none" /\ UNCHANGED scratch
      BY <1>5 DEF L3NoRules
    <2>1. ~run[t].dirty => promise = default
      BY <1>2, <1>3, <2>0, NoRulesMeansDefault DEF Sound
    <2>2. CASE config.settings.default = Allow /\ run[t].hook # Connect
      <3>1. Moved(t, "store", Allow)
        BY <1>0, <1>5, <2>2, DecideMoves DEF L3NoRules
      <3> QED
        BY <1>1, <1>3, <2>0, <2>1, <2>2, <3>1, L3Decides
    <2>3. CASE config.settings.default = Allow /\ run[t].hook = Connect
      <3>1. Moved(t, "ret", Allow)
        BY <1>0, <1>5, <2>3, DecideMoves DEF L3NoRules
      <3>2. ASSUME ~run[t].dirty PROVE after
        <4>1. PromiseL2(run[t].pol, run[t].hook, run[t].obj) = None
              /\ run[t].inScope /\ run[t].event = "none"
          BY <1>3, <2>0, <3>2 DEF Sound
        <4>2. Decided(run'[t])
          BY <1>3, <2>1, <2>3, <3>1, <3>2, <4>1, PromiseOrder DEF Decided, Moved
        <4>3. run'[t].pc = EventOrRet(run'[t].act)
          BY <3>1 DEF Moved, EventOrRet
        <4> QED
          BY <3>1, <4>1, <4>2, <4>3, SoundEnd DEF Moved
      <3> QED
        BY <1>1, <3>1, <3>2, SoundMove
    <2>4. CASE config.settings.default # Allow
      <3>1. Moved(t, "l3path", run[t].act)
        BY <1>0, <1>5, <2>4, JumpMoves DEF L3NoRules
      <3>2. ~run[t].dirty => after
        BY <1>3, <2>0, <3>1 DEF Sound, Moved
      <3> QED
        BY <1>1, <3>1, <3>2, SoundMove
    <2> QED
      BY <2>2, <2>3, <2>4
  <1>6. CASE L3Path(t)
    <2>1. Moved(t, "l3gen", run[t].act)
      BY <1>0, <1>6, JumpMoves DEF L3Path
    <2>2. run[t].hook \in {Exec, FileOpen} => scratch'[run[t].cpu] = run[t].obj
      BY <1>0, <1>1, <1>6, ReadPathFills DEF L3Path
    <2>3. ~run[t].dirty => after
      BY <1>3, <1>6, <2>1, <2>2 DEF Sound, Moved, L3Path
    <2> QED
      BY <1>1, <2>1, <2>3, SoundMove
  <1>7. CASE L3Default(t)
    <2>1. /\ Moved(t, "store", config.settings.default) /\ UNCHANGED scratch
          /\ run[t].pc = "l3def"
      BY <1>0, <1>7, DecideMoves DEF L3Default
    <2>2. ~run[t].dirty => config.settings.default = promise
      BY <1>3, <2>1 DEF Sound
    <2> QED
      BY <1>1, <2>1, <2>2, L3Decides
  <1> QED
    BY <1>4, <1>5, <1>6, <1>7

(* The key of the lookups: the object, under the active generation. *)
LEMMA L3KeySound ==
    ASSUME Context, NEW t \in Tasks, UNCHANGED vars, L3Key(t)
    PROVE  \A u \in Tasks : RunInv(u)'
  <1>0. HookTypeInv
    BY DEF Context
  <1>1. run[t].pc = "l3gen" /\ InFlight(t) /\ UNCHANGED scratch
    BY DEF L3Key, InFlight
  <1>2. /\ run'[t].hook = run[t].hook /\ run'[t].obj = run[t].obj
        /\ run'[t].cpu = run[t].cpu /\ run'[t].event = run[t].event
        /\ run'[t].inScope = run[t].inScope /\ run'[t].pol = run[t].pol
        /\ run'[t].dirty = run[t].dirty /\ run'[t].gen = config.gen
        /\ run'[t].pc = IF config.settings.hasRules THEN "l3look" ELSE "l3def"
        /\ run'[t].key = IF run[t].hook \in {Exec, FileOpen}
                           THEN scratch[run[t].cpu] ELSE run[t].obj
        /\ \A u \in Tasks : u # t => run'[u] = run[u]
    BY <1>0, RunRecord DEF HookTypeInv, RunType, L3Key
  <1>3. ASSUME ~run[t].dirty PROVE Sound(run'[t], scratch'[run[t].cpu], config.gen)
    <2>1. /\ Sound(run[t], scratch[run[t].cpu], config.gen)
          /\ run[t].pol \in Lives /\ config.settings = run[t].pol.settings
      BY <1>1, <1>3, CleanRun
    <2>2. /\ PromiseL2(run[t].pol, run[t].hook, run[t].obj) = None
          /\ run[t].inScope /\ run[t].event = "none"
          /\ run'[t].key = run[t].obj
      BY <1>1, <1>2, <2>1 DEF Sound
    <2>3. run[t].obj \in Objects /\ run[t].hook \in Hooks
      BY <1>0, <1>1, RunRecord DEF RunReady, RunType
    <2>4. ~config.settings.hasRules =>
              PromiseL3(run[t].pol, run[t].hook, run[t].obj) = run[t].pol.settings.default
      BY <2>1, <2>3, NoRulesMeansDefault
    <2>5. CASE config.settings.hasRules
      BY <1>2, <2>2, <2>5 DEF Sound
    <2>6. CASE ~config.settings.hasRules
      BY <1>2, <2>2, <2>4, <2>6 DEF Sound
    <2> QED
      BY <2>5, <2>6
  <1>4. RunInv(t)'
    BY <1>1, <1>2, <1>3, SoundStep
  <1> QED
    BY <1>1, <1>2, <1>4, OthersSound

(* socket_connect searches the network trie with the address. *)
LEMMA ConnectKeys ==
    ASSUME NEW obj
    PROVE  IndexOf(Connect) = NetworkTrie /\ KeysOf(Connect, obj) = obj.lpm
  <1>1. Connect # Exec /\ Connect # FileOpen /\ Connect # Read /\ Connect # Write
    BY DEF Connect, Exec, FileOpen, Read, Write
  <1>2. IndexOf(Connect) = NetworkTrie
    BY <1>1 DEF IndexOf
  <1>3. KeysOf(Connect, obj) = obj.lpm
    BY <1>1 DEF KeysOf
  <1> QED
    BY <1>2, <1>3

(* The lookups. *)
LEMMA L3SearchSound ==
    ASSUME Context, NEW t \in Tasks, UNCHANGED vars, L3Lookup(t) \/ L3AnyPort(t)
    PROVE  \A u \in Tasks : RunInv(u)'
  <1>0. HookTypeInv
    BY DEF Context
  <1>1. /\ run[t].pc \in {"l3look", "l3any"} /\ run[t].pc \in InL3 /\ InFlight(t)
        /\ UNCHANGED scratch
    BY DEF L3Lookup, L3AnyPort, InFlight, InL3
  <1>2. run[t].obj \in Objects /\ run[t].hook \in HooksOf(run[t].obj) /\ run[t].hook \in Hooks
    BY <1>0, <1>1, RunRecord DEF RunReady, InFlight, RunType
  <1> DEFINE p == run[t].pol
             hook == run[t].hook
             obj == run[t].obj
             after == Sound(run'[t], scratch'[run[t].cpu], config.gen)
             exact == Lookup(p.index[IndexOf(hook)], KeysOf(hook, obj))
             any == Lookup(p.index[IndexOf(hook)], obj.anyPort)
             found(keys) == Lookup(idx[IndexOf(hook)][run[t].gen], keys)
  <1>3. ~run[t].dirty => /\ Sound(run[t], scratch[run[t].cpu], config.gen)
                         /\ PromiseL2(p, hook, obj) = None
                         /\ run[t].inScope /\ run[t].event = "none"
                         /\ run[t].key = obj /\ run[t].gen = config.gen
    BY <1>1, CleanRun DEF Sound
  <1>4. ~run[t].dirty => /\ found(KeysOf(hook, run[t].key)) = exact
                         /\ found(run[t].key.anyPort) = any
    BY <1>1, <1>2, <1>3, CleanRun, KeysTyped
  <1>5. ASSUME Moved(t, "l3def", run[t].act),
               ~run[t].dirty => PromiseL3(p, hook, obj) = p.settings.default
        PROVE  \A u \in Tasks : RunInv(u)'
    <2>1. ~run[t].dirty => after
      BY <1>3, <1>5 DEF Sound, Moved
    <2> QED
      BY <1>1, <1>5, <2>1, SoundMove
  <1>6. CASE L3Lookup(t)
    <2> DEFINE rule == found(KeysOf(hook, run[t].key))
    <2>1. L3Search(t, KeysOf(hook, run[t].key),
                   IF hook = Connect THEN "l3any" ELSE "l3def")
      BY <1>6 DEF L3Lookup
    <2>2. CASE rule = None /\ hook = Connect
      <3>1. Moved(t, "l3any", run[t].act)
        BY <1>0, <2>1, <2>2, JumpMoves DEF L3Search
      <3>2. IndexOf(hook) = NetworkTrie /\ KeysOf(hook, obj) = obj.lpm
        BY <2>2, ConnectKeys
      <3>3. ~run[t].dirty => after
        BY <1>3, <1>4, <2>2, <3>1, <3>2 DEF Sound, Moved
      <3> QED
        BY <1>1, <3>1, <3>3, SoundMove
    <2>3. CASE rule = None /\ hook # Connect
      <3>1. Moved(t, "l3def", run[t].act)
        BY <1>0, <2>1, <2>3, JumpMoves DEF L3Search
      <3> QED
        BY <1>4, <1>5, <2>3, <3>1, PromiseL3Cases
    <2>4. CASE rule # None /\ Applies(rule, hook)
      <3>1. Moved(t, "store", rule.action)
        BY <1>0, <2>1, <2>4, DecideMoves DEF L3Search
      <3>2. ~run[t].dirty => rule.action = PromiseL3(p, hook, obj)
        BY <1>4, <2>4, PromiseL3Cases
      <3> QED
        BY <1>1, <3>1, <3>2, L3Decides
    <2>5. CASE rule # None /\ ~Applies(rule, hook)
      <3>1. Moved(t, "l3def", run[t].act)
        BY <1>0, <2>1, <2>5, JumpMoves DEF L3Search
      <3> QED
        BY <1>4, <1>5, <2>5, <3>1, PromiseL3Cases
    <2> QED
      BY <2>2, <2>3, <2>4, <2>5
  <1>7. CASE L3AnyPort(t)
    <2> DEFINE rule == found(run[t].key.anyPort)
    <2>1. L3Search(t, run[t].key.anyPort, "l3def") /\ run[t].pc = "l3any"
      BY <1>7 DEF L3AnyPort
    <2>2. ~run[t].dirty => hook = Connect /\ exact = None
      <3>1. ~run[t].dirty => hook = Connect /\ Lookup(p.index[NetworkTrie], obj.lpm) = None
        BY <1>3, <2>1 DEF Sound
      <3>2. hook = Connect => IndexOf(hook) = NetworkTrie /\ KeysOf(hook, obj) = obj.lpm
        BY ConnectKeys
      <3> QED
        BY <3>1, <3>2
    <2>3. CASE rule = None \/ ~Applies(rule, hook)
      <3>1. Moved(t, "l3def", run[t].act)
        BY <1>0, <2>1, <2>3, JumpMoves DEF L3Search
      <3>2. ~Applies(rule, hook)
        BY <2>3 DEF Applies
      <3> QED
        BY <1>4, <1>5, <2>2, <3>1, <3>2, PromiseL3Cases
    <2>4. CASE rule # None /\ Applies(rule, hook)
      <3>1. Moved(t, "store", rule.action)
        BY <1>0, <2>1, <2>4, DecideMoves DEF L3Search
      <3>2. ~run[t].dirty => rule.action = PromiseL3(p, hook, obj)
        BY <1>4, <2>2, <2>4, PromiseL3Cases
      <3> QED
        BY <1>1, <3>1, <3>2, L3Decides
    <2> QED
      BY <2>3, <2>4
  <1> QED
    BY <1>6, <1>7

(* The cache. *)

(* While hooks run, the epoch is not the zero of a blank slot. *)
LEMMA EpochNonZero ==
    ASSUME LoaderInv, EpochInv, ~masked, Attached
    PROVE  epoch # 0
  <1>1. TypeInv /\ ConfigInv
    BY DEF LoaderInv
  <1>2. CASE pc \in {"idle", "snapshot"}
    BY <1>1, <1>2 DEF ConfigInv, EpochInv
  <1>3. CASE pc \in {"clear_old", "finish"}
    BY <1>3 DEF EpochInv
  <1>4. CASE pc \notin {"idle", "snapshot", "clear_old", "finish"}
    <2>1. pc \in StagingPcs \cup {"unstage", "config_rest", "bump"} \cup RestorePcs
      BY <1>1, <1>4 DEF TypeInv, TypeOK, Pcs, ForwardPcs, StagingPcs
    <2>2. epoch = snap.epoch /\ result.epoch = snap.epoch
      BY <1>1, <1>4, <2>1 DEF ConfigInv
    <2> QED
      BY <2>2 DEF EpochInv
  <1> QED
    BY <1>2, <1>3, <1>4

(* A store of what the installed policy promises for the resource. *)
LEMMA StoreCoherent ==
    ASSUME Context, NEW t \in Tasks, InFlight(t), NEW hook \in Hooks, Store(t, hook),
           UNCHANGED vars,
           ~run[t].dirty => run[t].act \in Promises(run[t].pol, hook, run[t].obj.rid)
    PROVE  CacheInv'
  <1>0. LoaderInv /\ HookTypeInv /\ CacheInv /\ EpochInv /\ ~masked /\ TypeInv
    BY DEF Context, LoaderInv
  <1>1. Attached
    BY <1>0 DEF CacheInv
  <1>2. epoch # 0 /\ epoch \in Nat
    BY <1>0, <1>1, EpochNonZero DEF TypeInv, TypeOK, MapsTypeOK, Epochs
  <1>3. UNCHANGED <<epoch, Attached, CachedPolicy>>
    BY DEF vars, loadVars, mapVars, Attached, CachedPolicy, Changing
  <1>4. ~run[t].dirty => run[t].act \in Promises(CachedPolicy, hook, run[t].obj.rid)
    BY CleanRun DEF CachedPolicy
  <1>5. ASSUME NEW key \in DOMAIN l1', NEW c \in Cpus
        PROVE  /\ l1'[key][c].epoch <= epoch
               /\ (l1'[key][c].epoch = epoch /\ ~l1'[key][c].dirty) =>
                      l1'[key][c].act \in Promises(CachedPolicy, key[2], key[3])
    <2>1. CASE key \in DOMAIN l1 /\ l1'[key][c] = l1[key][c]
      BY <1>0, <2>1 DEF CacheInv
    <2>2. CASE l1'[key][c] = ZeroSlot
      BY <1>2, <2>2 DEF ZeroSlot
    <2>3. CASE /\ l1'[key][c] = [epoch |-> epoch, act |-> run[t].act, dirty |-> run[t].dirty]
               /\ key = <<t, hook, run[t].obj.rid>>
      BY <1>2, <1>4, <2>3
    <2> QED
      BY <1>0, <2>1, <2>2, <2>3, StoreFrame
  <1> QED
    BY <1>1, <1>3, <1>5 DEF CacheInv

(* A step that leaves the cache alone. *)
LEMMA CacheKept ==
    ASSUME CacheInv, UNCHANGED vars, UNCHANGED l1, Attached \/ UNCHANGED run
    PROVE  CacheInv'
  <1>1. UNCHANGED <<epoch, Attached, CachedPolicy>>
    BY DEF vars, loadVars, mapVars, Attached, CachedPolicy, Changing
  <1>2. (DOMAIN l1 # {} \/ \E t \in Tasks : InFlight(t))' => Attached'
    BY <1>1 DEF CacheInv, InFlight
  <1> QED
    BY <1>1, <1>2 DEF CacheInv

(* The steps after a decision. *)
LEMMA AfterSound ==
    ASSUME Context, NEW t \in Tasks, UNCHANGED vars,
           \/ StoreDecision(t) \/ FollowUps(t) \/ FollowRead(t) \/ FollowWrite(t)
    PROVE  CacheInv' /\ \A u \in Tasks : RunInv(u)'
  <1>0. HookTypeInv /\ CacheInv
    BY DEF Context
  <1>1. /\ run[t].pc \in {"store", "follow", "followRead", "followWrite"}
        /\ InFlight(t) /\ UNCHANGED scratch
    BY DEF StoreDecision, FollowUps, FollowRead, FollowWrite, InFlight
  <1>2. /\ run[t].obj \in Objects /\ run[t].hook \in HooksOf(run[t].obj)
        /\ run[t].hook \in Hooks /\ Read \in Hooks /\ Write \in Hooks
    BY <1>0, <1>1, RunRecord DEF RunReady, InFlight, RunType, Hooks
  <1> DEFINE p == run[t].pol
             after == Sound(run'[t], scratch'[run[t].cpu], config.gen)
  <1>3. ~run[t].dirty => /\ Sound(run[t], scratch[run[t].cpu], config.gen)
                         /\ run[t].inScope /\ run[t].event = "none"
                         /\ run[t].act = Promise(p, run[t].hook, run[t].obj)
                         /\ config.settings = p.settings
    BY <1>1, CleanRun DEF Sound
  <1>4. ASSUME Moved(t, EventOrRet(run[t].act), run[t].act)
        PROVE  \A u \in Tasks : RunInv(u)'
    <2>1. ~run[t].dirty => Decided(run'[t])
      BY <1>3, <1>4 DEF Decided, Moved
    <2>2. ~run[t].dirty => after
      BY <1>3, <1>4, <2>1, SoundEnd DEF Moved
    <2> QED
      BY <1>1, <1>4, <2>2, SoundMove
  <1>5. CASE StoreDecision(t)
    <2>1. ~run[t].dirty => run[t].act \in Promises(p, run[t].hook, run[t].obj.rid)
      BY <1>2, <1>3, PromisesHave
    <2>2. CacheInv'
      BY <1>1, <1>2, <1>5, <2>1, StoreCoherent DEF StoreDecision
    <2>3. CASE run[t].hook = FileOpen
      <3>1. Moved(t, "follow", run[t].act)
        BY <1>0, <1>5, <2>3, JumpMoves DEF StoreDecision
      <3>2. ~run[t].dirty => after
        BY <1>3, <2>3, <3>1 DEF Sound, Moved
      <3> QED
        BY <1>1, <2>2, <3>1, <3>2, SoundMove
    <2>4. CASE run[t].hook # FileOpen
      <3>1. Moved(t, EventOrRet(run[t].act), run[t].act)
        BY <1>0, <1>5, <2>4, JumpMoves DEF StoreDecision
      <3> QED
        BY <1>4, <2>2, <3>1
    <2> QED
      BY <2>3, <2>4
  <1>6. CASE FollowUps(t)
    <2>0. /\ run[t].pc = "follow" /\ UNCHANGED l1
      BY <1>6 DEF FollowUps
    <2>1. CacheInv'
      BY <1>0, <1>1, <2>0, CacheKept DEF CacheInv
    <2>2. CASE CacheFileFollowups \in config.settings.flags
      <3>1. Moved(t, "followRead", run[t].act)
        BY <1>0, <1>6, <2>2, JumpMoves DEF FollowUps
      <3>2. ~run[t].dirty => after
        BY <1>3, <2>0, <2>2, <3>1 DEF Sound, Moved
      <3> QED
        BY <1>1, <2>1, <3>1, <3>2, SoundMove
    <2>3. CASE CacheFileFollowups \notin config.settings.flags
      <3>1. Moved(t, EventOrRet(run[t].act), run[t].act)
        BY <1>0, <1>6, <2>3, JumpMoves DEF FollowUps
      <3> QED
        BY <1>4, <2>1, <3>1
    <2> QED
      BY <2>2, <2>3
  <1>7. ASSUME NEW hook \in {Read, Write}, run[t].pc \in {"followRead", "followWrite"},
               Store(t, hook)
        PROVE  CacheInv'
    <2>1. ~run[t].dirty => /\ run[t].hook = FileOpen
                           /\ CacheFileFollowups \in p.settings.flags
      BY <1>3, <1>7 DEF Sound
    <2>2. ~run[t].dirty => hook \in HooksOf(run[t].obj)
      BY <1>2, <2>1, HookClasses
    <2>3. ~run[t].dirty => run[t].act \in Promises(p, hook, run[t].obj.rid)
      BY <1>2, <1>3, <2>1, <2>2, PromisesHave
    <2> QED
      BY <1>1, <1>2, <1>7, <2>3, StoreCoherent
  <1>8. CASE FollowRead(t)
    <2>1. /\ run[t].pc = "followRead" /\ Store(t, Read) /\ Jump(t, "followWrite")
      BY <1>8 DEF FollowRead
    <2>2. Moved(t, "followWrite", run[t].act)
      BY <1>0, <2>1, JumpMoves
    <2>3. ~run[t].dirty => after
      BY <1>3, <2>1, <2>2 DEF Sound, Moved
    <2>4. CacheInv'
      BY <1>7, <2>1
    <2> QED
      BY <1>1, <2>2, <2>3, <2>4, SoundMove
  <1>9. CASE FollowWrite(t)
    <2>1. /\ run[t].pc = "followWrite" /\ Store(t, Write)
          /\ Jump(t, EventOrRet(run[t].act))
      BY <1>9 DEF FollowWrite
    <2>2. Moved(t, EventOrRet(run[t].act), run[t].act)
      BY <1>0, <2>1, JumpMoves
    <2>3. CacheInv'
      BY <1>7, <2>1
    <2> QED
      BY <1>4, <2>2, <2>3
  <1> QED
    BY <1>5, <1>6, <1>8, <1>9

(* The event tells whether the call is blocked. *)
LEMMA EmitSound ==
    ASSUME Context, NEW t \in Tasks, UNCHANGED vars, EmitEvent(t)
    PROVE  \A u \in Tasks : RunInv(u)'
  <1>0. HookTypeInv
    BY DEF Context
  <1>1. run[t].pc = "event" /\ InFlight(t) /\ UNCHANGED scratch
    BY DEF EmitEvent, InFlight
  <1>2. PICK sent \in {IF Blocks(t) THEN "blocked" ELSE "passed", "lost"} :
            run' = [run EXCEPT ![t].pc = "ret", ![t].event = sent]
    BY DEF EmitEvent
  <1>3. /\ run'[t].pc = "ret" /\ run'[t].event = sent /\ run'[t].act = run[t].act
        /\ run'[t].hook = run[t].hook /\ run'[t].obj = run[t].obj
        /\ run'[t].cpu = run[t].cpu /\ run'[t].inScope = run[t].inScope
        /\ run'[t].pol = run[t].pol /\ run'[t].dirty = run[t].dirty
        /\ \A u \in Tasks : u # t => run'[u] = run[u]
    BY <1>0, <1>2, RunRecord DEF HookTypeInv, RunType
  <1>4. ASSUME ~run[t].dirty PROVE Sound(run'[t], scratch'[run[t].cpu], config.gen)
    <2>1. /\ run[t].inScope /\ Decided(run[t]) /\ run[t].act # Allow
          /\ config.settings = run[t].pol.settings
      BY <1>1, <1>4, CleanRun DEF Sound
    <2>2. Blocks(t) <=> MustBlock(run'[t])
      BY <1>3, <2>1 DEF Blocks, MustBlock
    <2>3. EventTells(run'[t])
      BY <1>2, <1>3, <2>1, <2>2 DEF EventTells
    <2>4. Decided(run'[t])
      BY <1>3, <2>1 DEF Decided
    <2> QED
      BY <1>3, <2>1, <2>3, <2>4 DEF Sound
  <1>5. RunInv(t)'
    BY <1>1, <1>3, <1>4, SoundStep
  <1> QED
    BY <1>1, <1>3, <1>5, OthersSound

-----------------------------------------------------------------------------
(* The ends of a run. *)

(* A step of t leaves the results of the other tasks alone. *)
LEMMA ObeysStep ==
    ASSUME CleanRunObeysPolicy, NEW t \in Tasks, UNCHANGED vars,
           \A u \in Tasks : u # t => run'[u] = run[u],
           (run'[t].pc = "done" /\ run'[t].pol # None /\ ~run'[t].dirty /\ ~masked) =>
               Obeys(t, run'[t])
    PROVE  CleanRunObeysPolicy'
  <1>1. UNCHANGED masked
    BY DEF vars, loadVars
  <1>2. ASSUME NEW u \in Tasks, run'[u].pc = "done", run'[u].pol # None, ~run'[u].dirty,
               ~masked
        PROVE  Obeys(u, run'[u])
    <2>1. CASE u = t
      BY <1>2, <2>1
    <2>2. CASE u # t
      BY <1>2, <2>2 DEF CleanRunObeysPolicy
    <2> QED
      BY <2>1, <2>2
  <1> QED
    BY <1>1, <1>2 DEF CleanRunObeysPolicy, Obeys, Decided, MustBlock, EventTells

(* mcp_scope_matches: a task that is let through is not selected. *)
LEMMA ScopeSound ==
    ASSUME Context, CleanRunObeysPolicy, NEW t \in Tasks, EnterScope(t)
    PROVE  (\A u \in Tasks : RunInv(u)') /\ CleanRunObeysPolicy'
  <1>0. HookTypeInv /\ LoaderInv /\ ViewInv /\ ~masked /\ UNCHANGED vars
    BY DEF Context, EnterScope
  <1>1. run[t].pc = "scope" /\ InFlight(t) /\ UNCHANGED scratch
    BY DEF EnterScope, CheckScope, InFlight
  <1>2. ScopeSettled \in BOOLEAN /\ ScopeMatches(config.settings, scope, t) \in BOOLEAN
    BY Zenon DEF ScopeMatches, ScopeSettled
  <1>3. PICK in \in BOOLEAN, settled \in BOOLEAN :
            in = ScopeMatches(config.settings, scope, t) /\ settled = ScopeSettled
    BY <1>2, Zenon
  <1>4. run' = [run EXCEPT ![t] = [run[t] EXCEPT !.pc = IF in THEN "l1" ELSE "done",
                                       !.inScope = in, !.scopeSettled = settled]]
    BY <1>3 DEF EnterScope, CheckScope
  <1>5. /\ run'[t].pc = IF in THEN "l1" ELSE "done"
        /\ run'[t].inScope = in /\ run'[t].scopeSettled = settled
        /\ run'[t].event = run[t].event /\ run'[t].cpu = run[t].cpu
        /\ run'[t].pol = run[t].pol /\ run'[t].dirty = run[t].dirty
        /\ \A u \in Tasks : u # t => run'[u] = run[u]
    BY <1>0, <1>4, RunRecord DEF HookTypeInv, RunType
  <1>6. CASE in
    <2>1. ~run[t].dirty => Sound(run'[t], scratch'[run[t].cpu], config.gen)
      BY <1>1, <1>5, <1>6, CleanRun DEF Sound
    <2>2. RunInv(t)'
      BY <1>0, <1>1, <1>5, <2>1, SoundStep
    <2>3. CleanRunObeysPolicy'
      BY <1>0, <1>5, <1>6, ObeysStep
    <2> QED
      BY <1>0, <1>1, <1>5, <2>2, <2>3, OthersSound
  <1>7. CASE ~in
    <2>1. RunInv(t)'
      BY <1>5, <1>7 DEF RunInv, InFlight
    <2>2. ASSUME ~run'[t].dirty PROVE Obeys(t, run'[t])
      <3>1. ~Changing /\ run'[t].pol = live
        BY <1>1, <1>5, <2>2, CleanRun
      <3>2. /\ config.settings = live.settings
            /\ ScopeSettled => scope = ScopeOf(live)
        BY <1>0, <3>1, MapsHoldLive
      <3>3. settled => ~ScopeMatches(live.settings, ScopeOf(live), t)
        BY <1>3, <1>7, <3>2
      <3> QED
        BY <1>5, <1>7, <3>1, <3>3 DEF Obeys
    <2>3. CleanRunObeysPolicy'
      BY <1>0, <1>5, <2>2, ObeysStep
    <2> QED
      BY <1>0, <1>1, <1>5, <2>1, <2>3, OthersSound
  <1> QED
    BY <1>6, <1>7

(* mcp_recorded_action_ret: the call is blocked as the policy has it. *)
LEMMA ReturnSound ==
    ASSUME Context, CleanRunObeysPolicy, NEW t \in Tasks, Return(t), UNCHANGED vars
    PROVE  (\A u \in Tasks : RunInv(u)') /\ CleanRunObeysPolicy'
  <1>0. HookTypeInv /\ ~masked
    BY DEF Context
  <1>1. run[t].pc = "ret" /\ InFlight(t) /\ UNCHANGED scratch
    BY DEF Return, InFlight
  <1>2. /\ \A u \in Tasks : u # t => run'[u] = run[u]
        /\ run'[t] = IF run[t].dirty THEN NoRun
                     ELSE [run[t] EXCEPT !.pc = "done", !.blocked = Blocks(t), !.gen = 0,
                                         !.key = None]
    BY <1>0 DEF Return, HookTypeInv
  <1>3. CASE run[t].dirty
    <2>1. run'[t].pc = "done" /\ run'[t].pol = None
      BY <1>2, <1>3 DEF NoRun
    <2>2. RunInv(t)' /\ CleanRunObeysPolicy'
      BY <1>2, <2>1, ObeysStep DEF RunInv, InFlight
    <2> QED
      BY <1>1, <1>2, <2>2, OthersSound
  <1>4. CASE ~run[t].dirty
    <2>1. PICK blocked \in BOOLEAN : blocked = Blocks(t)
      BY Zenon DEF Blocks
    <2>2. /\ run'[t].pc = "done" /\ run'[t].blocked = blocked
          /\ run'[t].act = run[t].act /\ run'[t].event = run[t].event
          /\ run'[t].hook = run[t].hook /\ run'[t].obj = run[t].obj
          /\ run'[t].inScope = run[t].inScope /\ run'[t].pol = run[t].pol
      BY <1>0, <1>2, <1>4, <2>1, RunRecord DEF RunType
    <2>3. /\ run[t].inScope /\ Decided(run[t]) /\ EventTells(run[t])
          /\ config.settings = run[t].pol.settings
      BY <1>1, <1>4, CleanRun DEF Sound
    <2>4. /\ Decided(run'[t]) /\ EventTells(run'[t])
          /\ blocked = MustBlock(run'[t])
      BY <2>1, <2>2, <2>3 DEF Decided, EventTells, MustBlock, Blocks
    <2>5. Obeys(t, run'[t])
      BY <2>2, <2>3, <2>4 DEF Obeys
    <2>6. RunInv(t)' /\ CleanRunObeysPolicy'
      BY <1>2, <2>2, <2>5, ObeysStep DEF RunInv, InFlight
    <2> QED
      BY <1>1, <1>2, <2>6, OthersSound
  <1> QED
    BY <1>3, <1>4

(* Entering a hook. *)
LEMMA EnterSound ==
    ASSUME Context, CleanRunObeysPolicy, NEW t \in Tasks, EnterHook(t)
    PROVE  CacheInv' /\ (\A u \in Tasks : RunInv(u)') /\ CleanRunObeysPolicy'
  <1>0. HookTypeInv /\ TypeInv /\ CacheInv
    BY DEF Context, LoaderInv
  <1>1. PICK r \in RunType :
            /\ run' = [run EXCEPT ![t] = r]
            /\ r.pc = "scope" /\ r.event = "none" /\ r.pol = live
            /\ (r.dirty <=> Changing)
            /\ UNCHANGED <<l1, scratch>> /\ UNCHANGED vars
            /\ Attached
    BY <1>0, EnterStep
  <1>2. run'[t] = r /\ \A u \in Tasks : u # t => run'[u] = run[u]
    BY <1>0, <1>1 DEF HookTypeInv
  <1>3. UNCHANGED <<Changing, live, config, scratch>>
    BY <1>1 DEF vars, loadVars, mapVars, Changing
  <1>4. RunInv(t)'
    <2>1. Sound(r, scratch[r.cpu], config.gen)
      BY <1>1 DEF Sound
    <2> QED
      BY <1>1, <1>2, <1>3, <2>1 DEF RunInv
  <1>5. ASSUME NEW u \in Tasks, u # t PROVE RunInv(u)'
    <2>1. RunInv(u)
      BY DEF Context
    <2> QED
      BY <1>2, <1>3, <1>5, <2>1 DEF RunInv, InFlight
  <1>6. CleanRunObeysPolicy'
    BY <1>1, <1>2, ObeysStep
  <1>7. CacheInv'
    BY <1>0, <1>1, CacheKept
  <1> QED
    BY <1>4, <1>5, <1>6, <1>7

(* The LRU map drops an element. *)
LEMMA EvictSound ==
    ASSUME Context, CleanRunObeysPolicy, EvictEntry
    PROVE  CacheInv' /\ (\A u \in Tasks : RunInv(u)') /\ CleanRunObeysPolicy'
  <1>1. PICK key \in DOMAIN l1 : l1' = [k \in DOMAIN l1 \ {key} |-> l1[k]]
    BY DEF EvictEntry, Evict
  <1>2. UNCHANGED <<scratch, run>> /\ UNCHANGED vars
    BY DEF EvictEntry, Evict
  <1>3. UNCHANGED <<Changing, live, config, masked, epoch, Attached, CachedPolicy>>
    BY <1>2 DEF vars, loadVars, mapVars, Changing, Attached, CachedPolicy
  <1>4. ASSUME NEW u \in Tasks PROVE RunInv(u)'
    <2>1. RunInv(u)
      BY DEF Context
    <2> QED
      BY <1>2, <1>3, <2>1 DEF RunInv, InFlight
  <1>5. CleanRunObeysPolicy'
    BY <1>2, <1>3 DEF CleanRunObeysPolicy, Obeys, Decided, MustBlock, EventTells
  <1>6. CacheInv'
    BY <1>1, <1>2, <1>3 DEF Context, CacheInv, InFlight
  <1> QED
    BY <1>4, <1>5, <1>6

-----------------------------------------------------------------------------
(* The steps of the loader. *)

(* A load that is under way is not a load that begins. *)
LEMMA UnderWay ==
    ASSUME LoadStep
    PROVE  pc # "idle"
  <1>1. CASE SnapshotFails \/ SnapshotMaps \/ ClearNext \/ WriteIndex \/ WriteRules
    BY <1>1 DEF SnapshotFails, SnapshotMaps, ClearNext, ClearGeneration, WriteIndex,
                WriteRules
  <1>2. CASE ClearScope \/ WriteScope \/ WriteConfig \/ WriteConfigRest
    BY <1>2 DEF ClearScope, WriteScope, WriteConfig, WriteConfigRest
  <1>3. CASE BumpEpoch \/ ClearOld \/ Finish \/ Unstage
    BY <1>3 DEF BumpEpoch, ClearOld, Finish, Unstage, ClearGeneration
  <1>4. CASE RestoreRules \/ RestoreClear \/ RestoreIndex
    BY <1>4, Zenon DEF RestoreRules, RestoreClear, RestoreIndex
  <1>5. CASE RestoreScopeClear \/ RestoreScope \/ RestoreConfig \/ RestoreConfigRest
    BY <1>5, Zenon DEF RestoreScopeClear, RestoreScope, RestoreConfig, RestoreConfigRest
  <1>6. CASE DeleteFails \/ IterationFails
    BY <1>6 DEF DeleteFails, IterationFails, DeletesLeft
  <1> QED
    BY <1>1, <1>2, <1>3, <1>4, <1>5, <1>6 DEF LoadStep

(* As long as the epoch stays, so does the policy that entries stand for:  *)
(* a switch begins and a rollback ends with the snapshotted one.           *)
LEMMA CachedPolicyStep ==
    ASSUME LoaderInv, Next, ~masked', epoch' = epoch, epoch + 1 < EpochMod \/ pc # "bump"
    PROVE  CachedPolicy' = CachedPolicy
  <1>1. TypeInv /\ ConfigInv
    BY MaskedStays DEF LoaderInv
  <1> USE DEF Changing, SwitchPcs, RestorePcs, CachedPolicy, Goto
  <1>2. CASE \E files \in Policies \cup {Malformed} : Begin(files)
    BY <1>2 DEF Begin, mapVars, ReturnError
  <1>3. CASE SnapshotFails \/ SnapshotMaps
    BY <1>3 DEF SnapshotFails, SnapshotMaps, mapVars, ReturnError
  <1>4. CASE ClearNext \/ ClearOld
    BY <1>4 DEF ClearNext, ClearOld, ClearGeneration
  <1>5. CASE WriteIndex \/ WriteRules
    BY <1>5 DEF WriteIndex, WriteRules, RollBack
  <1>6. CASE ClearScope \/ WriteScope
    BY <1>6 DEF ClearScope, WriteScope, RollBack
  <1>7. CASE Finish
    BY <1>7 DEF Finish
  <1>8. CASE Unstage
    BY <1>1, <1>8 DEF Unstage, ClearGeneration, ConfigInv
  <1>9. CASE WriteConfig
    BY <1>1, <1>9 DEF WriteConfig, RollBack, ConfigInv, StagingPcs
  <1>10. CASE WriteConfigRest
    BY <1>10 DEF WriteConfigRest
  <1>11. CASE BumpEpoch
    <2>1. /\ pc = "bump" /\ snap' = snap
          /\ \/ epoch' = NextEpoch(epoch)
             \/ pc' = "r_rules"
      BY <1>11, Zenon DEF BumpEpoch
    <2>2. epoch \in Nat
      BY <1>1 DEF TypeInv, TypeOK, MapsTypeOK, Epochs
    <2>3. pc' = "r_rules"
      BY <2>1, <2>2 DEF NextEpoch
    <2> QED
      BY <2>1, <2>3
  <1>12. CASE RestoreRules \/ RestoreClear \/ RestoreScopeClear
    BY <1>12 DEF RestoreRules, RestoreClear, RestoreScopeClear
  <1>13. CASE RestoreIndex
    <2>1. pc' = pc \/ AfterIndex
      BY <1>13, Zenon DEF RestoreIndex
    <2>2. pc = "r_write" /\ UNCHANGED snap
      BY <1>13, Zenon DEF RestoreIndex
    <2> QED
      BY <2>1, <2>2 DEF AfterIndex
  <1>14. CASE RestoreScope
    BY <1>14 DEF RestoreScope
  <1>15. CASE RestoreConfig
    <2>1. pc = "r_config" /\ snap.have /\ snap' = snap
      BY <1>1, <1>15 DEF RestoreConfig, ConfigInv
    <2>2. pc' = "r_config_rest"
      BY <1>15, <2>1, Zenon DEF RestoreConfig
    <2> QED
      BY <2>1, <2>2
  <1>16. CASE RestoreConfigRest
    BY <1>16 DEF RestoreConfigRest, ReturnError
  <1>17. CASE DeleteFails
    BY <1>17 DEF DeleteFails, mapVars
  <1>18. ~IterationFails
    BY DEF IterationFails
  <1> QED
    BY <1>2, <1>3, <1>4, <1>5, <1>6, <1>7, <1>8, <1>9, <1>10, <1>11, <1>12, <1>13,
       <1>14, <1>15, <1>16, <1>17, <1>18 DEF Next, LoadStep

(* The epoch never goes back, and moves only to one that no entry has. *)
LEMMA EpochGrows ==
    ASSUME TypeInv, Next, ~masked', pc = "bump" => epoch + 1 < EpochMod
    PROVE  epoch' = epoch \/ epoch' = epoch + 1
  <1>1. CASE BumpEpoch
    <2>1. epoch \in Nat
      BY DEF TypeInv, TypeOK, MapsTypeOK, Epochs
    <2>2. pc = "bump" /\ (epoch' = NextEpoch(epoch) \/ epoch' = epoch)
      BY <1>1, Zenon DEF BumpEpoch
    <2> QED
      BY <2>1, <2>2 DEF NextEpoch
  <1>2. CASE Finish
    BY <1>2 DEF Finish, mapVars
  <1> QED
    BY <1>1, <1>2, OtherSteps

(* A load disturbs no run that it does not mark, and no cache entry. *)
LEMMA LoadSound ==
    ASSUME Context, CleanRunObeysPolicy, Load, ~masked'
    PROVE  /\ ViewInv' /\ EpochInv' /\ CacheInv'
           /\ \A u \in Tasks : RunInv(u)'
           /\ CleanRunObeysPolicy'
  <1>0. LoaderInv /\ TypeInv /\ HookTypeInv /\ ViewInv /\ EpochInv /\ CacheInv /\ ~masked
    BY DEF Context, LoaderInv
  <1>1. /\ Next /\ run' = Overlapped /\ UNCHANGED <<l1, scratch>>
        /\ pc = "idle" => epoch + 1 < EpochMod
    BY UnderWay DEF Load, Next
  <1>2. ViewInv' /\ EpochInv' /\ (Attached => Attached')
    BY <1>0, <1>1, ViewStep, EpochStep
  <1>3. ASSUME NEW u \in Tasks PROVE RunInv(u)'
    <2>1. SUFFICES ASSUME InFlight(u)', ~run'[u].dirty
                   PROVE  /\ ~Changing' /\ run'[u].pol = live'
                          /\ Sound(run'[u], scratch'[run'[u].cpu], config'.gen)
      BY DEF RunInv
    <2>2. InFlight(u) /\ run'[u] = run[u] /\ ~Changing /\ ~Changing'
      BY <1>0, <1>1, <2>1, OverlappedRecord DEF InFlight
    <2>3. UNCHANGED <<config, live>>
      BY <1>0, <1>1, <2>2, QuietLoad
    <2>4. RunInv(u)
      BY DEF Context
    <2> QED
      BY <1>1, <2>1, <2>2, <2>3, <2>4 DEF RunInv
  <1>4. CacheInv'
    <2>1. (DOMAIN l1 # {} \/ \E t \in Tasks : InFlight(t))' => Attached'
      BY <1>0, <1>1, <1>2, OverlappedRecord DEF CacheInv, InFlight
    <2>2. /\ epoch \in Nat
          /\ epoch' = epoch \/ epoch' = epoch + 1
          /\ pc = "bump" => epoch + 1 < EpochMod
      BY <1>0, <1>1, EpochGrows DEF TypeInv, TypeOK, MapsTypeOK, Epochs, EpochInv
    <2>3. ASSUME NEW key \in DOMAIN l1, NEW c \in Cpus
          PROVE  /\ l1[key][c].epoch <= epoch'
                 /\ (l1[key][c].epoch = epoch' /\ ~l1[key][c].dirty) =>
                        l1[key][c].act \in Promises(CachedPolicy', key[2], key[3])
      <3>1. l1[key][c].epoch \in Nat
        BY <1>0 DEF HookTypeInv, Epochs
      <3>2. CASE epoch' = epoch
        <4>1. CachedPolicy' = CachedPolicy
          BY <1>0, <1>1, <2>2, <3>2, CachedPolicyStep
        <4> QED
          BY <1>0, <3>2, <4>1 DEF CacheInv
      <3>3. CASE epoch' = epoch + 1
        <4>1. l1[key][c].epoch <= epoch
          BY <1>0 DEF CacheInv
        <4>2. l1[key][c].epoch <= epoch' /\ l1[key][c].epoch # epoch'
          BY <2>2, <3>1, <3>3, <4>1
        <4> QED
          BY <4>2, Zenon
      <3> QED
        BY <2>2, <3>2, <3>3
    <2> QED
      BY <1>1, <2>1, <2>3 DEF CacheInv
  <1>5. CleanRunObeysPolicy'
    <2>1. ASSUME NEW t \in Tasks, run'[t].pc = "done" PROVE run'[t] = run[t]
      BY <1>0, <1>1, <2>1, OverlappedRecord DEF InFlight
    <2> QED
      BY <1>0, <2>1 DEF CleanRunObeysPolicy, Obeys, Decided, MustBlock, EventTells
  <1> QED
    BY <1>2, <1>3, <1>4, <1>5

-----------------------------------------------------------------------------
(* Tasks inside a hook are on different CPUs. *)

(* A step of a run leaves it on its CPU. *)
LEMMA CpuFrame ==
    ASSUME HookTypeInv, NEW t \in Tasks, EnterScope(t) \/ RunHook(t)
    PROVE  /\ InFlight(t)
           /\ run'[t].pc = "done" \/ run'[t].cpu = run[t].cpu
           /\ \A u \in Tasks : u # t => run'[u] = run[u]
  <1>1. run \in [Tasks -> RunType] /\ run[t] \in RunType
    BY DEF HookTypeInv
  <1> USE DEF InFlight
  <1>3. CASE EnterScope(t) \/ L1Lookup(t)
    BY <1>1, <1>3 DEF EnterScope, CheckScope, L1Lookup, Jump, RunType
  <1>4. CASE L2Decide(t) \/ L2Directory(t) \/ L2Name(t)
    BY <1>1, <1>4 DEF L2Decide, L2Directory, L2Name, Jump, Decide, RunType
  <1>5. CASE L3HasRules(t) \/ L3NoRules(t) \/ L3Path(t) \/ L3Default(t)
    BY <1>1, <1>5 DEF L3HasRules, L3NoRules, L3Path, L3Default, Jump, Decide, RunType
  <1>6. CASE L3Key(t)
    BY <1>1, <1>6 DEF L3Key, RunType
  <1>7. CASE L3Lookup(t) \/ L3AnyPort(t)
    BY <1>1, <1>7 DEF L3Lookup, L3AnyPort, L3Search, Jump, Decide, RunType
  <1>8. CASE StoreDecision(t) \/ FollowUps(t) \/ FollowRead(t) \/ FollowWrite(t)
    BY <1>1, <1>8 DEF StoreDecision, FollowUps, FollowRead, FollowWrite, Jump, RunType
  <1>9. CASE EmitEvent(t)
    BY <1>1, <1>9 DEF EmitEvent, RunType
  <1>10. CASE Return(t)
    BY <1>1, <1>10 DEF Return, RunType, NoRun
  <1> QED
    BY <1>3, <1>4, <1>5, <1>6, <1>7, <1>8, <1>9, <1>10 DEF RunHook, HookStep

LEMMA CpuStep ==
    ASSUME Preemptible = FALSE, TypeInv, HookTypeInv, CpuInv, GuardNext
    PROVE  CpuInv'
  <1>1. CASE Load
    <2>1. run' = Overlapped
      BY <1>1 DEF Load
    <2>2. \A u \in Tasks : run'[u].pc = run[u].pc /\ run'[u].cpu = run[u].cpu
      BY <2>1, OverlappedRecord
    <2> QED
      BY <2>2 DEF CpuInv, InFlight
  <1>2. CASE EvictEntry
    BY <1>2 DEF EvictEntry, Evict, CpuInv, InFlight
  <1>3. ASSUME NEW t \in Tasks, EnterScope(t) \/ RunHook(t) PROVE CpuInv'
    BY <1>3, CpuFrame DEF CpuInv, InFlight
  <1>4. ASSUME NEW t \in Tasks, EnterHook(t) PROVE CpuInv'
    <2>1. PICK r \in RunType : run' = [run EXCEPT ![t] = r] /\ CpuFree(r.cpu)
      BY <1>4, EnterStep
    <2>2. run'[t] = r /\ \A u \in Tasks : u # t => run'[u] = run[u]
      BY <2>1 DEF HookTypeInv
    <2>3. \A u \in Tasks : run[u].cpu = r.cpu => ~InFlight(u)
      BY <2>1 DEF CpuFree, InFlight
    <2> QED
      BY <2>2, <2>3 DEF CpuInv, InFlight
  <1> QED
    BY <1>1, <1>2, <1>3, <1>4 DEF GuardNext

-----------------------------------------------------------------------------
(* The whole guard. *)

(* Nothing that the invariant speaks of changes when the loader does not   *)
(* move.                                                                   *)
LEMMA LoaderIdle ==
    ASSUME LoaderInv, UNCHANGED vars
    PROVE  LoaderInv' /\ UNCHANGED masked /\ (ViewInv => ViewInv') /\ (EpochInv => EpochInv')
  <1>1. LoaderInv' /\ UNCHANGED masked
    BY LoaderInvInductive DEF vars, loadVars
  <1>2. ViewInv => ViewInv'
    BY DEF vars, loadVars, mapVars, ViewInv, ScopeOf
  <1>3. EpochInv => EpochInv'
    BY DEF vars, loadVars, mapVars, EpochInv, Attached
  <1> QED
    BY <1>1, <1>2, <1>3

(* One step of a task, while no error was discarded. *)
LEMMA TaskSound ==
    ASSUME Context, CleanRunObeysPolicy, NEW t \in Tasks,
           EnterHook(t) \/ EnterScope(t) \/ RunHook(t)
    PROVE  CacheInv' /\ (\A u \in Tasks : RunInv(u)') /\ CleanRunObeysPolicy'
  <1>0. HookTypeInv /\ CacheInv
    BY DEF Context
  <1>1. CASE EnterHook(t)
    BY <1>1, EnterSound
  <1>2. ASSUME EnterScope(t) \/ RunHook(t), UNCHANGED l1
        PROVE  CacheInv'
    <2>1. InFlight(t) /\ UNCHANGED vars
      BY <1>0, <1>2, CpuFrame DEF EnterScope, RunHook
    <2> QED
      BY <1>0, <1>2, <2>1, CacheKept DEF CacheInv
  <1>3. CASE EnterScope(t)
    <2>1. UNCHANGED l1
      BY <1>3, Zenon DEF EnterScope, CheckScope
    <2> QED
      BY <1>2, <1>3, <2>1, ScopeSound
  <1>4. ASSUME RunHook(t), run'[t].pc # "done" PROVE CleanRunObeysPolicy'
    <2>1. UNCHANGED vars /\ \A u \in Tasks : u # t => run'[u] = run[u]
      BY <1>0, <1>4, CpuFrame DEF RunHook
    <2> QED
      BY <1>4, <2>1, ObeysStep
  <1>5. CASE RunHook(t)
    <2>0. UNCHANGED vars
      BY <1>5 DEF RunHook
    <2>1. CASE L1Lookup(t)
      <3>1. run'[t].pc # "done"
        <4>1. run[t] \in RunType
          BY <1>0, RunRecord
        <4> QED
          BY <1>0, <2>1, <4>1 DEF L1Lookup, Jump, EventOrRet, HookTypeInv, RunType
      <3>2. UNCHANGED l1
        BY <2>1 DEF L1Lookup
      <3> QED
        BY <1>2, <1>4, <1>5, <2>0, <2>1, <3>1, <3>2, L1LookupSound
    <2>2. CASE L2Decide(t) \/ L2Directory(t) \/ L2Name(t)
      <3>1. run'[t].pc # "done" /\ UNCHANGED l1
        BY <1>0, <2>2, RunRecord DEF L2Decide, L2Directory, L2Name, Jump, Decide, HookTypeInv, RunType
      <3> QED
        BY <1>2, <1>4, <1>5, <2>0, <2>2, <3>1, L2Sound
    <2>3. CASE L3HasRules(t) \/ L3NoRules(t) \/ L3Path(t) \/ L3Default(t)
      <3>1. run'[t].pc # "done" /\ UNCHANGED l1
        BY <1>0, <2>3, RunRecord
           DEF L3HasRules, L3NoRules, L3Path, L3Default, Jump, Decide, HookTypeInv, RunType
      <3> QED
        BY <1>2, <1>4, <1>5, <2>0, <2>3, <3>1, L3HeadSound
    <2>4. CASE L3Key(t)
      <3>1. run'[t].pc # "done" /\ UNCHANGED l1
        BY <1>0, <2>4, RunRecord DEF L3Key, HookTypeInv, RunType
      <3> QED
        BY <1>2, <1>4, <1>5, <2>0, <2>4, <3>1, L3KeySound
    <2>5. CASE L3Lookup(t) \/ L3AnyPort(t)
      <3>1. run'[t].pc # "done" /\ UNCHANGED l1
        BY <1>0, <2>5, RunRecord
           DEF L3Lookup, L3AnyPort, L3Search, Jump, Decide, HookTypeInv, RunType
      <3> QED
        BY <1>2, <1>4, <1>5, <2>0, <2>5, <3>1, L3SearchSound
    <2>6. CASE StoreDecision(t) \/ FollowUps(t) \/ FollowRead(t) \/ FollowWrite(t)
      <3>1. run'[t].pc # "done"
        BY <1>0, <2>6, RunRecord
           DEF StoreDecision, FollowUps, FollowRead, FollowWrite, Jump, EventOrRet,
               HookTypeInv, RunType
      <3> QED
        BY <1>4, <1>5, <2>0, <2>6, <3>1, AfterSound
    <2>7. CASE EmitEvent(t)
      <3>1. run'[t].pc # "done" /\ UNCHANGED l1
        BY <1>0, <2>7, RunRecord DEF EmitEvent, HookTypeInv, RunType
      <3> QED
        BY <1>2, <1>4, <1>5, <2>0, <2>7, <3>1, EmitSound
    <2>8. CASE Return(t)
      <3>1. UNCHANGED l1
        BY <2>8 DEF Return
      <3> QED
        BY <1>2, <1>5, <2>0, <2>8, <3>1, ReturnSound
    <2> QED
      BY <1>5, <2>1, <2>2, <2>3, <2>4, <2>5, <2>6, <2>7, <2>8 DEF RunHook, HookStep
  <1> QED
    BY <1>1, <1>3, <1>5

(* GuardInv is inductive: every step of the loader, of a task and of the   *)
(* LRU map keeps it.                                                       *)
LEMMA GuardInvInductive ==
    ASSUME Preemptible = FALSE
    PROVE  /\ GuardInit => GuardInv
           /\ GuardInv /\ [GuardNext]_guardVars => GuardInv'
  <1>1. ASSUME GuardInit PROVE GuardInv
    <2>1. /\ LoaderInv /\ HookTypeInv
          /\ \A t \in Tasks : run[t] = NoRun
          /\ DOMAIN l1 = {}
      BY <1>1, GuardTyped, LoaderInvInductive DEF GuardInit, HooksInit
    <2>2. NoRun.pc = "done" /\ NoRun.pol = None
      BY DEF NoRun
    <2>a. ScopeOf(ZeroPolicy) = EmptyScope /\ ZeroPolicy.settings = ZeroConfig.settings
      BY DEF ScopeOf, ZeroPolicy, EmptyScope, ZeroConfig
    <2>b. /\ pc = "idle" /\ config = ZeroConfig /\ live = ZeroPolicy /\ scope = EmptyScope
          /\ result.gen = 0 /\ ~masked
      BY <1>1 DEF GuardInit, Init, MapsInit
    <2>3. ViewInv /\ EpochInv
      BY <2>a, <2>b DEF ViewInv, EpochInv, Attached
    <2> QED
      BY <2>1, <2>2, <2>3 DEF GuardInv, CpuInv, CacheInv, RunInv, CleanRunObeysPolicy, InFlight
  <1>2. ASSUME GuardInv, GuardNext PROVE GuardInv'
    <2>0. /\ LoaderInv /\ TypeInv /\ HookTypeInv /\ CpuInv /\ CleanRunObeysPolicy
          /\ ~masked => Context
      BY <1>2 DEF GuardInv, LoaderInv, Context
    <2>1. HookTypeInv' /\ CpuInv'
      BY <1>2, <2>0, GuardTyped, CpuStep
    <2>2. LoaderInv' /\ (masked => masked')
      <3>1. CASE Load
        <4>1. Next
          BY <3>1 DEF Load, Next
        <4> QED
          BY <2>0, <4>1, LoaderInvInductive, MaskedStays
      <3>2. CASE ~Load
        <4>1. UNCHANGED vars
          BY <1>2, <3>2 DEF GuardNext, EnterHook, EnterScope, RunHook, EvictEntry
        <4> QED
          BY <2>0, <4>1, LoaderIdle
      <3> QED
        BY <3>1, <3>2
    <2>3. CASE masked'
      BY <2>1, <2>2, <2>3 DEF GuardInv, CleanRunObeysPolicy
    <2>4. CASE ~masked'
      <3>1. Context
        BY <2>0, <2>2, <2>4
      <3>2. CASE Load
        BY <2>0, <2>1, <2>2, <2>4, <3>1, <3>2, LoadSound DEF GuardInv
      <3>3. CASE ~Load
        <4>1. UNCHANGED vars
          BY <1>2, <3>3 DEF GuardNext, EnterHook, EnterScope, RunHook, EvictEntry
        <4>2. ViewInv' /\ EpochInv'
          BY <3>1, <4>1, LoaderIdle DEF Context
        <4>3. CacheInv' /\ (\A u \in Tasks : RunInv(u)') /\ CleanRunObeysPolicy'
          BY <1>2, <2>0, <3>1, <3>3, TaskSound, EvictSound DEF GuardNext
        <4> QED
          BY <2>1, <2>2, <4>2, <4>3 DEF GuardInv
      <3> QED
        BY <3>2, <3>3
    <2> QED
      BY <2>3, <2>4
  <1>3. ASSUME GuardInv, UNCHANGED guardVars PROVE GuardInv'
    <2>1. UNCHANGED vars /\ UNCHANGED <<l1, scratch, run>>
      BY <1>3 DEF guardVars, hookVars
    <2>2. LoaderInv' /\ UNCHANGED masked /\ (ViewInv => ViewInv') /\ (EpochInv => EpochInv')
      BY <1>3, <2>1, LoaderIdle DEF GuardInv
    <2>3. HookTypeInv' /\ CpuInv'
      BY <1>3, <2>1 DEF GuardInv, HookTypeInv, CpuInv, InFlight
    <2>4. CacheInv => CacheInv'
      BY <2>1, CacheKept
    <2>5. (\A t \in Tasks : RunInv(t)) => (\A t \in Tasks : RunInv(t)')
      <3>1. UNCHANGED <<Changing, live, config, scratch, run>>
        BY <2>1 DEF vars, loadVars, mapVars, Changing
      <3> QED
        BY <3>1 DEF RunInv, InFlight
    <2>6. CleanRunObeysPolicy'
      BY <1>3, <2>1, <2>2
         DEF GuardInv, CleanRunObeysPolicy, Obeys, Decided, MustBlock, EventTells
    <2> QED
      BY <1>3, <2>2, <2>3, <2>4, <2>5, <2>6 DEF GuardInv
  <1> QED
    BY <1>1, <1>2, <1>3

(* THEOREM: the inductive invariant holds for any number of tasks, CPUs,   *)
(* objects, policies, loads and failures, as long as hooks do not preempt  *)
(* each other on a CPU (GuardPreempt.cfg shows what happens if they do).   *)
THEOREM GuardCorrect ==
    ASSUME Preemptible = FALSE
    PROVE  GuardSpec => []GuardInv
  BY GuardInvInductive, PTL DEF GuardSpec

(* THEOREM: every run of a hook that no change of policy overlapped        *)
(* returns, blocks and reports as the installed policy promises, and lets  *)
(* no task through that the installed profile selects, whichever layer     *)
(* decided and however its steps interleaved with those of other tasks and *)
(* of the loader's staging.                                                *)
THEOREM CleanRunObeysPolicyAlways ==
    ASSUME Preemptible = FALSE
    PROVE  GuardSpec => []CleanRunObeysPolicy
  <1>1. GuardInv => CleanRunObeysPolicy
    BY DEF GuardInv
  <1> QED
    BY <1>1, GuardCorrect, PTL

(* THEOREM: outside the switch of configuration and epoch, every clean     *)
(* cache entry that L1 would return is a decision of the installed policy: *)
(* the bump of the epoch forgets all decisions of the old one, and a       *)
(* rollback needs no bump.                                                 *)
THEOREM CleanEntriesCoherentAlways ==
    ASSUME Preemptible = FALSE
    PROVE  GuardSpec => []CleanEntriesCoherent
  <1>1. ASSUME GuardInv PROVE CleanEntriesCoherent
    <2>1. SUFFICES ASSUME ~Switching, ~masked, NEW e \in ValidEntries,
                          ~l1[e[1]][e[2]].dirty
                   PROVE  Coherent(e)
      BY DEF CleanEntriesCoherent
    <2>2. CacheInv /\ ConfigInv
      BY <1>1, <2>1 DEF GuardInv, LoaderInv
    <2>3. e[1] \in DOMAIN l1 /\ e[2] \in Cpus /\ l1[e[1]][e[2]].epoch = epoch
      BY DEF ValidEntries
    <2>4. l1[e[1]][e[2]].act \in Promises(CachedPolicy, e[1][2], e[1][3])
      BY <2>1, <2>2, <2>3 DEF CacheInv
    <2>5. CachedPolicy = live
      <3>1. CASE Changing
        <4>1. pc \in RestorePcs /\ config.gen # next
          BY <2>1, <3>1 DEF Changing, Switching
        <4> QED
          BY <2>2, <3>1, <4>1 DEF ConfigInv, CachedPolicy
      <3>2. CASE ~Changing
        BY <3>2 DEF CachedPolicy
      <3> QED
        BY <3>1, <3>2
    <2> QED
      BY <2>4, <2>5 DEF Coherent
  <1> QED
    BY <1>1, GuardCorrect, PTL


-----------------------------------------------------------------------------
(* The guard and the loader. *)

(* THEOREM: the hooks write none of the maps that the loader reads: with   *)
(* hooks running between any two of its operations, preempting each other  *)
(* or not, mcp_policy_load_dir behaves as it does alone.                   *)
THEOREM GuardImplementsLoader == GuardSpec => Spec
  <1>1. GuardInit => Init
    BY DEF GuardInit
  <1>2. [GuardNext]_guardVars => [Next]_vars
    <2>1. ASSUME Load PROVE Next
      BY <2>1 DEF Load, Next
    <2>2. ASSUME NEW t \in Tasks, EnterHook(t) \/ EnterScope(t) \/ RunHook(t)
          PROVE  UNCHANGED vars
      BY <2>2 DEF EnterHook, EnterScope, RunHook
    <2>3. ASSUME EvictEntry PROVE UNCHANGED vars
      BY <2>3 DEF EvictEntry
    <2>4. ASSUME UNCHANGED guardVars PROVE UNCHANGED vars
      BY <2>4 DEF guardVars
    <2> QED
      BY <2>1, <2>2, <2>3, <2>4 DEF GuardNext
  <1> QED
    BY <1>1, <1>2, PTL DEF GuardSpec, Spec

(* THEOREM: under running hooks a load still replaces the policy at once,  *)
(* with the epoch, or not at all, and moves the epoch only when all of the *)
(* new policy is in place.                                                 *)
THEOREM GuardReloadIsAtomic == GuardSpec => AtomicReload /\ EpochCommits
  BY GuardImplementsLoader, ReloadIsAtomic, EpochCommitsAlways, PTL
=============================================================================
