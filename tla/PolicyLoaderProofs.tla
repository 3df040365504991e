-------------------------- MODULE PolicyLoaderProofs --------------------------
(***************************************************************************)
(* Proofs about the policy loader, for every set of policies, every number *)
(* of keys, generations and epochs, and every number of failing            *)
(* operations.                                                             *)
(***************************************************************************)
EXTENDS PolicyLoader, TLAPS

Indexes == [Kinds -> [Gens -> Slices]]
Scopes == [ScopeMaps -> ScopeTables]

-----------------------------------------------------------------------------
(* Operators. *)

(* The next generation is another one, and not zero. *)
LEMMA NextGenDiffers ==
    ASSUME NEW g \in Gens
    PROVE  NextGen(g) \in Gens /\ NextGen(g) # g /\ NextGen(g) # 0
  BY BoundsAssumption DEF NextGen, Gens

(* The next epoch is in range, another one, and not zero. *)
LEMMA NextEpochNonZero ==
    ASSUME NEW e \in Epochs
    PROVE  NextEpoch(e) \in Epochs /\ NextEpoch(e) # 0 /\ NextEpoch(e) # e
  BY BoundsAssumption DEF NextEpoch, Epochs

(* Zero is a generation and an epoch. *)
LEMMA ZeroInRange == 0 \in Gens /\ 0 \in Epochs
  BY BoundsAssumption DEF Gens, Epochs

(* Setting or deleting one entry of one slice of one index. *)
LEMMA SetEntryType ==
    ASSUME idx \in Indexes,
           NEW kind \in Kinds, NEW gen \in Gens, NEW key \in Keys,
           NEW rule \in Rules \cup {None}
    PROVE  SetEntry(kind, gen, key, rule) \in Indexes
  BY DEF SetEntry, Indexes, Slices

(* It changes no other slice, and no other entry of the slice. *)
LEMMA SetEntryFrame ==
    ASSUME idx \in Indexes,
           NEW kind \in Kinds, NEW gen \in Gens, NEW key \in Keys,
           NEW rule \in Rules \cup {None},
           idx' = SetEntry(kind, gen, key, rule)
    PROVE  /\ \A j \in Kinds, g \in Gens :
                  (j # kind \/ g # gen) => idx'[j][g] = idx[j][g]
           /\ \A k \in Keys : idx'[kind][gen][k] = IF k = key THEN rule
                                                   ELSE idx[kind][gen][k]
  BY DEF SetEntry, Indexes, Slices

(* Setting or deleting one selector. *)
LEMMA SetScopeType ==
    ASSUME scope \in Scopes,
           NEW m \in ScopeMaps, NEW i \in Ids, NEW owner \in Owners \cup {None}
    PROVE  /\ SetScope(m, i, owner) \in Scopes
           /\ \A n \in ScopeMaps : n # m => SetScope(m, i, owner)[n] = scope[n]
  BY DEF SetScope, Scopes, ScopeTables

(* The empty maps and the zeroed configuration. *)
LEMMA ZeroTypes ==
    /\ ZeroConfig \in [gen : Gens, settings : Settings]
    /\ EmptyIndex \in Indexes
    /\ EmptyScope \in Scopes
    /\ ZeroPolicy \in PolicyType
    /\ ZeroPolicy.index \in [Kinds -> Slices]
  <1>1. ZeroSettings \in Settings
    BY DEF ZeroSettings, Settings, Actions, Allow, Flags
  <1>2. EmptySlice \in Slices
    BY DEF EmptySlice, Slices
  <1>3. EmptyIndex \in Indexes
    BY <1>2 DEF EmptyIndex, Indexes
  <1>4. EmptyScope \in Scopes
    BY DEF EmptyScope, Scopes, ScopeTables
  <1>5. ZeroPolicy \in PolicyType
    BY <1>1, <1>2 DEF ZeroPolicy, PolicyType
  <1>6. ZeroPolicy.index \in [Kinds -> Slices]
    BY <1>2 DEF ZeroPolicy
  <1> QED
    BY <1>1, <1>3, <1>4, <1>5, <1>6, ZeroInRange DEF ZeroConfig

(* An entry or selector of a policy. *)
LEMMA PolicyParts ==
    ASSUME NEW p \in Policies
    PROVE  /\ p.settings \in Settings
           /\ p.index \in [Kinds -> Slices]
           /\ ScopeOf(p) \in Scopes
  <1>1. p \in PolicyType
    BY PoliciesAssumption
  <1>2. p.settings \in Settings /\ p.index \in [Kinds -> Slices]
    BY <1>1 DEF PolicyType
  <1>3. p.settings.owner \in Owners \cup {None}
    BY <1>2 DEF Settings
  <1>4. ScopeOf(p) \in Scopes
    BY <1>3 DEF ScopeOf, Scopes, ScopeTables
  <1> QED
    BY <1>2, <1>4

-----------------------------------------------------------------------------
(* Types. *)

(* What the type invariant says of the maps, in the form proofs use it. *)
LEMMA MapTypes ==
    ASSUME TypeInv
    PROVE  /\ idx \in Indexes /\ scope \in Scopes
           /\ config.gen \in Gens /\ next \in Gens
           /\ snap.config.gen \in Gens
           /\ snap.idx \in Indexes /\ snap.scope \in Scopes
           /\ at \in Kinds
  <1>1. snap.config \in [gen : Gens, settings : Settings]
    BY DEF TypeInv, TypeOK, Snapshots
  <1> QED
    BY <1>1 DEF TypeInv, TypeOK, MapsTypeOK, Snapshots, Indexes, Scopes

(* The initial state has the right types. *)
LEMMA InitTyped == Init => TypeInv
  <1> SUFFICES ASSUME Init PROVE TypeInv
    OBVIOUS
  <1>1. MapsTypeOK
    BY ZeroTypes, ZeroInRange DEF Init, MapsInit, MapsTypeOK, Indexes, Scopes
  <1>2. snap \in Snapshots
    BY ZeroTypes, ZeroInRange
       DEF Init, NoSnap, Snapshots, Indexes, Scopes, Lives
  <1>3. /\ pc \in Pcs /\ at \in Kinds /\ upto \in Kinds /\ next \in Gens
        /\ result \in [status : {"none", "ok", "failed"}, gen : Gens, epoch : Epochs]
        /\ faults \in 0 .. MaxFaults
    BY ZeroInRange, FaultAssumption DEF Init, Pcs, Kinds
  <1> QED
    BY <1>1, <1>2, <1>3 DEF Init, TypeInv, TypeOK, Lives, ScopePcs

(* A deletion loop keeps the types. *)
LEMMA ClearGenerationTyped ==
    ASSUME TypeInv,
           NEW label \in Pcs \ ({"idle"} \cup ScopePcs), NEW gen \in Gens, NEW last \in Kinds,
           NEW after \in Pcs \ ({"idle"} \cup ScopePcs),
           ClearGeneration(label, gen, last, after)
    PROVE  TypeInv'
  <1>1. idx' \in Indexes
    <2>1. CASE idx' = idx
      BY <2>1, MapTypes
    <2>2. CASE \E k \in Entries(idx[at][gen]) : idx' = SetEntry(at, gen, k, None)
      BY <2>2, MapTypes, SetEntryType DEF Entries
    <2> QED
      BY <2>1, <2>2 DEF ClearGeneration
  <1>2. pc' \in Pcs \ ({"idle"} \cup ScopePcs) /\ at' \in Kinds
    BY DEF ClearGeneration, TypeInv, TypeOK, Goto, Kinds
  <1>3. MapsTypeOK'
    BY <1>1 DEF ClearGeneration, TypeInv, TypeOK, MapsTypeOK, Indexes
  <1> QED
    BY <1>2, <1>3 DEF ClearGeneration, TypeInv, TypeOK

(* The components of a typed state, where records are taken apart. *)
LEMMA PartTypes ==
    ASSUME TypeInv
    PROVE  /\ config \in [gen : Gens, settings : Settings]
           /\ snap.config \in [gen : Gens, settings : Settings]
           /\ snap.slots \in Policies \cup {None}
           /\ snap.live \in Lives
           /\ snap.epoch \in Epochs
           /\ result.gen \in Gens /\ result.epoch \in Epochs
           /\ [result EXCEPT !.status = "failed"] \in
                  [status : {"none", "ok", "failed"}, gen : Gens, epoch : Epochs]
  BY DEF TypeInv, TypeOK, MapsTypeOK, Snapshots

(* A configuration that is half written has the right type. *)
LEMMA HalfWrittenType ==
    ASSUME TypeInv, NEW new \in [gen : Gens, settings : Settings],
           NEW half \in HalfWritten(new)
    PROVE  /\ half \in [gen : Gens, settings : Settings]
           /\ \/ half.gen = new.gen /\ half.settings = config.settings
              \/ half.gen = config.gen /\ half.settings = new.settings
  BY PartTypes DEF HalfWritten

(* What an iteration that fails has seen of a map has the map's type. *)
LEMMA PartialReads ==
    ASSUME TypeInv
    PROVE  /\ \A kind \in Kinds : \A seen : SeenOfIndex(kind, seen) \in Indexes
           /\ \A m \in ScopeMaps : \A seen : SeenOfScope(m, seen) \in Scopes
  <1>1. ASSUME NEW kind \in Kinds, NEW seen PROVE SeenOfIndex(kind, seen) \in Indexes
    BY MapTypes, <1>1 DEF SeenOfIndex, Indexes, Slices
  <1>2. ASSUME NEW m \in ScopeMaps, NEW seen PROVE SeenOfScope(m, seen) \in Scopes
    BY MapTypes, <1>2 DEF SeenOfScope, Scopes, ScopeTables
  <1> QED
    BY <1>1, <1>2

(* Every step keeps the types. *)
LEMMA NextTyped ==
    ASSUME TypeInv, Next
    PROVE  TypeInv'
  <1> USE DEF Kinds, ScopeMaps
  <1>a. FaultPoints \subseteq AllFaultPoints /\ MaxFaults \in Nat
    BY FaultAssumption
  <1>1. ASSUME NEW files \in Policies \cup {Malformed}, Begin(files)
        PROVE  TypeInv'
    <2>1. NoSnap \in Snapshots
      BY ZeroTypes, ZeroInRange DEF NoSnap, Snapshots, Indexes, Scopes, Lives
    <2> QED
      BY <1>1, <2>1, PartTypes
         DEF Begin, ReturnError, Goto, TypeInv, TypeOK, MapsTypeOK, mapVars, Pcs,
             ForwardPcs, ScopePcs
  <1>2. CASE SnapshotFails
    BY <1>2, <1>a, PartTypes
       DEF SnapshotFails, Fault, ReturnError, Goto, TypeInv, TypeOK, MapsTypeOK,
           mapVars, Pcs, ScopePcs
  <1>3. CASE SnapshotMaps
    <2>0. masked' \in BOOLEAN
      BY <1>3, Zenon DEF SnapshotMaps, TypeInv, TypeOK
    <2>1. snap' \in Snapshots
      <3>1. \A kind \in Kinds : \A seen : SeenOfIndex(kind, seen) \in [Kinds -> [Gens -> Slices]]
        BY PartialReads DEF Indexes
      <3>2. \A m \in ScopeMaps : \A seen : SeenOfScope(m, seen) \in [ScopeMaps -> ScopeTables]
        BY PartialReads DEF Scopes
      <3>3. PICK have \in BOOLEAN, rules \in {slots, None},
                 index \in [Kinds -> [Gens -> Slices]],
                 selectors \in [ScopeMaps -> ScopeTables] :
                     TakeSnapshot(have, rules, index, selectors)
        <4> HIDE DEF Kinds, ScopeMaps
        <4>1. idx \in [Kinds -> [Gens -> Slices]] /\ scope \in [ScopeMaps -> ScopeTables]
          BY MapTypes DEF Indexes, Scopes
        <4> QED
          BY <1>3, <3>1, <3>2, <4>1, Zenon DEF SnapshotMaps
      <3>4. (IF have THEN config ELSE ZeroConfig) \in [gen : Gens, settings : Settings]
        BY ZeroTypes, PartTypes
      <3> QED
        BY <3>3, <3>4 DEF TakeSnapshot, Snapshots, TypeInv, TypeOK, MapsTypeOK
    <2>2. next' \in Gens
      BY <1>3, <2>1, NextGenDiffers DEF SnapshotMaps, Snapshots
    <2>3. faults' \in 0 .. MaxFaults
      <3>1. faults' = faults \/ Fault("get") \/ Fault("next_key")
        BY <1>3, Zenon DEF SnapshotMaps
      <3> QED
        BY <3>1, <1>a DEF Fault, TypeInv, TypeOK
    <2>4. /\ pc' \in Pcs \ ScopePcs /\ at' \in Kinds
          /\ result' \in [status : {"none", "ok", "failed"}, gen : Gens, epoch : Epochs]
          /\ target \in Policies
      BY <1>3, PartTypes
         DEF SnapshotMaps, ReturnError, Goto, TypeInv, TypeOK, Pcs, ForwardPcs,
             ScopePcs
    <2> QED
      BY <1>3, <2>0, <2>1, <2>2, <2>3, <2>4
         DEF SnapshotMaps, TypeInv, TypeOK, MapsTypeOK, mapVars
  <1>4. CASE ClearNext \/ ClearOld \/ Unstage
    <2>1. upto \in Kinds /\ 4 \in Kinds /\ next \in Gens /\ snap.config.gen \in Gens
      BY PartTypes DEF TypeInv, TypeOK, Kinds
    <2>2. {"clear_next", "clear_old", "unstage", "write", "finish", "r_rules"}
              \subseteq Pcs \ ({"idle"} \cup ScopePcs)
      BY DEF Pcs, ForwardPcs, RestorePcs, ScopePcs
    <2>3. CASE ClearNext
      BY <2>1, <2>2, <2>3, ClearGenerationTyped DEF ClearNext
    <2>4. CASE ClearOld
      BY <2>1, <2>2, <2>4, ClearGenerationTyped DEF ClearOld
    <2>5. CASE Unstage
      BY <2>1, <2>2, <2>5, ClearGenerationTyped DEF Unstage
    <2> QED
      BY <1>4, <2>3, <2>4, <2>5
  <1>5. CASE WriteIndex
    <2>1. idx' \in Indexes
      <3>1. target.index \in [Kinds -> Slices]
        BY <1>5, PolicyParts DEF WriteIndex, TypeInv
      <3>2. ASSUME NEW k \in Unwritten PROVE target.index[at][k] \in Rules \cup {None}
        BY <3>1, MapTypes DEF Slices, Unwritten
      <3> QED
        BY <1>5, <3>2, MapTypes, SetEntryType DEF WriteIndex, Unwritten
    <2> QED
      BY <1>5, <1>a, <2>1
         DEF WriteIndex, InsertFails, Fault, RollBack, Goto, TypeInv, TypeOK,
             MapsTypeOK, Indexes, Pcs, ForwardPcs, ScopePcs
  <1>6. CASE WriteRules
    BY <1>6, <1>a
       DEF WriteRules, Fault, RollBack, Goto, TypeInv, TypeOK, MapsTypeOK, Pcs,
           ForwardPcs, ScopePcs
  <1>7. CASE ClearScope \/ RestoreScopeClear
    <2>1. at \in ScopeMaps
      BY <1>7 DEF ClearScope, RestoreScopeClear, TypeInv, ScopePcs
    <2>2. scope' \in Scopes
      BY <1>7, <2>1, MapTypes, SetScopeType DEF ClearScope, RestoreScopeClear
    <2> QED
      BY <1>7, <2>1, <2>2
         DEF ClearScope, RestoreScopeClear, Goto, TypeInv, TypeOK, MapsTypeOK,
             Scopes, Pcs, ForwardPcs, RestorePcs, ScopePcs
  <1>8. CASE WriteScope
    <2>1. at \in ScopeMaps /\ ScopeOf(target) \in Scopes
      BY <1>8, PolicyParts DEF WriteScope, TypeInv, ScopePcs
    <2>2. ASSUME NEW i \in Ids PROVE ScopeOf(target)[at][i] \in Owners \cup {None}
      BY <2>1 DEF Scopes, ScopeTables
    <2>3. scope' \in Scopes
      BY <1>8, <2>1, <2>2, MapTypes, SetScopeType DEF WriteScope
    <2> QED
      BY <1>8, <1>a, <2>1, <2>3
         DEF WriteScope, Fault, RollBack, Goto, TypeInv, TypeOK, MapsTypeOK,
             Scopes, Pcs, ForwardPcs, ScopePcs
  <1>9. CASE WriteConfig
    <2>1. NewConfig \in [gen : Gens, settings : Settings] /\ target \in Policies
      BY <1>9, PolicyParts DEF WriteConfig, NewConfig, TypeInv, TypeOK
    <2>2. config' \in [gen : Gens, settings : Settings]
      BY <1>9, <2>1, HalfWrittenType, PartTypes DEF WriteConfig
    <2> QED
      BY <1>9, <1>a, <2>1, <2>2
         DEF WriteConfig, Fault, RollBack, Goto, TypeInv, TypeOK, MapsTypeOK,
             Pcs, ForwardPcs, ScopePcs, Lives
  <1>10. CASE WriteConfigRest
    <2>1. NewConfig \in [gen : Gens, settings : Settings] /\ target \in Policies
      BY <1>10, PolicyParts DEF WriteConfigRest, NewConfig, TypeInv, TypeOK
    <2> QED
      BY <1>10, <2>1
         DEF WriteConfigRest, Goto, TypeInv, TypeOK, MapsTypeOK, Pcs,
             ForwardPcs, ScopePcs, Lives
  <1>11. CASE BumpEpoch
    <2>0. masked' \in BOOLEAN
      BY <1>11, Zenon DEF BumpEpoch, TypeInv, TypeOK
    <2>1. epoch' \in Epochs
      BY <1>11, ZeroInRange, NextEpochNonZero DEF BumpEpoch, TypeInv, TypeOK, MapsTypeOK
    <2> QED
      BY <1>11, <1>a, <2>0, <2>1
         DEF BumpEpoch, Fault, Goto, TypeInv, TypeOK, MapsTypeOK, Pcs,
             ForwardPcs, RestorePcs, ScopePcs
  <1>12. CASE Finish
    BY <1>12
       DEF Finish, Goto, TypeInv, TypeOK, MapsTypeOK, mapVars, Pcs, ScopePcs
  <1>13. CASE RestoreRules
    <2>0. masked' \in BOOLEAN
      BY <1>13, Zenon DEF RestoreRules, TypeInv, TypeOK
    <2> QED
      BY <1>13, <1>a, <2>0, PartTypes
         DEF RestoreRules, Fault, Goto, TypeInv, TypeOK, MapsTypeOK, Pcs,
             RestorePcs, ScopePcs
  <1>14. CASE RestoreClear
    <2>1. idx' \in Indexes
      BY <1>14, MapTypes, SetEntryType DEF RestoreClear, IndexEntries
    <2> QED
      BY <1>14, <2>1
         DEF RestoreClear, TypeInv, TypeOK, MapsTypeOK, Indexes, Pcs,
             RestorePcs, ScopePcs
  <1>15. CASE RestoreIndex
    <2>0. masked' \in BOOLEAN
      BY <1>15, Zenon DEF RestoreIndex, TypeInv, TypeOK
    <2>1. idx' \in Indexes
      <3>1. ASSUME NEW e \in Gens \X Keys
            PROVE  snap.idx[at][e[1]][e[2]] \in Rules \cup {None}
        BY MapTypes DEF Indexes, Slices
      <3>2. \/ idx' = idx
            \/ \E e \in Gens \X Keys :
                   idx' = SetEntry(at, e[1], e[2], snap.idx[at][e[1]][e[2]])
        BY <1>15, Zenon DEF RestoreIndex
      <3>3. ASSUME NEW e \in Gens \X Keys,
                   idx' = SetEntry(at, e[1], e[2], snap.idx[at][e[1]][e[2]])
            PROVE  idx' \in Indexes
        BY <3>1, <3>3, MapTypes, SetEntryType
      <3> QED
        BY <3>2, <3>3, MapTypes
    <2>2. faults' \in 0 .. MaxFaults
      <3>1. faults' = faults \/ Fault("index")
        BY <1>15, Zenon DEF RestoreIndex, InsertFails
      <3> QED
        BY <3>1, <1>a DEF Fault, TypeInv, TypeOK
    <2>3. /\ pc' \in Pcs /\ at' \in Kinds /\ target \in Policies
          /\ pc' \in ScopePcs => at' \in ScopeMaps
      <3>1. pc = "r_write" /\ (UNCHANGED <<pc, at>> \/ AfterIndex)
        BY <1>15, Zenon DEF RestoreIndex
      <3> QED
        BY <3>1
           DEF AfterIndex, Goto, TypeInv, TypeOK, Pcs, RestorePcs, ScopePcs
    <2> QED
      BY <1>15, <2>0, <2>1, <2>2, <2>3
         DEF RestoreIndex, TypeInv, TypeOK, MapsTypeOK, Indexes
  <1>16. CASE RestoreScope
    <2>0. masked' \in BOOLEAN
      BY <1>16, Zenon DEF RestoreScope, TypeInv, TypeOK
    <2>1. at \in ScopeMaps
      BY <1>16 DEF RestoreScope, TypeInv, ScopePcs
    <2>2. ASSUME NEW i \in Ids PROVE snap.scope[at][i] \in Owners \cup {None}
      BY <2>1, MapTypes DEF Scopes, ScopeTables
    <2>3. scope' \in Scopes
      BY <1>16, <2>1, <2>2, MapTypes, SetScopeType DEF RestoreScope
    <2> QED
      BY <1>16, <1>a, <2>0, <2>1, <2>3
         DEF RestoreScope, Fault, Goto, TypeInv, TypeOK, MapsTypeOK, Scopes,
             Pcs, RestorePcs, ScopePcs
  <1>17. CASE RestoreConfig
    <2>0. masked' \in BOOLEAN
      BY <1>17, Zenon DEF RestoreConfig, TypeInv, TypeOK
    <2>1. config' \in [gen : Gens, settings : Settings]
      BY <1>17, PartTypes, HalfWrittenType DEF RestoreConfig
    <2> QED
      BY <1>17, <1>a, <2>0, <2>1, PartTypes
         DEF RestoreConfig, ReturnError, Fault, Goto, TypeInv, TypeOK,
             MapsTypeOK, Pcs, RestorePcs, ScopePcs
  <1>18. CASE RestoreConfigRest
    BY <1>18, PartTypes
       DEF RestoreConfigRest, ReturnError, Goto, TypeInv, TypeOK, MapsTypeOK,
           Pcs, ScopePcs
  <1>19. CASE DeleteFails
    BY <1>19, <1>a
       DEF DeleteFails, Fault, TypeInv, TypeOK, MapsTypeOK, mapVars
  <1>20. CASE IterationFails
    <2>1. faults' \in 0 .. MaxFaults
      BY <1>20, <1>a DEF IterationFails, Fault, TypeInv, TypeOK
    <2>2. /\ pc' \in Pcs \ {"idle"} /\ at' \in Kinds /\ target \in Policies
          /\ pc' \in ScopePcs => at' \in ScopeMaps
      BY <1>20
         DEF IterationFails, LoopEnds, NextMap, Goto, TypeInv, TypeOK, Pcs, ForwardPcs,
             RestorePcs, ScopePcs
    <2> QED
      BY <1>20, <2>1, <2>2 DEF IterationFails, TypeInv, TypeOK, MapsTypeOK, mapVars
  <1> QED
    BY <1>1, <1>2, <1>3, <1>4, <1>5, <1>6, <1>7, <1>8, <1>9, <1>10, <1>11,
       <1>12, <1>13, <1>14, <1>15, <1>16, <1>17, <1>18, <1>19, <1>20
       DEF Next, LoadStep

(* THEOREM: the maps and the loader's variables keep their types.  In      *)
(* particular the 32-bit generation and the 64-bit epoch stay in range     *)
(* through their wrap around zero (next_generation, bump_epoch), and the   *)
(* loops never leave the four indexes and three scope maps.                *)
THEOREM TypeCorrect == Spec => []TypeOK
  <1>1. Init => TypeInv
    BY InitTyped
  <1>2. TypeInv /\ [Next]_vars => TypeInv'
    <2> SUFFICES ASSUME TypeInv, [Next]_vars PROVE TypeInv'
      OBVIOUS
    <2>1. CASE Next
      BY <2>1, NextTyped
    <2>2. CASE UNCHANGED vars
      BY <2>2 DEF vars, mapVars, loadVars, TypeInv, TypeOK, MapsTypeOK
    <2> QED
      BY <2>1, <2>2
  <1>3. TypeInv => TypeOK
    BY DEF TypeInv
  <1> QED
    BY <1>1, <1>2, <1>3, PTL DEF Spec

-----------------------------------------------------------------------------
(* The inductive invariant. *)

(* ConfigInv, SliceInv and SelectorInv: what holds while no error has been *)
(* discarded.                                                              *)
Phase == ConfigInv /\ SliceInv /\ SelectorInv

(* A discarded error stays on record. *)
LEMMA MaskedStays ==
    ASSUME TypeInv, Next, ~masked'
    PROVE  ~masked
  <1>1. masked' = masked \/ masked' = TRUE
    BY DEF Next, LoadStep, Begin, SnapshotFails, SnapshotMaps, ClearNext, ClearOld,
           Unstage, ClearGeneration, WriteIndex, WriteRules, ClearScope,
           WriteScope, WriteConfig, WriteConfigRest, BumpEpoch, Finish,
           RestoreRules, RestoreClear, RestoreIndex, RestoreScopeClear,
           RestoreScope, RestoreConfig, RestoreConfigRest, DeleteFails,
           IterationFails
  <1> QED
    BY <1>1, Zenon

(* The generation that is staged is not the one that was active. *)
LEMMA StagedElsewhere ==
    ASSUME TypeInv, ConfigInv, pc \notin {"idle", "snapshot"}
    PROVE  next # snap.config.gen
  BY MapTypes, NextGenDiffers DEF ConfigInv

(* A deletion loop touches one generation only. *)
LEMMA ClearGenerationFrame ==
    ASSUME TypeInv, NEW label, NEW gen \in Gens, NEW last, NEW after,
           ClearGeneration(label, gen, last, after)
    PROVE  \A kind \in Kinds, g \in Gens :
               g # gen => idx'[kind][g] = idx[kind][g]
  <1>1. CASE idx' = idx
    BY <1>1
  <1>2. CASE \E k \in Entries(idx[at][gen]) : idx' = SetEntry(at, gen, k, None)
    BY <1>2, MapTypes, SetEntryFrame DEF Entries
  <1> QED
    BY <1>1, <1>2 DEF ClearGeneration

(* Slices are equal when their entries are. *)
LEMMA SliceEqual ==
    ASSUME NEW a \in Slices, NEW b \in Slices, \A k \in Keys : a[k] = b[k]
    PROVE  a = b
  BY DEF Slices

(* So are the contents of one scope map. *)
LEMMA ScopeEqual ==
    ASSUME NEW a \in ScopeTables, NEW b \in ScopeTables, \A i \in Ids : a[i] = b[i]
    PROVE  a = b
  BY DEF ScopeTables

(* Beginning a load, and the two ways its snapshot ends it. *)
LEMMA BeginPhase ==
    ASSUME TypeInv, Phase, RollbackRestores, NEW files, Begin(files)
    PROVE  Phase' /\ RollbackRestores'
  <1>0. NoSnap.have = FALSE
    BY DEF NoSnap
  <1>1. ConfigInv'
    BY <1>0 DEF Phase, ConfigInv, Begin, ReturnError, Goto, mapVars, TypeInv, TypeOK,
           StagingPcs, RestorePcs
  <1>2. SliceInv'
    BY DEF Phase, SliceInv, Begin, ReturnError, Goto, mapVars, StagedPcs
  <1>3. SelectorInv'
    BY DEF Phase, SelectorInv, Begin, ReturnError, Goto, mapVars
  <1>4. RollbackRestores'
    BY <1>0 DEF RollbackRestores, Begin, ReturnError, Goto
  <1> QED
    BY <1>1, <1>2, <1>3, <1>4 DEF Phase

LEMMA SnapshotFailsPhase ==
    ASSUME TypeInv, Phase, RollbackRestores, SnapshotFails
    PROVE  Phase' /\ RollbackRestores'
  <1>1. ConfigInv'
    BY DEF Phase, ConfigInv, SnapshotFails, ReturnError, Goto, mapVars, TypeInv, TypeOK,
           StagingPcs, RestorePcs
  <1>2. SliceInv'
    BY DEF Phase, SliceInv, SnapshotFails, ReturnError, Goto, mapVars, StagedPcs
  <1>3. SelectorInv'
    BY DEF Phase, SelectorInv, SnapshotFails, ReturnError, Goto, mapVars
  <1>4. RollbackRestores'
    BY DEF RollbackRestores, Phase, ConfigInv, SnapshotFails, ReturnError, Goto
  <1> QED
    BY <1>1, <1>2, <1>3, <1>4 DEF Phase

LEMMA SnapshotMapsPhase ==
    ASSUME TypeInv, Phase, RollbackRestores, SnapshotMaps, ~masked'
    PROVE  Phase' /\ RollbackRestores'
  <1>1. TakeSnapshot(TRUE, slots, idx, scope)
    BY Zenon DEF SnapshotMaps
  <1>2. /\ snap'.have /\ snap'.config = config /\ snap'.idx = idx
        /\ snap'.scope = scope /\ snap'.slots = slots
        /\ snap'.epoch = epoch /\ snap'.live = live
    BY <1>1 DEF TakeSnapshot
  <1>3. UNCHANGED <<config, idx, scope, slots, epoch, lost, live>>
    BY DEF SnapshotMaps, mapVars
  <1>4. /\ pc = "snapshot" /\ pc' \in {"idle", "clear_next"}
        /\ result'.gen = result.gen /\ result'.epoch = result.epoch
        /\ next' = NextGen(snap'.config.gen)
    BY DEF SnapshotMaps, Goto, ReturnError, TypeInv, TypeOK
  <1>5. ConfigInv'
    BY <1>2, <1>3, <1>4 DEF Phase, ConfigInv, StagingPcs, RestorePcs
  <1>6. SliceInv'
    BY <1>2, <1>3, <1>4 DEF Phase, SliceInv, StagedPcs
  <1>7. SelectorInv'
    BY <1>2, <1>3, <1>4 DEF Phase, SelectorInv
  <1>8. RollbackRestores'
    BY <1>2, <1>3 DEF RollbackRestores
  <1> QED
    BY <1>5, <1>6, <1>7, <1>8 DEF Phase

(* Staging: nothing but the next generation is touched. *)
LEMMA ClearNextPhase ==
    ASSUME TypeInv, Phase, ClearNext
    PROVE  Phase' /\ RollbackRestores'
  <1>0. pc = "clear_next" /\ pc' \in {"clear_next", "write"}
        /\ (pc' = "write" => at' = 1)
    BY DEF ClearNext, ClearGeneration, Goto
  <1>1. ConfigInv'
    BY <1>0 DEF Phase, ConfigInv, ClearNext, ClearGeneration, NewConfig, StagingPcs,
                RestorePcs
  <1>2. SliceInv'
    <2>1. \A kind \in Kinds : idx'[kind][snap.config.gen] = idx[kind][snap.config.gen]
      BY <1>0, MapTypes, StagedElsewhere, ClearGenerationFrame DEF Phase, ClearNext
    <2>2. \A kind \in Kinds : ~(kind < 1)
      BY DEF Kinds
    <2> QED
      BY <1>0, <2>1, <2>2
         DEF Phase, SliceInv, ClearNext, ClearGeneration, StagedPcs
  <1>3. SelectorInv'
    BY <1>0 DEF Phase, SelectorInv, ClearNext, ClearGeneration
  <1> QED
    BY <1>0, <1>1, <1>2, <1>3 DEF Phase, RollbackRestores

LEMMA WriteIndexPhase ==
    ASSUME TypeInv, Phase, WriteIndex
    PROVE  Phase' /\ RollbackRestores'
  <1>0. pc = "write" /\ pc' \in {"write", "rules", "unstage"}
    BY DEF WriteIndex, RollBack, Goto
  <1>a. UNCHANGED <<config, scope, slots, epoch, target, next, snap, lost, result,
                    live, masked>>
    BY DEF WriteIndex
  <1>b. target.index \in [Kinds -> Slices]
    BY <1>0, PolicyParts DEF TypeInv
  <1>1. ConfigInv'
    BY <1>0, <1>a DEF Phase, ConfigInv, NewConfig, StagingPcs, RestorePcs
  <1>2. SliceInv'
    <2>1. CASE idx' # idx
      <3>1. PICK k \in Unwritten : idx' = SetEntry(at, next, k, target.index[at][k])
        BY <2>1 DEF WriteIndex
      <3>2. k \in Keys /\ target.index[at][k] \in Rules \cup {None}
        BY <1>b, MapTypes DEF Unwritten, Slices
      <3>3. \A j \in Kinds, g \in Gens :
                (j # at \/ g # next) => idx'[j][g] = idx[j][g]
        BY <3>1, <3>2, MapTypes, SetEntryFrame
      <3>4. \A kind \in Kinds : idx'[kind][snap.config.gen] = idx[kind][snap.config.gen]
        BY <1>0, <3>3, MapTypes, StagedElsewhere DEF Phase
      <3>5. \A kind \in Kinds : kind < at => idx'[kind][next] = idx[kind][next]
        BY <3>3, MapTypes DEF Kinds
      <3>6. pc' = "write" /\ at' = at
        BY <2>1 DEF WriteIndex
      <3> QED
        BY <1>0, <1>a, <3>4, <3>5, <3>6 DEF Phase, SliceInv, StagedPcs
    <2>2. CASE idx' = idx
      <3>1. CASE Unwritten = {} /\ pc' # "unstage"
        <4>1. idx[at][next] = target.index[at]
          <5>1. idx[at][next] \in Slices /\ target.index[at] \in Slices
            BY <1>b, MapTypes DEF Indexes
          <5>2. \A k \in Keys : idx[at][next][k] = target.index[at][k]
            BY <3>1 DEF Unwritten
          <5> QED
            BY <5>1, <5>2, SliceEqual
        <4>2. \A kind \in Kinds : kind <= at => idx[kind][next] = target.index[kind]
          BY <1>0, <4>1, MapTypes DEF Phase, SliceInv, Kinds
        <4>3. \/ pc' = "write" /\ at' \in {at, at + 1}
              \/ pc' = "rules" /\ at = 4
          BY <3>1, MapTypes DEF WriteIndex, Goto, RollBack, Kinds
        <4>4. pc' = "write" =>
                 \A kind \in Kinds : kind < at' => idx[kind][next] = target.index[kind]
          BY <4>2, <4>3, MapTypes DEF Kinds
        <4>5. pc' = "rules" => \A kind \in Kinds : idx[kind][next] = target.index[kind]
          BY <4>2, <4>3, MapTypes DEF Kinds
        <4> QED
          BY <1>0, <1>a, <2>2, <3>1, <4>4, <4>5 DEF Phase, SliceInv, StagedPcs
      <3>2. CASE pc' = "unstage"
        BY <1>0, <1>a, <2>2, <3>2 DEF Phase, SliceInv, StagedPcs
      <3>3. CASE Unwritten # {} /\ pc' # "unstage"
        BY <1>0, <1>a, <2>2, <3>3 DEF Phase, SliceInv, StagedPcs, WriteIndex, RollBack, Goto
      <3> QED
        BY <3>1, <3>2, <3>3
    <2> QED
      BY <2>1, <2>2
  <1>3. SelectorInv'
    BY <1>0, <1>a DEF Phase, SelectorInv
  <1> QED
    BY <1>0, <1>1, <1>2, <1>3 DEF Phase, RollbackRestores

LEMMA WriteRulesPhase ==
    ASSUME TypeInv, Phase, WriteRules
    PROVE  Phase' /\ RollbackRestores'
  <1>0. pc = "rules" /\ pc' \in {"scope_clear", "unstage"}
    BY DEF WriteRules, RollBack, Goto
  <1>1. ConfigInv'
    BY <1>0 DEF Phase, ConfigInv, WriteRules, NewConfig, StagingPcs, RestorePcs
  <1>2. SliceInv'
    BY <1>0 DEF Phase, SliceInv, WriteRules, StagedPcs
  <1>3. SelectorInv'
    BY <1>0 DEF Phase, SelectorInv, WriteRules
  <1> QED
    BY <1>0, <1>1, <1>2, <1>3 DEF Phase, RollbackRestores

LEMMA ClearScopePhase ==
    ASSUME TypeInv, Phase, ClearScope
    PROVE  Phase' /\ RollbackRestores'
  <1>0. /\ pc = "scope_clear" /\ pc' \in {"scope_clear", "scope_write"}
        /\ pc' = "scope_write" => at' = 1
    BY DEF ClearScope, Goto
  <1>1. ConfigInv'
    BY <1>0 DEF Phase, ConfigInv, ClearScope, NewConfig, StagingPcs, RestorePcs
  <1>2. SliceInv'
    BY <1>0 DEF Phase, SliceInv, ClearScope, StagedPcs
  <1>3. SelectorInv'
    BY <1>0 DEF Phase, SelectorInv, ClearScope, ScopeMaps
  <1> QED
    BY <1>0, <1>1, <1>2, <1>3 DEF Phase, RollbackRestores

LEMMA WriteScopePhase ==
    ASSUME TypeInv, Phase, WriteScope
    PROVE  Phase' /\ RollbackRestores'
  <1>0. pc = "scope_write" /\ pc' \in {"scope_write", "config", "unstage"}
    BY DEF WriteScope, RollBack, Goto
  <1>a. UNCHANGED <<config, idx, slots, epoch, target, next, snap, lost, result, live>>
    BY DEF WriteScope
  <1>b. at \in ScopeMaps /\ ScopeOf(target) \in Scopes
    BY <1>0, PolicyParts DEF TypeInv, ScopePcs
  <1>1. ConfigInv'
    BY <1>0, <1>a DEF Phase, ConfigInv, NewConfig, StagingPcs, RestorePcs
  <1>2. SliceInv'
    BY <1>0, <1>a DEF Phase, SliceInv, StagedPcs
  <1>3. SelectorInv'
    <2>0. ScopeOf(target)' = ScopeOf(target)
      BY <1>a DEF ScopeOf
    <2>1. CASE pc' = "scope_write" /\ at' = at
      <3>1. \A m \in ScopeMaps : m < at => scope'[m] = scope[m]
        <4>1. ASSUME NEW i \in Ids PROVE ScopeOf(target)[at][i] \in Owners \cup {None}
          BY <1>b DEF Scopes, ScopeTables
        <4> QED
          BY <1>b, <4>1, MapTypes, SetScopeType DEF WriteScope, ScopeMaps
      <3> QED
        BY <1>0, <1>a, <2>0, <2>1, <3>1 DEF Phase, SelectorInv
    <2>2. CASE pc' = "unstage"
      BY <1>0, <1>a, <2>2 DEF Phase, SelectorInv
    <2>3. CASE ~(pc' = "scope_write" /\ at' = at) /\ pc' # "unstage"
      <3>1. /\ {i \in Ids : scope[at][i] # ScopeOf(target)[at][i]} = {}
            /\ UNCHANGED scope
            /\ \/ at < 3 /\ pc' = "scope_write" /\ at' = at + 1
               \/ ~(at < 3) /\ pc' = "config"
        BY <1>0, <2>3 DEF WriteScope, Goto, RollBack
      <3>2. scope[at] = ScopeOf(target)[at]
        <4>1. scope[at] \in ScopeTables /\ ScopeOf(target)[at] \in ScopeTables
          BY <1>b, MapTypes DEF Scopes
        <4> QED
          BY <3>1, <4>1, ScopeEqual
      <3>3. \A m \in ScopeMaps : m <= at => scope[m] = ScopeOf(target)[m]
        BY <1>0, <1>b, <3>2 DEF Phase, SelectorInv, ScopeMaps
      <3>4. CASE pc' = "scope_write"
        <4>1. \A m \in ScopeMaps : m < at' => scope[m] = ScopeOf(target)[m]
          BY <1>b, <3>1, <3>3, <3>4 DEF ScopeMaps
        <4> QED
          BY <1>0, <1>a, <2>0, <3>1, <3>4, <4>1 DEF Phase, SelectorInv
      <3>5. CASE pc' = "config"
        <4>1. \A m \in ScopeMaps : scope[m] = ScopeOf(target)[m]
          BY <1>b, <3>1, <3>3, <3>5 DEF ScopeMaps
        <4>2. scope = ScopeOf(target)
          BY <1>b, <4>1, MapTypes DEF Scopes
        <4> QED
          BY <1>0, <1>a, <2>0, <3>1, <3>5, <4>2 DEF Phase, SelectorInv
      <3> QED
        BY <3>1, <3>4, <3>5
    <2> QED
      BY <2>1, <2>2, <2>3
  <1> QED
    BY <1>0, <1>1, <1>2, <1>3 DEF Phase, RollbackRestores

(* The switch. *)
LEMMA WriteConfigPhase ==
    ASSUME TypeInv, Phase, WriteConfig
    PROVE  Phase' /\ RollbackRestores'
  <1>0. pc = "config" /\ pc' \in {"config_rest", "unstage"}
    BY DEF WriteConfig, RollBack, Goto
  <1>a. UNCHANGED <<idx, scope, slots, epoch, target, next, snap, lost, result>>
    BY DEF WriteConfig
  <1>1. ConfigInv'
    <2>1. CASE pc' = "config_rest"
      <3>1. NewConfig \in [gen : Gens, settings : Settings] /\ NewConfig.gen = next
        BY <1>0, PolicyParts DEF NewConfig, TypeInv, TypeOK
      <3>2. config'.gen = next \/ config'.gen = config.gen
        BY <2>1, <3>1, HalfWrittenType DEF WriteConfig, RollBack, Goto
      <3>3. live' = IF config'.gen = next THEN target ELSE live
        BY <2>1 DEF WriteConfig, RollBack, Goto
      <3>4. \/ config'.gen = snap.config.gen /\ live' = snap.live
            \/ config'.gen = next /\ live' = target
        BY <1>0, <3>2, <3>3 DEF Phase, ConfigInv, StagingPcs
      <3> QED
        BY <1>0, <1>a, <2>1, <3>4 DEF Phase, ConfigInv, NewConfig, StagingPcs, RestorePcs
    <2>2. CASE pc' = "unstage"
      BY <1>0, <1>a, <2>2
         DEF WriteConfig, Goto, Phase, ConfigInv, NewConfig, StagingPcs, RestorePcs
    <2> QED
      BY <1>0, <2>1, <2>2
  <1>2. SliceInv'
    BY <1>0, <1>a DEF Phase, SliceInv, StagedPcs
  <1>3. SelectorInv'
    BY <1>0, <1>a DEF Phase, SelectorInv, ScopeOf
  <1> QED
    BY <1>0, <1>1, <1>2, <1>3 DEF Phase, RollbackRestores

LEMMA WriteConfigRestPhase ==
    ASSUME TypeInv, Phase, WriteConfigRest
    PROVE  Phase' /\ RollbackRestores'
  <1>0. pc = "config_rest" /\ pc' = "bump"
    BY DEF WriteConfigRest, Goto
  <1>1. ConfigInv'
    BY <1>0 DEF Phase, ConfigInv, WriteConfigRest, NewConfig, StagingPcs, RestorePcs
  <1>2. SliceInv'
    BY <1>0 DEF Phase, SliceInv, WriteConfigRest, StagedPcs
  <1>3. SelectorInv'
    BY <1>0 DEF Phase, SelectorInv, WriteConfigRest, ScopeOf
  <1> QED
    BY <1>0, <1>1, <1>2, <1>3 DEF Phase, RollbackRestores

LEMMA BumpEpochPhase ==
    ASSUME TypeInv, Phase, BumpEpoch
    PROVE  Phase' /\ RollbackRestores'
  <1>0. pc = "bump" /\ pc' \in {"clear_old", "finish", "r_rules"}
    BY DEF BumpEpoch, Goto
  <1>a. /\ UNCHANGED <<config, idx, scope, slots, target, next, snap, lost, result, live>>
        /\ pc' = "r_rules" => epoch' = epoch
    BY DEF BumpEpoch, Goto
  <1>1. ConfigInv'
    <2>1. config.gen = next
      BY <1>0 DEF Phase, ConfigInv, NewConfig
    <2> QED
      BY <1>0, <1>a, <2>1 DEF Phase, ConfigInv, NewConfig, StagingPcs, RestorePcs
  <1>2. SliceInv'
    BY <1>0, <1>a DEF Phase, SliceInv, StagedPcs
  <1>3. SelectorInv'
    BY <1>0, <1>a DEF Phase, SelectorInv
  <1> QED
    BY <1>0, <1>1, <1>2, <1>3 DEF Phase, RollbackRestores

LEMMA ClearOldPhase ==
    ASSUME TypeInv, Phase, ClearOld
    PROVE  Phase' /\ RollbackRestores'
  <1>0. pc = "clear_old" /\ pc' \in {"clear_old", "finish"}
    BY DEF ClearOld, ClearGeneration, Goto
  <1>1. ConfigInv'
    BY <1>0 DEF Phase, ConfigInv, ClearOld, ClearGeneration, NewConfig, StagingPcs,
                RestorePcs
  <1>2. SliceInv'
    <2>1. \A kind \in Kinds : idx'[kind][next] = idx[kind][next]
      BY <1>0, MapTypes, StagedElsewhere, ClearGenerationFrame DEF Phase, ClearOld
    <2> QED
      BY <1>0, <2>1 DEF Phase, SliceInv, ClearOld, ClearGeneration, StagedPcs
  <1>3. SelectorInv'
    BY <1>0 DEF Phase, SelectorInv, ClearOld, ClearGeneration
  <1> QED
    BY <1>0, <1>1, <1>2, <1>3 DEF Phase, RollbackRestores

LEMMA FinishPhase ==
    ASSUME TypeInv, Phase, Finish
    PROVE  Phase' /\ RollbackRestores'
  <1>0. /\ pc = "finish" /\ pc' = "idle"
        /\ result'.status = "ok" /\ result'.gen = next /\ result'.epoch = epoch
    BY DEF Finish, Goto
  <1>1. ConfigInv'
    BY <1>0 DEF Phase, ConfigInv, Finish, mapVars, NewConfig, StagingPcs, RestorePcs
  <1>2. SliceInv'
    <2>1. config.gen = next /\ live = target
      BY <1>0 DEF Phase, ConfigInv, NewConfig
    <2> QED
      BY <1>0, <2>1 DEF Phase, SliceInv, Finish, mapVars, StagedPcs
  <1>3. SelectorInv'
    BY <1>0 DEF Phase, SelectorInv, Finish, mapVars
  <1> QED
    BY <1>0, <1>1, <1>2, <1>3 DEF Phase, RollbackRestores

(* The rollback. *)
LEMMA UnstagePhase ==
    ASSUME TypeInv, Phase, Unstage
    PROVE  Phase' /\ RollbackRestores'
  <1>0. pc = "unstage" /\ pc' \in {"unstage", "r_rules"}
    BY DEF Unstage, ClearGeneration, Goto
  <1>1. ConfigInv'
    BY <1>0 DEF Phase, ConfigInv, Unstage, ClearGeneration, NewConfig, StagingPcs,
                RestorePcs
  <1>2. SliceInv'
    <2>1. \A kind \in Kinds : idx'[kind][snap.config.gen] = idx[kind][snap.config.gen]
      BY <1>0, MapTypes, StagedElsewhere, ClearGenerationFrame DEF Phase, Unstage
    <2> QED
      BY <1>0, <2>1 DEF Phase, SliceInv, Unstage, ClearGeneration, StagedPcs
  <1>3. SelectorInv'
    BY <1>0 DEF Phase, SelectorInv, Unstage, ClearGeneration
  <1> QED
    BY <1>0, <1>1, <1>2, <1>3 DEF Phase, RollbackRestores

LEMMA RestoreRulesPhase ==
    ASSUME TypeInv, Phase, RestoreRules, ~masked'
    PROVE  Phase' /\ RollbackRestores'
  <1>0. pc = "r_rules" /\ pc' = "r_clear" /\ slots' = snap.slots
    BY Zenon DEF RestoreRules, Goto
  <1>a. UNCHANGED <<config, idx, scope, epoch, target, next, snap, lost, result, live>>
        /\ at' = 1
    BY DEF RestoreRules, Goto
  <1>1. ConfigInv'
    BY <1>0, <1>a DEF Phase, ConfigInv, NewConfig, StagingPcs, RestorePcs
  <1>2. SliceInv'
    <2>1. \A kind \in Kinds :
              /\ snap.idx[kind][snap.config.gen] = snap.live.index[kind]
              /\ idx[kind][snap.config.gen] = snap.live.index[kind]
      BY <1>0 DEF Phase, SliceInv
    <2>2. 1 \in Kinds
      BY DEF Kinds
    <2> QED
      BY <1>0, <1>a, <2>1, <2>2 DEF SliceInv, StagedPcs
  <1>3. SelectorInv'
    BY <1>0, <1>a DEF Phase, SelectorInv
  <1> QED
    BY <1>0, <1>1, <1>2, <1>3 DEF Phase, RollbackRestores

LEMMA RestoreClearPhase ==
    ASSUME TypeInv, Phase, RestoreClear
    PROVE  Phase' /\ RollbackRestores'
  <1>0. pc = "r_clear" /\ pc' \in {"r_clear", "r_write"}
    BY DEF RestoreClear
  <1>a. UNCHANGED <<config, scope, slots, epoch, at, target, next, snap, lost, result, live>>
    BY DEF RestoreClear
  <1>1. ConfigInv'
    BY <1>0, <1>a DEF Phase, ConfigInv, NewConfig, StagingPcs, RestorePcs
  <1>2. SliceInv'
    <2>1. CASE idx' = idx
      BY <1>0, <1>a, <2>1 DEF Phase, SliceInv, StagedPcs
    <2>2. CASE idx' # idx
      <3>1. PICK e \in IndexEntries(at) : idx' = SetEntry(at, e[1], e[2], None)
        BY <2>2 DEF RestoreClear
      <3>2. e[1] \in Gens /\ e[2] \in Keys
        BY DEF IndexEntries
      <3>3. /\ \A j \in Kinds, g \in Gens :
                    (j # at \/ g # e[1]) => idx'[j][g] = idx[j][g]
            /\ \A k \in Keys : idx'[at][e[1]][k] = IF k = e[2] THEN None
                                                    ELSE idx[at][e[1]][k]
        BY <3>1, <3>2, MapTypes, SetEntryFrame
      <3>4. \A kind \in Kinds : kind # at =>
                idx'[kind][snap.config.gen] = idx[kind][snap.config.gen]
        BY <3>3, MapTypes
      <3>5. \A k \in Keys :
                idx'[at][snap.config.gen][k] \in {None, idx[at][snap.config.gen][k]}
        BY <3>2, <3>3, MapTypes
      <3> QED
        BY <1>0, <1>a, <3>4, <3>5 DEF Phase, SliceInv, StagedPcs
    <2> QED
      BY <2>1, <2>2
  <1>3. SelectorInv'
    BY <1>0, <1>a DEF Phase, SelectorInv
  <1> QED
    BY <1>0, <1>1, <1>2, <1>3 DEF Phase, RollbackRestores

LEMMA RestoreIndexPhase ==
    ASSUME TypeInv, Phase, RestoreIndex, ~masked'
    PROVE  Phase' /\ RollbackRestores'
  <1> DEFINE missing == {e \in Gens \X Keys :
                            /\ snap.idx[at][e[1]][e[2]] # None
                            /\ snap.idx[at][e[1]][e[2]] # idx[at][e[1]][e[2]]}
  <1>0. pc = "r_write" /\ pc' \in {"r_clear", "r_write", "r_scope_clear"}
    BY DEF RestoreIndex, AfterIndex, Goto
  <1>a. UNCHANGED <<config, scope, slots, epoch, target, next, snap, lost, result, live>>
    BY DEF RestoreIndex
  <1>b. \/ /\ \E e \in missing : idx' = SetEntry(at, e[1], e[2], snap.idx[at][e[1]][e[2]])
           /\ UNCHANGED <<pc, at>>
        \/ missing = {} /\ AfterIndex /\ UNCHANGED idx
    BY Zenon DEF RestoreIndex
  <1>c. snap.idx[at][snap.config.gen] = snap.live.index[at]
    BY <1>0, MapTypes DEF Phase, SliceInv
  <1>1. ConfigInv'
    BY <1>0, <1>a DEF Phase, ConfigInv, NewConfig, StagingPcs, RestorePcs
  <1>2. SliceInv'
    <2>1. CASE missing = {} /\ AfterIndex /\ UNCHANGED idx
      <3>1. idx[at][snap.config.gen] = snap.live.index[at]
        <4>1. idx[at][snap.config.gen] \in Slices /\ snap.live.index[at] \in Slices
          BY <1>c, MapTypes DEF Indexes
        <4>2. ASSUME NEW k \in Keys
              PROVE  idx[at][snap.config.gen][k] = snap.live.index[at][k]
          <5>1. <<snap.config.gen, k>> \notin missing
            BY <2>1
          <5>2. \/ snap.live.index[at][k] = None
                \/ snap.live.index[at][k] = idx[at][snap.config.gen][k]
            BY <1>c, <5>1, MapTypes
          <5>3. idx[at][snap.config.gen][k] \in {None, snap.live.index[at][k]}
            BY <1>0 DEF Phase, SliceInv
          <5> QED
            BY <5>2, <5>3
        <4> QED
          BY <4>1, <4>2, SliceEqual
      <3>2. \A kind \in Kinds : idx[kind][snap.config.gen] = snap.live.index[kind]
        BY <1>0, <3>1 DEF Phase, SliceInv
      <3>3. at' \in Kinds /\ pc' \in {"r_clear", "r_scope_clear"}
        BY <2>1, MapTypes DEF AfterIndex, Goto, Kinds
      <3> QED
        BY <1>0, <1>a, <2>1, <3>2, <3>3 DEF Phase, SliceInv, StagedPcs
    <2>2. CASE (\E e \in missing :
                   idx' = SetEntry(at, e[1], e[2], snap.idx[at][e[1]][e[2]]))
               /\ UNCHANGED <<pc, at>>
      <3>1. PICK gen \in Gens, key \in Keys :
                idx' = SetEntry(at, gen, key, snap.idx[at][gen][key])
        BY <2>2
      <3>0. idx \in Indexes /\ at \in Kinds /\ snap.config.gen \in Gens
        BY MapTypes
      <3>2. PICK rule \in Rules \cup {None} : rule = snap.idx[at][gen][key]
        BY MapTypes DEF Indexes, Slices
      <3>a. idx' = SetEntry(at, gen, key, rule)
        BY <3>1, <3>2
      <3>3. /\ \A j \in Kinds, g \in Gens :
                    (j # at \/ g # gen) => idx'[j][g] = idx[j][g]
            /\ \A k \in Keys : idx'[at][gen][k] = IF k = key THEN rule
                                                   ELSE idx[at][gen][k]
        BY <3>0, <3>a, SetEntryFrame
      <3>4. \A kind \in Kinds : kind # at =>
                idx'[kind][snap.config.gen] = idx[kind][snap.config.gen]
        BY <3>0, <3>3
      <3>5. \A k \in Keys :
                idx'[at][snap.config.gen][k] \in {None, snap.live.index[at][k]}
        <4> SUFFICES ASSUME NEW k \in Keys
                     PROVE  idx'[at][snap.config.gen][k] \in {None, snap.live.index[at][k]}
          OBVIOUS
        <4>1. idx[at][snap.config.gen][k] \in {None, snap.live.index[at][k]}
          BY <1>0 DEF Phase, SliceInv
        <4>2. idx'[at][snap.config.gen][k] = idx[at][snap.config.gen][k]
              \/ idx'[at][snap.config.gen][k] = snap.idx[at][snap.config.gen][k]
          BY <3>0, <3>2, <3>3
        <4> QED
          BY <1>c, <4>1, <4>2
      <3>6. \A kind \in Kinds :
                /\ snap.idx[kind][snap.config.gen] = snap.live.index[kind]
                /\ kind # at => idx[kind][snap.config.gen] = snap.live.index[kind]
        BY <1>0 DEF Phase, SliceInv
      <3>7. pc' = "r_write" /\ at' = at
        BY <1>0, <2>2
      <3> QED
        BY <1>a, <3>4, <3>5, <3>6, <3>7 DEF SliceInv, StagedPcs
    <2> QED
      BY <1>b, <2>1, <2>2
  <1>3. SelectorInv'
    <2>1. pc' = "r_scope_clear" => at' = 1
      BY <1>0, <1>b DEF AfterIndex, Goto
    <2>2. \A m \in ScopeMaps : ~(m < 1)
      BY DEF ScopeMaps
    <2> QED
      BY <1>0, <1>a, <2>1, <2>2 DEF Phase, SelectorInv
  <1> QED
    BY <1>0, <1>1, <1>2, <1>3 DEF Phase, RollbackRestores

LEMMA RestoreScopeClearPhase ==
    ASSUME TypeInv, Phase, RestoreScopeClear
    PROVE  Phase' /\ RollbackRestores'
  <1>0. pc = "r_scope_clear" /\ pc' \in {"r_scope_clear", "r_scope_write"}
    BY DEF RestoreScopeClear
  <1>a. UNCHANGED <<config, idx, slots, epoch, at, target, next, snap, lost, result, live>>
    BY DEF RestoreScopeClear
  <1>1. ConfigInv'
    BY <1>0, <1>a DEF Phase, ConfigInv, NewConfig, StagingPcs, RestorePcs
  <1>2. SliceInv'
    BY <1>0, <1>a DEF Phase, SliceInv, StagedPcs
  <1>3. SelectorInv'
    <2>1. at \in ScopeMaps
      BY <1>0 DEF TypeInv, ScopePcs
    <2>2. \A m \in ScopeMaps : m < at => scope'[m] = scope[m]
      BY <2>1, MapTypes, SetScopeType DEF RestoreScopeClear, ScopeMaps
    <2> QED
      BY <1>0, <1>a, <2>2 DEF Phase, SelectorInv
  <1> QED
    BY <1>0, <1>1, <1>2, <1>3 DEF Phase, RollbackRestores

LEMMA RestoreScopePhase ==
    ASSUME TypeInv, Phase, RestoreScope, ~masked'
    PROVE  Phase' /\ RollbackRestores'
  <1> DEFINE todo == {i \in Ids \ lost : scope[at][i] # snap.scope[at][i]}
  <1>0. pc = "r_scope_write" /\ pc' \in {"r_scope_clear", "r_scope_write", "r_config"}
    BY DEF RestoreScope, Goto
  <1>a. UNCHANGED <<config, idx, slots, epoch, target, next, snap, result, live>>
    BY DEF RestoreScope
  <1>b. \/ /\ \E i \in todo : scope' = SetScope(at, i, snap.scope[at][i])
           /\ UNCHANGED <<pc, at, lost>>
        \/ /\ todo = {} /\ lost' = {} /\ UNCHANGED scope
           /\ IF at < 3 THEN Goto("r_scope_clear", at + 1) ELSE Goto("r_config", 1)
    BY Zenon DEF RestoreScope
  <1>c. at \in ScopeMaps /\ lost = {}
    BY <1>0 DEF TypeInv, ScopePcs, Phase, SelectorInv
  <1>1. ConfigInv'
    BY <1>0, <1>a DEF Phase, ConfigInv, NewConfig, StagingPcs, RestorePcs
  <1>2. SliceInv'
    BY <1>0, <1>a DEF Phase, SliceInv, StagedPcs
  <1>3. SelectorInv'
    <2>1. CASE (\E i \in todo : scope' = SetScope(at, i, snap.scope[at][i]))
               /\ UNCHANGED <<pc, at, lost>>
      <3>1. PICK i \in Ids : scope' = SetScope(at, i, snap.scope[at][i])
        BY <2>1
      <3>2. snap.scope[at][i] \in Owners \cup {None}
        BY <1>c, MapTypes DEF Scopes, ScopeTables
      <3>3. \A m \in ScopeMaps : m < at => scope'[m] = scope[m]
        BY <1>c, <3>1, <3>2, MapTypes, SetScopeType DEF ScopeMaps
      <3> QED
        BY <1>0, <1>a, <2>1, <3>3 DEF Phase, SelectorInv
    <2>2. CASE /\ todo = {} /\ lost' = {} /\ UNCHANGED scope
               /\ IF at < 3 THEN Goto("r_scope_clear", at + 1) ELSE Goto("r_config", 1)
      <3>1. scope[at] = snap.scope[at]
        <4>1. scope[at] \in ScopeTables /\ snap.scope[at] \in ScopeTables
          BY <1>c, MapTypes DEF Scopes
        <4> QED
          BY <1>c, <2>2, <4>1, ScopeEqual
      <3>2. \A m \in ScopeMaps : m <= at => scope[m] = snap.scope[m]
        BY <1>0, <1>c, <3>1 DEF Phase, SelectorInv, ScopeMaps
      <3>3. CASE at < 3
        <4>1. pc' = "r_scope_clear" /\ at' = at + 1
          BY <2>2, <3>3 DEF Goto
        <4>2. \A m \in ScopeMaps : m < at' => scope[m] = snap.scope[m]
          BY <1>c, <3>2, <4>1 DEF ScopeMaps
        <4> QED
          BY <1>a, <2>2, <4>1, <4>2 DEF SelectorInv
      <3>4. CASE ~(at < 3)
        <4>1. pc' = "r_config"
          BY <2>2, <3>4 DEF Goto
        <4>2. \A m \in ScopeMaps : scope[m] = snap.scope[m]
          BY <1>c, <3>2, <3>4 DEF ScopeMaps
        <4>3. scope = snap.scope
          BY <4>2, MapTypes DEF Scopes
        <4> QED
          BY <1>a, <2>2, <4>1, <4>3 DEF SelectorInv
      <3> QED
        BY <3>3, <3>4
    <2> QED
      BY <1>b, <2>1, <2>2
  <1> QED
    BY <1>0, <1>1, <1>2, <1>3 DEF Phase, RollbackRestores

LEMMA RestoreConfigPhase ==
    ASSUME TypeInv, Phase, RestoreConfig, ~masked'
    PROVE  Phase' /\ RollbackRestores'
  <1>0. pc = "r_config" /\ snap.have
    BY DEF RestoreConfig, Phase, ConfigInv
  <1>a. /\ config' \in HalfWritten(snap.config)
        /\ live' = IF config'.gen = snap.config.gen THEN snap.live ELSE live
        /\ pc' = "r_config_rest" /\ result' = result
    BY <1>0, Zenon DEF RestoreConfig, Goto
  <1>b. UNCHANGED <<idx, scope, slots, epoch, target, next, snap, lost>>
    BY DEF RestoreConfig
  <1>c. config'.gen = snap.config.gen \/ config'.gen = config.gen
    BY <1>a, PartTypes, HalfWrittenType
  <1>1. ConfigInv'
    <2>1. \/ config.gen = snap.config.gen /\ live = snap.live
          \/ config.gen = next /\ live = target
      BY <1>0 DEF Phase, ConfigInv, RestorePcs
    <2>2. \/ config'.gen = snap.config.gen /\ live' = snap.live
          \/ config'.gen = next /\ live' = target
      BY <1>a, <1>c, <2>1
    <2> QED
      BY <1>0, <1>a, <1>b, <2>2 DEF Phase, ConfigInv, NewConfig, StagingPcs, RestorePcs
  <1>2. SliceInv'
    BY <1>0, <1>a, <1>b DEF Phase, SliceInv, StagedPcs
  <1>3. SelectorInv'
    BY <1>0, <1>a, <1>b DEF Phase, SelectorInv
  <1> QED
    BY <1>a, <1>1, <1>2, <1>3 DEF Phase, RollbackRestores

LEMMA RestoreConfigRestPhase ==
    ASSUME TypeInv, Phase, RestoreConfigRest
    PROVE  Phase' /\ RollbackRestores'
  <1>0. /\ pc = "r_config_rest" /\ pc' = "idle"
        /\ config' = snap.config /\ live' = snap.live
        /\ result'.gen = result.gen /\ result'.epoch = result.epoch
    BY DEF RestoreConfigRest, ReturnError, Goto, TypeInv, TypeOK
  <1>a. UNCHANGED <<idx, scope, slots, epoch, target, next, snap, lost>>
    BY DEF RestoreConfigRest
  <1>b. \A kind \in Kinds :
            /\ snap.idx[kind][snap.config.gen] = snap.live.index[kind]
            /\ idx[kind][snap.config.gen] = snap.live.index[kind]
    BY <1>0 DEF Phase, SliceInv
  <1>1. ConfigInv'
    BY <1>0, <1>a DEF Phase, ConfigInv, NewConfig, StagingPcs, RestorePcs
  <1>2. SliceInv'
    BY <1>0, <1>a, <1>b DEF SliceInv, StagedPcs
  <1>3. SelectorInv'
    BY <1>0, <1>a DEF Phase, SelectorInv
  <1>4. RollbackRestores'
    BY <1>0, <1>a, <1>b DEF Phase, ConfigInv, SelectorInv, RollbackRestores, RestorePcs
  <1> QED
    BY <1>1, <1>2, <1>3, <1>4 DEF Phase

(* A deletion that fails is tried again. *)
LEMMA DeleteFailsPhase ==
    ASSUME TypeInv, Phase, RollbackRestores, DeleteFails
    PROVE  Phase' /\ RollbackRestores'
  <1>1. UNCHANGED <<mapVars, pc, at, upto, target, next, snap, lost, result, live>>
    BY DEF DeleteFails
  <1>2. ConfigInv'
    BY <1>1 DEF mapVars, Phase, ConfigInv, NewConfig
  <1>3. SliceInv'
    BY <1>1 DEF mapVars, Phase, SliceInv
  <1>4. SelectorInv'
    BY <1>1 DEF mapVars, Phase, SelectorInv, ScopeOf
  <1>5. RollbackRestores'
    BY <1>1 DEF mapVars, Phase, ConfigInv, DeleteFails, DeletesLeft, RollbackRestores
  <1> QED
    BY <1>2, <1>3, <1>4, <1>5 DEF Phase

-----------------------------------------------------------------------------
(* The initial state, with its empty maps, satisfies the invariant. *)
LEMMA InitPhase ==
    ASSUME Init
    PROVE  Phase /\ RollbackRestores
  <1>1. \A kind \in Kinds : idx[kind][config.gen] = live.index[kind]
    BY ZeroInRange DEF Init, MapsInit, EmptyIndex, ZeroConfig, ZeroPolicy
  <1>2. ConfigInv
    BY DEF Init, MapsInit, ConfigInv, ZeroConfig, StagingPcs, RestorePcs
  <1>3. SliceInv
    BY <1>1 DEF Init, SliceInv, StagedPcs
  <1>4. SelectorInv
    BY DEF Init, SelectorInv
  <1>5. RollbackRestores
    BY DEF Init, RollbackRestores
  <1> QED
    BY <1>2, <1>3, <1>4, <1>5 DEF Phase

(* Every step keeps the invariant. *)
LEMMA NextPhase ==
    ASSUME LoaderInv, Next, ~masked'
    PROVE  Phase' /\ RollbackRestores'
  <1>1. TypeInv /\ Phase /\ RollbackRestores
    BY MaskedStays DEF LoaderInv, Phase
  <1>2. ~IterationFails
    BY DEF IterationFails
  <1> QED
    BY <1>1, <1>2, DeleteFailsPhase, BeginPhase, SnapshotFailsPhase, SnapshotMapsPhase, ClearNextPhase,
       WriteIndexPhase, WriteRulesPhase, ClearScopePhase, WriteScopePhase,
       WriteConfigPhase, WriteConfigRestPhase, BumpEpochPhase, ClearOldPhase,
       FinishPhase, UnstagePhase, RestoreRulesPhase, RestoreClearPhase,
       RestoreIndexPhase, RestoreScopeClearPhase, RestoreScopePhase,
       RestoreConfigPhase, RestoreConfigRestPhase
       DEF Next, LoadStep

(* LoaderInv is inductive. *)
LEMMA LoaderInvInductive ==
    /\ Init => LoaderInv
    /\ LoaderInv /\ [Next]_vars => LoaderInv'
  <1>1. Init => LoaderInv
    BY InitTyped, InitPhase DEF LoaderInv, Phase
  <1>2. ASSUME LoaderInv, Next PROVE LoaderInv'
    <2>1. TypeInv'
      BY <1>2, NextTyped DEF LoaderInv
    <2>2. CASE masked'
      BY <2>1, <2>2 DEF LoaderInv, RollbackRestores
    <2>3. CASE ~masked'
      BY <1>2, <2>1, <2>3, NextPhase DEF LoaderInv, Phase
    <2> QED
      BY <2>2, <2>3
  <1>3. ASSUME LoaderInv, UNCHANGED vars PROVE LoaderInv'
    <2>1. TypeInv'
      BY <1>3 DEF vars, mapVars, loadVars, LoaderInv, TypeInv, TypeOK, MapsTypeOK
    <2>2. ~masked' => ConfigInv'
      BY <1>3 DEF vars, mapVars, loadVars, LoaderInv, ConfigInv, NewConfig
    <2>3. ~masked' => SliceInv'
      BY <1>3 DEF vars, mapVars, loadVars, LoaderInv, SliceInv
    <2>4. ~masked' => SelectorInv'
      BY <1>3 DEF vars, mapVars, loadVars, LoaderInv, SelectorInv, ScopeOf
    <2>5. RollbackRestores'
      BY <1>3 DEF vars, mapVars, loadVars, LoaderInv, RollbackRestores
    <2> QED
      BY <2>1, <2>2, <2>3, <2>4, <2>5 DEF LoaderInv
  <1> QED
    BY <1>1, <1>2, <1>3

(* THEOREM: every reachable state satisfies the inductive invariant, with  *)
(* whatever policies, keys, failures and number of reloads.                *)
THEOREM LoaderCorrect == Spec => []LoaderInv
  BY LoaderInvInductive, PTL DEF Spec

(* THEOREM: hooks always find exactly the rules of the installed policy    *)
(* under the active generation, but for the windows that                   *)
(* restore_policy_maps opens.                                              *)
THEOREM ActiveIndexIntactAlways == Spec => []ActiveIndexIntact
  <1>1. LoaderInv => ActiveIndexIntact
    <2> SUFFICES ASSUME LoaderInv, ~masked, NEW kind \in Kinds
                 PROVE  \/ idx[kind][config.gen] = live.index[kind]
                        \/ pc \in {"r_clear", "r_write"} /\ kind = at
                        \/ pc \in RestorePcs /\ config.gen = next
      BY DEF ActiveIndexIntact
    <2>0. ConfigInv /\ SliceInv /\ pc \in Pcs
      BY DEF LoaderInv, TypeInv, TypeOK
    <2>1. CASE pc \in {"idle", "snapshot"}
      BY <2>0, <2>1 DEF SliceInv
    <2>2. CASE pc \in StagingPcs \cup {"unstage"}
      BY <2>0, <2>2 DEF ConfigInv, SliceInv, StagingPcs
    <2>3. CASE pc \in {"config_rest"} \cup RestorePcs
      BY <2>0, <2>3 DEF ConfigInv, SliceInv, RestorePcs, StagedPcs
    <2>4. CASE pc \in {"bump", "clear_old", "finish"}
      BY <2>0, <2>4 DEF ConfigInv, SliceInv, NewConfig, StagedPcs
    <2> QED
      BY <2>0, <2>1, <2>2, <2>3, <2>4 DEF Pcs, ForwardPcs, StagingPcs
  <1> QED
    BY <1>1, LoaderCorrect, PTL

(* THEOREM: whichever operation of mcp_policy_load_dir fails, a load that  *)
(* returns an error with no failure inside its rollback has left the       *)
(* policy that was there before, under the same generation and epoch.      *)
THEOREM RollbackRestoresAlways == Spec => []RollbackRestores
  <1>1. LoaderInv => RollbackRestores
    BY DEF LoaderInv
  <1> QED
    BY <1>1, LoaderCorrect, PTL

(* THEOREM: the generation and epoch that main publishes are those in the  *)
(* maps.                                                                   *)
THEOREM ReportMatchesMapsAlways == Spec => []ReportMatchesMaps
  <1>1. LoaderInv => ReportMatchesMaps
    BY DEF LoaderInv, ConfigInv, ReportMatchesMaps
  <1> QED
    BY <1>1, LoaderCorrect, PTL

(* THEOREM: no step of staging, switching or cleaning changes the rules    *)
(* that hooks are searching at that moment.                                *)
THEOREM StagingIsInvisible == Spec => StagingInvisible
  <1>1. ASSUME LoaderInv, Next, pc \in ForwardPcs, ~masked', NEW kind \in Kinds
        PROVE  idx'[kind][config.gen] = idx[kind][config.gen]
    <2>1. TypeInv /\ ConfigInv
      BY <1>1, MaskedStays DEF LoaderInv
    <2>2. pc \notin {"idle", "snapshot"} => next # snap.config.gen
      BY <2>1, StagedElsewhere
    <2>3. CASE ClearNext
      <3>1. config.gen # next
        BY <2>1, <2>2, <2>3 DEF ClearNext, ClearGeneration, ConfigInv, StagingPcs
      <3> QED
        BY <2>1, <2>3, <3>1, MapTypes, ClearGenerationFrame DEF ClearNext
    <2>4. CASE WriteIndex
      <3>1. config.gen # next
        BY <2>1, <2>2, <2>4 DEF WriteIndex, ConfigInv, StagingPcs
      <3>2. CASE idx' # idx
        <4>1. PICK k \in Unwritten : idx' = SetEntry(at, next, k, target.index[at][k])
          BY <2>4, <3>2 DEF WriteIndex
        <4>2. target.index \in [Kinds -> Slices]
          BY <2>1, <2>4, PolicyParts DEF TypeInv, WriteIndex
        <4>3. k \in Keys /\ target.index[at][k] \in Rules \cup {None}
          BY <2>1, <4>2, MapTypes DEF Unwritten, Slices
        <4> QED
          BY <2>1, <3>1, <4>1, <4>3, MapTypes, SetEntryFrame
      <3> QED
        BY <3>2
    <2>5. CASE ClearOld
      <3>1. config.gen # snap.config.gen
        BY <2>1, <2>2, <2>5 DEF ClearOld, ClearGeneration, ConfigInv, NewConfig
      <3> QED
        BY <2>1, <2>5, <3>1, MapTypes, ClearGenerationFrame DEF ClearOld
    <2>6. CASE UNCHANGED idx
      BY <2>6
    <2>7. ClearNext \/ WriteIndex \/ ClearOld \/ UNCHANGED idx
      BY <1>1
         DEF Next, LoadStep, Begin, SnapshotFails, SnapshotMaps, WriteRules,
             ClearScope, WriteScope, WriteConfig, WriteConfigRest, BumpEpoch,
             Finish, Unstage, ClearGeneration, RestoreRules, RestoreClear, RestoreIndex,
             RestoreScopeClear, RestoreScope, RestoreConfig, RestoreConfigRest,
             DeleteFails, IterationFails, mapVars, ForwardPcs
    <2> QED
      BY <2>3, <2>4, <2>5, <2>6, <2>7
  <1>2. LoaderInv /\ [Next]_vars =>
            [(pc \in ForwardPcs /\ ~masked') =>
                \A kind \in Kinds :
                    idx'[kind][config.gen] = idx[kind][config.gen]]_vars
    BY <1>1
  <1> QED
    BY <1>2, LoaderCorrect, PTL DEF Spec, StagingInvisible

(* THEOREM: the epoch moves only when rules, selectors and configuration   *)
(* of the new policy are all in place, and never to zero.                  *)
THEOREM EpochCommitsAlways == Spec => EpochCommits
  <1>1. ASSUME LoaderInv, Next, epoch' # epoch, ~masked'
        PROVE  /\ config = NewConfig
               /\ scope = ScopeOf(target)
               /\ \A kind \in Kinds : idx[kind][next] = target.index[kind]
               /\ epoch' # 0
    <2>1. TypeInv /\ Phase
      BY <1>1, MaskedStays DEF LoaderInv, Phase
    <2>2. BumpEpoch
      BY <1>1
         DEF Next, LoadStep, Begin, SnapshotFails, SnapshotMaps, ClearNext,
             ClearOld, Unstage, ClearGeneration, WriteIndex, WriteRules,
             ClearScope, WriteScope, WriteConfig, WriteConfigRest, Finish,
             RestoreRules, RestoreClear, RestoreIndex, RestoreScopeClear,
             RestoreScope, RestoreConfig, RestoreConfigRest, DeleteFails,
             IterationFails, mapVars
    <2>3. epoch' # 0
      BY <1>1, <2>1, <2>2, ZeroInRange, NextEpochNonZero
         DEF BumpEpoch, TypeInv, TypeOK, MapsTypeOK
    <2> QED
      BY <2>1, <2>2, <2>3
         DEF BumpEpoch, Phase, ConfigInv, SliceInv, SelectorInv, StagedPcs
  <1>2. LoaderInv /\ [Next]_vars =>
            [(epoch' # epoch /\ ~masked') =>
                /\ config = NewConfig
                /\ scope = ScopeOf(target)
                /\ \A kind \in Kinds : idx[kind][next] = target.index[kind]
                /\ epoch' # 0]_vars
    BY <1>1
  <1> QED
    BY <1>2, LoaderCorrect, PTL DEF Spec, EpochCommits

-----------------------------------------------------------------------------
(* The refinement. *)

LoadingPcs == Pcs \ ({"idle", "snapshot"} \cup CommittedPcs)

(* A step within the undecided part of a load. *)
LEMMA UndecidedStutters ==
    ASSUME pc \in LoadingPcs, pc' \in LoadingPcs,
           UNCHANGED <<snap, target, result, epoch, masked>>
    PROVE  UNCHANGED Register!regVars
  <1>1. UNCHANGED <<PhaseOf, RequestOf>>
    BY DEF LoadingPcs, CommittedPcs, PhaseOf, RequestOf
  <1>2. UNCHANGED InstalledOf
    BY DEF LoadingPcs, CommittedPcs, InstalledOf, SnapView, View
  <1> QED
    BY <1>1, <1>2 DEF Register!regVars

(* The maps are empty at first, and so is the register. *)
LEMMA InitIsRegisterInit ==
    ASSUME Init PROVE Register!RegInit
  <1>1. ZeroConfig.settings = ZeroSettings /\ ZeroConfig.gen = 0 /\ 0 \in Gens
    BY ZeroInRange DEF ZeroConfig
  <1>2. MapsView = PolicyView(ZeroPolicy)
    <2>1. \A kind \in Kinds : EmptyIndex[kind][0] = EmptySlice
      BY <1>1 DEF EmptyIndex
    <2>2. ScopeOf(ZeroPolicy) = EmptyScope
      BY DEF ScopeOf, ZeroPolicy, EmptyScope
    <2>3. [kind \in Kinds |-> idx[kind][config.gen]] = ZeroPolicy.index
      BY <1>1, <2>1 DEF Init, MapsInit, ZeroPolicy
    <2> QED
      BY <1>1, <2>2, <2>3 DEF Init, MapsInit, MapsView, PolicyView, View, ZeroPolicy
  <1> QED
    BY <1>2 DEF Init, MapsInit, Register!RegInit, PhaseOf, RequestOf, InstalledOf

(* What hooks can find when the epoch is about to move. *)
LEMMA StagedView ==
    ASSUME TypeInv, Phase, pc = "bump"
    PROVE  MapsView = PolicyView(target)
  <1>1. target \in Policies /\ target.index \in [Kinds -> Slices]
    BY PolicyParts DEF TypeInv
  <1>2. /\ config.settings = target.settings
        /\ config.gen = next
        /\ scope = ScopeOf(target)
    BY DEF Phase, ConfigInv, SelectorInv, NewConfig
  <1>3. [kind \in Kinds |-> idx[kind][config.gen]] = target.index
    BY <1>1, <1>2 DEF Phase, SliceInv, StagedPcs
  <1> QED
    BY <1>2, <1>3 DEF MapsView, PolicyView, View

(* Cleaning leaves what hooks can find alone. *)
LEMMA CleaningKeepsView ==
    ASSUME TypeInv, ConfigInv, ClearOld
    PROVE  MapsView' = MapsView
  <1>1. pc = "clear_old" /\ UNCHANGED <<config, scope>>
    BY DEF ClearOld, ClearGeneration
  <1>2. config.gen # snap.config.gen
    BY <1>1, StagedElsewhere DEF ConfigInv, NewConfig
  <1>3. \A kind \in Kinds : idx'[kind][config.gen] = idx[kind][config.gen]
    BY <1>2, MapTypes, ClearGenerationFrame DEF ClearOld
  <1> QED
    BY <1>1, <1>3 DEF MapsView, View

(* Every step of the loader is a step of the register, or none. *)
LEMMA StepIsRegisterStep ==
    ASSUME LoaderInv, LoaderInv', Next
    PROVE  [Register!RegNext]_Register!regVars
  <1> SUFFICES ASSUME ~masked' PROVE [Register!RegNext]_Register!regVars
    BY DEF Register!RegNext, Register!Discard
  <1>1. /\ TypeInv /\ Phase /\ ~masked
        /\ TypeInv' /\ Phase' /\ RollbackRestores'
    BY MaskedStays DEF LoaderInv, Phase
  <1>a. \A s : [result EXCEPT !.status = s].status = s
    BY <1>1 DEF TypeInv, TypeOK
  <1> USE DEF PhaseOf, RequestOf, InstalledOf, CommittedPcs
  <1>2. CASE \E files \in Policies \cup {Malformed} : Begin(files)
    <2>1. PICK files \in Policies \cup {Malformed} : Begin(files)
      BY <1>2
    <2>2. MapsView' = MapsView /\ masked' = masked
      BY <2>1 DEF Begin, mapVars, MapsView, View
    <2>3. CASE files = Malformed
      <3>1. Register!Refuse
        BY <1>a, <2>1, <2>2, <2>3 DEF Begin, ReturnError, Goto, mapVars, Register!Refuse
      <3> QED
        BY <2>2, <3>1 DEF Register!RegNext
    <2>4. CASE files \in Policies
      <3>1. Register!Ask
        BY <1>a, <2>1, <2>2, <2>4, MalformedAssumption
           DEF Begin, Goto, mapVars, Register!Ask
      <3> QED
        BY <2>2, <3>1 DEF Register!RegNext
    <2> QED
      BY <2>3, <2>4
  <1>3. CASE SnapshotFails
    <2>1. MapsView' = MapsView /\ masked' = masked
      BY <1>3 DEF SnapshotFails, mapVars, MapsView, View
    <2>2. Register!Fail
      BY <1>a, <1>3, <2>1 DEF SnapshotFails, ReturnError, Goto, mapVars, Register!Fail
    <2> QED
      BY <2>1, <2>2 DEF Register!RegNext
  <1>4. CASE SnapshotMaps
    <2>1. MapsView' = MapsView /\ UNCHANGED <<target, epoch>> /\ pc = "snapshot"
      BY <1>4 DEF SnapshotMaps, mapVars, MapsView, View
    <2>2. TakeSnapshot(TRUE, slots, idx, scope) /\ masked' = masked
      BY <1>4 DEF SnapshotMaps
    <2>3. SnapView' = MapsView
      BY <2>2 DEF TakeSnapshot, SnapView, MapsView, View
    <2>4. CASE Validate(target)
      BY <1>4, <2>1, <2>2, <2>3, <2>4 DEF SnapshotMaps, Goto, Register!regVars
    <2>5. CASE ~Validate(target)
      <3>a. ReturnError
        BY <1>4, <2>5 DEF SnapshotMaps
      <3>1. Register!Fail
        BY <1>a, <2>1, <3>a DEF ReturnError, Goto, Register!Fail
      <3> QED
        BY <2>2, <3>1 DEF Register!RegNext
    <2> QED
      BY <2>4, <2>5
  <1>5. CASE \/ ClearNext \/ WriteIndex \/ WriteRules \/ ClearScope \/ WriteScope
             \/ WriteConfig \/ WriteConfigRest \/ Unstage
    <2>1. /\ pc \in LoadingPcs /\ pc' \in LoadingPcs
          /\ UNCHANGED <<snap, target, result, epoch, masked>>
      BY <1>5
         DEF ClearNext, Unstage, ClearGeneration, WriteIndex, WriteRules, ClearScope,
             WriteScope, WriteConfig, WriteConfigRest, RollBack, Goto, LoadingPcs,
             Pcs, ForwardPcs, RestorePcs
    <2> QED
      BY <2>1, UndecidedStutters
  <1>6. CASE \/ RestoreRules \/ RestoreClear \/ RestoreIndex
             \/ RestoreScopeClear \/ RestoreScope
    <2> USE DEF Goto, LoadingPcs, Pcs, ForwardPcs, RestorePcs
    <2>a. CASE RestoreRules
      BY <1>1, <2>a, UndecidedStutters DEF RestoreRules
    <2>b. CASE RestoreClear
      BY <2>b, UndecidedStutters DEF RestoreClear
    <2>c. CASE RestoreIndex
      <3>1. masked' = masked
        BY <1>1, <2>c, Zenon DEF RestoreIndex
      <3>2. pc = "r_write" /\ UNCHANGED <<snap, target, result, epoch>>
        BY <2>c, Zenon DEF RestoreIndex
      <3>3. pc' = pc \/ AfterIndex
        BY <2>c, Zenon DEF RestoreIndex
      <3>4. pc' \in {pc, "r_clear", "r_scope_clear"}
        BY <3>3 DEF AfterIndex
      <3> QED
        BY <3>1, <3>2, <3>4, UndecidedStutters
    <2>d. CASE RestoreScopeClear
      BY <2>d, UndecidedStutters DEF RestoreScopeClear
    <2>e. CASE RestoreScope
      BY <1>1, <2>e, UndecidedStutters DEF RestoreScope
    <2> QED
      BY <1>6, <2>a, <2>b, <2>c, <2>d, <2>e
  <1>7. CASE BumpEpoch
    <2>1. CASE pc' \in CommittedPcs
      <3>1. epoch' = NextEpoch(epoch) /\ masked' = masked
        BY <1>7, <2>1 DEF BumpEpoch, Goto
      <3>2. epoch' \in Epochs \ {0, epoch}
        BY <1>1, <3>1, NextEpochNonZero DEF TypeInv, TypeOK, MapsTypeOK
      <3>3. MapsView' = MapsView
        BY <1>7 DEF BumpEpoch, MapsView, View
      <3>4. MapsView = PolicyView(target)
        BY <1>1, <1>7, StagedView DEF BumpEpoch
      <3>5. UNCHANGED <<target, result>> /\ pc = "bump"
        BY <1>7 DEF BumpEpoch
      <3>6. Register!Commit
        BY <2>1, <3>2, <3>3, <3>4, <3>5 DEF Register!Commit
      <3> QED
        BY <3>1, <3>6 DEF Register!RegNext
    <2>2. CASE pc' \notin CommittedPcs
      <3>1. /\ pc \in LoadingPcs /\ pc' \in LoadingPcs
            /\ UNCHANGED <<snap, target, result, epoch, masked>>
        BY <1>7, <2>2 DEF BumpEpoch, Goto, LoadingPcs, Pcs, ForwardPcs, RestorePcs
      <3> QED
        BY <3>1, UndecidedStutters
    <2> QED
      BY <2>1, <2>2
  <1>8. CASE ClearOld
    <2>1. MapsView' = MapsView
      BY <1>1, <1>8, CleaningKeepsView DEF Phase
    <2>2. /\ pc \in CommittedPcs /\ pc' \in CommittedPcs
          /\ UNCHANGED <<target, result, epoch, masked>>
      BY <1>8 DEF ClearOld, ClearGeneration, Goto
    <2> QED
      BY <2>1, <2>2 DEF Register!regVars
  <1>9. CASE Finish
    <2>1. MapsView' = MapsView /\ masked' = masked
      BY <1>9 DEF Finish, mapVars, MapsView, View
    <2>2. Register!Succeed
      BY <1>9, <2>1 DEF Finish, Goto, mapVars, Register!Succeed
    <2> QED
      BY <2>1, <2>2 DEF Register!RegNext
  <1>10. CASE RestoreConfig
    <2>1. snap.have /\ pc = "r_config"
      BY <1>1, <1>10 DEF RestoreConfig, Phase, ConfigInv
    <2>2. /\ pc' \in LoadingPcs
          /\ UNCHANGED <<snap, target, result, epoch, masked>>
      BY <1>10, <2>1 DEF RestoreConfig, Goto, LoadingPcs, Pcs, ForwardPcs, RestorePcs
    <2> QED
      BY <2>1, <2>2, UndecidedStutters DEF LoadingPcs, Pcs, ForwardPcs, RestorePcs
  <1>11. CASE RestoreConfigRest
    <2>1. /\ pc = "r_config_rest" /\ pc' = "idle"
          /\ UNCHANGED <<snap, epoch, masked>>
          /\ result' = [result EXCEPT !.status = "failed"]
      BY <1>11 DEF RestoreConfigRest, ReturnError, Goto
    <2>2. snap'.have /\ result'.status = "failed"
      BY <1>1, <1>a, <2>1 DEF Phase, ConfigInv
    <2>3. MapsView' = SnapView'
      BY <1>1, <2>1, <2>2 DEF RollbackRestores, MapsView, SnapView, View
    <2>4. SnapView' = SnapView
      BY <2>1 DEF SnapView, View
    <2>5. Register!Fail
      BY <2>1, <2>2, <2>3, <2>4 DEF Register!Fail
    <2> QED
      BY <2>1, <2>5 DEF Register!RegNext
  <1>12. CASE DeleteFails
    <2>1. UNCHANGED <<mapVars, pc, snap, target, result, masked>>
      BY <1>12 DEF DeleteFails
    <2> QED
      BY <2>1 DEF mapVars, Register!regVars, MapsView, SnapView, View
  <1>13. ~IterationFails
    BY DEF IterationFails
  <1> QED
    BY <1>2, <1>3, <1>4, <1>5, <1>6, <1>7, <1>8, <1>9, <1>10, <1>11, <1>12, <1>13
       DEF Next, LoadStep

(* THEOREM: the loader, with its staging, its generations and its          *)
(* rollbacks, implements an atomic register of policies, for as long as    *)
(* mcp_policy_load_dir discards no error.                                  *)
THEOREM ReloadIsAtomic == Spec => AtomicReload
  <1>1. Init => Register!RegInit
    BY InitIsRegisterInit
  <1>2. LoaderInv /\ LoaderInv' /\ [Next]_vars => [Register!RegNext]_Register!regVars
    <2>1. ASSUME LoaderInv, LoaderInv', Next
          PROVE  [Register!RegNext]_Register!regVars
      BY <2>1, StepIsRegisterStep
    <2>2. ASSUME UNCHANGED vars PROVE UNCHANGED Register!regVars
      BY <2>2
         DEF vars, mapVars, loadVars, Register!regVars, PhaseOf, RequestOf, InstalledOf,
             MapsView, SnapView, View
    <2> QED
      BY <2>1, <2>2
  <1> QED
    BY <1>1, <1>2, LoaderCorrect, PTL DEF Spec, AtomicReload, Register!RegSpec
=============================================================================
