--------------------------- MODULE LoaderRoomProofs ---------------------------
(***************************************************************************)
(* Nothing is left behind, and there is room for every load: proofs of     *)
(* OnlyActiveGeneration and SpaceSuffices, from RoomInv.  They hold as     *)
(* long as the update of global_epoch does not fail: after that failure    *)
(* mcp_policy_load_dir restores the snapshot without deleting what it      *)
(* staged (the run LoaderLeftovers).                                       *)
(***************************************************************************)
EXTENDS PolicyLoaderProofs, FiniteSetTheorems

(* A slice of an index without entries is the empty one, and conversely. *)
LEMMA BareSlice ==
    ASSUME NEW s \in Slices
    PROVE  Entries(s) = {} <=> s = EmptySlice
  <1>1. ASSUME Entries(s) = {} PROVE s = EmptySlice
    BY <1>1, SliceEqual DEF Entries, EmptySlice, Slices
  <1>2. ASSUME s = EmptySlice PROVE Entries(s) = {}
    BY <1>2 DEF Entries, EmptySlice
  <1> QED
    BY <1>1, <1>2

(* A deletion loop empties slices of its generation and fills none. *)
LEMMA ClearGenerationEmpties ==
    ASSUME TypeInv, NEW label, NEW gen \in Gens, NEW last, NEW after,
           ClearGeneration(label, gen, last, after)
    PROVE  /\ \A kind \in Kinds, g \in Gens : Bare(kind, g) => Bare(kind, g)'
           /\ \/ pc' = pc /\ at' = at
              \/ /\ (idx'[at][gen] = EmptySlice)
                 /\ \/ at < last /\ pc' = label /\ at' = at + 1
                    \/ ~(at < last) /\ pc' = after /\ at' = 1
  <1>1. CASE \E k \in Entries(idx[at][gen]) : idx' = SetEntry(at, gen, k, None) /\ UNCHANGED <<pc, at>>
    <2>1. PICK k \in Entries(idx[at][gen]) : idx' = SetEntry(at, gen, k, None)
      BY <1>1
    <2>2. k \in Keys
      BY <2>1 DEF Entries
    <2>3. \A j \in Kinds, g \in Gens : (j # at \/ g # gen) => idx'[j][g] = idx[j][g]
      BY <2>1, <2>2, MapTypes, SetEntryFrame
    <2>4. ~Bare(at, gen)
      BY <2>1, MapTypes, BareSlice DEF Bare, Indexes
    <2> QED
      BY <1>1, <2>3, <2>4 DEF Bare
  <1>2. CASE Entries(idx[at][gen]) = {} /\ UNCHANGED idx
    <2>1. Bare(at, gen)
      BY <1>2, MapTypes, BareSlice DEF Bare, Indexes
    <2> QED
      BY <1>2, <2>1 DEF Bare, ClearGeneration, Goto
  <1> QED
    BY <1>1, <1>2 DEF ClearGeneration

-----------------------------------------------------------------------------
(* RoomInv is inductive. *)

LEMMA InitRoom == Init => RoomInv
  <1> SUFFICES ASSUME Init PROVE RoomInv
    OBVIOUS
  <1>1. \A kind \in Kinds, g \in Gens : Bare(kind, g)
    BY DEF Init, MapsInit, EmptyIndex, Bare
  <1> QED
    BY <1>1 DEF Init, RoomInv, RestorePcs

(* What the invariant says in each phase, without its guard. *)
Room ==
    /\ pc \in {"idle", "snapshot"} =>
           \A kind \in Kinds, g \in Gens \ {config.gen} : Bare(kind, g)
    /\ pc \notin {"idle", "snapshot"} =>
           /\ \A kind \in Kinds, g \in Gens \ {snap.config.gen} :
                  snap.idx[kind][g] = EmptySlice
           /\ \A kind \in Kinds, g \in Gens \ {snap.config.gen, next} : Bare(kind, g)
    /\ pc \in {"clear_next"} \cup RestorePcs => \A kind \in Kinds : Bare(kind, next)
    /\ pc = "write" =>
           /\ \A kind \in Kinds : kind > at => Bare(kind, next)
           /\ \A k \in Keys : idx[at][next][k] \in {None, target.index[at][k]}
    /\ pc = "unstage" =>
           \A kind \in Kinds : (kind < at \/ kind > upto) => Bare(kind, next)
    /\ pc = "clear_old" => \A kind \in Kinds : kind < at => Bare(kind, snap.config.gen)
    /\ pc = "finish" => \A kind \in Kinds : Bare(kind, snap.config.gen)

(* Beginning a load, and its snapshot. *)
LEMMA SnapshotRoom ==
    ASSUME TypeInv, Phase, Room, ~masked',
           \/ \E files \in Policies \cup {Malformed} : Begin(files)
           \/ SnapshotFails
           \/ SnapshotMaps
    PROVE  Room'
  <1>1. CASE pc' \in {"idle", "snapshot"}
    <2>1. pc \in {"idle", "snapshot"} /\ UNCHANGED <<idx, config>>
      BY DEF Begin, SnapshotFails, SnapshotMaps, mapVars
    <2> QED
      BY <1>1, <2>1 DEF Room, Bare, RestorePcs
  <1>2. CASE pc' \notin {"idle", "snapshot"}
    <2>1. SnapshotMaps
      BY <1>2 DEF Begin, SnapshotFails, Goto, ReturnError
    <2>2. TakeSnapshot(TRUE, slots, idx, scope)
      BY <2>1, Zenon DEF SnapshotMaps
    <2>3. snap'.config = config /\ snap'.idx = idx
      BY <2>2 DEF TakeSnapshot
    <2>4. pc = "snapshot" /\ pc' = "clear_next" /\ UNCHANGED <<idx, config>>
          /\ next' = NextGen(snap'.config.gen)
      BY <1>2, <2>1 DEF SnapshotMaps, Goto, ReturnError, mapVars
    <2>5. next' \in Gens /\ next' # config.gen
      BY <2>3, <2>4, MapTypes, NextGenDiffers
    <2> QED
      BY <2>3, <2>4, <2>5 DEF Room, Bare, RestorePcs
  <1> QED
    BY <1>1, <1>2

(* Staging finds the next generation empty. *)
LEMMA ClearNextRoom ==
    ASSUME TypeInv, Phase, Room, ClearNext
    PROVE  Room'
  <1>0. pc = "clear_next" /\ UNCHANGED <<config, snap, next, target, upto>>
    BY DEF ClearNext, ClearGeneration
  <1>1. \A kind \in Kinds, g \in Gens : Bare(kind, g) => Bare(kind, g)'
    BY MapTypes, ClearGenerationEmpties DEF ClearNext
  <1>2. \A kind \in Kinds : Bare(kind, next)'
    BY <1>0, <1>1, MapTypes DEF Room
  <1>3. pc' = "clear_next" \/ (pc' = "write" /\ at' = 1)
    BY DEF ClearNext, ClearGeneration, Goto
  <1>4. 1 \in Kinds
    BY DEF Kinds
  <1>5. \A k \in Keys : idx'[1][next][k] = None
    BY <1>2, <1>4, <1>0 DEF Bare, EmptySlice
  <1>6. \A kind \in Kinds, g \in Gens \ {snap.config.gen, next} : Bare(kind, g)'
    BY <1>0, <1>1 DEF Room
  <1>7. \A kind \in Kinds, g \in Gens \ {snap.config.gen} : snap.idx[kind][g] = EmptySlice
    BY <1>0 DEF Room
  <1> QED
    BY <1>0, <1>2, <1>3, <1>5, <1>6, <1>7 DEF Room, RestorePcs, Bare

(* Entries of the policy go into the next generation, index by index. *)
LEMMA WriteIndexRoom ==
    ASSUME TypeInv, Phase, Room, WriteIndex
    PROVE  Room'
  <1>0. pc = "write" /\ UNCHANGED <<config, snap, next, target>>
    BY DEF WriteIndex
  <1>a. target.index \in [Kinds -> Slices]
    BY <1>0, PolicyParts DEF TypeInv
  <1>b. \A kind \in Kinds, g \in Gens \ {snap.config.gen} : snap.idx[kind][g] = EmptySlice
    BY <1>0 DEF Room
  <1>c. at \in Kinds /\ next \in Gens /\ snap.config.gen \in Gens
    BY MapTypes
  <1>1. CASE \E k \in Unwritten : /\ idx' = SetEntry(at, next, k, target.index[at][k])
                                  /\ UNCHANGED <<pc, at, upto, faults>>
    <2>1. PICK k \in Unwritten : idx' = SetEntry(at, next, k, target.index[at][k])
      BY <1>1
    <2>2. k \in Keys /\ target.index[at][k] \in Rules \cup {None}
      BY <1>a, <1>c DEF Unwritten, Slices
    <2>3. /\ \A j \in Kinds, g \in Gens : (j # at \/ g # next) => idx'[j][g] = idx[j][g]
          /\ \A l \in Keys : idx'[at][next][l] = IF l = k THEN target.index[at][k]
                                                 ELSE idx[at][next][l]
      BY <2>1, <2>2, MapTypes, SetEntryFrame
    <2>4. \A kind \in Kinds : kind > at => Bare(kind, next)'
      BY <1>0, <1>c, <2>3 DEF Room, Bare, Kinds
    <2>5. \A kind \in Kinds, g \in Gens \ {snap.config.gen, next} : Bare(kind, g)'
      BY <1>0, <2>3 DEF Room, Bare
    <2>6. \A l \in Keys : idx'[at][next][l] \in {None, target.index[at][l]}
      BY <1>0, <2>3 DEF Room
    <2> QED
      BY <1>0, <1>1, <1>b, <2>4, <2>5, <2>6 DEF Room, RestorePcs, Bare
  <1>2. CASE RollBack(at) /\ UNCHANGED idx
    <2>1. \A kind \in Kinds : (kind < 1 \/ kind > at) => Bare(kind, next)
      BY <1>0 DEF Room, Kinds
    <2> QED
      BY <1>0, <1>2, <1>b, <2>1 DEF Room, RestorePcs, Bare, RollBack, Goto
  <1>3. CASE at < 4 /\ Goto("write", at + 1) /\ UNCHANGED idx
    <2>1. at + 1 \in Kinds /\ at + 1 > at
      BY <1>3, <1>c DEF Kinds
    <2>2. \A kind \in Kinds : kind > at + 1 => Bare(kind, next)
      BY <1>0, <1>c DEF Room, Kinds
    <2>3. \A k \in Keys : idx[at + 1][next][k] = None
      BY <1>0, <2>1 DEF Room, Bare, EmptySlice
    <2> QED
      BY <1>0, <1>3, <1>b, <2>2, <2>3 DEF Room, RestorePcs, Bare, Goto
  <1>4. CASE Goto("rules", 1) /\ UNCHANGED idx
    BY <1>0, <1>4, <1>b DEF Room, RestorePcs, Bare, Goto
  <1> QED
    BY <1>1, <1>2, <1>3, <1>4 DEF WriteIndex

(* The steps from the rules to the epoch leave the indexes alone. *)
LEMMA SwitchRoom ==
    ASSUME TypeInv, Phase, Room, "epoch" \notin FaultPoints,
           WriteRules \/ ClearScope \/ WriteScope \/ WriteConfig
           \/ WriteConfigRest \/ BumpEpoch
    PROVE  Room'
  <1>0. /\ pc \in {"rules", "scope_clear", "scope_write", "config", "config_rest", "bump"}
        /\ UNCHANGED <<idx, snap, next, target>>
    BY DEF WriteRules, ClearScope, WriteScope, WriteConfig, WriteConfigRest, BumpEpoch
  <1>1. \/ pc' \in {"scope_clear", "scope_write", "config", "config_rest", "bump"}
        \/ pc' = "unstage" /\ at' = 1 /\ upto' = 4
        \/ pc' = "clear_old" /\ at' = 1
    <2>1. CASE WriteRules \/ ClearScope \/ WriteScope
      BY <2>1 DEF WriteRules, ClearScope, WriteScope, RollBack, Goto
    <2>2. CASE WriteConfig \/ WriteConfigRest
      BY <2>2 DEF WriteConfig, WriteConfigRest, RollBack, Goto
    <2>3. CASE BumpEpoch
      <3>1. ~Fault("epoch")
        BY DEF Fault
      <3>2. snap.have /\ snap.config.gen # next
        BY <2>3, StagedElsewhere DEF Phase, ConfigInv, BumpEpoch
      <3> QED
        BY <2>3, <3>1, <3>2 DEF BumpEpoch, Goto
    <2> QED
      BY <2>1, <2>2, <2>3
  <1>2. \A kind \in Kinds : ~(kind < 1) /\ ~(kind > 4)
    BY DEF Kinds
  <1> QED
    BY <1>0, <1>1, <1>2 DEF Room, RestorePcs, Bare

(* The deletion of the generation that was replaced, and the return. *)
LEMMA ClearOldRoom ==
    ASSUME TypeInv, Phase, Room, ClearOld \/ Finish
    PROVE  Room'
  <1>1. CASE ClearOld
    <2>0. pc = "clear_old" /\ UNCHANGED <<config, snap, next, target, upto>>
      BY <1>1 DEF ClearOld, ClearGeneration
    <2>1. /\ \A kind \in Kinds, g \in Gens : Bare(kind, g) => Bare(kind, g)'
          /\ \/ pc' = pc /\ at' = at
             \/ /\ (idx'[at][snap.config.gen] = EmptySlice)
                /\ \/ at < 4 /\ pc' = "clear_old" /\ at' = at + 1
                   \/ ~(at < 4) /\ pc' = "finish" /\ at' = 1
      BY <1>1, MapTypes, ClearGenerationEmpties DEF ClearOld
    <2>2. \A kind \in Kinds : kind < at => Bare(kind, snap.config.gen)'
      BY <2>0, <2>1, MapTypes DEF Room
    <2>3. /\ \A kind \in Kinds, g \in Gens \ {snap.config.gen} : snap.idx[kind][g] = EmptySlice
          /\ \A kind \in Kinds, g \in Gens \ {snap.config.gen, next} : Bare(kind, g)'
      BY <2>0, <2>1 DEF Room
    <2>4. at \in Kinds
      BY MapTypes
    <2>5. CASE pc' = pc /\ at' = at
      BY <2>0, <2>2, <2>3, <2>5 DEF Room, RestorePcs, Bare
    <2>6. CASE (idx'[at][snap.config.gen] = EmptySlice) /\ at < 4 /\ pc' = "clear_old" /\ at' = at + 1
      <3>1. \A kind \in Kinds : kind < at + 1 => kind < at \/ kind = at
        BY <2>4 DEF Kinds
      <3>2. \A kind \in Kinds : kind < at + 1 => Bare(kind, snap.config.gen)'
        BY <2>2, <2>6, <3>1, <2>0 DEF Bare
      <3> QED
        BY <2>0, <2>3, <2>6, <3>2 DEF Room, RestorePcs, Bare
    <2>7. CASE (idx'[at][snap.config.gen] = EmptySlice) /\ ~(at < 4) /\ pc' = "finish" /\ at' = 1
      <3>1. \A kind \in Kinds : kind < at \/ kind = at
        BY <2>4, <2>7 DEF Kinds
      <3>2. \A kind \in Kinds : Bare(kind, snap.config.gen)'
        BY <2>2, <2>7, <3>1, <2>0 DEF Bare
      <3> QED
        BY <2>0, <2>3, <2>7, <3>2 DEF Room, RestorePcs, Bare
    <2> QED
      BY <2>1, <2>5, <2>6, <2>7
  <1>2. CASE Finish
    <2>1. pc = "finish" /\ pc' = "idle" /\ UNCHANGED <<idx, config>>
      BY <1>2 DEF Finish, Goto, mapVars
    <2>2. config.gen = next
      BY <2>1 DEF Phase, ConfigInv, NewConfig
    <2>3. \A kind \in Kinds, g \in Gens \ {config.gen} : Bare(kind, g)
      BY <2>1, <2>2 DEF Room
    <2> QED
      BY <2>1, <2>3 DEF Room, RestorePcs, Bare
  <1> QED
    BY <1>1, <1>2

(* Rollback deletes what was staged. *)
LEMMA UnstageRoom ==
    ASSUME TypeInv, Phase, Room, Unstage
    PROVE  Room'
  <1>0. pc = "unstage" /\ UNCHANGED <<config, snap, next, target, upto>>
    BY DEF Unstage, ClearGeneration
  <1>1. /\ \A kind \in Kinds, g \in Gens : Bare(kind, g) => Bare(kind, g)'
        /\ \/ pc' = pc /\ at' = at
           \/ /\ (idx'[at][next] = EmptySlice)
              /\ \/ at < upto /\ pc' = "unstage" /\ at' = at + 1
                 \/ ~(at < upto) /\ pc' = "r_rules" /\ at' = 1
    BY MapTypes, ClearGenerationEmpties DEF Unstage
  <1>2. \A kind \in Kinds : (kind < at \/ kind > upto) => Bare(kind, next)'
    BY <1>0, <1>1, MapTypes DEF Room
  <1>3. /\ \A kind \in Kinds, g \in Gens \ {snap.config.gen} : snap.idx[kind][g] = EmptySlice
        /\ \A kind \in Kinds, g \in Gens \ {snap.config.gen, next} : Bare(kind, g)'
    BY <1>0, <1>1 DEF Room
  <1>4. at \in Kinds /\ upto \in Kinds
    BY DEF TypeInv, TypeOK
  <1>5. CASE pc' = pc /\ at' = at
    BY <1>0, <1>2, <1>3, <1>5 DEF Room, RestorePcs, Bare
  <1>6. CASE (idx'[at][next] = EmptySlice) /\ at < upto /\ pc' = "unstage" /\ at' = at + 1
    <2>1. \A kind \in Kinds : kind < at + 1 => kind < at \/ kind = at
      BY <1>4 DEF Kinds
    <2>2. \A kind \in Kinds : (kind < at + 1 \/ kind > upto) => Bare(kind, next)'
      BY <1>2, <1>6, <2>1, <1>0 DEF Bare
    <2> QED
      BY <1>0, <1>3, <1>6, <2>2 DEF Room, RestorePcs, Bare
  <1>7. CASE (idx'[at][next] = EmptySlice) /\ ~(at < upto) /\ pc' = "r_rules" /\ at' = 1
    <2>1. \A kind \in Kinds : kind < at \/ kind = at \/ kind > upto
      BY <1>4, <1>7 DEF Kinds
    <2>2. \A kind \in Kinds : Bare(kind, next)'
      BY <1>2, <1>7, <2>1, <1>0 DEF Bare
    <2> QED
      BY <1>0, <1>3, <1>7, <2>2 DEF Room, RestorePcs, Bare
  <1> QED
    BY <1>1, <1>5, <1>6, <1>7

(* The indexes are emptied of, and filled again with, entries of the       *)
(* generation that was active.                                             *)
LEMMA RestoreIndexRoom ==
    ASSUME TypeInv, Phase, Room, RestoreClear \/ RestoreIndex
    PROVE  Room'
  <1>0. pc \in {"r_clear", "r_write"} /\ UNCHANGED <<config, snap, next, target, upto>>
    BY DEF RestoreClear, RestoreIndex
  <1>1. pc' \in {"r_clear", "r_write", "r_scope_clear"}
    <2>1. pc' = pc \/ pc' = "r_write" \/ AfterIndex
      BY Zenon DEF RestoreClear, RestoreIndex
    <2> QED
      BY <1>0, <2>1 DEF AfterIndex, Goto
  <1>2. /\ \A kind \in Kinds, g \in Gens \ {snap.config.gen} : snap.idx[kind][g] = EmptySlice
        /\ \A kind \in Kinds, g \in Gens \ {snap.config.gen} : Bare(kind, g)
    BY <1>0 DEF Room, RestorePcs
  <1>3. \A kind \in Kinds, g \in Gens \ {snap.config.gen} : Bare(kind, g)'
    <2>1. CASE idx' = idx
      BY <1>2, <2>1 DEF Bare
    <2>2. CASE \E e \in Gens \X Keys : /\ idx' = SetEntry(at, e[1], e[2], None)
                                       /\ idx[at][e[1]][e[2]] # None
      <3>1. PICK e \in Gens \X Keys : /\ idx' = SetEntry(at, e[1], e[2], None)
                                      /\ idx[at][e[1]][e[2]] # None
        BY <2>2
      <3>2. e[1] \in Gens /\ e[2] \in Keys
        OBVIOUS
      <3>3. ~Bare(at, e[1])
        BY <3>1, <3>2 DEF Bare, EmptySlice
      <3>4. e[1] = snap.config.gen
        BY <1>2, <3>2, <3>3, MapTypes
      <3>5. \A j \in Kinds, g \in Gens : (j # at \/ g # e[1]) => idx'[j][g] = idx[j][g]
        BY <3>1, <3>2, MapTypes, SetEntryFrame
      <3> QED
        BY <1>2, <3>4, <3>5 DEF Bare
    <2>3. CASE \E e \in Gens \X Keys :
                   /\ idx' = SetEntry(at, e[1], e[2], snap.idx[at][e[1]][e[2]])
                   /\ snap.idx[at][e[1]][e[2]] # None
      <3>1. PICK e \in Gens \X Keys :
                   /\ idx' = SetEntry(at, e[1], e[2], snap.idx[at][e[1]][e[2]])
                   /\ snap.idx[at][e[1]][e[2]] # None
        BY <2>3
      <3>2. /\ e[1] \in Gens /\ e[2] \in Keys
            /\ snap.idx[at][e[1]][e[2]] \in Rules \cup {None}
        BY MapTypes DEF Indexes, Slices
      <3>3. snap.idx[at][e[1]] # EmptySlice
        BY <3>1, <3>2 DEF EmptySlice
      <3>4. e[1] = snap.config.gen
        BY <1>2, <3>2, <3>3, MapTypes
      <3>5. \A j \in Kinds, g \in Gens : (j # at \/ g # e[1]) => idx'[j][g] = idx[j][g]
        BY <3>1, <3>2, MapTypes, SetEntryFrame
      <3> QED
        BY <1>2, <3>4, <3>5 DEF Bare
    <2> QED
      BY <2>1, <2>2, <2>3 DEF RestoreClear, RestoreIndex, IndexEntries
  <1>4. next # snap.config.gen /\ next \in Gens
    BY <1>0, StagedElsewhere, MapTypes DEF Phase
  <1> QED
    BY <1>0, <1>1, <1>2, <1>3, <1>4 DEF Room, RestorePcs, Bare

(* The rest of the rollback leaves the indexes alone. *)
LEMMA RestoreOthersRoom ==
    ASSUME TypeInv, Phase, Room, ~masked',
           RestoreRules \/ RestoreScopeClear \/ RestoreScope \/ RestoreConfig
           \/ RestoreConfigRest
    PROVE  Room'
  <1>0. pc \in RestorePcs /\ UNCHANGED <<idx, snap, next, target>>
    BY DEF RestoreRules, RestoreScopeClear, RestoreScope, RestoreConfig,
           RestoreConfigRest, RestorePcs
  <1>1. /\ \A kind \in Kinds, g \in Gens \ {snap.config.gen} : snap.idx[kind][g] = EmptySlice
        /\ \A kind \in Kinds, g \in Gens \ {snap.config.gen} : Bare(kind, g)
    BY <1>0 DEF Room, RestorePcs
  <1>2. snap.have /\ next \in Gens /\ next # snap.config.gen
    BY <1>0, MapTypes, StagedElsewhere DEF Phase, ConfigInv, RestorePcs
  <1>3. \/ pc' \in RestorePcs
        \/ pc' = "idle" /\ config' = snap.config
    <2>1. CASE RestoreRules \/ RestoreScopeClear \/ RestoreScope
      BY <2>1 DEF RestoreRules, RestoreScopeClear, RestoreScope, Goto, RestorePcs
    <2>2. CASE RestoreConfig
      <3>1. Goto("r_config_rest", 1)
        BY <1>2, <2>2, Zenon DEF RestoreConfig
      <3> QED
        BY <3>1 DEF Goto, RestorePcs
    <2>3. CASE RestoreConfigRest
      BY <2>3 DEF RestoreConfigRest, ReturnError, Goto
    <2> QED
      BY <2>1, <2>2, <2>3
  <1> QED
    BY <1>0, <1>1, <1>2, <1>3 DEF Room, RestorePcs, Bare

(* Every step keeps the invariant. *)
LEMMA NextRoom ==
    ASSUME "epoch" \notin FaultPoints, LoaderInv, RoomInv, Next
    PROVE  RoomInv'
  <1>1. RoomInv <=> (~masked => Room)
    BY DEF RoomInv, Room
  <1>2. (~masked => Room)' => RoomInv'
    BY DEF RoomInv, Room
  <1>3. SUFFICES ASSUME ~masked' PROVE Room'
    BY <1>2
  <1>4. ~masked /\ TypeInv /\ Phase /\ Room
    BY <1>1, <1>3, MaskedStays DEF LoaderInv, Phase
  <1>5. CASE \/ \E files \in Policies \cup {Malformed} : Begin(files)
             \/ SnapshotFails \/ SnapshotMaps
    BY <1>3, <1>4, <1>5, SnapshotRoom
  <1>6. CASE ClearNext
    BY <1>4, <1>6, ClearNextRoom
  <1>7. CASE WriteIndex
    BY <1>4, <1>7, WriteIndexRoom
  <1>8. CASE \/ WriteRules \/ ClearScope \/ WriteScope \/ WriteConfig
             \/ WriteConfigRest \/ BumpEpoch
    BY <1>4, <1>8, SwitchRoom
  <1>9. CASE ClearOld \/ Finish
    BY <1>4, <1>9, ClearOldRoom
  <1>10. CASE Unstage
    BY <1>4, <1>10, UnstageRoom
  <1>11. CASE RestoreClear \/ RestoreIndex
    BY <1>4, <1>11, RestoreIndexRoom
  <1>12. CASE \/ RestoreRules \/ RestoreScopeClear \/ RestoreScope \/ RestoreConfig
              \/ RestoreConfigRest
    BY <1>3, <1>4, <1>12, RestoreOthersRoom
  <1>13. CASE DeleteFails
    BY <1>4, <1>13 DEF DeleteFails, Room, Bare, mapVars
  <1>14. ~IterationFails
    BY <1>3 DEF IterationFails
  <1> QED
    BY <1>5, <1>6, <1>7, <1>8, <1>9, <1>10, <1>11, <1>12, <1>13, <1>14
       DEF Next, LoadStep

(* THEOREM: as long as bump_epoch's update does not fail, a load works on  *)
(* two generations only and takes away the one that it does not leave      *)
(* active, entry by entry, whichever other operations fail.                *)
THEOREM RoomInvariant ==
    ASSUME "epoch" \notin FaultPoints
    PROVE  Spec => []RoomInv
  <1>1. Init => RoomInv
    BY InitRoom
  <1>2. LoaderInv /\ RoomInv /\ [Next]_vars => RoomInv'
    <2> SUFFICES ASSUME LoaderInv, RoomInv, [Next]_vars PROVE RoomInv'
      OBVIOUS
    <2>1. CASE Next
      BY <2>1, NextRoom
    <2>2. CASE UNCHANGED vars
      BY <2>2 DEF vars, mapVars, loadVars, RoomInv, Bare
    <2> QED
      BY <2>1, <2>2
  <1> QED
    BY <1>1, <1>2, LoaderCorrect, PTL DEF Spec

(* THEOREM: between loads the indexes hold the active generation and       *)
(* nothing else (clear_path_generation and its copies, on the error paths  *)
(* of mcp_policy_load_dir as after a successful switch).                   *)
THEOREM OnlyActiveGenerationAlways ==
    ASSUME "epoch" \notin FaultPoints
    PROVE  Spec => []OnlyActiveGeneration
  <1>1. RoomInv => OnlyActiveGeneration
    <2> SUFFICES ASSUME RoomInv, pc = "idle", ~masked,
                        NEW kind \in Kinds, NEW e \in IndexEntries(kind)
                 PROVE  e[1] = config.gen
      BY DEF OnlyActiveGeneration
    <2>1. e[1] \in Gens /\ e[2] \in Keys /\ idx[kind][e[1]][e[2]] # None
      BY DEF IndexEntries
    <2>2. ~Bare(kind, e[1])
      BY <2>1 DEF Bare, EmptySlice
    <2> QED
      BY <2>1, <2>2 DEF RoomInv
  <1> QED
    BY <1>1, RoomInvariant, PTL

-----------------------------------------------------------------------------
(* Counting entries. *)

(* A policy, or the zeroed maps, has at most MAX_RULES entries in an index. *)
LEMMA FewEntries ==
    ASSUME NEW p \in Lives, NEW kind \in Kinds
    PROVE  /\ IsFiniteSet(Entries(p.index[kind]))
           /\ Cardinality(Entries(p.index[kind])) \in 0 .. MaxRules
  <1>1. CASE p \in Policies
    BY <1>1, RoomAssumption, BoundsAssumption, FS_CardinalityType
  <1>2. CASE p = ZeroPolicy
    <2>1. Entries(p.index[kind]) = {}
      BY <1>2 DEF ZeroPolicy, Entries, EmptySlice
    <2> QED
      BY <2>1, FS_EmptySet, BoundsAssumption
  <1> QED
    BY <1>1, <1>2 DEF Lives

(* A generation has as many entries as the policy in it. *)
LEMMA EntriesOfGeneration ==
    ASSUME NEW g, NEW S, IsFiniteSet(S)
    PROVE  IsFiniteSet({g} \X S) /\ Cardinality({g} \X S) = Cardinality(S)
  <1>1. IsFiniteSet({g}) /\ Cardinality({g}) = 1
    BY FS_Singleton
  <1>2. /\ IsFiniteSet({g} \X S)
        /\ Cardinality({g} \X S) = Cardinality({g}) * Cardinality(S)
    BY <1>1, FS_Product
  <1>3. Cardinality(S) \in Nat
    BY FS_CardinalityType
  <1> QED
    BY <1>1, <1>2, <1>3

(* THEOREM: no load is refused for lack of space.  A snapshot array of     *)
(* MAX_RULES entries always suffices, and 2 * MAX_RULES entries in a map   *)
(* are enough for the active policy and the next entry of the one being    *)
(* staged.                                                                 *)
THEOREM SpaceAlwaysSuffices ==
    ASSUME "epoch" \notin FaultPoints
    PROVE  Spec => []SpaceSuffices
  <1>1. LoaderInv /\ RoomInv => SpaceSuffices
    <2> SUFFICES ASSUME TypeInv, Phase, Room, ~masked
                 PROVE  /\ pc = "snapshot" => ~SnapshotOverflows
                        /\ pc = "write" /\ Unwritten # {} => ~IndexFull(at)
      BY DEF LoaderInv, Phase, RoomInv, Room, SpaceSuffices
    <2>1. ASSUME pc = "snapshot", NEW kind \in Kinds
          PROVE  ~(Cardinality(IndexEntries(kind)) > MaxRules)
      <3> DEFINE S == Entries(live.index[kind])
      <3>1. live \in Lives /\ config.gen \in Gens
        BY MapTypes DEF TypeInv, TypeOK
      <3>2. IsFiniteSet(S) /\ Cardinality(S) \in 0 .. MaxRules
        BY <3>1, FewEntries
      <3>3. IndexEntries(kind) \subseteq {config.gen} \X S
        <4> SUFFICES ASSUME NEW e \in IndexEntries(kind) PROVE e \in {config.gen} \X S
          OBVIOUS
        <4>1. e \in Gens \X Keys /\ e[1] \in Gens /\ e[2] \in Keys
              /\ idx[kind][e[1]][e[2]] # None
          BY DEF IndexEntries
        <4>2. ~Bare(kind, e[1])
          BY <4>1 DEF Bare, EmptySlice
        <4>3. e[1] = config.gen
          BY <2>1, <4>1, <4>2 DEF Room
        <4>4. idx[kind][config.gen] = live.index[kind]
          BY <2>1 DEF Phase, SliceInv
        <4>5. e[2] \in S
          BY <4>1, <4>3, <4>4 DEF Entries
        <4> QED
          BY <4>1, <4>3, <4>5
      <3>4. IsFiniteSet({config.gen} \X S) /\ Cardinality({config.gen} \X S) = Cardinality(S)
        BY <3>2, EntriesOfGeneration
      <3>5. /\ Cardinality(IndexEntries(kind)) <= Cardinality(S)
            /\ Cardinality(IndexEntries(kind)) \in Nat
        BY <3>3, <3>4, FS_Subset, FS_CardinalityType
      <3> HIDE DEF S
      <3> QED
        BY <3>2, <3>5, BoundsAssumption
    <2>2. ASSUME pc = "write", NEW k \in Unwritten PROVE ~IndexFull(at)
      <3> DEFINE A == Entries(snap.live.index[at])
                 T == Entries(target.index[at])
                 B == T \ {k}
                 old == {snap.config.gen} \X A
                 new == {next} \X B
      <3>1. at \in Kinds /\ snap.live \in Lives /\ target \in Lives
        BY <2>2, MapTypes, PartTypes DEF TypeInv, Lives
      <3>2. /\ IsFiniteSet(A) /\ Cardinality(A) \in 0 .. MaxRules
            /\ IsFiniteSet(T) /\ Cardinality(T) \in 0 .. MaxRules
        BY <3>1, FewEntries
      <3>3. /\ k \in T /\ idx[at][next][k] = None
        BY <2>2 DEF Room, Unwritten, Entries
      <3>4. IsFiniteSet(B) /\ Cardinality(B) = Cardinality(T) - 1
        BY <3>2, <3>3, FS_RemoveElement
      <3>5. /\ IsFiniteSet(old) /\ Cardinality(old) = Cardinality(A)
            /\ IsFiniteSet(new) /\ Cardinality(new) = Cardinality(B)
        BY <3>2, <3>4, EntriesOfGeneration
      <3>6. IndexEntries(at) \subseteq old \cup new
        <4> SUFFICES ASSUME NEW e \in IndexEntries(at) PROVE e \in old \cup new
          OBVIOUS
        <4>1. e \in Gens \X Keys /\ e[1] \in Gens /\ e[2] \in Keys
              /\ idx[at][e[1]][e[2]] # None
          BY DEF IndexEntries
        <4>2. ~Bare(at, e[1])
          BY <4>1 DEF Bare, EmptySlice
        <4>3. e[1] = snap.config.gen \/ e[1] = next
          BY <2>2, <3>1, <4>1, <4>2 DEF Room
        <4>4. CASE e[1] = snap.config.gen
          <5>1. idx[at][snap.config.gen] = snap.live.index[at]
            BY <2>2, <3>1 DEF Phase, SliceInv
          <5>2. e[2] \in A
            BY <4>1, <4>4, <5>1 DEF Entries
          <5> QED
            BY <4>1, <4>4, <5>2
        <4>5. CASE e[1] = next
          <5>1. e[2] # k /\ idx[at][next][e[2]] = target.index[at][e[2]]
            BY <2>2, <3>3, <4>1, <4>5 DEF Room
          <5>2. e[2] \in B
            BY <4>1, <4>5, <5>1 DEF Entries
          <5> QED
            BY <4>1, <4>5, <5>2
        <4> QED
          BY <4>3, <4>4, <4>5
      <3>7. IsFiniteSet(old \cup new) /\ Cardinality(old \cup new) <= Cardinality(old) + Cardinality(new)
        <4>1. /\ IsFiniteSet(old \cup new) /\ IsFiniteSet(old \cap new)
              /\ Cardinality(old \cup new) =
                     Cardinality(old) + Cardinality(new) - Cardinality(old \cap new)
          BY <3>5, FS_Union, FS_Intersection
        <4>2. /\ Cardinality(old) \in Nat /\ Cardinality(new) \in Nat
              /\ Cardinality(old \cap new) \in Nat
          BY <3>5, <4>1, FS_CardinalityType
        <4> HIDE DEF old, new
        <4> QED
          BY <4>1, <4>2
      <3>8. /\ Cardinality(IndexEntries(at)) <= Cardinality(old \cup new)
            /\ Cardinality(IndexEntries(at)) \in Nat /\ Cardinality(old \cup new) \in Nat
        BY <3>6, <3>7, FS_Subset, FS_CardinalityType
      <3> HIDE DEF A, T, B, old, new
      <3> QED
        BY <3>2, <3>4, <3>5, <3>7, <3>8, BoundsAssumption DEF IndexFull
    <2> QED
      BY <2>1, <2>2 DEF SnapshotOverflows
  <1> QED
    BY <1>1, LoaderCorrect, RoomInvariant, PTL
=============================================================================
