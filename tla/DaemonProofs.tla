----------------------------- MODULE DaemonProofs -----------------------------
(***************************************************************************)
(* Proofs about main: it uses the policy loader as PolicyLoader describes, *)
(* so that what is proved of the loader holds in the daemon, and it        *)
(* attaches the hooks to a whole policy only.  When it leaves, it takes    *)
(* down its GUI process, whatever the number of tries.                     *)
(***************************************************************************)
EXTENDS Daemon, LoaderRoomProofs, GuiProcess, SequenceTheorems

-----------------------------------------------------------------------------
(* Reading the files. *)

(* The texts read so far and the next one. *)
LEMMA OneMoreText ==
    ASSUME ReadInv, NEW t
    PROVE  /\ Len(Append(texts, t)) = Len(texts) + 1
           /\ Append(texts, t) = [f \in 1 .. (Len(texts) + 1) |->
                                     IF f <= Len(texts) THEN texts[f] ELSE t]
  <1> DEFINE S == {texts[f] : f \in 1 .. Len(texts)} \cup {t}
  <1>1. Len(texts) \in Nat
    BY DEF ReadInv
  <1>2. texts \in [1 .. Len(texts) -> S]
    BY DEF ReadInv
  <1>3. texts \in Seq(S)
    BY <1>1, <1>2, SeqDef
  <1> HIDE DEF S
  <1>4. t \in S
    BY DEF S
  <1>5. /\ Append(texts, t) \in Seq(S) /\ Len(Append(texts, t)) = Len(texts) + 1
        /\ \A f \in 1 .. Len(texts) : Append(texts, t)[f] = texts[f]
        /\ Append(texts, t)[Len(texts) + 1] = t
    BY <1>3, <1>4, AppendProperties
  <1>6. Append(texts, t) \in [1 .. (Len(texts) + 1) -> S]
    BY <1>5, LenProperties
  <1>7. \A f \in 1 .. (Len(texts) + 1) :
            Append(texts, t)[f] = IF f <= Len(texts) THEN texts[f] ELSE t
    BY <1>1, <1>5
  <1> QED
    BY <1>5, <1>6, <1>7

(* Five texts, one of each file, are a directory. *)
LEMMA FiveTexts ==
    ASSUME NEW d, d = [f \in 1 .. 5 |-> d[f]], \A f \in 1 .. 5 : d[f] \in Texts[f]
    PROVE  d \in Directories
  BY DEF Directories

(* The disk holds one text for each file. *)
LEMMA DirectoryParts ==
    ASSUME NEW d \in Directories, NEW f \in PolicyFiles
    PROVE  d[f] \in Texts[f]
  BY DEF Directories, PolicyFiles

(* A file edited is a directory again. *)
LEMMA EditedDirectory ==
    ASSUME NEW d \in Directories, NEW f \in PolicyFiles, NEW t \in Texts[f]
    PROVE  [d EXCEPT ![f] = t] \in Directories
  BY DEF Directories, PolicyFiles

-----------------------------------------------------------------------------
(* The daemon implements the loader's specification. *)

(* What the last of the five reads hands over is a policy, or is refused. *)
LEMMA LastText ==
    ASSUME DaemonInv, Len(texts) = 4, NEW got, got = Append(texts, disk[5]),
           disk[5] # Malformed, ~(RuleCount(got) > MaxRules)
    PROVE  Assemble(got) \in Policies
  <1>1. got = [f \in 1 .. 5 |-> IF f <= 4 THEN texts[f] ELSE disk[5]]
    BY OneMoreText DEF DaemonInv
  <1>2. disk[5] \in Texts[5]
    BY DirectoryParts DEF DaemonInv, PolicyFiles
  <1>3. \A f \in 1 .. 5 : got[f] \in Texts[f] /\ got[f] # Malformed
    BY <1>1, <1>2 DEF DaemonInv, ReadInv
  <1>4. got \in Directories
    BY <1>1, <1>3, FiveTexts
  <1> QED
    BY <1>3, <1>4, DirectoriesAssumption DEF PolicyFiles

(* A step of the daemon is a step of the loader, or leaves it alone. *)
LEMMA DaemonStepIsLoaderStep ==
    ASSUME DaemonInv, DaemonNext
    PROVE  Next \/ UNCHANGED vars
  <1>1. CASE ReadFile
    <2> DEFINE f == Len(texts) + 1
               got == Append(texts, disk[f])
    <2>1. \/ UNCHANGED vars
          \/ Begin(Malformed)
          \/ /\ f = 5 /\ Begin(Assemble(got))
             /\ ~(disk[f] = Malformed \/ RuleCount(got) > MaxRules)
      BY <1>1 DEF ReadFile
    <2>2. CASE f = 5 /\ Begin(Assemble(got))
               /\ ~(disk[f] = Malformed \/ RuleCount(got) > MaxRules)
      <3>1. Len(texts) = 4
        BY <2>2 DEF DaemonInv, ReadInv
      <3>2. Assemble(got) \in Policies
        BY <2>2, <3>1, LastText
      <3> QED
        BY <2>2, <3>2 DEF Next
    <2> QED
      BY <2>1, <2>2 DEF Next
  <1>2. CASE DaemonNext /\ ~ReadFile
    BY <1>2
       DEF DaemonNext, MainStep, Start, FillTailCall, FirstLoadReturns, Attach,
           Loop, ReloadReturns, Poll, PollFails, LoadRuns, Sighup, Sigterm,
           EditPolicy, Next
  <1> QED
    BY <1>1, <1>2

-----------------------------------------------------------------------------
(* DaemonInv is inductive. *)

LEMMA InitDaemon == DaemonInit => DaemonInv
  <1> SUFFICES ASSUME DaemonInit PROVE DaemonInv
    OBVIOUS
  <1>1. TypeInv
    BY InitTyped DEF DaemonInit
  <1>2. ReadInv
    <2>1. texts = <<>> /\ Len(texts) = 0
      BY DEF DaemonInit
    <2>2. 1 .. 0 = {}
      OBVIOUS
    <2> QED
      BY <2>1, <2>2 DEF ReadInv
  <1>3. MainInv
    BY DEF DaemonInit, Init, MainInv, MainPcs, AfterFirstLoad, TailTargets
  <1>4. InstalledInv
    BY DEF DaemonInit, Init, InstalledInv, AfterFirstLoad
  <1> QED
    BY <1>1, <1>2, <1>3, <1>4 DEF DaemonInit, DaemonInv

(* The files are read as they are at the moment. *)
LEMMA NextRead ==
    ASSUME DaemonInv, DaemonNext
    PROVE  ReadInv' /\ disk' \in Directories
  <1>1. disk' \in Directories
    <2>1. CASE EditPolicy
      BY <2>1, EditedDirectory DEF EditPolicy, DaemonInv
    <2>2. CASE UNCHANGED disk
      BY <2>2 DEF DaemonInv
    <2> QED
      BY <2>1, <2>2
         DEF DaemonNext, MainStep, Start, FillTailCall, FirstLoadReturns, Attach,
             Loop, ReloadReturns, Poll, PollFails, LoadRuns, Sighup, Sigterm,
             ReadFile, daemonVars
  <1>2. ReadInv'
    <2>1. CASE texts' = texts
      BY <2>1 DEF DaemonInv, ReadInv
    <2>2. CASE texts' = <<>>
      <3>1. 1 .. 0 = {} /\ Len(<<>>) = 0
        OBVIOUS
      <3> QED
        BY <2>2, <3>1 DEF ReadInv
    <2>3. CASE /\ Len(texts) + 1 # 5
               /\ disk[Len(texts) + 1] # Malformed
               /\ texts' = Append(texts, disk[Len(texts) + 1])
      <3> DEFINE n == Len(texts)
                 t == disk[n + 1]
      <3>1. n \in 0 .. 3
        BY <2>3 DEF DaemonInv, ReadInv
      <3>2. t \in Texts[n + 1] \ {Malformed}
        BY <2>3, <3>1, DirectoryParts DEF DaemonInv, PolicyFiles
      <3>3. Len(texts') = n + 1 /\ texts' = [f \in 1 .. (n + 1) |->
                                                IF f <= n THEN texts[f] ELSE t]
        BY <2>3, OneMoreText DEF DaemonInv
      <3>4. \A f \in 1 .. (n + 1) : texts'[f] \in Texts[f] \ {Malformed}
        <4> SUFFICES ASSUME NEW f \in 1 .. (n + 1) PROVE texts'[f] \in Texts[f] \ {Malformed}
          OBVIOUS
        <4>1. CASE f <= n
          BY <3>1, <3>3, <4>1 DEF DaemonInv, ReadInv
        <4>2. CASE f = n + 1
          BY <3>1, <3>2, <3>3, <4>2
        <4> QED
          BY <3>1, <4>1, <4>2
      <3> QED
        BY <3>1, <3>3, <3>4 DEF ReadInv
    <2>4. CASE ReadFile
      BY <2>1, <2>2, <2>3, <2>4 DEF ReadFile
    <2>5. CASE ~ReadFile
      BY <2>1, <2>5
         DEF DaemonNext, MainStep, Start, FillTailCall, FirstLoadReturns, Attach,
             Loop, ReloadReturns, Poll, PollFails, LoadRuns, Sighup, Sigterm,
             EditPolicy, daemonVars
    <2> QED
      BY <2>4, <2>5
  <1> QED
    BY <1>1, <1>2

(* main goes from place to place, and a load runs in two of them only. *)
LEMMA NextMain ==
    ASSUME DaemonInv, DaemonNext
    PROVE  MainInv'
  <1> USE DEF AfterFirstLoad, TailTargets
  <1>1. CASE LoadRuns
    <2>1. pc # "idle"
      BY <1>1 DEF LoadRuns, LoadStep, SnapshotFails, SnapshotMaps, ClearNext,
             ClearOld, Unstage, ClearGeneration, WriteIndex, WriteRules, ClearScope,
             WriteScope, WriteConfig, WriteConfigRest, BumpEpoch, Finish,
             RestoreRules, RestoreClear, RestoreIndex, RestoreScopeClear,
             RestoreScope, RestoreConfig, RestoreConfigRest, DeleteFails,
             IterationFails, DeletesLeft
    <2> QED
      BY <1>1, <2>1 DEF LoadRuns, daemonVars, DaemonInv, MainInv
  <1>2. CASE ReadFile
    <2>1. UNCHANGED <<attached, tails>> /\ main \in {"first_read", "read"}
      BY <1>2 DEF ReadFile
    <2>2. \/ UNCHANGED <<pc, main>>
          \/ main' = IF main = "read" THEN "loading" ELSE "first_load"
      BY <1>2 DEF ReadFile, vars, loadVars
    <2> QED
      BY <2>1, <2>2 DEF DaemonInv, MainInv, MainPcs
  <1>3. CASE UNCHANGED vars /\ DaemonNext
    <2>1. pc' = pc
      BY <1>3 DEF vars, loadVars
    <2>2. CASE Start \/ FillTailCall
      BY <2>1, <2>2 DEF Start, FillTailCall, Leave, DaemonInv, MainInv, MainPcs
    <2>3. CASE FirstLoadReturns \/ Attach \/ Loop
      BY <2>1, <2>3 DEF FirstLoadReturns, Attach, Loop, Leave, DaemonInv, MainInv, MainPcs
    <2>4. CASE ReloadReturns \/ Poll \/ PollFails
      BY <2>1, <2>4 DEF ReloadReturns, Poll, PollFails, Leave, DaemonInv, MainInv, MainPcs
    <2>5. CASE Sighup \/ Sigterm \/ EditPolicy
      BY <2>1, <2>5 DEF Sighup, Sigterm, EditPolicy, DaemonInv, MainInv
    <2> QED
      BY <1>1, <1>2, <1>3, <2>2, <2>3, <2>4, <2>5 DEF DaemonNext, MainStep
  <1> QED
    BY <1>1, <1>2, <1>3
       DEF DaemonNext, MainStep, Start, FillTailCall, FirstLoadReturns, Attach,
           Loop, ReloadReturns, Poll, PollFails, Sighup, Sigterm, EditPolicy

(* main's own steps do not touch the maps. *)
LEMMA MainInstalled ==
    ASSUME DaemonInv, DaemonNext, ~LoadRuns
    PROVE  InstalledInv'
  <1> USE DEF AfterFirstLoad
  <1>1. CASE ReadFile
    <2>1. main \in {"first_read", "read"} /\ pc = "idle"
      BY <1>1 DEF ReadFile, DaemonInv, MainInv
    <2>2. \/ UNCHANGED vars /\ UNCHANGED main
          \/ /\ \E files : Begin(files)
             /\ main' = IF main = "read" THEN "loading" ELSE "first_load"
      BY <1>1 DEF ReadFile
    <2>3. CASE UNCHANGED vars /\ UNCHANGED main
      BY <2>1, <2>3 DEF vars, mapVars, loadVars, DaemonInv, InstalledInv, Installed
    <2>4. CASE /\ \E files : Begin(files)
               /\ main' = IF main = "read" THEN "loading" ELSE "first_load"
      <3>1. UNCHANGED <<config, epoch, live>> /\ pc' \in {"idle", "snapshot"}
        BY <2>4 DEF Begin, ReturnError, Goto, mapVars
      <3>2. result'.status \in {"none", "failed"}
        BY <2>4 DEF Begin, ReturnError, DaemonInv, TypeInv, TypeOK
      <3> QED
        BY <2>1, <2>4, <3>1, <3>2 DEF DaemonInv, InstalledInv, Installed
    <2> QED
      BY <2>2, <2>3, <2>4
  <1>2. CASE UNCHANGED vars
    <2>1. /\ UNCHANGED <<pc, config, epoch, live, snap, next>> /\ result' = result
          /\ Installed' = Installed
      BY <1>2 DEF vars, mapVars, loadVars, Installed
    <2>2. CASE UNCHANGED main
      BY <2>1, <2>2 DEF DaemonInv, InstalledInv
    <2>3. CASE main' \in {"fill", "first_read", "exit"}
      BY <2>1, <2>3 DEF DaemonInv, InstalledInv
    <2>4. CASE main \in AfterFirstLoad \ {"loading"} /\ main' \in AfterFirstLoad \ {"loading"}
      BY <2>1, <2>4 DEF DaemonInv, InstalledInv
    <2>5. CASE FirstLoadReturns \/ ReloadReturns
      BY <2>1, <2>3, <2>5 DEF DaemonInv, InstalledInv, FirstLoadReturns, ReloadReturns, Leave
    <2> QED
      BY <1>1, <2>2, <2>3, <2>4, <2>5
         DEF DaemonNext, MainStep, Start, FillTailCall, Attach, Loop, Poll,
             PollFails, Sighup, Sigterm, EditPolicy, Leave
  <1> QED
    BY <1>1, <1>2
       DEF DaemonNext, MainStep, Start, FillTailCall, FirstLoadReturns, Attach,
           Loop, ReloadReturns, Poll, PollFails, Sighup, Sigterm, EditPolicy

(* Nor do the steps of a load between the snapshot and the configuration. *)
LEMMA MiddleInstalled ==
    ASSUME DaemonInv, UNCHANGED main,
           \/ ClearNext \/ WriteIndex \/ WriteRules \/ ClearScope \/ WriteScope
           \/ Unstage \/ RestoreRules \/ RestoreClear \/ RestoreIndex
           \/ RestoreScopeClear \/ RestoreScope
    PROVE  InstalledInv'
  <1>1. /\ UNCHANGED <<config, epoch, live, snap, next>>
        /\ pc \notin {"idle", "snapshot"}
    BY DEF ClearNext, Unstage, ClearGeneration, WriteIndex, WriteRules, ClearScope,
           WriteScope, RestoreRules, RestoreClear, RestoreIndex,
           RestoreScopeClear, RestoreScope
  <1>2. pc' \notin {"idle", "snapshot", "bump", "clear_old", "finish", "r_config_rest"}
    <2>1. CASE ClearNext \/ Unstage \/ WriteIndex \/ WriteRules
      BY <2>1 DEF ClearNext, Unstage, ClearGeneration, WriteIndex, WriteRules,
                  RollBack, Goto
    <2>2. CASE ClearScope \/ WriteScope
      BY <2>2 DEF ClearScope, WriteScope, RollBack, Goto
    <2>3. CASE RestoreRules \/ RestoreScopeClear \/ RestoreScope
      BY <2>3 DEF RestoreRules, RestoreScopeClear, RestoreScope, Goto
    <2>4. CASE RestoreClear \/ RestoreIndex
      <3>1. pc \in {"r_clear", "r_write"} /\ (pc' = pc \/ pc' = "r_write" \/ AfterIndex)
        BY <2>4, Zenon DEF RestoreClear, RestoreIndex
      <3> QED
        BY <3>1 DEF AfterIndex, Goto
    <2> QED
      BY <2>1, <2>2, <2>3, <2>4
  <1>3. Installed' = Installed
    BY <1>1 DEF Installed
  <1> QED
    BY <1>1, <1>2, <1>3 DEF DaemonInv, InstalledInv

(* Nor does a deletion that fails, or an iteration cut short. *)
LEMMA DeletionsInstalled ==
    ASSUME DaemonInv, UNCHANGED main, DeleteFails \/ IterationFails
    PROVE  InstalledInv'
  <1>1. /\ UNCHANGED <<config, epoch, live, snap, next, result>>
        /\ pc \notin {"idle", "snapshot", "bump", "r_config_rest"}
    BY DEF DeleteFails, IterationFails, DeletesLeft, mapVars
  <1>2. /\ pc' \notin {"idle", "snapshot", "bump", "r_config_rest"}
        /\ pc' \in {"clear_old", "finish"} => pc \in {"clear_old", "finish"}
    <2>1. pc' = pc \/ LoopEnds
      BY Zenon DEF DeleteFails, IterationFails
    <2> QED
      BY <1>1, <2>1 DEF LoopEnds, NextMap, Goto
  <1>3. Installed' = Installed
    BY <1>1 DEF Installed
  <1> QED
    BY <1>1, <1>2, <1>3 DEF DaemonInv, InstalledInv

(* A snapshot keeps what it finds, even when it discards an error. *)
LEMMA SnapshotInstalled ==
    ASSUME DaemonInv, UNCHANGED main, TypeInv', SnapshotFails \/ SnapshotMaps
    PROVE  InstalledInv'
  <1>1. pc = "snapshot" /\ UNCHANGED <<config, epoch, live>>
    BY DEF SnapshotFails, SnapshotMaps, mapVars
  <1>2. Installed' = Installed
    BY <1>1 DEF Installed
  <1>3. CASE pc' = "idle"
    <2>1. result' = [result EXCEPT !.status = "failed"]
      BY <1>3 DEF SnapshotFails, SnapshotMaps, ReturnError, Goto
    <2>2. result'.status = "failed"
      BY <2>1 DEF DaemonInv, TypeInv, TypeOK
    <2> QED
      BY <1>1, <1>2, <1>3, <2>2 DEF DaemonInv, InstalledInv
  <1>4. CASE pc' # "idle"
    <2>1. SnapshotMaps /\ pc' = "clear_next" /\ next' = NextGen(snap'.config.gen)
      BY <1>4 DEF SnapshotFails, SnapshotMaps, ReturnError, Goto
    <2>2. PICK have \in BOOLEAN : \E rules, index, selectors :
              TakeSnapshot(have, rules, index, selectors)
      BY <2>1, Zenon DEF SnapshotMaps
    <2>3. snap'.live = live /\ (snap'.have => snap'.config = config)
      BY <2>2 DEF TakeSnapshot
    <2>4. snap'.config.gen \in Gens
      BY DEF TypeInv, TypeOK, Snapshots
    <2>5. next' # 0
      BY <2>1, <2>4, NextGenDiffers
    <2> QED
      BY <1>1, <1>2, <2>1, <2>3, <2>5 DEF DaemonInv, InstalledInv, Installed, AfterFirstLoad
  <1> QED
    BY <1>3, <1>4

(* The switch writes a generation and an epoch that are not zero. *)
LEMMA SwitchInstalled ==
    ASSUME DaemonInv, UNCHANGED main,
           WriteConfig \/ WriteConfigRest \/ BumpEpoch \/ ClearOld \/ Finish
    PROVE  InstalledInv'
  <1> USE DEF AfterFirstLoad
  <1>0. /\ next # 0 /\ UNCHANGED <<snap, next>> /\ pc \notin {"idle", "snapshot"}
        /\ target \in Policies /\ NewConfig.gen = next
        /\ TypeInv /\ InstalledInv
    BY DEF WriteConfig, WriteConfigRest, BumpEpoch, ClearOld, ClearGeneration,
           Finish, mapVars, DaemonInv, InstalledInv, TypeInv, NewConfig
  <1>1. CASE WriteConfig
    <2>1. pc' \in {"config_rest", "unstage"} /\ UNCHANGED epoch
      BY <1>1 DEF WriteConfig, RollBack, Goto
    <2>2. NewConfig \in [gen : Gens, settings : Settings]
      BY <1>0, PolicyParts DEF NewConfig, TypeInv, TypeOK
    <2>3. config'.gen \in {config.gen, next} /\ live' \in {live, target}
      BY <1>0, <1>1, <2>2, HalfWrittenType DEF WriteConfig
    <2> QED
      BY <1>0, <2>1, <2>3 DEF InstalledInv, Installed
  <1>2. CASE WriteConfigRest
    BY <1>0, <1>2 DEF WriteConfigRest, Goto, InstalledInv, Installed
  <1>3. CASE BumpEpoch
    <2>1. UNCHANGED <<config, live>> /\ pc = "bump"
          /\ \/ pc' \in {"clear_old", "finish"} /\ epoch' \in {NextEpoch(epoch), NextEpoch(0)}
             \/ pc' = "r_rules" /\ epoch' = epoch
      BY <1>3 DEF BumpEpoch, Goto
    <2>2. NextEpoch(epoch) # 0 /\ NextEpoch(0) # 0
      BY <1>0, NextEpochNonZero, ZeroInRange DEF TypeInv, TypeOK, MapsTypeOK
    <2> QED
      BY <1>0, <2>1, <2>2 DEF InstalledInv, Installed
  <1>4. CASE ClearOld
    <2>1. UNCHANGED <<config, live, epoch>> /\ pc = "clear_old" /\ pc' \in {"clear_old", "finish"}
      BY <1>4 DEF ClearOld, ClearGeneration, Goto
    <2> QED
      BY <1>0, <2>1 DEF InstalledInv, Installed
  <1>5. CASE Finish
    <2>1. UNCHANGED <<config, live, epoch>> /\ pc = "finish" /\ pc' = "idle"
      BY <1>5 DEF Finish, Goto, mapVars
    <2> QED
      BY <1>0, <2>1 DEF InstalledInv, Installed
  <1> QED
    BY <1>1, <1>2, <1>3, <1>4, <1>5

(* A rollback puts back the configuration of a whole policy, or is the one *)
(* of the first load, which ends main.                                     *)
LEMMA RestoreInstalled ==
    ASSUME DaemonInv, UNCHANGED main, RestoreConfig \/ RestoreConfigRest
    PROVE  InstalledInv'
  <1> USE DEF AfterFirstLoad
  <1>0. /\ UNCHANGED <<snap, next, epoch>> /\ pc \in {"r_config", "r_config_rest"}
        /\ TypeInv /\ InstalledInv /\ main \in {"first_load", "loading"}
    BY DEF RestoreConfig, RestoreConfigRest, DaemonInv, MainInv
  <1>1. pc' = "idle" => result'.status = "failed"
    BY <1>0 DEF RestoreConfig, RestoreConfigRest, ReturnError, Goto, TypeInv, TypeOK
  <1>2. pc' \in {"idle", "r_config_rest"} /\ (pc' = "r_config_rest" => snap.have)
    BY DEF RestoreConfig, RestoreConfigRest, ReturnError, Goto
  <1>3. \/ UNCHANGED <<config, live>>
        \/ snap.have /\ config'.gen \in {config.gen, snap.config.gen}
                     /\ live' \in {live, snap.live}
    <2>1. CASE RestoreConfigRest
      BY <2>1, <1>0 DEF RestoreConfigRest, InstalledInv
    <2>2. CASE RestoreConfig
      BY <2>2, <1>0, PartTypes, HalfWrittenType DEF RestoreConfig
    <2> QED
      BY <2>1, <2>2
  <1>4. main = "loading" => Installed'
    BY <1>0, <1>3 DEF InstalledInv, Installed
  <1> QED
    BY <1>0, <1>1, <1>2, <1>4 DEF InstalledInv

(* The invariant is inductive. *)
LEMMA DaemonInvInductive ==
    ASSUME DaemonInv, [DaemonNext]_allVars
    PROVE  DaemonInv'
  <1>1. CASE DaemonNext
    <2>1. TypeInv'
      <3>1. CASE Next
        BY <3>1, NextTyped DEF DaemonInv
      <3>2. CASE UNCHANGED vars
        BY <3>2 DEF vars, mapVars, loadVars, DaemonInv, TypeInv, TypeOK, MapsTypeOK
      <3> QED
        BY <1>1, <3>1, <3>2, DaemonStepIsLoaderStep
    <2>2. /\ reload_requested' \in BOOLEAN /\ stop_requested' \in BOOLEAN
          /\ attached' \in BOOLEAN
      BY <1>1, Zenon
         DEF DaemonNext, MainStep, Start, FillTailCall, FirstLoadReturns, Attach,
             Loop, ReloadReturns, Poll, PollFails, LoadRuns, Sighup, Sigterm,
             EditPolicy, ReadFile, Leave, daemonVars, DaemonInv
    <2>3. ReadInv' /\ disk' \in Directories /\ MainInv'
      BY <1>1, NextRead, NextMain
    <2>4. InstalledInv'
      <3>1. CASE ~LoadRuns
        BY <1>1, <3>1, MainInstalled
      <3>2. CASE LoadRuns
        <4>1. UNCHANGED main /\ LoadStep
          BY <3>2 DEF LoadRuns, daemonVars
        <4> QED
          BY <2>1, <4>1, MiddleInstalled, DeletionsInstalled, SnapshotInstalled,
             SwitchInstalled, RestoreInstalled DEF LoadStep
      <3> QED
        BY <3>1, <3>2
    <2> QED
      BY <2>1, <2>2, <2>3, <2>4 DEF DaemonInv
  <1>2. CASE UNCHANGED allVars
    <2>1. UNCHANGED vars /\ UNCHANGED daemonVars
      BY <1>2 DEF allVars
    <2> QED
      BY <2>1 DEF vars, mapVars, loadVars, daemonVars, DaemonInv, ReadInv, MainInv,
         InstalledInv, Installed, TypeInv, TypeOK, MapsTypeOK
  <1> QED
    BY <1>1, <1>2

(* THEOREM: the invariant holds in every state of the daemon, whichever    *)
(* map operations fail, discarded errors included.                         *)
THEOREM DaemonCorrect == DaemonSpec => []DaemonInv
  <1>1. DaemonInv /\ [DaemonNext]_allVars => DaemonInv'
    BY DaemonInvInductive
  <1> QED
    BY <1>1, InitDaemon, PTL DEF DaemonSpec

(* THEOREM: the variables of main keep their types; tails does not pass    *)
(* the eight targets and no load reads a sixth file.                       *)
THEOREM DaemonTypeCorrect == DaemonSpec => []DaemonTypeOK
  <1>1. DaemonInv => DaemonTypeOK
    <2> SUFFICES ASSUME DaemonInv PROVE DaemonTypeOK
      OBVIOUS
    <2>1. Len(texts) < 5 /\ \A f \in DOMAIN texts : texts[f] \in Texts[f]
      BY DEF DaemonInv, ReadInv
    <2> QED
      BY <2>1 DEF DaemonInv, DaemonTypeOK, MainInv, TypeInv
  <1> QED
    BY <1>1, DaemonCorrect, PTL

(* THEOREM: hooks run only on maps that hold a whole policy, under an      *)
(* epoch and generation other than those of zeroed maps, with all          *)
(* tail-call targets filled in (main, mcp_bpf_attach).                     *)
THEOREM AttachedToPolicyAlways == DaemonSpec => []AttachedToPolicy
  <1>1. DaemonInv => AttachedToPolicy
    BY DEF DaemonInv, MainInv, InstalledInv, Installed, AfterFirstLoad, AttachedToPolicy
  <1> QED
    BY <1>1, DaemonCorrect, PTL

-----------------------------------------------------------------------------
(* The daemon and the loader. *)

(* THEOREM: main drives mcp_policy_load_dir as PolicyLoader's environment  *)
(* may, reading its five files one by one while they are edited: every     *)
(* behaviour of the daemon is one of the loader.                           *)
THEOREM DaemonImplementsLoader == DaemonSpec => Spec
  <1>1. DaemonInit => Init
    BY DEF DaemonInit
  <1>2. DaemonInv /\ [DaemonNext]_allVars => [Next]_vars
    BY DaemonStepIsLoaderStep DEF allVars
  <1> QED
    BY <1>1, <1>2, DaemonCorrect, PTL DEF DaemonSpec, Spec

(* THEOREM: a reload by SIGHUP is atomic: it implements the register.      *)
THEOREM DaemonReloadIsAtomic == DaemonSpec => AtomicReload
  BY DaemonImplementsLoader, ReloadIsAtomic, PTL

(* THEOREM: between two reloads the indexes hold the active generation     *)
(* only, and there is always room for the next reload.                     *)
THEOREM DaemonLeavesRoom ==
    ASSUME "epoch" \notin FaultPoints
    PROVE  DaemonSpec => [](OnlyActiveGeneration /\ SpaceSuffices)
  BY DaemonImplementsLoader, OnlyActiveGenerationAlways, SpaceAlwaysSuffices, PTL

-----------------------------------------------------------------------------
(* The GUI process. *)

(* Until stop_gui_process is done nobody has waited for the child, from    *)
(* its first look at the child on there is one, and the waiting loop goes  *)
(* on only while tries are left.                                           *)
GuiInv ==
    /\ GuiTypeOK
    /\ leaving # "done" => gui # "reaped"
    /\ leaving \notin {"run", "done"} => gui # "none"
    /\ leaving \in {"run", "check", "term", "wait"} => tries < WaitTries

(* GuiInv is inductive. *)
LEMMA GuiInvStep == GuiInv /\ [GuiNext]_guiVars => GuiInv'
<1> SUFFICES ASSUME GuiInv, [GuiNext]_guiVars
             PROVE  GuiInv'
  OBVIOUS
<1> USE WaitTriesAssumption DEF GuiInv, GuiTypeOK
<1>1. CASE LaunchGui
  BY <1>1 DEF LaunchGui
<1>2. CASE GuiExits
  BY <1>2 DEF GuiExits
<1>3. CASE GuiDies
  BY <1>3 DEF GuiDies
<1>4. CASE StopGui
  BY <1>4 DEF StopGui
<1>5. CASE CheckExited
  BY <1>5 DEF CheckExited, Waits
<1>6. CASE Terminate
  BY <1>6 DEF Terminate
<1>7. CASE AwaitExit
  BY <1>7 DEF AwaitExit, Waits
<1>8. CASE Kill
  BY <1>8 DEF Kill
<1>9. CASE Reap
  BY <1>9 DEF Reap
<1>10. CASE UNCHANGED guiVars
  BY <1>10 DEF guiVars
<1> QED
  BY <1>1, <1>2, <1>3, <1>4, <1>5, <1>6, <1>7, <1>8, <1>9, <1>10
  DEF GuiNext, LeaveStep

(* It holds throughout, and with it the types: the loop polls at most      *)
(* WaitTries times before SIGKILL (stop_gui_process).                      *)
THEOREM GuiTypeCorrect == GuiSpec => [](GuiInv /\ GuiTypeOK)
<1>1. GuiInit => GuiInv
  BY WaitTriesAssumption DEF GuiInit, GuiInv, GuiTypeOK
<1>2. GuiInv => GuiTypeOK
  BY DEF GuiInv
<1> QED
  BY <1>1, <1>2, GuiInvStep, PTL DEF GuiSpec

(* main signals only a pid that is still its child's (stop_gui_process).   *)
THEOREM SignalsAlwaysHitOwnChild == GuiSpec => SignalsHitOwnChild
<1>1. GuiInv /\ [GuiNext]_guiVars => [sent' # sent => gui \in {"running", "zombie"}]_guiVars
  BY DEF GuiInv, GuiTypeOK, GuiNext, LeaveStep, LaunchGui, GuiExits, GuiDies, StopGui,
         CheckExited, Terminate, AwaitExit, Kill, Reap, guiVars
<1> QED
  BY <1>1, GuiTypeCorrect, PTL DEF GuiSpec, SignalsHitOwnChild
=============================================================================
