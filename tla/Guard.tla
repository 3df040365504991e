-------------------------------- MODULE Guard --------------------------------
(***************************************************************************)
(* The whole guard: the loader changing the maps while tasks run through   *)
(* the hooks.  Every interleaving of a map operation of the loader with a  *)
(* step of a hook is a behaviour.                                          *)
(***************************************************************************)
EXTENDS PolicyLoader, HookPipeline

CONSTANT
    Preemptible   \* may a task preempt another one inside a hook?

ASSUME PreemptibleAssumption == Preemptible \in BOOLEAN

(* rule_count counts every rule that the indexes are filled from.          *)
ASSUME RuleCountAssumption ==
    \A p \in Policies : ~p.settings.hasRules =>
        \A kind \in Kinds : p.index[kind] = EmptySlice
ASSUME NoActionAssumption == None \notin Actions

guardVars == <<vars, hookVars>>

(* main attaches the hooks after its first load, and gives up if it fails. *)
Attached == result.gen # 0
GaveUp == ~Attached /\ result.status = "failed"

(* The parts of a load that hooks can notice: the switch of configuration  *)
(* and epoch, and the rollback, which rewrites active entries in place.    *)
SwitchPcs == {"config_rest", "bump"}
Changing == pc \in SwitchPcs \cup RestorePcs

GuardInit == Init /\ HooksInit

-----------------------------------------------------------------------------
(* A step of the loader that hooks can notice marks every run it overlaps. *)
Overlapped ==
    [t \in Tasks |-> IF (Changing \/ Changing') /\ run[t].pc # "done"
                       THEN [run[t] EXCEPT !.dirty = TRUE] ELSE run[t]]

(* EpochMod - 1 bounds the number of loads: no epoch value comes back. *)
Load ==
    /\ ~GaveUp
    /\ \/ /\ epoch + 1 < EpochMod
          /\ \E files \in Policies \cup {Malformed} : Begin(files)
       \/ LoadStep
    /\ run' = Overlapped
    /\ UNCHANGED <<l1, scratch>>

(* BPF LSM programs run with migration but not preemption disabled. *)
CpuFree(c) == Preemptible \/ \A t \in Tasks : run[t].cpu = c => run[t].pc = "done"

EnterHook(t) ==
    /\ Attached
    /\ \E c \in Cpus, hook \in Hooks, obj \in Objects :
           CpuFree(c) /\ Enter(t, c, hook, obj, live, Changing)
    /\ UNCHANGED vars

(* A load rewrites the selectors from its clearing of them to its switch. *)
ScopeSettled == pc \notin {"scope_clear", "scope_write", "config", "unstage"}

EnterScope(t) ==
    /\ CheckScope(t, ScopeSettled)
    /\ UNCHANGED vars

RunHook(t) == HookStep(t) /\ UNCHANGED vars

EvictEntry == Evict /\ UNCHANGED vars

GuardNext ==
    \/ Load
    \/ \E t \in Tasks : EnterHook(t) \/ EnterScope(t) \/ RunHook(t)
    \/ EvictEntry

GuardSpec == GuardInit /\ [][GuardNext]_guardVars

-----------------------------------------------------------------------------
(* What a policy promises, by its rules alone. *)

PromiseL2(p, hook, obj) ==
    LET flags == p.settings.flags
    IN  CASE obj.class = "unnamed" -> Deny
          [] obj.class = "otherFamily" -> Allow
          [] obj.class = "special" /\ SkipL2Safe \notin flags -> Allow
          [] (obj.class = "directory" /\ hook = Read
               /\ SkipL2Safe \notin flags /\ SkipDirRead \in flags) -> Allow
          [] OTHER -> None

PromiseL3(p, hook, obj) ==
    LET slice == p.index[IndexOf(hook)]
        exact == Lookup(slice, KeysOf(hook, obj))
        rule  == IF exact = None /\ hook = Connect
                   THEN Lookup(slice, obj.anyPort) ELSE exact
    IN  IF Applies(rule, hook) THEN rule.action ELSE p.settings.default

Promise(p, hook, obj) ==
    IF PromiseL2(p, hook, obj) # None THEN PromiseL2(p, hook, obj)
                                      ELSE PromiseL3(p, hook, obj)

(* What may be cached for a resource: its own decision, or, where follow-  *)
(* ups are cached, the decision taken when it was opened.                  *)
Promises(p, hook, rid) ==
    {Promise(p, h, o) :
        h \in {hook} \cup (IF /\ hook \in {Read, Write}
                              /\ CacheFileFollowups \in p.settings.flags
                             THEN {FileOpen} ELSE {}),
        o \in {x \in Objects : x.rid = rid /\ hook \in HooksOf(x)}}

(* The entries that L1 would return now. *)
ValidEntries == {e \in (DOMAIN l1) \X Cpus : l1[e[1]][e[2]].epoch = epoch}
Coherent(e) == l1[e[1]][e[2]].act \in Promises(live, e[1][2], e[1][3])

GuardTypeOK ==
    /\ TypeOK
    /\ DOMAIN l1 \subseteq CacheKeys
    /\ \A key \in DOMAIN l1 : l1[key] \in
           [Cpus -> [epoch : Epochs, act : Actions, dirty : BOOLEAN]]
    /\ \A c \in Cpus : scratch[c] \in Objects \cup {None}
    /\ \A t \in Tasks : run[t].pc \in RunPcs /\ run[t].act \in Actions

(* Between the switch of the configuration and the bump of the epoch, or   *)
(* the undoing of the switch if the bump fails.                            *)
Switching == pc \in SwitchPcs \/ (pc \in RestorePcs /\ config.gen = next)

(* Outside the switch of configuration and epoch, a valid cache entry that *)
(* was stored by a run which no policy change overlapped holds a decision  *)
(* of the installed policy, on every CPU: bumping the epoch forgets every  *)
(* decision of the old policy, rolling back needs no bump, and the zeroed  *)
(* slots of other CPUs are never taken for an ALLOW.                       *)
CleanEntriesCoherent ==
    (~Switching /\ ~masked) =>
        \A e \in ValidEntries : l1[e[1]][e[2]].dirty \/ Coherent(e)

(* A run returns a decision of its policy, blocks exactly when that is     *)
(* DENY and the policy enforces, and its event, unless lost, tells so.     *)
Decided(r) == r.act \in Promises(r.pol, r.hook, r.obj.rid)
                        \cup {Promise(r.pol, r.hook, r.obj)}
MustBlock(r) == r.act = Deny /\ r.pol.settings.enforce
EventTells(r) ==
    r.event \in IF r.act = Allow THEN {"none"}
                ELSE {"lost", IF MustBlock(r) THEN "blocked" ELSE "passed"}
Obeys(t, r) ==
    IF r.inScope
      THEN Decided(r) /\ r.blocked = MustBlock(r) /\ EventTells(r)
      ELSE r.scopeSettled => ~ScopeMatches(r.pol.settings, ScopeOf(r.pol), t)

(* A run that no change of policy overlaps, and that was not served by the *)
(* cached decision of one that was, returns what the installed policy      *)
(* promises for its object, blocks exactly when that is DENY and the       *)
(* policy enforces, and its event, unless lost, tells the same; a task is  *)
(* let through unexamined only if the profile does not select it.          *)
CleanRunObeysPolicy ==
    \A t \in Tasks :
        (run[t].pc = "done" /\ run[t].pol # None /\ ~run[t].dirty /\ ~masked) =>
            Obeys(t, run[t])

(* README.md:67: L1 hits "only need to check that the cached decision was  *)
(* made under the current policy epoch".  Once a load is over, every       *)
(* decision that L1 would return is one of the installed policy.           *)
EpochMeansCurrentPolicy ==
    (pc = "idle" /\ ~masked) => \A e \in ValidEntries : Coherent(e)

(* tests/test_atomic_reload.sh:129: the "old deny policy" is "to remain    *)
(* active after failed reload".  After a load that failed, every decision  *)
(* that L1 would return is still one of the policy that it left installed. *)
FailedLoadKeepsDecisions ==
    (pc = "idle" /\ result.status = "failed" /\ ~masked) =>
        \A e \in ValidEntries : Coherent(e)

(* README.md:81: "Evaluate a resource once at allocation/open/connect/exec *)
(* time."  What an undisturbed run decides in L2 or L3 is the installed    *)
(* policy's decision for the run's own resource.                           *)
OwnResourceDecides ==
    \A t \in Tasks :
        (/\ run[t].pc = "done" /\ run[t].pol # None /\ run[t].inScope
         /\ run[t].layer > 1 /\ ~run[t].dirty /\ ~masked) =>
            run[t].act = Promise(run[t].pol, run[t].hook, run[t].obj)

(* README.md:276: "Matching processes use the active policy".  A task that *)
(* the installed profile selects is not let through as out of scope.       *)
MatchingTasksAreGuarded ==
    \A t \in Tasks :
        (run[t].pc = "done" /\ run[t].pol # None /\ ~run[t].dirty /\ ~masked) =>
            (ScopeMatches(run[t].pol.settings, ScopeOf(run[t].pol), t)
                => run[t].inScope)

-----------------------------------------------------------------------------
(* The inductive invariant behind the safety properties.  All of it but    *)
(* the types holds as long as no error was discarded.                      *)

RunType == [pc : RunPcs, hook : Hooks, obj : Objects \cup {None},
            cpu : Cpus \cup {None}, key : Objects \cup {None}, gen : Gens,
            act : Actions, layer : 0 .. 3,
            event : {"none", "lost", "blocked", "passed"}, blocked : BOOLEAN,
            inScope : BOOLEAN, scopeSettled : BOOLEAN,
            pol : Lives \cup {None}, dirty : BOOLEAN]

InFlight(t) == run[t].pc # "done"

(* Types, with what the steps of a run under way rely on: its object and   *)
(* CPU are there, and a path was read before the scratch buffer is used.   *)
HookTypeInv ==
    /\ DOMAIN l1 \subseteq CacheKeys
    /\ \A key \in DOMAIN l1 : l1[key] \in
           [Cpus -> [epoch : Epochs, act : Actions, dirty : BOOLEAN]]
    /\ l1 = [key \in DOMAIN l1 |-> l1[key]]
    /\ scratch \in [Cpus -> Objects \cup {None}]
    /\ run \in [Tasks -> RunType]
    /\ \A t \in Tasks : InFlight(t) =>
           /\ run[t].obj \in Objects /\ run[t].cpu \in Cpus
           /\ run[t].hook \in HooksOf(run[t].obj)
           /\ (\/ run[t].pc = "l2name"
               \/ run[t].pc = "l3gen" /\ run[t].hook \in {Exec, FileOpen}) =>
                  scratch[run[t].cpu] \in Objects
           /\ run[t].pc \in {"l3look", "l3any"} => run[t].key \in Objects

(* The settings and selectors in the maps, and in the snapshot, are those  *)
(* of the policy whose rules are.                                          *)
ViewInv ==
    /\ pc \in {"idle", "snapshot"} =>
           config.settings = live.settings /\ scope = ScopeOf(live)
    /\ pc \notin {"idle", "snapshot"} =>
           snap.config.settings = snap.live.settings /\ snap.scope = ScopeOf(snap.live)
    /\ pc \in {"clear_next", "write", "rules"} => scope = snap.scope
    /\ pc \in {"clear_old", "finish"} => scope = ScopeOf(target)

(* From the first load on the epoch is not the zero of a blank slot, and   *)
(* it does not wrap.                                                       *)
EpochInv ==
    /\ Attached => result.epoch # 0
    /\ pc \in {"clear_old", "finish"} => epoch # 0
    /\ pc \notin {"idle", "clear_old", "finish"} => epoch + 1 < EpochMod

(* Tasks inside a hook are on different CPUs. *)
CpuInv ==
    \A t, u \in Tasks :
        (InFlight(t) /\ InFlight(u) /\ run[t].cpu = run[u].cpu) => t = u

(* How far a run on policy r.pol has come, with path in the scratch buffer *)
(* of its CPU and gen the active generation.                               *)
Sound(r, path, gen) ==
    /\ r.pc # "scope" => r.inScope
    /\ r.pc # "ret" => r.event = "none"
    /\ r.pc = "l2name" => r.hook = Exec /\ path = r.obj
    /\ r.pc = "l2dir" => /\ r.hook = Read /\ r.obj.class = "directory"
                         /\ SkipL2Safe \notin r.pol.settings.flags
    /\ r.pc \in {"l3", "l3none", "l3path", "l3gen", "l3look", "l3any", "l3def"} =>
           PromiseL2(r.pol, r.hook, r.obj) = None
    /\ r.pc = "l3none" => ~r.pol.settings.hasRules
    /\ r.pc = "l3gen" /\ r.hook \in {Exec, FileOpen} => path = r.obj
    /\ r.pc \in {"l3look", "l3any"} => r.key = r.obj /\ r.gen = gen
    /\ r.pc = "l3any" =>
           r.hook = Connect /\ Lookup(r.pol.index[NetworkTrie], r.obj.lpm) = None
    /\ r.pc = "l3def" => PromiseL3(r.pol, r.hook, r.obj) = r.pol.settings.default
    /\ r.pc \in {"store", "follow", "followRead", "followWrite"} =>
           r.act = Promise(r.pol, r.hook, r.obj)
    /\ r.pc \in {"follow", "followRead", "followWrite"} => r.hook = FileOpen
    /\ r.pc \in {"followRead", "followWrite"} =>
           CacheFileFollowups \in r.pol.settings.flags
    /\ r.pc \in {"event", "ret"} => Decided(r)
    /\ r.pc = "event" => r.act # Allow
    /\ r.pc = "ret" => EventTells(r)

(* A run that no change of policy has overlapped so far works on the       *)
(* installed policy, and has come to the point where it is by that policy. *)
RunInv(t) ==
    (InFlight(t) /\ ~run[t].dirty) =>
        /\ ~Changing /\ run[t].pol = live
        /\ Sound(run[t], scratch[run[t].cpu], config.gen)

(* The policy that the clean entries of the current epoch stand for. *)
CachedPolicy == IF Changing THEN snap.live ELSE live

(* No entry is from the future, and a clean one of the current epoch holds *)
(* a decision of the cached policy.                                        *)
CacheInv ==
    /\ (DOMAIN l1 # {} \/ \E t \in Tasks : InFlight(t)) => Attached
    /\ \A key \in DOMAIN l1 : \A c \in Cpus :
           /\ l1[key][c].epoch <= epoch
           /\ (l1[key][c].epoch = epoch /\ ~l1[key][c].dirty) =>
                  l1[key][c].act \in Promises(CachedPolicy, key[2], key[3])

(* In every reachable state in which no error was discarded, whatever the  *)
(* loader and the hooks are doing, each run and each cache entry that no   *)
(* change of policy disturbed is as the installed policy has it.           *)
GuardInv ==
    /\ LoaderInv
    /\ HookTypeInv
    /\ CpuInv
    /\ ~masked => /\ ViewInv /\ EpochInv /\ CacheInv
                  /\ \A t \in Tasks : RunInv(t)
    /\ CleanRunObeysPolicy
=============================================================================
