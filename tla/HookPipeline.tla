----------------------------- MODULE HookPipeline -----------------------------
(***************************************************************************)
(* The LSM programs of bpf/mcp_guard.bpf.c: each hook is an L1 program     *)
(* that tail-calls an L2 and an L3 program.  A run of a hook is a sequence *)
(* of steps, one for each read or write of a map that another process can  *)
(* change between two of them.  Reads whose order cannot matter (they hit  *)
(* the task's own cache entry, or can be moved next to each other) share a *)
(* step.                                                                   *)
(*                                                                         *)
(* Tail calls find their programs: bpf_loader.c fills the program arrays   *)
(* before any hook is attached, and per-CPU arrays have an element for     *)
(* every CPU, so mcp_tail_fail_ret is not reached.                         *)
(***************************************************************************)
EXTENDS GuardMaps, Sequences

CONSTANTS
    Tasks,        \* threads: the pid and tgid of a cache key
    Cpus,
    Objects,      \* programs, files and peer addresses
    Rids,         \* non-zero resource ids
    IdOf,         \* IdOf[t][m]: the selector that t presents to scope map m
    L1Size        \* max_entries of l1_cache

(* class: what L2 looks at.  lpm: the keys of the path or command trie, or *)
(* of the network trie with the object's port, that are prefixes of the    *)
(* object, longest first.  anyPort: the same with port 0.  ino: the key of *)
(* the resource hash.                                                      *)
Classes == {"program", "unnamed", "regular", "directory", "special",
            "inet", "otherFamily"}
ObjectType == [class : Classes, rid : Rids \cup {None}, lpm : Seq(Keys),
               anyPort : Seq(Keys), ino : Keys \cup {None}]

ASSUME ObjectsAssumption ==
    /\ Objects \subseteq ObjectType
    /\ None \notin Rids /\ None \notin Objects
    /\ IdOf \in [Tasks -> [ScopeMaps -> Ids]]
    /\ L1Size \in Nat \ {0}

VARIABLES
    l1,           \* l1_cache: LRU hash of per-CPU values
    scratch,      \* the path in each CPU's scratch buffer
    run           \* the run of a hook that each task is in, or its last one

hookVars == <<l1, scratch, run>>

CacheKeys == Tasks \X Hooks \X Rids

RunPcs == {"scope", "l1", "l2", "l2name", "l2dir", "l3", "l3none", "l3path", "l3gen",
           "l3look", "l3any", "l3def", "store", "follow", "followRead",
           "followWrite", "event", "ret", "done"}

(* A finished run of a hook that did nothing. *)
NoRun == [pc |-> "done", hook |-> Exec, obj |-> None, cpu |-> None,
          key |-> None, gen |-> 0, act |-> Allow, layer |-> 0,
          event |-> "none", blocked |-> FALSE,
          inScope |-> FALSE, scopeSettled |-> FALSE, pol |-> None,
          dirty |-> FALSE]

HooksInit ==
    /\ l1 = [k \in {} |-> None]
    /\ scratch = [c \in Cpus |-> None]
    /\ run = [t \in Tasks |-> NoRun]

-----------------------------------------------------------------------------
(* The parts of a decision, for a slice of an index. *)

(* An LPM lookup returns the longest matching entry. *)
Lookup(slice, keys) ==
    LET hits == {i \in DOMAIN keys : slice[keys[i]] # None}
    IN  IF hits = {} THEN None
        ELSE slice[keys[CHOOSE i \in hits : \A j \in hits : i <= j]]

(* A rule found but not meant for the hook falls to the default action. *)
Applies(rule, hook) == rule # None /\ hook \in rule.hooks

IndexOf(hook) ==
    CASE hook = Exec           -> CommandTrie
      [] hook = FileOpen       -> PathTrie
      [] hook = Connect        -> NetworkTrie
      [] hook \in {Read, Write} -> ResourceHash

(* file_permission has no path: it looks up the inode number only. *)
KeysOf(hook, obj) ==
    IF hook \notin {Read, Write} THEN obj.lpm
    ELSE IF obj.ino = None THEN <<>> ELSE <<obj.ino>>

HooksOf(obj) ==
    CASE obj.class \in {"program", "unnamed"}                -> {Exec}
      [] obj.class \in {"regular", "directory", "special"} -> {FileOpen, Read, Write}
      [] obj.class \in {"inet", "otherFamily"}               -> {Connect}

(* mcp_scope_matches, on a configuration and contents of the scope maps. *)
ScopeMatches(settings, tables, t) ==
    \/ ~settings.scoped
    \/ \E m \in ScopeMaps : tables[m][IdOf[t][m]] = settings.owner

-----------------------------------------------------------------------------
(* The steps of a run. *)

Jump(t, label) == run' = [run EXCEPT ![t].pc = label]

Decide(t, act, layer, label) ==
    run' = [run EXCEPT ![t].pc = label, ![t].act = act, ![t].layer = layer]

(* Only a decision other than ALLOW is sent to the ring buffer. *)
EventOrRet(act) == IF act = Allow THEN "ret" ELSE "event"

(* A task enters a hook.  p and dirty are the history that Guard records:  *)
(* the policy in force, and whether it is being changed.                   *)
Enter(t, cpu, hook, obj, p, dirty) ==
    /\ run[t].pc = "done"
    /\ hook \in HooksOf(obj)
    /\ run' = [run EXCEPT ![t] = [NoRun EXCEPT !.pc = "scope", !.hook = hook,
                                      !.obj = obj, !.cpu = cpu, !.pol = p,
                                      !.dirty = dirty]]
    /\ UNCHANGED <<l1, scratch>>

(* A mistake: only the comm is looked up. *)
CheckScopeComm(t, settled) ==
    /\ run[t].pc = "scope"
    /\ LET in == \/ ~config.settings.scoped
                 \/ scope[ScopeComm][IdOf[t][ScopeComm]] = config.settings.owner
       IN  run' = [run EXCEPT ![t].pc = IF in THEN "l1" ELSE "done",
                              ![t].inScope = in,
                              ![t].scopeSettled = settled]
    /\ UNCHANGED <<l1, scratch>>

(* mcp_scope_matches.  An instant at which no selector of t is present     *)
(* exists whenever its three lookups can all miss, so they are one step.   *)
CheckScope(t, settled) ==
    /\ run[t].pc = "scope"
    /\ LET in == ScopeMatches(config.settings, scope, t)
       IN  run' = [run EXCEPT ![t].pc = IF in THEN "l1" ELSE "done",
                              ![t].inScope = in,
                              ![t].scopeSettled = settled]
    /\ UNCHANGED <<l1, scratch>>

CacheKey(t, hook) == <<t, hook, run[t].obj.rid>>

(* A mistake: the epoch is not compared. *)
CachedAnyEpoch(t) ==
    LET key == CacheKey(t, run[t].hook)
    IN  IF key \in DOMAIN l1 THEN l1[key][run[t].cpu] ELSE None

(* mcp_l1_lookup: this CPU's value of the entry, if its epoch is current. *)
Cached(t) ==
    LET key == CacheKey(t, run[t].hook)
    IN  IF /\ key \in DOMAIN l1
           /\ l1[key][run[t].cpu].epoch = epoch
          THEN l1[key][run[t].cpu]
          ELSE None

(* mcp_read_bprm_filename and mcp_read_file_path write the CPU's scratch. *)
ReadPath(t) == scratch' = [scratch EXCEPT ![run[t].cpu] = run[t].obj]

L1Lookup(t) ==
    /\ run[t].pc = "l1"
    /\ IF run[t].hook = Exec THEN ReadPath(t) ELSE UNCHANGED scratch
    /\ IF Cached(t) = None
         THEN Jump(t, "l2")
         ELSE run' = [run EXCEPT ![t].pc = EventOrRet(Cached(t).act),
                                 ![t].act = Cached(t).act,
                                 ![t].layer = 1,
                                 ![t].dirty = @ \/ Cached(t).dirty]
    /\ UNCHANGED l1

(* mcp_l2_file_decide reads the flags twice, the second time only for a    *)
(* directory that is read; what mcp_l2_socket_decide allows is not cached. *)
L2Decide(t) ==
    /\ run[t].pc = "l2"
    /\ LET obj == run[t].obj
           safe == SkipL2Safe \notin config.settings.flags
       IN  \/ /\ run[t].hook = Exec
              /\ ReadPath(t)
              /\ Jump(t, "l2name")
           \/ /\ obj.class = "special" /\ safe
              /\ Decide(t, Allow, 2, "store")
              /\ UNCHANGED scratch
           \/ /\ obj.class = "otherFamily"
              /\ Decide(t, Allow, 2, "ret")
              /\ UNCHANGED scratch
           \/ /\ obj.class = "directory" /\ safe /\ run[t].hook = Read
              /\ Jump(t, "l2dir")
              /\ UNCHANGED scratch
           \/ /\ \/ obj.class \in {"regular", "inet"}
                 \/ obj.class = "special" /\ ~safe
                 \/ obj.class = "directory" /\ ~(safe /\ run[t].hook = Read)
              /\ Jump(t, "l3")
              /\ UNCHANGED scratch
    /\ UNCHANGED l1

L2Directory(t) ==
    /\ run[t].pc = "l2dir"
    /\ IF SkipDirRead \in config.settings.flags
         THEN Decide(t, Allow, 2, "store")
         ELSE Jump(t, "l3")
    /\ UNCHANGED <<l1, scratch>>

(* mcp_l2_exec_decide looks at the name in the scratch buffer. *)
L2Name(t) ==
    /\ run[t].pc = "l2name"
    /\ IF scratch[run[t].cpu].class = "unnamed"
         THEN Decide(t, Deny, 2, "store")
         ELSE Jump(t, "l3")
    /\ UNCHANGED <<l1, scratch>>

(* mcp_policy_has_rules at the head of the L3 programs. *)
L3HasRules(t) ==
    /\ run[t].pc = "l3"
    /\ Jump(t, IF config.settings.hasRules THEN "l3path" ELSE "l3none")
    /\ UNCHANGED <<l1, scratch>>

(* Without rules a default of ALLOW is final; socket_connect does not      *)
(* cache it.                                                               *)
L3NoRules(t) ==
    /\ run[t].pc = "l3none"
    /\ IF config.settings.default = Allow
         THEN Decide(t, Allow, 3, IF run[t].hook = Connect THEN "ret" ELSE "store")
         ELSE Jump(t, "l3path")
    /\ UNCHANGED <<l1, scratch>>

L3Path(t) ==
    /\ run[t].pc = "l3path"
    /\ IF run[t].hook \in {Exec, FileOpen} THEN ReadPath(t) ELSE UNCHANGED scratch
    /\ Jump(t, "l3gen")
    /\ UNCHANGED l1

(* Build the lookup key: the active generation, and the path in scratch.   *)
L3Key(t) ==
    /\ run[t].pc = "l3gen"
    /\ run' = [run EXCEPT
                 ![t].pc  = IF config.settings.hasRules THEN "l3look" ELSE "l3def",
                 ![t].gen = config.gen,
                 ![t].key = IF run[t].hook \in {Exec, FileOpen}
                              THEN scratch[run[t].cpu] ELSE run[t].obj]
    /\ UNCHANGED <<l1, scratch>>

(* Search one index under the generation read before. *)
L3Search(t, keys, none) ==
    LET rule == Lookup(idx[IndexOf(run[t].hook)][run[t].gen], keys)
    IN  IF rule = None THEN Jump(t, none)
        ELSE IF Applies(rule, run[t].hook) THEN Decide(t, rule.action, 3, "store")
        ELSE Jump(t, "l3def")

(* A mistake: no second lookup with port 0. *)
L3LookupOnce(t) ==
    /\ run[t].pc = "l3look"
    /\ L3Search(t, KeysOf(run[t].hook, run[t].key), "l3def")
    /\ UNCHANGED <<l1, scratch>>

L3Lookup(t) ==
    /\ run[t].pc = "l3look"
    /\ L3Search(t, KeysOf(run[t].hook, run[t].key),
                IF run[t].hook = Connect THEN "l3any" ELSE "l3def")
    /\ UNCHANGED <<l1, scratch>>

(* mcp_l3_ipv4_decide tries again with port 0. *)
L3AnyPort(t) ==
    /\ run[t].pc = "l3any"
    /\ L3Search(t, run[t].key.anyPort, "l3def")
    /\ UNCHANGED <<l1, scratch>>

L3Default(t) ==
    /\ run[t].pc = "l3def"
    /\ Decide(t, config.settings.default, 3, "store")
    /\ UNCHANGED <<l1, scratch>>

-----------------------------------------------------------------------------
(* After the decision. *)

ZeroSlot == [epoch |-> 0, act |-> Allow, dirty |-> FALSE]

(* A mistake: resource id 0 is cached. *)
StoreAny(t, hook) ==
    LET key   == CacheKey(t, hook)
        value == [epoch |-> epoch, act |-> run[t].act, dirty |-> run[t].dirty]
    IN  l1' = [k \in DOMAIN l1 \cup {key} |->
                  IF k = key THEN [c \in Cpus |-> value] ELSE l1[k]]

(* mcp_l1_store: resource id 0 is not cached; the epoch is read now.  An   *)
(* update from a program sets this CPU's value; in a new element the       *)
(* values of the other CPUs are zero.  A full cache makes room by Evict.   *)
Store(t, hook) ==
    LET key   == CacheKey(t, hook)
        value == [epoch |-> epoch, act |-> run[t].act, dirty |-> run[t].dirty]
        slots0 == IF key \in DOMAIN l1 THEN l1[key] ELSE [c \in Cpus |-> ZeroSlot]
    IN  IF run[t].obj.rid = None THEN UNCHANGED l1
        ELSE /\ Cardinality(DOMAIN l1 \cup {key}) <= L1Size
             /\ l1' = [k \in DOMAIN l1 \cup {key} |->
                          IF k = key THEN [slots0 EXCEPT ![run[t].cpu] = value]
                                     ELSE l1[k]]

StoreDecision(t) ==
    /\ run[t].pc = "store"
    /\ Store(t, run[t].hook)
    /\ Jump(t, IF run[t].hook = FileOpen THEN "follow" ELSE EventOrRet(run[t].act))
    /\ UNCHANGED scratch

(* A mistake: the flag is not looked at. *)
FollowUpsAlways(t) ==
    /\ run[t].pc = "follow"
    /\ Jump(t, "followRead")
    /\ UNCHANGED <<l1, scratch>>

(* mcp_cache_file_followups. *)
FollowUps(t) ==
    /\ run[t].pc = "follow"
    /\ Jump(t, IF CacheFileFollowups \in config.settings.flags
                 THEN "followRead" ELSE EventOrRet(run[t].act))
    /\ UNCHANGED <<l1, scratch>>

FollowRead(t) ==
    /\ run[t].pc = "followRead"
    /\ Store(t, Read)
    /\ Jump(t, "followWrite")
    /\ UNCHANGED scratch

FollowWrite(t) ==
    /\ run[t].pc = "followWrite"
    /\ Store(t, Write)
    /\ Jump(t, EventOrRet(run[t].act))
    /\ UNCHANGED scratch

(* A mistake: MODE_AUDIT blocks too. *)
BlocksAlways(t) == run[t].act = Deny
Blocks(t) == run[t].act = Deny /\ config.settings.enforce

(* mcp_emit_event: a full ring buffer loses the event. *)
EmitEvent(t) ==
    /\ run[t].pc = "event"
    /\ \E sent \in {IF Blocks(t) THEN "blocked" ELSE "passed", "lost"} :
           run' = [run EXCEPT ![t].pc = "ret", ![t].event = sent]
    /\ UNCHANGED <<l1, scratch>>

(* mcp_recorded_action_ret reads enforce again.  A finished run keeps only *)
(* what the properties speak of, which is nothing if a change of policy    *)
(* overlapped it.                                                          *)
Return(t) ==
    /\ run[t].pc = "ret"
    /\ run' = [run EXCEPT ![t] =
                  IF @.dirty THEN NoRun
                  ELSE [@ EXCEPT !.pc = "done", !.blocked = Blocks(t),
                                 !.gen = 0, !.key = None]]
    /\ UNCHANGED <<l1, scratch>>

(* The LRU map may drop an element at any time. *)
Evict ==
    /\ \E key \in DOMAIN l1 : l1' = [k \in DOMAIN l1 \ {key} |-> l1[k]]
    /\ UNCHANGED <<scratch, run>>

HookStep(t) ==
    \/ L1Lookup(t) \/ L2Decide(t) \/ L2Directory(t) \/ L2Name(t)
    \/ L3HasRules(t) \/ L3NoRules(t) \/ L3Path(t) \/ L3Key(t) \/ L3Lookup(t)
    \/ L3AnyPort(t) \/ L3Default(t)
    \/ StoreDecision(t) \/ FollowUps(t) \/ FollowRead(t) \/ FollowWrite(t)
    \/ EmitEvent(t) \/ Return(t)
=============================================================================
