-------------------------------- MODULE Daemon --------------------------------
(***************************************************************************)
(* main (loader/main.c) and mcp_bpf_open_load (loader/bpf_loader.c): load  *)
(* the programs, fill the tail-call maps, load a policy, attach the hooks, *)
(* then reload on SIGHUP until SIGINT or SIGTERM.  The handler only sets   *)
(* flags; the loop looks at them between two polls of the ring buffer.     *)
(* The five policy files are read one after the other, and may be edited   *)
(* at any time, between two of these reads too.                            *)
(***************************************************************************)
EXTENDS PolicyLoader, Sequences

CONSTANT Texts    \* Texts[f]: what policy file f may hold

(* The files, in the order in which mcp_policy_load_dir reads them.        *)
ConfigFile   == 1     \* default_policy.json
ProfileFile  == 2     \* mcp_agent_profile.json
PathsFile    == 3     \* dangerous_paths.json
CommandsFile == 4     \* dangerous_commands.json
NetworkFile  == 5     \* dangerous_network.json
PolicyFiles  == 1 .. 5

(* What parsing a file yields.  A file that does not exist reads as the    *)
(* text that leaves every default in place.  The inodes of path rules are  *)
(* looked up while dangerous_paths.json is parsed.                         *)
ConfigText  == [default : Actions, enforce : BOOLEAN, flags : SUBSET Flags]
ProfileText == [scoped : BOOLEAN, owner : Owners \cup {None},
                scope : [ScopeMaps -> SUBSET Ids]]
PathsText   == [rules : Slices, inodes : Slices]

ASSUME TextsAssumption ==
    /\ DOMAIN Texts = PolicyFiles
    /\ Texts[ConfigFile] \subseteq ConfigText \cup {Malformed}
    /\ Texts[ProfileFile] \subseteq ProfileText \cup {Malformed}
    /\ Texts[PathsFile] \subseteq PathsText \cup {Malformed}
    /\ \A f \in {CommandsFile, NetworkFile} : Texts[f] \subseteq Slices \cup {Malformed}

Directories == Texts[1] \X Texts[2] \X Texts[3] \X Texts[4] \X Texts[5]

VARIABLES
    main,               \* where main is
    attached,           \* are the LSM programs attached?
    tails,              \* number of tail-call targets filled in
    reload_requested,
    stop_requested,
    disk,               \* the policy directory
    texts               \* the files that the current load has read

daemonVars == <<main, attached, tails, reload_requested, stop_requested, disk, texts>>
allVars == <<vars, daemonVars>>

(* exec, file_open, file_permission and socket_connect, L2 and L3 of each. *)
TailTargets == 8

MainPcs == {"start", "fill", "first_read", "first_load", "attach", "loop",
            "read", "loading", "poll", "exit"}

DaemonTypeOK ==
    /\ TypeOK
    /\ main \in MainPcs
    /\ attached \in BOOLEAN
    /\ tails \in 0 .. TailTargets
    /\ reload_requested \in BOOLEAN
    /\ stop_requested \in BOOLEAN
    /\ disk \in Directories
    /\ Len(texts) < 5 /\ \A f \in DOMAIN texts : texts[f] \in Texts[f]

DaemonInit ==
    /\ Init
    /\ main = "start"
    /\ attached = FALSE
    /\ tails = 0
    /\ reload_requested = FALSE
    /\ stop_requested = FALSE
    /\ disk \in Directories
    /\ texts = <<>>

(* add_rule counts the rules of the three rule files together. *)
RulesIn(f, t) ==
    IF f \notin DOMAIN t THEN {}
    ELSE {<<f, k>> : k \in Entries(IF f = PathsFile THEN t[f].rules ELSE t[f])}

RuleCount(t) == Cardinality(UNION {RulesIn(f, t) : f \in PathsFile .. NetworkFile})

(* config, scope and state once all five files are read. *)
Assemble(t) ==
    [settings |-> [default  |-> t[ConfigFile].default,
                   enforce  |-> t[ConfigFile].enforce,
                   flags    |-> t[ConfigFile].flags,
                   hasRules |-> RuleCount(t) # 0,
                   scoped   |-> t[ProfileFile].scoped,
                   owner    |-> t[ProfileFile].owner],
     index    |-> <<t[PathsFile].rules, t[CommandsFile], t[NetworkFile], t[PathsFile].inodes>>,
     scope    |-> t[ProfileFile].scope]

(* Policies has every policy that the files may describe together, however *)
(* old and new ones are mixed.                                             *)
ASSUME DirectoriesAssumption ==
    \A t \in Directories :
        ((\A f \in PolicyFiles : t[f] # Malformed) /\ ~(RuleCount(t) > MaxRules)) =>
            Assemble(t) \in Policies

(* The policy that the directory describes, or Malformed. *)
OnDisk ==
    IF (\E f \in PolicyFiles : disk[f] = Malformed) \/ RuleCount(disk) > MaxRules
      THEN Malformed
      ELSE Assemble(disk)

-----------------------------------------------------------------------------
(* The environment: handle_signal runs at any time, and so does an editor. *)

Sighup ==
    /\ main # "exit"
    /\ reload_requested' = TRUE
    /\ UNCHANGED <<vars, main, attached, tails, stop_requested, disk, texts>>

Sigterm ==
    /\ main # "exit"
    /\ stop_requested' = TRUE
    /\ UNCHANGED <<vars, main, attached, tails, reload_requested, disk, texts>>

EditPolicy ==
    /\ main # "exit"
    /\ \E f \in PolicyFiles : \E t \in Texts[f] \ {disk[f]} : disk' = [disk EXCEPT ![f] = t]
    /\ UNCHANGED <<vars, main, attached, tails, reload_requested, stop_requested, texts>>

-----------------------------------------------------------------------------
(* The label "out": everything is torn down, the programs detached. *)
Leave == main' = "exit" /\ attached' = FALSE

(* parse_args, mcp_guard_bpf__open and mcp_guard_bpf__load may fail. *)
Start ==
    /\ main = "start"
    /\ \/ main' = "fill" /\ UNCHANGED attached
       \/ Leave
    /\ UNCHANGED <<vars, tails, reload_requested, stop_requested, disk, texts>>

(* A mistake: an update that fails is passed over. *)
FillTailCallOrSkip ==
    /\ main = "fill"
    /\ tails' \in {tails, tails + 1}
    /\ main' = IF tails' = TailTargets \/ tails' = tails THEN "first_read" ELSE "fill"
    /\ UNCHANGED <<vars, attached, reload_requested, stop_requested, disk, texts>>

(* mcp_populate_tail_calls: the programs that must not attach themselves   *)
(* are put into the program arrays; one update that fails ends main.       *)
FillTailCall ==
    /\ main = "fill"
    /\ \/ /\ tails' = tails + 1
          /\ main' = IF tails' = TailTargets THEN "first_read" ELSE "fill"
          /\ UNCHANGED attached
       \/ Leave /\ UNCHANGED tails
    /\ UNCHANGED <<vars, reload_requested, stop_requested, disk, texts>>

(* load_config_file, load_profile_file and load_rule_file three times,     *)
(* each on the file as it is at that moment.  After the last one           *)
(* mcp_policy_load_dir goes on to the maps.                                *)
ReadFile ==
    /\ main \in {"first_read", "read"}
    /\ LET f        == Len(texts) + 1
           got      == Append(texts, disk[f])
           returned == IF main = "read" THEN "loading" ELSE "first_load"
       IN  IF disk[f] = Malformed \/ RuleCount(got) > MaxRules
             THEN Begin(Malformed) /\ main' = returned /\ texts' = <<>>
           ELSE IF f = 5
             THEN Begin(Assemble(got)) /\ main' = returned /\ texts' = <<>>
             ELSE texts' = got /\ UNCHANGED <<vars, main>>
    /\ UNCHANGED <<attached, tails, reload_requested, stop_requested, disk>>

(* A mistake: the status of the first load is not looked at. *)
FirstLoadIgnored ==
    /\ main = "first_load" /\ pc = "idle"
    /\ main' = "attach"
    /\ UNCHANGED <<vars, attached, tails, reload_requested, stop_requested, disk, texts>>

FirstLoadReturns ==
    /\ main = "first_load" /\ pc = "idle"
    /\ IF result.status = "ok"
         THEN main' = "attach" /\ UNCHANGED attached
         ELSE Leave
    /\ UNCHANGED <<vars, tails, reload_requested, stop_requested, disk, texts>>

(* mcp_bpf_attach, then the socket server, whose failure only disables it, *)
(* and the ring buffer, whose failure ends the program.                    *)
Attach ==
    /\ main = "attach"
    /\ \/ main' = "loop" /\ attached' = TRUE
       \/ Leave
    /\ UNCHANGED <<vars, tails, reload_requested, stop_requested, disk, texts>>

(* The flag is cleared before the policy directory is read. *)
Loop ==
    /\ main = "loop"
    /\ \/ stop_requested /\ Leave /\ UNCHANGED reload_requested
       \/ /\ ~stop_requested
          /\ IF reload_requested
               THEN main' = "read" /\ reload_requested' = FALSE
               ELSE main' = "poll" /\ UNCHANGED reload_requested
          /\ UNCHANGED attached
    /\ UNCHANGED <<vars, tails, stop_requested, disk, texts>>

(* A mistake: the flag is cleared after the load instead of before. *)
ReloadClearsFlag ==
    /\ main = "loading" /\ pc = "idle"
    /\ main' = "poll"
    /\ reload_requested' = FALSE
    /\ UNCHANGED <<vars, attached, tails, stop_requested, disk, texts>>

(* main goes on after a failed reload as after a successful one. *)
ReloadReturns ==
    /\ main = "loading" /\ pc = "idle"
    /\ main' = "poll"
    /\ UNCHANGED <<vars, attached, tails, reload_requested, stop_requested, disk, texts>>

(* ring_buffer__poll returns after 250 ms, on an event or on a signal. *)
Poll ==
    /\ main = "poll"
    /\ main' = "loop"
    /\ UNCHANGED <<vars, attached, tails, reload_requested, stop_requested, disk, texts>>

PollFails ==
    /\ main = "poll"
    /\ Leave
    /\ UNCHANGED <<vars, tails, reload_requested, stop_requested, disk, texts>>

LoadRuns == LoadStep /\ UNCHANGED daemonVars

MainStep ==
    \/ Start \/ FillTailCall \/ ReadFile \/ FirstLoadReturns \/ Attach
    \/ Loop \/ ReloadReturns \/ Poll \/ LoadRuns

DaemonNext == MainStep \/ PollFails \/ Sighup \/ Sigterm \/ EditPolicy

(* main is one thread that the kernel schedules, and none of its calls     *)
(* blocks for ever: it keeps taking steps until it exits.                  *)
DaemonSpec == DaemonInit /\ [][DaemonNext]_allVars /\ WF_allVars(MainStep)

-----------------------------------------------------------------------------
(* Properties. *)

(* The hooks are attached only to maps that hold a whole policy, under an  *)
(* epoch and a generation that zeroed map values cannot match, and with    *)
(* every tail-call target in place.                                        *)
AttachedToPolicy ==
    attached => /\ epoch # 0 /\ config.gen # 0 /\ live \in Policies
                /\ tails = TailTargets

(* A SIGHUP is not lost, whenever it arrives, and whatever mixture of old  *)
(* and new files a load under way has read: the policy that was on disk at *)
(* the signal is installed, unless a file is edited again, a map operation *)
(* fails, or the program ends.                                             *)
SignalledPolicyInstalled ==
    \A p \in {q \in Policies : Validate(q)} :
        (reload_requested /\ OnDisk = p) ~>
            ((live = p /\ pc = "idle") \/ OnDisk # p \/ faults > 0 \/ main = "exit")

-----------------------------------------------------------------------------
(* The inductive invariant behind AttachedToPolicy. *)

(* A whole policy, under an epoch and a generation that are not zero. *)
Installed == epoch # 0 /\ config.gen # 0 /\ live \in Policies

AfterFirstLoad == {"attach", "loop", "read", "loading", "poll"}

(* What has been read so far can still become a policy. *)
ReadInv ==
    /\ Len(texts) \in 0 .. 4 /\ texts = [f \in 1 .. Len(texts) |-> texts[f]]
    /\ \A f \in DOMAIN texts : texts[f] \in Texts[f] \ {Malformed}

(* Where main is, and what it has set up by then. *)
MainInv ==
    /\ main \in MainPcs
    /\ pc # "idle" => main \in {"first_load", "loading"}
    /\ attached => main \in AfterFirstLoad \ {"attach"}
    /\ tails \in 0 .. TailTargets
    /\ main \in {"start", "fill"} => tails < TailTargets
    /\ main \in {"first_read", "first_load"} \cup AfterFirstLoad => tails = TailTargets

(* Once the first load has succeeded, each later one, and each rollback,   *)
(* leaves a whole policy behind, even one that discards an error: what it  *)
(* puts back is what it found.                                             *)
InstalledInv ==
    /\ main \in AfterFirstLoad => Installed
    /\ main = "first_load" /\ pc = "idle" /\ result.status = "ok" => Installed
    /\ pc \notin {"idle", "snapshot"} => next # 0
    /\ pc \in {"bump", "clear_old", "finish"} => config.gen # 0 /\ live \in Policies
    /\ pc \in {"clear_old", "finish"} => epoch # 0
    /\ main = "loading" /\ pc \notin {"idle", "snapshot"} =>
           /\ snap.live \in Policies
           /\ snap.have => snap.config.gen # 0
    /\ pc = "r_config_rest" => snap.have

(* Whichever map operations fail, and whatever becomes of the files while  *)
(* they are read, main attaches the hooks to a whole policy, and no reload *)
(* takes it away from them.                                                *)
DaemonInv ==
    /\ TypeInv
    /\ reload_requested \in BOOLEAN /\ stop_requested \in BOOLEAN
    /\ attached \in BOOLEAN
    /\ disk \in Directories
    /\ ReadInv /\ MainInv /\ InstalledInv
=============================================================================
