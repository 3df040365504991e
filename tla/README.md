# A TLA+ verification project for policy-tlb (MCP Guard)

policy-tlb is a Linux security monitor.  eBPF programs on LSM hooks decide
whether an agent's process may run a program, open, read or write a file, or
connect to an IPv4 peer.  A user-space daemon parses a policy directory, writes
it into BPF maps, and replaces it on SIGHUP while the hooks keep running.
Decisions are cached per CPU ("policy TLB") and forgotten all at once by moving a
global epoch.

What is hard about it is the meeting of the two sides: the daemon performs
dozens of separate `bpf(2)` calls per reload, any of which can fail, and the hooks
read the same maps between any two of them, with no lock.  This project models
that meeting, checks it with TLC, and proves it with TLAPS: the loader alone, the
loader under running hooks, and the hooks under a running loader.  Around it stand
models of the daemon's other parts: how policy files are read, the start-up
sequence, metrics, the socket and its GUIs.

File references are to `src/`, the repository.

## 1. Inventory

| Part | Source | State | Operations | Correct when |
|---|---|---|---|---|
| BPF maps | `bpf/maps.bpf.h`, `include/*.h` | policy_config, three LPM tries and a hash keyed by generation, three scope maps, policy_rules, global_epoch, l1_cache, scratch, metrics, ring buffer | map lookups, updates, deletes, LRU eviction | readers never see a mixture that no policy accounts for |
| Policy loader | `loader/policy_loader.c` | parsed policy, snapshot, staged generation | `mcp_policy_load_dir`: parse, snapshot, validate, stage, switch, bump, clean; roll back on any error | staging is invisible; a failed load changes nothing; the epoch moves last |
| L1 | `bpf/l1_fast_path.bpf.c` | l1_cache: (pid, tgid, hook, resource) to per-CPU (epoch, action) | lookup, store | a hit is a decision of the installed policy |
| L2 | `bpf/l2_semi_fast_path.bpf.c` | none | class of the file, family of the peer, name of the program | follows the policy flags |
| L3 | `bpf/l3_slow_path.bpf.c` | none | scope check, longest-prefix and hash lookups, default action, event, metric | the longest matching rule of one policy |
| Hooks | `bpf/mcp_guard.bpf.c` | scratch path and start time per CPU | four L1 programs, each with tail calls to L2 and L3 | blocks exactly the denials of an enforcing policy |
| Daemon | `loader/main.c` | reload and stop flags, policy_result, status and metric files | load, attach, poll, reload on SIGHUP, stop | a signal is never lost; no hook runs without a policy |
| Policy files | `loader/policy_loader.c` | the texts of five files | field lookup by text search, rule objects, paths, CIDR blocks, trie keys | every decision is the one the file spells out |
| Metrics | `bpf/l3_slow_path.bpf.c`, `loader/main.c` | per-CPU counters and histograms by hook, layer and action | record, read, publish | totals are those of some moment; nothing is counted twice |
| GUI process | `loader/main.c` | pid of the child | launch, terminate, kill, wait | no signal to a stranger, no zombie, no hang |
| BPF loader | `loader/bpf_loader.c` | skeleton, links | open, fill program arrays, attach | tail calls find their target |
| Ring buffer reader | `loader/ringbuf_reader.c` | libbpf ring buffer | poll | events arrive in order |
| Socket server | `loader/unix_socket_server.c` | up to 16 client descriptors | accept, broadcast, drop | a connection has no gaps; every client is served or told to go |
| GUI | `gui/mcp_guard_gui/` | event list, filters, status | receive, parse, filter | shows what the daemon publishes |
| Scripts, tests, experiments | `scripts/`, `tests/`, `experiments/` | none | set-up, end-to-end tests, benchmarks | not part of the running system |

Interactions: loader and hooks share the maps, and nothing else; the hooks share
l1_cache and scratch among themselves; the daemon calls the loader and is
interrupted by signals; events flow from the hooks through the ring buffer to the
daemon, which forwards them over the socket to the GUI.

The hard behaviours, listed with their lines under `hazards` in
`PROJECT.json`, are of five kinds:

* *interleaving*: a hook that read the generation, the settings or a rule before
  the loader changed it, and acts on it afterwards;
* *structures changed in place*: scope maps carry no generation, and a rollback
  deletes and reinserts active rules;
* *partial failure*: each of the error paths of a load, some taken after the
  visible switch;
* *boundaries*: generation and epoch wrap and skip 0, the value of zeroed memory;
  two generations share an index sized for two and a snapshot sized for one;
* *liveness*: deletion loops end, a SIGHUP during a reload is honoured, a GUI that
  hangs does not keep the daemon from leaving.

## 2. Modules

| Module | Models | Composes |
|---|---|---|
| `GuardMaps` | the maps the loader writes and the hooks read; policies as data | |
| `PolicyLoader` | `mcp_policy_load_dir` | extends `GuardMaps` |
| `HookPipeline` | L1, L2, L3 and the hooks | extends `GuardMaps` |
| `PolicyRegister` | what a load promises: an atomic register of policies | refined by `PolicyLoader` |
| `Guard` | loader and hooks interleaved; what a policy promises | `PolicyLoader` + `HookPipeline` |
| `Daemon` | `main`: tail calls, first load, attach, signal loop; the five files read one by one | extends `PolicyLoader` |
| `PolicyText` | the text search that stands for a JSON parser; the three kinds of files | |
| `LpmIndex` | rules to trie keys, and the L3 lookups | extends `PolicyText` |
| `PolicyDocuments` | files being written and loaded; what a file means | extends `LpmIndex` |
| `Telemetry` | recording, adding up and publishing of metrics | |
| `GuiProcess` | the GUI as a child of `main` | |
| `EventStore` | what a GUI keeps of events: window and counts | |
| `EventFeed` | socket server and GUI clients | extends `EventStore` |
| `PolicyLoaderProofs`, `LoaderRoomProofs` | theorems about `PolicyLoader` | the second extends the first |
| `GuardProofs` | theorems about `Guard` | extends `PolicyLoaderProofs` |
| `DaemonProofs` | theorems about `Daemon` and `GuiProcess` | extends `LoaderRoomProofs` |
| `FeedProofs` | theorems about `EventFeed` | |
| `FoldProofs` | lemmas about folds, sums, minima and maxima over finite sets | |
| `LpmProofs` | theorems about `LpmIndex` | extends `FoldProofs` |
| `TelemetryProofs` | theorems about `Telemetry` | extends `FoldProofs` |
| `SmallPolicies`, `MCPolicyLoader`, `MCGuard`, `MCGuardStocks`, `MCDaemon`, `MCDaemonParts`, `MCEventFeed` | instances for TLC | |

A definition introduced by a comment "A mistake" is not used by any specification:
it is a plausible bug that, put in place of the definition it stands before, must
make a named property fail (`mutants` in `PROJECT.json`).

### GuardMaps

A *policy* is what parsing a directory yields: settings (the fields of
`mcp_policy_config` that a hook reads), one partial function from keys to rules
for each of the four indexes, and the selectors of the profile.  A key of an index
stands for an LPM prefix or an inode number; the generation, the other component
of every key in the code, is explicit: `idx[kind][gen][key]`.  `slots` is
policy_rules.  Arrays start zeroed, and a zeroed configuration is a policy too
(`ZeroPolicy`: system-wide, allow everything, not enforcing).

### PolicyLoader

The variable `pc` names the next operation of a load.  Each update or delete
of a map entry that a hook can read is a step of its own.  Each lookup,
iteration, update and delete may fail, if its kind is in `FaultPoints` and fewer
than `MaxFaults` have failed.

| `pc` | Code |
|---|---|
| idle → snapshot (`Begin`) | the five files are parsed, or the load returns |
| snapshot (`SnapshotMaps`, `SnapshotFails`) | `snapshot_policy_maps`, next generation, `validate_policy_state` |
| clear_next, write | `clear_*_generation`, `write_*_trie`, `write_resource_hash` |
| rules | `write_rules` |
| scope_clear, scope_write | `write_scope_maps` |
| config, config_rest | the update of policy_config, in two halves |
| bump | `bump_epoch` |
| clear_old, finish | deletion of the old generation, `*result` |
| unstage | `clear_*_generation` on an error path; `upto` says of how many indexes |
| r_rules ... r_config_rest | `restore_policy_maps` |

Choices worth a reader's attention:

* The snapshot is one step: the loader is the only writer of what it reads.
* policy_rules is written in one step: the linear search that would read it
  (`mcp_l3_string_decide`) is reached for no rule type any hook passes.
* policy_config is copied over the value in use, so readers may see the new
  generation with the old settings, or the reverse: `HalfWritten`.
* Errors that the code discards are modelled as discarded.  A failing lookup of
  policy_config counts as an empty map, one of a rule as an empty slot, one of
  the epoch as epoch 0; a `bpf_map_get_next_key` that fails ends a loop as if the
  map had no more keys, be it the snapshot's (`SeenOfIndex`, `SeenOfScope`) or a
  deletion's (`IterationFails`); `restore_policy_maps` returns its first error to
  callers that ignore it.  The history variable `masked` records that one of
  these happened; the safety properties speak of behaviours where none did.
* `live`, the policy that was staged under the active generation, is history as
  well, and so are the fields `epoch` and `live` of the snapshot.
* No loop looks at the result of `bpf_map_delete_elem`: it starts over, finds the key
  again and tries again (`DeleteFails`).  So a deletion that failed every time would
  keep a load for ever, with every later signal waiting behind it.  In the model a
  deletion fails at most `MaxFaults` times, and `LoadTerminates` says that
  the loops get over that; it does not say that there is an end without that bound.

`PolicyRegister` says what all this is for.  It knows three phases (idle, loading,
committed) and a register that a `Commit` replaces whole under a new stamp; a load
that fails leaves it alone.  The refinement mapping (`PhaseOf`, `RequestOf`,
`InstalledOf`) reads the register off the maps.  The commit is the step in which
the epoch moves: until then caches are valid under the old epoch, and every failure
leads back.  What is installed is therefore the old policy, taken from the
snapshot, until the bump, and what the maps hold after it.  Once an error has been
discarded (`masked`) the register promises nothing.

### HookPipeline and Guard

`run[t]` is the run of a hook that task `t` is in: its program counter, object,
CPU, the key and generation it read, and its decision.  A run takes one step for
each read of something that the loader can change in between: scope, cache and
epoch, flags, rule count, default action, generation, index, `enforce`.  Reads are
joined where order cannot matter:

* the three scope lookups: they go pid, tgid, comm; the loader clears all three
  maps before it refills any, so if all three can miss at different times there is
  an instant at which all are absent;
* the epoch and the cache entry in L1: no other task uses this entry;
* the rule count, as it is read again next to the generation.

Objects are records: the class that L2 looks at, the resource id, the keys
that are prefixes of it, longest first, with its port and with port 0, and the
key of its inode.  `Enter` lets any task run any hook on any object.  The LRU
cache may lose an element at any time (`Evict`), and must when it is full.

`Guard` adds history to a run: the policy installed when it began (`pol`) and
whether a visible part of a load overlapped it (`dirty`).  A cached decision
carries the `dirty` of the run that stored it.  Visible are the switch (from
the first half of policy_config to the bump) and the rollback.  `Promise(p,
hook, obj)` is the specification that the pipeline is held to: a few lines that
know nothing of generations, caches or order.

### Daemon

`main` as a thread with the loader inside it; signals and edits of a policy file
come at any time.  The eight entries of the program arrays are filled one by one,
and each may fail; so may opening, loading and attaching.  A load reads the five
files one after the other (`ReadFile`), each as it is at that moment, and ends at the
first that is malformed or exceeds the common limit on rules.  So a load can install
a mixture that was never on disk.  A file is here what parsing it yields; the
parsing itself is in the next modules.

### PolicyText, LpmIndex and PolicyDocuments

The loader does not parse JSON.  `json_field` looks for the first string that spells
a key, wherever it stands, and takes what follows the next colon.  `PolicyText` does
the same on a sequence of lexemes: punctuation, numbers, booleans and strings, where
a string is a word, a path (its characters), a CIDR block or an address (its bits).
White space, escapes and buffer lengths are left out, and strings contain none of
the characters that the loader searches for.

`LpmIndex` turns rules into trie entries.  A prefix is a sequence whose first
elements are the generation and, for networks, the port; its length is the prefix
length that `ipv4_prefix_bits` and the path lengths yield.  A path prefix is one of
characters, as in the code: a rule for `/a` also matches `/ab`.

`PolicyDocuments` writes files piece by piece from a given stock, loads them, and
compares.  `MeantDecision` is the reference: the last of the longest matching rules,
the port's own rules first.  The tries still hold a rule of the former generation
that matches everything.

Files with a string that spells the name of a field are excluded where the loader
takes it for that field (`Confusing`).  This is a real limit of the code that no
document contradicts, so it is not a finding.  For example,
`"flags":["skip_l2_safe"],"enforce":false` clears the flag that it names, since the
`false` of the next field is taken for it; a rule with the name `action` takes its
action from the field behind its name, and an action that the loader does not know
allows.  The definitions of `PolicyText` reproduce this.

Also as in the code, and perhaps not as an operator expects: an unknown action
allows; a network rule whose address cannot be read, or whose prefix is longer than
an address, is skipped without an error, while a prefix length that is no number
counts as 0 and matches every address; a rule for a port wins over a longer prefix
for any port; the flags of a single rule are loaded, but no hook reads them.

### Telemetry

A per-CPU value is updated field by field without protection.  The model has two
writes, the counters and then the bucket of the histogram, which is where a reader in
between sees a difference.  The reader is no more atomic.  It takes one slot after the
other, of each the values of one CPU after the other (that is what the kernel's
`bpf_map_lookup_elem` does), and of each value the counters first
(`CopyCounters`) and then the buckets (`CopyBuckets`), so that a hook in between
makes the histogram exceed the count.  A lookup that fails makes
`read_metrics_snapshot` skip the slot and publish the rest (`SkipSlot`).
`metrics[slot][cpu]` has the slots of the decisions that the instance knows; the
others stay zero and change no sum.  `pending[cpu]` is the bucket that a hook has
still to count, if it is between its writes.  `samples[d][ns]`, the number of
decisions of a kind and a duration, is history, and so is `floor`, the number of
decisions when the snapshot was begun.  Durations are positive, because a minimum of
0 means that there is no sample yet.

### GuiProcess

The child may exit at any time, and may ignore SIGTERM.  Until `main` has waited
for it, its pid is its own, also when it has exited.  `stop_gui_process` is one step
for each `waitpid` and `kill`; `WaitTries` is 20 in the code.

### EventFeed and EventStore

The daemon's thread accepts, then writes a line to one slot after the other; `pc`,
`at` and `line` say where it is, and `clients` and `backlog` hold connections.  A
GUI is a record: whether it runs, is connected or has its reconnect timer armed, the
unread lines in its socket (`wire`), whether the daemon hung up (`hup`), and its
event store.  `next`, the number of the line it should read next, is history, as
is `sent`.

* A line is written whole or not at all.  Lines have less than 768 bytes, and a
  Unix stream socket takes a write of that size as one buffer or says EAGAIN.  So
  the GUI's buffer for partial lines stays empty.
* `WriteKills`: a write to a client that left raises SIGPIPE.  `main` handles
  SIGINT, SIGTERM and SIGHUP only, so the daemon ends there and `close_client`,
  meant for this case, is not reached: after a GUI quits, the next line ends the
  daemon.  `Restart` is an operator.
* `Connect` is `connect_to_loader` and what follows if a daemon listens,
  `ConnectFails` what follows if none does: on Unix a `QLocalSocket` emits
  `errorOccurred` while it is still connecting and no `disconnected` afterwards, so
  the test in `_on_error` fails and nothing arms the timer again.  This is taken from
  Qt, whose source is not in the repository.  Finding 7 rests on it; the properties that
  hold do not.
* The five counters of the GUI are alike; the model has those of the action.
* The rows of the table are left out: each change of window or filters computes them
  anew from both, so nothing can go wrong over several steps.

## 3. What the runs check

| Run | Instance | Shows |
|---|---|---|
| LoaderRollback | 4 policies, up to 2 failing operations of any kind anywhere, generations and epochs mod 4 | `TypeOK`, `ActiveIndexIntact`, `RollbackRestores`, `ReportMatchesMaps`, `StagingInvisible`, `EpochCommits`, the inductive invariant `LoaderInv`, the refinement `AtomicReload`, and `LoadTerminates` |
| LoaderLeftovers | one failing operation | `OnlyActiveGeneration` is violated when the epoch update fails |
| GuardDecisions | seven worlds of 2 to 4 policies and 1 to 3 objects each, two loads; in one of them 2 CPUs and one failing operation | `CleanEntriesCoherent`, `CleanRunObeysPolicy`, `GuardTypeOK`, and the inductive invariant `GuardInv` |
| GuardStaleEpoch | two policies without rules, one allows and one denies | `EpochMeansCurrentPolicy` is violated |
| GuardScopeGap | one scoped policy | `MatchingTasksAreGuarded` is violated |
| GuardFailedLoad | one failing index update | `FailedLoadKeepsDecisions` is violated |
| GuardPreempt | 2 tasks, preemption | `OwnResourceDecides` is violated |
| DaemonReload | 2 profiles (one malformed) × 3 command files, signals, edits between any two reads, one failing update (other than the epoch's) or deletion | `DaemonTypeOK`, `AttachedToPolicy`, `OnlyActiveGeneration`, `SpaceSuffices`, the inductive invariants `RoomInv` and `DaemonInv`, and `SignalledPolicyInstalled` |
| DaemonParts | files of up to 4 pieces; 3 samples on 2 CPUs, 2 snapshots; a GUI process | `ConfigAsWritten`, `ProfileAsWritten`, `DecisionAsWritten`, `AccessAsWritten`, `SlotsAsRecorded`, `SnapshotWithinRun`, `HistogramLag`, the inductive invariant `TelemetryInv`, `GuiTypeOK`, `SignalsHitOwnChild`, `GuiIsReaped` |
| FeedDelivery | 2 GUIs, 2 slots, 3 launches, 3 lines | `FeedTypeOK`, `NoGap`, `NobodyForgotten`, `DashboardAgrees`, the inductive invariant `FeedInv`, and `Reconnects` |
| FeedQuit | one GUI, one line | `OutlivesGuis` is violated |
| FeedRestart | one GUI, one restart of the daemon | `RunningGuiConnects` is violated |

The main properties, in words:

* `ActiveIndexIntact`: the slice of the index that hooks search holds exactly the
  rules of the policy installed under that generation, at every moment of every
  load, with two exceptions that the code really makes: the index that a
  rollback is rewriting, and the abandoned generation while a rollback undoes a
  switch whose epoch update failed.
* `RollbackRestores`: a load that fails after its snapshot leaves configuration,
  epoch, selectors, policy_rules and active rules as it found them.
* `EpochCommits`: the epoch moves only when rules, selectors and configuration of
  the new policy are all in place, and never to 0.
* `CleanEntriesCoherent`: outside the switch, a cache entry that L1 would return,
  stored by a run that no visible change overlapped, holds a decision of the
  installed policy.  So a bump forgets everything old, a rollback needs no bump,
  and the zeroed values on other CPUs are never believed.
* `CleanRunObeysPolicy`: a run that no visible change overlapped returns what the
  policy promises, blocks exactly when that is a denial and the policy
  enforces, and says so in its event; a task passes unexamined only if the profile
  does not select it (or the selectors were being rewritten: see the findings).
* `AtomicReload`: every behaviour of the loader is one of `PolicyRegister`: the
  whole policy changes in one step, with the epoch, or not at all, and the result
  that `main` reports says which.
* `OnlyActiveGeneration`, `SpaceSuffices`: between loads the indexes hold the active
  generation only, so the next load finds room for its own; both need that the
  epoch update does not fail (finding 4).
* `AttachedToPolicy`: hooks run only on an installed policy with all tail calls in
  place.
* `SignalledPolicyInstalled`: the policy on disk at a SIGHUP is installed, whatever
  mixture of files a load under way has read, unless a file changes again, a map
  operation fails, or the program ends.
* `DecisionAsWritten`: from the text of a rule file to the verdict on an exec, an
  open or a connect: the file is refused exactly for an unknown flag, a
  relative path or too many rules, and otherwise its most specific rule decides.  `AccessAsWritten` says the same of
  reads and writes, which go by inode; `ConfigAsWritten` and `ProfileAsWritten` of
  the other two files, and that no profile is scoped over nobody.
* `SlotsAsRecorded`: a slot holds exactly the decisions of its hook, layer and
  action.  `SnapshotWithinRun`: a published total is at most the number of decisions
  when it is published, and its layers add up to it; if no slot was skipped it is at
  least the number when reading began, and no less than any total before it.
  `HistogramLag`: a histogram that was read lacks at most one sample per CPU, and
  exceeds its count by no more than was recorded while it was being read.
* `SignalsHitOwnChild`, `GuiIsReaped`: `main` signals nothing but its own child,
  and gets past it.
* `NoGap`: within a connection a GUI reads every line published since it connected,
  in order and once.  This needs the accept in `publish_line`, for clients in the
  backlog, and the hang-up on EAGAIN, for clients that lag.
* `NobodyForgotten`: a GUI that believes it is connected is in exactly one slot or in
  the backlog, or was hung up on; all others hold nothing that looks alive.
* `DashboardAgrees`: incremental counts equal a recount of the window, and the risk
  shown is that of the latest event.
* `Reconnects`: a GUI that the running daemon hung up on, because it lagged or found no
  free slot, connects again as long as both run.  That a GUI connects whichever of
  the two is started first, `RunningGuiConnects`, is not so (finding 7).
* `LoadTerminates`: a load ends, also if lookups, iterations, updates and deletions
  fail on its way, each deletion only so often.

### Bounds

* `GenMod` and `EpochMod` stand for 2^32 and 2^64.  In the loader's runs they are
  4, so generation and epoch wrap; the interesting cases are 0, which must be
  skipped, and the reuse of a generation, which its clearing precedes.  In the
  guard's runs `EpochMod` also bounds the loads: `Load` starts none that would
  wrap the epoch, because an epoch that comes back after 2^64 loads would make old
  entries valid again.  Two loads after start-up are enough for an old and a new
  policy in either order; a third adds no new relation between an entry and the
  installed policy.
* Two keys give one index two entries (an iteration with a middle) and one object
  two matching prefixes.  `MaxRules` is 2, so an index is full at 4 entries and
  the snapshot at 2: both limits are met exactly.
* Two failures suffice for a failed load and a failure within its rollback.
* One task in the passing guard runs: a cache key contains the task, and without
  preemption the scratch buffer is not shared, so tasks meet only through what
  the loader writes.  GuardPreempt has two.
* `L1Size` 1 makes the cache full all the time; entries for different keys
  never interact.
* GuardDecisions has seven worlds.  A behaviour keeps to the policies, objects and
  CPUs of one, chosen at its start, so the run is the sum of seven instances and not
  their product.  A class of objects comes with each pair of policies that it tells
  apart: files and devices with a policy that caches follow-ups and one that skips
  L2 for safe files (and does not enforce), directories with policies that do and do
  not skip them; programs with profiles by comm, by pid and for another
  agent; peers with a port, without, and of another family.  Only the seventh world
  has failing operations and two CPUs.
* GuardStaleEpoch's two policies have no rules, so that no emptied index
  plays a part in the decision that is stored too late.
* In FeedDelivery two slots fill up with the connection of a GUI that left and
  those of two that run, which takes three launches; `Room` 2 and three lines make a
  socket full and put two lines in order in one; `Window` 2 makes the window slide
  with events of different positions in it.  The backlog needs no bound of
  its own: it grows only by launches.
* DaemonReload has three command files (no rule, one, one too many) and `MaxRules`
  1, so that the limit is exceeded by a file read in the middle of a load.  With a
  profile that is broken and repaired, a load can combine a profile and a command
  file that were never on disk together.
* Metrics have decisions of two kinds, so that a slot can be skipped or read late
  while another is not, on the CPUs 0 and 1, and three samples, of which some fall
  before, some into and some after a snapshot.
* In DaemonParts `AddressBits` is 2 and `UintMax` 2, so that prefixes of every length
  and numbers at and beyond the limit occur; `FileRules` 3 with files of four
  rules, `FileScopes` 2 with one selector and an array of two.  Four rules from a
  stock of eleven contain every pair of overlapping, equal or shadowing rules in
  either order, with others between them.  The three parts share no state: metrics
  and the GUI process move only once an empty configuration is loaded, and one at a
  time, which leaves out products in which nothing new can happen.
* GuardDecisions reaches 1.3 million states, DaemonParts 590 thousand and FeedDelivery
  360 thousand, each within three minutes.

`CHECK_DEADLOCK FALSE` is set where the system may stop: the guard once its
loads are used up or it gave up, the daemon after it exits, and in DaemonParts a
file that is loaded while nothing else goes on.

### Fairness

`FairSpec` asks weak fairness of the loader's steps: each is a `bpf(2)` call that
returns.  `DaemonSpec` asks it of `MainStep`, the single thread of main;
`ring_buffer__poll` has a time-out of 250 ms.
`FeedSpec` asks it of the daemon's thread, whose sockets do not block, and of the event
loop of each GUI, whose timer fires.  `GuiFairness` asks it of `stop_gui_process` and
of the delivery of SIGKILL, which no process can refuse; not of SIGTERM.  Nothing is
asked of signals that users send, edits, failures, the hooks, or users who start and
quit GUIs.

## 4. Findings

Each is a run that ends in a violation, with the quoted claim in `PROJECT.json`.

1. *Old decisions under the new epoch* (GuardStaleEpoch).  `mcp_l1_store` reads
   the epoch when it stores, not when the run decided.  A run that takes the
   default action of the old settings, while they are being replaced, and stores
   after the bump leaves an old decision that is valid for the whole new epoch.  In
   the run the old policy allows, the new one denies, and ALLOW stays cached.
2. *Selectors vanish during every scoped reload* (GuardScopeGap).  The scope
   maps are emptied and refilled in place before the switch; a selected task that
   enters a hook in between is let through, even if the same policy is reloaded.
3. *Rollback exposes the default action* (GuardFailedLoad).  It deletes the
   active rules and reinserts them; a run in between takes the default and caches
   it under the epoch that stays current, so a failed reload does change later
   decisions.
4. *Leftovers after a failed epoch update* (LoaderLeftovers).  That error path
   does not delete the staged entries, though the README says it does.
   `OnlyActiveGeneration` and `SpaceSuffices` hold in DaemonReload because `"epoch"`
   is not one of its `FaultPoints`.
5. *Shared scratch path under preemption* (GuardPreempt).  The path lives in a
   per-CPU element between its reading and its use as a key; BPF LSM programs
   disable migration, not preemption.
6. *A GUI that quits ends the daemon* (FeedQuit).  `publish_line` writes to a
   socket whose other end is closed, without `MSG_NOSIGNAL`, and `main` leaves SIGPIPE
   at its default.
7. *A GUI gives up after one failed attempt* (FeedRestart).  `_on_error` schedules
   the next attempt only if the socket is unconnected already, which on Unix it is
   not.  A GUI that starts before its daemon, or outlives a restart that takes longer
   than its first attempt, stays without a connection; a GUI that was hung up on by a
   running daemon does connect again, since `_on_disconnected` arms the timer.

Seen while modelling, without a run: for metrics the daemon sends `total_count`, `layers`
and `ratios`, while the GUI reads `total`, `entries` and `l1_ratio`, as its sample
stream has them (`gui/samples/events.ndjson`), and shows 0; for reloads it reads
`generation`, where the daemon sends `active_generation`.

## 5. What is proved

Most invariants and action properties of the runs are theorems as well.  A run
shows a property on its small instance; the theorem shows it for every value of the
constants that satisfies the assumptions.  The inductive invariants are themselves
checked by the runs: `LoaderInv` by LoaderRollback, `GuardInv` by GuardDecisions,
`RoomInv` and `DaemonInv` by DaemonReload, `FeedInv` by FeedDelivery,
`TelemetryInv` by DaemonParts.

### The loader alone

`PolicyLoaderProofs` proves, for every set of keys, ids, owners and policies, every
`MaxRules`, every choice and number of failing operations, and every
`GenMod > 2` and `EpochMod > 2`:

| Theorem | Statement |
|---|---|
| `TypeCorrect` | `Spec => []TypeOK` |
| `LoaderCorrect` | `Spec => []LoaderInv` |
| `ActiveIndexIntactAlways` | `Spec => []ActiveIndexIntact` |
| `RollbackRestoresAlways` | `Spec => []RollbackRestores` |
| `ReportMatchesMapsAlways` | `Spec => []ReportMatchesMaps` |
| `StagingIsInvisible` | `Spec => StagingInvisible` |
| `EpochCommitsAlways` | `Spec => EpochCommits` |
| `ReloadIsAtomic` | `Spec => AtomicReload`, the refinement of `PolicyRegister` |

The assumptions are those stated in `GuardMaps` and `PolicyLoader`: policies are of
type `PolicyType`, `None` and `Malformed` are distinct from data, and the bounds are
naturals.  `GenMod > 2` is needed: with two generation numbers, skipping 0 would
leave no other generation to stage.  `EpochMod > 2` makes the epoch after a bump differ
from the one before, which a register with a new stamp for each content asks for.

None of the properties is inductive.  That a rollback restores the selectors, for
example, depends on how far its loop has come, and on the snapshot still being that
of the policy that was installed.  `LoaderInv` says what each phase may rely on, in
four parts:

* `TypeInv`: types, and that `target` and `at` are meaningful where they are used;
* `ConfigInv`: which policy the configuration names in each phase.  During the
  switch and the rollback it is either the old one or the new one, and `live`
  agrees;
* `SliceInv`: the slice of the old generation is intact until `clear_old`, except
  where a rollback rewrites it, and there it is a part of what it was; the
  slice of the new generation is complete from `rules` on, and index by index
  before that;
* `SelectorInv`: the loops over the scope maps have finished the maps before `at`.

The last three are claimed only while `~masked`, and `MaskedStays` shows that the
antecedent never returns.  There is one lemma per action for the three together, a
typing lemma for `Next`, and `StagedElsewhere`, the arithmetic fact everything
rests on: the staged generation is never the active one.

`ReloadIsAtomic` rests on the same invariant.  `InitIsRegisterInit` maps the initial
states, and `StepIsRegisterStep` each step, action by action: `Begin` is `Ask` or
`Refuse`, the bump is `Commit`, `Finish` is `Succeed`, the end of a rollback is
`Fail`, and the rest are stutters.  `StagedView` shows that at the bump the maps hold
exactly what the request describes, `CleaningKeepsView` that deleting the old
generation is not seen, and `UndecidedStutters` that a step before the commit leaves
the register alone because the snapshot stands for it.


### Room for the next load

`LoaderRoomProofs` adds, for every set of failing operations without `"epoch"`:

| Theorem | Statement |
|---|---|
| `RoomInvariant` | `Spec => []RoomInv` |
| `OnlyActiveGenerationAlways` | `Spec => []OnlyActiveGeneration` |
| `SpaceAlwaysSuffices` | `Spec => []SpaceSuffices` |

The hypothesis is finding 4: when `bump_epoch`'s update fails, the code leaves the staged
entries where they are, and the run LoaderLeftovers shows the consequence.
`RoomInv` says which slices are empty in each phase: all but two generations always,
the staged one before `write` and after `unstage`, the replaced one after
`clear_old`, and of the loops in between the indexes that they have passed.  That
`Unstage` goes only up to the index where writing stopped (`upto`) is why `write`
must promise that later indexes are still empty.  `RoomAssumption`, that the rules
of a policy give at most `MaxRules` entries per index, is the check in `add_rule`
(`policy_loader.c:457`).  Space is then a count: an index holds the active
slice and a proper part of the next one, together less than `2 * MaxRules`, and a
snapshot holds the active slice alone.

### Loader and hooks

`GuardProofs` proves, for any number of tasks, CPUs, objects and policies, any size
of the cache, and any choice and number of failing operations:

| Theorem | Statement | Needs |
|---|---|---|
| `GuardTypeCorrect` | `GuardSpec => []GuardTypeOK` | |
| `GuardImplementsLoader` | `GuardSpec => Spec` | |
| `GuardReloadIsAtomic` | `GuardSpec => AtomicReload /\ EpochCommits` | |
| `GuardCorrect` | `GuardSpec => []GuardInv` | no preemption |
| `CleanRunObeysPolicyAlways` | `GuardSpec => []CleanRunObeysPolicy` | no preemption |
| `CleanEntriesCoherentAlways` | `GuardSpec => []CleanEntriesCoherent` | no preemption |

"No preemption" is `Preemptible = FALSE`: a hook is not interrupted by another one on
its CPU.  It is needed, as finding 5 shows.  Like the runs, `GuardSpec` starts no load
that would wrap the epoch: an epoch that came back would make old entries valid.

Neither of the two properties says anything of a run under way, so they are far
from inductive.  `GuardInv` has these parts:

* `LoaderInv`, from above, and `ViewInv`: settings and selectors in the maps and in
  the snapshot are those of the policy whose rules are there.  The hooks read
  settings, selectors and rules at different times, so all three must be of one
  policy at any time outside a change.
* `HookTypeInv`: types, and that the scratch buffer of a run's CPU holds a path
  wherever the run is about to use it.
* `CpuInv`: tasks inside a hook are on different CPUs.  So what a run finds in
  scratch is what it wrote there.
* `EpochInv`: from the first load on the epoch is not 0, the value of a blank
  per-CPU slot, and it has not wrapped.
* `RunInv(t)`: a run that no change overlapped works on the installed policy and
  has come to its point *by* that policy.  `Sound` says what this means at each
  program counter: on the way to L3 the policy has no L2 verdict; at the lookup
  the key is the run's own object and the generation is the active one; at the
  port-0 lookup the first lookup had no result; and so on, up to the event.
* `CacheInv`: no entry is from the future, and a clean one of the current epoch is
  a decision of `CachedPolicy`: the installed policy or, while a load is changing
  things, the one that was installed before.  This carries entries through a
  rollback without a bump: an entry stored before a failed load must be good again
  after it.  At the bump the clause becomes vacuous, as no entry has the new epoch.

The proof has a lemma per hook step and one for the loader's steps, which leave
clean runs alone or mark them dirty.  It found a flaw of the model: the operator
that says which keys an object is looked up under (`KeysOf`) was a `CASE` with
overlapping guards, of which TLC takes the first while TLA+ leaves the choice open.
It is a conditional now, in the order of the code.

Two assumptions are new.  `RuleCountAssumption`: a policy without rules has empty
indexes, as `rule_count` counts what the indexes are filled from; L3 skips its
lookup on the strength of this.  `NoActionAssumption`: `None` is no action.

### The daemon

`DaemonProofs` proves, for all files and edits and any failing operations:

| Theorem | Statement | Needs |
|---|---|---|
| `DaemonCorrect` | `DaemonSpec => []DaemonInv` | |
| `DaemonTypeCorrect` | `DaemonSpec => []DaemonTypeOK` | |
| `AttachedToPolicyAlways` | `DaemonSpec => []AttachedToPolicy` | |
| `DaemonImplementsLoader` | `DaemonSpec => Spec` | |
| `DaemonReloadIsAtomic` | `DaemonSpec => AtomicReload` | |
| `DaemonLeavesRoom` | `DaemonSpec => [](OnlyActiveGeneration /\ SpaceSuffices)` | `"epoch" \notin FaultPoints` |

`AttachedToPolicyAlways` includes behaviours in which errors were discarded, about
which `LoaderInv` is silent.  `InstalledInv` therefore follows a weaker fact through every
phase of a load: what the snapshot holds is a policy of a nonzero generation if
the hooks are attached, so whatever a rollback puts back of it is one too.
`MainInv` ties the tail calls and the loader's phase to the place in `main`,
and `ReadInv` says that what was read so far is well-formed.

`DaemonImplementsLoader` is a refinement without a mapping: a step of `main` that
reads the last file is the loader's `Begin` with what the five files describe
together, other steps of `main` are stutters, and all that is proved of `Spec` holds
of the daemon.  It needs `DirectoriesAssumption`: `Policies` has every policy that
well-formed files can describe together, whichever mixture of old and new ones a
load reads.

### The GUI process

`DaemonProofs` also proves, for every `WaitTries > 0`:

| Theorem | Statement |
|---|---|
| `GuiTypeCorrect` | `GuiSpec => []GuiTypeOK`, with the bound on the tries |
| `SignalsAlwaysHitOwnChild` | `GuiSpec => SignalsHitOwnChild` |

Both follow from `GuiInv`: while `main` is between its first `waitpid` and its last,
the child has been launched and not been waited for, and tries are left as long as
it waits.  Neither property is inductive: where a signal is sent, nothing else says
that the pid is still the child's.

### The event feed

`FeedProofs` proves, for any number of GUIs, slots, lines and launches, any room in a
socket and any window:

| Theorem | Statement |
|---|---|
| `FeedCorrect` | `FeedSpec => []FeedInv` |
| `FeedTypeCorrect` | `FeedSpec => []FeedTypeOK` |
| `NoGapAlways` | `FeedSpec => []NoGap` |
| `NobodyForgottenAlways` | `FeedSpec => []NobodyForgotten` |
| `DashboardAgreesAlways` | `FeedSpec => []DashboardAgrees` |

`FeedInv` consists of `ProcessInv` (each GUI and its store: the counts are those of
the window), `ThreadInv` (the daemon's thread holds a line exactly while it publishes
one, and its number is `sent`), `PlaceInv` and `NoGap`.  `PlaceInv` is the heart: an
open connection is in at most one slot or one place of the backlog, never in both, and it
is in one exactly when its GUI believes itself connected and was not hung up on.
Without it `NoGap` is not inductive, since a connection in two slots would get a line
twice, and one in neither would miss it.  `NobodyForgotten` counts the places,
`PlaceInv` says the same without counting.  The lemmas about stores compare the
number of events of a kind before and after one is appended or the first is dropped.
`NoneAssumption`: `None` is neither a line nor a connection.

### Folds and sums

Metrics are added up with `SumFunction` of the community modules, which is a fold: a
recursive function on the subsets of a finite set, defined with `CHOOSE`.  That the
recursion has a solution, and that it has one only, is induction over the size of
the subsets.  `FoldProofs` does it without a theorem that takes a predicate:
`LeastNatural` says that a nonempty *set* of naturals has a least element, and the
sizes at which a claim fails form such a set.

`FoldExists` constructs the fold, `SumUnfolds` and `SumUnique` are the recursion, and
`SumStep` shows that a sum does not depend on the order of its terms.  The other
lemmas are what a specification needs: a sum splits (`SumSplit`), grows by one with
one of its terms (`SumRaised`, `NatSumRaised`), is monotone (`NatSumMonotone`), adds
termwise (`NatSumAdds`) and over parts of its index set (`NatSumApart`), is the same
by rows and by columns (`NatSumSwap`), is at most the number of its terms if these are 0 or 1
(`NatSumSmall`).  `MinIsLeast` and `MaxIsGreatest` say what `Min` and `Max` of a
finite set of naturals are.

### Metrics

`TelemetryProofs` proves, for any finite sets of CPUs, decisions and durations and any
number of samples and snapshots:

| Theorem | Statement |
|---|---|
| `TelemetryInvAlways` | `TelemetrySpec => []TelemetryInv` |
| `SlotsAlwaysAsRecorded` | `TelemetrySpec => []SlotsAsRecorded` |
| `HistogramLagAlways` | `TelemetrySpec => []HistogramLag` |
| `SnapshotWithinRunAlways` | `TelemetrySpec => SnapshotWithinRun` |

The properties speak of moments at which no hook writes, of what was read earlier,
or of a message about many slots read one after the other, and none is inductive.
`TelemetryInv` has these parts:

* `TelemetryTypeOK`: types, that a CPU is between the writes of one sample at most,
  and that at most one value is half copied, whose counters the reader has;
* `Counted`: the counts of a slot, added over the CPUs, are the samples of its
  decision, and so are its total and its buckets, if the buckets that are still
  pending are added;
* `Bounded`: a nonzero minimum or maximum on any CPU is the time of a sample, and
  every sample lies within that of some CPU;
* `Lagging`: on each CPU a count exceeds its histogram by one if the CPU is between
  its writes in this slot, and else by nothing;
* `ReadBefore`: neither the count nor the histogram that was copied is more than the
  count that is there now, as counts only grow, and a histogram that was copied,
  which is after its count was, lacks at most one sample of that count;
* `Skipped`: nothing was copied of a slot that is skipped;
* `Complete`: all slots together have all samples.  That each sample is in one slot
  only rests on `mcp_metric_index` being injective on hooks, layers and actions, which
  `SlotFacts` shows with the inverse in the loader;
* `Begun`: what the snapshot has read and what it would read of all other values now
  is together no less than what there was at its beginning, and no total that was
  published is more than that.  This sum only grows, which is why the total of a
  snapshot that no lock protects is still one of some moment, if no slot is skipped.

`HistogramLag` has no bound of its own for how far a histogram can be ahead of its
count: it can by all that was recorded while the slot was copied.  Its proof
uses `Begun` for the whole table: what the slot's histogram has beyond its count is
part of what is there now beyond what the snapshot would have, which is at most
`Recorded - floor`.

### From rules to verdicts

`LpmProofs` proves that the tries and the hash that the loader writes, and the hooks
search, mean what a list of rules means, for any rules, objects and configuration:

| Theorem | Statement |
|---|---|
| `PathDecidedByLongest` | `mcp_l3_path_trie_decide` and `mcp_l3_command_trie_decide` on the result of `write_path_trie` are `PathVerdict`: of the rules whose path begins the object's the longest decides, of equal ones the last, and without any the default |
| `PeerDecidedByPortThenLongest` | the same of `mcp_l3_ipv4_decide` and `write_network_trie`, with the rules for the port before those for any port |
| `AccessDecidedByLast` | `mcp_l3_resource_decide` on the result of `write_resource_hash` is the action of the last rule whose path has the inode |

The hypotheses are those under which the code runs: an element that was in the map
before belongs to another generation (`Foreign`; for the hash, the key is not taken),
and the rule count is 0 only if there are no rules.  The verdicts
(`PathVerdict`, `NetVerdict`, `InodeVerdict`) know no tries, no generations and no
order of writing.

The argument has two halves.  The loop of a `write_` function is a fold over the
positions of a list, of which `LoopExists` shows that it is defined and `LoopWrites`, by
induction over the positions, what it leaves (`Written`): the keys that were
written, under each the value that was written last, and else what was there.  The
lookup takes the longest of the prefixes in the trie; prefixes of one key
that have the same length are equal (`SameLengthSamePrefix`), so the longest is one
entry, and `WrittenBest` says which rule it is.

### Only model-checked

* Liveness: `LoadTerminates`, `SignalledPolicyInstalled`, `Reconnects`,
  `GuiIsReaped`.  It rests on fairness, which the prover does not handle.
* The four properties of `PolicyDocuments`.  Of `DecisionAsWritten` and
  `AccessAsWritten` the second half, from rules to verdicts, is proved (above).  The
  first, from the text of a file to its rules or fields, is not: the
  text is joined from pieces, and cut into objects again, by recursive functions over
  sequences, and where in it a search for a key ends would need an induction over
  the text for each of the loader's searches.
* What remains true once an error was discarded, other than `AttachedToPolicy` and
  types: the code promises nothing more there.

## 6. Not modelled

* `bpf/vmlinux.h`, by far the largest file of the repository (162 thousand of its 168
  thousand lines): generated declarations of kernel types, without behaviour.
* Buffer lengths, escapes and white space in policy files, and I/O errors other than
  a file that reads as malformed.  Inode numbers are looked up once: files that are
  replaced after a load would need a model of the file system.
* What a hook does when a tail call finds no target (`mcp_tail_fail_ret`) and when a
  per-CPU element is missing: `AttachedToPolicy` shows that the program arrays are
  full when hooks run.
* Preemption of a hook in the middle of a metric update by another on the same CPU;
  the text of events, status and log lines.
* Recycling of an LRU element while a program reads it.
* The ring buffer reader, a wrapper of libbpf.
* The GUI's windows, pop-ups and replay client, and how it reads the fields of
  metrics and status; the time that it waits before it reconnects; an `accept` that
  fails for another reason than EAGAIN.  User, environment and paths of the GUI
  process.
* Experiments, baselines (a guard without caches, a ptrace monitor, workloads) and
  scripts: what the guard is measured against, not parts of it.

## 7. Plan

In this order:

1. The windows in which `Guard` may depart from the policy: what a dirty run can do
   at worst.
2. What is left after a discarded error: weaker statements for `masked` behaviours.
3. The ring buffer in front of `EventFeed`, and what `main` publishes behind it.
