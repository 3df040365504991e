------------------------------ MODULE Telemetry ------------------------------
(***************************************************************************)
(* The metrics: hooks on several CPUs count their decisions in a per-CPU   *)
(* array map (bpf/l3_slow_path.bpf.c), and the daemon adds the slots up,   *)
(* one after the other, while the hooks go on counting (loader/main.c).    *)
(*                                                                         *)
(* Slots that no decision of the instance has stay zero and change no sum: *)
(* they are left out of the map.                                           *)
(***************************************************************************)
EXTENDS Integers, Sequences, FiniteSets, FiniteSetsExt, Functions

CONSTANTS
    HookCpus,      \* possible CPUs, by number
    Decisions,     \* <<hook id, layer, action>> as common.h numbers them
    Durations,     \* nanoseconds, not zero: a zero min_ns means no sample yet
    MaxSamples,    \* bound: decisions recorded
    MaxSnapshots   \* bound: snapshots published

MetricSlots == 256
HistBuckets == 0 .. 7

ASSUME TelemetryAssumption ==
    /\ HookCpus \subseteq Nat /\ HookCpus # {} /\ IsFiniteSet(HookCpus)
    /\ Decisions \subseteq (1 .. 5) \X (1 .. 3) \X (0 .. 2)
    /\ Decisions # {} /\ IsFiniteSet(Decisions)
    /\ Durations \subseteq Nat \ {0} /\ IsFiniteSet(Durations)
    /\ MaxSamples \in Nat /\ MaxSnapshots \in Nat

VARIABLES
    metrics,       \* metrics[slot][cpu]: a struct mcp_metric_value
    pending,       \* pending[cpu]: the slot and bucket still to be counted, if any
    reader,        \* read_metrics_snapshot: the values that it has, by slot and CPU
    copied,        \* the slots and CPUs of which it has at least the counters
    copying,       \* the one of which it has the counters, but not the buckets
    skipped,       \* the slots that it could not look up
    published,     \* the messages sent to the clients, oldest first
    samples,       \* history: samples[d][ns], how often d was taken in ns
    floor          \* history: decisions recorded when the snapshot was begun

hookVars == <<metrics, pending, samples>>
readVars == <<reader, copied, copying, skipped, floor>>
telemetryVars == <<hookVars, readVars, published>>

ZeroMetric == [count |-> 0, total |-> 0, min |-> 0, max |-> 0,
               buckets |-> [b \in HistBuckets |-> 0]]

-----------------------------------------------------------------------------
(* Slots and buckets. *)

(* A mistake: the layer and the hook share bits. *)
mcp_metric_index_narrow(hook, layer, action) ==
    (hook % 8) * 8 + (layer % 8) * 4 + (action % 4)

mcp_metric_index(hook, layer, action) ==
    (hook % 8) * 32 + (layer % 8) * 4 + (action % 4)

(* The times from which on the buckets 1 to 7 count. *)
HistLimits == <<100, 500, 1000, 5000, 10000, 50000, 100000>>

(* A mistake: the buckets are numbered from one. *)
mcp_hist_bucket_past(ns) ==
    1 + Min({b \in HistBuckets : b = 7 \/ ns < HistLimits[b + 1]})

(* The first bucket whose limit is above the time. *)
mcp_hist_bucket(ns) == Min({b \in HistBuckets : b = 7 \/ ns < HistLimits[b + 1]})

(* The slots that decisions of the instance use. *)
Slots == {mcp_metric_index(d[1], d[2], d[3]) : d \in Decisions}

(* The times that are counted in a bucket. *)
BucketOf == [ns \in Durations |-> mcp_hist_bucket(ns)]
Bucketed(b) == {ns \in Durations : BucketOf[ns] = b}

(* The number of decisions recorded. *)
Recorded == SumFunction([d \in Decisions |-> SumFunction(samples[d])])

NoMetrics == [slot \in Slots |-> [cpu \in HookCpus |-> ZeroMetric]]

TelemetryInit ==
    /\ metrics = NoMetrics
    /\ pending = [cpu \in HookCpus |-> {}]
    /\ reader = NoMetrics
    /\ copied = {} /\ copying = {} /\ skipped = {}
    /\ published = <<>>
    /\ samples = [d \in Decisions |-> [ns \in Durations |-> 0]]
    /\ floor = 0

-----------------------------------------------------------------------------
(* The hooks. *)

(* A mistake: a minimum of zero is taken for a time. *)
SampledBelowOnly(m, ns) ==
    [m EXCEPT !.count = @ + 1,
              !.total = @ + ns,
              !.min = IF ns < @ THEN ns ELSE @,
              !.max = IF ns > @ THEN ns ELSE @]

Sampled(m, ns) ==
    [m EXCEPT !.count = @ + 1,
              !.total = @ + ns,
              !.min = IF @ = 0 \/ ns < @ THEN ns ELSE @,
              !.max = IF ns > @ THEN ns ELSE @]

(* mcp_record_metric writes the fields of its CPU's value one by one, and  *)
(* nothing keeps the reader out; a reader that comes between the count and *)
(* the bucket is the case that shows.                                      *)
RecordSample(cpu, d, ns) ==
    /\ pending[cpu] = {}
    /\ Recorded < MaxSamples
    /\ LET slot == mcp_metric_index(d[1], d[2], d[3])
       IN  /\ slot < MetricSlots
           /\ metrics' = [metrics EXCEPT ![slot][cpu] = Sampled(@, ns)]
           /\ pending' = [pending EXCEPT ![cpu] = {<<slot, mcp_hist_bucket(ns)>>}]
    /\ samples' = [samples EXCEPT ![d][ns] = @ + 1]
    /\ UNCHANGED <<readVars, published>>

RecordBucket(cpu) ==
    /\ \E p \in pending[cpu] :
           metrics' = [metrics EXCEPT ![p[1]][cpu].buckets[p[2]] = @ + 1]
    /\ pending' = [pending EXCEPT ![cpu] = {}]
    /\ UNCHANGED <<readVars, published, samples>>

-----------------------------------------------------------------------------
(* The daemon. *)

decode_metric_index(slot) == <<(slot \div 32) % 8, (slot \div 4) % 8, slot % 4>>

(* The values of a slot, added up over some CPUs. *)
TotalOver(values, cpus) ==
    LET mins == {values[cpu].min : cpu \in cpus} \ {0}
    IN  [count   |-> SumFunction([cpu \in cpus |-> values[cpu].count]),
         total   |-> SumFunction([cpu \in cpus |-> values[cpu].total]),
         min     |-> IF mins = {} THEN 0 ELSE Min(mins),
         max     |-> Max({values[cpu].max : cpu \in cpus}),
         buckets |-> [b \in HistBuckets |->
                         SumFunction([cpu \in cpus |-> values[cpu].buckets[b]])]]

(* A mistake: one CPU is left out. *)
SlotTotalOneShort(values) == TotalOver(values, HookCpus \ {Min(HookCpus)})

SlotTotal(values) == TotalOver(values, HookCpus)

(* The slots that are neither read nor skipped, and the CPUs of one that   *)
(* are still to be read.  Both go up.                                      *)
CpusLeft(slot) == {cpu \in HookCpus : <<slot, cpu>> \notin copied}
SlotsLeft == {slot \in Slots \ skipped : CpusLeft(slot) # {}}

SnapshotBegun == copied # {} \/ skipped # {}

(* A step of the loop over the slots: the first one begins the snapshot. *)
ReadStep ==
    /\ Len(published) < MaxSnapshots
    /\ floor' = IF SnapshotBegun THEN floor ELSE Recorded
    /\ UNCHANGED <<hookVars, published>>

(* bpf_map_lookup_elem copies the value of one CPU after the other, each   *)
(* from its first word to its last, and keeps no hook out: here the count, *)
(* the sum, the minimum and the maximum, ...                               *)
CopyCounters ==
    /\ ReadStep
    /\ copying = {} /\ SlotsLeft # {}
    /\ LET slot == Min(SlotsLeft)
           cpu  == Min(CpusLeft(slot))
       IN  /\ reader' = [reader EXCEPT ![slot][cpu] =
                            [metrics[slot][cpu] EXCEPT !.buckets = ZeroMetric.buckets]]
           /\ copied' = copied \cup {<<slot, cpu>>}
           /\ copying' = {<<slot, cpu>>}
    /\ UNCHANGED skipped

(* ... and there the buckets. *)
CopyBuckets ==
    /\ ReadStep
    /\ \E c \in copying :
           reader' = [reader EXCEPT ![c[1]][c[2]].buckets = metrics[c[1]][c[2]].buckets]
    /\ copying' = {}
    /\ UNCHANGED <<copied, skipped>>

(* A slot whose lookup fails is skipped; as nothing is kept of what it had *)
(* copied until then, it is taken to fail at once.                         *)
SkipSlot ==
    /\ ReadStep
    /\ copying = {} /\ SlotsLeft # {}
    /\ CpusLeft(Min(SlotsLeft)) = HookCpus
    /\ skipped' = skipped \cup {Min(SlotsLeft)}
    /\ UNCHANGED <<reader, copied, copying>>

CountOf(layers) ==
    SumFunction([slot \in Slots |->
                    IF decode_metric_index(slot)[2] \in layers
                    THEN SlotTotal(reader[slot]).count ELSE 0])

Layers == [L1 |-> 1, L2 |-> 2, L3 |-> 3]

(* A ratio is a pair of counts, and <<0, 1>> if there is nothing to divide. *)
Ratio(part, whole) == IF whole = 0 THEN <<0, 1>> ELSE <<part, whole>>

(* The fields of the message that goes to the clients. *)
MetricsMessage ==
    [type        |-> "metrics_snapshot",
     total_count |-> CountOf(0 .. 7),
     layers      |-> [l \in DOMAIN Layers |-> CountOf({Layers[l]})],
     ratios      |-> [l \in DOMAIN Layers |-> Ratio(CountOf({Layers[l]}), CountOf(0 .. 7))]]

SnapshotRead == SlotsLeft = {} /\ copying = {}

PublishMetrics ==
    /\ SnapshotRead
    /\ published' = Append(published, MetricsMessage)
    /\ reader' = NoMetrics /\ copied' = {} /\ skipped' = {}
    /\ UNCHANGED <<hookVars, copying, floor>>

TelemetryNext ==
    \/ \E cpu \in HookCpus, d \in Decisions, ns \in Durations : RecordSample(cpu, d, ns)
    \/ \E cpu \in HookCpus : RecordBucket(cpu)
    \/ CopyCounters
    \/ CopyBuckets
    \/ SkipSlot
    \/ PublishMetrics

TelemetrySpec == TelemetryInit /\ [][TelemetryNext]_telemetryVars

-----------------------------------------------------------------------------
(* Properties. *)

(* A slot stands for one hook, layer and action, and while no hook is      *)
(* between its two writes the slot holds exactly the decisions of that     *)
(* kind, on whichever CPUs they ran: their number, their sum, their        *)
(* shortest and longest and their distribution (mcp_metric_index,          *)
(* decode_metric_index, mcp_record_metric, read_metrics_snapshot).         *)
SlotsAsRecorded ==
    (\A cpu \in HookCpus : pending[cpu] = {}) =>
        \A d \in Decisions :
            LET slot  == mcp_metric_index(d[1], d[2], d[3])
                m     == SlotTotal(metrics[slot])
                times == {ns \in Durations : samples[d][ns] # 0}
            IN  /\ decode_metric_index(slot) = d
                /\ m.count = SumFunction(samples[d])
                /\ m.total = SumFunction([ns \in Durations |-> samples[d][ns] * ns])
                /\ times # {} => m.min = Min(times) /\ m.max = Max(times)
                /\ \A b \in HistBuckets :
                       m.buckets[b] = SumFunctionOnSet(samples[d], Bucketed(b))

(* A snapshot is not atomic, but its total is that of some moment of it:   *)
(* no more decisions than when it is published, each in one layer, and, if *)
(* no lookup failed, no fewer than when it was begun.  So the total that   *)
(* is sent goes down only if a slot was skipped (read_metrics_snapshot,    *)
(* publish_metrics_snapshot).                                              *)
SnapshotWithinRun ==
    [][published' # published =>
          LET p == published'[Len(published')]
          IN  /\ p.total_count <= Recorded
              /\ p.total_count = p.layers.L1 + p.layers.L2 + p.layers.L3
              /\ skipped = {} =>
                    /\ floor <= p.total_count
                    /\ \A i \in DOMAIN published :
                           published[i].total_count <= p.total_count]_telemetryVars

(* What is printed of a slot is torn by the hooks, but not by much: the    *)
(* histogram lacks at most one sample of each CPU, and has at most those   *)
(* more than the count that were recorded while the snapshot was read      *)
(* (mcp_record_metric against read_metrics_snapshot).                      *)
HistogramLag ==
    SnapshotRead =>
        \A slot \in Slots :
            LET m == SlotTotal(reader[slot])
            IN  m.count - SumFunction(m.buckets)
                    \in (floor - Recorded) .. Cardinality(HookCpus)

-----------------------------------------------------------------------------
(* The inductive invariant behind these properties. *)

SlotOf(d) == mcp_metric_index(d[1], d[2], d[3])

Metric == [count : Nat, total : Nat, min : Nat, max : Nat, buckets : [HistBuckets -> Nat]]

Message == [type        : {"metrics_snapshot"},
            total_count : Nat,
            layers      : [DOMAIN Layers -> Nat],
            ratios      : [DOMAIN Layers -> Nat \X Nat]]

(* One field of a slot's values, by CPU. *)
Counts(m)     == [cpu \in HookCpus |-> m[cpu].count]
Totals(m)     == [cpu \in HookCpus |-> m[cpu].total]
Filled(m, b)  == [cpu \in HookCpus |-> m[cpu].buckets[b]]

(* The buckets of a slot, added up over the CPUs. *)
Histogram(m) == [b \in HistBuckets |-> SumFunction(Filled(m, b))]

(* 1 if the CPU has counted a sample of the slot, but not yet in its       *)
(* bucket, which is one of bs.                                             *)
Behind(p, slot, bs) ==
    [cpu \in HookCpus |-> IF \E b \in bs : <<slot, b>> \in p[cpu] THEN 1 ELSE 0]

(* The time that the decisions of one kind have taken. *)
Taken(h) == [ns \in Durations |-> h[ns] * ns]

(* The decisions counted in each slot, and recorded of each kind. *)
SlotCounts(ms) == [slot \in Slots |-> SumFunction(Counts(ms[slot]))]
KindCounts(h) == [d \in Decisions |-> SumFunction(h[d])]

(* What the snapshot would have, if the hooks stopped now and every lookup *)
(* succeeded.                                                              *)
WouldRead(ms, r, cs) ==
    [slot \in Slots |-> [cpu \in HookCpus |->
        IF <<slot, cpu>> \in cs THEN r[slot][cpu] ELSE ms[slot][cpu]]]

TelemetryTypeOK ==
    /\ metrics \in [Slots -> [HookCpus -> Metric]]
    /\ pending \in [HookCpus -> SUBSET (Slots \X HistBuckets)]
    /\ \A cpu \in HookCpus : \A p, q \in pending[cpu] : p = q
    /\ reader \in [Slots -> [HookCpus -> Metric]]
    /\ copied \subseteq Slots \X HookCpus
    /\ copying \subseteq copied
    /\ \A p, q \in copying : p = q
    /\ skipped \subseteq Slots
    /\ published \in Seq(Message)
    /\ samples \in [Decisions -> [Durations -> Nat]]
    /\ floor \in Nat

(* The values of a slot stand for the samples of its decision. *)
Counted ==
    \A d \in Decisions :
        /\ SumFunction(Counts(metrics[SlotOf(d)])) = SumFunction(samples[d])
        /\ SumFunction(Totals(metrics[SlotOf(d)])) = SumFunction(Taken(samples[d]))
        /\ \A b \in HistBuckets :
               SumFunction(Filled(metrics[SlotOf(d)], b))
                 + SumFunction(Behind(pending, SlotOf(d), {b}))
                   = SumFunctionOnSet(samples[d], Bucketed(b))

(* A minimum or maximum other than zero is the time of a sample, and no    *)
(* sample is outside of them all.                                          *)
Bounded ==
    \A d \in Decisions :
        LET m == metrics[SlotOf(d)]
        IN  /\ \A cpu \in HookCpus :
                  /\ m[cpu].min # 0 => m[cpu].min \in Durations /\ samples[d][m[cpu].min] # 0
                  /\ m[cpu].max # 0 => m[cpu].max \in Durations /\ samples[d][m[cpu].max] # 0
            /\ \A ns \in Durations :
                  samples[d][ns] # 0 =>
                      /\ \E cpu \in HookCpus : m[cpu].min # 0 /\ m[cpu].min <= ns
                      /\ \E cpu \in HookCpus : ns <= m[cpu].max

(* The buckets of a CPU lack what it has still to count, *)
Lagging ==
    \A slot \in Slots, cpu \in HookCpus :
        metrics[slot][cpu].count =
            SumFunction(metrics[slot][cpu].buckets) + Behind(pending, slot, HistBuckets)[cpu]

(* neither part of what was read is more than what is there, and the       *)
(* buckets, once they are read, lack no more than when they were read;     *)
ReadBefore ==
    \A slot \in Slots, cpu \in HookCpus :
        LET r == reader[slot][cpu]
            m == metrics[slot][cpu]
        IN  /\ r.count <= m.count
            /\ SumFunction(r.buckets) <= m.count
            /\ <<slot, cpu>> \notin copying => r.count <= SumFunction(r.buckets) + 1
            /\ <<slot, cpu>> \notin copied => r = ZeroMetric

(* of a slot that is skipped nothing is read.                              *)
Skipped == copied \cap (skipped \X HookCpus) = {}

(* All slots together have all samples. *)
Complete == SumFunction(SlotCounts(metrics)) = SumFunction(KindCounts(samples))

(* A snapshot will count no fewer than there were when it was begun, and   *)
(* none that is published counted more.                                    *)
Begun ==
    /\ floor <= SumFunction(SlotCounts(WouldRead(metrics, reader, copied)))
    /\ \A i \in DOMAIN published :
           published[i].total_count <= IF SnapshotBegun THEN floor ELSE Recorded

(* All of it: what the sums over CPUs, buckets, times and slots lack while *)
(* hooks are between their writes and a snapshot is half read              *)
(* (mcp_record_metric, read_metrics_snapshot).                             *)
TelemetryInv ==
    /\ TelemetryTypeOK
    /\ Counted
    /\ Bounded
    /\ Lagging
    /\ ReadBefore
    /\ Skipped
    /\ Complete
    /\ Begun
=============================================================================
