--------------------------- MODULE TelemetryProofs ---------------------------
(***************************************************************************)
(* The metrics, for every number of CPUs, every set of decisions and times *)
(* and every number of samples and snapshots.                              *)
(*                                                                         *)
(* The properties speak of sums: over the CPUs, the buckets, the times or  *)
(* the slots.  The inductive invariant, TelemetryInv, says of each sum     *)
(* what it still lacks while hooks are between their two writes and while  *)
(* a snapshot is half read.                                                *)
(***************************************************************************)
EXTENDS Telemetry, FoldProofs

-----------------------------------------------------------------------------
(* Slots and buckets. *)

(* mcp_metric_index gives every decision a slot of its own, and            *)
(* decode_metric_index takes it back.                                      *)
LEMMA SlotFacts ==
    /\ \A d \in Decisions : /\ SlotOf(d) \in Slots
                            /\ SlotOf(d) \in Nat /\ SlotOf(d) < MetricSlots
                            /\ decode_metric_index(SlotOf(d)) = d
    /\ \A slot \in Slots : \E d \in Decisions : slot = SlotOf(d)
    /\ \A d, e \in Decisions : SlotOf(d) = SlotOf(e) => d = e
  <1>1. ASSUME NEW h \in 1 .. 5, NEW l \in 1 .. 3, NEW a \in 0 .. 2
        PROVE  /\ mcp_metric_index(h, l, a) \in Nat
               /\ mcp_metric_index(h, l, a) < MetricSlots
               /\ decode_metric_index(mcp_metric_index(h, l, a)) = <<h, l, a>>
    <2>1. h % 8 = h /\ l % 8 = l /\ a % 4 = a
      OBVIOUS
    <2>2. mcp_metric_index(h, l, a) = h * 32 + l * 4 + a
      BY <2>1 DEF mcp_metric_index
    <2> DEFINE i == h * 32 + l * 4 + a
    <2>3. i \in Nat /\ i < 256
      OBVIOUS
    <2>4. (i \div 32) % 8 = h /\ (i \div 4) % 8 = l /\ i % 4 = a
      OBVIOUS
    <2> HIDE DEF i
    <2> QED
      BY <2>2, <2>3, <2>4 DEF MetricSlots, decode_metric_index, i
  <1>2. ASSUME NEW d \in Decisions
        PROVE  /\ SlotOf(d) \in Slots
               /\ SlotOf(d) \in Nat /\ SlotOf(d) < MetricSlots
               /\ decode_metric_index(SlotOf(d)) = d
    <2>1. d[1] \in 1 .. 5 /\ d[2] \in 1 .. 3 /\ d[3] \in 0 .. 2 /\ d = <<d[1], d[2], d[3]>>
      BY TelemetryAssumption
    <2> QED
      BY <1>1, <2>1, Zenon DEF SlotOf, Slots
  <1>3. \A slot \in Slots : \E d \in Decisions : slot = SlotOf(d)
    BY DEF Slots, SlotOf
  <1>4. \A d, e \in Decisions : SlotOf(d) = SlotOf(e) => d = e
    BY <1>2, Zenon
  <1> QED
    BY <1>2, <1>3, <1>4

(* There are finitely many slots and buckets. *)
LEMMA FiniteSlots == IsFiniteSet(Slots) /\ IsFiniteSet(HistBuckets) /\ Slots # {}
  <1>1. Slots \in SUBSET Nat /\ (\A s \in Slots : s <= 256)
    BY SlotFacts DEF MetricSlots
  <1>2. HistBuckets \in SUBSET Nat /\ (\A b \in HistBuckets : b <= 7)
    BY DEF HistBuckets
  <1>3. Slots # {}
    BY TelemetryAssumption DEF Slots
  <1> QED
    BY <1>1, <1>2, <1>3, FS_BoundedSetOfNaturals, 256 \in Nat, 7 \in Nat

(* mcp_hist_bucket returns the index of a bucket. *)
LEMMA BucketType == \A ns \in Durations : mcp_hist_bucket(ns) \in HistBuckets
  <1> SUFFICES ASSUME NEW ns \in Durations PROVE mcp_hist_bucket(ns) \in HistBuckets
    OBVIOUS
  <1> DEFINE S == {b \in HistBuckets : b = 7 \/ ns < HistLimits[b + 1]}
  <1>1. S \in SUBSET Nat /\ 7 \in S
    BY DEF HistBuckets
  <1>2. mcp_hist_bucket(ns) = Min(S)
    BY DEF mcp_hist_bucket
  <1>3. S \in SUBSET HistBuckets
    OBVIOUS
  <1> HIDE DEF S
  <1>4. Min(S) \in S
    BY <1>1, MinIsLeast
  <1> QED
    BY <1>2, <1>3, <1>4

-----------------------------------------------------------------------------
(* What a hook's writes do to the sums. *)

(* The fields of a slot, by CPU, are natural numbers. *)
LEMMA FieldTypes ==
    ASSUME NEW m \in [HookCpus -> Metric]
    PROVE  /\ Counts(m) \in [HookCpus -> Nat] /\ Totals(m) \in [HookCpus -> Nat]
           /\ \A b \in HistBuckets : Filled(m, b) \in [HookCpus -> Nat]
           /\ SumFunction(Counts(m)) \in Nat /\ SumFunction(Totals(m)) \in Nat
           /\ \A b \in HistBuckets : SumFunction(Filled(m, b)) \in Nat
           /\ Histogram(m) \in [HistBuckets -> Nat]
           /\ SumFunction(Histogram(m)) \in Nat
  <1>1. Counts(m) \in [HookCpus -> Nat] /\ Totals(m) \in [HookCpus -> Nat]
    BY DEF Counts, Totals, Metric
  <1>2. ASSUME NEW b \in HistBuckets PROVE Filled(m, b) \in [HookCpus -> Nat]
    BY DEF Filled, Metric
  <1>3. SumFunction(Counts(m)) \in Nat /\ SumFunction(Totals(m)) \in Nat
    BY <1>1, NatSum, TelemetryAssumption
  <1>4. ASSUME NEW b \in HistBuckets PROVE SumFunction(Filled(m, b)) \in Nat
    BY <1>2, NatSum, TelemetryAssumption
  <1>5. Histogram(m) \in [HistBuckets -> Nat]
    BY <1>4 DEF Histogram
  <1>6. SumFunction(Histogram(m)) \in Nat
    BY <1>5, NatSum, FiniteSlots
  <1> QED
    BY <1>1, <1>2, <1>3, <1>4, <1>5, <1>6

(* The values n of a slot are m but for one CPU, which has counted a       *)
(* sample, or filled its bucket.                                           *)
SampledAt(m, n, cpu, ns) == n = [m EXCEPT ![cpu] = Sampled(@, ns)]
FilledAt(m, n, cpu, b) == n = [m EXCEPT ![cpu].buckets[b] = @ + 1]

(* The first write: the count, the sum, the minimum and the maximum. *)
LEMMA AfterSample ==
    ASSUME NEW m \in [HookCpus -> Metric], NEW cpu \in HookCpus, NEW ns \in Durations,
           NEW n, SampledAt(m, n, cpu, ns)
    PROVE  /\ n \in [HookCpus -> Metric]
           /\ SumFunction(Counts(n)) = SumFunction(Counts(m)) + 1
           /\ SumFunction(Totals(n)) = SumFunction(Totals(m)) + ns
           /\ \A b \in HistBuckets : Filled(n, b) = Filled(m, b)
           /\ \A c \in HookCpus \ {cpu} : n[c] = m[c]
           /\ n[cpu].count = m[cpu].count + 1 /\ n[cpu].buckets = m[cpu].buckets
           /\ n[cpu].min = IF m[cpu].min = 0 \/ ns < m[cpu].min THEN ns ELSE m[cpu].min
           /\ n[cpu].max = IF ns > m[cpu].max THEN ns ELSE m[cpu].max
  <1>0. ns \in Nat /\ IsFiniteSet(HookCpus)
    BY TelemetryAssumption
  <1>1. /\ n[cpu] = Sampled(m[cpu], ns) /\ m[cpu] \in Metric
        /\ \A c \in HookCpus \ {cpu} : n[c] = m[c]
        /\ DOMAIN n = HookCpus /\ n = [c \in HookCpus |-> n[c]]
    BY DEF SampledAt
  <1>2. /\ Sampled(m[cpu], ns).count = m[cpu].count + 1
        /\ Sampled(m[cpu], ns).total = m[cpu].total + ns
        /\ Sampled(m[cpu], ns).buckets = m[cpu].buckets
        /\ Sampled(m[cpu], ns).min =
              IF m[cpu].min = 0 \/ ns < m[cpu].min THEN ns ELSE m[cpu].min
        /\ Sampled(m[cpu], ns).max = IF ns > m[cpu].max THEN ns ELSE m[cpu].max
        /\ Sampled(m[cpu], ns) \in Metric
    <2> DEFINE r == m[cpu]
               lo == IF r.min = 0 \/ ns < r.min THEN ns ELSE r.min
               hi == IF ns > r.max THEN ns ELSE r.max
               c == r.count + 1
               t == r.total + ns
               q == r.buckets
    <2>1. r \in Metric /\ r.min \in Nat /\ r.max \in Nat /\ r.count \in Nat /\ r.total \in Nat
      BY <1>1 DEF Metric
    <2>2. lo \in Nat /\ hi \in Nat /\ c \in Nat /\ t \in Nat /\ q \in [HistBuckets -> Nat]
      BY <1>0, <2>1 DEF Metric
    <2>e. Sampled(r, ns) = [r EXCEPT !.count = c, !.total = t, !.min = lo, !.max = hi]
      BY <2>1 DEF Sampled, Metric
    <2>q. q = r.buckets
      OBVIOUS
    <2> HIDE DEF r, lo, hi, c, t, q
    <2>3. Sampled(r, ns) =
             [count |-> c, total |-> t, min |-> lo, max |-> hi, buckets |-> q]
      BY <2>1, <2>e, <2>q DEF Metric
    <2>4. /\ Sampled(r, ns).count = c /\ Sampled(r, ns).total = t
          /\ Sampled(r, ns).buckets = q
          /\ Sampled(r, ns).min = lo /\ Sampled(r, ns).max = hi
          /\ Sampled(r, ns) \in Metric
      BY <2>2, <2>3 DEF Metric
    <2> QED
      BY <2>4 DEF r, lo, hi, c, t, q
  <1>3. n \in [HookCpus -> Metric]
    BY <1>1, <1>2
  <1>4. Counts(m) \in [HookCpus -> Nat] /\ Totals(m) \in [HookCpus -> Nat]
        /\ Counts(n) \in [HookCpus -> Nat] /\ Totals(n) \in [HookCpus -> Nat]
    BY <1>3, FieldTypes
  <1>5. SumFunction(Counts(n)) = SumFunction(Counts(m)) + 1
    <2>1. Raised(Counts(m), Counts(n), HookCpus, cpu, 1)
      BY <1>0, <1>1, <1>2, <1>4 DEF Raised, Counts
    <2> QED
      BY <2>1, NatSumRaised
  <1>6. SumFunction(Totals(n)) = SumFunction(Totals(m)) + ns
    <2>1. Raised(Totals(m), Totals(n), HookCpus, cpu, ns)
      BY <1>0, <1>1, <1>2, <1>4 DEF Raised, Totals
    <2> QED
      BY <2>1, NatSumRaised
  <1>7. \A b \in HistBuckets : Filled(n, b) = Filled(m, b)
    <2>1. \A c \in HookCpus : n[c].buckets = m[c].buckets
      BY <1>1, <1>2
    <2> QED
      BY <2>1 DEF Filled
  <1> QED
    BY <1>1, <1>2, <1>3, <1>5, <1>6, <1>7

(* The second write: the bucket. *)
LEMMA AfterBucket ==
    ASSUME NEW m \in [HookCpus -> Metric], NEW cpu \in HookCpus, NEW b \in HistBuckets,
           NEW n, FilledAt(m, n, cpu, b)
    PROVE  /\ n \in [HookCpus -> Metric]
           /\ Counts(n) = Counts(m) /\ Totals(n) = Totals(m)
           /\ SumFunction(Filled(n, b)) = SumFunction(Filled(m, b)) + 1
           /\ \A e \in HistBuckets \ {b} : Filled(n, e) = Filled(m, e)
           /\ \A c \in HookCpus \ {cpu} : n[c] = m[c]
           /\ SumFunction(n[cpu].buckets) = SumFunction(m[cpu].buckets) + 1
           /\ \A c \in HookCpus : /\ n[c].count = m[c].count
                                  /\ n[c].min = m[c].min /\ n[c].max = m[c].max
  <1>0. IsFiniteSet(HookCpus) /\ IsFiniteSet(HistBuckets)
    BY TelemetryAssumption, FiniteSlots
  <1> DEFINE v == [m[cpu] EXCEPT !.buckets[b] = @ + 1]
  <1>1. /\ n[cpu] = v /\ m[cpu] \in Metric
        /\ \A c \in HookCpus \ {cpu} : n[c] = m[c]
        /\ DOMAIN n = HookCpus /\ n = [c \in HookCpus |-> n[c]]
    BY DEF FilledAt
  <1>2. /\ v.count = m[cpu].count /\ v.total = m[cpu].total
        /\ v.min = m[cpu].min /\ v.max = m[cpu].max
        /\ v.buckets[b] = m[cpu].buckets[b] + 1
        /\ \A e \in HistBuckets \ {b} : v.buckets[e] = m[cpu].buckets[e]
        /\ v \in Metric
    BY <1>1 DEF Metric
  <1> HIDE DEF v
  <1>3. n \in [HookCpus -> Metric]
    BY <1>1, <1>2
  <1>4. Counts(n) = Counts(m) /\ Totals(n) = Totals(m)
    <2>1. \A c \in HookCpus : n[c].count = m[c].count /\ n[c].total = m[c].total
      BY <1>1, <1>2
    <2> QED
      BY <2>1 DEF Counts, Totals
  <1>5. SumFunction(Filled(n, b)) = SumFunction(Filled(m, b)) + 1
    <2>1. Filled(n, b) \in [HookCpus -> Nat] /\ Filled(m, b) \in [HookCpus -> Nat]
      BY <1>3, FieldTypes
    <2>2. Raised(Filled(m, b), Filled(n, b), HookCpus, cpu, 1)
      BY <1>0, <1>1, <1>2, <2>1 DEF Raised, Filled
    <2> QED
      BY <2>2, NatSumRaised
  <1>6. ASSUME NEW e \in HistBuckets \ {b} PROVE Filled(n, e) = Filled(m, e)
    <2>1. \A c \in HookCpus : n[c].buckets[e] = m[c].buckets[e]
      BY <1>1, <1>2
    <2> QED
      BY <2>1 DEF Filled
  <1>7. SumFunction(n[cpu].buckets) = SumFunction(m[cpu].buckets) + 1
    <2>1. n[cpu].buckets \in [HistBuckets -> Nat] /\ m[cpu].buckets \in [HistBuckets -> Nat]
      BY <1>1, <1>2 DEF Metric
    <2>2. Raised(m[cpu].buckets, n[cpu].buckets, HistBuckets, b, 1)
      BY <1>0, <1>1, <1>2, <2>1 DEF Raised
    <2> QED
      BY <2>2, NatSumRaised
  <1>8. \A c \in HookCpus : /\ n[c].count = m[c].count
                            /\ n[c].min = m[c].min /\ n[c].max = m[c].max
    BY <1>1, <1>2
  <1> QED
    BY <1>1, <1>3, <1>4, <1>5, <1>6, <1>7, <1>8

(* A CPU waits for at most one bucket of one slot. *)
LEMMA WaitsType ==
    ASSUME NEW p, NEW slot, NEW bs
    PROVE  /\ Behind(p, slot, bs) \in [HookCpus -> Nat]
           /\ SumFunction(Behind(p, slot, bs)) \in Nat
           /\ \A c \in HookCpus : Behind(p, slot, bs)[c] \in {0, 1}
  <1>1. /\ Behind(p, slot, bs) \in [HookCpus -> Nat]
        /\ \A c \in HookCpus : Behind(p, slot, bs)[c] \in {0, 1}
    BY DEF Behind
  <1>2. SumFunction(Behind(p, slot, bs)) \in Nat
    BY <1>1, NatSum, TelemetryAssumption
  <1> QED
    BY <1>1, <1>2

(* A CPU does not wait in p, and waits for the bucket b of the slot s in q. *)
Waiting(p, q, cpu, s, b) ==
    /\ cpu \in HookCpus /\ p[cpu] = {} /\ q[cpu] = {<<s, b>>}
    /\ \A c \in HookCpus \ {cpu} : q[c] = p[c]

(* It is counted where it waits and nowhere else. *)
LEMMA OneWaits ==
    ASSUME NEW p, NEW q, NEW cpu, NEW s, NEW b, NEW slot, NEW bs, Waiting(p, q, cpu, s, b)
    PROVE  /\ slot = s /\ b \in bs =>
                SumFunction(Behind(q, slot, bs)) = SumFunction(Behind(p, slot, bs)) + 1
           /\ ~(slot = s /\ b \in bs) =>
                SumFunction(Behind(q, slot, bs)) = SumFunction(Behind(p, slot, bs))
  <1>1. ASSUME slot = s, b \in bs
        PROVE  SumFunction(Behind(q, slot, bs)) = SumFunction(Behind(p, slot, bs)) + 1
    <2>1. /\ Behind(p, slot, bs)[cpu] = 0 /\ Behind(q, slot, bs)[cpu] = 1
          /\ \A c \in HookCpus \ {cpu} : Behind(q, slot, bs)[c] = Behind(p, slot, bs)[c]
      BY <1>1 DEF Behind, Waiting
    <2>2. Raised(Behind(p, slot, bs), Behind(q, slot, bs), HookCpus, cpu, 1)
      BY <2>1, WaitsType, TelemetryAssumption DEF Raised, Waiting
    <2> QED
      BY <2>2, NatSumRaised
  <1>2. ASSUME ~(slot = s /\ b \in bs)
        PROVE  Behind(q, slot, bs) = Behind(p, slot, bs)
    <2>1. \A e \in bs : <<slot, e>> \notin q[cpu]
      BY <1>2 DEF Waiting
    <2>2. \A c \in HookCpus : (\E e \in bs : <<slot, e>> \in q[c])
                                  <=> (\E e \in bs : <<slot, e>> \in p[c])
      BY <2>1 DEF Waiting
    <2> QED
      BY <2>2 DEF Behind
  <1> QED
    BY <1>1, <1>2

(* What it waits for grows by one there, and nowhere else. *)
LEMMA CpuWaits ==
    ASSUME NEW p, NEW q, NEW cpu, NEW s, NEW b, NEW slot, NEW bs, Waiting(p, q, cpu, s, b),
           NEW c \in HookCpus
    PROVE  Behind(q, slot, bs)[c] =
              Behind(p, slot, bs)[c] + IF c = cpu /\ slot = s /\ b \in bs THEN 1 ELSE 0
  <1>1. CASE c = cpu
    <2>1. Behind(p, slot, bs)[c] = 0
      BY <1>1 DEF Behind, Waiting
    <2>2. Behind(q, slot, bs)[c] = IF slot = s /\ b \in bs THEN 1 ELSE 0
      BY <1>1 DEF Behind, Waiting
    <2> QED
      BY <1>1, <2>1, <2>2
  <1>2. CASE c # cpu
    <2>1. Behind(q, slot, bs)[c] = Behind(p, slot, bs)[c]
      BY <1>2 DEF Behind, Waiting
    <2>2. Behind(p, slot, bs)[c] \in Nat
      BY WaitsType
    <2> QED
      BY <1>2, <2>1, <2>2
  <1> QED
    BY <1>1, <1>2

(* One more sample of the time ns. *)
LEMMA AfterCount ==
    ASSUME NEW h \in [Durations -> Nat], NEW ns \in Durations,
           NEW g, g = [h EXCEPT ![ns] = @ + 1]
    PROVE  /\ g \in [Durations -> Nat]
           /\ SumFunction(g) = SumFunction(h) + 1
           /\ SumFunction(Taken(g)) = SumFunction(Taken(h)) + ns
           /\ \A b \in HistBuckets :
                 SumFunctionOnSet(g, Bucketed(b)) =
                     SumFunctionOnSet(h, Bucketed(b)) + IF b = mcp_hist_bucket(ns) THEN 1 ELSE 0
           /\ \A t \in Durations : g[t] # 0 <=> t = ns \/ h[t] # 0
  <1>0. ns \in Nat /\ IsFiniteSet(Durations)
    BY TelemetryAssumption
  <1>1. /\ g \in [Durations -> Nat] /\ g[ns] = h[ns] + 1
        /\ \A t \in Durations \ {ns} : g[t] = h[t]
        /\ \A t \in Durations : g[t] # 0 <=> t = ns \/ h[t] # 0
    OBVIOUS
  <1>r. Raised(h, g, Durations, ns, 1)
    BY <1>0, <1>1 DEF Raised
  <1>2. SumFunction(g) = SumFunction(h) + 1
    BY <1>r, NatSumRaised
  <1>3. SumFunction(Taken(g)) = SumFunction(Taken(h)) + ns
    <2>1. \A t \in Durations : t \in Nat /\ g[t] \in Nat /\ h[t] \in Nat
      BY <1>1, TelemetryAssumption
    <2>2. Taken(h) \in [Durations -> Nat] /\ Taken(g) \in [Durations -> Nat]
      BY <2>1 DEF Taken
    <2>3. Taken(g)[ns] = g[ns] * ns /\ Taken(h)[ns] = h[ns] * ns
      BY DEF Taken
    <2>4. g[ns] * ns = h[ns] * ns + ns
      BY <1>0, <1>1, <2>1
    <2>5. \A t \in Durations \ {ns} : Taken(g)[t] = Taken(h)[t]
      BY <1>1 DEF Taken
    <2>6. Raised(Taken(h), Taken(g), Durations, ns, ns)
      BY <1>0, <2>2, <2>3, <2>4, <2>5 DEF Raised
    <2> QED
      BY <2>6, NatSumRaised
  <1>4. ASSUME NEW b \in HistBuckets
        PROVE  SumFunctionOnSet(g, Bucketed(b)) =
                  SumFunctionOnSet(h, Bucketed(b)) + IF b = mcp_hist_bucket(ns) THEN 1 ELSE 0
    <2> DEFINE S == Bucketed(b)
    <2>1. S \in SUBSET Durations /\ (ns \in S <=> b = mcp_hist_bucket(ns))
      BY DEF Bucketed, BucketOf
    <2> HIDE DEF S
    <2>2. SumFunctionOnSet(g, S) = SumFunctionOnSet(h, S) + IF ns \in S THEN 1 ELSE 0
      BY <1>r, <2>1, NatSumPart
    <2>3. CASE b = mcp_hist_bucket(ns)
      BY <2>1, <2>2, <2>3 DEF S
    <2>4. CASE b # mcp_hist_bucket(ns)
      BY <2>1, <2>2, <2>4 DEF S
    <2> QED
      BY <2>3, <2>4
  <1> QED
    BY <1>1, <1>2, <1>3, <1>4

-----------------------------------------------------------------------------
(* What a snapshot reads. *)

(* The value that has nothing. *)
LEMMA ZeroFacts ==
    /\ ZeroMetric \in Metric
    /\ ZeroMetric.count = 0 /\ ZeroMetric.total = 0
    /\ ZeroMetric.min = 0 /\ ZeroMetric.max = 0
    /\ \A b \in HistBuckets : ZeroMetric.buckets[b] = 0
    /\ ZeroMetric.buckets \in [HistBuckets -> Nat]
    /\ SumFunction(ZeroMetric.buckets) = 0
    /\ NoMetrics \in [Slots -> [HookCpus -> Metric]]
    /\ \A slot \in Slots, cpu \in HookCpus : NoMetrics[slot][cpu] = ZeroMetric
  <1>1. SumFunction(ZeroMetric.buckets) = 0
    BY FiniteSlots, ZeroSum DEF ZeroMetric
  <1> QED
    BY <1>1 DEF ZeroMetric, Metric, NoMetrics

(* A table of values by slot and CPU, and one in which no CPU has counted  *)
(* less in any slot.                                                       *)
Table(ms) == ms \in [Slots -> [HookCpus -> Metric]]
NoFewer(a, b) ==
    /\ Table(a) /\ Table(b)
    /\ \A slot \in Slots, cpu \in HookCpus : a[slot][cpu].count <= b[slot][cpu].count

(* Its sums by slot, and over all of them, are natural numbers. *)
LEMMA TableSums ==
    ASSUME NEW ms, Table(ms)
    PROVE  /\ SlotCounts(ms) \in [Slots -> Nat]
           /\ SumFunction(SlotCounts(ms)) \in Nat
  <1>1. \A slot \in Slots : SumFunction(Counts(ms[slot])) \in Nat
    BY FieldTypes DEF Table
  <1>2. SlotCounts(ms) \in [Slots -> Nat]
    BY <1>1 DEF SlotCounts
  <1> QED
    BY <1>2, NatSum, FiniteSlots

(* The sums of the other are no smaller. *)
LEMMA CountsMonotone ==
    ASSUME NEW a, NEW b, NoFewer(a, b)
    PROVE  /\ \A slot \in Slots : SlotCounts(a)[slot] <= SlotCounts(b)[slot]
           /\ SumFunction(SlotCounts(a)) <= SumFunction(SlotCounts(b))
  <1>0. Table(a) /\ Table(b)
    BY DEF NoFewer
  <1>1. ASSUME NEW slot \in Slots PROVE SlotCounts(a)[slot] <= SlotCounts(b)[slot]
    <2> DEFINE f == Counts(a[slot])
               g == Counts(b[slot])
    <2>1. f \in [HookCpus -> Nat] /\ g \in [HookCpus -> Nat]
      BY <1>0, FieldTypes DEF Table
    <2>2. \A cpu \in HookCpus : f[cpu] <= g[cpu]
      BY DEF NoFewer, Counts
    <2>3. SlotCounts(a)[slot] = SumFunction(f) /\ SlotCounts(b)[slot] = SumFunction(g)
      BY DEF SlotCounts
    <2> HIDE DEF f, g
    <2> QED
      BY <2>1, <2>2, <2>3, NatSumMonotone, TelemetryAssumption
  <1> DEFINE u == SlotCounts(a)
             v == SlotCounts(b)
  <1>2. u \in [Slots -> Nat] /\ v \in [Slots -> Nat] /\ \A slot \in Slots : u[slot] <= v[slot]
    BY <1>0, <1>1, TableSums
  <1> HIDE DEF u, v
  <1>3. SumFunction(u) <= SumFunction(v)
    BY <1>2, FiniteSlots, NatSumMonotone
  <1> QED
    BY <1>1, <1>3 DEF u, v

(* What would be read is a table too. *)
LEMMA WouldReadType ==
    ASSUME NEW ms, Table(ms), NEW r, Table(r), NEW cs
    PROVE  /\ Table(WouldRead(ms, r, cs))
           /\ \A slot \in Slots, cpu \in HookCpus :
                 WouldRead(ms, r, cs)[slot][cpu] =
                    IF <<slot, cpu>> \in cs THEN r[slot][cpu] ELSE ms[slot][cpu]
  BY DEF Table, WouldRead

-----------------------------------------------------------------------------
(* The invariant holds at first. *)

(* What is summed over is finite. *)
LEMMA FiniteParts ==
    /\ IsFiniteSet(HookCpus) /\ IsFiniteSet(Decisions) /\ IsFiniteSet(Durations)
    /\ IsFiniteSet(Slots) /\ IsFiniteSet(HistBuckets)
    /\ \A b \in HistBuckets : IsFiniteSet(Bucketed(b)) /\ Bucketed(b) \in SUBSET Durations
    /\ Cardinality(HookCpus) \in Nat
  <1>1. ASSUME NEW b \in HistBuckets
        PROVE  IsFiniteSet(Bucketed(b)) /\ Bucketed(b) \in SUBSET Durations
    <2>1. Bucketed(b) \in SUBSET Durations
      BY DEF Bucketed
    <2> QED
      BY <2>1, TelemetryAssumption, FS_Subset, Zenon
  <1> QED
    BY <1>1, TelemetryAssumption, FiniteSlots, FS_CardinalityType

(* Nothing has been counted, and nothing recorded.                         *)
LEMMA TelemetryStart == TelemetryInit => TelemetryInv
  <1> SUFFICES ASSUME TelemetryInit PROVE TelemetryInv
    OBVIOUS
  <1> DEFINE zeros == [cpu \in HookCpus |-> ZeroMetric]
             never == [ns \in Durations |-> 0]
  <1>1. /\ metrics = [slot \in Slots |-> zeros] /\ reader = [slot \in Slots |-> zeros]
        /\ metrics = NoMetrics /\ reader = NoMetrics
        /\ pending = [cpu \in HookCpus |-> {}]
        /\ copied = {} /\ copying = {} /\ skipped = {}
        /\ published = <<>> /\ floor = 0
        /\ samples = [d \in Decisions |-> never]
    BY DEF TelemetryInit, NoMetrics
  <1>2. /\ ZeroMetric \in Metric
        /\ ZeroMetric.count = 0 /\ ZeroMetric.total = 0
        /\ ZeroMetric.min = 0 /\ ZeroMetric.max = 0
        /\ \A b \in HistBuckets : ZeroMetric.buckets[b] = 0
    BY ZeroFacts
  <1>3. /\ zeros \in [HookCpus -> Metric]
        /\ Counts(zeros) = [cpu \in HookCpus |-> 0]
        /\ Totals(zeros) = [cpu \in HookCpus |-> 0]
        /\ \A b \in HistBuckets : Filled(zeros, b) = [cpu \in HookCpus |-> 0]
        /\ \A cpu \in HookCpus : zeros[cpu].min = 0 /\ zeros[cpu].max = 0
    BY <1>2 DEF Counts, Totals, Filled
  <1>4. /\ SumFunction(Counts(zeros)) = 0 /\ SumFunction(Totals(zeros)) = 0
        /\ \A b \in HistBuckets : SumFunction(Filled(zeros, b)) = 0
    BY <1>3, FiniteParts, ZeroSum
  <1>6. /\ never \in [Durations -> Nat] /\ Taken(never) = [ns \in Durations |-> 0]
        /\ SumFunction(never) = 0
    <2>1. \A ns \in Durations : never[ns] * ns = 0
      BY TelemetryAssumption
    <2>2. Taken(never) = [ns \in Durations |-> 0]
      BY <2>1 DEF Taken
    <2> QED
      BY <2>2, FiniteParts, ZeroSum
  <1>7. SumFunction(Taken(never)) = 0
    BY <1>6, FiniteParts, ZeroSum
  <1>8. \A b \in HistBuckets : SumFunctionOnSet(never, Bucketed(b)) = 0
    <2> SUFFICES ASSUME NEW b \in HistBuckets
                 PROVE  SumFunctionOnSet(never, Bucketed(b)) = 0
      OBVIOUS
    <2>1. \A ns \in Bucketed(b) : never[ns] = 0
      BY FiniteParts
    <2> HIDE DEF never
    <2> QED
      BY <2>1, FiniteParts, SumZero
  <1>9. \A slot \in Slots, bs \in SUBSET HistBuckets :
           /\ SumFunction(Behind(pending, slot, bs)) = 0
           /\ \A cpu \in HookCpus : Behind(pending, slot, bs)[cpu] = 0
    <2> SUFFICES ASSUME NEW slot \in Slots, NEW bs \in SUBSET HistBuckets
                 PROVE  /\ SumFunction(Behind(pending, slot, bs)) = 0
                        /\ \A cpu \in HookCpus : Behind(pending, slot, bs)[cpu] = 0
      OBVIOUS
    <2>1. Behind(pending, slot, bs) = [cpu \in HookCpus |-> 0]
      BY <1>1 DEF Behind
    <2> QED
      BY <2>1, FiniteParts, ZeroSum
  <1> HIDE DEF zeros, never
  <1>a. /\ \A slot \in Slots : metrics[slot] = zeros
        /\ \A d \in Decisions : samples[d] = never
        /\ \A d \in Decisions : SlotOf(d) \in Slots
        /\ DOMAIN published = {} /\ ~SnapshotBegun
        /\ metrics \in [Slots -> [HookCpus -> Metric]]
        /\ reader \in [Slots -> [HookCpus -> Metric]]
        /\ \A slot \in Slots, cpu \in HookCpus : /\ metrics[slot][cpu] = ZeroMetric
                                                 /\ reader[slot][cpu] = ZeroMetric
    BY <1>1, SlotFacts, ZeroFacts DEF SnapshotBegun
  <1>b. TelemetryTypeOK
    <2>1. published \in Seq(Message)
      BY <1>1
    <2> QED
      BY <1>1, <1>3, <1>6, <1>a, <2>1 DEF TelemetryTypeOK
  <1>c. Counted
    <2> SUFFICES ASSUME NEW d \in Decisions
                 PROVE  /\ SumFunction(Counts(metrics[SlotOf(d)])) = SumFunction(samples[d])
                        /\ SumFunction(Totals(metrics[SlotOf(d)])) = SumFunction(Taken(samples[d]))
                        /\ \A b \in HistBuckets :
                               SumFunction(Filled(metrics[SlotOf(d)], b))
                                 + SumFunction(Behind(pending, SlotOf(d), {b}))
                                   = SumFunctionOnSet(samples[d], Bucketed(b))
      BY DEF Counted
    <2>1. \A b \in HistBuckets : SumFunction(Behind(pending, SlotOf(d), {b})) = 0
      BY <1>9, <1>a
    <2> QED
      BY <1>4, <1>6, <1>7, <1>8, <1>a, <2>1
  <1>d. Bounded
    <2>1. \A ns \in Durations : never[ns] = 0
      BY DEF never
    <2>2. \A d \in Decisions : metrics[SlotOf(d)] = zeros /\ samples[d] = never
      BY <1>a
    <2> QED
      BY <1>3, <2>1, <2>2 DEF Bounded
  <1>e. Lagging
    BY <1>2, <1>9, <1>a, ZeroFacts DEF Lagging
  <1>f. ReadBefore /\ Skipped
    BY <1>1, <1>2, <1>a, ZeroFacts DEF ReadBefore, Skipped
  <1>g. Complete
    <2>1. SlotCounts(metrics) = [slot \in Slots |-> 0]
      BY <1>4, <1>a DEF SlotCounts
    <2>2. KindCounts(samples) = [d \in Decisions |-> 0]
      BY <1>6, <1>a DEF KindCounts
    <2> QED
      BY <2>1, <2>2, FiniteParts, ZeroSum DEF Complete
  <1>h. Begun
    <2>1. Table(metrics) /\ Table(reader)
      BY <1>a DEF Table
    <2>2. SumFunction(SlotCounts(WouldRead(metrics, reader, copied))) \in Nat
      BY <2>1, WouldReadType, TableSums
    <2> QED
      BY <1>1, <1>a, <2>2 DEF Begun
  <1> QED
    BY <1>b, <1>c, <1>d, <1>e, <1>f, <1>g, <1>h DEF TelemetryInv

-----------------------------------------------------------------------------
(* The invariant is kept. *)

(* The sums over the slots and over the kinds are natural numbers. *)
LEMMA SumTypes ==
    ASSUME TelemetryTypeOK
    PROVE  /\ Table(metrics) /\ Table(reader)
           /\ Table(WouldRead(metrics, reader, copied))
           /\ KindCounts(samples) \in [Decisions -> Nat]
           /\ SumFunction(SlotCounts(metrics)) \in Nat
           /\ SumFunction(SlotCounts(reader)) \in Nat
           /\ SumFunction(SlotCounts(WouldRead(metrics, reader, copied))) \in Nat
           /\ SumFunction(KindCounts(samples)) \in Nat
           /\ Recorded = SumFunction(KindCounts(samples))
  <1>1. Table(metrics) /\ Table(reader)
    BY DEF TelemetryTypeOK, Table
  <1>2. Table(WouldRead(metrics, reader, copied))
    BY <1>1, WouldReadType
  <1>3. \A d \in Decisions : SumFunction(samples[d]) \in Nat
    BY NatSum, FiniteParts DEF TelemetryTypeOK
  <1>4. KindCounts(samples) \in [Decisions -> Nat]
    BY <1>3 DEF KindCounts
  <1>5. SumFunction(KindCounts(samples)) \in Nat
    BY <1>4, NatSum, FiniteParts
  <1>6. Recorded = SumFunction(KindCounts(samples))
    BY DEF Recorded, KindCounts
  <1> QED
    BY <1>1, <1>2, <1>4, <1>5, <1>6, TableSums

(* What the snapshot would have is no more than what was counted. *)
LEMMA WouldReadFewer ==
    ASSUME TelemetryInv
    PROVE  NoFewer(WouldRead(metrics, reader, copied), metrics)
  <1> DEFINE w == WouldRead(metrics, reader, copied)
  <1>1. Table(metrics) /\ Table(reader) /\ Table(w)
    BY SumTypes DEF TelemetryInv
  <1>2. ASSUME NEW slot \in Slots, NEW cpu \in HookCpus
        PROVE  w[slot][cpu].count <= metrics[slot][cpu].count
    <2>1. w[slot][cpu] =
             IF <<slot, cpu>> \in copied THEN reader[slot][cpu] ELSE metrics[slot][cpu]
      BY <1>1, WouldReadType
    <2>2. metrics[slot][cpu].count \in Nat
      <3>1. metrics[slot][cpu] \in Metric
        BY <1>1 DEF Table
      <3> QED
        BY <3>1 DEF Metric
    <2>3. reader[slot][cpu].count <= metrics[slot][cpu].count
      BY DEF TelemetryInv, ReadBefore
    <2> HIDE DEF w
    <2> QED
      BY <2>1, <2>2, <2>3
  <1> HIDE DEF w
  <1>3. NoFewer(w, metrics)
    BY <1>1, <1>2 DEF NoFewer
  <1> QED
    BY <1>3 DEF w

(* Every message that is published has a count. *)
LEMMA PublishedType ==
    ASSUME TelemetryTypeOK PROVE \A i \in DOMAIN published : published[i].total_count \in Nat
  <1>1. published \in Seq(Message)
    BY DEF TelemetryTypeOK
  <1>2. \A i \in DOMAIN published : published[i] \in Message
    BY <1>1
  <1> QED
    BY <1>2 DEF Message

(* A hook's first write (mcp_record_metric). *)
LEMMA SampleKeeps ==
    ASSUME TelemetryInv, NEW cpu \in HookCpus, NEW d \in Decisions, NEW ns \in Durations,
           RecordSample(cpu, d, ns)
    PROVE  TelemetryInv'
  <1> USE DEF hookVars, readVars
  <1> DEFINE slot == SlotOf(d)
             b == mcp_hist_bucket(ns)
             m == metrics[slot]
             n == metrics'[slot]
  <1>1. /\ slot \in Slots /\ b \in HistBuckets /\ ns \in Nat /\ ns # 0
        /\ \A e \in Decisions : SlotOf(e) \in Slots /\ (SlotOf(e) = slot => e = d)
    BY SlotFacts, BucketType, TelemetryAssumption
  <1>2. /\ metrics \in [Slots -> [HookCpus -> Metric]]
        /\ pending \in [HookCpus -> SUBSET (Slots \X HistBuckets)]
        /\ samples \in [Decisions -> [Durations -> Nat]]
    BY DEF TelemetryInv, TelemetryTypeOK
  <1>3. /\ metrics' = [metrics EXCEPT ![slot][cpu] = Sampled(@, ns)]
        /\ pending' = [pending EXCEPT ![cpu] = {<<slot, b>>}]
        /\ samples' = [samples EXCEPT ![d][ns] = @ + 1]
        /\ pending[cpu] = {}
        /\ reader' = reader /\ copied' = copied /\ copying' = copying /\ skipped' = skipped
        /\ floor' = floor /\ published' = published
    BY DEF RecordSample, SlotOf
  <1>4. /\ SampledAt(m, n, cpu, ns)
        /\ \A s \in Slots \ {slot} : metrics'[s] = metrics[s]
        /\ m \in [HookCpus -> Metric]
    BY <1>1, <1>2, <1>3 DEF SampledAt
  <1>5. /\ n \in [HookCpus -> Metric]
        /\ SumFunction(Counts(n)) = SumFunction(Counts(m)) + 1
        /\ SumFunction(Totals(n)) = SumFunction(Totals(m)) + ns
        /\ \A e \in HistBuckets : Filled(n, e) = Filled(m, e)
        /\ \A c \in HookCpus \ {cpu} : n[c] = m[c]
        /\ n[cpu].count = m[cpu].count + 1 /\ n[cpu].buckets = m[cpu].buckets
        /\ n[cpu].min = IF m[cpu].min = 0 \/ ns < m[cpu].min THEN ns ELSE m[cpu].min
        /\ n[cpu].max = IF ns > m[cpu].max THEN ns ELSE m[cpu].max
    <2> HIDE DEF m, n, slot
    <2> QED
      BY <1>4, AfterSample
  <1>6. /\ samples'[d] = [samples[d] EXCEPT ![ns] = @ + 1]
        /\ \A e \in Decisions \ {d} : samples'[e] = samples[e]
        /\ samples[d] \in [Durations -> Nat]
    BY <1>2, <1>3
  <1>7. /\ samples'[d] \in [Durations -> Nat]
        /\ SumFunction(samples'[d]) = SumFunction(samples[d]) + 1
        /\ SumFunction(Taken(samples'[d])) = SumFunction(Taken(samples[d])) + ns
        /\ \A e \in HistBuckets :
              SumFunctionOnSet(samples'[d], Bucketed(e)) =
                  SumFunctionOnSet(samples[d], Bucketed(e)) + IF e = b THEN 1 ELSE 0
        /\ \A t \in Durations : samples'[d][t] # 0 <=> t = ns \/ samples[d][t] # 0
    BY <1>6, AfterCount
  <1>8. /\ pending'[cpu] = {<<slot, b>>}
        /\ \A c \in HookCpus \ {cpu} : pending'[c] = pending[c]
    BY <1>2, <1>3
  <1>i. Waiting(pending, pending', cpu, slot, b)
    BY <1>3, <1>8 DEF Waiting
  <1>9. ASSUME NEW s, NEW bs
        PROVE  /\ s = slot /\ b \in bs =>
                     SumFunction(Behind(pending', s, bs)) = SumFunction(Behind(pending, s, bs)) + 1
               /\ ~(s = slot /\ b \in bs) =>
                     SumFunction(Behind(pending', s, bs)) = SumFunction(Behind(pending, s, bs))
    <2> HIDE DEF slot, b
    <2> QED
      BY <1>i, OneWaits
  <1> HIDE DEF slot, b, m, n
  <1>a. TelemetryTypeOK'
    <2>1. metrics' \in [Slots -> [HookCpus -> Metric]]
      <3>1. \A s \in Slots : metrics'[s] \in [HookCpus -> Metric]
        BY <1>2, <1>4, <1>5 DEF n
      <3> QED
        BY <1>2, <1>3, <3>1
    <2>2. pending' \in [HookCpus -> SUBSET (Slots \X HistBuckets)]
      BY <1>1, <1>2, <1>3
    <2>3. samples' \in [Decisions -> [Durations -> Nat]]
      <3>1. \A e \in Decisions : samples'[e] \in [Durations -> Nat]
        BY <1>2, <1>6, <1>7
      <3> QED
        BY <1>2, <1>3, <3>1
    <2>4. \A c \in HookCpus : \A p, q \in pending'[c] : p = q
      <3>1. \A c \in HookCpus : \A p, q \in pending[c] : p = q
        BY DEF TelemetryInv, TelemetryTypeOK
      <3>2. ASSUME NEW c \in HookCpus, NEW p \in pending'[c], NEW q \in pending'[c] PROVE p = q
        <4>1. CASE c = cpu
          BY <1>8, <4>1
        <4>2. CASE c # cpu
          <5>1. pending'[c] = pending[c]
            BY <1>8, <4>2
          <5> QED
            BY <3>1, <5>1, Zenon
        <4> QED
          BY <4>1, <4>2
      <3> QED
        BY <3>2
    <2> QED
      BY <1>3, <2>1, <2>2, <2>3, <2>4 DEF TelemetryInv, TelemetryTypeOK
  <1>b. Counted'
    <2> SUFFICES ASSUME NEW e \in Decisions
                 PROVE  /\ SumFunction(Counts(metrics'[SlotOf(e)])) = SumFunction(samples'[e])
                        /\ SumFunction(Totals(metrics'[SlotOf(e)])) = SumFunction(Taken(samples'[e]))
                        /\ \A c \in HistBuckets :
                               SumFunction(Filled(metrics'[SlotOf(e)], c))
                                 + SumFunction(Behind(pending', SlotOf(e), {c}))
                                   = SumFunctionOnSet(samples'[e], Bucketed(c))
      BY DEF Counted, SlotOf
    <2>1. /\ SumFunction(Counts(metrics[SlotOf(e)])) = SumFunction(samples[e])
          /\ SumFunction(Totals(metrics[SlotOf(e)])) = SumFunction(Taken(samples[e]))
          /\ \A c \in HistBuckets :
                 SumFunction(Filled(metrics[SlotOf(e)], c))
                   + SumFunction(Behind(pending, SlotOf(e), {c}))
                     = SumFunctionOnSet(samples[e], Bucketed(c))
      BY DEF TelemetryInv, Counted
    <2>2. CASE e = d
      <3>1. SlotOf(e) = slot
        BY <2>2 DEF slot
      <3>2. /\ SumFunction(Counts(n)) = SumFunction(samples'[d])
            /\ SumFunction(Totals(n)) = SumFunction(Taken(samples'[d]))
        BY <1>5, <1>7, <2>1, <2>2, <3>1 DEF m
      <3>3. ASSUME NEW c \in HistBuckets
            PROVE  SumFunction(Filled(n, c)) + SumFunction(Behind(pending', slot, {c}))
                      = SumFunctionOnSet(samples'[d], Bucketed(c))
        <4>1. /\ Filled(n, c) = Filled(m, c) /\ SumFunction(Filled(m, c)) \in Nat
              /\ SumFunction(Behind(pending, slot, {c})) \in Nat
          BY <1>4, <1>5, FieldTypes, WaitsType
        <4>2. SumFunction(Filled(m, c)) + SumFunction(Behind(pending, slot, {c}))
                = SumFunctionOnSet(samples[d], Bucketed(c))
          BY <2>1, <2>2, <3>1 DEF m
        <4>3. CASE c = b
          <5>1. SumFunction(Behind(pending', slot, {c}))
                  = SumFunction(Behind(pending, slot, {c})) + 1
            BY <1>9, <4>3
          <5>2. SumFunctionOnSet(samples'[d], Bucketed(c))
                  = SumFunctionOnSet(samples[d], Bucketed(c)) + 1
            BY <1>7, <4>3
          <5> QED
            BY <4>1, <4>2, <5>1, <5>2
        <4>4. CASE c # b
          <5>1. SumFunction(Behind(pending', slot, {c})) = SumFunction(Behind(pending, slot, {c}))
            BY <1>9, <4>4
          <5>2. SumFunctionOnSet(samples'[d], Bucketed(c))
                  = SumFunctionOnSet(samples[d], Bucketed(c)) + 0
            BY <1>7, <4>4
          <5> QED
            BY <4>1, <4>2, <5>1, <5>2
        <4> QED
          BY <4>3, <4>4
      <3> QED
        BY <2>2, <3>1, <3>2, <3>3 DEF n
    <2>3. CASE e # d
      <3>1. SlotOf(e) \in Slots \ {slot}
        BY <1>1, <2>3
      <3>2. metrics'[SlotOf(e)] = metrics[SlotOf(e)] /\ samples'[e] = samples[e]
        BY <1>4, <1>6, <2>3, <3>1
      <3>3. \A c \in HistBuckets :
               SumFunction(Behind(pending', SlotOf(e), {c})) = SumFunction(Behind(pending, SlotOf(e), {c}))
        BY <1>9, <3>1
      <3> QED
        BY <2>1, <3>2, <3>3
    <2> QED
      BY <2>2, <2>3
  <1>d. Lagging'
    <2> SUFFICES ASSUME NEW s \in Slots, NEW c \in HookCpus
                 PROVE  metrics'[s][c].count =
                            SumFunction(metrics'[s][c].buckets)
                                + Behind(pending', s, HistBuckets)[c]
      BY DEF Lagging, Slots
    <2>1. metrics[s][c].count =
              SumFunction(metrics[s][c].buckets) + Behind(pending, s, HistBuckets)[c]
      BY DEF TelemetryInv, Lagging
    <2>2. CASE s = slot /\ c = cpu
      <3>1. Behind(pending', slot, HistBuckets)[cpu] = Behind(pending, slot, HistBuckets)[cpu] + 1
        BY <1>1, <1>i, CpuWaits
      <3>2. SumFunction(m[cpu].buckets) \in Nat /\ Behind(pending, slot, HistBuckets)[cpu] \in Nat
        <4>1. m[cpu].buckets \in [HistBuckets -> Nat]
          BY <1>4 DEF Metric
        <4>2. SumFunction(m[cpu].buckets) \in Nat
          BY <4>1, NatSum, FiniteParts
        <4> QED
          BY <4>2, WaitsType
      <3> QED
        BY <1>5, <2>1, <2>2, <3>1, <3>2 DEF m, n
    <2>3. CASE ~(s = slot /\ c = cpu)
      <3>1. metrics'[s][c] = metrics[s][c]
        BY <1>4, <1>5, <2>3 DEF m, n
      <3>2. Behind(pending', s, HistBuckets)[c] = Behind(pending, s, HistBuckets)[c]
        <4>1. Behind(pending, s, HistBuckets)[c] \in Nat
          BY WaitsType
        <4> QED
          BY <1>1, <1>i, <2>3, <4>1, CpuWaits
      <3> QED
        BY <2>1, <3>1, <3>2
    <2> QED
      BY <2>2, <2>3
  <1>g. \A s \in Slots, c \in HookCpus :
           /\ metrics[s][c].count \in Nat /\ metrics'[s][c].count \in Nat
           /\ metrics[s][c].count <= metrics'[s][c].count
    <2>1. \A s \in Slots, c \in HookCpus : metrics[s][c].count \in Nat
      BY <1>2 DEF Metric
    <2>2. \A c \in HookCpus : n[c].count = m[c].count \/ n[c].count = m[c].count + 1
      BY <1>5
    <2>3. \A s \in Slots, c \in HookCpus : \/ metrics'[s][c].count = metrics[s][c].count
                                           \/ metrics'[s][c].count = metrics[s][c].count + 1
      BY <1>4, <2>2 DEF m, n
    <2> QED
      BY <2>1, <2>3
  <1>e. ReadBefore' /\ Skipped'
    <2> SUFFICES ASSUME NEW s \in Slots, NEW c \in HookCpus
                 PROVE  /\ reader[s][c].count <= metrics'[s][c].count
                        /\ SumFunction(reader[s][c].buckets) <= metrics'[s][c].count
                        /\ <<s, c>> \notin copying =>
                              reader[s][c].count <= SumFunction(reader[s][c].buckets) + 1
                        /\ <<s, c>> \notin copied => reader[s][c] = ZeroMetric
      BY <1>3 DEF TelemetryInv, ReadBefore, Skipped, Slots, ZeroMetric
    <2>1. reader[s][c].count \in Nat /\ SumFunction(reader[s][c].buckets) \in Nat
      <3>1. reader[s][c] \in Metric
        BY DEF TelemetryInv, TelemetryTypeOK
      <3>2. reader[s][c].count \in Nat /\ reader[s][c].buckets \in [HistBuckets -> Nat]
        BY <3>1 DEF Metric
      <3> QED
        BY <3>2, NatSum, FiniteParts
    <2>2. /\ reader[s][c].count <= metrics[s][c].count
          /\ SumFunction(reader[s][c].buckets) <= metrics[s][c].count
          /\ <<s, c>> \notin copying => reader[s][c].count <= SumFunction(reader[s][c].buckets) + 1
          /\ <<s, c>> \notin copied => reader[s][c] = ZeroMetric
      BY DEF TelemetryInv, ReadBefore
    <2>3. /\ metrics[s][c].count \in Nat /\ metrics'[s][c].count \in Nat
          /\ metrics[s][c].count <= metrics'[s][c].count
      BY <1>g
    <2> QED
      BY <2>1, <2>2, <2>3
  <1>f. /\ Complete'
        /\ SumFunction(KindCounts(samples')) = SumFunction(KindCounts(samples)) + 1
    <2>1. /\ SlotCounts(metrics) \in [Slots -> Nat] /\ SlotCounts(metrics') \in [Slots -> Nat]
          /\ KindCounts(samples) \in [Decisions -> Nat] /\ KindCounts(samples') \in [Decisions -> Nat]
      <3>1. SlotCounts(metrics) \in [Slots -> Nat] /\ SlotCounts(metrics') \in [Slots -> Nat]
        <4>1. Table(metrics) /\ Table(metrics')
          BY <1>2, <1>a DEF TelemetryTypeOK, Table, Slots, Metric
        <4> QED
          BY <4>1, TableSums
      <3>2. \A e \in Decisions : SumFunction(samples[e]) \in Nat /\ SumFunction(samples'[e]) \in Nat
        <4>1. \A e \in Decisions : samples[e] \in [Durations -> Nat] /\ samples'[e] \in [Durations -> Nat]
          BY <1>2, <1>6, <1>7
        <4> QED
          BY <4>1, NatSum, FiniteParts
      <3> QED
        BY <3>1, <3>2 DEF KindCounts
    <2>2. Raised(SlotCounts(metrics), SlotCounts(metrics'), Slots, slot, 1)
      <3>1. SlotCounts(metrics')[slot] = SlotCounts(metrics)[slot] + 1
        BY <1>1, <1>5 DEF SlotCounts, m, n
      <3>2. \A s \in Slots \ {slot} : SlotCounts(metrics')[s] = SlotCounts(metrics)[s]
        BY <1>4 DEF SlotCounts
      <3> QED
        BY <1>1, <2>1, <3>1, <3>2, FiniteParts DEF Raised
    <2>3. Raised(KindCounts(samples), KindCounts(samples'), Decisions, d, 1)
      <3>1. KindCounts(samples')[d] = KindCounts(samples)[d] + 1
        BY <1>7 DEF KindCounts
      <3>2. \A e \in Decisions \ {d} : KindCounts(samples')[e] = KindCounts(samples)[e]
        BY <1>6 DEF KindCounts
      <3> QED
        BY <2>1, <3>1, <3>2, FiniteParts DEF Raised
    <2>4. /\ SumFunction(SlotCounts(metrics')) = SumFunction(SlotCounts(metrics)) + 1
          /\ SumFunction(KindCounts(samples')) = SumFunction(KindCounts(samples)) + 1
      BY <2>2, <2>3, NatSumRaised
    <2>5. SumFunction(SlotCounts(metrics)) = SumFunction(KindCounts(samples))
      BY DEF TelemetryInv, Complete
    <2>6. SumFunction(SlotCounts(metrics')) = SumFunction(KindCounts(samples'))
      BY <2>4, <2>5, Zenon
    <2> QED
      BY <2>4, <2>6 DEF Complete, SlotCounts, KindCounts, Slots, Counts
  <1>h. Begun'
    <2> DEFINE w == WouldRead(metrics, reader, copied)
               x == WouldRead(metrics', reader, copied)
    <2>1. /\ floor <= SumFunction(SlotCounts(w)) /\ floor \in Nat
          /\ \A i \in DOMAIN published :
                /\ published[i].total_count \in Nat
                /\ published[i].total_count <= IF SnapshotBegun THEN floor ELSE Recorded
      BY PublishedType DEF TelemetryInv, TelemetryTypeOK, Begun
    <2>2. Table(metrics) /\ Table(metrics') /\ Table(reader)
      BY <1>2, <1>a DEF TelemetryInv, TelemetryTypeOK, Table, Slots, Metric
    <2>3. NoFewer(w, x)
      <3>1. Table(w) /\ Table(x)
        BY <2>2, WouldReadType
      <3>2. \A s \in Slots, c \in HookCpus : w[s][c].count <= x[s][c].count
        <4> SUFFICES ASSUME NEW s \in Slots, NEW c \in HookCpus
                     PROVE  w[s][c].count <= x[s][c].count
          OBVIOUS
        <4>1. /\ w[s][c] = IF <<s, c>> \in copied THEN reader[s][c] ELSE metrics[s][c]
              /\ x[s][c] = IF <<s, c>> \in copied THEN reader[s][c] ELSE metrics'[s][c]
          BY <2>2, WouldReadType
        <4>2. reader[s][c].count \in Nat
          BY <2>2 DEF Table, Metric
        <4> HIDE DEF w, x
        <4> QED
          BY <1>g, <4>1, <4>2
      <3> QED
        BY <3>1, <3>2 DEF NoFewer
    <2>4. SumFunction(SlotCounts(w)) \in Nat /\ SumFunction(SlotCounts(x)) \in Nat
      BY <2>3, TableSums DEF NoFewer
    <2>5. SumFunction(SlotCounts(w)) <= SumFunction(SlotCounts(x))
      <3> HIDE DEF w, x
      <3> QED
        BY <2>3, CountsMonotone
    <2>6. floor <= SumFunction(SlotCounts(x))
      BY <2>1, <2>4, <2>5
    <2>7. /\ Recorded = SumFunction(KindCounts(samples)) /\ Recorded \in Nat
          /\ Recorded' = SumFunction(KindCounts(samples'))
      BY SumTypes DEF TelemetryInv, Recorded, KindCounts
    <2>8. Recorded' = Recorded + 1
      BY <1>f, <2>7
    <2>9. SlotCounts(WouldRead(metrics, reader, copied))' = SlotCounts(x)
      BY <1>3 DEF WouldRead, SlotCounts, Slots, Counts
    <2>10. SnapshotBegun' = SnapshotBegun
      BY <1>3 DEF SnapshotBegun
    <2>11. \A i \in DOMAIN published :
              published[i].total_count <= IF SnapshotBegun THEN floor ELSE Recorded'
      BY <2>1, <2>7, <2>8
    <2> HIDE DEF w, x
    <2> QED
      BY <1>3, <2>6, <2>9, <2>10, <2>11 DEF Begun
  <1>c. Bounded'
    <2> SUFFICES ASSUME NEW e \in Decisions
                 PROVE  /\ \A c \in HookCpus :
                             /\ metrics'[SlotOf(e)][c].min # 0 =>
                                   /\ metrics'[SlotOf(e)][c].min \in Durations
                                   /\ samples'[e][metrics'[SlotOf(e)][c].min] # 0
                             /\ metrics'[SlotOf(e)][c].max # 0 =>
                                   /\ metrics'[SlotOf(e)][c].max \in Durations
                                   /\ samples'[e][metrics'[SlotOf(e)][c].max] # 0
                        /\ \A t \in Durations : samples'[e][t] # 0 =>
                             /\ \E c \in HookCpus : /\ metrics'[SlotOf(e)][c].min # 0
                                                    /\ metrics'[SlotOf(e)][c].min <= t
                             /\ \E c \in HookCpus : t <= metrics'[SlotOf(e)][c].max
      BY DEF Bounded, SlotOf
    <2>1. /\ \A c \in HookCpus :
                /\ metrics[SlotOf(e)][c].min # 0 =>
                      /\ metrics[SlotOf(e)][c].min \in Durations
                      /\ samples[e][metrics[SlotOf(e)][c].min] # 0
                /\ metrics[SlotOf(e)][c].max # 0 =>
                      /\ metrics[SlotOf(e)][c].max \in Durations
                      /\ samples[e][metrics[SlotOf(e)][c].max] # 0
          /\ \A t \in Durations : samples[e][t] # 0 =>
                /\ \E c \in HookCpus : /\ metrics[SlotOf(e)][c].min # 0
                                       /\ metrics[SlotOf(e)][c].min <= t
                /\ \E c \in HookCpus : t <= metrics[SlotOf(e)][c].max
      BY DEF TelemetryInv, Bounded
    <2>2. CASE e # d
      <3>1. SlotOf(e) \in Slots \ {slot}
        BY <1>1, <2>2
      <3>2. metrics'[SlotOf(e)] = metrics[SlotOf(e)] /\ samples'[e] = samples[e]
        BY <1>4, <1>6, <2>2, <3>1
      <3> QED
        BY <2>1, <3>2
    <2>3. CASE e = d
      <3> DEFINE h == samples[d]
                 g == samples'[d]
      <3>1. metrics[SlotOf(e)] = m /\ metrics'[SlotOf(e)] = n
        BY <2>3 DEF slot, m, n
      <3>2. /\ \A c \in HookCpus : /\ m[c].min # 0 => m[c].min \in Durations /\ h[m[c].min] # 0
                                   /\ m[c].max # 0 => m[c].max \in Durations /\ h[m[c].max] # 0
            /\ \A t \in Durations : h[t] # 0 =>
                  /\ \E c \in HookCpus : m[c].min # 0 /\ m[c].min <= t
                  /\ \E c \in HookCpus : t <= m[c].max
        BY <2>1, <2>3, <3>1
      <3>3. \A t \in Durations : t \in Nat /\ (g[t] # 0 <=> t = ns \/ h[t] # 0)
        BY <1>7, TelemetryAssumption
      <3>4. \A c \in HookCpus : m[c].min \in Nat /\ m[c].max \in Nat
        BY <1>4 DEF Metric
      <3> HIDE DEF h, g
      <3>5. ASSUME NEW c \in HookCpus
            PROVE  /\ n[c].min # 0 => n[c].min \in Durations /\ g[n[c].min] # 0
                   /\ n[c].max # 0 => n[c].max \in Durations /\ g[n[c].max] # 0
        <4>1. CASE c = cpu
          <5>1. n[c].min = ns \/ n[c].min = m[c].min
            BY <1>5, <4>1
          <5>2. n[c].max = ns \/ n[c].max = m[c].max
            BY <1>5, <4>1
          <5> QED
            BY <3>2, <3>3, <5>1, <5>2
        <4>2. CASE c # cpu
          BY <1>5, <3>2, <3>3, <4>2
        <4> QED
          BY <4>1, <4>2
      <3>6. ASSUME NEW c \in HookCpus
            PROVE  /\ m[c].min # 0 => n[c].min # 0 /\ n[c].min <= m[c].min
                   /\ m[c].max <= n[c].max
        <4>1. CASE c = cpu
          BY <1>1, <1>5, <3>4, <4>1
        <4>2. CASE c # cpu
          BY <1>5, <3>4, <4>2
        <4> QED
          BY <4>1, <4>2
      <3>7. /\ n[cpu].min # 0 /\ n[cpu].min <= ns
            /\ ns <= n[cpu].max
        BY <1>1, <1>5, <3>4
      <3>8. \A c \in HookCpus : n[c].min \in Nat /\ n[c].max \in Nat
        BY <1>5 DEF Metric
      <3>9. ASSUME NEW t \in Durations, g[t] # 0
            PROVE  /\ \E c \in HookCpus : n[c].min # 0 /\ n[c].min <= t
                   /\ \E c \in HookCpus : t <= n[c].max
        <4>1. CASE t = ns
          BY <3>7, <4>1
        <4>2. CASE t # ns
          <5>1. h[t] # 0 /\ t \in Nat
            BY <3>3, <3>9, <4>2
          <5>2. PICK c1 \in HookCpus : m[c1].min # 0 /\ m[c1].min <= t
            BY <3>2, <5>1
          <5>3. PICK c2 \in HookCpus : t <= m[c2].max
            BY <3>2, <5>1
          <5>4. n[c1].min # 0 /\ n[c1].min <= t
            BY <3>4, <3>6, <3>8, <5>1, <5>2
          <5>5. t <= n[c2].max
            BY <3>4, <3>6, <3>8, <5>1, <5>3
          <5> QED
            BY <5>4, <5>5
        <4> QED
          BY <4>1, <4>2
      <3> QED
        BY <2>3, <3>1, <3>5, <3>9 DEF g
    <2> QED
      BY <2>2, <2>3
  <1> QED
    BY <1>a, <1>b, <1>c, <1>d, <1>e, <1>f, <1>h DEF TelemetryInv

(* A hook's second write (mcp_record_metric). *)
LEMMA BucketKeeps ==
    ASSUME TelemetryInv, NEW cpu \in HookCpus, RecordBucket(cpu)
    PROVE  TelemetryInv'
  <1> USE DEF hookVars, readVars
  <1>1. PICK p \in pending[cpu] :
           metrics' = [metrics EXCEPT ![p[1]][cpu].buckets[p[2]] = @ + 1]
    BY DEF RecordBucket
  <1> DEFINE slot == p[1]
             b == p[2]
             m == metrics[slot]
             n == metrics'[slot]
  <1>2. /\ metrics \in [Slots -> [HookCpus -> Metric]]
        /\ pending \in [HookCpus -> SUBSET (Slots \X HistBuckets)]
        /\ \A q \in pending[cpu] : q = p
    BY DEF TelemetryInv, TelemetryTypeOK
  <1>3. /\ slot \in Slots /\ b \in HistBuckets /\ pending[cpu] = {<<slot, b>>}
        /\ p = <<slot, b>>
    BY <1>1, <1>2
  <1>4. /\ metrics' = [metrics EXCEPT ![slot][cpu].buckets[b] = @ + 1]
        /\ pending' = [pending EXCEPT ![cpu] = {}]
        /\ reader' = reader /\ copied' = copied /\ copying' = copying /\ skipped' = skipped
        /\ floor' = floor /\ published' = published /\ samples' = samples
    BY <1>1 DEF RecordBucket
  <1> HIDE DEF slot, b
  <1>5. /\ FilledAt(m, n, cpu, b)
        /\ \A s \in Slots \ {slot} : metrics'[s] = metrics[s]
        /\ m \in [HookCpus -> Metric]
    BY <1>2, <1>3, <1>4 DEF FilledAt
  <1> HIDE DEF m, n
  <1>6. /\ n \in [HookCpus -> Metric]
        /\ Counts(n) = Counts(m) /\ Totals(n) = Totals(m)
        /\ SumFunction(Filled(n, b)) = SumFunction(Filled(m, b)) + 1
        /\ \A e \in HistBuckets \ {b} : Filled(n, e) = Filled(m, e)
        /\ \A c \in HookCpus \ {cpu} : n[c] = m[c]
        /\ SumFunction(n[cpu].buckets) = SumFunction(m[cpu].buckets) + 1
        /\ \A c \in HookCpus : /\ n[c].count = m[c].count
                               /\ n[c].min = m[c].min /\ n[c].max = m[c].max
    BY <1>3, <1>5, AfterBucket
  <1>7. Waiting(pending', pending, cpu, slot, b)
    BY <1>2, <1>3, <1>4 DEF Waiting
  <1>8. ASSUME NEW s, NEW bs
        PROVE  /\ s = slot /\ b \in bs =>
                     SumFunction(Behind(pending, s, bs)) = SumFunction(Behind(pending', s, bs)) + 1
               /\ ~(s = slot /\ b \in bs) =>
                     SumFunction(Behind(pending, s, bs)) = SumFunction(Behind(pending', s, bs))
    BY <1>7, OneWaits
  <1>9. \A s \in Slots : /\ Counts(metrics'[s]) = Counts(metrics[s])
                         /\ Totals(metrics'[s]) = Totals(metrics[s])
                         /\ \A c \in HookCpus : metrics'[s][c].count = metrics[s][c].count
    BY <1>5, <1>6 DEF m, n
  <1>a. TelemetryTypeOK'
    <2>1. metrics' \in [Slots -> [HookCpus -> Metric]]
      <3>1. \A s \in Slots : metrics'[s] \in [HookCpus -> Metric]
        BY <1>2, <1>5, <1>6 DEF n
      <3> QED
        BY <1>2, <1>4, <3>1
    <2>2. pending' \in [HookCpus -> SUBSET (Slots \X HistBuckets)]
      BY <1>2, <1>4
    <2>3. \A c \in HookCpus : \A q1, q2 \in pending'[c] : q1 = q2
      <3>1. \A c \in HookCpus : \A q1, q2 \in pending[c] : q1 = q2
        BY DEF TelemetryInv, TelemetryTypeOK
      <3>2. \A c \in HookCpus : pending'[c] = pending[c] \/ pending'[c] = {}
        BY <1>2, <1>4
      <3> QED
        BY <3>1, <3>2, Zenon
    <2> QED
      BY <1>4, <2>1, <2>2, <2>3 DEF TelemetryInv, TelemetryTypeOK
  <1>b. Counted'
    <2> SUFFICES ASSUME NEW e \in Decisions
                 PROVE  /\ SumFunction(Counts(metrics'[SlotOf(e)])) = SumFunction(samples[e])
                        /\ SumFunction(Totals(metrics'[SlotOf(e)])) = SumFunction(Taken(samples[e]))
                        /\ \A c \in HistBuckets :
                               SumFunction(Filled(metrics'[SlotOf(e)], c))
                                 + SumFunction(Behind(pending', SlotOf(e), {c}))
                                   = SumFunctionOnSet(samples[e], Bucketed(c))
      BY <1>4 DEF Counted, SlotOf
    <2>1. /\ SumFunction(Counts(metrics[SlotOf(e)])) = SumFunction(samples[e])
          /\ SumFunction(Totals(metrics[SlotOf(e)])) = SumFunction(Taken(samples[e]))
          /\ \A c \in HistBuckets :
                 SumFunction(Filled(metrics[SlotOf(e)], c))
                   + SumFunction(Behind(pending, SlotOf(e), {c}))
                     = SumFunctionOnSet(samples[e], Bucketed(c))
      BY DEF TelemetryInv, Counted
    <2>2. SlotOf(e) \in Slots
      BY SlotFacts
    <2>3. ASSUME NEW c \in HistBuckets
          PROVE  SumFunction(Filled(metrics'[SlotOf(e)], c))
                   + SumFunction(Behind(pending', SlotOf(e), {c}))
                     = SumFunctionOnSet(samples[e], Bucketed(c))
      <3>1. SumFunction(Behind(pending', SlotOf(e), {c})) \in Nat
        BY WaitsType
      <3>2. CASE SlotOf(e) = slot /\ c = b
        <4>1. SumFunction(Behind(pending, slot, {b})) = SumFunction(Behind(pending', slot, {b})) + 1
          BY <1>8
        <4>2. SumFunction(Filled(m, b)) \in Nat
          BY <1>3, <1>5, FieldTypes
        <4>3. SumFunction(Filled(m, b)) + SumFunction(Behind(pending, slot, {b}))
                = SumFunctionOnSet(samples[e], Bucketed(b))
          BY <2>1, <3>2, <1>3 DEF m
        <4>4. SumFunction(Filled(n, b)) + SumFunction(Behind(pending', slot, {b}))
                = SumFunctionOnSet(samples[e], Bucketed(b))
          BY <1>6, <3>1, <3>2, <4>1, <4>2, <4>3
        <4> QED
          BY <3>2, <4>4 DEF n
      <3>3. CASE ~(SlotOf(e) = slot /\ c = b)
        <4>1. SumFunction(Behind(pending, SlotOf(e), {c})) = SumFunction(Behind(pending', SlotOf(e), {c}))
          BY <1>8, <3>3
        <4>2. Filled(metrics'[SlotOf(e)], c) = Filled(metrics[SlotOf(e)], c)
          <5>1. CASE SlotOf(e) = slot
            BY <1>6, <3>3, <5>1 DEF m, n
          <5>2. CASE SlotOf(e) # slot
            BY <1>5, <2>2, <5>2
          <5> QED
            BY <5>1, <5>2
        <4> QED
          BY <2>1, <4>1, <4>2
      <3> QED
        BY <3>2, <3>3
    <2> QED
      BY <1>9, <2>1, <2>2, <2>3
  <1>c. Bounded'
    <2>1. \A s \in Slots : \A c \in HookCpus : /\ metrics'[s][c].min = metrics[s][c].min
                                                /\ metrics'[s][c].max = metrics[s][c].max
      BY <1>5, <1>6 DEF m, n
    <2>2. \A e \in Decisions : SlotOf(e) \in Slots
      BY SlotFacts
    <2>3. \A e \in Decisions : \A c \in HookCpus :
             /\ metrics'[SlotOf(e)][c].min = metrics[SlotOf(e)][c].min
             /\ metrics'[SlotOf(e)][c].max = metrics[SlotOf(e)][c].max
      BY <2>1, <2>2, Zenon
    <2>4. samples' = samples
      BY <1>4
    <2>5. Bounded
      BY DEF TelemetryInv
    <2> QED
      BY <2>3, <2>4, <2>5 DEF Bounded, SlotOf
  <1>d. Lagging'
    <2> SUFFICES ASSUME NEW s \in Slots, NEW c \in HookCpus
                 PROVE  metrics'[s][c].count =
                            SumFunction(metrics'[s][c].buckets)
                                + Behind(pending', s, HistBuckets)[c]
      BY DEF Lagging, Slots
    <2>1. metrics[s][c].count =
              SumFunction(metrics[s][c].buckets) + Behind(pending, s, HistBuckets)[c]
      BY DEF TelemetryInv, Lagging
    <2>2. CASE s = slot /\ c = cpu
      <3>1. Behind(pending, slot, HistBuckets)[cpu] = Behind(pending', slot, HistBuckets)[cpu] + 1
        BY <1>3, <1>7, CpuWaits
      <3>2. SumFunction(m[cpu].buckets) \in Nat /\ Behind(pending', slot, HistBuckets)[cpu] \in Nat
        <4>1. m[cpu].buckets \in [HistBuckets -> Nat]
          BY <1>5, <1>3, <2>2 DEF Metric
        <4>2. SumFunction(m[cpu].buckets) \in Nat
          BY <4>1, NatSum, FiniteParts
        <4> QED
          BY <2>2, <4>2, WaitsType
      <3>3. m[cpu].count = SumFunction(m[cpu].buckets) + Behind(pending, slot, HistBuckets)[cpu]
        BY <2>1, <2>2 DEF m
      <3>4. n[cpu].count = SumFunction(n[cpu].buckets) + Behind(pending', slot, HistBuckets)[cpu]
        BY <1>6, <3>1, <3>2, <3>3
      <3> QED
        BY <2>2, <3>4 DEF n
    <2>3. CASE ~(s = slot /\ c = cpu)
      <3>1. metrics'[s][c] = metrics[s][c]
        BY <1>5, <1>6, <2>3 DEF m, n
      <3>2. Behind(pending', s, HistBuckets)[c] = Behind(pending, s, HistBuckets)[c]
        <4>1. Behind(pending', s, HistBuckets)[c] \in Nat
          BY WaitsType
        <4> QED
          BY <1>3, <1>7, <2>3, <4>1, CpuWaits
      <3> QED
        BY <2>1, <3>1, <3>2
    <2> QED
      BY <2>2, <2>3
  <1>e. ReadBefore' /\ Skipped'
    BY <1>4, <1>9 DEF TelemetryInv, ReadBefore, Skipped, Slots, ZeroMetric
  <1>f. Complete'
    <2>1. SlotCounts(metrics') = SlotCounts(metrics)
      BY <1>9 DEF SlotCounts
    <2>2. SumFunction(SlotCounts(metrics')) = SumFunction(KindCounts(samples))
      BY <2>1 DEF TelemetryInv, Complete
    <2> QED
      BY <1>4, <2>2 DEF Complete, SlotCounts, KindCounts, Slots, Counts
  <1>g. Begun'
    <2>1. SlotCounts(WouldRead(metrics', reader, copied)) = SlotCounts(WouldRead(metrics, reader, copied))
      <3>1. \A s \in Slots : Counts(WouldRead(metrics', reader, copied)[s])
                                  = Counts(WouldRead(metrics, reader, copied)[s])
        BY <1>9 DEF WouldRead, Counts
      <3> QED
        BY <3>1 DEF SlotCounts
    <2>2. SlotCounts(WouldRead(metrics, reader, copied))' = SlotCounts(WouldRead(metrics', reader, copied))
      BY <1>4 DEF WouldRead, SlotCounts, Slots, Counts
    <2>3. Recorded' = Recorded /\ SnapshotBegun' = SnapshotBegun
      BY <1>4 DEF Recorded, SnapshotBegun
    <2> QED
      BY <1>4, <2>1, <2>2, <2>3 DEF TelemetryInv, Begun
  <1> QED
    BY <1>a, <1>b, <1>c, <1>d, <1>e, <1>f, <1>g DEF TelemetryInv

(* The sum over the CPUs is a value like theirs (read_metrics_snapshot). *)
LEMMA TotalFacts ==
    ASSUME NEW m \in [HookCpus -> Metric]
    PROVE  /\ SlotTotal(m) \in Metric
           /\ SlotTotal(m).count = SumFunction(Counts(m))
           /\ SlotTotal(m).total = SumFunction(Totals(m))
           /\ SlotTotal(m).buckets = Histogram(m)
           /\ SlotTotal(m).min =
                LET mins == {m[cpu].min : cpu \in HookCpus} \ {0}
                IN  IF mins = {} THEN 0 ELSE Min(mins)
           /\ SlotTotal(m).max = Max({m[cpu].max : cpu \in HookCpus})
  <1> DEFINE mins == {m[cpu].min : cpu \in HookCpus} \ {0}
             maxs == {m[cpu].max : cpu \in HookCpus}
             lo == IF mins = {} THEN 0 ELSE Min(mins)
             hi == Max(maxs)
             sum == SumFunction(Counts(m))
             all == SumFunction(Totals(m))
             hist == Histogram(m)
  <1>1. \A cpu \in HookCpus : m[cpu].min \in Nat /\ m[cpu].max \in Nat
    BY DEF Metric
  <1>2. mins \in SUBSET Nat /\ maxs \in SUBSET Nat /\ maxs # {}
    BY <1>1, TelemetryAssumption
  <1>3. lo \in Nat
    <2> HIDE DEF mins
    <2> QED
      BY <1>2, MinIsLeast
  <1>4. hi \in Nat
    <2>1. IsFiniteSet(maxs)
      <3> DEFINE f == [cpu \in HookCpus |-> m[cpu].max]
      <3>1. f \in Surjection(HookCpus, maxs)
        BY DEF Surjection
      <3> HIDE DEF f, maxs
      <3> QED
        BY <3>1, FiniteParts, FS_Surjection
    <2> HIDE DEF maxs
    <2> QED
      BY <1>2, <2>1, MaxIsGreatest
  <1>5. sum \in Nat /\ all \in Nat /\ hist \in [HistBuckets -> Nat]
    BY FieldTypes
  <1>6. SlotTotal(m) =
           [count |-> sum, total |-> all, min |-> lo, max |-> hi, buckets |-> hist]
    BY DEF SlotTotal, TotalOver, Counts, Totals, Histogram, Filled
  <1> HIDE DEF sum, all, lo, hi, hist
  <1>7. /\ SlotTotal(m) \in Metric
        /\ SlotTotal(m).count = sum /\ SlotTotal(m).total = all
        /\ SlotTotal(m).min = lo /\ SlotTotal(m).max = hi
        /\ SlotTotal(m).buckets = hist
    BY <1>3, <1>4, <1>5, <1>6 DEF Metric
  <1> QED
    BY <1>7 DEF sum, all, lo, hi, hist

(* The slot and the CPU that come next (read_metrics_snapshot). *)
LEMMA NextValue ==
    ASSUME SlotsLeft # {}
    PROVE  /\ Min(SlotsLeft) \in Slots \ skipped
           /\ Min(CpusLeft(Min(SlotsLeft))) \in HookCpus
           /\ <<Min(SlotsLeft), Min(CpusLeft(Min(SlotsLeft)))>> \notin copied
  <1> DEFINE left == SlotsLeft
             slot == Min(left)
             cpus == CpusLeft(slot)
  <1>1. left \in SUBSET Nat /\ left # {}
    BY SlotFacts DEF SlotsLeft
  <1>2. slot \in left
    <2> HIDE DEF left
    <2> QED
      BY <1>1, MinIsLeast
  <1>3. slot \in Slots \ skipped /\ cpus # {} /\ cpus \in SUBSET Nat
    <2> HIDE DEF slot
    <2> QED
      BY <1>2, TelemetryAssumption DEF SlotsLeft, CpusLeft
  <1>4. Min(cpus) \in cpus
    <2> HIDE DEF cpus
    <2> QED
      BY <1>3, MinIsLeast
  <1> HIDE DEF slot
  <1>5. Min(cpus) \in HookCpus /\ <<slot, Min(cpus)>> \notin copied
    BY <1>4 DEF CpusLeft
  <1> QED
    BY <1>3, <1>5 DEF slot

(* What a step of the reader leaves alone, and where it counts from. *)
LEMMA ReadStepFacts ==
    ASSUME TelemetryInv, ReadStep
    PROVE  /\ Counted' /\ Bounded' /\ Lagging' /\ Complete'
           /\ metrics' = metrics /\ pending' = pending /\ samples' = samples
           /\ published' = published
           /\ Recorded' = Recorded /\ Recorded \in Nat
           /\ floor' = IF SnapshotBegun THEN floor ELSE Recorded
           /\ floor' \in Nat
           /\ floor' <= SumFunction(SlotCounts(WouldRead(metrics, reader, copied)))
           /\ \A i \in DOMAIN published : published[i].total_count <= floor'
  <1>1. /\ metrics' = metrics /\ pending' = pending /\ samples' = samples
        /\ published' = published
        /\ floor' = IF SnapshotBegun THEN floor ELSE Recorded
    BY DEF ReadStep, hookVars
  <1>2. Counted' /\ Bounded' /\ Lagging' /\ Complete'
    <2>1. Counted'
      BY <1>1 DEF TelemetryInv, Counted
    <2>2. Bounded'
      BY <1>1 DEF TelemetryInv, Bounded
    <2>3. Lagging'
      BY <1>1 DEF TelemetryInv, Lagging
    <2>4. Complete'
      BY <1>1 DEF TelemetryInv, Complete
    <2> QED
      BY <2>1, <2>2, <2>3, <2>4
  <1>3. Recorded' = Recorded
    BY <1>1 DEF Recorded
  <1>4. /\ Recorded \in Nat /\ floor \in Nat
        /\ Recorded = SumFunction(SlotCounts(metrics))
    BY SumTypes DEF TelemetryInv, TelemetryTypeOK, Complete
  <1>5. ASSUME ~SnapshotBegun
        PROVE  SumFunction(SlotCounts(WouldRead(metrics, reader, copied))) = Recorded
    <2>1. copied = {}
      BY <1>5 DEF SnapshotBegun
    <2>2. WouldRead(metrics, reader, copied) = metrics
      BY <2>1 DEF TelemetryInv, TelemetryTypeOK, WouldRead
    <2> QED
      BY <1>4, <2>2
  <1>6. floor' <= SumFunction(SlotCounts(WouldRead(metrics, reader, copied)))
    BY <1>1, <1>4, <1>5 DEF TelemetryInv, Begun
  <1>7. \A i \in DOMAIN published : published[i].total_count <= floor'
    BY <1>1 DEF TelemetryInv, Begun
  <1> QED
    BY <1>1, <1>2, <1>3, <1>4, <1>6, <1>7

(* The snapshot stays as good as it was, if the step takes no count away.  *)
LEMMA BegunKept ==
    ASSUME TelemetryInv, ReadStep, SnapshotBegun', Table(reader'),
           NoFewer(WouldRead(metrics, reader, copied), WouldRead(metrics, reader', copied'))
    PROVE  Begun'
  <1>1. /\ metrics' = metrics /\ published' = published /\ floor' \in Nat
        /\ floor' <= SumFunction(SlotCounts(WouldRead(metrics, reader, copied)))
        /\ \A i \in DOMAIN published : published[i].total_count <= floor'
    BY ReadStepFacts
  <1>2. SlotCounts(WouldRead(metrics, reader, copied))' = SlotCounts(WouldRead(metrics, reader', copied'))
    BY <1>1 DEF WouldRead, SlotCounts, Slots, Counts
  <1> DEFINE w == WouldRead(metrics, reader, copied)
             x == WouldRead(metrics, reader', copied')
  <1>3. NoFewer(w, x) /\ Table(w) /\ Table(x)
    BY DEF NoFewer
  <1> HIDE DEF w, x
  <1>4. /\ SumFunction(SlotCounts(w)) \in Nat /\ SumFunction(SlotCounts(x)) \in Nat
        /\ SumFunction(SlotCounts(w)) <= SumFunction(SlotCounts(x))
    BY <1>3, TableSums, CountsMonotone
  <1>5. floor' <= SumFunction(SlotCounts(x))
    BY <1>1, <1>4 DEF w
  <1> QED
    BY <1>1, <1>2, <1>5 DEF Begun, x

(* The counters of one CPU are copied (bpf_map_lookup_elem). *)
LEMMA CountersKeep ==
    ASSUME TelemetryInv, CopyCounters
    PROVE  TelemetryInv'
  <1> DEFINE slot == Min(SlotsLeft)
             cpu == Min(CpusLeft(slot))
             v == [metrics[slot][cpu] EXCEPT !.buckets = ZeroMetric.buckets]
  <1>1. /\ ReadStep /\ copying = {} /\ SlotsLeft # {}
        /\ reader' = [reader EXCEPT ![slot][cpu] = v]
        /\ copied' = copied \cup {<<slot, cpu>>}
        /\ copying' = {<<slot, cpu>>} /\ skipped' = skipped
    BY DEF CopyCounters
  <1>2. slot \in Slots /\ slot \notin skipped /\ cpu \in HookCpus /\ <<slot, cpu>> \notin copied
    BY <1>1, NextValue
  <1> HIDE DEF slot, cpu
  <1>3. /\ Counted' /\ Bounded' /\ Lagging' /\ Complete'
        /\ metrics' = metrics /\ pending' = pending /\ samples' = samples
        /\ published' = published /\ floor' \in Nat
    BY <1>1, ReadStepFacts
  <1>4. TelemetryTypeOK
    BY DEF TelemetryInv
  <1>5. /\ v \in Metric /\ v.count = metrics[slot][cpu].count
        /\ v.buckets = ZeroMetric.buckets /\ v.count \in Nat
    <2>1. metrics[slot][cpu] \in Metric
      BY <1>2, <1>4 DEF TelemetryTypeOK
    <2>2. ZeroMetric.buckets \in [HistBuckets -> Nat]
      BY DEF ZeroMetric
    <2> QED
      BY <2>1, <2>2 DEF Metric
  <1>6. /\ reader' \in [Slots -> [HookCpus -> Metric]]
        /\ reader'[slot][cpu] = v
        /\ \A s \in Slots, c \in HookCpus :
              <<s, c>> # <<slot, cpu>> => reader'[s][c] = reader[s][c]
    <2> HIDE DEF v
    <2> QED
      BY <1>1, <1>2, <1>4, <1>5 DEF TelemetryTypeOK
  <1> HIDE DEF v
  <1>7. TelemetryTypeOK'
    <2>1. copied' \subseteq Slots \X HookCpus
      BY <1>1, <1>2, <1>4 DEF TelemetryTypeOK
    <2>2. copying' \subseteq copied' /\ \A p, q \in copying' : p = q
      BY <1>1
    <2> QED
      BY <1>1, <1>3, <1>4, <1>6, <2>1, <2>2 DEF TelemetryTypeOK, Metric, Slots, Message
  <1>8. ReadBefore'
    <2> SUFFICES ASSUME NEW s \in Slots, NEW c \in HookCpus
                 PROVE  /\ reader'[s][c].count <= metrics[s][c].count
                        /\ SumFunction(reader'[s][c].buckets) <= metrics[s][c].count
                        /\ <<s, c>> \notin copying' =>
                              reader'[s][c].count <= SumFunction(reader'[s][c].buckets) + 1
                        /\ <<s, c>> \notin copied' => reader'[s][c] = ZeroMetric
      BY <1>3 DEF ReadBefore, Slots, ZeroMetric
    <2>1. CASE <<s, c>> = <<slot, cpu>>
      <3>1. s = slot /\ c = cpu
        BY <2>1
      <3> QED
        BY <1>1, <1>5, <1>6, <3>1, ZeroFacts
    <2>2. CASE <<s, c>> # <<slot, cpu>>
      <3>1. reader'[s][c] = reader[s][c]
        BY <1>6, <2>2
      <3>2. <<s, c>> \notin copying /\ (<<s, c>> \notin copied' => <<s, c>> \notin copied)
        BY <1>1
      <3> QED
        BY <3>1, <3>2 DEF TelemetryInv, ReadBefore
    <2> QED
      BY <2>1, <2>2
  <1>9. Skipped'
    BY <1>1, <1>2 DEF TelemetryInv, Skipped
  <1>10. Begun'
    <2>1. Table(metrics) /\ Table(reader) /\ Table(reader')
      BY <1>4, <1>6 DEF TelemetryTypeOK, Table
    <2> DEFINE w == WouldRead(metrics, reader, copied)
               x == WouldRead(metrics, reader', copied')
    <2>2. Table(w) /\ Table(x)
      BY <2>1, WouldReadType
    <2>3. ASSUME NEW s \in Slots, NEW c \in HookCpus
          PROVE  w[s][c].count <= x[s][c].count
      <3>1. /\ w[s][c] = IF <<s, c>> \in copied THEN reader[s][c] ELSE metrics[s][c]
            /\ x[s][c] = IF <<s, c>> \in copied' THEN reader'[s][c] ELSE metrics[s][c]
        BY <2>1, WouldReadType
      <3>2. w[s][c].count \in Nat
        BY <2>2 DEF Table, Metric
      <3> HIDE DEF w, x
      <3>3. CASE <<s, c>> = <<slot, cpu>>
        <4>1. s = slot /\ c = cpu
          BY <3>3
        <4>2. w[s][c] = metrics[slot][cpu] /\ x[s][c] = v
          BY <1>1, <1>2, <1>6, <3>1, <4>1
        <4> QED
          BY <1>5, <3>2, <4>2
      <3>4. CASE <<s, c>> # <<slot, cpu>>
        <4>1. w[s][c] = x[s][c]
          BY <1>1, <1>6, <3>1, <3>4
        <4> QED
          BY <3>2, <4>1
      <3> QED
        BY <3>3, <3>4
    <2>4. NoFewer(w, x)
      <3> HIDE DEF w, x
      <3> QED
        BY <2>2, <2>3 DEF NoFewer
    <2>5. SnapshotBegun'
      BY <1>1 DEF SnapshotBegun
    <2> QED
      BY <1>1, <2>1, <2>4, <2>5, BegunKept
  <1> QED
    BY <1>3, <1>7, <1>8, <1>9, <1>10 DEF TelemetryInv

(* Its buckets are copied. *)
LEMMA BucketsKeep ==
    ASSUME TelemetryInv, CopyBuckets
    PROVE  TelemetryInv'
  <1>1. PICK p \in copying :
           reader' = [reader EXCEPT ![p[1]][p[2]].buckets = metrics[p[1]][p[2]].buckets]
    BY DEF CopyBuckets
  <1> DEFINE slot == p[1]
             cpu == p[2]
             v == [reader[slot][cpu] EXCEPT !.buckets = metrics[slot][cpu].buckets]
  <1>2. /\ ReadStep /\ copying' = {} /\ copied' = copied /\ skipped' = skipped
        /\ reader' = [reader EXCEPT ![slot][cpu].buckets = metrics[slot][cpu].buckets]
    BY <1>1 DEF CopyBuckets
  <1>3. TelemetryTypeOK
    BY DEF TelemetryInv
  <1>4. /\ slot \in Slots /\ cpu \in HookCpus /\ p = <<slot, cpu>>
        /\ <<slot, cpu>> \in copied
        /\ \A q \in copying : q = <<slot, cpu>>
    <2>1. p \in copied /\ p \in Slots \X HookCpus /\ \A q \in copying : q = p
      BY <1>1, <1>3 DEF TelemetryTypeOK
    <2> QED
      BY <2>1
  <1> HIDE DEF slot, cpu
  <1>5. /\ Counted' /\ Bounded' /\ Lagging' /\ Complete'
        /\ metrics' = metrics /\ pending' = pending /\ samples' = samples
        /\ published' = published /\ floor' \in Nat
    BY <1>2, ReadStepFacts
  <1>6. reader[slot][cpu] \in Metric /\ metrics[slot][cpu] \in Metric
    BY <1>3, <1>4 DEF TelemetryTypeOK
  <1>7. /\ v \in Metric /\ v.count = reader[slot][cpu].count
        /\ v.buckets = metrics[slot][cpu].buckets /\ v.count \in Nat
    BY <1>6 DEF Metric
  <1>8. /\ reader' \in [Slots -> [HookCpus -> Metric]]
        /\ reader'[slot][cpu] = v
        /\ \A s \in Slots, c \in HookCpus :
              <<s, c>> # <<slot, cpu>> => reader'[s][c] = reader[s][c]
    <2>1. reader' = [reader EXCEPT ![slot][cpu] = v]
      BY <1>2, <1>3, <1>4 DEF TelemetryTypeOK
    <2> HIDE DEF v
    <2> QED
      BY <1>3, <1>4, <1>7, <2>1 DEF TelemetryTypeOK
  <1> HIDE DEF v
  <1>9. TelemetryTypeOK'
    <2>1. copying' \subseteq copied' /\ \A q, r \in copying' : q = r
      BY <1>2
    <2> QED
      BY <1>2, <1>3, <1>5, <1>8, <2>1 DEF TelemetryTypeOK, Metric, Slots, Message
  <1>10. ReadBefore'
    <2> SUFFICES ASSUME NEW s \in Slots, NEW c \in HookCpus
                 PROVE  /\ reader'[s][c].count <= metrics[s][c].count
                        /\ SumFunction(reader'[s][c].buckets) <= metrics[s][c].count
                        /\ reader'[s][c].count <= SumFunction(reader'[s][c].buckets) + 1
                        /\ <<s, c>> \notin copied => reader'[s][c] = ZeroMetric
      BY <1>2, <1>5 DEF ReadBefore, Slots, ZeroMetric
    <2>1. CASE <<s, c>> = <<slot, cpu>>
      <3>1. s = slot /\ c = cpu
        BY <2>1
      <3>2. /\ metrics[s][c].count =
                  SumFunction(metrics[s][c].buckets) + Behind(pending, s, HistBuckets)[c]
            /\ reader[s][c].count <= metrics[s][c].count
        BY DEF TelemetryInv, Lagging, ReadBefore
      <3>3. /\ metrics[s][c].count \in Nat /\ SumFunction(metrics[s][c].buckets) \in Nat
            /\ reader[s][c].count \in Nat
            /\ Behind(pending, s, HistBuckets)[c] \in {0, 1}
        <4>1. metrics[s][c].buckets \in [HistBuckets -> Nat] /\ metrics[s][c].count \in Nat
              /\ reader[s][c].count \in Nat
          BY <1>6, <3>1 DEF Metric
        <4>2. SumFunction(metrics[s][c].buckets) \in Nat
          BY <4>1, NatSum, FiniteParts
        <4>3. Behind(pending, s, HistBuckets)[c] \in {0, 1}
          BY WaitsType
        <4> QED
          BY <4>1, <4>2, <4>3
      <3>4. reader'[s][c].count = reader[s][c].count /\ reader'[s][c].buckets = metrics[s][c].buckets
        BY <1>7, <1>8, <3>1
      <3>5. <<s, c>> \in copied
        BY <1>4, <3>1
      <3> QED
        BY <3>2, <3>3, <3>4, <3>5
    <2>2. CASE <<s, c>> # <<slot, cpu>>
      <3>1. reader'[s][c] = reader[s][c]
        BY <1>8, <2>2
      <3>2. <<s, c>> \notin copying
        BY <1>4, <2>2
      <3> QED
        BY <3>1, <3>2 DEF TelemetryInv, ReadBefore
    <2> QED
      BY <2>1, <2>2
  <1>11. Skipped'
    BY <1>2 DEF TelemetryInv, Skipped
  <1>12. Begun'
    <2>1. Table(metrics) /\ Table(reader) /\ Table(reader')
      BY <1>3, <1>8 DEF TelemetryTypeOK, Table
    <2> DEFINE w == WouldRead(metrics, reader, copied)
               x == WouldRead(metrics, reader', copied')
    <2>2. Table(w) /\ Table(x)
      BY <2>1, WouldReadType
    <2>3. ASSUME NEW s \in Slots, NEW c \in HookCpus
          PROVE  w[s][c].count <= x[s][c].count
      <3>1. /\ w[s][c] = IF <<s, c>> \in copied THEN reader[s][c] ELSE metrics[s][c]
            /\ x[s][c] = IF <<s, c>> \in copied THEN reader'[s][c] ELSE metrics[s][c]
        <4>1. w[s][c] = IF <<s, c>> \in copied THEN reader[s][c] ELSE metrics[s][c]
          BY DEF WouldRead
        <4>2. x[s][c] = IF <<s, c>> \in copied' THEN reader'[s][c] ELSE metrics[s][c]
          BY DEF WouldRead
        <4> QED
          BY <1>2, <4>1, <4>2
      <3>2. w[s][c].count \in Nat
        BY <2>2 DEF Table, Metric
      <3> HIDE DEF w, x
      <3>3. reader'[s][c].count = reader[s][c].count
        <4>1. CASE <<s, c>> = <<slot, cpu>>
          <5>1. s = slot /\ c = cpu
            BY <4>1
          <5> QED
            BY <1>7, <1>8, <5>1
        <4>2. CASE <<s, c>> # <<slot, cpu>>
          BY <1>8, <4>2
        <4> QED
          BY <4>1, <4>2
      <3>4. w[s][c].count = x[s][c].count
        BY <3>1, <3>3
      <3> QED
        BY <3>2, <3>4
    <2>4. NoFewer(w, x)
      <3> HIDE DEF w, x
      <3> QED
        BY <2>2, <2>3 DEF NoFewer
    <2>5. SnapshotBegun'
      BY <1>2, <1>4 DEF SnapshotBegun
    <2> QED
      BY <1>2, <2>1, <2>4, <2>5, BegunKept
  <1> QED
    BY <1>5, <1>9, <1>10, <1>11, <1>12 DEF TelemetryInv

(* A slot whose lookup fails (read_metrics_snapshot). *)
LEMMA SkipKeeps ==
    ASSUME TelemetryInv, SkipSlot
    PROVE  TelemetryInv'
  <1> DEFINE slot == Min(SlotsLeft)
  <1>1. /\ ReadStep /\ SlotsLeft # {} /\ CpusLeft(slot) = HookCpus
        /\ skipped' = skipped \cup {slot}
        /\ reader' = reader /\ copied' = copied /\ copying' = copying
    BY DEF SkipSlot
  <1>2. slot \in Slots
    BY <1>1, NextValue
  <1> HIDE DEF slot
  <1>3. /\ Counted' /\ Bounded' /\ Lagging' /\ Complete'
        /\ metrics' = metrics /\ pending' = pending /\ samples' = samples
        /\ published' = published /\ floor' \in Nat
    BY <1>1, ReadStepFacts
  <1>4. TelemetryTypeOK
    BY DEF TelemetryInv
  <1>5. TelemetryTypeOK'
    BY <1>1, <1>2, <1>3, <1>4 DEF TelemetryTypeOK, Metric, Slots, Message
  <1>6. ReadBefore'
    BY <1>1, <1>3 DEF TelemetryInv, ReadBefore
  <1>7. Skipped'
    <2>1. \A c \in HookCpus : <<slot, c>> \notin copied
      BY <1>1 DEF CpusLeft
    <2> QED
      BY <1>1, <2>1 DEF TelemetryInv, Skipped
  <1>8. Begun'
    <2>1. Table(metrics) /\ Table(reader) /\ Table(reader')
      BY <1>1, <1>4 DEF TelemetryTypeOK, Table
    <2>2. Table(WouldRead(metrics, reader, copied))
      BY <2>1, WouldReadType
    <2>3. NoFewer(WouldRead(metrics, reader, copied), WouldRead(metrics, reader', copied'))
      <3> DEFINE w == WouldRead(metrics, reader, copied)
      <3> HIDE DEF w
      <3>1. \A s \in Slots, c \in HookCpus : w[s][c].count \in Nat
        BY <2>2 DEF Table, Metric, w
      <3>2. NoFewer(w, w)
        BY <2>2, <3>1 DEF NoFewer, w
      <3> QED
        BY <1>1, <3>2 DEF w
    <2>4. SnapshotBegun'
      BY <1>1 DEF SnapshotBegun
    <2> QED
      BY <1>1, <2>1, <2>3, <2>4, BegunKept
  <1> QED
    BY <1>3, <1>5, <1>6, <1>7, <1>8 DEF TelemetryInv

(* The counts of the slots of some layers. *)
LayerCounts(layers) ==
    [slot \in Slots |->
        IF decode_metric_index(slot)[2] \in layers THEN SlotTotal(reader[slot]).count ELSE 0]

(* What the message says when every slot has been read or skipped. *)
LEMMA MessageFacts ==
    ASSUME TelemetryInv, SnapshotRead
    PROVE  /\ MetricsMessage \in Message
           /\ MetricsMessage.total_count \in 0 .. Recorded
           /\ skipped = {} => floor <= MetricsMessage.total_count
           /\ MetricsMessage.total_count =
                 MetricsMessage.layers.L1 + MetricsMessage.layers.L2 + MetricsMessage.layers.L3
  <1>1. \A slot \in Slots : decode_metric_index(slot)[2] \in 1 .. 3
    BY SlotFacts, TelemetryAssumption
  <1>t. TelemetryTypeOK
    BY DEF TelemetryInv
  <1>2. \A slot \in Slots : /\ SlotTotal(reader[slot]).count \in Nat
                             /\ SlotTotal(reader[slot]).count = SlotCounts(reader)[slot]
    <2>1. \A slot \in Slots : reader[slot] \in [HookCpus -> Metric]
      BY <1>t DEF TelemetryTypeOK
    <2> QED
      BY <2>1, TotalFacts, FieldTypes DEF SlotCounts
  <1>3. \A layers : /\ LayerCounts(layers) \in [Slots -> Nat]
                    /\ CountOf(layers) = SumFunction(LayerCounts(layers))
                    /\ CountOf(layers) \in Nat
    <2> SUFFICES ASSUME NEW layers
                 PROVE  /\ LayerCounts(layers) \in [Slots -> Nat]
                        /\ CountOf(layers) = SumFunction(LayerCounts(layers))
                        /\ CountOf(layers) \in Nat
      OBVIOUS
    <2>1. LayerCounts(layers) \in [Slots -> Nat]
      BY <1>2 DEF LayerCounts
    <2>2. CountOf(layers) = SumFunction(LayerCounts(layers))
      BY DEF CountOf, LayerCounts
    <2>3. SumFunction(LayerCounts(layers)) \in Nat
      BY <2>1, FiniteParts, NatSum
    <2> QED
      BY <2>1, <2>2, <2>3
  <1>4. LayerCounts(0 .. 7) = SlotCounts(reader)
    <2>1. \A slot \in Slots : LayerCounts(0 .. 7)[slot] = SlotCounts(reader)[slot]
      BY <1>1, <1>2 DEF LayerCounts
    <2>2. LayerCounts(0 .. 7) \in [Slots -> Nat] /\ SlotCounts(reader) \in [Slots -> Nat]
      BY <1>3, <1>t, SumTypes, TableSums
    <2> QED
      BY <2>1, <2>2
  <1>5. CountOf(0 .. 7) = SumFunction(SlotCounts(reader))
    BY <1>3, <1>4
  <1>6. CountOf(0 .. 7) = CountOf({1}) + CountOf({2}) + CountOf({3})
    <2> DEFINE f1 == LayerCounts({1})
               f2 == LayerCounts({2})
               f3 == LayerCounts({3})
               g == LayerCounts({1, 2})
               h == LayerCounts(0 .. 7)
    <2>1. /\ f1 \in [Slots -> Nat] /\ f2 \in [Slots -> Nat] /\ f3 \in [Slots -> Nat]
          /\ g \in [Slots -> Nat] /\ h \in [Slots -> Nat]
      BY <1>3, Zenon
    <2>2. \A s \in Slots : g[s] = f1[s] + f2[s]
      BY <1>1, <1>2 DEF LayerCounts
    <2>3. \A s \in Slots : h[s] = g[s] + f3[s]
      BY <1>1, <1>2 DEF LayerCounts
    <2>4. /\ CountOf({1}) = SumFunction(f1) /\ CountOf({2}) = SumFunction(f2)
          /\ CountOf({3}) = SumFunction(f3) /\ CountOf(0 .. 7) = SumFunction(h)
      BY <1>3, Zenon
    <2> HIDE DEF f1, f2, f3, g, h
    <2>5. SumFunction(g) = SumFunction(f1) + SumFunction(f2)
      BY <2>1, <2>2, FiniteParts, NatSumAdds
    <2>6. SumFunction(h) = SumFunction(g) + SumFunction(f3)
      BY <2>1, <2>3, FiniteParts, NatSumAdds
    <2> QED
      BY <2>4, <2>5, <2>6
  <1> DEFINE total == CountOf(0 .. 7)
             layers == [l \in DOMAIN Layers |-> CountOf({Layers[l]})]
             ratios == [l \in DOMAIN Layers |-> Ratio(CountOf({Layers[l]}), CountOf(0 .. 7))]
  <1>7. MetricsMessage = [type |-> "metrics_snapshot", total_count |-> total,
                          layers |-> layers, ratios |-> ratios]
    BY DEF MetricsMessage
  <1>8. total \in Nat /\ layers \in [DOMAIN Layers -> Nat]
    BY <1>3
  <1>9. ratios \in [DOMAIN Layers -> Nat \X Nat]
    <2>1. \A l \in DOMAIN Layers : Ratio(CountOf({Layers[l]}), CountOf(0 .. 7)) \in Nat \X Nat
      BY <1>3 DEF Ratio
    <2> QED
      BY <2>1
  <1>a. layers.L1 = CountOf({1}) /\ layers.L2 = CountOf({2}) /\ layers.L3 = CountOf({3})
    BY DEF Layers
  <1> HIDE DEF total, layers, ratios
  <1>b. /\ MetricsMessage \in Message
        /\ MetricsMessage.total_count = total /\ MetricsMessage.layers = layers
    BY <1>7, <1>8, <1>9 DEF Message
  <1>c. total \in 0 .. Recorded
    <2>1. NoFewer(reader, metrics)
      BY <1>t, SumTypes DEF NoFewer, TelemetryInv, ReadBefore
    <2>2. SumFunction(SlotCounts(reader)) <= SumFunction(SlotCounts(metrics))
      BY <2>1, CountsMonotone
    <2>3. Recorded = SumFunction(SlotCounts(metrics)) /\ Recorded \in Nat
      BY <1>t, SumTypes DEF TelemetryInv, Complete
    <2> QED
      BY <1>5, <1>8, <2>2, <2>3 DEF total
  <1>d. skipped = {} => floor <= total
    <2> SUFFICES ASSUME skipped = {} PROVE floor <= total
      OBVIOUS
    <2>1. \A slot \in Slots, cpu \in HookCpus : <<slot, cpu>> \in copied
      BY DEF SnapshotRead, SlotsLeft, CpusLeft
    <2>2. WouldRead(metrics, reader, copied) = reader
      BY <1>t, <2>1 DEF TelemetryTypeOK, WouldRead
    <2>3. floor <= SumFunction(SlotCounts(reader))
      BY <2>2 DEF TelemetryInv, Begun
    <2> QED
      BY <1>5, <2>3 DEF total
  <1> QED
    BY <1>6, <1>a, <1>b, <1>c, <1>d DEF total

(* The snapshot is sent (publish_metrics_snapshot). *)
LEMMA PublishKeeps ==
    ASSUME TelemetryInv, PublishMetrics
    PROVE  TelemetryInv'
  <1>1. /\ SnapshotRead /\ copying = {}
        /\ published' = Append(published, MetricsMessage)
        /\ reader' = NoMetrics /\ copied' = {} /\ skipped' = {} /\ copying' = {}
        /\ metrics' = metrics /\ pending' = pending /\ samples' = samples /\ floor' = floor
    BY DEF PublishMetrics, SnapshotRead, hookVars
  <1>2. TelemetryTypeOK /\ Counted /\ Bounded /\ Lagging /\ Complete
    BY DEF TelemetryInv
  <1>3. /\ MetricsMessage \in Message
        /\ MetricsMessage.total_count \in 0 .. Recorded
    BY <1>1, MessageFacts
  <1>4. /\ published \in Seq(Message) /\ floor \in Nat /\ Recorded \in Nat
        /\ Recorded = SumFunction(SlotCounts(metrics))
    BY <1>2, SumTypes DEF TelemetryTypeOK, Complete
  <1>5. TelemetryTypeOK'
    <2>1. published' \in Seq(Message)
      BY <1>1, <1>3, <1>4
    <2>2. reader' \in [Slots -> [HookCpus -> Metric]]
      BY <1>1, ZeroFacts
    <2> QED
      BY <1>1, <1>2, <2>1, <2>2 DEF TelemetryTypeOK, Metric, Slots, Message
  <1>6. Counted' /\ Bounded' /\ Lagging' /\ Complete'
    <2>1. Counted'
      BY <1>1, <1>2 DEF Counted
    <2>2. Bounded'
      BY <1>1, <1>2 DEF Bounded
    <2>3. Lagging'
      BY <1>1, <1>2 DEF Lagging
    <2>4. Complete'
      BY <1>1, <1>2 DEF Complete
    <2> QED
      BY <2>1, <2>2, <2>3, <2>4
  <1>7. ReadBefore' /\ Skipped'
    <2>1. \A slot \in Slots, cpu \in HookCpus :
             metrics[slot][cpu].count \in Nat /\ reader'[slot][cpu] = ZeroMetric
      BY <1>1, <1>2, ZeroFacts DEF TelemetryTypeOK, Metric
    <2>2. \A slot \in Slots, cpu \in HookCpus :
             /\ reader'[slot][cpu].count <= metrics[slot][cpu].count
             /\ SumFunction(reader'[slot][cpu].buckets) <= metrics[slot][cpu].count
             /\ reader'[slot][cpu].count <= SumFunction(reader'[slot][cpu].buckets) + 1
             /\ reader'[slot][cpu] = ZeroMetric
      BY <2>1, ZeroFacts
    <2> QED
      BY <1>1, <2>2 DEF ReadBefore, Skipped, Slots, ZeroMetric
  <1>8. Begun'
    <2>1. WouldRead(metrics, reader, copied)' = metrics
      BY <1>1, <1>2 DEF WouldRead, Slots, TelemetryTypeOK
    <2>2. SlotCounts(WouldRead(metrics, reader, copied))' = SlotCounts(metrics)
      BY <2>1 DEF SlotCounts, Counts, Slots
    <2>3. floor <= Recorded
      <3>1. NoFewer(WouldRead(metrics, reader, copied), metrics)
        BY WouldReadFewer
      <3>2. SumFunction(SlotCounts(WouldRead(metrics, reader, copied))) <= Recorded
        BY <1>4, <3>1, CountsMonotone
      <3>3. floor <= SumFunction(SlotCounts(WouldRead(metrics, reader, copied)))
        BY DEF TelemetryInv, Begun
      <3> QED
        BY <1>2, <1>4, <3>2, <3>3, SumTypes
    <2>4. Recorded' = Recorded
      BY <1>1 DEF Recorded
    <2>5. \A i \in DOMAIN published : published[i].total_count <= Recorded
      <3>1. \A i \in DOMAIN published :
               /\ published[i].total_count \in Nat
               /\ published[i].total_count <= IF SnapshotBegun THEN floor ELSE Recorded
        BY <1>2, PublishedType DEF TelemetryInv, Begun
      <3> QED
        BY <1>4, <2>3, <3>1
    <2>6. \A i \in DOMAIN published' : published'[i].total_count <= Recorded
      <3>1. ASSUME NEW i \in DOMAIN published'
            PROVE  published'[i].total_count <= Recorded
        <4>1. i \in DOMAIN published \/ published'[i] = MetricsMessage
          BY <1>1, <1>4
        <4>2. CASE i \in DOMAIN published
          <5>1. published'[i] = published[i]
            BY <1>1, <1>4, <4>2
          <5> QED
            BY <2>5, <4>2, <5>1
        <4>3. CASE published'[i] = MetricsMessage
          <5>1. MetricsMessage.total_count <= Recorded
            BY <1>3, <1>4
          <5> QED
            BY <4>3, <5>1
        <4> QED
          BY <4>1, <4>2, <4>3
      <3> QED
        BY <3>1
    <2>7. ~SnapshotBegun'
      BY <1>1 DEF SnapshotBegun
    <2> QED
      BY <1>1, <1>4, <2>2, <2>3, <2>4, <2>6, <2>7 DEF Begun
  <1> QED
    BY <1>5, <1>6, <1>7, <1>8 DEF TelemetryInv

(* Every step of the hooks and of the daemon. *)
LEMMA TelemetryStep == TelemetryInv /\ [TelemetryNext]_telemetryVars => TelemetryInv'
  <1> SUFFICES ASSUME TelemetryInv, [TelemetryNext]_telemetryVars PROVE TelemetryInv'
    OBVIOUS
  <1>1. ASSUME NEW cpu \in HookCpus, NEW d \in Decisions, NEW ns \in Durations,
               RecordSample(cpu, d, ns)
        PROVE  TelemetryInv'
    BY <1>1, SampleKeeps
  <1>2. ASSUME NEW cpu \in HookCpus, RecordBucket(cpu) PROVE TelemetryInv'
    BY <1>2, BucketKeeps
  <1>3. CASE CopyCounters
    BY <1>3, CountersKeep
  <1>6. CASE CopyBuckets
    BY <1>6, BucketsKeep
  <1>7. CASE SkipSlot
    BY <1>7, SkipKeeps
  <1>4. CASE PublishMetrics
    BY <1>4, PublishKeeps
  <1>5. CASE UNCHANGED telemetryVars
    <2>1. /\ metrics' = metrics /\ pending' = pending /\ reader' = reader
          /\ copied' = copied /\ copying' = copying /\ skipped' = skipped
          /\ published' = published /\ samples' = samples /\ floor' = floor
      BY <1>5 DEF telemetryVars, hookVars, readVars
    <2>2. TelemetryTypeOK'
      BY <2>1 DEF TelemetryInv, TelemetryTypeOK
    <2>3. Counted' /\ Bounded' /\ Lagging' /\ ReadBefore' /\ Skipped'
      <3>1. Counted'
        BY <2>1 DEF TelemetryInv, Counted
      <3>2. Bounded'
        BY <2>1 DEF TelemetryInv, Bounded
      <3>3. Lagging' /\ ReadBefore' /\ Skipped'
        BY <2>1 DEF TelemetryInv, Lagging, ReadBefore, Skipped
      <3> QED
        BY <3>1, <3>2, <3>3
    <2>4. Complete' /\ Begun'
      <3>1. /\ WouldRead(metrics, reader, copied)' = WouldRead(metrics, reader, copied)
            /\ Recorded' = Recorded /\ SnapshotBegun' = SnapshotBegun
        BY <2>1 DEF WouldRead, Recorded, SnapshotBegun
      <3>2. Complete'
        BY <2>1 DEF TelemetryInv, Complete
      <3> QED
        BY <2>1, <3>1, <3>2 DEF TelemetryInv, Begun
    <2> QED
      BY <2>2, <2>3, <2>4 DEF TelemetryInv
  <1> QED
    BY <1>1, <1>2, <1>3, <1>4, <1>5, <1>6, <1>7 DEF TelemetryNext

(* What mcp_record_metric has written, what it has still to write, what    *)
(* read_metrics_snapshot has read and what was published fit together at   *)
(* every moment, for every number of CPUs, decisions, times and samples.   *)
THEOREM TelemetryInvAlways == TelemetrySpec => []TelemetryInv
  BY TelemetryStart, TelemetryStep, PTL DEF TelemetrySpec

-----------------------------------------------------------------------------
(* The properties. *)

(* The invariant implies that the slots hold what was recorded. *)
LEMMA RecordedInSlots == TelemetryInv => SlotsAsRecorded
  <1> SUFFICES ASSUME TelemetryInv, \A cpu \in HookCpus : pending[cpu] = {},
                      NEW d \in Decisions
               PROVE  LET slot  == mcp_metric_index(d[1], d[2], d[3])
                          m     == SlotTotal(metrics[slot])
                          times == {ns \in Durations : samples[d][ns] # 0}
                      IN  /\ decode_metric_index(slot) = d
                          /\ m.count = SumFunction(samples[d])
                          /\ m.total = SumFunction([ns \in Durations |-> samples[d][ns] * ns])
                          /\ times # {} => m.min = Min(times) /\ m.max = Max(times)
                          /\ \A b \in HistBuckets :
                                 m.buckets[b] = SumFunctionOnSet(samples[d], Bucketed(b))
    BY DEF SlotsAsRecorded
  <1> DEFINE slot == SlotOf(d)
             v == metrics[slot]
             m == SlotTotal(metrics[slot])
             times == {ns \in Durations : samples[d][ns] # 0}
             mins == {v[cpu].min : cpu \in HookCpus} \ {0}
             maxs == {v[cpu].max : cpu \in HookCpus}
  <1>1. slot \in Slots /\ decode_metric_index(slot) = d
    BY SlotFacts
  <1>3. v \in [HookCpus -> Metric]
    BY <1>1 DEF TelemetryInv, TelemetryTypeOK
  <1>2. /\ m.count = SumFunction(Counts(v)) /\ m.total = SumFunction(Totals(v))
        /\ m.buckets = Histogram(v)
        /\ m.min = IF mins = {} THEN 0 ELSE Min(mins)
        /\ m.max = Max(maxs)
    BY <1>3, TotalFacts
  <1>4. m.count = SumFunction(samples[d])
    BY <1>2 DEF TelemetryInv, Counted
  <1>5. m.total = SumFunction([ns \in Durations |-> samples[d][ns] * ns])
    BY <1>2 DEF TelemetryInv, Counted, Taken
  <1>6. ASSUME NEW b \in HistBuckets
        PROVE  m.buckets[b] = SumFunctionOnSet(samples[d], Bucketed(b))
    <2>1. Behind(pending, slot, {b}) = [cpu \in HookCpus |-> 0]
      BY DEF Behind
    <2>2. SumFunction(Behind(pending, slot, {b})) = 0
      BY <2>1, FiniteParts, ZeroSum
    <2>3. SumFunction(Filled(v, b)) \in Nat
      BY <1>3, FieldTypes
    <2>4. SumFunction(Filled(v, b)) + SumFunction(Behind(pending, slot, {b}))
            = SumFunctionOnSet(samples[d], Bucketed(b))
      BY DEF TelemetryInv, Counted
    <2>5. m.buckets[b] = SumFunction(Filled(v, b))
      BY <1>2 DEF Histogram
    <2> QED
      BY <2>2, <2>3, <2>4, <2>5
  <1>7. ASSUME times # {} PROVE m.min = Min(times) /\ m.max = Max(times)
    <2>1. \A cpu \in HookCpus : /\ v[cpu].min \in Nat /\ v[cpu].max \in Nat
                                /\ v[cpu].min # 0 => v[cpu].min \in times
                                /\ v[cpu].max # 0 => v[cpu].max \in times
      BY <1>3 DEF TelemetryInv, Bounded, Metric
    <2>2. \A ns \in times : /\ \E x \in mins : x <= ns
                            /\ \E x \in maxs : ns <= x
      <3>1. \A ns \in times : /\ \E cpu \in HookCpus : v[cpu].min # 0 /\ v[cpu].min <= ns
                              /\ \E cpu \in HookCpus : ns <= v[cpu].max
        BY DEF TelemetryInv, Bounded
      <3> QED
        BY <3>1
    <2>3. mins \in SUBSET times /\ maxs \in SUBSET Nat /\ maxs \ {0} \in SUBSET times
      BY <2>1
    <2>4. times \in SUBSET Nat /\ 0 \notin times /\ IsFiniteSet(times)
      <3>1. times \in SUBSET Durations
        OBVIOUS
      <3>2. IsFiniteSet(times)
        <4> HIDE DEF times
        <4> QED
          BY <3>1, FiniteParts, FS_Subset
      <3> QED
        BY <3>1, <3>2, TelemetryAssumption
    <2>5. IsFiniteSet(maxs)
      <3> DEFINE f == [cpu \in HookCpus |-> v[cpu].max]
      <3>1. f \in Surjection(HookCpus, maxs)
        BY DEF Surjection
      <3> HIDE DEF f, maxs
      <3> QED
        BY <3>1, FiniteParts, FS_Surjection
    <2> HIDE DEF m, times, mins, maxs
    <2>6. mins # {} /\ maxs # {}
      BY <1>7, <2>2
    <2>7. /\ Min(mins) \in mins /\ \A x \in mins : Min(mins) <= x
          /\ Min(times) \in times /\ \A x \in times : Min(times) <= x
      <3>1. mins \in SUBSET Nat
        BY <2>3, <2>4
      <3> QED
        BY <1>7, <2>4, <2>6, <3>1, MinIsLeast
    <2>8. /\ Max(maxs) \in maxs /\ \A x \in maxs : x <= Max(maxs)
          /\ Max(times) \in times /\ \A x \in times : x <= Max(times)
      BY <1>7, <2>3, <2>4, <2>5, <2>6, MaxIsGreatest
    <2>9. Min(mins) = Min(times)
      <3>1. PICK x \in mins : x <= Min(times)
        BY <2>2, <2>7
      <3>2. Min(mins) \in Nat /\ Min(times) \in Nat /\ x \in Nat
        BY <2>3, <2>4, <2>7
      <3>3. Min(mins) <= x /\ Min(times) <= Min(mins)
        BY <2>3, <2>7
      <3> QED
        BY <3>1, <3>2, <3>3
    <2>a. Max(maxs) = Max(times)
      <3>1. PICK x \in maxs : Max(times) <= x
        BY <2>2, <2>8
      <3>2. Max(maxs) \in Nat /\ Max(times) \in Nat /\ x \in Nat
        BY <2>3, <2>4, <2>8
      <3>3. x <= Max(maxs)
        BY <2>8
      <3>4. Max(times) # 0
        BY <2>4, <2>8
      <3>5. Max(maxs) # 0
        BY <3>1, <3>2, <3>3, <3>4
      <3>6. Max(maxs) <= Max(times)
        BY <2>3, <2>8, <3>5
      <3> QED
        BY <3>1, <3>2, <3>3, <3>6
    <2> QED
      BY <1>2, <2>6, <2>9, <2>a
  <1> QED
    BY <1>1, <1>4, <1>5, <1>6, <1>7 DEF SlotOf

(* Between two decisions the per-CPU slots hold exactly what was recorded, *)
(* for every number of CPUs, decisions and samples: mcp_metric_index and   *)
(* decode_metric_index are inverse, no update of mcp_record_metric is lost *)
(* or counted twice, and read_metrics_snapshot adds up, takes the minimum  *)
(* and the maximum and the buckets over all CPUs rightly.                  *)
THEOREM SlotsAlwaysAsRecorded == TelemetrySpec => []SlotsAsRecorded
  BY TelemetryInvAlways, RecordedInSlots, PTL

(* What the buckets of a slot and its count were read to be, CPU by CPU. *)
LEMMA LagOfSlot ==
    ASSUME NEW r \in [HookCpus -> Metric]
    PROVE  /\ SumFunction(Histogram(r)) =
                 SumFunction([cpu \in HookCpus |-> SumFunction(r[cpu].buckets)])
           /\ [cpu \in HookCpus |-> SumFunction(r[cpu].buckets)] \in [HookCpus -> Nat]
  <1> DEFINE h == [cpu \in HookCpus |-> r[cpu].buckets]
  <1>1. h \in [HookCpus -> [HistBuckets -> Nat]]
    BY DEF Metric
  <1>2. \A cpu \in HookCpus : h[cpu] = r[cpu].buckets /\ h[cpu] \in [HistBuckets -> Nat]
    BY <1>1
  <1>3. \A cpu \in HookCpus : SumFunction(h[cpu]) \in Nat
    BY <1>2, NatSum, FiniteParts
  <1> DEFINE rows == [cpu \in HookCpus |-> SumFunction(r[cpu].buckets)]
             cols == Histogram(r)
  <1>4. rows \in [HookCpus -> Nat] /\ \A cpu \in HookCpus : rows[cpu] = SumFunction(h[cpu])
    BY <1>2, <1>3
  <1> DEFINE part == [b \in HistBuckets |-> Filled(r, b)]
  <1>5. /\ part \in [HistBuckets -> [HookCpus -> Nat]]
        /\ \A b \in HistBuckets : cols[b] = SumFunction(part[b])
        /\ \A b \in HistBuckets, cpu \in HookCpus : part[b][cpu] = h[cpu][b]
    <2>1. \A b \in HistBuckets : Filled(r, b) \in [HookCpus -> Nat]
      BY FieldTypes
    <2> QED
      BY <2>1 DEF Histogram, Filled
  <1>6. cols \in [HistBuckets -> Nat]
    BY FieldTypes
  <1>7. IsFiniteSet(HookCpus) /\ IsFiniteSet(HistBuckets)
    BY FiniteParts
  <1> HIDE DEF h, rows, cols, part
  <1>8. Crossed(HookCpus, HistBuckets, h, rows, part, cols)
    BY <1>1, <1>4, <1>5, <1>6 DEF Crossed
  <1>9. SumFunction(cols) = SumFunction(rows)
    BY <1>7, <1>8, NatSumSwap
  <1> QED
    BY <1>4, <1>9 DEF rows, cols

(* What a complete snapshot has of a slot. *)
LEMMA SlotLag ==
    ASSUME TelemetryInv, SnapshotRead, NEW slot \in Slots
    PROVE  SlotTotal(reader[slot]).count - SumFunction(SlotTotal(reader[slot]).buckets)
              \in (floor - Recorded) .. Cardinality(HookCpus)
  <1> DEFINE r == reader[slot]
             count == [cpu \in HookCpus |-> r[cpu].count]
             hist == [cpu \in HookCpus |-> SumFunction(r[cpu].buckets)]
             now == [cpu \in HookCpus |-> metrics[slot][cpu].count]
             ones == [cpu \in HookCpus |-> 1]
             more == [cpu \in HookCpus |-> hist[cpu] + 1]
             w == SlotCounts(WouldRead(metrics, reader, copied))
             m == SlotCounts(metrics)
  <1>t. TelemetryTypeOK
    BY DEF TelemetryInv
  <1>1. r \in [HookCpus -> Metric] /\ metrics[slot] \in [HookCpus -> Metric]
    BY <1>t DEF TelemetryTypeOK
  <1>2. /\ SlotTotal(r).count = SumFunction(count)
        /\ SumFunction(SlotTotal(r).buckets) = SumFunction(hist)
        /\ hist \in [HookCpus -> Nat]
    <2> HIDE DEF r
    <2> QED
      BY <1>1, TotalFacts, LagOfSlot DEF Counts
  <1>3. /\ count \in [HookCpus -> Nat] /\ now \in [HookCpus -> Nat]
        /\ ones \in [HookCpus -> Nat] /\ more \in [HookCpus -> Nat]
    BY <1>1, <1>2 DEF Metric
  <1>4. \A cpu \in HookCpus : count[cpu] <= more[cpu] /\ hist[cpu] <= now[cpu]
    BY DEF TelemetryInv, ReadBefore, SnapshotRead
  <1>5. \A cpu \in HookCpus : more[cpu] = hist[cpu] + ones[cpu] /\ ones[cpu] <= 1
    OBVIOUS
  <1>6. m[slot] = SumFunction(now)
    BY DEF SlotCounts, Counts
  <1>7. /\ w \in [Slots -> Nat] /\ m \in [Slots -> Nat]
        /\ \A s \in Slots : w[s] <= m[s]
        /\ floor <= SumFunction(w) /\ SumFunction(m) = Recorded
        /\ floor \in Nat /\ Recorded \in Nat
    <2>1. Table(WouldRead(metrics, reader, copied)) /\ Table(metrics) /\ Table(reader)
      BY <1>t, SumTypes
    <2>2. NoFewer(WouldRead(metrics, reader, copied), metrics)
      BY WouldReadFewer
    <2>3. SumFunction(m) = Recorded /\ Recorded \in Nat /\ floor \in Nat /\ floor <= SumFunction(w)
      BY <1>t, SumTypes DEF TelemetryInv, TelemetryTypeOK, Complete, Begun
    <2> QED
      BY <2>1, <2>2, <2>3, TableSums, CountsMonotone
  <1>8. \/ w[slot] = SumFunction(count)
        \/ SumFunction(count) = 0 /\ SumFunction(hist) = 0
    <2>1. CASE slot \in skipped
      <3>1. \A cpu \in HookCpus : <<slot, cpu>> \notin copied
        BY <2>1 DEF TelemetryInv, Skipped
      <3>2. \A cpu \in HookCpus : r[cpu] = ZeroMetric
        BY <3>1 DEF TelemetryInv, ReadBefore
      <3>3. \A cpu \in HookCpus : count[cpu] = 0 /\ hist[cpu] = 0
        BY <3>2, ZeroFacts
      <3> HIDE DEF count, hist
      <3> QED
        BY <1>2, <1>3, <3>3, NatSumZero, FiniteParts
    <2>2. CASE slot \notin skipped
      <3>1. \A cpu \in HookCpus : <<slot, cpu>> \in copied
        BY <2>2 DEF SnapshotRead, SlotsLeft, CpusLeft
      <3>2. WouldRead(metrics, reader, copied)[slot] = [cpu \in HookCpus |-> r[cpu]]
        BY <3>1 DEF WouldRead
      <3>3. Counts(WouldRead(metrics, reader, copied)[slot]) = count
        BY <3>2 DEF Counts
      <3> QED
        BY <3>3 DEF SlotCounts
    <2> QED
      BY <2>1, <2>2
  <1>n. Cardinality(HookCpus) \in Nat
    BY FiniteParts
  <1> HIDE DEF r, count, hist, now, ones, more, w, m
  <1>9. /\ SumFunction(count) <= SumFunction(more)
        /\ SumFunction(more) = SumFunction(hist) + SumFunction(ones)
        /\ SumFunction(ones) <= Cardinality(HookCpus)
        /\ SumFunction(hist) <= SumFunction(now)
    <2>1. SumFunction(count) <= SumFunction(more) /\ SumFunction(hist) <= SumFunction(now)
      BY <1>2, <1>3, <1>4, NatSumMonotone, FiniteParts
    <2>2. SumFunction(more) = SumFunction(hist) + SumFunction(ones)
      BY <1>2, <1>3, <1>5, NatSumAdds, FiniteParts
    <2>3. SumFunction(ones) <= Cardinality(HookCpus)
      BY <1>3, <1>5, NatSumSmall, FiniteParts
    <2> QED
      BY <2>1, <2>2, <2>3
  <1>10. /\ SumFunction(count) \in Nat /\ SumFunction(hist) \in Nat
         /\ SumFunction(ones) \in Nat /\ SumFunction(now) \in Nat
    BY <1>2, <1>3, NatSum, FiniteParts
  <1>11. /\ m[slot] + SumFunction(w) <= w[slot] + SumFunction(m)
         /\ SumFunction(w) <= SumFunction(m) /\ SumFunction(w) \in Nat
         /\ w[slot] \in Nat /\ m[slot] \in Nat
    BY <1>7, NatSumApart, NatSumMonotone, NatSum, FiniteParts
  <1>12. SumFunction(count) - SumFunction(hist) <= Cardinality(HookCpus)
    BY <1>9, <1>10, <1>n
  <1>13. floor - Recorded <= SumFunction(count) - SumFunction(hist)
    <2>1. CASE w[slot] = SumFunction(count)
      BY <1>6, <1>7, <1>9, <1>10, <1>11, <2>1
    <2>2. CASE SumFunction(count) = 0 /\ SumFunction(hist) = 0
      BY <1>7, <1>11, <2>2
    <2> QED
      BY <1>8, <2>1, <2>2
  <1>14. SumFunction(count) - SumFunction(hist) \in (floor - Recorded) .. Cardinality(HookCpus)
    BY <1>7, <1>10, <1>12, <1>13, <1>n
  <1> QED
    BY <1>2, <1>14 DEF r

(* What print_metrics_details prints of a slot is torn by at most one      *)
(* sample for each CPU one way and by the samples recorded during the      *)
(* snapshot the other way, for every number of CPUs, of slots and of       *)
(* samples.                                                                *)
THEOREM HistogramLagAlways == TelemetrySpec => []HistogramLag
  <1>1. TelemetryInv => HistogramLag
    BY SlotLag DEF HistogramLag
  <1> QED
    BY <1>1, TelemetryInvAlways, PTL

(* Every snapshot that publish_metrics_snapshot sends counts no more       *)
(* decisions than there are and its layers add up, whichever lookups fail; *)
(* if none does it counts no fewer than there were when it was begun, and  *)
(* no earlier snapshot has counted more, whatever the hooks do meanwhile.  *)
THEOREM SnapshotWithinRunAlways == TelemetrySpec => SnapshotWithinRun
  <1> DEFINE Step == published' # published =>
                        LET p == published'[Len(published')]
                        IN  /\ p.total_count <= Recorded
                            /\ p.total_count = p.layers.L1 + p.layers.L2 + p.layers.L3
                            /\ skipped = {} =>
                                  /\ floor <= p.total_count
                                  /\ \A i \in DOMAIN published :
                                         published[i].total_count <= p.total_count
  <1>1. ASSUME TelemetryInv, [TelemetryNext]_telemetryVars PROVE [Step]_telemetryVars
    <2> SUFFICES ASSUME published' # published
                 PROVE  LET p == published'[Len(published')]
                        IN  /\ p.total_count <= Recorded
                            /\ p.total_count = p.layers.L1 + p.layers.L2 + p.layers.L3
                            /\ skipped = {} =>
                                  /\ floor <= p.total_count
                                  /\ \A i \in DOMAIN published :
                                         published[i].total_count <= p.total_count
      OBVIOUS
    <2>1. PublishMetrics
      BY <1>1 DEF TelemetryNext, RecordSample, RecordBucket, CopyCounters, CopyBuckets, SkipSlot,
                  ReadStep, telemetryVars
    <2>2. SnapshotRead /\ published' = Append(published, MetricsMessage)
      BY <2>1 DEF PublishMetrics
    <2>3. /\ MetricsMessage.total_count \in 0 .. Recorded
          /\ MetricsMessage.total_count =
                MetricsMessage.layers.L1 + MetricsMessage.layers.L2 + MetricsMessage.layers.L3
          /\ skipped = {} => floor <= MetricsMessage.total_count
      BY <1>1, <2>2, MessageFacts
    <2>4. published'[Len(published')] = MetricsMessage
      BY <1>1, <2>2 DEF TelemetryInv, TelemetryTypeOK
    <2>6. floor \in Nat /\ Recorded \in Nat
      BY <1>1, SumTypes DEF TelemetryInv, TelemetryTypeOK
    <2>7. MetricsMessage.total_count <= Recorded
      BY <2>3, <2>6
    <2>8. ASSUME skipped = {}
          PROVE  \A i \in DOMAIN published :
                    published[i].total_count <= MetricsMessage.total_count
      <3>1. SnapshotBegun
        <4>1. PICK slot \in Slots : TRUE
          BY FiniteSlots
        <4>2. \A cpu \in HookCpus : <<slot, cpu>> \in copied
          BY <2>2, <2>8 DEF SnapshotRead, SlotsLeft, CpusLeft
        <4> QED
          BY <4>2, TelemetryAssumption DEF SnapshotBegun
      <3>2. \A i \in DOMAIN published :
               published[i].total_count \in Nat /\ published[i].total_count <= floor
        BY <1>1, <3>1, PublishedType DEF TelemetryInv, Begun
      <3> QED
        BY <2>3, <2>6, <2>8, <3>2
    <2> QED
      BY <2>3, <2>4, <2>7, <2>8, Zenon
  <1>2. TelemetrySpec => [][Step]_telemetryVars
    BY <1>1, TelemetryInvAlways, PTL DEF TelemetrySpec
  <1> QED
    BY <1>2 DEF SnapshotWithinRun
=============================================================================
