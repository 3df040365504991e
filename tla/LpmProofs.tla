------------------------------ MODULE LpmProofs ------------------------------
(***************************************************************************)
(* What the hooks find in the indexes that the loader has written: for any *)
(* rules, whatever other generations hold, a lookup is decided by the      *)
(* longest prefix and, of equal prefixes, by the last rule.                *)
(***************************************************************************)
EXTENDS LpmIndex, FoldProofs, SequenceTheorems

-----------------------------------------------------------------------------
(* A loop of updates, as FoldLeft unfolds it: element i is written under   *)
(* key[i] if i is in on.                                                   *)
Step(g, s, base, on, key, val) ==
    CASE s = {} -> base
      [] s # {} /\ Max(s) \in on -> MapUpdate(g[s \ {Max(s)}], key[Max(s)], val[Max(s)])
      [] s # {} /\ Max(s) \notin on -> g[s \ {Max(s)}]

Loop(g, n, base, on, key, val) ==
    [s \in SUBSET (1 .. n) |-> Step(g, s, base, on, key, val)]

HasLoop(n, base, on, key, val) == \E g : g = Loop(g, n, base, on, key, val)

(* The greatest of a set of positions. *)
LEMMA MaxPosition ==
    ASSUME NEW n \in Nat, NEW s \in SUBSET (1 .. n), s # {}
    PROVE  Max(s) \in s /\ \A i \in s : i <= Max(s)
  <1>1. IsFiniteSet(1 .. n)
    BY FS_Interval
  <1>2. IsFiniteSet(s)
    BY <1>1, FS_Subset, Zenon
  <1>3. s \in SUBSET Nat
    OBVIOUS
  <1> QED
    BY <1>2, <1>3, MaxIsGreatest, Zenon

(* The loop defines a function. *)
LEMMA LoopExists ==
    ASSUME NEW n \in Nat, NEW B, NEW W, NEW base \in [B -> W], NEW on,
           NEW key, NEW val
    PROVE  HasLoop(n, base, on, key, val)
  <1> DEFINE S == 1 .. n
             D == B \cup {key[i] : i \in S}
             X == W \cup {val[i] : i \in S}
             V == UNION {[A -> X] : A \in SUBSET D}
             c == [s \in SUBSET S |-> Max(s)]
             h == [p \in S \X V |-> IF p[1] \in on THEN MapUpdate(p[2], key[p[1]], val[p[1]])
                                    ELSE p[2]]
  <1>1. IsFiniteSet(S)
    BY FS_Interval
  <1>2. Chooses(c, S)
    <2>1. ASSUME NEW s \in SUBSET S, s # {} PROVE c[s] \in s
      BY <2>1, MaxPosition
    <2> HIDE DEF c
    <2> QED
      BY <2>1 DEF Chooses
  <1>3. base \in V
    <2>1. base \in [B -> X] /\ B \in SUBSET D
      OBVIOUS
    <2> HIDE DEF X, D
    <2> QED
      BY <2>1
  <1>4. ASSUME NEW i \in S, NEW m \in V PROVE MapUpdate(m, key[i], val[i]) \in V
    <2>1. PICK A \in SUBSET D : m \in [A -> X]
      <3> HIDE DEF D, X
      <3> QED
        OBVIOUS
    <2>2. key[i] \in D /\ val[i] \in X
      OBVIOUS
    <2> HIDE DEF D, X
    <2>3. MapUpdate(m, key[i], val[i]) \in [A \cup {key[i]} -> X]
      BY <2>1, <2>2 DEF MapUpdate
    <2>4. A \cup {key[i]} \in SUBSET D
      BY <2>2
    <2> HIDE DEF S
    <2> QED
      BY <2>3, <2>4, Zenon
  <1>5. h \in [S \X V -> V]
    <2> HIDE DEF S, V
    <2> QED
      BY <1>4
  <1>6. PICK g \in [SUBSET S -> V] : IsFold(g, S, base, c, h)
    <2> HIDE DEF S, V, c, h
    <2> QED
      BY <1>1, <1>2, <1>3, <1>5, FoldExists, Zenon
  <1>7. ASSUME NEW s \in SUBSET S PROVE g[s] = Step(g, s, base, on, key, val)
    <2>1. CASE s = {}
      <3>1. g[s] = base
        BY <1>6, <2>1, Zenon DEF IsFold
      <3> QED
        BY <2>1, <3>1 DEF Step
    <2>2. CASE s # {}
      <3>1. g[s] = h[<<c[s], g[s \ {c[s]}]>>]
        BY <1>6, <2>2, Zenon DEF IsFold
      <3>2. c[s] = Max(s) /\ c[s] \in S
        BY <1>2, <2>2 DEF Chooses
      <3>3. g[s \ {c[s]}] \in V
        <4>1. s \ {c[s]} \in SUBSET S
          OBVIOUS
        <4> HIDE DEF S, V, c
        <4> QED
          BY <1>6, <4>1
      <3>4. ASSUME NEW i \in S, NEW m \in V
            PROVE  h[<<i, m>>] = IF i \in on THEN MapUpdate(m, key[i], val[i]) ELSE m
        <4> HIDE DEF S, V
        <4> QED
          OBVIOUS
      <3> HIDE DEF S, V, c, h
      <3>5. g[s] = IF c[s] \in on THEN MapUpdate(g[s \ {c[s]}], key[c[s]], val[c[s]])
                   ELSE g[s \ {c[s]}]
        BY <3>1, <3>2, <3>3, <3>4, Zenon
      <3>6. CASE c[s] \in on
        BY <2>2, <3>2, <3>5, <3>6 DEF Step
      <3>7. CASE c[s] \notin on
        BY <2>2, <3>2, <3>5, <3>7 DEF Step
      <3> QED
        BY <3>6, <3>7
    <2> QED
      BY <2>1, <2>2
  <1>8. g = Loop(g, n, base, on, key, val)
    <2> HIDE DEF V
    <2> QED
      BY <1>6, <1>7 DEF Loop
  <1> QED
    BY <1>8, Zenon DEF HasLoop


(* What the map is after the first i elements: it has the keys written so  *)
(* far, under each of them what was written last, and else what it had.    *)
Written(m, i, base, on, key, val) ==
    /\ DOMAIN m = DOMAIN base \cup {key[j] : j \in (1 .. i) \cap on}
    /\ \A p \in DOMAIN base :
           (\A j \in (1 .. i) \cap on : key[j] # p) => m[p] = base[p]
    /\ \A j \in (1 .. i) \cap on :
           (\A k \in (1 .. i) \cap on : key[k] = key[j] => k <= j) => m[key[j]] = val[j]

(* One more update. *)
LEMMA WrittenOneMore ==
    ASSUME NEW i \in Nat, NEW m, NEW base, NEW on, NEW key, NEW val,
           Written(m, i, base, on, key, val), i + 1 \in on
    PROVE  Written(MapUpdate(m, key[i + 1], val[i + 1]), i + 1, base, on, key, val)
  <1> DEFINE r == MapUpdate(m, key[i + 1], val[i + 1])
  <1>1. (1 .. i + 1) \cap on = ((1 .. i) \cap on) \cup {i + 1}
    OBVIOUS
  <1>2. /\ DOMAIN r = DOMAIN m \cup {key[i + 1]}
        /\ r[key[i + 1]] = val[i + 1]
        /\ \A p \in DOMAIN m : p # key[i + 1] => r[p] = m[p]
    BY DEF MapUpdate
  <1> HIDE DEF r
  <1>3. DOMAIN r = DOMAIN base \cup {key[j] : j \in (1 .. i + 1) \cap on}
    BY <1>1, <1>2 DEF Written
  <1>4. ASSUME NEW p \in DOMAIN base, \A j \in (1 .. i + 1) \cap on : key[j] # p
        PROVE  r[p] = base[p]
    BY <1>1, <1>2, <1>4 DEF Written
  <1>5. ASSUME NEW j \in (1 .. i + 1) \cap on,
               \A k \in (1 .. i + 1) \cap on : key[k] = key[j] => k <= j
        PROVE  r[key[j]] = val[j]
    <2>1. CASE j = i + 1
      BY <1>2, <2>1
    <2>2. CASE j # i + 1
      <3>1. j \in (1 .. i) \cap on
        BY <1>1, <2>2
      <3>2. key[i + 1] # key[j]
        BY <1>1, <1>5, <3>1
      <3>3. m[key[j]] = val[j] /\ key[j] \in DOMAIN m
        BY <1>1, <1>5, <3>1 DEF Written
      <3> QED
        BY <1>2, <3>2, <3>3
    <2> QED
      BY <2>1, <2>2
  <1>6. Written(r, i + 1, base, on, key, val)
    BY <1>3, <1>4, <1>5 DEF Written
  <1> QED
    BY <1>6 DEF r

(* An element that is passed over. *)
LEMMA WrittenNoMore ==
    ASSUME NEW i \in Nat, NEW m, NEW base, NEW on, NEW key, NEW val,
           Written(m, i, base, on, key, val), i + 1 \notin on
    PROVE  Written(m, i + 1, base, on, key, val)
  <1>1. (1 .. i + 1) \cap on = (1 .. i) \cap on
    OBVIOUS
  <1> QED
    BY <1>1, Zenon DEF Written

(* The map after the loop. *)
LEMMA LoopWrites ==
    ASSUME NEW n \in Nat, NEW base, NEW on, NEW key, NEW val,
           NEW g, g = Loop(g, n, base, on, key, val)
    PROVE  Written(g[1 .. n], n, base, on, key, val)
  <1> DEFINE Good(i) == i <= n => Written(g[1 .. i], i, base, on, key, val)
             P == {i \in Nat : Good(i)}
  <1>1. \A s \in SUBSET (1 .. n) : g[s] = Step(g, s, base, on, key, val)
    BY DEF Loop
  <1>2. Good(0)
    <2>1. 1 .. 0 = {} /\ {} \in SUBSET (1 .. n)
      OBVIOUS
    <2>2. g[1 .. 0] = base
      BY <1>1, <2>1 DEF Step
    <2>3. Written(base, 0, base, on, key, val)
      BY <2>1 DEF Written
    <2> QED
      BY <2>2, <2>3
  <1>3. ASSUME NEW i \in Nat, Good(i) PROVE Good(i + 1)
    <2> SUFFICES ASSUME i + 1 <= n
                 PROVE  Written(g[1 .. i + 1], i + 1, base, on, key, val)
      OBVIOUS
    <2> DEFINE s == 1 .. i + 1
    <2>1. s \in SUBSET (1 .. n) /\ s # {} /\ s \in SUBSET (1 .. i + 1) /\ i + 1 \in s
      OBVIOUS
    <2>2. Max(s) = i + 1
      <3>1. Max(s) \in s /\ \A j \in s : j <= Max(s)
        <4> HIDE DEF s
        <4> QED
          BY <2>1, MaxPosition, i + 1 \in Nat
      <3> QED
        BY <2>1, <3>1
    <2>3. s \ {Max(s)} = 1 .. i
      BY <2>2
    <2>4. g[s] = Step(g, s, base, on, key, val)
      BY <1>1, <2>1, Zenon
    <2>5. Written(g[1 .. i], i, base, on, key, val)
      BY <1>3
    <2> HIDE DEF s
    <2>6. CASE i + 1 \in on
      <3>1. g[s] = MapUpdate(g[1 .. i], key[i + 1], val[i + 1])
        BY <2>1, <2>2, <2>3, <2>4, <2>6 DEF Step
      <3>2. Written(MapUpdate(g[1 .. i], key[i + 1], val[i + 1]), i + 1, base, on, key, val)
        BY <2>5, <2>6, WrittenOneMore
      <3> QED
        BY <3>1, <3>2 DEF s
    <2>7. CASE i + 1 \notin on
      <3>1. g[s] = g[1 .. i]
        BY <2>1, <2>2, <2>3, <2>4, <2>7 DEF Step
      <3>2. Written(g[1 .. i], i + 1, base, on, key, val)
        BY <2>5, <2>7, WrittenNoMore
      <3> QED
        BY <3>1, <3>2 DEF s
    <2> QED
      BY <2>6, <2>7
  <1>4. Nat \subseteq P
    <2> HIDE DEF Good
    <2>1. 0 \in P /\ \A i \in Nat : i \in P => i + 1 \in P
      BY <1>2, <1>3
    <2> HIDE DEF P
    <2> QED
      BY <2>1, AllNaturals
  <1>5. n \in P
    BY <1>4
  <1> QED
    BY <1>5


-----------------------------------------------------------------------------
(* The write_ functions are such loops. *)

(* write_path_trie, and write_command_trie, which is the same. *)
LEMMA PathTrieWritten ==
    ASSUME NEW R, NEW rules \in Seq(R), NEW gen, NEW B, NEW W, NEW trie \in [B -> W]
    PROVE  Written(write_path_trie(trie, rules, gen), Len(rules), trie, DOMAIN rules,
                   [i \in DOMAIN rules |-> path_prefix(gen, rules[i])], rules)
  <1> DEFINE n == Len(rules)
             key == [i \in DOMAIN rules |-> path_prefix(gen, rules[i])]
             Iter(g) ==
                 [s \in SUBSET (DOMAIN rules) |->
                     IF s = {} THEN trie
                     ELSE MapUpdate(g[s \ {Max(s)}], path_prefix(gen, rules[Max(s)]),
                                    rules[Max(s)])]
             it == CHOOSE g : g = Iter(g)
  <1>1. n \in Nat /\ DOMAIN rules = 1 .. n
    OBVIOUS
  <1>2. write_path_trie(trie, rules, gen) = it[DOMAIN rules]
    BY DEF write_path_trie, FoldLeft, MapThenFoldSet
  <1>3. ASSUME NEW g PROVE Iter(g) = Loop(g, n, trie, DOMAIN rules, key, rules)
    <2>1. ASSUME NEW s \in SUBSET (DOMAIN rules)
          PROVE  Step(g, s, trie, DOMAIN rules, key, rules) =
                     IF s = {} THEN trie
                     ELSE MapUpdate(g[s \ {Max(s)}], path_prefix(gen, rules[Max(s)]),
                                    rules[Max(s)])
      <3>1. CASE s = {}
        BY <3>1 DEF Step
      <3>2. CASE s # {}
        <4>1. Max(s) \in DOMAIN rules
          BY <1>1, <3>2, MaxPosition
        <4>2. key[Max(s)] = path_prefix(gen, rules[Max(s)])
          BY <4>1
        <4> HIDE DEF key
        <4> QED
          BY <3>2, <4>1, <4>2 DEF Step
      <3> QED
        BY <3>1, <3>2
    <2> HIDE DEF n, key
    <2> QED
      BY <1>1, <2>1 DEF Loop
  <1>4. HasLoop(n, trie, DOMAIN rules, key, rules)
    <2> HIDE DEF n, key
    <2> QED
      BY <1>1, LoopExists
  <1>5. it = Iter(it)
    <2> HIDE DEF Iter
    <2> QED
      BY <1>3, <1>4, Zenon DEF HasLoop
  <1>6. it = Loop(it, n, trie, DOMAIN rules, key, rules)
    <2> HIDE DEF it, Iter
    <2> QED
      BY <1>3, <1>5
  <1>7. Written(it[1 .. n], n, trie, DOMAIN rules, key, rules)
    <2> HIDE DEF it, n, key
    <2> QED
      BY <1>1, <1>6, LoopWrites, Zenon
  <1> HIDE DEF it, key
  <1>8. Written(write_path_trie(trie, rules, gen), n, trie, DOMAIN rules, key, rules)
    BY <1>1, <1>2, <1>7, Zenon
  <1> QED
    BY <1>8 DEF key

(* write_network_trie. *)
LEMMA NetworkTrieWritten ==
    ASSUME NEW R, NEW rules \in Seq(R), NEW gen, NEW B, NEW W, NEW trie \in [B -> W]
    PROVE  Written(write_network_trie(trie, rules, gen), Len(rules), trie, DOMAIN rules,
                   [i \in DOMAIN rules |-> network_prefix(gen, rules[i])], rules)
  <1> DEFINE n == Len(rules)
             key == [i \in DOMAIN rules |-> network_prefix(gen, rules[i])]
             Iter(g) ==
                 [s \in SUBSET (DOMAIN rules) |->
                     IF s = {} THEN trie
                     ELSE MapUpdate(g[s \ {Max(s)}], network_prefix(gen, rules[Max(s)]),
                                    rules[Max(s)])]
             it == CHOOSE g : g = Iter(g)
  <1>1. n \in Nat /\ DOMAIN rules = 1 .. n
    OBVIOUS
  <1>2. write_network_trie(trie, rules, gen) = it[DOMAIN rules]
    BY DEF write_network_trie, FoldLeft, MapThenFoldSet
  <1>3. ASSUME NEW g PROVE Iter(g) = Loop(g, n, trie, DOMAIN rules, key, rules)
    <2>1. ASSUME NEW s \in SUBSET (DOMAIN rules)
          PROVE  Step(g, s, trie, DOMAIN rules, key, rules) =
                     IF s = {} THEN trie
                     ELSE MapUpdate(g[s \ {Max(s)}], network_prefix(gen, rules[Max(s)]),
                                    rules[Max(s)])
      <3>1. CASE s = {}
        BY <3>1 DEF Step
      <3>2. CASE s # {}
        <4>1. Max(s) \in DOMAIN rules
          BY <1>1, <3>2, MaxPosition
        <4>2. key[Max(s)] = network_prefix(gen, rules[Max(s)])
          BY <4>1
        <4> HIDE DEF key
        <4> QED
          BY <3>2, <4>1, <4>2 DEF Step
      <3> QED
        BY <3>1, <3>2
    <2> HIDE DEF n, key
    <2> QED
      BY <1>1, <2>1 DEF Loop
  <1>4. HasLoop(n, trie, DOMAIN rules, key, rules)
    <2> HIDE DEF n, key
    <2> QED
      BY <1>1, LoopExists
  <1>5. it = Iter(it)
    <2> HIDE DEF Iter
    <2> QED
      BY <1>3, <1>4, Zenon DEF HasLoop
  <1>6. it = Loop(it, n, trie, DOMAIN rules, key, rules)
    <2> HIDE DEF it, Iter
    <2> QED
      BY <1>3, <1>5
  <1>7. Written(it[1 .. n], n, trie, DOMAIN rules, key, rules)
    <2> HIDE DEF it, n, key
    <2> QED
      BY <1>1, <1>6, LoopWrites, Zenon
  <1> HIDE DEF it, key
  <1>8. Written(write_network_trie(trie, rules, gen), n, trie, DOMAIN rules, key, rules)
    BY <1>1, <1>2, <1>7, Zenon
  <1> QED
    BY <1>8 DEF key

(* The positions of the rules that have an inode. *)
Stated(rules) == {i \in DOMAIN rules : InodeOf(rules[i].value[2]) # 0}

(* write_resource_hash, which passes over paths without an inode. *)
LEMMA ResourceHashWritten ==
    ASSUME NEW R, NEW rules \in Seq(R), NEW gen, NEW B, NEW W, NEW hash \in [B -> W]
    PROVE  Written(write_resource_hash(hash, rules, gen), Len(rules), hash, Stated(rules),
                   [i \in DOMAIN rules |-> <<gen, InodeOf(rules[i].value[2])>>], rules)
  <1> DEFINE n == Len(rules)
             key == [i \in DOMAIN rules |-> <<gen, InodeOf(rules[i].value[2])>>]
             Iter(g) ==
                 [s \in SUBSET (DOMAIN rules) |->
                     IF s = {} THEN hash
                     ELSE IF InodeOf(rules[Max(s)].value[2]) = 0 THEN g[s \ {Max(s)}]
                          ELSE MapUpdate(g[s \ {Max(s)}],
                                         <<gen, InodeOf(rules[Max(s)].value[2])>>,
                                         rules[Max(s)])]
             it == CHOOSE g : g = Iter(g)
  <1>1. n \in Nat /\ DOMAIN rules = 1 .. n
    OBVIOUS
  <1>2. write_resource_hash(hash, rules, gen) = it[DOMAIN rules]
    BY DEF write_resource_hash, FoldLeft, MapThenFoldSet
  <1>3. ASSUME NEW g PROVE Iter(g) = Loop(g, n, hash, Stated(rules), key, rules)
    <2>1. ASSUME NEW s \in SUBSET (DOMAIN rules)
          PROVE  Step(g, s, hash, Stated(rules), key, rules) = Iter(g)[s]
      <3>1. CASE s = {}
        BY <3>1 DEF Step
      <3>2. CASE s # {}
        <4>1. Max(s) \in DOMAIN rules
          BY <1>1, <3>2, MaxPosition
        <4>2. key[Max(s)] = <<gen, InodeOf(rules[Max(s)].value[2])>>
          BY <4>1
        <4>3. Max(s) \in Stated(rules) <=> InodeOf(rules[Max(s)].value[2]) # 0
          BY <4>1 DEF Stated
        <4> HIDE DEF key
        <4> QED
          BY <3>2, <4>1, <4>2, <4>3 DEF Step
      <3> QED
        BY <3>1, <3>2
    <2>2. DOMAIN Iter(g) = SUBSET (DOMAIN rules)
         /\ Iter(g) = [s \in SUBSET (DOMAIN rules) |-> Iter(g)[s]]
      OBVIOUS
    <2> HIDE DEF n, key, Iter
    <2> QED
      BY <1>1, <2>1, <2>2 DEF Loop
  <1>4. HasLoop(n, hash, Stated(rules), key, rules)
    <2> HIDE DEF n, key
    <2> QED
      BY <1>1, LoopExists
  <1>5. it = Iter(it)
    <2> HIDE DEF Iter
    <2> QED
      BY <1>3, <1>4, Zenon DEF HasLoop
  <1>6. it = Loop(it, n, hash, Stated(rules), key, rules)
    <2> HIDE DEF it, Iter
    <2> QED
      BY <1>3, <1>5
  <1>7. Written(it[1 .. n], n, hash, Stated(rules), key, rules)
    <2> HIDE DEF it, n, key
    <2> QED
      BY <1>1, <1>6, LoopWrites, Zenon
  <1> HIDE DEF it, key
  <1>8. Written(write_resource_hash(hash, rules, gen), n, hash, Stated(rules), key, rules)
    BY <1>1, <1>2, <1>7, Zenon
  <1> QED
    BY <1>8 DEF key


-----------------------------------------------------------------------------
(* Prefixes and the longest of them. *)

(* A prefix agrees as far as it goes. *)
LEMMA PrefixPoints ==
    ASSUME NEW X, NEW s \in Seq(X), NEW t \in Seq(X)
    PROVE  IsPrefix(s, t) <=> /\ Len(s) <= Len(t)
                              /\ \A i \in 1 .. Len(s) : s[i] = t[i]
  <1> SUFFICES ASSUME Len(s) <= Len(t)
               PROVE  SubSeq(s, 1, Len(s)) = SubSeq(t, 1, Len(s))
                        <=> \A i \in 1 .. Len(s) : s[i] = t[i]
    BY DEF IsPrefix
  <1> DEFINE u == SubSeq(s, 1, Len(s))
             v == SubSeq(t, 1, Len(s))
  <1>1. /\ u \in Seq(X) /\ Len(u) = Len(s) /\ \A i \in 1 .. Len(s) : u[i] = s[i]
        /\ v \in Seq(X) /\ Len(v) = Len(s) /\ \A i \in 1 .. Len(s) : v[i] = t[i]
    OBVIOUS
  <1> HIDE DEF u, v
  <1>2. u = v <=> \A i \in 1 .. Len(s) : u[i] = v[i]
    BY <1>1, SeqEqual
  <1> QED
    BY <1>1, <1>2 DEF u, v

(* Prefixes of one key that have the same length are the same. *)
LEMMA SameLengthSamePrefix ==
    ASSUME NEW X, NEW s \in Seq(X), NEW t \in Seq(X), NEW k \in Seq(X),
           IsPrefix(s, k), IsPrefix(t, k), Len(s) = Len(t)
    PROVE  s = t
  <1>1. \A i \in 1 .. Len(s) : s[i] = t[i]
    BY PrefixPoints
  <1> QED
    BY <1>1, SeqEqual

(* Of the positions in hits, i is the best: no other is longer, and none   *)
(* of the same length comes later.                                         *)
Wins(i, hits, len) ==
    /\ i \in hits
    /\ \A j \in hits : len[j] < len[i] \/ (len[j] = len[i] /\ j <= i)

(* There is a best position, *)
LEMMA SomeoneWins ==
    ASSUME NEW n \in Nat, NEW hits \in SUBSET (1 .. n), hits # {},
           NEW len \in [1 .. n -> Nat], NEW top \in Nat, \A i \in hits : len[i] <= top
    PROVE  \E i \in hits : Wins(i, hits, len)
  <1> DEFINE L == {len[i] : i \in hits}
  <1>1. L \in SUBSET Nat /\ L # {} /\ \A l \in L : l <= top
    OBVIOUS
  <1>2. IsFiniteSet(L)
    BY <1>1, FS_BoundedSetOfNaturals
  <1>3. PICK l \in L : \A k \in L : k <= l
    <2> HIDE DEF L
    <2> QED
      BY <1>1, <1>2, GreatestNatural
  <1> DEFINE M == {i \in hits : len[i] = l}
  <1>4. M \in SUBSET (1 .. n) /\ M # {}
    BY <1>3
  <1>5. Max(M) \in M /\ \A i \in M : i <= Max(M)
    <2> HIDE DEF M
    <2> QED
      BY <1>4, MaxPosition
  <1>6. ASSUME NEW j \in hits
        PROVE  len[j] < len[Max(M)] \/ (len[j] = len[Max(M)] /\ j <= Max(M))
    <2>1. len[j] \in Nat /\ l \in Nat /\ len[Max(M)] = l /\ len[j] <= l
      BY <1>1, <1>3, <1>5
    <2>2. len[j] = l => j <= Max(M)
      BY <1>5
    <2> QED
      BY <2>1, <2>2
  <1> QED
    BY <1>5, <1>6 DEF Wins

(* and only one. *)
LEMMA OneWins ==
    ASSUME NEW n \in Nat, NEW hits \in SUBSET (1 .. n), NEW len \in [1 .. n -> Nat],
           NEW i, NEW j, Wins(i, hits, len), Wins(j, hits, len)
    PROVE  i = j
  <1>1. i \in 1 .. n /\ j \in 1 .. n /\ len[i] \in Nat /\ len[j] \in Nat
    BY DEF Wins
  <1> QED
    BY <1>1 DEF Wins

(* What TrieLookup finds. *)
LEMMA LookupFinds ==
    ASSUME NEW X, NEW m, NEW k \in Seq(X), \A p \in DOMAIN m : p \in Seq(X)
    PROVE  /\ (\A p \in DOMAIN m : ~IsPrefix(p, k)) => TrieLookup(m, k) = Missing
           /\ \A p \in DOMAIN m :
                 IsPrefix(p, k) /\ (\A q \in DOMAIN m : IsPrefix(q, k) => Len(q) <= Len(p))
                     => TrieLookup(m, k) = <<"rule", m[p]>>
  <1> DEFINE hits == {p \in DOMAIN m : IsPrefix(p, k)}
             best == CHOOSE p \in hits : \A q \in hits : Len(q) <= Len(p)
  <1>1. TrieLookup(m, k) = IF hits = {} THEN Missing ELSE <<"rule", m[best]>>
    BY DEF TrieLookup
  <1>2. ASSUME \A p \in DOMAIN m : ~IsPrefix(p, k) PROVE TrieLookup(m, k) = Missing
    BY <1>1, <1>2
  <1>3. ASSUME NEW p \in DOMAIN m, IsPrefix(p, k),
               \A q \in DOMAIN m : IsPrefix(q, k) => Len(q) <= Len(p)
        PROVE  TrieLookup(m, k) = <<"rule", m[p]>>
    <2>1. p \in hits /\ \A q \in hits : Len(q) <= Len(p)
      BY <1>3
    <2>2. best \in hits /\ \A q \in hits : Len(q) <= Len(best)
      <3> HIDE DEF hits
      <3> QED
        BY <2>1, Zenon
    <2>3. best \in Seq(X) /\ p \in Seq(X) /\ IsPrefix(best, k)
      <3> HIDE DEF best
      <3> QED
        BY <2>2
    <2> HIDE DEF best
    <2>4. Len(best) = Len(p)
      BY <2>1, <2>2, <2>3
    <2>5. best = p
      BY <1>3, <2>3, <2>4, SameLengthSamePrefix
    <2> QED
      BY <1>1, <2>1, <2>5
  <1> QED
    BY <1>2, <1>3

(* Entries that are prefixes of the key, and their lengths. *)
Hits(n, key, k) == {i \in 1 .. n : IsPrefix(key[i], k)}
Lengths(n, key) == [i \in 1 .. n |-> Len(key[i])]

(* A lookup in a trie that a loop has written over one without a prefix of *)
(* the key: the longest and last that was written, if there is any.        *)
LEMMA WrittenFinds ==
    ASSUME NEW X, NEW k \in Seq(X), NEW n \in Nat, NEW m, NEW base, NEW key, NEW val,
           \A i \in 1 .. n : key[i] \in Seq(X),
           \A p \in DOMAIN base : p \in Seq(X) /\ ~IsPrefix(p, k),
           Written(m, n, base, 1 .. n, key, val)
    PROVE  /\ Hits(n, key, k) = {} => TrieLookup(m, k) = Missing
           /\ \A i \in 1 .. n : Wins(i, Hits(n, key, k), Lengths(n, key))
                                   => TrieLookup(m, k) = <<"rule", val[i]>>
  <1>1. DOMAIN m = DOMAIN base \cup {key[j] : j \in 1 .. n}
    BY DEF Written
  <1>2. \A p \in DOMAIN m : p \in Seq(X)
    BY <1>1
  <1>3. ASSUME NEW p \in DOMAIN m, IsPrefix(p, k)
        PROVE  \E j \in Hits(n, key, k) : p = key[j]
    BY <1>1, <1>3 DEF Hits
  <1>4. ASSUME Hits(n, key, k) = {} PROVE TrieLookup(m, k) = Missing
    <2>1. \A p \in DOMAIN m : ~IsPrefix(p, k)
      BY <1>3, <1>4
    <2> QED
      BY <1>2, <2>1, LookupFinds
  <1>5. ASSUME NEW i \in 1 .. n, Wins(i, Hits(n, key, k), Lengths(n, key))
        PROVE  TrieLookup(m, k) = <<"rule", val[i]>>
    <2>1. key[i] \in DOMAIN m /\ IsPrefix(key[i], k)
      BY <1>1, <1>5 DEF Wins, Hits
    <2>2. ASSUME NEW j \in Hits(n, key, k)
          PROVE  /\ Len(key[j]) <= Len(key[i])
                 /\ key[j] = key[i] => j <= i
      <3>1. j \in 1 .. n /\ Len(key[j]) \in Nat /\ Len(key[i]) \in Nat
        BY DEF Hits
      <3>2. Len(key[j]) < Len(key[i]) \/ (Len(key[j]) = Len(key[i]) /\ j <= i)
        BY <1>5, <3>1 DEF Wins, Lengths
      <3> QED
        BY <3>1, <3>2
    <2>3. m[key[i]] = val[i]
      <3>1. ASSUME NEW j \in (1 .. n) \cap (1 .. n), key[j] = key[i] PROVE j <= i
        <4>1. j \in Hits(n, key, k)
          BY <2>1, <3>1 DEF Hits
        <4> QED
          BY <2>2, <3>1, <4>1
      <3>2. i \in (1 .. n) \cap (1 .. n)
        OBVIOUS
      <3> QED
        BY <3>1, <3>2, Zenon DEF Written
    <2>4. \A q \in DOMAIN m : IsPrefix(q, k) => Len(q) <= Len(key[i])
      BY <1>3, <2>2
    <2>5. TrieLookup(m, k) = <<"rule", m[key[i]]>>
      BY <1>2, <2>1, <2>4, LookupFinds
    <2> QED
      BY <2>3, <2>5
  <1> QED
    BY <1>4, <1>5


(* The best of some positions, by lengths and then by place. *)
Best(hits, len) == CHOOSE i \in hits : Wins(i, hits, len)

(* The prefixes have c elements in front of those that len counts.         *)
Headed(n, key, len, c, X) ==
    /\ c \in Nat /\ len \in [1 .. n -> Nat]
    /\ \A i \in 1 .. n : key[i] \in Seq(X) /\ Len(key[i]) = len[i] + c

(* What was in the trie before begins no key like k. *)
Apart(base, k, X) == \A p \in DOMAIN base : p \in Seq(X) /\ ~IsPrefix(p, k)

(* The same, by the lengths behind such a head. *)
LEMMA WrittenBest ==
    ASSUME NEW X, NEW k \in Seq(X), NEW n \in Nat, NEW m, NEW base, NEW key, NEW val,
           NEW len, NEW c, Headed(n, key, len, c, X), Apart(base, k, X),
           Written(m, n, base, 1 .. n, key, val), NEW hits, hits = Hits(n, key, k)
    PROVE  /\ hits = {} => TrieLookup(m, k) = Missing
           /\ hits # {} => /\ Best(hits, len) \in hits
                           /\ TrieLookup(m, k) = <<"rule", val[Best(hits, len)]>>
  <1>0. /\ c \in Nat /\ len \in [1 .. n -> Nat]
        /\ \A i \in 1 .. n : key[i] \in Seq(X) /\ Len(key[i]) = len[i] + c
        /\ \A p \in DOMAIN base : p \in Seq(X) /\ ~IsPrefix(p, k)
    BY DEF Headed, Apart
  <1>1. /\ hits = {} => TrieLookup(m, k) = Missing
        /\ \A i \in 1 .. n : Wins(i, hits, Lengths(n, key)) => TrieLookup(m, k) = <<"rule", val[i]>>
    <2>1. \A i \in 1 .. n : key[i] \in Seq(X)
      BY <1>0
    <2>2. \A p \in DOMAIN base : p \in Seq(X) /\ ~IsPrefix(p, k)
      BY <1>0
    <2> QED
      BY <2>1, <2>2, WrittenFinds
  <1>2. ASSUME NEW i \in hits, Wins(i, hits, len) PROVE Wins(i, hits, Lengths(n, key))
    <2>1. \A j \in hits : j \in 1 .. n /\ len[j] \in Nat /\ Lengths(n, key)[j] = len[j] + c
      BY <1>0 DEF Lengths, Hits
    <2>2. i \in hits /\ \A j \in hits : len[j] < len[i] \/ (len[j] = len[i] /\ j <= i)
      BY <1>2 DEF Wins
    <2>3. ASSUME NEW j \in hits
          PROVE  \/ Lengths(n, key)[j] < Lengths(n, key)[i]
                 \/ Lengths(n, key)[j] = Lengths(n, key)[i] /\ j <= i
      BY <1>0, <2>1, <2>2
    <2> QED
      BY <2>2, <2>3 DEF Wins
  <1>3. hits \in SUBSET (1 .. n) /\ Len(k) \in Nat
    BY DEF Hits
  <1>4. ASSUME NEW i \in hits PROVE len[i] <= Len(k)
    <2>1. i \in 1 .. n /\ IsPrefix(key[i], k) /\ len[i] \in Nat
      BY <1>0 DEF Hits
    <2>2. Len(key[i]) <= Len(k) /\ Len(key[i]) = len[i] + c
      BY <1>0, <2>1, PrefixPoints
    <2> QED
      BY <1>0, <1>3, <2>1, <2>2
  <1>5. ASSUME hits # {} PROVE Best(hits, len) \in hits /\ Wins(Best(hits, len), hits, len)
    <2>1. \E i \in hits : Wins(i, hits, len)
      BY <1>0, <1>3, <1>4, <1>5, SomeoneWins
    <2> QED
      BY <2>1, Zenon DEF Best
  <1> QED
    BY <1>1, <1>2, <1>3, <1>5

-----------------------------------------------------------------------------
(* Paths and commands. *)

(* The rules whose path begins a path, and the verdict that they mean.     *)
PathHits(rules, path) == {i \in DOMAIN rules : IsPrefix(rules[i].value[2], path)}
PathLengths(rules) == [i \in DOMAIN rules |-> Len(rules[i].value[2])]

PathVerdict(rules, default, path) ==
    LET hits == PathHits(rules, path)
    IN  IF hits = {} THEN default ELSE rules[Best(hits, PathLengths(rules))].action

(* Entries of other generations: a prefix begins with its generation. *)
Foreign(trie, gen, X) == \A p \in DOMAIN trie : p \in Seq(X) /\ p # <<>> /\ p[1] # gen

(* They are no prefixes of a key of this generation. *)
LEMMA ForeignMisses ==
    ASSUME NEW X, NEW gen \in X, NEW k \in Seq(X), k # <<>>, k[1] = gen,
           NEW trie, Foreign(trie, gen, X)
    PROVE  Apart(trie, k, X)
  <1> SUFFICES ASSUME NEW p \in DOMAIN trie, IsPrefix(p, k) PROVE FALSE
    BY DEF Foreign, Apart
  <1>1. p \in Seq(X) /\ p # <<>> /\ p[1] # gen
    BY DEF Foreign
  <1>2. \A i \in 1 .. Len(p) : p[i] = k[i]
    BY <1>1, PrefixPoints
  <1>3. 1 \in 1 .. Len(p)
    BY <1>1
  <1> QED
    BY <1>1, <1>2, <1>3

(* The generation in front of both does not matter. *)
LEMMA SameGeneration ==
    ASSUME NEW X, NEW gen \in X, NEW s \in Seq(X), NEW t \in Seq(X)
    PROVE  /\ <<gen>> \o s \in Seq(X) /\ Len(<<gen>> \o s) = Len(s) + 1
           /\ (<<gen>> \o s)[1] = gen
           /\ IsPrefix(<<gen>> \o s, <<gen>> \o t) <=> IsPrefix(s, t)
  <1> DEFINE u == <<gen>> \o s
             v == <<gen>> \o t
  <1>1. /\ u \in Seq(X) /\ Len(u) = Len(s) + 1 /\ u[1] = gen
        /\ \A i \in 1 .. Len(s) : u[i + 1] = s[i]
    OBVIOUS
  <1>2. /\ v \in Seq(X) /\ Len(v) = Len(t) + 1 /\ v[1] = gen
        /\ \A i \in 1 .. Len(t) : v[i + 1] = t[i]
    OBVIOUS
  <1> HIDE DEF u, v
  <1>3. ASSUME IsPrefix(u, v) PROVE IsPrefix(s, t)
    <2>1. Len(u) <= Len(v) /\ \A i \in 1 .. Len(u) : u[i] = v[i]
      BY <1>1, <1>2, <1>3, PrefixPoints
    <2>2. Len(s) <= Len(t)
      BY <1>1, <1>2, <2>1
    <2>3. ASSUME NEW i \in 1 .. Len(s) PROVE s[i] = t[i]
      <3>1. i + 1 \in 1 .. Len(u) /\ i \in 1 .. Len(t)
        BY <1>1, <2>2
      <3> QED
        BY <1>1, <1>2, <2>1, <3>1
    <2> QED
      BY <2>2, <2>3, PrefixPoints
  <1>4. ASSUME IsPrefix(s, t) PROVE IsPrefix(u, v)
    <2>1. Len(s) <= Len(t) /\ \A i \in 1 .. Len(s) : s[i] = t[i]
      BY <1>4, PrefixPoints
    <2>2. ASSUME NEW i \in 1 .. Len(u) PROVE u[i] = v[i]
      <3>1. CASE i = 1
        BY <1>1, <1>2, <3>1
      <3>2. CASE i # 1
        <4> DEFINE j == i - 1
        <4>1. j \in 1 .. Len(s) /\ j \in 1 .. Len(t) /\ i = j + 1
          BY <1>1, <2>1, <3>2
        <4> HIDE DEF j
        <4> QED
          BY <1>1, <1>2, <2>1, <4>1
      <3> QED
        BY <3>1, <3>2
    <2> QED
      BY <1>1, <1>2, <2>1, <2>2, PrefixPoints
  <1> QED
    BY <1>1, <1>3, <1>4 DEF u, v

(* mcp_l3_path_trie_decide on what write_path_trie has written, for any    *)
(* rules, path and configuration, whatever other generations have in the   *)
(* trie: the longest rule that begins the path decides, of equal ones the  *)
(* last, and without any the default.  Commands are decided alike.         *)
THEOREM PathDecidedByLongest ==
    ASSUME NEW X, NEW gen \in X, NEW path \in Seq(X), NEW R, NEW rules \in Seq(R),
           \A i \in DOMAIN rules : rules[i].value[2] \in Seq(X),
           NEW B, NEW W, NEW old \in [B -> W], Foreign(old, gen, X),
           NEW cfg, cfg.gen = gen, cfg.count = 0 => rules = <<>>
    PROVE  LET trie == write_path_trie(old, rules, gen)
           IN  /\ mcp_l3_path_trie_decide(trie, cfg, path) =
                      PathVerdict(rules, cfg.default, path)
               /\ mcp_l3_command_trie_decide(trie, cfg, path) =
                      PathVerdict(rules, cfg.default, path)
  <1> DEFINE trie == write_path_trie(old, rules, gen)
             n == Len(rules)
             key == [i \in DOMAIN rules |-> path_prefix(gen, rules[i])]
             k == <<gen>> \o path
             hits == PathHits(rules, path)
             len == PathLengths(rules)
  <1>1. n \in Nat /\ DOMAIN rules = 1 .. n
    OBVIOUS
  <1>2. k \in Seq(X) /\ k # <<>> /\ k[1] = gen
    OBVIOUS
  <1>3. ASSUME NEW i \in 1 .. n
        PROVE  /\ key[i] \in Seq(X) /\ Len(key[i]) = Len(rules[i].value[2]) + 1
               /\ IsPrefix(key[i], k) <=> IsPrefix(rules[i].value[2], path)
    <2>1. key[i] = <<gen>> \o rules[i].value[2]
      BY <1>1 DEF path_prefix
    <2>2. rules[i].value[2] \in Seq(X)
      BY <1>1
    <2> HIDE DEF key
    <2> QED
      BY <2>1, <2>2, SameGeneration
  <1>4. Written(trie, n, old, 1 .. n, key, rules)
    <2>1. Written(trie, n, old, DOMAIN rules, key, rules)
      BY PathTrieWritten
    <2> HIDE DEF trie, key, n
    <2> QED
      BY <1>1, <2>1, Zenon
  <1>5. Apart(old, k, X)
    <2> HIDE DEF k
    <2> QED
      BY <1>2, ForeignMisses
  <1> HIDE DEF trie, key, k
  <1>6. Hits(n, key, k) = hits /\ hits \in SUBSET (1 .. n)
    BY <1>1, <1>3 DEF Hits, PathHits
  <1>7. len \in [1 .. n -> Nat] /\ \A i \in 1 .. n : len[i] = Len(rules[i].value[2])
    <2>1. \A i \in DOMAIN rules : Len(rules[i].value[2]) \in Nat
      OBVIOUS
    <2>2. len \in [DOMAIN rules -> Nat] /\ \A i \in DOMAIN rules : len[i] = Len(rules[i].value[2])
      BY <2>1, Zenon DEF PathLengths
    <2> QED
      BY <1>1, <2>2, Zenon
  <1>8. /\ hits = {} => TrieLookup(trie, k) = Missing
        /\ hits # {} => TrieLookup(trie, k) = <<"rule", rules[Best(hits, len)]>>
    <2>1. Headed(n, key, len, 1, X)
      BY <1>3, <1>7 DEF Headed
    <2>2. hits = Hits(n, key, k)
      BY <1>6
    <2> HIDE DEF hits, len, n
    <2> QED
      BY <1>1, <1>2, <1>4, <1>5, <2>1, <2>2, WrittenBest
  <1>9. ActionOf(TrieLookup(trie, k), cfg) = PathVerdict(rules, cfg.default, path)
    <2>1. CASE hits = {}
      BY <1>8, <2>1 DEF ActionOf, PathVerdict
    <2>2. CASE hits # {}
      <3>1. TrieLookup(trie, k) = <<"rule", rules[Best(hits, len)]>>
        BY <1>8, <2>2
      <3>2. PathVerdict(rules, cfg.default, path) = rules[Best(hits, len)].action
        BY <2>2 DEF PathVerdict
      <3> QED
        BY <3>1, <3>2 DEF ActionOf, Missing
    <2> QED
      BY <2>1, <2>2
  <1>10. ASSUME cfg.count = 0 PROVE PathVerdict(rules, cfg.default, path) = cfg.default
    BY <1>10 DEF PathVerdict, PathHits
  <1>11. mcp_l3_path_trie_decide(trie, cfg, path) = PathVerdict(rules, cfg.default, path)
    BY <1>9, <1>10 DEF mcp_l3_path_trie_decide, k
  <1> QED
    BY <1>11 DEF mcp_l3_command_trie_decide, trie


-----------------------------------------------------------------------------
(* Peers. *)

NetBits(rule) == SubSeq(rule.value[2], 1, rule.value[3])
NetHits(rules, port, bits) ==
    {i \in DOMAIN rules : rules[i].port = port /\ IsPrefix(NetBits(rules[i]), bits)}
NetLengths(rules) == [i \in DOMAIN rules |-> Len(NetBits(rules[i]))]

NetVerdict(rules, default, bits, port) ==
    LET exact == NetHits(rules, port, bits)
        any   == NetHits(rules, 0, bits)
    IN  IF exact # {} THEN rules[Best(exact, NetLengths(rules))].action
        ELSE IF any # {} THEN rules[Best(any, NetLengths(rules))].action ELSE default

(* The generation and the port in front. *)
LEMMA SamePort ==
    ASSUME NEW X, NEW gen \in X, NEW p \in X, NEW q \in X, NEW s \in Seq(X), NEW t \in Seq(X)
    PROVE  /\ <<gen, p>> \o s \in Seq(X) /\ Len(<<gen, p>> \o s) = Len(s) + 2
           /\ <<gen, p>> \o s # <<>> /\ (<<gen, p>> \o s)[1] = gen
           /\ IsPrefix(<<gen, p>> \o s, <<gen, q>> \o t) <=> p = q /\ IsPrefix(s, t)
  <1> DEFINE u == <<p>> \o s
             v == <<q>> \o t
  <1>1. ASSUME NEW r \in X, NEW w \in Seq(X)
        PROVE  /\ <<gen, r>> \o w \in Seq(X) /\ Len(<<gen, r>> \o w) = Len(w) + 2
               /\ (<<gen, r>> \o w)[1] = gen
               /\ <<gen, r>> \o w = <<gen>> \o (<<r>> \o w)
    <2>1. <<gen>> \in Seq(X) /\ <<r>> \in Seq(X) /\ <<gen, r>> = <<gen>> \o <<r>>
      OBVIOUS
    <2>2. (<<gen>> \o <<r>>) \o w = <<gen>> \o (<<r>> \o w)
      BY <2>1, ConcatAssociative
    <2>3. <<gen, r>> \o w = <<gen>> \o (<<r>> \o w)
      BY <2>1, <2>2, Zenon
    <2>4. /\ <<gen, r>> \o w \in Seq(X) /\ Len(<<gen, r>> \o w) = Len(w) + 2
          /\ (<<gen, r>> \o w)[1] = gen
      OBVIOUS
    <2> QED
      BY <2>3, <2>4
  <1>2. u \in Seq(X) /\ v \in Seq(X) /\ u[1] = p /\ v[1] = q /\ Len(u) = Len(s) + 1
    OBVIOUS
  <1>3. IsPrefix(u, v) <=> p = q /\ IsPrefix(s, t)
    <2>1. CASE p = q
      BY <2>1, SameGeneration
    <2>2. CASE p # q
      <3>1. 1 \in 1 .. Len(u)
        BY <1>2
      <3> HIDE DEF u, v
      <3> QED
        BY <1>2, <2>2, <3>1, PrefixPoints
    <2> QED
      BY <2>1, <2>2
  <1>4. IsPrefix(<<gen, p>> \o s, <<gen, q>> \o t) <=> IsPrefix(u, v)
    <2>1. <<gen, p>> \o s = <<gen>> \o u /\ <<gen, q>> \o t = <<gen>> \o v
      BY <1>1
    <2> HIDE DEF u, v
    <2>2. IsPrefix(<<gen>> \o u, <<gen>> \o v) <=> IsPrefix(u, v)
      BY <1>2, SameGeneration
    <2> QED
      BY <2>1, <2>2, Zenon
  <1>5. <<gen, p>> \o s # <<>>
    OBVIOUS
  <1> QED
    BY <1>1, <1>3, <1>4, <1>5

(* The rules of a file, as parse_ipv4_cidr leaves them. *)
NetRules(rules, X) ==
    \A i \in DOMAIN rules :
        /\ rules[i].port \in X /\ rules[i].value[2] \in Seq(X)
        /\ rules[i].value[3] \in 0 .. Len(rules[i].value[2])

(* A lookup found the best of the hits, or nothing if there are none. *)
Found(l, rules, hits, len) ==
    /\ hits = {} => l = Missing
    /\ hits # {} => l = <<"rule", rules[Best(hits, len)]>>

(* What the lookup with one port finds. *)
LEMMA NetworkFinds ==
    ASSUME NEW X, NEW gen \in X, NEW bits \in Seq(X), NEW port \in X,
           NEW R, NEW rules \in Seq(R), NetRules(rules, X),
           NEW B, NEW W, NEW old \in [B -> W], Foreign(old, gen, X)
    PROVE  Found(TrieLookup(write_network_trie(old, rules, gen), <<gen, port>> \o bits),
                 rules, NetHits(rules, port, bits), NetLengths(rules))
  <1> DEFINE trie == write_network_trie(old, rules, gen)
             n == Len(rules)
             key == [i \in DOMAIN rules |-> network_prefix(gen, rules[i])]
             k == <<gen, port>> \o bits
             hits == NetHits(rules, port, bits)
             len == NetLengths(rules)
  <1>1. n \in Nat /\ DOMAIN rules = 1 .. n
    OBVIOUS
  <1>2. k \in Seq(X) /\ k # <<>> /\ k[1] = gen
    BY SamePort
  <1>3. ASSUME NEW i \in 1 .. n
        PROVE  /\ NetBits(rules[i]) \in Seq(X)
               /\ key[i] \in Seq(X) /\ Len(key[i]) = Len(NetBits(rules[i])) + 2
               /\ IsPrefix(key[i], k) <=> rules[i].port = port /\ IsPrefix(NetBits(rules[i]), bits)
    <2>1. key[i] = <<gen, rules[i].port>> \o NetBits(rules[i])
      BY <1>1 DEF network_prefix, NetBits
    <2>2. /\ rules[i].value[2] \in Seq(X) /\ rules[i].port \in X
          /\ rules[i].value[3] \in 0 .. Len(rules[i].value[2])
      BY <1>1 DEF NetRules
    <2>3. NetBits(rules[i]) \in Seq(X)
      BY <2>2 DEF NetBits
    <2> HIDE DEF key
    <2> QED
      BY <2>1, <2>2, <2>3, SamePort
  <1>4. Written(trie, n, old, 1 .. n, key, rules)
    <2>1. Written(trie, n, old, DOMAIN rules, key, rules)
      BY NetworkTrieWritten
    <2> HIDE DEF trie, key, n
    <2> QED
      BY <1>1, <2>1, Zenon
  <1>5. Apart(old, k, X)
    <2> HIDE DEF k
    <2> QED
      BY <1>2, ForeignMisses
  <1> HIDE DEF trie, key, k
  <1>6. hits = Hits(n, key, k)
    BY <1>1, <1>3 DEF Hits, NetHits
  <1>7. len \in [1 .. n -> Nat] /\ \A i \in 1 .. n : len[i] = Len(NetBits(rules[i]))
    <2>1. \A i \in DOMAIN rules : Len(NetBits(rules[i])) \in Nat
      BY <1>1, <1>3
    <2>2. len \in [DOMAIN rules -> Nat] /\ \A i \in DOMAIN rules : len[i] = Len(NetBits(rules[i]))
      BY <2>1, Zenon DEF NetLengths
    <2> QED
      BY <1>1, <2>2, Zenon
  <1>8. Headed(n, key, len, 2, X)
    BY <1>3, <1>7 DEF Headed
  <1>9. /\ hits = {} => TrieLookup(trie, k) = Missing
        /\ hits # {} => TrieLookup(trie, k) = <<"rule", rules[Best(hits, len)]>>
    <2> HIDE DEF hits, len, n
    <2> QED
      BY <1>1, <1>2, <1>4, <1>5, <1>6, <1>8, WrittenBest
  <1> QED
    BY <1>9 DEF trie, k, Found

(* mcp_l3_ipv4_decide on what write_network_trie has written, for any      *)
(* rules, peer and configuration, whatever other generations have in the   *)
(* trie: of the rules for the port that cover the address the longest      *)
(* mask decides, of equal ones the last; if there is none, the rules for   *)
(* any port do so; and else the default.                                   *)
THEOREM PeerDecidedByPortThenLongest ==
    ASSUME NEW X, 0 \in X, NEW gen \in X, NEW bits \in Seq(X), NEW port \in X,
           NEW R, NEW rules \in Seq(R), NetRules(rules, X),
           NEW B, NEW W, NEW old \in [B -> W], Foreign(old, gen, X),
           NEW cfg, cfg.gen = gen, cfg.count = 0 => rules = <<>>
    PROVE  mcp_l3_ipv4_decide(write_network_trie(old, rules, gen), cfg, bits, port) =
               NetVerdict(rules, cfg.default, bits, port)
  <1> DEFINE trie == write_network_trie(old, rules, gen)
             exact == TrieLookup(trie, <<gen, port>> \o bits)
             any == TrieLookup(trie, <<gen, 0>> \o bits)
             len == NetLengths(rules)
  <1>1. Found(exact, rules, NetHits(rules, port, bits), len)
    BY NetworkFinds
  <1>2. Found(any, rules, NetHits(rules, 0, bits), len)
    BY NetworkFinds
  <1>3. ASSUME NEW r PROVE <<"rule", r>> # Missing
    BY DEF Missing
  <1>4. mcp_l3_ipv4_decide(trie, cfg, bits, port) =
            IF cfg.count = 0 THEN cfg.default
            ELSE ActionOf(IF exact # Missing THEN exact ELSE any, cfg)
    BY DEF mcp_l3_ipv4_decide
  <1>5. CASE cfg.count = 0
    <2>1. NetVerdict(rules, cfg.default, bits, port) = cfg.default
      BY <1>5 DEF NetVerdict, NetHits
    <2> QED
      BY <1>4, <1>5, <2>1
  <1>6. CASE cfg.count # 0
    <2> HIDE DEF exact, any, trie, len
    <2>1. ASSUME NEW l, NEW r, l = <<"rule", r>> PROVE ActionOf(l, cfg) = r.action
      BY <1>3, <2>1 DEF ActionOf
    <2>2. CASE NetHits(rules, port, bits) # {}
      <3>1. NetVerdict(rules, cfg.default, bits, port) =
                rules[Best(NetHits(rules, port, bits), len)].action
        BY <2>2 DEF NetVerdict, len
      <3> QED
        BY <1>1, <1>3, <1>4, <1>6, <2>1, <2>2, <3>1 DEF trie, Found
    <2>3. CASE NetHits(rules, port, bits) = {} /\ NetHits(rules, 0, bits) # {}
      <3>1. NetVerdict(rules, cfg.default, bits, port) =
                rules[Best(NetHits(rules, 0, bits), len)].action
        BY <2>3 DEF NetVerdict, len
      <3> QED
        BY <1>1, <1>2, <1>4, <1>6, <2>1, <2>3, <3>1 DEF trie, Found
    <2>4. CASE NetHits(rules, port, bits) = {} /\ NetHits(rules, 0, bits) = {}
      <3>1. NetVerdict(rules, cfg.default, bits, port) = cfg.default
        BY <2>4 DEF NetVerdict
      <3>2. ActionOf(Missing, cfg) = cfg.default
        BY DEF ActionOf
      <3> QED
        BY <1>1, <1>2, <1>4, <1>6, <2>4, <3>1, <3>2 DEF trie, Found
    <2> QED
      BY <2>2, <2>3, <2>4
  <1> QED
    BY <1>5, <1>6

-----------------------------------------------------------------------------
(* Inodes. *)

InodeHits(rules, inode) == {i \in DOMAIN rules : InodeOf(rules[i].value[2]) = inode}

InodeVerdict(rules, default, inode) ==
    LET hits == InodeHits(rules, inode)
    IN  IF hits = {} THEN default ELSE rules[Max(hits)].action

(* mcp_l3_resource_decide on what write_resource_hash has written, for any *)
(* rules, inode and configuration, whatever other generations have in the  *)
(* hash: the last rule whose path has the inode decides, and without any   *)
(* the default.                                                            *)
THEOREM AccessDecidedByLast ==
    ASSUME NEW inode, inode # 0, NEW gen, NEW R, NEW rules \in Seq(R),
           NEW B, NEW W, NEW old \in [B -> W], <<gen, inode>> \notin B,
           NEW cfg, cfg.gen = gen, cfg.count = 0 => rules = <<>>
    PROVE  mcp_l3_resource_decide(write_resource_hash(old, rules, gen), cfg, inode) =
               InodeVerdict(rules, cfg.default, inode)
  <1> DEFINE hash == write_resource_hash(old, rules, gen)
             n == Len(rules)
             key == [i \in DOMAIN rules |-> <<gen, InodeOf(rules[i].value[2])>>]
             hits == InodeHits(rules, inode)
  <1>1. n \in Nat /\ DOMAIN rules = 1 .. n /\ DOMAIN old = B
    OBVIOUS
  <1>2. Written(hash, n, old, Stated(rules), key, rules)
    BY ResourceHashWritten
  <1>3. /\ \A i \in hits : i \in 1 .. n /\ i \in Stated(rules) /\ key[i] = <<gen, inode>>
        /\ \A i \in 1 .. n : key[i] = <<gen, inode>> => i \in hits
    BY <1>1 DEF InodeHits, Stated
  <1> HIDE DEF hash, key, n, hits
  <1>4. CASE hits = {}
    <2>1. <<gen, inode>> \notin DOMAIN hash
      BY <1>1, <1>2, <1>3, <1>4 DEF Written
    <2> QED
      BY <1>4, <2>1 DEF mcp_l3_resource_decide, InodeVerdict, hash, hits
  <1>5. CASE hits # {}
    <2> DEFINE i == Max(hits)
    <2>1. i \in hits /\ \A j \in hits : j <= i
      <3>1. hits \in SUBSET (1 .. n)
        BY <1>3
      <3> QED
        BY <1>1, <1>5, <3>1, MaxPosition
    <2> HIDE DEF i
    <2>2. i \in (1 .. n) \cap Stated(rules) /\ key[i] = <<gen, inode>>
      BY <1>3, <2>1
    <2>3. \A j \in (1 .. n) \cap Stated(rules) : key[j] = key[i] => j <= i
      BY <1>3, <2>1, <2>2
    <2>4. hash[key[i]] = rules[i] /\ key[i] \in DOMAIN hash
      BY <1>2, <2>2, <2>3 DEF Written
    <2>5. rules # <<>>
      BY <1>1, <2>2
    <2>6. cfg.count # 0
      BY <2>5
    <2>7. mcp_l3_resource_decide(hash, cfg, inode) = rules[i].action
      BY <2>2, <2>4, <2>6 DEF mcp_l3_resource_decide
    <2>8. InodeVerdict(rules, cfg.default, inode) = rules[i].action
      BY <1>5 DEF InodeVerdict, i, hits
    <2> QED
      BY <2>7, <2>8 DEF hash
  <1> QED
    BY <1>4, <1>5
=============================================================================
