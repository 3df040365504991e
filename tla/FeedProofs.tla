------------------------------ MODULE FeedProofs ------------------------------
(***************************************************************************)
(* Proofs about the event feed, for every number of GUIs, slots, lines and *)
(* launches, and every size of a socket and of a store.                    *)
(***************************************************************************)
EXTENDS EventFeed, FiniteSetTheorems, SequenceTheorems, WellFoundedInduction, TLAPS

-----------------------------------------------------------------------------
(* Stores. *)

(* One more event is counted under its kind. *)
LEMMA OccurrencesAppend ==
    ASSUME NEW S, NEW e \in Seq(S), NEW x \in S, NEW k
    PROVE  /\ Occurrences(e, k) \in Nat
           /\ Occurrences(Append(e, x), k) =
                  IF x.kind = k THEN Occurrences(e, k) + 1 ELSE Occurrences(e, k)
  <1> DEFINE n == Len(e)
             A == {i \in DOMAIN e : e[i].kind = k}
             B == {i \in DOMAIN Append(e, x) : Append(e, x)[i].kind = k}
  <1>1. n \in Nat /\ DOMAIN e = 1 .. n /\ DOMAIN Append(e, x) = 1 .. (n + 1)
    BY LenProperties, AppendProperties
  <1>2. /\ \A i \in 1 .. n : Append(e, x)[i] = e[i]
        /\ Append(e, x)[n + 1] = x
    BY AppendProperties
  <1>3. IsFiniteSet(A) /\ Cardinality(A) \in Nat
    <2>1. IsFiniteSet(1 .. n)
      BY <1>1, FS_Interval
    <2>2. A \subseteq 1 .. n
      BY <1>1
    <2> QED
      BY <2>1, <2>2, FS_Subset, FS_CardinalityType
  <1>4. n + 1 \notin A
    BY <1>1
  <1>5. CASE x.kind = k
    <2>1. B = A \cup {n + 1}
      BY <1>1, <1>2, <1>5
    <2>2. Cardinality(B) = Cardinality(A) + 1
      BY <1>3, <1>4, <2>1, FS_AddElement
    <2> QED
      BY <1>3, <1>5, <2>2 DEF Occurrences
  <1>6. CASE x.kind # k
    <2>1. B = A
      BY <1>1, <1>2, <1>6
    <2> QED
      BY <1>3, <1>6, <2>1 DEF Occurrences
  <1> QED
    BY <1>5, <1>6

(* The oldest event is taken from the count of its kind. *)
LEMMA OccurrencesTail ==
    ASSUME NEW S, NEW e \in Seq(S), e # <<>>, NEW k
    PROVE  Occurrences(Tail(e), k) =
               IF Head(e).kind = k THEN Occurrences(e, k) - 1 ELSE Occurrences(e, k)
  <1> DEFINE n == Len(e)
             A == {i \in DOMAIN e : e[i].kind = k}
             T == {i \in DOMAIN Tail(e) : Tail(e)[i].kind = k}
             U == A \ {1}
             shift == [i \in T |-> i + 1]
  <1>1. n \in Nat \ {0} /\ DOMAIN e = 1 .. n
    BY LenProperties, EmptySeq
  <1>2. DOMAIN Tail(e) = 1 .. (n - 1) /\ \A i \in 1 .. (n - 1) : Tail(e)[i] = e[i + 1]
    <2>1. Tail(e) \in Seq(S) /\ Len(Tail(e)) = n - 1
          /\ \A i \in 1 .. Len(Tail(e)) : Tail(e)[i] = e[i + 1]
      BY HeadTailProperties
    <2> QED
      BY <2>1, LenProperties
  <1>3. Head(e) = e[1]
    BY <1>1
  <1>4. IsFiniteSet(A) /\ IsFiniteSet(T)
    <2>1. IsFiniteSet(1 .. n) /\ IsFiniteSet(1 .. (n - 1))
      BY <1>1, FS_Interval
    <2>2. A \subseteq 1 .. n /\ T \subseteq 1 .. (n - 1)
      BY <1>1, <1>2
    <2> QED
      BY <2>1, <2>2, FS_Subset
  <1>5. ExistsBijection(T, U)
    <2>1. \A i \in T : i + 1 \in U
      BY <1>1, <1>2
    <2>2. \A j \in U : j - 1 \in T /\ (j - 1) + 1 = j
      BY <1>1, <1>2
    <2>3. \A i, j \in T : i + 1 = j + 1 => i = j
      BY <1>1, <1>2
    <2>4. shift \in Injection(T, U)
      BY <2>1, <2>3 DEF Injection, IsInjective
    <2>5. shift \in Surjection(T, U)
      BY <2>1, <2>2 DEF Surjection
    <2> QED
      BY <2>4, <2>5 DEF ExistsBijection, Bijection
  <1>6. Cardinality(T) = Cardinality(U)
    BY <1>4, <1>5, FS_Bijection
  <1>7. CASE Head(e).kind = k
    <2>1. 1 \in A
      BY <1>1, <1>3, <1>7
    <2>2. Cardinality(U) = Cardinality(A) - 1
      BY <1>4, <2>1, FS_RemoveElement
    <2> QED
      BY <1>6, <1>7, <2>2 DEF Occurrences
  <1>8. CASE Head(e).kind # k
    <2>1. U = A
      BY <1>1, <1>3, <1>8
    <2> QED
      BY <1>6, <1>8, <2>1 DEF Occurrences
  <1> QED
    BY <1>7, <1>8

(* An empty store. *)
LEMMA EmptyStoreInv == StoreInv(EmptyStore)
  <1>1. /\ EmptyStore.events = <<>>
        /\ EmptyStore.counts = [k \in EventKinds |-> 0]
    BY DEF EmptyStore
  <1>2. \A k : Occurrences(<<>>, k) = 0
    <2>1. \A k : {i \in DOMAIN <<>> : <<>>[i].kind = k} = {}
      OBVIOUS
    <2> QED
      BY <2>1, FS_EmptySet DEF Occurrences
  <1>3. Len(<<>>) = 0 /\ <<>> \in Seq(Lines) /\ DOMAIN <<>> = {}
    OBVIOUS
  <1> QED
    BY <1>1, <1>2, <1>3, WindowAssumption DEF StoreInv

(* One more event: it is counted, and the oldest one is not any more. *)
LEMMA AddInv ==
    ASSUME NEW s, StoreInv(s), NEW x \in Lines, x.kind \in EventKinds
    PROVE  StoreInv(Add(s, x))
  <1> DEFINE t == [s EXCEPT !.events = Append(@, x), !.counts[x.kind] = @ + 1, !.risk = x]
             u == Evict(t)
  <1>0. DOMAIN s = {"events", "counts", "risk"}
    BY DEF StoreInv, EmptyStore
  <1>1. /\ DOMAIN t = DOMAIN EmptyStore
        /\ t.events = Append(s.events, x)
        /\ t.counts = [s.counts EXCEPT ![x.kind] = @ + 1]
        /\ t.risk = x
    BY <1>0 DEF EmptyStore
  <1> HIDE DEF t
  <1>2. /\ t.events \in Seq(Lines) /\ t.events # <<>>
        /\ Len(t.events) = Len(s.events) + 1
        /\ Len(s.events) \in Nat
        /\ DOMAIN t.events = 1 .. (Len(s.events) + 1)
        /\ DOMAIN s.events = 1 .. Len(s.events)
        /\ \A i \in 1 .. Len(s.events) : t.events[i] = s.events[i]
        /\ t.events[Len(s.events) + 1] = x
    BY <1>1, AppendProperties, LenProperties DEF StoreInv
  <1>3. \A i \in DOMAIN t.events : t.events[i].kind \in EventKinds
    <2>1. \A i \in 1 .. (Len(s.events) + 1) : i \in 1 .. Len(s.events) \/ i = Len(s.events) + 1
      BY <1>2
    <2> QED
      BY <1>2, <2>1 DEF StoreInv
  <1>4. /\ t.counts \in [EventKinds -> Nat]
        /\ \A k \in EventKinds : t.counts[k] = Occurrences(t.events, k)
    <2>1. ASSUME NEW k \in EventKinds
          PROVE  t.counts[k] = Occurrences(t.events, k) /\ t.counts[k] \in Nat
      <3>1. /\ Occurrences(s.events, k) \in Nat
            /\ Occurrences(t.events, k) = IF x.kind = k THEN Occurrences(s.events, k) + 1
                                          ELSE Occurrences(s.events, k)
        BY <1>1, OccurrencesAppend DEF StoreInv
      <3>2. s.counts[k] = Occurrences(s.events, k) /\ s.counts \in [EventKinds -> Nat]
        BY DEF StoreInv
      <3>3. t.counts[k] = IF x.kind = k THEN s.counts[k] + 1 ELSE s.counts[k]
        BY <1>1, <3>2
      <3> QED
        BY <3>1, <3>2, <3>3
    <2>2. s.counts \in [EventKinds -> Nat]
      BY DEF StoreInv
    <2> QED
      BY <1>1, <2>1, <2>2
  <1>5. Last(t.events) = x
    BY <1>2 DEF Last
  <1>6. /\ DOMAIN u = DOMAIN EmptyStore /\ u.risk = x
        /\ u.events \in Seq(Lines) /\ Len(u.events) <= Window
        /\ \A i \in DOMAIN u.events : u.events[i].kind \in EventKinds
        /\ u.counts \in [EventKinds -> Nat]
        /\ \A k \in EventKinds : u.counts[k] = Occurrences(u.events, k)
        /\ u.events # <<>> => Last(u.events) = x
    <2>1. CASE Len(t.events) <= Window
      <3>1. u = t
        BY <2>1 DEF Evict
      <3> QED
        BY <1>1, <1>2, <1>3, <1>4, <1>5, <2>1, <3>1
    <2>2. CASE ~(Len(t.events) <= Window)
      <3> DEFINE h == Head(t.events).kind
      <3>1. u = [t EXCEPT !.events = Tail(@), !.counts[h] = @ - 1]
        BY <2>2 DEF Evict
      <3>2. DOMAIN t = {"events", "counts", "risk"}
        BY <1>1 DEF EmptyStore
      <3>3. /\ DOMAIN u = DOMAIN EmptyStore /\ u.risk = x
            /\ u.events = Tail(t.events)
            /\ u.counts = [t.counts EXCEPT ![h] = @ - 1]
        BY <1>1, <3>1, <3>2
      <3> HIDE DEF u
      <3>4. h \in EventKinds
        <4>1. Head(t.events) = t.events[1] /\ 1 \in DOMAIN t.events
          BY <1>2
        <4> QED
          BY <1>3, <4>1
      <3>5. /\ Tail(t.events) \in Seq(Lines) /\ Len(Tail(t.events)) = Len(s.events)
            /\ DOMAIN Tail(t.events) = 1 .. Len(s.events)
            /\ \A i \in 1 .. Len(s.events) : Tail(t.events)[i] = t.events[i + 1]
        <4>1. /\ Tail(t.events) \in Seq(Lines) /\ Len(Tail(t.events)) = Len(t.events) - 1
              /\ \A i \in 1 .. Len(Tail(t.events)) : Tail(t.events)[i] = t.events[i + 1]
          BY <1>2, HeadTailProperties
        <4> QED
          BY <1>2, <4>1, LenProperties
      <3>6. \A i \in DOMAIN u.events : u.events[i].kind \in EventKinds
        <4>1. \A i \in 1 .. Len(s.events) : i + 1 \in DOMAIN t.events
          BY <1>2
        <4> QED
          BY <1>3, <3>3, <3>5, <4>1
      <3>7. ASSUME NEW k \in EventKinds
            PROVE  u.counts[k] = Occurrences(u.events, k) /\ u.counts[k] \in Nat
        <4>1. Occurrences(u.events, k) = IF h = k THEN Occurrences(t.events, k) - 1
                                         ELSE Occurrences(t.events, k)
          BY <1>2, <3>3, OccurrencesTail
        <4>2. u.counts[k] = IF h = k THEN t.counts[k] - 1 ELSE t.counts[k]
          BY <1>4, <3>3
        <4>3. Occurrences(u.events, k) \in Nat
          <5>1. u.events \in Seq(Lines)
            BY <3>3, <3>5
          <5> QED
            BY <5>1, OccurrencesAppend
        <4> QED
          BY <1>4, <4>1, <4>2, <4>3
      <3>8. u.counts \in [EventKinds -> Nat]
        BY <1>4, <3>3, <3>7
      <3>9. u.events # <<>> => Last(u.events) = x
        <4> SUFFICES ASSUME u.events # <<>> PROVE Last(u.events) = x
          OBVIOUS
        <4>1. Len(s.events) >= 1
          BY <1>2, <3>3, <3>5, EmptySeq
        <4> QED
          BY <1>2, <3>3, <3>5, <4>1 DEF Last
      <3> QED
        BY <3>3, <3>5, <3>6, <3>7, <3>8, <3>9 DEF StoreInv
    <2> QED
      BY <2>1, <2>2
  <1> HIDE DEF u
  <1>7. Add(s, x) = u
    BY DEF Add, u, t
  <1> QED
    BY <1>6, <1>7 DEF StoreInv

-----------------------------------------------------------------------------
(* GUIs and their connections. *)

(* The fields of a GUI. *)
LEMMA GuiFields ==
    ASSUME NEW p, GuiInv(p)
    PROVE  DOMAIN p = {"up", "connected", "timer", "wire", "hup", "next", "store"}
  BY DEF GuiInv, NotRunning

(* A GUI that does not run. *)
LEMMA NotRunningInv == GuiInv(NotRunning)
  <1>1. /\ NotRunning.up = FALSE /\ NotRunning.connected = FALSE
        /\ NotRunning.timer = FALSE /\ NotRunning.hup = FALSE
        /\ NotRunning.wire = <<>> /\ NotRunning.next = 0
        /\ NotRunning.store = EmptyStore
    BY DEF NotRunning
  <1>2. Len(<<>>) = 0 /\ <<>> \in Seq(Lines)
    OBVIOUS
  <1>3. 0 <= Room /\ 0 \in 0..(MaxLines + 1)
    BY FeedAssumption
  <1> QED
    BY <1>1, <1>2, <1>3, EmptyStoreInv, Zenon DEF GuiInv

(* Who is hung up on sees the end of the stream; nothing else changes. *)
LEMMA HungUp ==
    ASSUME ProcessInv, NEW conns, HangUp(conns)
    PROVE  /\ DOMAIN gui' = Guis
           /\ \A g \in Guis :
                  /\ DOMAIN gui'[g] = DOMAIN NotRunning
                  /\ gui'[g].up = gui[g].up /\ gui'[g].connected = gui[g].connected
                  /\ gui'[g].timer = gui[g].timer /\ gui'[g].wire = gui[g].wire
                  /\ gui'[g].next = gui[g].next /\ gui'[g].store = gui[g].store
                  /\ Conn(g) \in conns => gui'[g].hup = TRUE
                  /\ Conn(g) \notin conns => gui'[g].hup = gui[g].hup
  <1>1. DOMAIN gui' = Guis
    BY DEF HangUp
  <1>2. ASSUME NEW g \in Guis
        PROVE  gui'[g] = IF Conn(g) \in conns THEN [gui[g] EXCEPT !.hup = TRUE] ELSE gui[g]
    BY DEF HangUp, Conn
  <1>3. ASSUME NEW g \in Guis
        PROVE  DOMAIN gui[g] = {"up", "connected", "timer", "wire", "hup", "next", "store"}
               /\ DOMAIN NotRunning = {"up", "connected", "timer", "wire", "hup", "next", "store"}
    BY GuiFields, NotRunningInv DEF ProcessInv
  <1>4. ASSUME NEW g \in Guis
        PROVE  /\ DOMAIN gui'[g] = DOMAIN NotRunning
               /\ gui'[g].up = gui[g].up /\ gui'[g].connected = gui[g].connected
               /\ gui'[g].timer = gui[g].timer /\ gui'[g].wire = gui[g].wire
               /\ gui'[g].next = gui[g].next /\ gui'[g].store = gui[g].store
               /\ Conn(g) \in conns => gui'[g].hup = TRUE
               /\ Conn(g) \notin conns => gui'[g].hup = gui[g].hup
    <2>1. CASE Conn(g) \in conns
      <3>1. gui'[g] = [gui[g] EXCEPT !.hup = TRUE]
        BY <1>2, <2>1
      <3> QED
        BY <1>3, <2>1, <3>1
    <2>2. CASE Conn(g) \notin conns
      BY <1>2, <1>3, <2>2
    <2> QED
      BY <2>1, <2>2
  <1> QED
    BY <1>1, <1>4

(* It is still in order, if those hung up on were connected. *)
LEMMA HungUpInOrder ==
    ASSUME ProcessInv, NEW conns, HangUp(conns),
           \A g \in Guis : Conn(g) \in conns => gui[g].connected
    PROVE  ProcessInv'
  <1> SUFFICES ASSUME NEW g \in Guis PROVE GuiInv(gui'[g])
    BY HungUp DEF ProcessInv
  <1>1. GuiInv(gui[g])
    BY DEF ProcessInv
  <1>2. CASE Conn(g) \in conns
    <2>1. gui[g].connected
      BY <1>2
    <2> QED
      BY <1>1, <1>2, <2>1, HungUp DEF GuiInv
  <1>3. CASE Conn(g) \notin conns
    BY <1>1, <1>3, HungUp DEF GuiInv
  <1> QED
    BY <1>2, <1>3

(* A step of one GUI. *)
LEMMA OneGui ==
    ASSUME ProcessInv, NEW g \in Guis, NEW p, gui' = [gui EXCEPT ![g] = p], GuiInv(p)
    PROVE  /\ ProcessInv'
           /\ gui'[g] = p
           /\ \A h \in Guis : h # g => gui'[h] = gui[h]
  <1>1. gui'[g] = p /\ (\A h \in Guis : h # g => gui'[h] = gui[h]) /\ DOMAIN gui' = Guis
    BY DEF ProcessInv
  <1>2. \A h \in Guis : GuiInv(gui'[h])
    BY <1>1 DEF ProcessInv
  <1> QED
    BY <1>1, <1>2 DEF ProcessInv

(* Connections tell GUIs apart. *)
LEMMA ConnOf ==
    ASSUME NEW c \in Connections, c.open
    PROVE  c.gui \in Guis /\ c = Conn(c.gui)
  BY DEF Connections, Conn

LEMMA ConnInjective ==
    ASSUME NEW g \in Guis, NEW h \in Guis, Conn(g) = Conn(h)
    PROVE  g = h
  <1>1. Conn(g).gui = g /\ Conn(h).gui = h
    BY DEF Conn
  <1> QED
    BY <1>1

(* An aborted socket leaves a connection that is not open. *)
LEMMA LeftConn ==
    ASSUME NEW c \in Connections \cup {None}, NEW g \in Guis, NEW h \in Guis
    PROVE  /\ LeftBy(g, c) \in Connections \cup {None}
           /\ c # None => LeftBy(g, c) \in Connections
           /\ LeftBy(g, c) = Conn(h) <=> (h # g /\ c = Conn(h))
  <1>1. Conn(h) \in Connections /\ Conn(h).open = TRUE /\ Conn(h).gui = h
    BY DEF Conn, Connections
  <1>2. CASE c = None
    BY <1>1, <1>2, NoneAssumption DEF LeftBy
  <1>3. CASE c # None /\ c.gui = g
    <2>1. LeftBy(g, c) = [c EXCEPT !.open = FALSE]
      BY <1>3 DEF LeftBy
    <2>2. LeftBy(g, c) \in Connections /\ LeftBy(g, c).open = FALSE
      BY <1>3, <2>1 DEF Connections
    <2> QED
      BY <1>1, <1>3, <2>2, Zenon
  <1>4. CASE c # None /\ c.gui # g
    <2>1. LeftBy(g, c) = c
      BY <1>4 DEF LeftBy
    <2> QED
      BY <1>1, <1>4, <2>1
  <1> QED
    BY <1>2, <1>3, <1>4

-----------------------------------------------------------------------------
(* FeedInv is inductive. *)

(* The daemon's own variables. *)
LEMMA ThreadStep ==
    ASSUME ThreadInv, FeedNext
    PROVE  ThreadInv'
  <1> USE FeedAssumption DEF Slots
  <1>1. CASE PollReturns \/ Accept \/ AcceptDone \/ Restart
    BY <1>1 DEF PollReturns, Accept, AcceptDone, Restart, Listening, daemon, ThreadInv
  <1>2. CASE Publish
    <2>1. PICK kind \in LineKinds : line' = [n |-> sent + 1, kind |-> kind]
      BY <1>2 DEF Publish
    <2>2. line' \in Lines /\ line'.n = sent + 1
      BY <1>2, <2>1 DEF Publish, Lines, ThreadInv
    <2> QED
      BY <1>2, <2>2 DEF Publish, ThreadInv
  <1>3. CASE WriteLine \/ WriteFails
    <2>1. NextSlot /\ pc = "write"
      BY <1>3 DEF WriteLine, WriteFails
    <2> QED
      BY <2>1 DEF NextSlot, ThreadInv
  <1>4. CASE WriteKills \/ Stop
    <2>1. CloseAll /\ pc' \in {"killed", "stopped"}
      BY <1>4 DEF WriteKills, Stop
    <2> QED
      BY <2>1 DEF CloseAll, ThreadInv
  <1>5. CASE \E g \in Guis : EventLoop(g) \/ Launch(g) \/ Quit(g)
    BY <1>5 DEF EventLoop, Connect, ConnectFails, ReadLine, Disconnected, Launch, Quit,
           daemon, ThreadInv
  <1> QED
    BY <1>1, <1>2, <1>3, <1>4, <1>5 DEF FeedNext, DaemonThread

(* The daemon goes from one occupation to another. *)
LEMMA ThreadMoves ==
    ASSUME FeedInv, PollReturns \/ Publish \/ AcceptDone \/ Restart
    PROVE  ProcessInv' /\ PlaceInv' /\ NoGap'
  <1>1. UNCHANGED <<clients, backlog, gui>>
    BY DEF PollReturns, Publish, AcceptDone, Restart
  <1>2. ProcessInv' /\ PlaceInv'
    BY <1>1 DEF FeedInv, ProcessInv, PlaceInv, InSlot, Waits
  <1>3. ASSUME NEW g \in Guis, gui[g].connected, ~gui[g].hup
        PROVE  (IF Awaits(g)' THEN sent' ELSE sent' + 1) =
                   (IF Awaits(g) THEN sent ELSE sent + 1)
    <2>1. CASE PollReturns
      BY <2>1 DEF PollReturns, FeedInv, ThreadInv, Awaits
    <2>2. CASE Publish
      <3>1. line' # None
        <4>1. PICK kind \in LineKinds : line' = [n |-> sent + 1, kind |-> kind]
          BY <2>2 DEF Publish
        <4>2. line' \in Lines
          BY <2>2, <4>1, FeedAssumption DEF Publish, Lines, FeedInv, ThreadInv
        <4> QED
          BY <4>2, NoneAssumption
      <3> QED
        BY <2>2, <3>1 DEF Publish, FeedInv, ThreadInv, Awaits
    <2>3. CASE AcceptDone
      <3>1. CASE line = None
        BY <2>3, <3>1 DEF AcceptDone, Awaits
      <3>2. CASE line # None
        <4>1. DOMAIN backlog = {}
          BY <2>3 DEF AcceptDone
        <4>2. InSlot(g)
          BY <1>3, <4>1 DEF FeedInv, PlaceInv, Waits
        <4> QED
          BY <1>1, <2>3, <3>2, <4>2 DEF AcceptDone, Awaits, InSlot, Slots, Conn
      <3> QED
        BY <3>1, <3>2
    <2>4. CASE Restart
      BY <2>4 DEF Restart, Listening, FeedInv, ThreadInv, Awaits
    <2> QED
      BY <2>1, <2>2, <2>3, <2>4
  <1>4. NoGap'
    BY <1>1, <1>3 DEF FeedInv, NoGap
  <1> QED
    BY <1>2, <1>4

(* A GUI has one place at most. *)
OnePlace(g) ==
    /\ \A s, t \in Slots : clients[s] = Conn(g) /\ clients[t] = Conn(g) => s = t
    /\ \A i, j \in DOMAIN backlog : backlog[i] = Conn(g) /\ backlog[j] = Conn(g) => i = j
    /\ ~(InSlot(g) /\ Waits(g))

(* An open connection is not None, and its GUI is connected. *)
LEMMA HeldIsConnected ==
    ASSUME PlaceInv, NEW g \in Guis
    PROVE  /\ Conn(g) \in Connections /\ Conn(g) # None
           /\ OnePlace(g)
           /\ InSlot(g) \/ Waits(g) <=> gui[g].connected /\ ~gui[g].hup
  <1>1. Conn(g) \in Connections
    BY DEF Conn, Connections
  <1> QED
    BY <1>1, NoneAssumption DEF PlaceInv, OnePlace

(* The connection at the head leaves the backlog. *)
LEMMA LeavesBacklog ==
    ASSUME PlaceInv, backlog # <<>>, backlog' = Tail(backlog), NEW g \in Guis
    PROVE  /\ backlog' \in Seq(Connections) /\ Head(backlog) \in Connections
           /\ \A i, j \in DOMAIN backlog' :
                  backlog'[i] = Conn(g) /\ backlog'[j] = Conn(g) => i = j
           /\ Head(backlog) = Conn(g) => Waits(g) /\ ~InSlot(g) /\ ~Waits(g)'
           /\ Head(backlog) # Conn(g) => (Waits(g)' <=> Waits(g))
  <1> DEFINE n == Len(backlog)
  <1>1. backlog \in Seq(Connections) /\ OnePlace(g)
    BY HeldIsConnected DEF PlaceInv
  <1>2. n \in Nat \ {0} /\ DOMAIN backlog = 1 .. n /\ Head(backlog) = backlog[1]
        /\ Head(backlog) \in Connections
    BY <1>1, LenProperties, EmptySeq, HeadTailProperties
  <1>3. backlog' \in Seq(Connections) /\ DOMAIN backlog' = 1 .. (n - 1)
        /\ \A i \in 1 .. (n - 1) : backlog'[i] = backlog[i + 1]
    <2>1. Tail(backlog) \in Seq(Connections) /\ Len(Tail(backlog)) = n - 1
          /\ \A i \in 1 .. Len(Tail(backlog)) : Tail(backlog)[i] = backlog[i + 1]
      BY <1>1, HeadTailProperties
    <2> QED
      BY <2>1, LenProperties
  <1>4. \A i, j \in DOMAIN backlog' :
            backlog'[i] = Conn(g) /\ backlog'[j] = Conn(g) => i = j
    <2> SUFFICES ASSUME NEW i \in 1 .. (n - 1), NEW j \in 1 .. (n - 1),
                        backlog[i + 1] = Conn(g), backlog[j + 1] = Conn(g)
                 PROVE  i = j
      BY <1>3
    <2>1. i + 1 \in DOMAIN backlog /\ j + 1 \in DOMAIN backlog
      BY <1>2
    <2>2. i + 1 = j + 1
      BY <1>1, <2>1 DEF OnePlace
    <2> QED
      BY <1>2, <2>2
  <1>5. Waits(g)' <=> \E i \in 1 .. (n - 1) : backlog[i + 1] = Conn(g)
    BY <1>3 DEF Waits, Conn
  <1>6. Waits(g) <=> \E i \in 1 .. n : backlog[i] = Conn(g)
    BY <1>2 DEF Waits
  <1>7. ASSUME Head(backlog) = Conn(g) PROVE Waits(g) /\ ~InSlot(g) /\ ~Waits(g)'
    <2>1. Waits(g)
      BY <1>2, <1>6, <1>7
    <2>2. ASSUME NEW i \in 1 .. (n - 1), backlog[i + 1] = Conn(g) PROVE FALSE
      <3>1. i + 1 \in DOMAIN backlog /\ 1 \in DOMAIN backlog /\ i + 1 # 1
        BY <1>2
      <3> QED
        BY <1>1, <1>2, <1>7, <2>2, <3>1 DEF OnePlace
    <2> QED
      BY <1>1, <1>5, <2>1, <2>2 DEF OnePlace
  <1>8. ASSUME Head(backlog) # Conn(g) PROVE Waits(g)' <=> Waits(g)
    <2>1. ASSUME NEW i \in 1 .. (n - 1), backlog[i + 1] = Conn(g) PROVE Waits(g)
      <3>1. i + 1 \in 1 .. n
        BY <1>2
      <3> QED
        BY <1>6, <2>1, <3>1
    <2>2. ASSUME NEW i \in 1 .. n, backlog[i] = Conn(g) PROVE Waits(g)'
      <3>1. i # 1
        BY <1>2, <1>8, <2>2
      <3>2. i - 1 \in 1 .. (n - 1) /\ backlog[(i - 1) + 1] = Conn(g)
        BY <1>2, <2>2, <3>1
      <3> QED
        BY <1>5, <3>2
    <2> QED
      BY <1>5, <1>6, <2>1, <2>2
  <1> QED
    BY <1>2, <1>3, <1>4, <1>7, <1>8

(* The first free slot is a free slot. *)
LEMMA FirstFreeSlot ==
    ASSUME FreeSlots # {}
    PROVE  Min(FreeSlots) \in Slots /\ clients[Min(FreeSlots)] = None
  <1>1. FreeSlots \in SUBSET Nat
    BY FeedAssumption DEF FreeSlots, Slots
  <1>2. PICK i \in FreeSlots : \A j \in FreeSlots : ~(<<j, i>> \in OpToRel(<, Nat))
    BY <1>1, NatLessThanWellFounded, WFMin
  <1>3. ASSUME NEW j \in FreeSlots, ~(i <= j) PROVE FALSE
    <2>1. j \in Nat /\ i \in Nat /\ j < i
      BY <1>1, <1>3
    <2>2. <<j, i>> \in OpToRel(<, Nat)
      BY <2>1 DEF OpToRel
    <2> QED
      BY <1>2, <2>2
  <1>4. \E x \in FreeSlots : \A y \in FreeSlots : x =< y
    BY <1>3
  <1>5. Min(FreeSlots) \in FreeSlots
    BY <1>4 DEF Min
  <1> QED
    BY <1>5 DEF FreeSlots

(* A connection gets a slot, or is told to go. *)
LEMMA AcceptStep ==
    ASSUME FeedInv, Accept
    PROVE  ProcessInv' /\ PlaceInv' /\ NoGap'
  <1> USE DEF FeedInv
  <1>0. /\ pc = "accept" /\ backlog # <<>> /\ backlog' = Tail(backlog)
        /\ UNCHANGED <<pc, at, line, sent>>
    BY DEF Accept, daemon
  <1>a. \A g \in Guis : Awaits(g)' <=> Awaits(g)
    BY <1>0 DEF Awaits
  <1>1. CASE FreeSlots = {}
    <2>0. HangUp({Head(backlog)}) /\ clients' = clients
      BY <1>1 DEF Accept
    <2>1. ProcessInv'
      BY <1>0, <2>0, LeavesBacklog, HeldIsConnected, HungUpInOrder
    <2>2. \A g \in Guis : InSlot(g)' <=> InSlot(g)
      BY <2>0 DEF InSlot, Conn
    <2>3. ASSUME NEW g \in Guis
          PROVE  /\ ~(InSlot(g)' /\ Waits(g)')
                 /\ InSlot(g)' \/ Waits(g)' <=> gui'[g].connected /\ ~gui'[g].hup
      <3>1. CASE Head(backlog) = Conn(g)
        <4>1. gui'[g].hup = TRUE
          BY <2>0, <3>1, HungUp
        <4>2. ~InSlot(g)' /\ ~Waits(g)'
          BY <1>0, <2>2, <3>1, LeavesBacklog
        <4> QED
          BY <4>1, <4>2, Zenon
      <3>2. CASE Head(backlog) # Conn(g)
        <4>0. Conn(g) \notin {Head(backlog)}
          BY <3>2
        <4>1. gui'[g].hup = gui[g].hup /\ gui'[g].connected = gui[g].connected
          BY <2>0, <4>0, HungUp, Zenon
        <4>2. (InSlot(g)' <=> InSlot(g)) /\ (Waits(g)' <=> Waits(g))
          BY <1>0, <2>2, <3>2, LeavesBacklog
        <4>3. /\ ~(InSlot(g) /\ Waits(g))
              /\ InSlot(g) \/ Waits(g) <=> gui[g].connected /\ ~gui[g].hup
          BY HeldIsConnected DEF OnePlace
        <4> QED
          BY <4>1, <4>2, <4>3, Zenon
      <3> QED
        BY <3>1, <3>2
    <2>4. PlaceInv'
      BY <1>0, <2>0, <2>3, LeavesBacklog DEF PlaceInv, Conn
    <2>5. NoGap'
      <3> SUFFICES ASSUME NEW g \in Guis, gui'[g].connected
                   PROVE  /\ \A i \in DOMAIN gui'[g].wire : gui'[g].wire[i].n = gui'[g].next + i - 1
                          /\ ~gui'[g].hup =>
                                gui'[g].next + Len(gui'[g].wire) =
                                    IF Awaits(g)' THEN sent' ELSE sent' + 1
        BY DEF NoGap
      <3>1. /\ gui'[g].connected = gui[g].connected /\ gui'[g].wire = gui[g].wire
            /\ gui'[g].next = gui[g].next /\ (~gui'[g].hup => ~gui[g].hup)
        BY <2>0, HungUp, Zenon
      <3> QED
        BY <1>0, <1>a, <3>1 DEF NoGap
    <2> QED
      BY <2>1, <2>4, <2>5
  <1>2. CASE FreeSlots # {}
    <2> DEFINE s0 == Min(FreeSlots)
    <2>0. clients' = [clients EXCEPT ![s0] = Head(backlog)] /\ gui' = gui
      BY <1>2 DEF Accept
    <2>1. s0 \in Slots /\ clients[s0] = None
      BY <1>2, FirstFreeSlot
    <2> HIDE DEF s0
    <2>2. clients'[s0] = Head(backlog) /\ \A s \in Slots : s # s0 => clients'[s] = clients[s]
      BY <2>0, <2>1 DEF PlaceInv
    <2>3. ASSUME NEW g \in Guis
          PROVE  /\ \A s, t \in Slots : clients'[s] = Conn(g) /\ clients'[t] = Conn(g) => s = t
                 /\ ~(InSlot(g)' /\ Waits(g)')
                 /\ InSlot(g)' \/ Waits(g)' <=> InSlot(g) \/ Waits(g)
      <3>0. Conn(g) # None /\ OnePlace(g)
        BY HeldIsConnected
      <3>a. InSlot(g)' <=> \E s \in Slots : clients'[s] = Conn(g)
        BY DEF InSlot, Conn
      <3>1. CASE Head(backlog) = Conn(g)
        <4>1. \A s \in Slots : clients[s] # Conn(g)
          BY <1>0, <3>1, LeavesBacklog DEF InSlot
        <4>2. \A s \in Slots : clients'[s] = Conn(g) <=> s = s0
          BY <2>1, <2>2, <3>1, <4>1
        <4> QED
          BY <1>0, <2>1, <3>a, <3>1, <4>2, LeavesBacklog
      <3>2. CASE Head(backlog) # Conn(g)
        <4>1. \A s \in Slots : clients'[s] = Conn(g) <=> clients[s] = Conn(g)
          BY <2>1, <2>2, <3>0, <3>2
        <4>2. InSlot(g)' <=> InSlot(g)
          BY <3>a, <4>1 DEF InSlot
        <4>3. Waits(g)' <=> Waits(g)
          BY <1>0, <3>2, LeavesBacklog
        <4> QED
          BY <3>0, <4>1, <4>2, <4>3 DEF OnePlace
      <3> QED
        BY <3>1, <3>2
    <2>4. clients' \in [Slots -> Connections \cup {None}]
      <3>1. Head(backlog) \in Connections
        BY <1>0, HeadTailProperties DEF PlaceInv
      <3> QED
        BY <2>0, <2>1, <3>1 DEF PlaceInv
    <2>5. backlog' \in Seq(Connections)
      BY <1>0, HeadTailProperties DEF PlaceInv
    <2>6. PlaceInv'
      BY <1>0, <2>0, <2>3, <2>4, <2>5, LeavesBacklog, HeldIsConnected DEF PlaceInv, Conn
    <2>7. ProcessInv' /\ NoGap'
      BY <1>0, <1>a, <2>0 DEF ProcessInv, NoGap
    <2> QED
      BY <2>6, <2>7
  <1> QED
    BY <1>1, <1>2

(* A slot has been dealt with: its GUI no longer awaits the line. *)
LEMMA SlotDone ==
    ASSUME FeedInv, pc = "write", NextSlot,
           \A s \in Slots : s # at => clients'[s] = clients[s],
           NEW g \in Guis
    PROVE  /\ clients[at] # Conn(g) => (Awaits(g)' <=> Awaits(g))
           /\ clients[at] = Conn(g) => Awaits(g) /\ ~Awaits(g)'
  <1> USE DEF FeedInv
  <1>0. at \in Slots /\ MaxClients \in Nat \ {0} /\ line # None
    BY FeedAssumption DEF ThreadInv
  <1>1. Awaits(g) <=> \E s \in at..MaxClients : clients[s] = Conn(g)
    BY DEF Awaits, Conn
  <1>2. CASE at < MaxClients
    <2>1. pc' = "write" /\ at' = at + 1
      BY <1>2 DEF NextSlot
    <2>2. Awaits(g)' <=> \E s \in (at + 1)..MaxClients : clients'[s] = Conn(g)
      BY <2>1 DEF Awaits, Conn
    <2>3. \A s \in (at + 1)..MaxClients : s \in Slots /\ s # at /\ s \in at..MaxClients
      BY <1>0 DEF Slots
    <2>4. \A s \in at..MaxClients : s = at \/ s \in (at + 1)..MaxClients
      BY <1>0 DEF Slots
    <2>5. at \in at..MaxClients
      BY <1>0 DEF Slots
    <2>6. ASSUME clients[at] # Conn(g) PROVE Awaits(g)' <=> Awaits(g)
      BY <1>1, <2>2, <2>3, <2>4, <2>6
    <2>7. ASSUME clients[at] = Conn(g) PROVE Awaits(g) /\ ~Awaits(g)'
      BY <1>0, <1>1, <2>2, <2>3, <2>5, <2>7, HeldIsConnected DEF OnePlace
    <2> QED
      BY <2>6, <2>7
  <1>3. CASE ~(at < MaxClients)
    <2>1. pc' = "poll" /\ at = MaxClients
      BY <1>0, <1>3 DEF NextSlot, Slots
    <2>2. ~Awaits(g)'
      BY <2>1 DEF Awaits
    <2>3. \A s \in at..MaxClients : s = at
      BY <1>0, <2>1 DEF Slots
    <2>4. at \in at..MaxClients
      BY <1>0, <2>1 DEF Slots
    <2> QED
      BY <1>1, <2>2, <2>3, <2>4
  <1> QED
    BY <1>2, <1>3

(* A line is written to a client that has room, or the slot is free. *)
LEMMA WriteLineStep ==
    ASSUME FeedInv, WriteLine
    PROVE  ProcessInv' /\ PlaceInv' /\ NoGap'
  <1> USE DEF FeedInv
  <1>0. pc = "write" /\ NextSlot /\ UNCHANGED <<clients, backlog, sent>>
    BY DEF WriteLine, NextSlot
  <1>a. at \in Slots /\ line \in Lines /\ line.n = sent /\ sent \in Nat
    BY <1>0 DEF ThreadInv
  <1>1. CASE clients[at] = None /\ gui' = gui
    <2>1. \A g \in Guis : Awaits(g)' <=> Awaits(g)
      BY <1>0, <1>1, SlotDone, HeldIsConnected
    <2>2. ProcessInv' /\ PlaceInv'
      BY <1>0, <1>1 DEF ProcessInv, PlaceInv, InSlot, Waits
    <2>3. NoGap'
      BY <1>0, <1>1, <2>1 DEF NoGap
    <2> QED
      BY <2>2, <2>3
  <1>2. CASE /\ clients[at] # None /\ clients[at].open
             /\ Len(gui[clients[at].gui].wire) < Room
             /\ gui' = [gui EXCEPT ![clients[at].gui].wire = Append(@, line)]
    <2>1. PICK g \in Guis : clients[at].gui = g /\ clients[at] = Conn(g)
      BY <1>a, <1>2, ConnOf DEF PlaceInv
    <2> DEFINE w == gui[g].wire
               p == [gui[g] EXCEPT !.wire = Append(w, line)]
    <2>2. InSlot(g) /\ gui[g].connected /\ ~gui[g].hup
      BY <1>a, <2>1, HeldIsConnected DEF InSlot
    <2>3. GuiInv(gui[g])
      BY <2>1 DEF ProcessInv
    <2>4. /\ DOMAIN p = DOMAIN NotRunning
          /\ p.up = gui[g].up /\ p.connected = gui[g].connected
          /\ p.timer = gui[g].timer /\ p.wire = Append(w, line)
          /\ p.next = gui[g].next /\ p.store = gui[g].store /\ p.hup = gui[g].hup
      BY <2>3, GuiFields DEF GuiInv
    <2>5. gui' = [gui EXCEPT ![g] = p]
      BY <1>2, <2>1
    <2>6. /\ w \in Seq(Lines) /\ Len(w) < Room /\ Len(w) \in Nat /\ DOMAIN w = 1 .. Len(w)
          /\ Append(w, line) \in Seq(Lines) /\ Len(Append(w, line)) = Len(w) + 1
          /\ DOMAIN Append(w, line) = 1 .. (Len(w) + 1)
          /\ \A i \in 1 .. Len(w) : Append(w, line)[i] = w[i]
          /\ Append(w, line)[Len(w) + 1] = line
      <3>1. w \in Seq(Lines) /\ Len(w) < Room
        BY <1>2, <2>1, <2>3 DEF GuiInv
      <3> HIDE DEF w
      <3> QED
        BY <1>a, <3>1, AppendProperties, LenProperties
    <2> HIDE DEF w, p
    <2>7. GuiInv(p)
      <3>1. Len(Append(w, line)) <= Room
        BY <2>6, FeedAssumption
      <3> QED
        BY <2>2, <2>3, <2>4, <2>6, <3>1, Zenon DEF GuiInv
    <2>8. /\ ProcessInv' /\ gui'[g] = p
          /\ \A h \in Guis : h # g => gui'[h] = gui[h]
      BY <2>1, <2>5, <2>7, OneGui
    <2>9. PlaceInv'
      <3>1. \A h \in Guis : gui'[h].connected = gui[h].connected /\ gui'[h].hup = gui[h].hup
        BY <2>4, <2>8
      <3> QED
        BY <1>0, <3>1 DEF PlaceInv, InSlot, Waits
    <2>10. NoGap'
      <3> SUFFICES ASSUME NEW h \in Guis, gui'[h].connected
                   PROVE  /\ \A i \in DOMAIN gui'[h].wire : gui'[h].wire[i].n = gui'[h].next + i - 1
                          /\ ~gui'[h].hup =>
                                gui'[h].next + Len(gui'[h].wire) =
                                    IF Awaits(h)' THEN sent' ELSE sent' + 1
        BY DEF NoGap
      <3>1. CASE h # g
        <4>1. clients[at] # Conn(h)
          BY <2>1, <3>1, ConnInjective
        <4>2. Awaits(h)' <=> Awaits(h)
          BY <1>0, <4>1, SlotDone
        <4>3. gui'[h] = gui[h]
          BY <2>8, <3>1
        <4> QED
          BY <1>0, <4>2, <4>3 DEF NoGap
      <3>2. CASE h = g
        <4>1. Awaits(g) /\ ~Awaits(g)'
          BY <1>0, <2>1, SlotDone
        <4>2. gui[g].next + Len(w) = sent /\ gui[g].next \in Nat
          BY <2>1, <2>2, <2>3, <4>1, FeedAssumption DEF NoGap, GuiInv, w
        <4>3. \A i \in 1 .. Len(w) : w[i].n = gui[g].next + i - 1
          BY <2>1, <2>2, <2>6 DEF NoGap, w
        <4>4. \A i \in 1 .. (Len(w) + 1) : Append(w, line)[i].n = gui[g].next + i - 1
          <5> SUFFICES ASSUME NEW i \in 1 .. (Len(w) + 1)
                       PROVE  Append(w, line)[i].n = gui[g].next + i - 1
            OBVIOUS
          <5>1. CASE i \in 1 .. Len(w)
            BY <2>6, <4>3, <5>1
          <5>2. CASE i = Len(w) + 1
            BY <1>a, <2>6, <4>2, <5>2
          <5> QED
            BY <2>6, <5>1, <5>2
        <4>5. gui[g].next + Len(Append(w, line)) = sent + 1
          BY <2>6, <4>2
        <4> QED
          BY <1>0, <2>4, <2>6, <2>8, <3>2, <4>1, <4>4, <4>5
      <3> QED
        BY <3>1, <3>2
    <2> QED
      BY <2>8, <2>9, <2>10
  <1> QED
    BY <1>1, <1>2 DEF WriteLine

(* A client without room is closed. *)
LEMMA WriteFailsStep ==
    ASSUME FeedInv, WriteFails
    PROVE  ProcessInv' /\ PlaceInv' /\ NoGap'
  <1> USE DEF FeedInv
  <1>0. /\ pc = "write" /\ NextSlot /\ UNCHANGED <<backlog, sent>>
        /\ clients' = [clients EXCEPT ![at] = None]
        /\ HangUp({clients[at]})
    BY DEF WriteFails, NextSlot
  <1>1. at \in Slots
    BY DEF ThreadInv
  <1> DEFINE g == clients[at].gui
  <1>2. g \in Guis /\ clients[at] = Conn(g)
    BY <1>1, ConnOf DEF WriteFails, ClientIsFull, PlaceInv
  <1> HIDE DEF g
  <1>3. clients'[at] = None /\ \A s \in Slots : s # at => clients'[s] = clients[s]
    BY <1>0, <1>1 DEF PlaceInv
  <1>4. InSlot(g) /\ ~Waits(g) /\ gui[g].connected
    BY <1>1, <1>2, HeldIsConnected DEF InSlot, OnePlace
  <1>5. \A h \in Guis : Conn(h) \in {clients[at]} <=> h = g
    BY <1>2, ConnInjective
  <1>6. ProcessInv'
    BY <1>0, <1>4, <1>5, HungUpInOrder
  <1>7. \A h \in Guis : Waits(h)' <=> Waits(h)
    BY <1>0 DEF Waits, Conn
  <1>8. ASSUME NEW h \in Guis
        PROVE  /\ \A s, t \in Slots : clients'[s] = Conn(h) /\ clients'[t] = Conn(h) => s = t
               /\ \A i, j \in DOMAIN backlog : backlog[i] = Conn(h) /\ backlog[j] = Conn(h) => i = j
               /\ ~(InSlot(h)' /\ Waits(h)')
               /\ InSlot(h)' \/ Waits(h)' <=> gui'[h].connected /\ ~gui'[h].hup
    <2>0. Conn(h) # None /\ OnePlace(h)
      BY HeldIsConnected
    <2>1. InSlot(h)' <=> \E s \in Slots : clients'[s] = Conn(h)
      BY DEF InSlot, Conn
    <2>2. CASE h = g
      <3>1. \A s \in Slots : clients'[s] # Conn(h)
        BY <1>1, <1>2, <1>3, <2>0, <2>2 DEF OnePlace
      <3>2. gui'[h].hup = TRUE
        BY <1>0, <1>5, <2>2, HungUp, Zenon
      <3>3. ~InSlot(h)' /\ ~Waits(h)'
        BY <1>4, <1>7, <2>1, <2>2, <3>1
      <3> QED
        BY <2>0, <3>1, <3>2, <3>3, Zenon DEF OnePlace
    <2>3. CASE h # g
      <3>1. \A s \in Slots : clients'[s] = Conn(h) <=> clients[s] = Conn(h)
        BY <1>2, <1>3, <2>0, <2>3, ConnInjective
      <3>2. (InSlot(h)' <=> InSlot(h)) /\ (Waits(h)' <=> Waits(h))
        BY <1>7, <2>1, <3>1 DEF InSlot
      <3>3. gui'[h].hup = gui[h].hup /\ gui'[h].connected = gui[h].connected
        BY <1>0, <1>5, <2>3, HungUp, Zenon
      <3>4. InSlot(h) \/ Waits(h) <=> gui[h].connected /\ ~gui[h].hup
        BY HeldIsConnected
      <3> QED
        BY <2>0, <3>1, <3>2, <3>3, <3>4, Zenon DEF OnePlace
    <2> QED
      BY <2>2, <2>3
  <1>9. PlaceInv'
    <2>1. clients' \in [Slots -> Connections \cup {None}] /\ backlog' \in Seq(Connections)
      BY <1>0, <1>1 DEF PlaceInv
    <2> QED
      BY <1>0, <1>8, <2>1 DEF PlaceInv, Conn
  <1>10. NoGap'
    <2> SUFFICES ASSUME NEW h \in Guis, gui'[h].connected
                 PROVE  /\ \A i \in DOMAIN gui'[h].wire : gui'[h].wire[i].n = gui'[h].next + i - 1
                        /\ ~gui'[h].hup =>
                              gui'[h].next + Len(gui'[h].wire) =
                                  IF Awaits(h)' THEN sent' ELSE sent' + 1
      BY DEF NoGap
    <2>1. /\ gui'[h].connected = gui[h].connected /\ gui'[h].wire = gui[h].wire
          /\ gui'[h].next = gui[h].next /\ (~gui'[h].hup => ~gui[h].hup)
          /\ h = g => gui'[h].hup = TRUE
      BY <1>0, <1>5, HungUp, Zenon
    <2>2. CASE h = g
      BY <2>1, <2>2, <1>0 DEF NoGap
    <2>3. CASE h # g
      <3>1. Awaits(h)' <=> Awaits(h)
        BY <1>0, <1>2, <1>3, <2>3, ConnInjective, SlotDone
      <3> QED
        BY <1>0, <2>1, <3>1 DEF NoGap
    <2> QED
      BY <2>2, <2>3
  <1> QED
    BY <1>6, <1>9, <1>10

(* The daemon ends: everyone is told to go. *)
LEMMA CloseAllStep ==
    ASSUME FeedInv, WriteKills \/ Stop
    PROVE  ProcessInv' /\ PlaceInv' /\ NoGap'
  <1> USE DEF FeedInv
  <1>0. /\ HangUp(AllConnections)
        /\ clients' = [s \in Slots |-> None] /\ backlog' = <<>>
    BY DEF WriteKills, Stop, CloseAll
  <1>1. ASSUME NEW g \in Guis
        PROVE  Conn(g) \in AllConnections <=> InSlot(g) \/ Waits(g)
    BY DEF AllConnections, ToSet, InSlot, Waits
  <1>2. ASSUME NEW g \in Guis
        PROVE  Conn(g) \in AllConnections <=> gui[g].connected /\ ~gui[g].hup
    BY <1>1, HeldIsConnected
  <1>3. ProcessInv'
    BY <1>0, <1>2, HungUpInOrder
  <1>4. ASSUME NEW g \in Guis PROVE ~(gui'[g].connected /\ ~gui'[g].hup)
    <2>1. CASE Conn(g) \in AllConnections
      <3>1. gui'[g].hup = TRUE
        BY <1>0, <2>1, HungUp
      <3> QED
        BY <3>1, Zenon
    <2>2. CASE Conn(g) \notin AllConnections
      <3>1. gui'[g].hup = gui[g].hup /\ gui'[g].connected = gui[g].connected
        BY <1>0, <2>2, HungUp, Zenon
      <3> QED
        BY <1>2, <2>2, <3>1, Zenon
    <2> QED
      BY <2>1, <2>2
  <1>5. PlaceInv'
    <2>1. \A g \in Guis : ~InSlot(g)' /\ ~Waits(g)'
      <3>1. \A g \in Guis : Conn(g) # None
        BY HeldIsConnected
      <3>2. \A s \in Slots : clients'[s] = None
        BY <1>0
      <3>3. DOMAIN backlog' = {}
        BY <1>0
      <3> QED
        BY <3>1, <3>2, <3>3 DEF InSlot, Waits, Conn
    <2>2. clients' \in [Slots -> Connections \cup {None}] /\ backlog' \in Seq(Connections)
      BY <1>0
    <2>3. \A g \in Guis :
            /\ \A s, t \in Slots : ~(clients'[s] = Conn(g) /\ clients'[t] = Conn(g))
            /\ \A i, j \in DOMAIN backlog' : ~(backlog'[i] = Conn(g) /\ backlog'[j] = Conn(g))
      BY <2>1 DEF InSlot, Waits, Conn
    <2> QED
      BY <1>4, <2>1, <2>2, <2>3 DEF PlaceInv, Conn
  <1>6. NoGap'
    <2>1. \A g \in Guis : /\ gui'[g].connected = gui[g].connected
                          /\ gui'[g].wire = gui[g].wire /\ gui'[g].next = gui[g].next
      BY <1>0, HungUp, Zenon
    <2> QED
      BY <1>4, <2>1 DEF NoGap
  <1> QED
    BY <1>3, <1>5, <1>6

(* A step of one GUI that makes or breaks no connection. *)
LEMMA SamePlaces ==
    ASSUME FeedInv, NEW g \in Guis, NEW p, gui' = [gui EXCEPT ![g] = p], GuiInv(p),
           UNCHANGED <<pc, at, line, sent, clients, backlog>>,
           p.connected /\ ~p.hup <=> gui[g].connected /\ ~gui[g].hup,
           p.connected =>
               /\ \A i \in DOMAIN p.wire : p.wire[i].n = p.next + i - 1
               /\ ~p.hup => p.next + Len(p.wire) = gui[g].next + Len(gui[g].wire)
    PROVE  ProcessInv' /\ PlaceInv' /\ NoGap'
  <1> USE DEF FeedInv
  <1>1. /\ ProcessInv' /\ gui'[g] = p
        /\ \A h \in Guis : h # g => gui'[h] = gui[h]
    BY OneGui
  <1>2. \A h \in Guis : /\ InSlot(h)' <=> InSlot(h)
                        /\ Waits(h)' <=> Waits(h)
                        /\ Awaits(h)' <=> Awaits(h)
    BY DEF InSlot, Waits, Awaits, Conn
  <1>3. ASSUME NEW h \in Guis
        PROVE  InSlot(h)' \/ Waits(h)' <=> gui'[h].connected /\ ~gui'[h].hup
    <2>1. InSlot(h) \/ Waits(h) <=> gui[h].connected /\ ~gui[h].hup
      BY HeldIsConnected
    <2>2. CASE h = g
      BY <1>1, <1>2, <2>1, <2>2, Zenon
    <2>3. CASE h # g
      BY <1>1, <1>2, <2>1, <2>3
    <2> QED
      BY <2>2, <2>3
  <1>4. PlaceInv'
    BY <1>2, <1>3 DEF PlaceInv, Conn
  <1>5. ASSUME NEW h \in Guis, gui'[h].connected
        PROVE  /\ \A i \in DOMAIN gui'[h].wire : gui'[h].wire[i].n = gui'[h].next + i - 1
               /\ ~gui'[h].hup =>
                     gui'[h].next + Len(gui'[h].wire) =
                         IF Awaits(h)' THEN sent' ELSE sent' + 1
    <2>1. CASE h = g
      <3>1. p.connected /\ gui'[h] = p
        BY <1>1, <1>5, <2>1
      <3>2. ASSUME ~p.hup
            PROVE  p.next + Len(p.wire) = IF Awaits(g)' THEN sent' ELSE sent' + 1
        <4>1. gui[g].connected /\ ~gui[g].hup
          BY <3>1, <3>2
        <4>2. gui[g].next + Len(gui[g].wire) = IF Awaits(g) THEN sent ELSE sent + 1
          BY <4>1 DEF NoGap
        <4> QED
          BY <1>2, <3>1, <3>2, <4>2
      <3> QED
        BY <2>1, <3>1, <3>2
    <2>2. CASE h # g
      <3>1. gui'[h] = gui[h]
        BY <1>1, <2>2
      <3> QED
        BY <1>2, <1>5, <3>1 DEF NoGap
    <2> QED
      BY <2>1, <2>2
  <1>6. NoGap'
    BY <1>5 DEF NoGap
  <1> QED
    BY <1>1, <1>4, <1>6

(* A GUI is started. *)
LEMMA LaunchStep ==
    ASSUME FeedInv, NEW g \in Guis, Launch(g)
    PROVE  ProcessInv' /\ PlaceInv' /\ NoGap'
  <1> DEFINE p == [NotRunning EXCEPT !.up = TRUE, !.timer = TRUE]
  <1>1. /\ gui' = [gui EXCEPT ![g] = p] /\ ~gui[g].up
        /\ UNCHANGED <<pc, at, line, sent, clients, backlog>>
    BY DEF Launch, daemon
  <1>2. /\ DOMAIN p = DOMAIN NotRunning /\ p.up = TRUE /\ p.timer = TRUE
        /\ p.connected = FALSE /\ p.hup = FALSE /\ p.wire = <<>> /\ p.next = 0
        /\ p.store = EmptyStore
    BY DEF NotRunning
  <1> HIDE DEF p
  <1>3. Len(<<>>) = 0 /\ <<>> \in Seq(Lines) /\ 0 <= Room /\ 0 \in 0..(MaxLines + 1)
    BY FeedAssumption
  <1>4. GuiInv(p)
    BY <1>2, <1>3, EmptyStoreInv, Zenon DEF GuiInv
  <1>5. ~gui[g].connected
    BY <1>1, Zenon DEF FeedInv, ProcessInv, GuiInv
  <1> QED
    BY <1>1, <1>2, <1>4, <1>5, SamePlaces

(* A GUI reads a line. *)
LEMMA ReadLineStep ==
    ASSUME FeedInv, NEW g \in Guis, ReadLine(g)
    PROVE  ProcessInv' /\ PlaceInv' /\ NoGap'
  <1> DEFINE w == gui[g].wire
             l == Head(w)
             st == IF l.kind \in EventKinds THEN Add(gui[g].store, l) ELSE gui[g].store
             p == [gui[g] EXCEPT !.wire = Tail(w), !.next = l.n + 1, !.store = st]
  <1>0. GuiInv(gui[g]) /\ DOMAIN gui = Guis
    BY DEF FeedInv, ProcessInv
  <1>1. /\ gui' = [gui EXCEPT ![g] = p] /\ gui[g].connected /\ w # <<>>
        /\ UNCHANGED <<pc, at, line, sent, clients, backlog>>
    BY DEF ReadLine, daemon
  <1>2. /\ DOMAIN p = DOMAIN NotRunning
        /\ p.up = gui[g].up /\ p.timer = gui[g].timer
        /\ p.connected = gui[g].connected /\ p.hup = gui[g].hup
        /\ p.wire = Tail(w) /\ p.next = l.n + 1 /\ p.store = st
    BY <1>0, GuiFields DEF GuiInv
  <1>3. w \in Seq(Lines) /\ Len(w) <= Room
    BY <1>0 DEF GuiInv
  <1> HIDE DEF p, w
  <1>4. /\ l \in Lines /\ Tail(w) \in Seq(Lines) /\ Len(Tail(w)) = Len(w) - 1
        /\ Len(w) \in Nat \ {0} /\ l = w[1] /\ DOMAIN w = 1 .. Len(w)
        /\ DOMAIN Tail(w) = 1 .. (Len(w) - 1)
        /\ \A i \in 1 .. (Len(w) - 1) : Tail(w)[i] = w[i + 1]
    <2>1. /\ l \in Lines /\ Tail(w) \in Seq(Lines) /\ Len(Tail(w)) = Len(w) - 1
          /\ \A i \in 1 .. Len(Tail(w)) : Tail(w)[i] = w[i + 1]
      BY <1>1, <1>3, HeadTailProperties
    <2>2. Len(w) \in Nat \ {0} /\ DOMAIN w = 1 .. Len(w) /\ DOMAIN Tail(w) = 1 .. Len(Tail(w))
      BY <1>1, <1>3, <2>1, LenProperties, EmptySeq
    <2>3. l = w[1]
      BY <1>3, <2>2
    <2> QED
      BY <2>1, <2>2, <2>3
  <1>5. \A i \in 1 .. Len(w) : w[i].n = gui[g].next + i - 1
    BY <1>1, <1>4 DEF FeedInv, NoGap, w
  <1>6. l.n = gui[g].next /\ l.n \in 1..MaxLines
    <2>1. gui[g].next \in Int
      BY <1>0, FeedAssumption DEF GuiInv
    <2>2. l.n \in 1..MaxLines
      BY <1>4 DEF Lines
    <2> QED
      BY <1>4, <1>5, <2>1, <2>2
  <1>7. StoreInv(st)
    BY <1>0, <1>4, AddInv DEF GuiInv
  <1> HIDE DEF l, st
  <1>8. Len(Tail(w)) <= Room /\ l.n + 1 \in 0..(MaxLines + 1)
    BY <1>3, <1>4, <1>6, FeedAssumption
  <1>9. GuiInv(p)
    BY <1>0, <1>1, <1>2, <1>4, <1>7, <1>8, Zenon DEF GuiInv
  <1>10. \A i \in DOMAIN p.wire : p.wire[i].n = p.next + i - 1
    <2> SUFFICES ASSUME NEW i \in 1 .. (Len(w) - 1) PROVE Tail(w)[i].n = l.n + 1 + i - 1
      BY <1>2, <1>4
    <2>1. i + 1 \in 1 .. Len(w)
      BY <1>4
    <2>2. w[i + 1].n = gui[g].next + (i + 1) - 1
      BY <1>5, <2>1
    <2> QED
      BY <1>4, <1>6, <2>2
  <1>11. p.next + Len(p.wire) = gui[g].next + Len(gui[g].wire)
    <2>1. p.next + Len(p.wire) = gui[g].next + Len(w)
      BY <1>2, <1>4, <1>6
    <2> QED
      BY <2>1 DEF w
  <1>12. p.connected /\ ~p.hup <=> gui[g].connected /\ ~gui[g].hup
    BY <1>2, Zenon
  <1> QED
    BY <1>1, <1>9, <1>10, <1>11, <1>12, SamePlaces

(* A GUI sees the end of the stream. *)
LEMMA DisconnectedStep ==
    ASSUME FeedInv, NEW g \in Guis, Disconnected(g)
    PROVE  ProcessInv' /\ PlaceInv' /\ NoGap'
  <1> DEFINE p == [gui[g] EXCEPT !.connected = FALSE, !.hup = FALSE, !.timer = TRUE]
  <1>0. GuiInv(gui[g]) /\ DOMAIN gui = Guis
    BY DEF FeedInv, ProcessInv
  <1>1. /\ gui' = [gui EXCEPT ![g] = p]
        /\ gui[g].connected /\ gui[g].hup /\ gui[g].wire = <<>>
        /\ UNCHANGED <<pc, at, line, sent, clients, backlog>>
    BY DEF Disconnected, daemon
  <1>2. /\ DOMAIN p = DOMAIN NotRunning
        /\ p.up = gui[g].up /\ p.timer = TRUE /\ p.connected = FALSE /\ p.hup = FALSE
        /\ p.wire = gui[g].wire /\ p.next = gui[g].next /\ p.store = gui[g].store
    BY <1>0, GuiFields DEF GuiInv
  <1> HIDE DEF p
  <1>3. GuiInv(p)
    BY <1>0, <1>1, <1>2, Zenon DEF GuiInv
  <1>4. ~p.connected /\ gui[g].hup
    BY <1>1, <1>2, Zenon
  <1> QED
    BY <1>1, <1>3, <1>4, SamePlaces

(* An attempt to connect fails. *)
LEMMA ConnectFailsStep ==
    ASSUME FeedInv, NEW g \in Guis, ConnectFails(g)
    PROVE  ProcessInv' /\ PlaceInv' /\ NoGap'
  <1> DEFINE p == [gui[g] EXCEPT !.timer = FALSE]
  <1>0. GuiInv(gui[g]) /\ DOMAIN gui = Guis
    BY DEF FeedInv, ProcessInv
  <1>1. /\ gui' = [gui EXCEPT ![g] = p] /\ ~gui[g].connected
        /\ UNCHANGED <<pc, at, line, sent, clients, backlog>>
    BY DEF ConnectFails, daemon
  <1>2. /\ DOMAIN p = DOMAIN NotRunning
        /\ p.up = gui[g].up /\ p.timer = FALSE
        /\ p.connected = gui[g].connected /\ p.hup = gui[g].hup
        /\ p.wire = gui[g].wire /\ p.next = gui[g].next /\ p.store = gui[g].store
    BY <1>0, GuiFields DEF GuiInv
  <1> HIDE DEF p
  <1>3. GuiInv(p)
    BY <1>0, <1>2, Zenon DEF GuiInv
  <1>4. ~p.connected /\ ~gui[g].connected
    BY <1>1, <1>2, Zenon
  <1> QED
    BY <1>1, <1>3, <1>4, SamePlaces

(* A GUI connects: it will get every line from the one under way on, or    *)
(* from the next one if the daemon is past accepting.                      *)
LEMMA ConnectStep ==
    ASSUME FeedInv, NEW g \in Guis, Connect(g)
    PROVE  ProcessInv' /\ PlaceInv' /\ NoGap'
  <1> USE DEF FeedInv
  <1> DEFINE first == FirstLine
             p == [gui[g] EXCEPT !.timer = FALSE, !.connected = TRUE, !.next = first]
  <1>0. GuiInv(gui[g]) /\ DOMAIN gui = Guis
    BY DEF ProcessInv
  <1>1. /\ gui' = [gui EXCEPT ![g] = p]
        /\ gui[g].timer /\ ~gui[g].connected
        /\ backlog' = Append(backlog, Conn(g))
        /\ UNCHANGED <<pc, at, line, sent, clients>>
    BY DEF Connect, daemon, Conn
  <1>2. first \in 0..(MaxLines + 1) /\ sent \in Nat
    BY FeedAssumption DEF FirstLine, ThreadInv
  <1> HIDE DEF first
  <1>3. /\ DOMAIN p = DOMAIN NotRunning
        /\ p.up = gui[g].up /\ p.timer = FALSE /\ p.connected = TRUE
        /\ p.hup = gui[g].hup
        /\ p.wire = gui[g].wire /\ p.next = first /\ p.store = gui[g].store
    BY <1>0, GuiFields DEF GuiInv
  <1> HIDE DEF p
  <1>4. ~gui[g].hup /\ gui[g].wire = <<>> /\ gui[g].up
    BY <1>0, <1>1, Zenon DEF GuiInv
  <1>5. GuiInv(p)
    BY <1>0, <1>2, <1>3, <1>4, Zenon DEF GuiInv
  <1>6. /\ ProcessInv' /\ gui'[g] = p
        /\ \A h \in Guis : h # g => gui'[h] = gui[h]
    BY <1>1, <1>5, OneGui
  <1> DEFINE n == Len(backlog)
  <1>7. /\ backlog' \in Seq(Connections) /\ n \in Nat
        /\ DOMAIN backlog = 1 .. n /\ DOMAIN backlog' = 1 .. (n + 1)
        /\ \A i \in 1 .. n : backlog'[i] = backlog[i]
        /\ backlog'[n + 1] = Conn(g)
    <2>1. Conn(g) \in Connections /\ backlog \in Seq(Connections)
      BY HeldIsConnected DEF PlaceInv
    <2> QED
      BY <1>1, <2>1, AppendProperties, LenProperties
  <1>8. \A h \in Guis : InSlot(h)' <=> InSlot(h)
    BY <1>1 DEF InSlot, Conn
  <1>9. ~InSlot(g) /\ ~Waits(g)
    BY <1>1, HeldIsConnected
  <1>10. \A h \in Guis : Waits(h)' <=> \E i \in 1 .. (n + 1) : backlog'[i] = Conn(h)
    BY <1>7 DEF Waits, Conn
  <1>11. \A i \in 1 .. (n + 1) : i \in 1 .. n \/ i = n + 1
    BY <1>7
  <1>a. n + 1 \in 1 .. (n + 1) /\ \A i \in 1 .. n : i \in 1 .. (n + 1)
    BY <1>7
  <1>12. ASSUME NEW h \in Guis
         PROVE  /\ \A i, j \in DOMAIN backlog' :
                       backlog'[i] = Conn(h) /\ backlog'[j] = Conn(h) => i = j
                /\ ~(InSlot(h)' /\ Waits(h)')
                /\ InSlot(h)' \/ Waits(h)' <=> gui'[h].connected /\ ~gui'[h].hup
    <2>1. CASE h = g
      <3>1. \A i \in 1 .. n : backlog'[i] # Conn(h)
        BY <1>7, <1>9, <2>1 DEF Waits
      <3>2. Waits(h)' /\ ~InSlot(h)'
        BY <1>7, <1>8, <1>9, <1>10, <1>a, <2>1
      <3>3. gui'[h].connected /\ ~gui'[h].hup
        BY <1>3, <1>4, <1>6, <2>1, Zenon
      <3> QED
        BY <1>7, <1>11, <3>1, <3>2, <3>3
    <2>2. CASE h # g
      <3>1. backlog'[n + 1] # Conn(h)
        BY <1>7, <2>2, ConnInjective
      <3>2. \A i, j \in DOMAIN backlog' :
                backlog'[i] = Conn(h) /\ backlog'[j] = Conn(h) => i = j
        BY <1>7, <1>11, <3>1, HeldIsConnected DEF OnePlace
      <3>3. Waits(h)' <=> Waits(h)
        BY <1>7, <1>10, <1>11, <1>a, <3>1 DEF Waits
      <3>4. gui'[h] = gui[h]
        BY <1>6, <2>2
      <3>5. ~(InSlot(h)' /\ Waits(h)')
        BY <1>8, <3>3, HeldIsConnected DEF OnePlace
      <3>6. InSlot(h)' \/ Waits(h)' <=> gui'[h].connected /\ ~gui'[h].hup
        BY <1>8, <3>3, <3>4, HeldIsConnected
      <3> QED
        BY <3>2, <3>5, <3>6
    <2> QED
      BY <2>1, <2>2
  <1>13. PlaceInv'
    BY <1>1, <1>7, <1>12 DEF PlaceInv, Conn
  <1>14. \A h \in Guis : Awaits(h)' <=> Awaits(h)
    BY <1>1 DEF Awaits
  <1>15. ASSUME NEW h \in Guis, gui'[h].connected
         PROVE  /\ \A i \in DOMAIN gui'[h].wire : gui'[h].wire[i].n = gui'[h].next + i - 1
                /\ ~gui'[h].hup =>
                      gui'[h].next + Len(gui'[h].wire) =
                          IF Awaits(h)' THEN sent' ELSE sent' + 1
    <2>1. CASE h = g
      <3>1. gui'[h].wire = <<>> /\ gui'[h].next = first
        BY <1>3, <1>4, <1>6, <2>1
      <3>2. first = IF Awaits(g) THEN sent ELSE sent + 1
        <4>1. \A s \in at..MaxClients : clients[s] # Conn(g)
          <5>1. \A s \in at..MaxClients : s \in Slots
            BY FeedAssumption DEF ThreadInv, Slots
          <5> QED
            BY <1>9, <5>1 DEF InSlot
        <4>2. Awaits(g) <=> pc = "accept" /\ line # None
          BY <4>1 DEF Awaits, Conn
        <4> QED
          BY <4>2 DEF first, FirstLine
      <3>3. Len(<<>>) = 0 /\ DOMAIN <<>> = {}
        OBVIOUS
      <3>4. (IF Awaits(g) THEN sent ELSE sent + 1) + 0 = IF Awaits(g) THEN sent ELSE sent + 1
        BY <1>2
      <3>5. first + 0 = IF Awaits(h)' THEN sent' ELSE sent' + 1
        BY <1>1, <1>14, <2>1, <3>2, <3>4
      <3> QED
        BY <3>1, <3>3, <3>5
    <2>2. CASE h # g
      <3>1. gui'[h] = gui[h]
        BY <1>6, <2>2
      <3> QED
        BY <1>1, <1>14, <1>15, <3>1 DEF NoGap
    <2> QED
      BY <2>1, <2>2
  <1>16. NoGap'
    BY <1>15 DEF NoGap
  <1> QED
    BY <1>6, <1>13, <1>16

(* A GUI leaves without a word. *)
LEMMA QuitStep ==
    ASSUME FeedInv, NEW g \in Guis, Quit(g)
    PROVE  ProcessInv' /\ PlaceInv' /\ NoGap'
  <1> USE DEF FeedInv
  <1>1. /\ gui' = [gui EXCEPT ![g] = NotRunning]
        /\ clients' = [s \in Slots |-> LeftBy(g, clients[s])]
        /\ backlog' = [i \in DOMAIN backlog |-> LeftBy(g, backlog[i])]
        /\ UNCHANGED <<pc, at, line, sent>>
    BY DEF Quit, daemon
  <1>2. /\ ProcessInv' /\ gui'[g] = NotRunning
        /\ \A h \in Guis : h # g => gui'[h] = gui[h]
    BY <1>1, NotRunningInv, OneGui
  <1>3. NotRunning.connected = FALSE
    BY DEF NotRunning
  <1> DEFINE n == Len(backlog)
  <1>4. n \in Nat /\ DOMAIN backlog = 1 .. n /\ \A i \in 1 .. n : backlog[i] \in Connections
    BY LenProperties, ElementOfSeq DEF PlaceInv
  <1>5. clients' \in [Slots -> Connections \cup {None}]
    BY <1>1, LeftConn DEF PlaceInv
  <1>6. backlog' \in Seq(Connections) /\ DOMAIN backlog' = 1 .. n
    <2>1. \A i \in 1 .. n : LeftBy(g, backlog[i]) \in Connections
      BY <1>4, LeftConn, NoneAssumption
    <2>2. backlog' \in [1 .. n -> Connections]
      BY <1>1, <1>4, <2>1
    <2> QED
      BY <1>4, <2>2, SeqDef
  <1>7. ASSUME NEW h \in Guis
        PROVE  /\ \A s \in Slots : clients'[s] = Conn(h) <=> (h # g /\ clients[s] = Conn(h))
               /\ \A i \in 1 .. n : backlog'[i] = Conn(h) <=> (h # g /\ backlog[i] = Conn(h))
    BY <1>1, <1>4, LeftConn DEF PlaceInv
  <1>8. ASSUME NEW h \in Guis
        PROVE  /\ InSlot(h)' <=> (h # g /\ InSlot(h))
               /\ Waits(h)' <=> (h # g /\ Waits(h))
    <2>1. InSlot(h)' <=> \E s \in Slots : clients'[s] = Conn(h)
      BY DEF InSlot, Conn
    <2>2. Waits(h)' <=> \E i \in 1 .. n : backlog'[i] = Conn(h)
      BY <1>6 DEF Waits, Conn
    <2> QED
      BY <1>4, <1>7, <2>1, <2>2 DEF InSlot, Waits
  <1>9. ASSUME NEW h \in Guis
        PROVE  InSlot(h)' \/ Waits(h)' <=> gui'[h].connected /\ ~gui'[h].hup
    <2>1. CASE h = g
      <3>1. ~gui'[h].connected
        BY <1>2, <1>3, <2>1, Zenon
      <3> QED
        BY <1>8, <2>1, <3>1
    <2>2. CASE h # g
      BY <1>2, <1>8, <2>2, HeldIsConnected
    <2> QED
      BY <2>1, <2>2
  <1>10. PlaceInv'
    <2>1. ASSUME NEW h \in Guis
          PROVE  /\ \A s, t \in Slots : clients'[s] = Conn(h) /\ clients'[t] = Conn(h) => s = t
                 /\ \A i, j \in DOMAIN backlog' :
                       backlog'[i] = Conn(h) /\ backlog'[j] = Conn(h) => i = j
                 /\ ~(InSlot(h)' /\ Waits(h)')
      BY <1>4, <1>6, <1>7, <1>8, HeldIsConnected DEF OnePlace
    <2> QED
      BY <1>5, <1>6, <1>9, <2>1 DEF PlaceInv, Conn
  <1>11. NoGap'
    <2> SUFFICES ASSUME NEW h \in Guis, gui'[h].connected
                 PROVE  /\ \A i \in DOMAIN gui'[h].wire : gui'[h].wire[i].n = gui'[h].next + i - 1
                        /\ ~gui'[h].hup =>
                              gui'[h].next + Len(gui'[h].wire) =
                                  IF Awaits(h)' THEN sent' ELSE sent' + 1
      BY DEF NoGap
    <2>1. h # g
      BY <1>2, <1>3, Zenon
    <2>2. gui'[h] = gui[h]
      BY <1>2, <2>1
    <2>3. \A s \in at..MaxClients : s \in Slots
      BY FeedAssumption DEF ThreadInv, Slots
    <2>4. Awaits(h)' <=> Awaits(h)
      BY <1>1, <1>7, <2>1, <2>3 DEF Awaits, Conn
    <2> QED
      BY <1>1, <2>2, <2>4 DEF NoGap
  <1> QED
    BY <1>2, <1>10, <1>11

(* The invariant holds at first. *)
LEMMA InitFeed == FeedInit => FeedInv
  <1> SUFFICES ASSUME FeedInit PROVE FeedInv
    OBVIOUS
  <1>1. \A g \in Guis : gui[g] = NotRunning
    BY DEF FeedInit
  <1>2. ProcessInv
    BY <1>1, NotRunningInv DEF FeedInit, ProcessInv
  <1>3. ThreadInv
    BY FeedAssumption DEF FeedInit, ThreadInv, Slots
  <1>4. \A g \in Guis : ~gui[g].connected
    <2>1. NotRunning.connected = FALSE
      BY DEF NotRunning
    <2> QED
      BY <1>1, <2>1, Zenon
  <1>5. PlaceInv
    <2>1. \A g \in Guis : Conn(g) # None
      <3>1. \A g \in Guis : Conn(g) \in Connections
        BY DEF Conn, Connections
      <3> QED
        BY <3>1, NoneAssumption
    <2>2. \A s \in Slots : clients[s] = None
      BY DEF FeedInit
    <2>3. DOMAIN backlog = {} /\ backlog \in Seq(Connections)
      BY DEF FeedInit
    <2>4. clients \in [Slots -> Connections \cup {None}]
      BY DEF FeedInit
    <2>5. \A g \in Guis : ~InSlot(g) /\ ~Waits(g)
      BY <2>1, <2>2, <2>3 DEF InSlot, Waits
    <2> QED
      BY <1>4, <2>1, <2>2, <2>3, <2>4, <2>5 DEF PlaceInv
  <1>6. NoGap
    BY <1>4 DEF NoGap
  <1> QED
    BY <1>2, <1>3, <1>5, <1>6 DEF FeedInv

(* And after every step. *)
LEMMA FeedInvInductive ==
    ASSUME FeedInv, [FeedNext]_feedVars
    PROVE  FeedInv'
  <1>1. CASE FeedNext
    <2>1. ThreadInv'
      BY <1>1, ThreadStep DEF FeedInv
    <2>2. ProcessInv' /\ PlaceInv' /\ NoGap'
      BY <1>1, ThreadMoves, AcceptStep, WriteLineStep, WriteFailsStep, CloseAllStep,
         LaunchStep, ConnectStep, ReadLineStep, DisconnectedStep, ConnectFailsStep,
         QuitStep DEF FeedNext, DaemonThread, EventLoop
    <2> QED
      BY <2>1, <2>2 DEF FeedInv
  <1>2. CASE UNCHANGED feedVars
    BY <1>2 DEF feedVars, daemon, FeedInv, ProcessInv, ThreadInv, PlaceInv, NoGap,
       InSlot, Waits, Awaits
  <1> QED
    BY <1>1, <1>2

-----------------------------------------------------------------------------
(* Theorems. *)

(* THEOREM: the invariant of the feed holds in every state. *)
THEOREM FeedCorrect == FeedSpec => []FeedInv
  <1>1. FeedInv /\ [FeedNext]_feedVars => FeedInv'
    BY FeedInvInductive
  <1> QED
    BY <1>1, InitFeed, PTL DEF FeedSpec

(* THEOREM: types and limits: no socket holds more than its room, no store *)
(* more than its window (EventStore.max_events).                           *)
THEOREM FeedTypeCorrect == FeedSpec => []FeedTypeOK
  <1>1. FeedInv => FeedTypeOK
    BY DEF FeedInv, FeedTypeOK, ProcessInv, GuiInv, StoreInv, ThreadInv, PlaceInv
  <1> QED
    BY <1>1, FeedCorrect, PTL

(* THEOREM: within a connection no line is lost, repeated or reordered     *)
(* between publish_line and _on_ready_read.                                *)
THEOREM NoGapAlways == FeedSpec => []NoGap
  <1>1. FeedInv => NoGap
    BY DEF FeedInv
  <1> QED
    BY <1>1, FeedCorrect, PTL

(* THEOREM: accept_clients, close_client and the GUI's socket agree on who *)
(* is connected.                                                           *)
THEOREM NobodyForgottenAlways == FeedSpec => []NobodyForgotten
  <1>1. FeedInv => NobodyForgotten
    <2> SUFFICES ASSUME FeedInv, NEW g \in Guis
                 PROVE  Held(g) = IF gui[g].connected /\ ~gui[g].hup THEN 1 ELSE 0
      BY DEF NobodyForgotten
    <2> DEFINE A == {s \in Slots : clients[s] = Conn(g)}
               B == {i \in DOMAIN backlog : backlog[i] = Conn(g)}
    <2>1. Held(g) = Cardinality(A) + Cardinality(B)
      BY DEF Held, Conn
    <2>2. OnePlace(g) /\ (InSlot(g) \/ Waits(g) <=> gui[g].connected /\ ~gui[g].hup)
      BY HeldIsConnected DEF FeedInv
    <2>3. InSlot(g) => Cardinality(A) = 1
      <3> SUFFICES ASSUME InSlot(g) PROVE Cardinality(A) = 1
        OBVIOUS
      <3>1. PICK s \in Slots : clients[s] = Conn(g)
        BY DEF InSlot
      <3>2. A = {s}
        BY <2>2, <3>1 DEF OnePlace
      <3> QED
        BY <3>2, FS_Singleton
    <2>4. Waits(g) => Cardinality(B) = 1
      <3> SUFFICES ASSUME Waits(g) PROVE Cardinality(B) = 1
        OBVIOUS
      <3>1. PICK i \in DOMAIN backlog : backlog[i] = Conn(g)
        BY DEF Waits
      <3>2. B = {i}
        BY <2>2, <3>1 DEF OnePlace
      <3> QED
        BY <3>2, FS_Singleton
    <2>5. ~InSlot(g) => Cardinality(A) = 0
      <3>1. ~InSlot(g) => A = {}
        BY DEF InSlot
      <3> QED
        BY <3>1, FS_EmptySet
    <2>6. ~Waits(g) => Cardinality(B) = 0
      <3>1. ~Waits(g) => B = {}
        BY DEF Waits
      <3> QED
        BY <3>1, FS_EmptySet
    <2> HIDE DEF A, B
    <2>7. CASE InSlot(g) \/ Waits(g)
      BY <2>1, <2>2, <2>3, <2>4, <2>5, <2>6, <2>7 DEF OnePlace
    <2>8. CASE ~(InSlot(g) \/ Waits(g))
      BY <2>1, <2>2, <2>5, <2>6, <2>8
    <2> QED
      BY <2>7, <2>8
  <1> QED
    BY <1>1, FeedCorrect, PTL

(* THEOREM: the dashboard's counters, kept by increments as events come    *)
(* and fall out of the window (add_payload), are the counts of the window. *)
THEOREM DashboardAgreesAlways == FeedSpec => []DashboardAgrees
  <1>1. FeedInv => DashboardAgrees
    BY DEF FeedInv, ProcessInv, GuiInv, StoreInv, DashboardAgrees
  <1> QED
    BY <1>1, FeedCorrect, PTL
=============================================================================
