------------------------------ MODULE EventStore ------------------------------
(***************************************************************************)
(* What a GUI keeps of the events it receives (models.py): a window of the *)
(* latest ones, a count per action, and the latest denial or audit.        *)
(***************************************************************************)
EXTENDS Naturals, Sequences, SequencesExt, FiniteSets

CONSTANTS
    EventKinds,     \* the actions of events
    Window          \* max_events of EventStore

ASSUME WindowAssumption == Window \in Nat \ {0}

NoEvent == [n |-> 0, kind |-> "none"]

EmptyStore == [events |-> <<>>, counts |-> [k \in EventKinds |-> 0], risk |-> NoEvent]

(* How many events of a kind there are. *)
Occurrences(events, kind) == Cardinality({i \in DOMAIN events : events[i].kind = kind})

(* A mistake: nothing leaves the window. *)
EvictNothing(store) == store

(* A mistake: what leaves the window is still counted. *)
EvictCounted(store) ==
    IF Len(store.events) <= Window THEN store
    ELSE [store EXCEPT !.events = Tail(@)]

(* One event too many: the oldest leaves the window and the counts. *)
Evict(store) ==
    IF Len(store.events) <= Window THEN store
    ELSE [store EXCEPT !.events = Tail(@),
                       !.counts[Head(store.events).kind] = @ - 1]

(* add_payload.  The hooks emit events for denials and audits only, so     *)
(* every event is of high risk.                                            *)
Add(store, event) ==
    Evict([store EXCEPT !.events = Append(@, event),
                        !.counts[event.kind] = @ + 1, !.risk = event])
=============================================================================
