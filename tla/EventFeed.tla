------------------------------ MODULE EventFeed ------------------------------
(***************************************************************************)
(* The daemon broadcasts lines to its clients (loader/unix_socket_server.c *)
(* as main.c calls it), and GUIs connect, read, reconnect and quit         *)
(* (gui/mcp_guard_gui/socket_client.py).  A line is written whole or not   *)
(* at all: it is far shorter than the buffer of a Unix stream socket.      *)
(***************************************************************************)
EXTENDS EventStore

CONSTANTS
    Guis,
    MaxClients,     \* MCP_GUARD_MAX_CLIENTS
    Room,           \* unread lines that a socket holds
    MaxLines,       \* bound: lines published
    MaxLaunches,    \* bound: GUI processes started
    None

ASSUME FeedAssumption ==
    /\ MaxClients \in Nat \ {0} /\ Room \in Nat \ {0}
    /\ MaxLines \in Nat /\ MaxLaunches \in Nat

VARIABLES
    pc,         \* where the daemon's thread is
    at,         \* the slot that publish_line writes to next
    line,       \* the line it publishes, None while it only accepts
    sent,       \* history: how many lines were published
    clients,    \* slot -> connection
    backlog,    \* connections not yet accepted
    launches,
    gui         \* GUI -> state of its process and of its socket

daemon == <<pc, at, line, sent>>
feedVars == <<daemon, clients, backlog, launches, gui>>

(* What a line holds: an event, or something that reaches no store, which  *)
(* is a report of a reload or of metrics, or an event whose path makes it  *)
(* invalid JSON, as nothing is escaped.                                    *)
LineKinds == EventKinds \cup {"other"}
Lines == [n : 1..MaxLines, kind : LineKinds]

Slots == 1..MaxClients

(* A connection as the daemon holds it; ~open when the GUI closed its end. *)
Connections == [gui : Guis, open : BOOLEAN]

ASSUME NoneAssumption == None \notin Lines /\ None \notin Connections

Listening == pc \notin {"stopped", "killed"}

(* A GUI process that is not running. *)
NotRunning ==
    [up |-> FALSE, connected |-> FALSE, timer |-> FALSE, wire |-> <<>>,
     hup |-> FALSE, next |-> 0, store |-> EmptyStore]

FeedTypeOK ==
    /\ pc \in {"poll", "accept", "write", "stopped", "killed"}
    /\ at \in Slots
    /\ line \in Lines \cup {None}
    /\ sent \in 0..MaxLines
    /\ clients \in [Slots -> Connections \cup {None}]
    /\ backlog \in Seq(Connections)
    /\ launches \in 0..MaxLaunches
    /\ \A g \in Guis :
        /\ gui[g].up \in BOOLEAN /\ gui[g].connected \in BOOLEAN
        /\ gui[g].timer \in BOOLEAN /\ gui[g].hup \in BOOLEAN
        /\ gui[g].wire \in Seq(Lines) /\ Len(gui[g].wire) <= Room
        /\ gui[g].next \in 0..(MaxLines + 1)
        /\ Len(gui[g].store.events) <= Window

(* mcp_unix_socket_server_start: every slot is free. *)
FeedInit ==
    /\ pc = "poll" /\ at = 1 /\ line = None /\ sent = 0
    /\ clients = [s \in Slots |-> None]
    /\ backlog = <<>>
    /\ launches = 0
    /\ gui = [g \in Guis |-> NotRunning]

-----------------------------------------------------------------------------
(* The daemon. *)

(* The GUI behind a connection that the daemon closes sees the end of the  *)
(* stream, if it still listens.                                            *)
HangUp(conns) ==
    gui' = [g \in Guis |->
              IF [gui |-> g, open |-> TRUE] \in conns
                THEN [gui[g] EXCEPT !.hup = TRUE] ELSE gui[g]]

AllConnections == {clients[s] : s \in Slots} \cup ToSet(backlog)

(* The process ends or stops its server: every descriptor is closed. *)
CloseAll ==
    /\ HangUp(AllConnections)
    /\ clients' = [s \in Slots |-> None]
    /\ backlog' = <<>>
    /\ line' = None /\ at' = 1
    /\ UNCHANGED <<sent, launches>>

(* main's loop looks for clients between two polls. *)
PollReturns ==
    /\ pc = "poll"
    /\ pc' = "accept"
    /\ UNCHANGED <<at, line, sent, clients, backlog, launches, gui>>

(* A mistake: a line is written without accepting first. *)
PublishOnly ==
    /\ pc = "poll" /\ sent < MaxLines
    /\ \E kind \in LineKinds : line' = [n |-> sent + 1, kind |-> kind]
    /\ sent' = sent + 1
    /\ pc' = "write" /\ at' = 1
    /\ UNCHANGED <<clients, backlog, launches, gui>>

(* An event, metrics or the result of a reload: publish_line accepts first. *)
Publish ==
    /\ pc = "poll" /\ sent < MaxLines
    /\ \E kind \in LineKinds : line' = [n |-> sent + 1, kind |-> kind]
    /\ sent' = sent + 1
    /\ pc' = "accept"
    /\ UNCHANGED <<at, clients, backlog, launches, gui>>

FreeSlots == {s \in Slots : clients[s] = None}

(* A mistake: a client without a slot is not closed. *)
AcceptForgets ==
    /\ pc = "accept" /\ backlog # <<>>
    /\ backlog' = Tail(backlog)
    /\ IF FreeSlots = {}
         THEN UNCHANGED clients
         ELSE clients' = [clients EXCEPT ![Min(FreeSlots)] = Head(backlog)]
    /\ UNCHANGED <<daemon, launches, gui>>

(* The next connection gets the first free slot, or is closed. *)
Accept ==
    /\ pc = "accept" /\ backlog # <<>>
    /\ backlog' = Tail(backlog)
    /\ IF FreeSlots = {}
         THEN HangUp({Head(backlog)}) /\ UNCHANGED clients
         ELSE /\ clients' = [clients EXCEPT ![Min(FreeSlots)] = Head(backlog)]
              /\ UNCHANGED gui
    /\ UNCHANGED <<daemon, launches>>

(* accept says EAGAIN: the caller goes on. *)
AcceptDone ==
    /\ pc = "accept" /\ backlog = <<>>
    /\ pc' = IF line = None THEN "poll" ELSE "write"
    /\ at' = 1
    /\ UNCHANGED <<line, sent, clients, backlog, launches, gui>>

NextSlot ==
    /\ IF at < MaxClients
         THEN at' = at + 1 /\ UNCHANGED <<pc, line>>
         ELSE at' = 1 /\ pc' = "poll" /\ line' = None
    /\ UNCHANGED <<sent, backlog, launches>>

(* The slot is free, or its client has room for the line. *)
WriteLine ==
    /\ pc = "write"
    /\ \/ clients[at] = None /\ UNCHANGED gui
       \/ /\ clients[at] # None /\ clients[at].open
          /\ Len(gui[clients[at].gui].wire) < Room
          /\ gui' = [gui EXCEPT ![clients[at].gui].wire = Append(@, line)]
    /\ NextSlot
    /\ UNCHANGED clients

ClientIsFull ==
    /\ clients[at] # None /\ clients[at].open
    /\ Len(gui[clients[at].gui].wire) = Room

(* write says EAGAIN: the client is closed. *)
WriteFails ==
    /\ pc = "write" /\ ClientIsFull
    /\ HangUp({clients[at]})
    /\ clients' = [clients EXCEPT ![at] = None]
    /\ NextSlot

(* write to a client that left raises SIGPIPE, which main leaves at its    *)
(* default action: the daemon ends before close_client.                    *)
WriteKills ==
    /\ pc = "write" /\ clients[at] # None /\ ~clients[at].open
    /\ pc' = "killed"
    /\ CloseAll

(* SIGINT or SIGTERM, and mcp_unix_socket_server_stop. *)
Stop ==
    /\ pc = "poll"
    /\ pc' = "stopped"
    /\ CloseAll

(* Started again, the server binds the same path. *)
Restart ==
    /\ ~Listening
    /\ pc' = "poll"
    /\ UNCHANGED <<at, line, sent, clients, backlog, launches, gui>>

-----------------------------------------------------------------------------
(* The GUIs. *)

(* The main window creates its client and starts it. *)
Launch(g) ==
    /\ ~gui[g].up /\ launches < MaxLaunches
    /\ gui' = [gui EXCEPT ![g] = [NotRunning EXCEPT !.up = TRUE, !.timer = TRUE]]
    /\ launches' = launches + 1
    /\ UNCHANGED <<daemon, clients, backlog>>

(* The first line that a connection made now will carry. *)
FirstLine == IF pc = "accept" /\ line # None THEN sent ELSE sent + 1

(* connect_to_loader and _on_connected. *)
Connect(g) ==
    /\ gui[g].timer /\ ~gui[g].connected /\ Listening
    /\ gui' = [gui EXCEPT ![g].timer = FALSE, ![g].connected = TRUE,
                          ![g].next = FirstLine]
    /\ backlog' = Append(backlog, [gui |-> g, open |-> TRUE])
    /\ UNCHANGED <<daemon, clients, launches>>

(* Without a server the attempt fails.  On Unix QLocalSocket reports that  *)
(* error before it leaves the connecting state, and emits no disconnected  *)
(* afterwards: _on_error finds the socket not unconnected and does not     *)
(* schedule another attempt.                                               *)
ConnectFails(g) ==
    /\ gui[g].timer /\ ~gui[g].connected /\ ~Listening
    /\ gui' = [gui EXCEPT ![g].timer = FALSE]
    /\ UNCHANGED <<daemon, clients, backlog, launches>>

(* _on_ready_read, _emit_line, route_message, _add_event, line by line.    *)
(* Reports do not reach the store, and neither does invalid JSON.          *)
ReadLine(g) ==
    /\ gui[g].connected /\ gui[g].wire # <<>>
    /\ LET l == Head(gui[g].wire)
       IN  gui' = [gui EXCEPT ![g].wire = Tail(@), ![g].next = l.n + 1,
                              ![g].store = IF l.kind \in EventKinds
                                             THEN Add(@, l) ELSE @]
    /\ UNCHANGED <<daemon, clients, backlog, launches>>

(* A mistake: a lost connection is not scheduled to be made again. *)
DisconnectedForGood(g) ==
    /\ gui[g].connected /\ gui[g].hup /\ gui[g].wire = <<>>
    /\ gui' = [gui EXCEPT ![g].connected = FALSE, ![g].hup = FALSE]
    /\ UNCHANGED <<daemon, clients, backlog, launches>>

(* _on_disconnected, once everything is read: _schedule_reconnect. *)
Disconnected(g) ==
    /\ gui[g].connected /\ gui[g].hup /\ gui[g].wire = <<>>
    /\ gui' = [gui EXCEPT ![g].connected = FALSE, ![g].hup = FALSE,
                          ![g].timer = TRUE]
    /\ UNCHANGED <<daemon, clients, backlog, launches>>

LeftBy(g, c) == IF c # None /\ c.gui = g THEN [c EXCEPT !.open = FALSE] ELSE c

(* stop: the timer ends and the socket is aborted; the daemon is not told. *)
Quit(g) ==
    /\ gui[g].up
    /\ gui' = [gui EXCEPT ![g] = NotRunning]
    /\ clients' = [s \in Slots |-> LeftBy(g, clients[s])]
    /\ backlog' = [i \in DOMAIN backlog |-> LeftBy(g, backlog[i])]
    /\ UNCHANGED <<daemon, launches>>

-----------------------------------------------------------------------------
DaemonThread ==
    PollReturns \/ Publish \/ Accept \/ AcceptDone \/ WriteLine \/ WriteFails
    \/ WriteKills

EventLoop(g) == Connect(g) \/ ConnectFails(g) \/ ReadLine(g) \/ Disconnected(g)

FeedNext ==
    \/ DaemonThread \/ Stop \/ Restart
    \/ \E g \in Guis : EventLoop(g) \/ Launch(g) \/ Quit(g)

(* The daemon's thread does not block for ever, and neither does the event *)
(* loop of a GUI; nothing is asked of users and operators.                 *)
FeedSpec ==
    /\ FeedInit /\ [][FeedNext]_feedVars
    /\ WF_feedVars(DaemonThread)
    /\ \A g \in Guis : WF_feedVars(EventLoop(g))

-----------------------------------------------------------------------------
(* Properties. *)

(* The line being published has not reached this GUI yet, but will. *)
Awaits(g) ==
    \/ pc = "accept" /\ line # None
    \/ pc = "write" /\ \E s \in at..MaxClients : clients[s] = [gui |-> g, open |-> TRUE]

(* Within a connection nothing is lost, repeated or reordered: a GUI has   *)
(* read or will read every line published since it connected, even if the  *)
(* daemon had not accepted it yet, up to the one that found its socket     *)
(* full and made the daemon hang up.                                       *)
NoGap ==
    \A g \in Guis : gui[g].connected =>
        /\ \A i \in DOMAIN gui[g].wire : gui[g].wire[i].n = gui[g].next + i - 1
        /\ ~gui[g].hup =>
             gui[g].next + Len(gui[g].wire) = IF Awaits(g) THEN sent ELSE sent + 1

(* How many connections of a GUI the daemon holds open. *)
Held(g) ==
    Cardinality({s \in Slots : clients[s] = [gui |-> g, open |-> TRUE]})
  + Cardinality({i \in DOMAIN backlog : backlog[i] = [gui |-> g, open |-> TRUE]})

(* A GUI that believes it is connected is held once by the daemon or was   *)
(* told to go; no other GUI occupies a slot as if it were still there.     *)
NobodyForgotten ==
    \A g \in Guis :
        Held(g) = IF gui[g].connected /\ ~gui[g].hup THEN 1 ELSE 0

(* What the dashboard shows is the window: the counts are those of the     *)
(* events in it, although they are kept incrementally while it slides.     *)
DashboardAgrees ==
    \A g \in Guis : LET s == gui[g].store IN
        /\ \A k \in EventKinds : s.counts[k] = Occurrences(s.events, k)
        /\ s.events # <<>> => s.risk = Last(s.events)

(* A GUI that a running daemon hung up on, because it lagged or found no   *)
(* free slot, gets a new connection, as long as both go on running.        *)
Reconnects ==
    \A g \in Guis :
        (gui[g].connected /\ gui[g].hup) ~>
            (gui[g].connected /\ ~gui[g].hup) \/ ~gui[g].up \/ ~Listening

(* README.md:464: the guard "auto-launches the PySide6 GUI and connects it *)
(* to /tmp/mcp-guard.sock", and README.md:473 of a GUI started by hand:    *)
(* "the notification listener stays alive by default".  While both run, a  *)
(* GUI without a connection gets one, whichever of the two was started, or *)
(* started again, first (_on_error, _schedule_reconnect).                  *)
RunningGuiConnects ==
    \A g \in Guis :
        (gui[g].up /\ ~gui[g].connected) ~>
            (gui[g].connected \/ ~gui[g].up \/ ~Listening)

(* README.md:474: the action "Quit GUI" is there "to terminate the GUI     *)
(* process", and README.md:769 says that the enforcement engine and the    *)
(* GUI "are designed as separate programs".  Whatever GUIs do, the daemon  *)
(* ends only when it is told to.                                           *)
OutlivesGuis == pc # "killed"

-----------------------------------------------------------------------------
(* The inductive invariant behind NoGap, NobodyForgotten and               *)
(* DashboardAgrees.                                                        *)

Conn(g) == [gui |-> g, open |-> TRUE]

InSlot(g) == \E s \in Slots : clients[s] = Conn(g)
Waits(g) == \E i \in DOMAIN backlog : backlog[i] = Conn(g)

(* A store of the latest events. *)
StoreInv(s) ==
    /\ DOMAIN s = DOMAIN EmptyStore
    /\ s.events \in Seq(Lines) /\ Len(s.events) <= Window
    /\ \A i \in DOMAIN s.events : s.events[i].kind \in EventKinds
    /\ s.counts \in [EventKinds -> Nat]
    /\ \A k \in EventKinds : s.counts[k] = Occurrences(s.events, k)
    /\ s.events # <<>> => s.risk = Last(s.events)

(* The process of a GUI and its end of the connection. *)
GuiInv(p) ==
    /\ DOMAIN p = DOMAIN NotRunning
    /\ p.up \in BOOLEAN /\ p.connected \in BOOLEAN
    /\ p.timer \in BOOLEAN /\ p.hup \in BOOLEAN
    /\ p.wire \in Seq(Lines) /\ Len(p.wire) <= Room
    /\ p.next \in 0..(MaxLines + 1)
    /\ StoreInv(p.store)
    /\ p.timer \/ p.connected => p.up
    /\ ~p.connected => ~p.hup /\ p.wire = <<>>

ProcessInv == DOMAIN gui = Guis /\ \A g \in Guis : GuiInv(gui[g])

(* The daemon's thread: it holds a line exactly while it publishes one. *)
ThreadInv ==
    /\ pc \in {"poll", "accept", "write", "stopped", "killed"}
    /\ at \in Slots
    /\ line \in Lines \cup {None}
    /\ sent \in 0..MaxLines
    /\ launches \in 0..MaxLaunches
    /\ pc \notin {"accept", "write"} => line = None
    /\ pc = "write" => line # None
    /\ line # None => line.n = sent

(* A GUI's open connection is in one place, and it has one exactly when it *)
(* believes that it is connected and was not told to go.                   *)
PlaceInv ==
    /\ clients \in [Slots -> Connections \cup {None}]
    /\ backlog \in Seq(Connections)
    /\ \A g \in Guis :
        /\ \A s, t \in Slots : clients[s] = Conn(g) /\ clients[t] = Conn(g) => s = t
        /\ \A i, j \in DOMAIN backlog :
               backlog[i] = Conn(g) /\ backlog[j] = Conn(g) => i = j
        /\ ~(InSlot(g) /\ Waits(g))
        /\ InSlot(g) \/ Waits(g) <=> gui[g].connected /\ ~gui[g].hup

(* Every GUI's connection is in one place of the daemon's books, and what  *)
(* it has read, what is on its wire and the line under way join up.        *)
FeedInv == ProcessInv /\ ThreadInv /\ PlaceInv /\ NoGap
=============================================================================
