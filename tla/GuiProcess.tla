------------------------------ MODULE GuiProcess ------------------------------
(***************************************************************************)
(* The GUI that main (loader/main.c) starts as a child process and takes   *)
(* down with itself.  The child may exit at any time, and may not react to *)
(* SIGTERM.  Until main waits for it, a child that has exited keeps its    *)
(* pid; afterwards the kernel may give the pid to any other process.       *)
(***************************************************************************)
EXTENDS Integers

CONSTANT WaitTries    \* polls between SIGTERM and SIGKILL: 20 in the code
ASSUME WaitTriesAssumption == WaitTries \in Nat \ {0}

VARIABLES
    gui,         \* the child
    stubborn,    \* it does not end on SIGTERM
    sent,        \* the signals sent to the pid
    leaving,     \* where main is: "run", then stop_gui_process
    tries        \* turns of the waiting loop

guiVars == <<gui, stubborn, sent, leaving, tries>>

GuiTypeOK ==
    /\ gui \in {"none", "running", "zombie", "reaped"}
    /\ stubborn \in BOOLEAN
    /\ sent \subseteq {"TERM", "KILL"}
    /\ leaving \in {"run", "check", "term", "wait", "kill", "reap", "done"}
    /\ tries \in 0 .. WaitTries

GuiInit ==
    /\ gui = "none"
    /\ stubborn \in BOOLEAN
    /\ sent = {}
    /\ leaving = "run"
    /\ tries = 0

(* launch_gui_if_needed; a GUI that is not wanted or a fork that fails     *)
(* leaves gui as it is.  A child that cannot execute the GUI exits.        *)
LaunchGui ==
    /\ leaving = "run" /\ gui = "none"
    /\ gui' = "running"
    /\ UNCHANGED <<stubborn, sent, leaving, tries>>

GuiExits ==
    /\ gui = "running"
    /\ gui' = "zombie"
    /\ UNCHANGED <<stubborn, sent, leaving, tries>>

(* The effect of a signal. *)
GuiDies ==
    /\ gui = "running"
    /\ "KILL" \in sent \/ ("TERM" \in sent /\ ~stubborn)
    /\ gui' = "zombie"
    /\ UNCHANGED <<stubborn, sent, leaving, tries>>

(* main comes to the label "out". *)
StopGui ==
    /\ leaving = "run"
    /\ leaving' = IF gui = "none" THEN "done" ELSE "check"
    /\ UNCHANGED <<gui, stubborn, sent, tries>>

(* waitpid with WNOHANG. *)
Waits(otherwise) ==
    IF gui = "zombie" THEN gui' = "reaped" /\ leaving' = "done"
                      ELSE UNCHANGED gui /\ leaving' = otherwise

(* A mistake: what the first waitpid says is not looked at. *)
CheckExitedIgnored ==
    /\ leaving = "check"
    /\ gui' = IF gui = "zombie" THEN "reaped" ELSE gui
    /\ leaving' = "term"
    /\ UNCHANGED <<stubborn, sent, tries>>

CheckExited ==
    /\ leaving = "check"
    /\ Waits("term")
    /\ UNCHANGED <<stubborn, sent, tries>>

Terminate ==
    /\ leaving = "term" /\ leaving' = "wait"
    /\ sent' = sent \cup {"TERM"}
    /\ UNCHANGED <<gui, stubborn, tries>>

(* A mistake: after the last try main waits without SIGKILL. *)
AwaitExitNoKill ==
    /\ leaving = "wait"
    /\ tries' = tries + 1
    /\ Waits(IF tries' = WaitTries THEN "reap" ELSE "wait")
    /\ UNCHANGED <<stubborn, sent>>

(* A mistake: the last try is one too many. *)
AwaitExitOnceMore ==
    /\ leaving = "wait"
    /\ tries' = tries + 1
    /\ Waits(IF tries = WaitTries THEN "kill" ELSE "wait")
    /\ UNCHANGED <<stubborn, sent>>

AwaitExit ==
    /\ leaving = "wait"
    /\ tries' = tries + 1
    /\ Waits(IF tries' = WaitTries THEN "kill" ELSE "wait")
    /\ UNCHANGED <<stubborn, sent>>

Kill ==
    /\ leaving = "kill" /\ leaving' = "reap"
    /\ sent' = sent \cup {"KILL"}
    /\ UNCHANGED <<gui, stubborn, tries>>

(* waitpid without WNOHANG blocks until the child has exited. *)
Reap ==
    /\ leaving = "reap" /\ gui = "zombie"
    /\ gui' = "reaped" /\ leaving' = "done"
    /\ UNCHANGED <<stubborn, sent, tries>>

LeaveStep == CheckExited \/ Terminate \/ AwaitExit \/ Kill \/ Reap
GuiNext == LaunchGui \/ GuiExits \/ GuiDies \/ StopGui \/ LeaveStep
GuiSpec == GuiInit /\ [][GuiNext]_guiVars

(* main is scheduled, and the kernel delivers SIGKILL; nothing is assumed  *)
(* of a GUI that has got SIGTERM only.                                     *)
GuiFairness == WF_guiVars(LeaveStep) /\ WF_guiVars(GuiDies /\ "KILL" \in sent)

-----------------------------------------------------------------------------
(* Properties. *)

(* A signal goes to a pid that main has not waited for yet, so never to    *)
(* another process that got the pid (stop_gui_process).                    *)
SignalsHitOwnChild ==
    [][sent' # sent => gui \in {"running", "zombie"}]_guiVars

(* Once main has begun to leave, it gets past the GUI and leaves no        *)
(* zombie, also if the GUI hangs (stop_gui_process).                       *)
GuiIsReaped == (leaving # "run") ~> (leaving = "done" /\ gui \in {"none", "reaped"})
=============================================================================
