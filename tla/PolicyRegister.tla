---------------------------- MODULE PolicyRegister ----------------------------
(***************************************************************************)
(* What mcp_policy_load_dir promises its callers and the hooks: an atomic  *)
(* register of policies.  A load replaces the whole contents, once, under  *)
(* a new stamp, and reports success; or it changes nothing and reports     *)
(* failure.  Generations, staging, snapshots and rollback do not appear.   *)
(***************************************************************************)
CONSTANTS
    Requests,        \* the policies that may be asked for
    NoRequest,
    Contents(_),     \* what a policy puts into the register
    InitialContents,
    Stamps, ZeroStamp

VARIABLES
    phase,           \* "idle", "loading" or "committed"
    request,         \* the policy asked for
    installed,       \* the contents of the register
    stamp,           \* distinguishes successive contents
    outcome,         \* of the last load
    sound            \* no error has been discarded

regVars == <<phase, request, installed, stamp, outcome, sound>>

RegInit ==
    /\ phase = "idle"
    /\ request = NoRequest
    /\ installed = InitialContents
    /\ stamp = ZeroStamp
    /\ outcome = "none"
    /\ sound = TRUE

Ask ==
    /\ phase = "idle" /\ phase' = "loading"
    /\ request' \in Requests
    /\ outcome' = "none"
    /\ UNCHANGED <<installed, stamp>>

(* A policy directory that cannot be parsed. *)
Refuse ==
    /\ phase = "idle"
    /\ outcome' = "failed"
    /\ UNCHANGED <<phase, request, installed, stamp>>

Commit ==
    /\ phase = "loading" /\ phase' = "committed"
    /\ installed' = Contents(request)
    /\ stamp' \in Stamps \ {ZeroStamp, stamp}
    /\ UNCHANGED <<request, outcome>>

Succeed ==
    /\ phase = "committed" /\ phase' = "idle"
    /\ request' = NoRequest
    /\ outcome' = "ok"
    /\ UNCHANGED <<installed, stamp>>

Fail ==
    /\ phase = "loading" /\ phase' = "idle"
    /\ request' = NoRequest
    /\ outcome' = "failed"
    /\ UNCHANGED <<installed, stamp>>

(* An implementation that discards an error promises nothing any more. *)
Discard == ~sound'

RegNext ==
    \/ sound' = sound /\ (Ask \/ Refuse \/ Commit \/ Succeed \/ Fail)
    \/ Discard

RegSpec == RegInit /\ [][RegNext]_regVars
=============================================================================
