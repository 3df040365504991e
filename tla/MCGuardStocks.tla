---------------------------- MODULE MCGuardStocks ----------------------------
(* One run of TLC for several small worlds: each behaviour keeps to one of *)
(* them, chosen at the start, with its own policies, objects, CPUs and     *)
(* number of faults.                                                       *)
EXTENDS MCGuard

VARIABLE stock

World(policies, objects) ==
    [policies |-> policies, objects |-> objects, cpus |-> {1}, faulty |-> FALSE]

(* Files, directories and devices under each combination of the flags of   *)
(* L2; peers; programs of tasks that profiles select; a program on two     *)
(* CPUs while one operation of the loads fails.                            *)
Worlds ==
    {World({DenyPath, Nested}, {File}), World({DenyPath, Nested}, {Device}),
     World({DenyPath, Strict}, {Directory}), World({Nested, Strict}, {Directory}),
     World({DenyPeer, DenyAll, AnyPort}, {Peer, AnyPeer, UnixPeer}),
     World({DenyPeer, ByComm, ByPid, Others}, {Shell, Unnamed}),
     [World({DenyExec, AllowAll}, {Shell}) EXCEPT !.cpus = {1, 2}, !.faulty = TRUE]}

AllPolicies == UNION {w.policies : w \in Worlds}
AllObjects  == UNION {w.objects : w \in Worlds}

(* The loads and the runs that begin are those of the world. *)
Keeps ==
    /\ pc = "idle" /\ pc' = "snapshot" => target' \in stock.policies
    /\ faults' > 0 => stock.faulty
    /\ \A t \in Tasks :
           run[t].pc = "done" /\ run'[t].pc = "scope" =>
               run'[t].obj \in stock.objects /\ run'[t].cpu \in stock.cpus

StocksInit == GuardInit /\ stock \in Worlds
StocksNext == GuardNext /\ Keeps /\ UNCHANGED stock
StocksSpec == StocksInit /\ [][StocksNext]_<<guardVars, stock>>
=============================================================================
