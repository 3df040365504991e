------------------------------- MODULE MCGuard -------------------------------
(* Small policies, objects and tasks for TLC. *)
EXTENDS Guard, SmallPolicies

CONSTANTS t1, t2

Object(class, rid, lpm, anyPort, ino) ==
    [class |-> class, rid |-> rid, lpm |-> lpm, anyPort |-> anyPort, ino |-> ino]

(* A file under the prefixes k2 (longer) and k1, whose inode some rule     *)
(* names; a directory under k1; a device node.                             *)
File      == Object("regular", "ino1", <<k2, k1>>, <<>>, k1)
Directory == Object("directory", "ino2", <<k1>>, <<>>, k2)
Device    == Object("special", "ino3", <<k1>>, <<>>, None)
(* Programs under k1 and under no prefix, and one without a name. *)
Shell     == Object("program", "ino4", <<k1>>, <<>>, None)
Editor    == Object("program", "ino5", <<>>, <<>>, None)
Unnamed   == Object("unnamed", "ino6", <<>>, <<>>, None)
(* Peers: one in a CIDR of k1 for its port and k2 for any port, 0.0.0.0:0, *)
(* whose resource id is zero, and one of another family.                   *)
Peer      == Object("inet", "sock1", <<k1>>, <<k2>>, None)
AnyPeer   == Object("inet", None, <<>>, <<k2>>, None)
UnixPeer  == Object("otherFamily", None, <<>>, <<>>, None)

(* Every task presents i1 as comm and i2 as pid and tgid. *)
MCIdOf == [t \in Tasks |-> <<i1, i2, i2>>]

System(default, flags, slices) == Policy(default, flags, FALSE, o1, slices, NoIds)

(* File policies: deny the prefix k1 and its inode; audit it but allow the *)
(* longer prefix k2, without enforcement; allow all; deny all, directories *)
(* too.                                                                    *)
DenyPath  == System(Allow, DefaultFlags,
                    <<[k \in {k1} |-> Rule(Deny, FileHooks)], NoRules, NoRules,
                      [k \in {k1} |-> Rule(Deny, FileHooks)]>>)
Nested    == Advisory(System(Deny, {SkipL2Safe},
                    <<[k \in {k1, k2} |-> Rule(IF k = k1 THEN Audit ELSE Allow, FileHooks)],
                      NoRules, NoRules, NoRules>>))
AllowAll  == System(Allow, {CacheFileFollowups}, Only(PathTrie, NoRules))
Strict    == System(Deny, {CacheFileFollowups}, Only(PathTrie, NoRules))

(* Command and network policies. *)
DenyPeer  == System(Allow, DefaultFlags,
                    <<NoRules, [k \in {k1} |-> Rule(Deny, {Exec})],
                      [k \in {k1, k2} |-> Rule(IF k = k1 THEN Deny ELSE Audit, {Connect})],
                      NoRules>>)
DenyAll   == System(Deny, DefaultFlags, Only(PathTrie, NoRules))
AnyPort   == System(Allow, DefaultFlags,
                    Only(NetworkTrie, [k \in {k2} |-> Rule(Deny, {Connect})]))
DenyExec  == System(Allow, DefaultFlags,
                    Only(CommandTrie, [k \in {k1} |-> Rule(Deny, {Exec})]))

(* Scoped policies for the same agent, one by comm, one by pid. *)
ByComm    == Policy(Allow, DefaultFlags, TRUE, o1,
                    Only(CommandTrie, [k \in {k1} |-> Rule(Deny, {Exec})]),
                    <<{i1}, {}, {}>>)
ByPid     == Policy(Deny, DefaultFlags, TRUE, o1, Only(PathTrie, NoRules),
                    <<{}, {i2}, {}>>)
Others    == Policy(Deny, DefaultFlags, TRUE, o2, Only(PathTrie, NoRules),
                    <<{i2}, {i1}, {}>>)

TwoDefaults    == {DenyAll, AllowAll}
OnePolicy      == {DenyExec}
OneScoped      == {ByComm}
TwoPrograms    == {Shell, Editor}
OneProgram     == {Shell}
=============================================================================
