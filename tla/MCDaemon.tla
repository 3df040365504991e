------------------------------- MODULE MCDaemon -------------------------------
(* Small policy files for TLC. *)
EXTENDS Daemon, SmallPolicies

Plain == [default |-> Allow, enforce |-> TRUE, flags |-> DefaultFlags]
ScopedTo(ids) == [scoped |-> TRUE, owner |-> o1, scope |-> <<ids, {}, {}>>]
NoPaths == [rules |-> Slice(NoRules), inodes |-> Slice(NoRules)]
Deny1 == Slice([k \in {k1} |-> Rule(Deny, {Exec})])
Deny2 == Slice([k \in {k1, k2} |-> Rule(Deny, {Exec})])

(* A profile or a broken one; no, one, or too many command rules. *)
MCTexts == <<{Plain}, {ScopedTo({i1}), Malformed}, {NoPaths},
             {Slice(NoRules), Deny1, Deny2}, {Slice(NoRules)}>>

MCPolicies == {Assemble(<<Plain, ScopedTo({i1}), NoPaths, commands, Slice(NoRules)>>) :
                   commands \in {Slice(NoRules), Deny1}}
=============================================================================
