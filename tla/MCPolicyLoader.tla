--------------------------- MODULE MCPolicyLoader ---------------------------
(* Small policies for TLC: together they use every index and scope map. *)
EXTENDS PolicyLoader, SmallPolicies

(* Two command rules, system-wide. *)
Commands == Policy(Allow, DefaultFlags, FALSE, o1,
                   Only(CommandTrie, [k \in {k1, k2} |-> Rule(Deny, {Exec})]), NoIds)

(* A path rule whose inode was found, a network rule, and selectors. *)
Scoped == Policy(Allow, DefaultFlags, TRUE, o2,
                 <<[k \in {k1} |-> Rule(Deny, FileHooks)], NoRules,
                   [k \in {k2} |-> Rule(Audit, {Connect})],
                   [k \in {k1} |-> Rule(Deny, FileHooks)]>>,
                 <<{i1}, {i2}, {}>>)

(* The command rules again with another action, and other selectors. *)
Retuned == Policy(Deny, {}, TRUE, o2,
                  Only(CommandTrie, [k \in {k1, k2} |-> Rule(Audit, {Exec})]),
                  <<{}, {i1}, {i2}>>)

(* A profile that validation refuses. *)
Ownerless == Policy(Allow, {}, FALSE, None, Only(PathTrie, NoRules), NoIds)

MCPolicies == {Commands, Scoped, Retuned, Ownerless}
=============================================================================
