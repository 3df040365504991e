---------------------------- MODULE SmallPolicies ----------------------------
(* Constructors for the small policies that TLC checks. *)
EXTENDS GuardMaps

CONSTANTS k1, k2, i1, i2, o1, o2

Rule(action, hooks) == [action |-> action, hooks |-> hooks]
FileHooks == {FileOpen, Read, Write}

NoRules == [k \in {} |-> None]
NoIds == <<{}, {}, {}>>
DefaultFlags == {SkipDirRead, CacheFileFollowups}

Slice(entries) == [k \in Keys |-> IF k \in DOMAIN entries THEN entries[k] ELSE None]

Policy(default, flags, scoped, owner, slices, ids) ==
    [settings |-> [default  |-> default, enforce |-> TRUE, flags |-> flags,
                   hasRules |-> \E kind \in Kinds : slices[kind] # NoRules,
                   scoped   |-> scoped, owner |-> owner],
     index |-> [kind \in Kinds |-> Slice(slices[kind])],
     scope |-> ids]

(* The same policy without enforcement. *)
Advisory(p) == [p EXCEPT !.settings.enforce = FALSE]

Only(kind, entries) == [k \in Kinds |-> IF k = kind THEN entries ELSE NoRules]
=============================================================================
