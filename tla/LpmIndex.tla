------------------------------- MODULE LpmIndex -------------------------------
(***************************************************************************)
(* How rules become entries of the policy indexes (the write_ functions of *)
(* loader/policy_loader.c) and how the L3 programs find them again (the    *)
(* decide functions of bpf/l3_slow_path.bpf.c).                            *)
(*                                                                         *)
(* A longest-prefix-match trie maps bit strings to values.  Fields that    *)
(* every prefix covers whole (generation, port) and characters stand for   *)
(* their bits; the prefix length is the length of the sequence.            *)
(***************************************************************************)
EXTENDS PolicyText, TLC

CONSTANTS InodeOf(_)    \* stat: the inode number of a path, or 0

(* bpf_map_update_elem with BPF_ANY: the element is added or replaced. *)
MapUpdate(map, key, value) ==
    [k \in DOMAIN map \cup {key} |-> IF k = key THEN value ELSE map[k]]

(* bpf_map_lookup_elem of BPF_MAP_TYPE_LPM_TRIE. *)
TrieLookup(trie, key) ==
    LET hits == {p \in DOMAIN trie : IsPrefix(p, key)}
        best == CHOOSE p \in hits : \A q \in hits : Len(q) <= Len(p)
    IN  IF hits = {} THEN Missing ELSE <<"rule", trie[best]>>

-----------------------------------------------------------------------------
(* The prefix of a rule.  ipv4_prefix_bits counts the ones that lead the   *)
(* mask, and the trie ignores the bits of the key beyond the prefix.       *)

path_prefix(gen, rule) == <<gen>> \o rule.value[2]

network_prefix(gen, rule) ==
    <<gen, rule.port>> \o SubSeq(rule.value[2], 1, rule.value[3])

write_path_trie(trie, rules, gen) ==
    FoldLeft(LAMBDA t, r : MapUpdate(t, path_prefix(gen, r), r), trie, rules)

(* A command is looked up like a path, in a trie of its own. *)
write_command_trie(trie, rules, gen) == write_path_trie(trie, rules, gen)

write_network_trie(trie, rules, gen) ==
    FoldLeft(LAMBDA t, r : MapUpdate(t, network_prefix(gen, r), r), trie, rules)

(* A mistake: an entry that is there already is kept. *)
write_resource_hash_noexist(hash, rules, gen) ==
    FoldLeft(LAMBDA h, r : IF InodeOf(r.value[2]) = 0 THEN h
                           ELSE h @@ (<<gen, InodeOf(r.value[2])>> :> r),
             hash, rules)

write_resource_hash(hash, rules, gen) ==
    FoldLeft(LAMBDA h, r : IF InodeOf(r.value[2]) = 0 THEN h
                           ELSE MapUpdate(h, <<gen, InodeOf(r.value[2])>>, r),
             hash, rules)

-----------------------------------------------------------------------------
(* The decisions.  cfg is the part of the configuration they read. *)

ActionOf(found, cfg) == IF found = Missing THEN cfg.default ELSE found[2].action

mcp_l3_path_trie_decide(trie, cfg, path) ==
    IF cfg.count = 0 THEN cfg.default
    ELSE ActionOf(TrieLookup(trie, <<cfg.gen>> \o path), cfg)

mcp_l3_command_trie_decide(trie, cfg, command) ==
    mcp_l3_path_trie_decide(trie, cfg, command)

mcp_l3_resource_decide(hash, cfg, inode) ==
    IF cfg.count # 0 /\ <<cfg.gen, inode>> \in DOMAIN hash
      THEN hash[<<cfg.gen, inode>>].action
      ELSE cfg.default

(* Port 0 stands for any port, and is looked up only when the port itself  *)
(* has no entry for the address.                                           *)
mcp_l3_ipv4_decide(trie, cfg, bits, port) ==
    LET exact == TrieLookup(trie, <<cfg.gen, port>> \o bits)
        any   == TrieLookup(trie, <<cfg.gen, 0>> \o bits)
    IN  IF cfg.count = 0 THEN cfg.default
        ELSE ActionOf(IF exact # Missing THEN exact ELSE any, cfg)
=============================================================================
