------------------------------ MODULE PolicyText ------------------------------
(***************************************************************************)
(* What loader/policy_loader.c reads in the text of a policy file.  The    *)
(* loader is no JSON parser: it searches the text for a quoted key and     *)
(* takes what follows the next colon, wherever that is.                    *)
(*                                                                         *)
(* A text is a sequence of lexemes, white space left out.  A quoted string *)
(* is one lexeme: a word, a path (a sequence of characters), a CIDR block  *)
(* (address bits and prefix length) or a bare address.  A string has none  *)
(* of the characters that the loader searches for ({ } : and the quote)    *)
(* and fits its buffer.  A file that does not exist reads as <<>>, which   *)
(* has no field either.                                                    *)
(***************************************************************************)
EXTENDS Integers, Sequences, SequencesExt, FiniteSetsExt

CONSTANTS
    AddressBits,    \* 32 in the code
    UintMax,        \* UINT_MAX in the code
    FileRules,      \* MCP_GUARD_MAX_RULES
    FileScopes      \* MCP_GUARD_MAX_SCOPES

ASSUME TextBounds ==
    /\ AddressBits \in Nat \ {0}
    /\ {UintMax, FileRules, FileScopes} \subseteq Nat

Word(w)       == <<"word", w>>
Path(chars)   == <<"path", chars>>
Cidr(bits, n) == <<"cidr", bits, n>>
Address(bits) == <<"address", bits>>
Number(n)     == <<"number", n>>
Bool(b)       == <<"bool", b>>
Punct(c)      == <<c>>

(* What a lookup of an absent or malformed field leaves to its caller, and *)
(* what the loader sees at the end of the text.                            *)
Missing == <<"missing">>

IsString(l) == l[1] \in {"word", "path", "cidr", "address"}
IsNumber(l) == l[1] = "number"
Strings(t)  == {l \in ToSet(t) : IsString(l)}
Uints(t)    == {l \in ToSet(t) : IsNumber(l) /\ l[2] <= UintMax}

LexemeAt(t, i) == IF i \in DOMAIN t THEN t[i] ELSE Missing

-----------------------------------------------------------------------------
(* The field lookups. *)

(* The position after the colon that follows the key, or 0. *)
json_field(t, key) ==
    LET keys   == {i \in DOMAIN t : t[i] = Word(key)}
        colons == {i \in DOMAIN t : i > Min(keys) /\ t[i] = Punct(":")}
    IN  IF keys = {} \/ colons = {} THEN 0 ELSE Min(colons) + 1

(* The value of the key, if it is one of the lexemes in good. *)
FieldIn(t, key, good) ==
    LET l == LexemeAt(t, json_field(t, key))
    IN  IF l \in good THEN l ELSE Missing

json_get_string(t, key) == FieldIn(t, key, Strings(t) \ {Word("")})
json_get_u32(t, key)    == FieldIn(t, key, Uints(t))
json_get_bool(t, key)   == FieldIn(t, key, {Bool(TRUE), Bool(FALSE)})

ValueOr(l, default) == IF l = Missing THEN default ELSE l[2]

(* The loops over an array take elements and commas until something else   *)
(* stands there, which has to be the closing bracket.                      *)
JsonArray(t, key, good, most) ==
    LET at    == json_field(t, key)
        stop  == Min({i \in at + 1 .. Len(t) + 1 :
                         LexemeAt(t, i) \notin good /\ LexemeAt(t, i) # Punct(",")})
        items == SelectSeq(SubSeq(t, at + 1, stop - 1), LAMBDA l : l \in good)
        ok    == /\ LexemeAt(t, at) = Punct("[")
                 /\ LexemeAt(t, stop) = Punct("]")
                 /\ Len(items) <= most
    IN  CASE at = 0 -> [ok |-> TRUE, items |-> <<>>]
          [] at # 0 /\ ok -> [ok |-> TRUE, items |-> items]
          [] at # 0 /\ ~ok -> [ok |-> FALSE, items |-> <<>>]

json_get_u32_array(t, key, most)    == JsonArray(t, key, Uints(t), most)
json_get_string_array(t, key, most) == JsonArray(t, key, Strings(t), most)

(* A mistake: the array replaces the flags. *)
ReplacedByFlagArray(t, known, flags) ==
    LET names == JsonArray(t, "flags", Strings(t), Len(t))
    IN  [ok    |-> names.ok /\ \A l \in ToSet(names.items) : l \in {Word(f) : f \in known},
         flags |-> IF json_field(t, "flags") = 0 THEN flags
                   ELSE {f \in known : Word(f) \in ToSet(names.items)}]

(* The names in the array are added to the flags; one that is not a flag   *)
(* refuses the file.                                                       *)
json_apply_flag_array(t, known, flags) ==
    LET names == JsonArray(t, "flags", Strings(t), Len(t))
    IN  [ok    |-> names.ok /\ \A l \in ToSet(names.items) : l \in {Word(f) : f \in known},
         flags |-> flags \cup {f \in known : Word(f) \in ToSet(names.items)}]

(* One flag has one field: the updates of a file are independent. *)
json_update_flags(t, known, flags) ==
    {f \in known : ValueOr(json_get_bool(t, f), f \in flags)}

parse_action(l) ==
    CASE l = Word("deny")  -> "deny"
      [] l = Word("audit") -> "audit"
      [] OTHER             -> "allow"

-----------------------------------------------------------------------------
(* default_policy.json and mcp_agent_profile.json. *)

ConfigFlags  == {"skip_dir_read", "cache_file_followups", "deny_tailcall_fail",
                 "skip_l2_safe"}
DefaultFlags == ConfigFlags \ {"skip_l2_safe"}

load_config_file(t) ==
    LET action == json_get_string(t, "default_action")
        array  == json_apply_flag_array(t, ConfigFlags, DefaultFlags)
    IN  [ok      |-> array.ok,
         default |-> IF action = Missing THEN "allow" ELSE parse_action(action),
         enforce |-> ValueOr(json_get_bool(t, "enforce"), TRUE),
         audit   |-> ValueOr(json_get_bool(t, "audit_allowed"), FALSE),
         flags   |-> json_update_flags(t, ConfigFlags, array.flags)]

(* A mistake: the single selector is not checked. *)
SelectorsUnchecked(single, array) ==
    [ok    |-> array.ok,
     items |-> (IF single = Missing THEN <<>> ELSE <<single>>) \o array.items]

(* A selector field and the array of the same selectors: add_id_scope      *)
(* refuses id 0, which an array may hold.                                  *)
Selectors(single, array) ==
    [ok    |-> array.ok /\ single # Number(0),
     items |-> (IF single = Missing THEN <<>> ELSE <<single>>) \o array.items]

RoomAfter(single) == IF single = Missing THEN FileScopes ELSE FileScopes - 1

load_profile_file(t) ==
    LET mode  == json_get_string(t, "mode")
        comm  == json_get_string(t, "comm")
        pid   == json_get_u32(t, "pid")
        tgid  == json_get_u32(t, "tgid")
        comms == Selectors(comm, json_get_string_array(t, "comms", RoomAfter(comm)))
        pids  == Selectors(pid, json_get_u32_array(t, "pids", RoomAfter(pid)))
        tgids == Selectors(tgid, json_get_u32_array(t, "tgids", RoomAfter(tgid)))
        scoped == mode \in {Word("scoped"), Word("scope")}
        count  == Len(comms.items) + Len(pids.items) + Len(tgids.items)
    IN  [ok      |-> /\ scoped \/ mode \in {Missing, Word("system-wide"),
                                            Word("system_wide")}
                     /\ comms.ok /\ pids.ok /\ tgids.ok
                     /\ scoped => count > 0,
         owner   |-> <<ValueOr(json_get_u32(t, "profile_id"), 1),
                       ValueOr(json_get_u32(t, "agent_id"), 1)>>,
         scoped  |-> scoped,
         comms   |-> ToSet(comms.items),
         pids    |-> ToSet(pids.items),
         tgids   |-> ToSet(tgids.items)]

-----------------------------------------------------------------------------
(* dangerous_paths.json, dangerous_commands.json, dangerous_network.json. *)

(* A mistake: an object is not cut off at its closing brace. *)
RuleObjectsUncut(t) ==
    LET from[i \in 1 .. Len(t) + 1] ==
            LET opens == {j \in i .. Len(t) : t[j] = Punct("{")}
                ends  == {j \in Min(opens) .. Len(t) : t[j] = Punct("}")}
            IN  IF opens = {} \/ ends = {} THEN <<>>
                ELSE <<SubSeq(t, Min(opens), Len(t))>>
                         \o from[Min(ends) + 1]
    IN  from[1]

(* The texts from a brace to the next closing one.  The file itself is an  *)
(* object: its opening brace begins the text of the first rule.            *)
RuleObjects(t) ==
    LET from[i \in 1 .. Len(t) + 1] ==
            LET opens == {j \in i .. Len(t) : t[j] = Punct("{")}
                ends  == {j \in Min(opens) .. Len(t) : t[j] = Punct("}")}
            IN  IF opens = {} \/ ends = {} THEN <<>>
                ELSE <<SubSeq(t, Min(opens), Min(ends) - 1)>>
                         \o from[Min(ends) + 1]
    IN  from[1]

(* An absolute path without the slashes at its end, or Missing. *)
normalize_path_value(l) ==
    IF l[1] = "path" /\ l[2][1] = "/"
      THEN Path(SubSeq(l[2], 1, Max({1} \cup {i \in DOMAIN l[2] : l[2][i] # "/"})))
      ELSE Missing

(* The address with the length of its mask, or Missing. *)
parse_ipv4_cidr(l) ==
    CASE l[1] = "address" -> Cidr(l[2], AddressBits)
      [] l[1] = "cidr"    -> IF l[3] \in 0 .. AddressBits THEN l ELSE Missing
      [] OTHER            -> Missing

(* One turn of the loop of load_rule_file: an object is a rule, is skipped *)
(* or refuses the file.                                                    *)
ReadRule(obj, type) ==
    LET given  == json_get_string(obj, "value")
        value  == IF given # Missing THEN given ELSE json_get_string(obj, "cidr")
        action == json_get_string(obj, "action")
        name   == json_get_string(obj, "name")
        flags  == json_apply_flag_array(obj, {"skip_l2_safe"}, {})
        parsed == CASE type = "path"    -> normalize_path_value(value)
                    [] type = "network" -> parse_ipv4_cidr(value)
                    [] type = "command" -> value
    IN  [outcome |-> CASE value = Missing -> "skip"
                       [] value # Missing /\ ~flags.ok -> "refuse"
                       [] value # Missing /\ flags.ok  ->
                            CASE parsed # Missing -> "rule"
                              [] parsed = Missing -> IF type = "path" THEN "refuse"
                                                                      ELSE "skip",
         rule    |-> [value  |-> parsed,
                      name   |-> CASE name # Missing  -> name
                                   [] type = "path" /\ name = Missing -> parsed
                                   [] type # "path" /\ name = Missing -> value,
                      action |-> IF action = Missing THEN "deny"
                                                     ELSE parse_action(action),
                      port   |-> IF type = "network"
                                   THEN ValueOr(json_get_u32(obj, "port"), 0)
                                   ELSE 0,
                      flags  |-> json_update_flags(obj, {"skip_l2_safe"}, flags.flags)]]

AddRule(state, read) ==
    CASE ~state.ok \/ read.outcome = "skip" -> state
      [] state.ok /\ read.outcome = "refuse" -> [state EXCEPT !.ok = FALSE]
      [] state.ok /\ read.outcome = "rule" ->
           IF Len(state.rules) >= FileRules
             THEN [state EXCEPT !.ok = FALSE]
             ELSE [state EXCEPT !.rules = Append(@, read.rule)]

load_rule_file(t, type) ==
    FoldLeft(LAMBDA state, obj : AddRule(state, ReadRule(obj, type)),
             [ok |-> TRUE, rules |-> <<>>], RuleObjects(t))
=============================================================================
