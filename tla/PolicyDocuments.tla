--------------------------- MODULE PolicyDocuments ---------------------------
(***************************************************************************)
(* An operator writes a policy file, field by field or rule by rule, and   *)
(* the loader loads it.  The properties compare what the loader makes of   *)
(* the text, and what the hooks decide by it, with the file as written.    *)
(***************************************************************************)
EXTENDS LpmIndex, FiniteSets

CONSTANTS
    Pieces,       \* Pieces[kind]: the fields, or the rules, that files are made of
    MaxPieces,    \* bound: MaxPieces[kind] pieces in a file
    Queries       \* Queries[kind]: the objects that hooks ask about

FileKinds == {"config", "profile", "path", "command", "network"}
RuleKinds == {"path", "command", "network"}

(* A piece is a sequence of fields; a field is a key and the lexemes of    *)
(* its value.                                                              *)
ASSUME PiecesAssumption ==
    /\ DOMAIN Pieces = FileKinds /\ DOMAIN MaxPieces = FileKinds
    /\ \A kind \in FileKinds : MaxPieces[kind] \in Nat

VARIABLES
    kind,         \* which file
    doc,          \* its pieces
    loaded        \* what the loader returned, or <<>>

docVars == <<kind, doc, loaded>>

FieldsOf(pieces) == FlattenSeq(pieces)
KeysOf(fields) == {f[1] : f \in ToSet(fields)}

(* The lexemes of a file. *)
CommaJoined(texts) ==
    FoldLeft(LAMBDA t, u : IF t = <<>> THEN u ELSE t \o <<Punct(",")>> \o u,
             <<>>, texts)
ObjectText(fields) ==
    LET texts == [i \in DOMAIN fields |->
                     <<Word(fields[i][1]), Punct(":")>> \o fields[i][2]]
    IN  <<Punct("{")>> \o CommaJoined(texts) \o <<Punct("}")>>
Text(k, pieces) ==
    IF k \in RuleKinds
      THEN <<Punct("{"), Word("rules"), Punct(":"), Punct("[")>>
               \o CommaJoined([i \in DOMAIN pieces |-> ObjectText(pieces[i])])
               \o <<Punct("]"), Punct("}")>>
      ELSE ObjectText(FieldsOf(pieces))

DocInit ==
    /\ kind \in FileKinds
    /\ doc = <<>>
    /\ loaded = <<>>

(* A key stands at most once in an object. *)
WritePiece(piece) ==
    /\ loaded = <<>>
    /\ Len(doc) < MaxPieces[kind]
    /\ kind \notin RuleKinds => KeysOf(piece) \cap KeysOf(FieldsOf(doc)) = {}
    /\ doc' = Append(doc, piece)
    /\ UNCHANGED <<kind, loaded>>

LoadFile ==
    /\ loaded = <<>>
    /\ LET text == Text(kind, doc)
       IN  loaded' = <<CASE kind = "config"    -> load_config_file(text)
                         [] kind = "profile"   -> load_profile_file(text)
                         [] kind \in RuleKinds -> load_rule_file(text, kind)>>
    /\ UNCHANGED <<kind, doc>>

DocNext == (\E piece \in Pieces[kind] : WritePiece(piece)) \/ LoadFile

-----------------------------------------------------------------------------
(* The file as written. *)

(* The fields that are looked up, by what their value has to be. *)
StringFields == {"default_action", "mode", "comm", "value", "cidr", "name", "action"}
NumberFields == {"profile_id", "agent_id", "pid", "tgid", "port"}
BoolFields   == {"enforce", "audit_allowed"} \cup ConfigFlags
ArrayFields  == {"flags", "comms", "pids", "tgids"}

Fits(key, value) ==
    \/ key \in StringFields /\ IsString(value[1])
    \/ key \in NumberFields /\ IsNumber(value[1])
    \/ key \in BoolFields /\ value[1][1] = "bool"
    \/ key \in ArrayFields

(* A string of field i that spells the name of a field further down, or of *)
(* none, makes the loader read field i + 1 in its place.                   *)
Confusing(fields) ==
    \E i \in 1 .. Len(fields) - 1 :
        \E l \in ToSet(fields[i][2]) :
            \E key \in StringFields \cup NumberFields \cup BoolFields \cup ArrayFields :
                /\ l = Word(key)
                /\ key \notin {fields[j][1] : j \in 1 .. i + 1}
                /\ Fits(key, fields[i + 1][2]) \/ key \in KeysOf(fields)

Has(fields, key) == key \in KeysOf(fields)
Value(fields, key) ==
    LET f == CHOOSE f \in ToSet(fields) : f[1] = key IN f[2]
Single(fields, key) == IF Has(fields, key) THEN Value(fields, key)[1] ELSE Missing

(* The elements of an array field. *)
Elements(fields, key) ==
    IF Has(fields, key)
      THEN {l \in ToSet(Value(fields, key)) : Len(l) > 1}
      ELSE {}

(* The configuration file.  It is refused exactly for a flag the loader    *)
(* does not know; each flag is set by its own field, else by the array or  *)
(* the default; an action the loader does not know allows                  *)
(* (load_config_file, json_apply_flag_array, json_update_flag).            *)
ConfigAsWritten ==
    (kind = "config" /\ loaded # <<>> /\ ~Confusing(FieldsOf(doc))) =>
        LET f == FieldsOf(doc)
            r == loaded[1]
            Flag(l, otherwise) == IF l[1] = "bool" THEN l[2] ELSE otherwise
        IN  /\ r.ok <=> Elements(f, "flags") \subseteq {Word(x) : x \in ConfigFlags}
            /\ r.ok =>
                 /\ r.default = "deny" <=> Single(f, "default_action") = Word("deny")
                 /\ r.enforce = Flag(Single(f, "enforce"), TRUE)
                 /\ r.audit = Flag(Single(f, "audit_allowed"), FALSE)
                 /\ \A x \in ConfigFlags :
                        x \in r.flags <=> Flag(Single(f, x), \/ x # "skip_l2_safe"
                                                             \/ Word(x) \in Elements(f, "flags"))

(* The profile.  A scoped profile that is accepted has a selector, so the  *)
(* guard never runs scoped over nobody; every selector of the file, and    *)
(* no other, is loaded.  A single id is refused if it is 0 and ignored if  *)
(* it is out of range; an array may hold 0, but nothing out of range.      *)
(* More selectors of a kind than its map holds are refused                 *)
(* (load_profile_file).                                                    *)
ProfileAsWritten ==
    (kind = "profile" /\ loaded # <<>> /\ ~Confusing(FieldsOf(doc))) =>
        LET f == FieldsOf(doc)
            r == loaded[1]
            Small(ls) == {l \in ls : IsNumber(l) => l[2] <= UintMax}
            Both(one, many) ==
                Elements(f, many) \cup (Small({Single(f, one)}) \ {Missing})
            Count(one, many) == Cardinality(Elements(f, many))
                                  + Cardinality(Small({Single(f, one)}) \ {Missing})
            selectors == Both("comm", "comms") \cup Both("pid", "pids")
                             \cup Both("tgid", "tgids")
            arrays == Elements(f, "pids") \cup Elements(f, "tgids")
            mode == Single(f, "mode")
        IN  /\ r.ok <=>
                 /\ mode \in {Missing, Word("scoped"), Word("system-wide")}
                 /\ Number(0) \notin {Single(f, "pid"), Single(f, "tgid")}
                 /\ arrays = Small(arrays)
                 /\ Max({Count("comm", "comms"), Count("pid", "pids"),
                         Count("tgid", "tgids")}) <= FileScopes
                 /\ mode = Word("scoped") => selectors # {}
            /\ r.ok =>
                 /\ r.scoped <=> mode = Word("scoped")
                 /\ r.comms = Both("comm", "comms")
                 /\ r.pids = Both("pid", "pids")
                 /\ r.tgids = Both("tgid", "tgids")
                 /\ r.owner[1] = IF Small({Single(f, "profile_id")}) \subseteq {Missing}
                                   THEN 1 ELSE Single(f, "profile_id")[2]

-----------------------------------------------------------------------------
(* The rule files as written. *)

GivenValue(obj) ==
    IF Single(obj, "value") \in {Missing, Word("")} THEN Single(obj, "cidr")
                                                    ELSE Single(obj, "value")

(* The characters or bits that an object has to begin with: a path without *)
(* the slashes at its end, the bits of an address that its mask keeps.     *)
Trimmed(chars) ==
    CHOOSE c \in {SubSeq(chars, 1, n) : n \in 1 .. Len(chars)} :
        /\ \A i \in Len(c) + 1 .. Len(chars) : chars[i] = "/"
        /\ Len(c) = 1 \/ c[Len(c)] # "/"
MeantPrefix(k, obj) ==
    LET v == GivenValue(obj)
    IN  CASE k = "path" -> Trimmed(v[2])
          [] k = "command" \/ v[1] = "address" -> v[2]
          [] k = "network" /\ v[1] = "cidr" -> SubSeq(v[2], 1, v[3])

MeansRule(k, obj) ==
    LET v == GivenValue(obj)
    IN  /\ v # Missing
        /\ k = "network" => \/ v[1] = "address"
                            \/ v[1] = "cidr" /\ v[3] <= AddressBits

MeantAction(obj) ==
    CASE Single(obj, "action") \in {Missing, Word("deny")} -> "deny"
      [] Single(obj, "action") = Word("audit") -> "audit"
      [] OTHER -> "allow"

MeantPort(obj) == IF Has(obj, "port") /\ Single(obj, "port")[2] <= UintMax
                    THEN Single(obj, "port")[2] ELSE 0

(* The objects that mean a rule, and the reasons to refuse the file. *)
MeantRules == SelectSeq(doc, LAMBDA obj : MeansRule(kind, obj))
MeantRefusal ==
    \/ Len(MeantRules) > FileRules
    \/ \E obj \in ToSet(doc) :
         /\ GivenValue(obj) # Missing
         /\ \/ ~(Elements(obj, "flags") \subseteq {Word("skip_l2_safe")})
            \/ kind = "path" /\ GivenValue(obj)[2][1] # "/"

(* Of the rules with one of the ports whose prefix the object has, the     *)
(* longest decides, and of equal ones the last.                            *)
MeantBy(object, port, otherwise) ==
    LET hits == {i \in DOMAIN MeantRules :
                    /\ MeantPort(MeantRules[i]) = port
                    /\ \A j \in DOMAIN MeantPrefix(kind, MeantRules[i]) :
                           /\ j \in DOMAIN object
                           /\ object[j] = MeantPrefix(kind, MeantRules[i])[j]}
        Weight(i) == Len(MeantPrefix(kind, MeantRules[i]))
        best == CHOOSE i \in hits :
                    \A j \in hits : \/ Weight(j) < Weight(i)
                                    \/ Weight(j) = Weight(i) /\ j <= i
    IN  IF hits = {} THEN otherwise ELSE MeantAction(MeantRules[best])

MeantDecision(query) ==
    IF kind = "network"
      THEN MeantBy(query[1], query[2], MeantBy(query[1], 0, "allow"))
      ELSE MeantBy(query, 0, "allow")

(* The last rule whose path names the inode, which is all that             *)
(* file_permission goes by.                                                *)
MeantAccess(inode) ==
    LET hits == {i \in DOMAIN MeantRules :
                    InodeOf(MeantPrefix(kind, MeantRules[i])) = inode}
    IN  IF hits = {} THEN "allow" ELSE MeantAction(MeantRules[Max(hits)])

-----------------------------------------------------------------------------
(* The entries of the former generation are still in the indexes: a rule   *)
(* that audits everything.                                                 *)
Former == [value |-> Missing, name |-> Word("former"), action |-> "audit",
           port |-> 0, flags |-> {}]
FormerGen == 1
ActiveGen == 2

OldTrie == IF kind = "network" THEN <<FormerGen, 0>> :> Former ELSE <<FormerGen>> :> Former
OldHash == [e \in {<<FormerGen, i>> : i \in {InodeOf(q) : q \in Queries["path"]}} |-> Former]

Decided(rules, query) ==
    LET cfg == [gen |-> ActiveGen, count |-> Len(rules), default |-> "allow"]
    IN  CASE kind = "path" ->
               mcp_l3_path_trie_decide(write_path_trie(OldTrie, rules, ActiveGen), cfg, query)
          [] kind = "command" ->
               mcp_l3_command_trie_decide(write_command_trie(OldTrie, rules, ActiveGen), cfg, query)
          [] kind = "network" ->
               mcp_l3_ipv4_decide(write_network_trie(OldTrie, rules, ActiveGen), cfg,
                                  query[1], query[2])

Accessed(rules, inode) ==
    mcp_l3_resource_decide(write_resource_hash(OldHash, rules, ActiveGen),
                           [gen |-> ActiveGen, count |-> Len(rules), default |-> "allow"],
                           inode)

Readable == loaded # <<>> /\ \A obj \in ToSet(doc) : ~Confusing(obj)

(* From the text of a rule file to a verdict: the file is refused exactly  *)
(* for an unknown flag, a relative path or too many rules, and otherwise   *)
(* every exec, open and connect is decided by the rule of the file that is *)
(* most specific for it (a rule with the port before rules for any port,   *)
(* then the longest prefix, then the last), whatever the former generation *)
(* left in the tries (load_rule_file, the write_ functions and the L3      *)
(* decide functions).                                                      *)
DecisionAsWritten ==
    (kind \in RuleKinds /\ Readable) =>
        /\ loaded[1].ok <=> ~MeantRefusal
        /\ loaded[1].ok =>
               \A q \in Queries[kind] : Decided(loaded[1].rules, q) = MeantDecision(q)

(* A read or write of a file that a path rule names is decided by the last *)
(* such rule, also when several spellings name one inode                   *)
(* (path_resource_id, write_resource_hash, mcp_l3_resource_decide).        *)
AccessAsWritten ==
    (kind = "path" /\ Readable /\ loaded[1].ok) =>
        \A q \in Queries["path"] :
            InodeOf(q) # 0 => Accessed(loaded[1].rules, InodeOf(q)) = MeantAccess(InodeOf(q))
=============================================================================
