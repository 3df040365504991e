----------------------------- MODULE MCDaemonParts -----------------------------
(***************************************************************************)
(* The parts of the daemon that share no state: policy files, metrics and  *)
(* the GUI process.  Files are small, but have every lexical form that the *)
(* loader treats on its own, rules that overlap and strings that spell the *)
(* name of a field.  Metrics are counted, or the GUI runs, once an empty   *)
(* configuration is loaded: as neither depends on the policy or on the     *)
(* other, no more of their product is needed.                              *)
(***************************************************************************)
EXTENDS PolicyDocuments, Telemetry, GuiProcess

Array(items) == <<Punct("[")>> \o CommaJoined([i \in DOMAIN items |-> <<items[i]>>])
                    \o <<Punct("]")>>

ConfigFields ==
    {<<"default_action", <<Word("deny")>>>>, <<"default_action", <<Word("Deny")>>>>,
     <<"enforce", <<Bool(FALSE)>>>>, <<"enforce", <<Number(1)>>>>,
     <<"audit_allowed", <<Bool(TRUE)>>>>,
     <<"flags", Array(<<>>)>>, <<"flags", Array(<<Word("skip_l2_safe")>>)>>,
     <<"flags", Array(<<Word("skip_l2_safe"), Word("unknown")>>)>>,
     <<"skip_l2_safe", <<Bool(TRUE)>>>>, <<"skip_l2_safe", <<Bool(FALSE)>>>>,
     <<"skip_dir_read", <<Bool(FALSE)>>>>}

ProfileFields ==
    {<<"mode", <<Word("scoped")>>>>, <<"mode", <<Word("system-wide")>>>>,
     <<"mode", <<Word("agent")>>>>, <<"profile_id", <<Number(2)>>>>,
     <<"comm", <<Word("agent")>>>>, <<"comm", <<Word("pid")>>>>,
     <<"comms", Array(<<Word("agent"), Word("shell")>>)>>,
     <<"pid", <<Number(0)>>>>, <<"pid", <<Number(1)>>>>, <<"pid", <<Number(3)>>>>,
     <<"pids", Array(<<Number(0), Number(2)>>)>>, <<"pids", Array(<<Number(3)>>)>>,
     <<"tgid", <<Number(2)>>>>, <<"tgids", Array(<<>>)>>}

Named(name)    == <<"name", <<Word(name)>>>>
Valued(v)      == <<"value", <<v>>>>
Action(a)      == <<"action", <<Word(a)>>>>
Port(n)        == <<"port", <<Number(n)>>>>
RuleFlags(f)   == <<"flags", Array(<<Word(f)>>)>>

PathObjects ==
    {<<Named("r"), Valued(Path(<<"/">>)), Action("deny")>>,
     <<Valued(Path(<<"/", "a">>))>>,
     <<Valued(Path(<<"/", "a", "/", "/">>)), Action("allow"), RuleFlags("skip_l2_safe")>>,
     <<Action("audit"), Valued(Path(<<"/", "a", "/", "b">>))>>,
     <<Named("action"), Valued(Path(<<"/", "a">>)), Action("deny")>>,
     <<Named("value"), Valued(Path(<<"/", "b">>)), Action("Deny")>>,
     <<Named("n"), Action("deny")>>,
     <<Valued(Word("")), Action("allow")>>,
     <<Valued(Path(<<"a">>)), Action("deny")>>,
     <<Valued(Path(<<"/", "a">>)), RuleFlags("unknown")>>,
     <<RuleFlags("unknown"), Named("n")>>}

CommandObjects ==
    {<<Valued(Path(<<"/", "a">>)), Action("deny")>>,
     <<Valued(Path(<<"/", "a", "/">>)), Action("allow")>>,
     <<Valued(Path(<<"a">>)), Action("audit")>>,
     <<Named("n")>>}

NetworkObjects ==
    {<<Valued(Cidr(<<1, 0>>, 0)), Port(1), Action("deny")>>,
     <<Valued(Cidr(<<0, 0>>, 0)), Action("audit")>>,
     <<Valued(Cidr(<<1, 1>>, 1)), Port(1), Action("allow")>>,
     <<Action("allow"), Valued(Cidr(<<1, 0>>, 2))>>,
     <<Valued(Address(<<1, 0>>))>>,
     <<<<"cidr", <<Cidr(<<0, 1>>, 2)>>>>, Port(3), Action("deny")>>,
     <<Valued(Cidr(<<0, 1>>, 3)), Port(1), Action("deny")>>,
     <<Named("port"), Valued(Address(<<1, 1>>)), Action("audit")>>}

MCPieces ==
    [k \in FileKinds |->
        CASE k = "config"  -> {<<f>> : f \in ConfigFields}
          [] k = "profile" -> {<<f>> : f \in ProfileFields}
          [] k = "path"    -> PathObjects
          [] k = "command" -> CommandObjects
          [] k = "network" -> NetworkObjects]

MCMaxPieces == [k \in FileKinds |-> IF k = "config" THEN 3 ELSE 4]

MCPaths == {<<"/">>, <<"/", "a">>, <<"/", "a", "/", "b">>, <<"/", "a", "b">>,
            <<"/", "b">>, <<"a">>}

MCQueries ==
    [k \in RuleKinds |->
        IF k = "network" THEN ({0, 1} \X {0, 1}) \X {1, 2} ELSE MCPaths]

(* "/b" is a hard link to "/a/b"; "/ab" does not exist. *)
MCInodeOf(chars) ==
    CASE chars = <<"/">> -> 1
      [] chars = <<"/", "a">> -> 2
      [] chars \in {<<"/", "a", "/", "b">>, <<"/", "b">>} -> 3
      [] OTHER -> 0

MCDecisions == {<<1, 1, 0>>, <<5, 3, 1>>}

Running == loaded # <<>> /\ kind = "config" /\ doc = <<>>
NothingCounted == Recorded = 0 /\ ~SnapshotBegun /\ published = <<>>
NoGui == gui = "none" /\ leaving = "run" /\ ~stubborn

PartsInit == DocInit /\ TelemetryInit /\ GuiInit /\ (stubborn => kind = "config")
PartsNext ==
    \/ (NoGui \/ doc = <<>>) /\ DocNext /\ UNCHANGED <<telemetryVars, guiVars>>
    \/ Running /\ NoGui /\ TelemetryNext /\ UNCHANGED <<docVars, guiVars>>
    \/ Running /\ NothingCounted /\ GuiNext /\ UNCHANGED <<docVars, telemetryVars>>
PartsSpec == PartsInit /\ [][PartsNext]_<<docVars, telemetryVars, guiVars>> /\ GuiFairness
=============================================================================
