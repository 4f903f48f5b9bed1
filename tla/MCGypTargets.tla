---------------------------- MODULE MCGypTargets ----------------------------
(* Projects for GypTargets: every way four targets in two directories may
   depend on each other without a cycle, with libraries of several kinds; and
   one project for each thing build files can say or get wrong. *)
EXTENDS GypTargets

MCDashes == {"-g", "-l"}
MCAbsolute == {"/", "<(v)", ">(v)", "^(v)"}
MCSplitExt == [f \in {"a.c", "a.cc", "b.c", "x.idl", "y.idl"} |->
  CASE f = "a.c" -> <<"a", ".c", "c">> [] f = "a.cc" -> <<"a", ".cc", "cc">> [] f = "b.c" -> <<"b", ".c", "c">>
    [] f = "x.idl" -> <<"x", ".idl", "idl">> [] f = "y.idl" -> <<"y", ".idl", "idl">>]
\* What generator/xcode.py adds.
MacFiles == <<"mac_bundle_resources", "mac_framework_headers", "mac_framework_private_headers">>
MCGenerator == [path_sections |-> Elements(MacFiles), non_configuration_keys |-> Elements(MacFiles) \union {"mac_bundle", "xcode_create_dependents_test_runner"},
                extra_sources_for_rules |-> MacFiles]
MCConfigOrder == <<"Base", "Debug", "Default", "Release">>
R(sym, run, list, body) == [sym |-> sym, run |-> run, list |-> list, file |-> FALSE, body |-> body]
MCRef == [t \in {"<(v)", ">(v)", "^(v)", "<@(v)", "<(w)", "<(<(n))", "<!(cmd)", "<!(bad)", "<(loop)", "<(define)", ">(_type)", "<|(v)"} |->
  CASE t = "<(v)" -> R("<", FALSE, FALSE, <<"v">>) [] t = ">(v)" -> R(">", FALSE, FALSE, <<"v">>)
    [] t = "^(v)" -> R("^", FALSE, FALSE, <<"v">>) [] t = "<@(v)" -> R("<", FALSE, TRUE, <<"v">>)
    [] t = "<(w)" -> R("<", FALSE, FALSE, <<"w">>) [] t = "<(<(n))" -> R("<", FALSE, FALSE, <<"<(w)">>)
    [] t = "<!(cmd)" -> R("<", TRUE, FALSE, <<"cmd">>) [] t = "<!(bad)" -> R("<", TRUE, FALSE, <<"bad">>)
    [] t = "<(loop)" -> R("<", FALSE, FALSE, <<"loop">>) [] t = "<(define)" -> R("<", FALSE, FALSE, <<"define">>)
    [] t = ">(_type)" -> R(">", FALSE, FALSE, <<"_type">>)
    [] t = "<|(v)" -> [R("<", FALSE, FALSE, <<"v">>) EXCEPT !.file = TRUE]]
MCAutomatic == [t \in {"_type"} |-> <<"type", "", "_">>]
MCCanonical == {"0", "1", "2"}
MCOutput == [c \in {<<"cmd">>, <<"bad">>} |-> IF c = <<"cmd">> THEN <<"out">> ELSE <<"fails">>]

-----------------------------------------------------------------------------
\* Dicts from pairs.
D(pairs) == Dict([k \in {p[1] : p \in pairs} |-> (CHOOSE p \in pairs : p[1] = k)[2]])
K(name, v) == <<Key(name), v>>
KX(name, ext, v) == <<<<name, ext>>, v>>
S(token) == Str(<<token>>)
L1(x) == List(<<x>>)
Names(tokens) == List([i \in DOMAIN tokens |-> S(tokens[i])])
T(name, type, pairs) == D({K("target_name", S(name)), K("type", S(type))} \union pairs)
F(targetList, pairs) == D({K("targets", List(targetList))} \union pairs)
FX == <<"x", "x.gyp">>
FY == <<"y", "y.gyp">>
FZ == <<"x", "z.gyp">>
INC == <<"x", "inc.gypi">>
Opts(sound, want) == [multiple |-> FALSE, circular |-> TRUE, adjust |-> TRUE, sort |-> FALSE,
                      roots |-> {FX, FY}, settings |-> <<>>, sound |-> sound, want |-> want]

-----------------------------------------------------------------------------
\* Four targets: a, b in x/x.gyp, c, d in y/y.gyp; each may depend on earlier ones.
Order == <<"a", "b", "c", "d">>
FileOf(n) == IF n \in {"a", "b"} THEN FX ELSE FY
RefTo(from, n) == Str((IF FileOf(from) = FileOf(n) THEN <<>> ELSE <<"..">> \o FileOf(n)) \o <<":", n>>)
Earlier(n) == IF n = "a" THEN <<>> ELSE IF n = "b" THEN <<"a">> ELSE IF n = "c" THEN <<"a", "b">> ELSE <<"a", "b", "c">>
DepsOf(n, edges) == SelectSeq(Earlier(n), LAMBDA m : <<n, m>> \in edges)
RefsOf(n, edges) == LET ds == DepsOf(n, edges) IN List([i \in DOMAIN ds |-> RefTo(n, ds[i])])
Marks == [all_dependent_settings |-> "all", direct_dependent_settings |-> "direct", link_settings |-> "link"]
Section == [all_dependent_settings |-> "search_paths", direct_dependent_settings |-> "include_dirs", link_settings |-> "mac_framework_headers"]
Publishing(n) == {K(key, D({K(Section[key], L1(Str(<<Marks[key], n>>)))})) : key \in DOMAIN Marks}
GraphTarget(n, edges, types, exports, hard) ==
  T(n, types[n], Publishing(n)
     \union (IF DepsOf(n, edges) = <<>> THEN {} ELSE {K("dependencies", RefsOf(n, edges))})
     \union (IF DepsOf(n, exports) = <<>> THEN {} ELSE {K("export_dependent_settings", RefsOf(n, exports))})
     \union (IF n \in hard THEN {K("hard_dependency", Num("1"))} ELSE {}))
AllEdges == UNION {{<<n, m>> : m \in Elements(Earlier(n))} : n \in Elements(Order)}
GraphProject(edges, types, exports, hard) ==
  [files |-> [f \in {FX, FY} |->
                F(LET ns == SelectSeq(Order, LAMBDA n : FileOf(n) = f)
                  IN  [i \in DOMAIN ns |-> GraphTarget(ns[i], edges, types, exports, hard)], {})],
   options |-> [Opts(TRUE, {}) EXCEPT !.settings = Marks, !.sort = (exports = {})]]
TypesOf(ta, tb, tc) ==
  [n \in Elements(Order) |-> CASE n = "a" -> ta [] n = "b" -> tb [] n = "c" -> tc [] n = "d" -> "executable"]
GraphProjects ==
  {GraphProject(edges, TypesOf(ta, tb, tc), IF exported THEN edges ELSE {}, hard) :
     edges \in {e \in SUBSET AllEdges : <<"d", "c">> \in e},
     ta \in {"static_library", "none"}, tb \in {"static_library", "shared_library"}, tc \in {"static_library"},
     exported \in BOOLEAN, hard \in {{}, {"a"}}}

-----------------------------------------------------------------------------
\* One project for each case.
QX(n) == FX \o <<":", n, "#", "target">>
QY(n) == FY \o <<":", n, "#", "target">>
Want(t, c, defines) == {[target |-> t, config |-> c, defines |-> defines]}
Project(fs, sound, want) == [files |-> fs, options |-> [Opts(sound, want) EXCEPT !.roots = DOMAIN fs \ {INC}]]
XY(x, y, sound, want) == Project((FX :> x) @@ (FY :> y), sound, want)
Defines(tokens) == K("defines", Names(tokens))
Gives(token) == K("direct_dependent_settings", D({Defines(<<token>>)}))
Deps(strs) == K("dependencies", List([i \in DOMAIN strs |-> Str(strs[i])]))
ToX(n) == <<"..", "x", "x.gyp", ":", n>>
A == T("a", "static_library", {Gives("A")})
B == T("b", "static_library", {Gives("B")})

Links_ ==
  {XY(F(<<A, T("b", "none", {Gives("B"), K("suppress_wildcard", Num("1"))})>>, {}),
      F(<<T("d", "executable", {Deps(<<ToX("*")>>)})>>, {}), TRUE, Want(QY("d"), "Default", <<S("A")>>)),
   XY(F(<<A, B>>, {}), F(<<T("d", "executable", {Deps(<<ToX("a"), ToX("*"), ToX("b")>>),
        KX("dependencies", "!", List(<<Str(ToX("b"))>>))})>>, {}), TRUE, Want(QY("d"), "Default", <<S("A")>>)),
   XY(F(<<T("a", "none", {Deps(<<<<"x.gyp", ":", "*">>>>)}), B>>, {}), F(<<>>, {}), FALSE, {}),
   XY(F(<<A>>, {}), F(<<T("d", "executable", {Deps(<<ToX("gone")>>)})>>, {}), FALSE, {}),
   XY(F(<<T("a", "none", {Deps(<<<<":", "b">>>>)}), T("b", "none", {Deps(<<<<":", "a">>>>)}), T("c", "none", {})>>, {}),
      F(<<>>, {}), FALSE, {}),
   XY(F(<<A, A>>, {}), F(<<>>, {}), FALSE, {}),
   Project((FX :> F(<<A>>, {})) @@ (FZ :> F(<<A>>, {})), FALSE, {}),
   XY(F(<<A, B>>, {}), F(<<T("d", "executable", {Deps(<<ToX("a")>>), K("export_dependent_settings", List(<<Str(ToX("b"))>>))})>>, {}),
      FALSE, {}),
   XY(F(<<A>>, {}), F(<<T("d", "executable", {Deps(<<ToX("a")>>), KX("dependencies", "/", List(<<List(<<S("exclude")>>)>>))})>>, {}),
      FALSE, {})}
\* Two files whose targets depend on each other's.
BackAndForth(circular, sound) ==
  LET p == XY(F(<<T("a", "none", {Deps(<<<<"..", "y", "y.gyp", ":", "c">>>>)}), B>>, {}),
              F(<<T("c", "none", {}), T("d", "none", {Deps(<<ToX("b")>>)})>>, {}), sound, {})
  IN  [p EXCEPT !.options.circular = circular]
\* A target built for both toolsets, one that needs the host's, and an unadjusted generator.
TwoToolsets ==
  LET p == XY(F(<<T("a", "none", {Gives("A"), K("toolsets", Names(<<"host", "target">>))}), B>>, {}),
              F(<<T("d", "executable", {Deps(<<ToX("a") \o <<"#", "host">>, ToX("*") \o <<"#", "*">>>>)})>>, {}),
              TRUE, Want(QY("d"), "Default", <<S("A"), S("B")>>))
  IN  [p EXCEPT !.options.multiple = TRUE, !.options.adjust = FALSE]

One(pairs, sound, defines) ==
  XY(F(<<T("a", "static_library", pairs)>>, {}), F(<<>>, {}), sound,
     IF defines = <<>> THEN {} ELSE Want(QX("a"), "Default", defines))
Vars(pairs) == K("variables", D(pairs))
Cond(name, lit, yes, no) == List(<<Str(<<name, "==", lit>>), D({Defines(yes)}), D({Defines(no)})>>)
Variables_ ==
  {One({Vars({KX("v", "%", S("dflt"))}), Defines(<<"<(v)">>)}, TRUE, <<S("dflt")>>),
   XY(F(<<T("a", "none", {Vars({KX("v", "%", S("dflt"))}), Defines(<<"<(v)">>)})>>, {Vars({K("v", S("set"))})}),
      F(<<>>, {}), TRUE, Want(QX("a"), "Default", <<S("set")>>)),
   One({Vars({Vars({K("w", S("v"))}), K("w", S("<(w)")), K("v", S("x"))}), Defines(<<"<(<(n))">>)}, TRUE, <<S("x")>>),
   One({Vars({Vars({K("w", S("inner"))}), KX("w", "%", S("dflt")), K("v", S("<(w)"))}), Defines(<<"<(v)">>)}, TRUE, <<S("inner")>>),
   One({Vars({K("v", Names(<<"p", "q">>))}), Defines(<<"<@(v)", "<(v)">>)}, TRUE, <<S("p"), S("q"), Str(<<"p", " ", "q">>)>>),
   One({Vars({K("v", S("1"))}), K("conditions", List(<<Cond("v", "1", <<"<(v)">>, <<"N">>)>>))}, TRUE, <<S("1")>>),
   One({Vars({K("v", S("2"))}), K("conditions", List(<<Cond("v", "1", <<"Y">>, <<"N">>)>>)), Defines(<<"D">>)}, TRUE, <<S("D"), S("N")>>),
   One({Vars({K("v", S("kind"))}), Defines(<<">(_type)", "^(v)", ">(v)">>),
        K("target_conditions", List(<<Cond("_type", "static_library", <<"late">>, <<"N">>)>>))}, TRUE,
       <<S("static_library"), S("kind"), S("kind"), S("late")>>),
   One({Defines(<<"<!(cmd)">>)}, TRUE, <<S("out")>>),
   One({Vars({K("v", Str(<<"list.txt", " ", "p">>))}), Defines(<<"<|(v)">>)}, TRUE, <<S("v")>>),
   One({Defines(<<"<!(bad)">>)}, FALSE, <<>>),
   One({Defines(<<"<(v)">>)}, FALSE, <<>>),
   One({Vars({K("w", S("1"))}), Defines(<<"<(<(n))">>)}, FALSE, <<>>),
   One({Vars({K("loop", S("<(loop)"))}), Defines(<<"<(loop)">>)}, FALSE, <<>>),
   One({Vars({K("v", List(<<D({})>>))}), Defines(<<"<(v)">>)}, FALSE, <<>>),
   One({K("product_name", S("<@(v)")), Vars({K("v", Names(<<"p", "q">>))})}, FALSE, <<>>),
   One({K("conditions", List(<<Cond("gone", "1", <<"Y">>, <<"N">>)>>))}, FALSE, <<>>),
   One({K("conditions", List(<<S("v")>>))}, FALSE, <<>>),
   One({Vars({K("v", S("1"))}), K("conditions", List(<<List(<<S("<(v)"), D({})>>)>>))}, FALSE, <<>>)}

\* x.gyp includes inc.gypi; both say something about the defaults of the targets.
Included(own, inc, sound, defines) ==
  Project((FX :> F(<<T("a", "none", {Defines(<<"t">>)})>>, {K("includes", List(<<Str(<<"inc.gypi">>)>>)), K("target_defaults", D(own))} \union own))
          @@ (INC :> D({K("target_defaults", D(inc))} \union inc)), sound, Want(QX("a"), "Default", defines))
DX(ext, tokens) == KX("defines", ext, Names(tokens))
Merges ==
  {Included({Defines(<<"o", "i">>)}, {Defines(<<"i", "-g", "-g">>)}, TRUE, <<S("o"), S("i"), S("-g"), S("-g"), S("t")>>),
   Included({Defines(<<"o", "i">>)}, {DX("+", <<"i", "j">>), DX("", <<"k">>)}, TRUE, <<S("i"), S("j"), S("o"), S("k"), S("t")>>),
   Included({Defines(<<"o">>)}, {DX("+", <<"i">>), DX("", <<"i">>)}, TRUE, <<S("i"), S("o"), S("t")>>),
   Included({Defines(<<"o">>)}, {DX("=", <<"i">>)}, TRUE, <<S("i"), S("t")>>),
   Included({Defines(<<"o">>)}, {DX("?", <<"i">>)}, TRUE, <<S("o"), S("t")>>),
   Included({K("n", Num("1"))}, {DX("?", <<"i">>), K("n", S("s"))}, TRUE, <<S("i"), S("t")>>),
   Included({Defines(<<"o">>)}, {DX("=", <<"i">>), DX("", <<"j">>)}, FALSE, <<>>),
   Included({Defines(<<"o">>)}, {DX("?", <<"i">>), DX("+", <<"j">>)}, FALSE, <<>>),
   Included({K("defines", S("o"))}, {Defines(<<"i">>)}, FALSE, <<>>),
   Included({K("defines", S("o"))}, {DX("+", <<"i">>)}, FALSE, <<>>),
   Included({}, {DX("+", <<"i">>), K("defines", S("j"))}, FALSE, <<>>),
   Project(FX :> F(<<>>, {K("includes", List(<<Str(<<"gone.gypi">>)>>))}), FALSE, {}),
   Project(FX :> D({K("target_defaults", D({}))}), FALSE, {})}

Config(pairs) == K("configurations", D(pairs))
Inherits(names) == K("inherit_from", Names(names))
BaseConfig == K("Base", D({K("abstract", Num("1")), Defines(<<"base">>)}))
Configs ==
  {XY(F(<<T("a", "none", {Defines(<<"t", "-g">>), Config({BaseConfig, K("Debug", D({Inherits(<<"Base">>), Defines(<<"dbg">>)})),
                                                   K("Release", D({Inherits(<<"Base">>)}))})})>>, {}), F(<<>>, {}), TRUE,
      Want(QX("a"), "Debug", <<S("t"), S("-g"), S("base"), S("dbg")>>) \union Want(QX("a"), "Release", <<S("t"), S("-g"), S("base")>>)),
   XY(F(<<T("a", "none", {Defines(<<"t">>), KX("defines", "!", Names(<<"t">>)),
                          Config({K("Debug", D({Defines(<<"dbg">>)})), K("Release", D({Inherits(<<"Debug">>), Defines(<<"rel">>)}))})})>>, {}),
      F(<<>>, {}), TRUE, Want(QX("a"), "Release", <<S("dbg"), S("rel")>>)),
   One({Config({BaseConfig})}, FALSE, <<>>),
   One({Config({K("Debug", D({K("sources", Names(<<"a.c">>))}))})}, FALSE, <<>>)}

Regex(action, tokens) == List(<<S(action), [re |-> {S(t) : t \in tokens}]>>)
Sources(tokens) == K("sources", Names(tokens))
Filters ==
  {One({Sources(<<"a.c", "b.c", "x.idl", "y.idl">>), KX("sources", "!", Names(<<"a.c", "x.idl">>)),
        KX("sources", "/", List(<<Regex("exclude", {"b.c", "y.idl"}), Regex("include", {"a.c", "b.c"}), Regex("exclude", {"b.c"})>>))}, TRUE, <<>>),
   One({KX("sources", "!", Names(<<"a.c">>))}, TRUE, <<>>),
   One({Sources(<<"a.c">>), KX("sources", "!", S("a.c"))}, FALSE, <<>>),
   One({K("sources", S("a.c")), KX("sources", "!", Names(<<"a.c">>))}, FALSE, <<>>),
   One({Sources(<<"a.c">>), KX("sources", "_excluded", Names(<<"b.c">>)), KX("sources", "!", Names(<<"a.c">>))}, FALSE, <<>>),
   One({Sources(<<"a.c">>), KX("sources", "/", List(<<Regex("drop", {"a.c"})>>))}, FALSE, <<>>)}

Rule(name, ext) == D({K("rule_name", S(name)), K("extension", S(ext))})
Action(pairs) == K("actions", List(<<D(pairs)>>))
RunAs(v) == K("run_as", v)
Checks ==
  {One({Sources(<<"a.c", "x.idl", "y.idl">>), K("rules", List(<<Rule("r", "idl"), Rule("s", "c")>>))}, TRUE, <<>>),
   One({Sources(<<"a.c">>), K("mac_bundle_resources", Names(<<"x.idl", "b.c">>)), K("rules", List(<<Rule("r", "idl"), Rule("s", "c")>>))}, TRUE, <<>>),
   One({Sources(<<"x.idl">>), K("rules", List(<<Rule("r", "idl"), Rule("s", "idl")>>))}, FALSE, <<>>),
   One({K("rules", List(<<Rule("r", "idl"), Rule("r", "c")>>))}, FALSE, <<>>),
   One({K("rules", List(<<Set(Rule("r", "idl"), Key("rule_sources"), List(<<>>))>>))}, FALSE, <<>>),
   One({Sources(<<"a.c", "a.cc">>)}, FALSE, <<>>),
   XY(F(<<T("a", "none", {Sources(<<"a.c", "a.cc">>)})>>, {}), F(<<>>, {}), TRUE, {}),
   XY(F(<<T("a", "program", {})>>, {}), F(<<>>, {}), FALSE, {}),
   XY(F(<<T("a", "none", {K("standalone_static_library", Num("1"))})>>, {}), F(<<>>, {}), FALSE, {}),
   One({Action({K("action_name", S("go")), K("inputs", List(<<>>)), K("action", Names(<<"go">>))})}, TRUE, <<>>),
   One({Action({K("inputs", List(<<>>))})}, FALSE, <<>>),
   One({Action({K("action_name", S("go"))})}, FALSE, <<>>),
   One({Action({K("action_name", S("go")), K("inputs", List(<<>>)), K("action", List(<<Str(<<>>)>>))})}, FALSE, <<>>),
   One({RunAs(D({K("action", Names(<<"run">>)), K("environment", D({})), K("working_directory", S("dir"))}))}, TRUE, <<>>),
   One({RunAs(S("run"))}, FALSE, <<>>),
   One({RunAs(D({K("environment", D({}))}))}, FALSE, <<>>),
   One({RunAs(D({K("action", Names(<<"run">>)), K("environment", S("e"))}))}, FALSE, <<>>)}

Projects ==
  GraphProjects \union Links_ \union {BackAndForth(TRUE, FALSE), BackAndForth(FALSE, TRUE), TwoToolsets}
    \union Variables_ \union Merges \union Configs \union Filters \union Checks

Init == \E p \in Projects : files = p.files /\ options = p.options /\ TargetsInit
Spec == Init /\ [][Load]_targetVars
=============================================================================
