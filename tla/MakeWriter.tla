----------------------------- MODULE MakeWriter -----------------------------
(* generator/make.py: the makefile of one target, as a set of statements.
   made and links are the maps target_outputs and target_link_deps. *)
EXTENDS BuildRules
LOCAL INSTANCE SequencesExt

Absolutify(spec, p) ==
  CASE p[1] = "" -> <<spec.dir, p[2], p[3]>>
    [] p[1] = "PRODUCT_DIR" -> <<"builddir", p[2], p[3]>>
    [] p[1] = "CONTENTS" -> <<"builddir">> \o File(GetBundleContentsFolderPath(spec)) \o <<p[2], p[3]>>
    [] p[1] = "INTERMEDIATE_DIR" -> <<"obj", spec.toolset, spec.name, "geni", p[2], p[3]>>
    [] p[1] = "SHARED_INTERMEDIATE_DIR" -> <<"obj", "gen", p[2], p[3]>>

Sourceify(f) == IF f[1] \in {"obj", "builddir"} THEN f ELSE <<"srcdir">> \o f
MakePath(spec, p) == Sourceify(Absolutify(spec, p))
Paths(spec, ps) == [i \in DOMAIN ps |-> MakePath(spec, ps[i])]

Target(f) == [f EXCEPT ![Len(f)] = "o"]
Objectify(spec, f) ==
  IF f[1] = "obj" /\ f[2] = "gen" THEN <<"obj", spec.toolset, spec.name>> \o Tail(f)
  ELSE IF f[1] = "obj" THEN f
  ELSE <<"obj", spec.toolset, spec.name>> \o f
Pchify(spec, lang) == <<"obj", spec.toolset, spec.name, "pch", lang>> \o Absolutify(spec, spec.prefix_header) \o <<"gch">>

Compilable(flavor, p) == p[3] \in {"c", "cc", "s", "S"} \union (IF flavor = "mac" THEN {"m", "mm"} ELSE {})
Linkable(p) == p[3] = "o"

-----------------------------------------------------------------------------
\* A command names its first output only; the others wait for the first.
WriteMakeRule(outputs, ins, cmd) ==
  {[Statement({outputs[1]}, ins, {}, cmd) EXCEPT !.writes = ToSet(outputs)]}
    \union IF Len(outputs) > 1 THEN {Statement(ToSet(Tail(outputs)), {outputs[1]}, {}, "")} ELSE {}
OrderOnly(outs, ins) == {Statement(outs, {}, ins, "")}
WriteDoCmd(outputs, ins, cmd, postbuilds) == {[r EXCEPT !.postbuilds = postbuilds] : r \in WriteMakeRule(outputs, ins, cmd)}

\* What actions, rules and copies write; extra_outputs come before everything else of the target.
WriteActions(spec, actions) ==
  [stmts |-> UNION {{[r EXCEPT !.args = a.command] : r \in WriteDoCmd(Paths(spec, a.outputs), ToSet(Paths(spec, a.inputs)), "action", <<>>)} : a \in ToSet(actions)},
   extra_outputs |-> UNION {ToSet(Paths(spec, a.outputs)) : a \in ToSet(actions)},
   extra_sources |-> ExtraSources(actions), extra_resources |-> ExtraResources(actions)]

WriteRules(spec) ==
  WriteActions(spec, FlatMap(LAMBDA rule : [i \in DOMAIN rule.rule_sources |->
                      [rule.step EXCEPT !.inputs = <<rule.rule_sources[i]>> \o @,
                                        !.outputs = [j \in DOMAIN @ |-> Expand(@[j], rule.rule_sources[i])]]], spec.rules))

WriteCopies(spec) ==
  LET pairs == UNION {{<<MakePath(spec, <<c.destination, p[2], p[3]>>), MakePath(spec, p)>> : p \in ToSet(c.files)} : c \in ToSet(spec.copies)}
  IN  [stmts |-> UNION {WriteDoCmd(<<pair[1]>>, {pair[2]}, "copy", <<>>) : pair \in pairs},
       extra_outputs |-> {pair[1] : pair \in pairs}, extra_sources |-> <<>>, extra_resources |-> <<>>]

Together(a, b) ==
  [stmts |-> a.stmts \union b.stmts, extra_outputs |-> a.extra_outputs \union b.extra_outputs,
   extra_sources |-> a.extra_sources \o b.extra_sources, extra_resources |-> a.extra_resources \o b.extra_resources]

-----------------------------------------------------------------------------
\* The source a suffix rule finds for an object: first the rules of the target,
\* then those at the head of the root makefile.
SuffixRules(spec, obj, exts) ==
  LET within == SubSeq(obj, 4, Len(obj))
      prefixes == <<<<"srcdir">>, <<"obj", spec.toolset>>, <<"obj">>>>
      file(prefix, stem, ext) == IF prefix = <<"srcdir">> /\ stem[1] = "builddir" THEN [stem EXCEPT ![Len(stem)] = ext]
                                 ELSE prefix \o [stem EXCEPT ![Len(stem)] = ext]
      of(stem) == FlatMap(LAMBDA prefix : [i \in DOMAIN exts |-> file(prefix, stem, exts[i])], prefixes)
  IN  of(within) \o of(<<spec.name>> \o within)

\* The compiled prefix headers wait for the header alone.
MakePchTargets(spec, flavor) ==
  IF spec.prefix_header = <<>> THEN {}
  ELSE WritePchTargets(flavor, spec, MakePath(spec, spec.prefix_header), [lang \in PchLangs |-> Pchify(spec, lang)])

WriteSources(spec, flavor, sources, deps, extra_outputs, headers) ==
  LET compilable == SelectSeq(sources, LAMBDA p : Compilable(flavor, p))
      exts == SetToSeq({compilable[i][3] : i \in DOMAIN compilable})
      obj(p) == Objectify(spec, Target(Absolutify(spec, p)))
      objs == {obj(p) : p \in ToSet(compilable)}
      header == IF spec.prefix_header = <<>> THEN <<>> ELSE MakePath(spec, spec.prefix_header)
      gch == [lang \in PchLangs |-> Pchify(spec, lang)]
      lang(o) == LangOf((CHOOSE p \in ToSet(compilable) : obj(p) = o)[3])
  IN  [objs |-> objs,
       stmts |-> {[Statement({o}, {}, {}, "cc") EXCEPT !.from = SuffixRules(spec, o, exts),
                     !.reads = headers \union (IF Prefixed(flavor, spec) THEN {header} ELSE {}),
                     !.flags = CompileFlags(flavor, spec, lang(o))] : o \in objs}
                 \union (IF deps = {} THEN {} ELSE OrderOnly(objs, deps))
                 \union (IF extra_outputs = {} THEN {} ELSE OrderOnly(objs, extra_outputs))
                 \union {Statement({obj(p)}, GetObjDependencies(flavor, spec, p[3], gch), {}, "") : p \in ToSet(compilable)}
                 \union MakePchTargets(spec, flavor)]

-----------------------------------------------------------------------------
Installable(spec) == spec.type \in {"executable", "loadable_module", "shared_library"}
Ext == [executable |-> "", static_library |-> "a", shared_library |-> "so", loadable_module |-> "so", none |-> "stamp"]
InstallImmediately(spec, flavor) == spec.toolset = "target" /\ flavor = "mac" /\ spec.type # "none"

ComputeOutputBasename(spec, flavor) ==
  IF flavor = "mac" /\ spec.type \in Binaries THEN File(GetExecutablePath(spec)) ELSE <<spec.name, Ext[spec.type]>>
ComputeOutput(spec, flavor) ==
  (IF spec.type = "executable" \/ InstallImmediately(spec, flavor) THEN <<"builddir">> ELSE <<"obj", spec.toolset, spec.dir>>)
    \o ComputeOutputBasename(spec, flavor)
ComputeMacBundleOutput(spec) == <<"builddir">> \o File(GetWrapperName(spec))
ComputeMacBundleBinaryOutput(spec) == <<"builddir">> \o File(GetExecutablePath(spec))
Alias(spec, flavor) == IF IsMacBundle(flavor, spec) THEN File(GetWrapperName(spec)) ELSE ComputeOutputBasename(spec, flavor)

InstallableTargetInstallPath(spec, flavor) ==
  IF spec.type = "shared_library" /\ (flavor # "mac" \/ spec.toolset # "target")
  THEN <<"builddir", "lib", spec.toolset>> \o Alias(spec, flavor)
  ELSE <<"builddir">> \o Alias(spec, flavor)

\* (deps, link_deps)
ComputeDeps(spec, made, links) ==
  LET link_deps == {links[d] : d \in ToSet(spec.dependencies) \cap DOMAIN links}
  IN  <<{made[d] : d \in ToSet(spec.dependencies)} \union link_deps, link_deps>>

LinkCommand == [executable |-> "link", static_library |-> "alink", shared_library |-> "solink", loadable_module |-> "solink"]

WriteTarget(spec, flavor, output, output_binary, deps, link_deps, bundle_deps, extra_outputs, part_of_all) ==
  LET bundle == IsMacBundle(flavor, spec)
      postbuilds == Postbuilds(spec, flavor, output, output_binary)
      linked(stmts) == {IF r.cmd = "" THEN r ELSE [r EXCEPT !.flags = LinkFlags(flavor, spec)] : r \in stmts}
      installable == Installable(spec) \/ spec.standalone_static_library
      install_path == InstallableTargetInstallPath(spec, flavor)
      all(ins) == IF part_of_all THEN {Phony("all", ins)} ELSE {}
      alias == <<"phony", spec.name>>
  IN  (IF extra_outputs = {} THEN {} ELSE OrderOnly({output_binary}, extra_outputs) \union OrderOnly(extra_outputs, deps))
      \union (IF ~bundle THEN {}
              ELSE OrderOnly({output}, extra_outputs)
                     \union {[Statement({output}, bundle_deps, {}, "bundle") EXCEPT !.postbuilds = postbuilds]})
      \union (IF spec.type = "none" THEN WriteDoCmd(<<output_binary>>, deps, "touch", postbuilds)
              ELSE linked(WriteDoCmd(<<output_binary>>, link_deps, LinkCommand[spec.type], IF bundle THEN <<>> ELSE postbuilds)))
      \union (IF Installable(spec) THEN {} ELSE {Phony(spec.name, {output})} \union all({alias}))
      \union (IF ~installable THEN {}
              ELSE {Phony(spec.name, {install_path})} \union all({install_path})
                     \union IF install_path = output THEN {} ELSE WriteDoCmd(<<install_path>>, {output}, "copy", <<>>))

\* The file is always among the variables: an empty one hides what an earlier target exports.
MakePostbuildSettings(spec) == [CHROMIUM_STRIP_SAVE_FILE |-> spec.strip_save_file]

MakeInfoPlist(spec, env) ==
  IF spec.info_plist = <<>> THEN {}
  ELSE WriteMacInfoPlist(spec, <<"builddir">>, MakePath(spec, spec.info_plist), <<"obj", spec.toolset, spec.name, "Info", "plist">>, env)

\* The whole of MakefileWriter.Write: statements, target_outputs and target_link_deps.
MakeWrite(spec, flavor, made, links, headers, part_of_all, envs) ==
  LET dl == ComputeDeps(spec, made, links)
      actions == WriteActions(spec, spec.actions)
      rules == WriteRules(spec)
      gen == Together(Together([actions EXCEPT !.stmts = Exporting(Expanding(@, envs.steps), envs.steps)],
                               [rules EXCEPT !.stmts = Expanding(@, envs.steps)]), WriteCopies(spec))
      bundle == IsMacBundle(flavor, spec)
      output == IF bundle THEN ComputeMacBundleOutput(spec) ELSE ComputeOutput(spec, flavor)
      output_binary == IF bundle THEN ComputeMacBundleBinaryOutput(spec) ELSE output
      sources == spec.sources \o gen.extra_sources
      src == WriteSources(spec, flavor, sources, dl[1], gen.extra_outputs, headers)
      linkable == {<<"srcdir", "", p[2], p[3]>> : p \in {q \in ToSet(sources) : Linkable(q) /\ q[1] = ""}}
                  \union {MakePath(spec, p) : p \in {q \in ToSet(sources) : Linkable(q) /\ q[1] # ""}}
      resources == IF bundle THEN WriteMacBundleResources(spec, <<"builddir">>, Paths(spec, spec.mac_bundle_resources \o gen.extra_resources)) ELSE {}
      plist == IF bundle THEN MakeInfoPlist(spec, envs.plist) ELSE {}
      bundle_deps == UNION {r.outs : r \in {q \in resources \union plist : q.cmd = "mac_tool"}}
                     \union IF src.objs = {} THEN {} ELSE {output_binary}
  IN  [stmts |-> gen.stmts \union resources \union plist \union (IF sources = <<>> THEN {} ELSE src.stmts)
                 \union PostbuildEnv(WriteTarget(spec, flavor, output, output_binary, dl[1], src.objs \union linkable \union dl[2],
                                                 bundle_deps, gen.extra_outputs, part_of_all), envs.postbuilds),
       made |-> IF Installable(spec) \/ spec.standalone_static_library
                THEN InstallableTargetInstallPath(spec, flavor) ELSE output,
       link |-> IF spec.type \in {"static_library", "shared_library"} THEN <<output_binary>> ELSE <<>>]

\* make looks for the first file of a suffix rule that is there or can be made.
Resolve(stmts, tree) ==
  LET known == tree \union UNION {r.writes : r \in Commands(stmts)}
      source(r) == r.from[CHOOSE i \in DOMAIN r.from : r.from[i] \in known /\ \A j \in 1..(i - 1) : r.from[j] \notin known]
  IN  {IF r.from = <<>> THEN r
       ELSE IF \E i \in DOMAIN r.from : r.from[i] \in known THEN [r EXCEPT !.ins = @ \union {source(r)}, !.from = <<>>]
       ELSE [r EXCEPT !.cmd = "", !.from = <<>>] : r \in stmts}
=============================================================================
