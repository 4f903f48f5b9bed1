----------------------------- MODULE NinjaWriter ----------------------------
(* generator/ninja.py: the .ninja file of one target, as a set of statements.
   outputs is the map target_outputs from targets to Target objects; None is
   a path or a list that is not there. *)
EXTENDS BuildRules
LOCAL INSTANCE SequencesExt

None == <<>>
NinjaTarget(type) == [type |-> type, preaction_stamp |-> None, precompile_stamp |-> None, actions_stamp |-> None,
                      binary |-> None, bundle |-> None, component_objs |-> {}, import_lib |-> None]
Or(a, b) == IF a # None THEN a ELSE b
FinalOutput(t) == Or(t.bundle, Or(t.binary, t.actions_stamp))
UsesToc(t, flavor) == flavor # "win" /\ t.bundle = None /\ t.type \in {"shared_library", "loadable_module"}

PreActionInput(t, flavor) ==
  IF UsesToc(t, flavor) THEN FinalOutput(t) \o <<"TOC">> ELSE Or(FinalOutput(t), t.preaction_stamp)

\* Mutant: the steps of a dependency are not waited for.
PreCompileInput_Stamp(t) == t.precompile_stamp

PreCompileInput(t) == Or(t.actions_stamp, t.precompile_stamp)

SetOf(path) == IF path = None THEN {} ELSE {path}

-----------------------------------------------------------------------------
\* Paths.
IntermediateDir(spec) == <<"obj", spec.toolset, spec.dir, spec.name, "gen">>
GypPathToNinja(spec, p) ==
  CASE p[1] = "" -> SourceFile(spec, p)
    [] p[1] = "PRODUCT_DIR" -> <<"out", p[2], p[3]>>
    [] p[1] = "CONTENTS" -> <<"out">> \o File(GetBundleContentsFolderPath(spec)) \o <<p[2], p[3]>>
    [] p[1] = "INTERMEDIATE_DIR" -> IntermediateDir(spec) \o <<p[2], p[3]>>
    [] p[1] = "SHARED_INTERMEDIATE_DIR" -> <<"out", "gen", p[2], p[3]>>
NinjaPaths(spec, ps) == [i \in DOMAIN ps |-> GypPathToNinja(spec, ps[i])]

\* The directory of the path, expanded, is kept between the base directory and the name.
ExpandedDir(spec, base) ==
  CASE base \in {"", "PRODUCT_DIR"} -> <<>>
    [] base = "INTERMEDIATE_DIR" -> IntermediateDir(spec)
    [] base = "SHARED_INTERMEDIATE_DIR" -> <<"gen">>

GypPathToUniqueOutput(spec, p) == <<"obj", spec.toolset, spec.dir>> \o ExpandedDir(spec, p[1]) \o <<spec.name, p[2], p[3]>>

\* One file that stands for several.
WriteCollapsedDependencies(spec, name, targets) ==
  LET stamp == GypPathToUniqueOutput(spec, <<"", name, "stamp">>)
  IN  IF targets = <<>> THEN [path |-> None, stmts |-> {}]
      ELSE IF Len(targets) = 1 THEN [path |-> targets[1], stmts |-> {}]
      ELSE [path |-> stamp, stmts |-> {Statement({stamp}, ToSet(targets), {}, "stamp")}]

-----------------------------------------------------------------------------
WriteNinjaActions(spec, actions, prebuild) ==
  [stmts |-> {[Statement(ToSet(NinjaPaths(spec, a.outputs)), ToSet(NinjaPaths(spec, a.inputs)), SetOf(prebuild), "action") EXCEPT !.args = a.command]
              : a \in ToSet(actions)},
   outputs |-> FlatMap(LAMBDA a : NinjaPaths(spec, a.outputs), actions),
   extra_sources |-> ExtraSources(actions), extra_resources |-> ExtraResources(actions)]

WriteNinjaRules(spec, prebuild) ==
  LET expanded(ps, source) == [j \in DOMAIN ps |-> Expand(ps[j], source)]
  IN  WriteNinjaActions(spec,
        FlatMap(LAMBDA rule : [i \in DOMAIN rule.rule_sources |->
                  [rule.step EXCEPT !.inputs = <<rule.rule_sources[i]>> \o expanded(@, rule.rule_sources[i]),
                                    !.outputs = expanded(@, rule.rule_sources[i])]], spec.rules), prebuild)

\* A file that is copied into the target's own bundle is a part of the bundle.
WriteNinjaCopies(spec, flavor, prebuild) ==
  LET pairs == FlatMap(LAMBDA c : [i \in DOMAIN c.files |-> <<GypPathToNinja(spec, <<c.destination, c.files[i][2], c.files[i][3]>>),
                                                               GypPathToNinja(spec, c.files[i])>>], spec.copies)
  IN  [stmts |-> {Statement({pair[1]}, {pair[2]}, SetOf(prebuild), "copy") : pair \in ToSet(pairs)},
       outputs |-> [i \in DOMAIN pairs |-> pairs[i][1]], extra_sources |-> <<>>, extra_resources |-> <<>>,
       mac_bundle_depends |-> IF IsMacBundle(flavor, spec)
                              THEN {pair[1] : pair \in {q \in ToSet(pairs) : IsPrefix(<<"out">> \o File(GetBundleContentsFolderPath(spec)), q[1])}}
                              ELSE {}]

\* The implicit rule of Visual Studio for .idl files, when no rule of the target takes them.
WriteWinIdlFiles(spec, flavor, prebuild) ==
  LET explicit == \E rule \in ToSet(spec.rules) : rule.extension = "idl"
      idls == IF flavor = "win" /\ ~explicit THEN SelectSeq(spec.sources, LAMBDA p : p[3] = "idl") ELSE <<>>
      output(p) == GypPathToNinja(spec, <<"INTERMEDIATE_DIR", p[2], "h">>)
  IN  [stmts |-> {Statement({output(p)}, {GypPathToNinja(spec, p)}, SetOf(prebuild), "idl") : p \in ToSet(idls)},
       outputs |-> [i \in DOMAIN idls |-> output(idls[i])], extra_sources |-> <<>>, extra_resources |-> <<>>]

WriteActionsRulesCopies(spec, flavor, prebuild) ==
  LET copied == WriteNinjaCopies(spec, flavor, prebuild)
      parts == <<WriteNinjaActions(spec, spec.actions, prebuild), WriteNinjaRules(spec, prebuild), copied, WriteWinIdlFiles(spec, flavor, prebuild)>>
      stamp == WriteCollapsedDependencies(spec, "actions_rules_copies", FlatMap(LAMBDA g : g.outputs, parts))
  IN  [stmts |-> stamp.stmts \union UNION {g.stmts : g \in ToSet(parts)}, stamp |-> stamp.path,
       extra_sources |-> FlatMap(LAMBDA g : g.extra_sources, parts), extra_resources |-> FlatMap(LAMBDA g : g.extra_resources, parts),
       mac_bundle_depends |-> copied.mac_bundle_depends]

-----------------------------------------------------------------------------
\* Extension of the object for a source, None for one that is not compiled.
ObjExt(flavor, ext) ==
  CASE ext \in {"c", "cc"} -> IF flavor = "win" THEN <<"obj">> ELSE <<"o">>
    [] ext \in {"s", "S"} /\ flavor # "win" -> <<"o">>
    [] ext = "asm" /\ flavor = "win" -> <<"_asm.obj">>
    [] ext \in {"m", "mm"} /\ flavor = "mac" -> <<"o">>
    [] ext = "rc" /\ flavor = "win" -> <<"res">>
    [] OTHER -> None
NinjaGch(spec, lang) == GypPathToUniqueOutput(spec, spec.prefix_header) \o <<lang, "gch">>

WriteNinjaSources(spec, flavor, sources, predepends, headers) ==
  LET compiled == {p \in ToSet(sources) : ObjExt(flavor, p[3]) # None}
      header == IF spec.prefix_header = None THEN None ELSE GypPathToNinja(spec, spec.prefix_header)
      gch == [lang \in PchLangs |-> NinjaGch(spec, lang)]
      output(p) == GypPathToUniqueOutput(spec, <<p[1], p[2], ObjExt(flavor, p[3])[1]>>)
      obj_ext == IF flavor = "win" THEN "obj" ELSE "o"
  IN  [link_deps |-> {output(p) : p \in compiled} \union {GypPathToNinja(spec, p) : p \in {q \in ToSet(sources) : q[3] = obj_ext}},
       stmts |-> {[Statement({output(p)}, {GypPathToNinja(spec, p)} \union GetObjDependencies(flavor, spec, p[3], gch), SetOf(predepends),
                             IF p[3] = "s" THEN "cc_s" ELSE "cc")
                     EXCEPT !.reads = (IF p[3] = "s" THEN {} ELSE headers) \union (IF Prefixed(flavor, spec) THEN {header} ELSE {}),
                            !.flags = CompileFlags(flavor, spec, LangOf(p[3]))] : p \in compiled}
                 \union (IF sources = <<>> THEN {} ELSE WritePchTargets(flavor, spec, header, gch))]

-----------------------------------------------------------------------------
NinjaExt == [executable |-> "", static_library |-> "a", shared_library |-> "so", loadable_module |-> "so", none |-> "stamp"]
NinjaComputeOutput(spec, flavor) ==
  LET root == {"executable", "loadable_module"}
              \union (IF flavor = "mac" /\ spec.toolset = "target" THEN {"shared_library", "static_library"}
                      ELSE IF flavor = "win" /\ spec.toolset = "target" THEN {"shared_library"} ELSE {})
      filename == IF flavor = "mac" /\ spec.type \in Binaries THEN File(GetExecutablePath(spec)) ELSE <<spec.name, NinjaExt[spec.type]>>
  IN  IF spec.type \in root \/ spec.standalone_static_library THEN <<"out">> \o filename
      ELSE IF spec.type = "shared_library" THEN <<"out", "lib", spec.toolset>> \o filename
      ELSE <<"obj", spec.toolset, spec.dir>> \o filename
NinjaBundleOutput(spec) == <<"out">> \o File(GetWrapperName(spec))
NinjaBundleBinaryOutput(spec) == <<"out">> \o File(GetExecutablePath(spec))

\* What a link takes from one dependency: on the command line, read as a shared library, waited for.
LinkInputs(spec, flavor, t) ==
  LET linkable == t.type \in {"static_library", "shared_library"}
      objs == flavor = "win" /\ t.component_objs # {} /\ spec.dependency_inputs
      import == flavor = "win" /\ ~objs /\ t.import_lib # None
      toc == ~objs /\ ~import /\ UsesToc(t, flavor)
      rest == IF ~linkable \/ FinalOutput(t) # t.binary THEN {FinalOutput(t)} ELSE {}
  IN  IF ~linkable THEN [link |-> {}, solibs |-> {}, implicit |-> rest]
      ELSE [link |-> IF objs THEN t.component_objs ELSE IF import THEN {t.import_lib} ELSE IF toc THEN {} ELSE {t.binary},
            solibs |-> IF toc THEN {t.binary} ELSE {},
            implicit |-> rest \union IF toc THEN {t.binary \o <<"TOC">>} ELSE {}]

WriteLink(spec, flavor, outputs, link_deps) ==
  LET from == {LinkInputs(spec, flavor, outputs[d]) : d \in ToSet(spec.dependencies) \cap DOMAIN outputs}
      bundle == IsMacBundle(flavor, spec)
      output == IF bundle THEN NinjaBundleBinaryOutput(spec) ELSE NinjaComputeOutput(spec, flavor)
      shared == spec.type \in {"shared_library", "loadable_module"}
      import_lib == IF shared /\ flavor = "win" THEN output \o <<"lib">> ELSE None
      written == {output} \union IF ~shared THEN {} ELSE IF flavor = "win" THEN {import_lib} ELSE {output \o <<"TOC">>}
  IN  [binary |-> output, import_lib |-> import_lib,
       stmts |-> {[Statement(written, link_deps \union UNION {i.link \union i.implicit : i \in from}, {}, IF shared THEN "solink" ELSE "link")
                     EXCEPT !.reads = UNION {i.solibs : i \in from},
                            !.flags = LinkFlags(flavor, spec),
                            !.postbuilds = IF bundle THEN <<>> ELSE Postbuilds(spec, flavor, output, output)]}]

\* A target of type none has the stamp of its steps for a binary.
NinjaWriteTarget(spec, flavor, outputs, link_deps, compile_deps) ==
  IF spec.type = "none" THEN [binary |-> compile_deps, import_lib |-> None, stmts |-> {}]
  ELSE IF spec.type = "static_library"
       THEN LET binary == NinjaComputeOutput(spec, flavor)
            IN  [binary |-> binary, import_lib |-> None,
                 stmts |-> {[Statement({binary}, link_deps, SetOf(compile_deps), "alink")
                               EXCEPT !.flags = LinkFlags(flavor, spec), !.postbuilds = Postbuilds(spec, flavor, binary, binary)]}]
       ELSE WriteLink(spec, flavor, outputs, link_deps)

NinjaBundleResources(spec, resources) == WriteMacBundleResources(spec, <<"out">>, NinjaPaths(spec, resources))

NinjaPostbuildSettings(spec) == IF spec.strip_save_file = None THEN <<>> ELSE [CHROMIUM_STRIP_SAVE_FILE |-> spec.strip_save_file]

\* An action gets the variables on its command line, and exported to it.
WriteNewNinjaRule(stmts, env) ==
  LET actions == {r \in stmts : r.cmd = "action"}
  IN  (stmts \ actions) \union Exporting(Expanding(actions, env), env)

NinjaInfoPlist(spec, env) ==
  IF spec.info_plist = None THEN {}
  ELSE WriteMacInfoPlist(spec, <<"out">>, GypPathToNinja(spec, spec.info_plist), GypPathToUniqueOutput(spec, <<"", "Info", "plist">>), env)

WriteMacBundle(spec, wrapper, binary, mac_bundle_depends) ==
  {[Statement({wrapper}, mac_bundle_depends, {}, "bundle") EXCEPT !.postbuilds = Postbuilds(spec, "mac", wrapper, binary)]}

\* What the steps and the compilations of a target wait for.
NinjaDepends(spec, flavor, outputs) ==
  LET known == SelectSeq(spec.dependencies, LAMBDA d : d \in DOMAIN outputs)
      there(paths) == SelectSeq(paths, LAMBDA p : p # None)
  IN  [actions |-> WriteCollapsedDependencies(spec, "actions_depends", there([i \in DOMAIN known |-> PreActionInput(outputs[known[i]], flavor)])),
       compile |-> WriteCollapsedDependencies(spec, "compile_depends", there([i \in DOMAIN known |-> PreCompileInput(outputs[known[i]])]))]

\* The binary and the bundle, once the sources are written; target is None for a target without outputs.
NinjaOutputs(spec, flavor, outputs, envs, depends, arc, src) ==
  LET ready == Or(arc.stamp, depends.actions.path)
      linked == src.link_deps # {} \/ ready # None
      bin == IF linked THEN NinjaWriteTarget(spec, flavor, outputs, src.link_deps, ready) ELSE [binary |-> None, import_lib |-> None, stmts |-> {}]
      bundle == IsMacBundle(flavor, spec)
      wrapper == NinjaBundleOutput(spec)
      resources == IF bundle THEN NinjaBundleResources(spec, spec.mac_bundle_resources \o arc.extra_resources) ELSE {}
      plist == IF bundle THEN NinjaInfoPlist(spec, envs.plist) ELSE {}
      parts == UNION {r.outs : r \in {q \in resources \union plist : q.cmd = "mac_tool"}} \union SetOf(bin.binary) \union arc.mac_bundle_depends
  IN  [stmts |-> PostbuildEnv(bin.stmts, envs.postbuilds) \union resources \union plist
                 \union IF bundle THEN PostbuildEnv(WriteMacBundle(spec, wrapper, bin.binary, parts), envs.postbuilds) ELSE {},
       target |-> IF ~linked /\ ~bundle THEN None
                  ELSE <<[NinjaTarget(spec.type) EXCEPT !.preaction_stamp = depends.actions.path, !.precompile_stamp = depends.compile.path,
                            !.actions_stamp = arc.stamp, !.binary = bin.binary, !.import_lib = bin.import_lib,
                            !.bundle = IF bundle THEN wrapper ELSE None,
                            !.component_objs = IF flavor = "win" /\ spec.type = "static_library" THEN src.link_deps ELSE {}]>>]

\* The whole of WriteSpec: what is waited for, then the steps, the sources, and what is made of them.
WriteSpec(spec, flavor, outputs, headers, envs) ==
  With(LAMBDA depends :
    With(LAMBDA arc :
      With(LAMBDA src :
        With(LAMBDA out :
          [out EXCEPT !.stmts = @ \union depends.actions.stmts \union depends.compile.stmts
                                  \union WriteNewNinjaRule(arc.stmts, envs.steps) \union src.stmts],
          NinjaOutputs(spec, flavor, outputs, envs, depends, arc, src)),
        WriteNinjaSources(spec, flavor, spec.sources \o arc.extra_sources, Or(arc.stamp, depends.compile.path), headers)),
      WriteActionsRulesCopies(spec, flavor, depends.actions.path)),
    NinjaDepends(spec, flavor, outputs))

\* Short names and "all", written when every target is.
ShortNames(specs, outputs, all_targets) ==
  {Phony(specs[t].name, {FinalOutput(outputs[t])}) : t \in {u \in DOMAIN outputs : specs[u].toolset = "target"}}
    \union (IF DOMAIN outputs \cap all_targets = {} THEN {}
            ELSE {Phony("all", {FinalOutput(outputs[t]) : t \in DOMAIN outputs \cap all_targets})})
=============================================================================
