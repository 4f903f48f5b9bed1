----------------------------- MODULE BuildRules -----------------------------
(* What the make and the ninja generators of gyp have in common: targets, the
   statements of a build file, and the parts of xcode_emulation.py that decide
   which statements a target gets.

   A path in a target is <<base, root, ext>>; base is "" (the directory of the
   .gyp file) or a directory variable.  A file of the build is a tuple of
   strings; files of the source tree start with "srcdir" in both generators.
   A statement makes outs from ins once order is made, by running cmd, which
   writes `writes` and reads `reads` besides ins, with the variables env exported,
   args and flags on its command line, and postbuilds after it; cmd = "" only adds to the prerequisites of outs. *)
EXTENDS Naturals, Sequences, FiniteSets, XcodeEnv
LOCAL INSTANCE SequencesExt

Spec0 == [name |-> "", dir |-> "d", file |-> "f", type |-> "none", toolset |-> "target", dependencies |-> <<>>, dependencies_original |-> <<>>,
          actions |-> <<>>, rules |-> <<>>, copies |-> <<>>, sources |-> <<>>, includes |-> {}, standalone_static_library |-> FALSE,
          mac_bundle |-> FALSE, mac_bundle_resources |-> <<>>, info_plist |-> <<>>, plist_defines |-> FALSE,
          prefix_header |-> <<>>, precompile |-> FALSE, postbuilds |-> FALSE, dependency_inputs |-> FALSE,
          product_name |-> <<>>, product_prefix |-> <<>>, product_extension |-> <<>>, xcode_settings |-> <<<<>>>>, strip_save_file |-> <<>>,
          mac_framework_dirs |-> <<>>, libraries |-> <<>>]
Action0 == [inputs |-> <<>>, outputs |-> <<>>, command |-> <<>>, process_outputs_as_sources |-> FALSE, process_outputs_as_mac_bundle_resources |-> FALSE]

Statement(outs, ins, order, cmd) ==
  [outs |-> outs, writes |-> outs, ins |-> ins, order |-> order, cmd |-> cmd, reads |-> {}, from |-> <<>>, postbuilds |-> <<>>,
   env |-> <<>>, args |-> <<>>, flags |-> <<>>]
Phony(name, ins) == Statement({<<"phony", name>>}, ins, {}, "")
Commands(stmts) == {r \in stmts : r.cmd # ""}
SourceFile(spec, p) == <<"srcdir", spec.dir, p[2], p[3]>>

\* Root and extension of a rule's source stand in for the variables of a path.
Expand(p, source) == IF p[2] = "%" THEN <<p[1], source[2], p[3]>> ELSE p
ExtraSources(steps) == FlatMap(LAMBDA a : IF a.process_outputs_as_sources THEN a.outputs ELSE <<>>, steps)
ExtraResources(steps) == FlatMap(LAMBDA a : IF a.process_outputs_as_mac_bundle_resources THEN a.outputs ELSE <<>>, steps)

-----------------------------------------------------------------------------
\* common.py

DeepDependencyTargets(specs, roots) ==
  LET near(t) == ToSet(specs[t].dependencies) \union ToSet(specs[t].dependencies_original)
      reached[n \in 0..Len(specs)] == IF n = 0 THEN roots ELSE reached[n - 1] \union UNION {near(t) : t \in reached[n - 1]}
  IN  reached[Len(specs)] \ roots

AllTargets(specs, build_file) ==
  LET bftargets == {t \in DOMAIN specs : specs[t].file = build_file}
  IN  bftargets \union DeepDependencyTargets(specs, bftargets)

-----------------------------------------------------------------------------
\* xcode_emulation.py; `path` and `pch` are the generator's path conversions.

IsMacBundle(flavor, spec) == spec.mac_bundle /\ flavor = "mac"

\* The resources of a bundle in the products' directory.
GetMacBundleResources(spec, products, resources) ==
  {<<products \o File(GetBundleResourceFolder(spec)) \o <<f[Len(f) - 1], IF f[Len(f)] = "xib" THEN "nib" ELSE f[Len(f)]>>, f>> : f \in ToSet(resources)}

HasSteps(spec) == spec.actions # <<>> \/ spec.rules # <<>> \/ spec.copies # <<>>

\* What gyp refuses to translate: a kind of bundle there is not, a setting of the target
\* that its configurations disagree about, variables in an install name, a format it does not know.
SettingsRaise(spec) ==
  \/ IsBundle(spec) /\ spec.type \notin {"executable", "shared_library", "loadable_module"}
  \/ \E setting \in (IF spec.type # "none" \/ HasSteps(spec) THEN {"SDKROOT"} ELSE {})
                      \union (IF IsBundle(spec) /\ spec.type # "executable" THEN {"WRAPPER_EXTENSION", "FRAMEWORK_VERSION"} ELSE {})
                      \union (IF HasInstallName(spec) THEN {"DYLIB_INSTALL_NAME_BASE", "LD_DYLIB_INSTALL_NAME"} ELSE {}) : PerConfig(spec, setting)
  \/ InstallNameRaises(spec)
  \/ \E settings \in ToSet(spec.xcode_settings) : StripRaises(spec, settings) \/ (spec.sources # <<>> /\ DebugFormatRaises(settings))

\* The target's postbuilds come after those that its settings ask for.
Postbuilds(spec, flavor, output, output_binary) ==
  IF flavor # "mac" THEN <<>>
  ELSE (IF spec.type = "none" THEN <<>> ELSE GetTargetPostbuilds(spec, spec.xcode_settings[1], output_binary))
       \o IF spec.postbuilds THEN <<<<"postbuild", output>>>> ELSE <<>>

\* The variables of the three kinds of steps that have them: actions, rules and
\* copies; the property list; postbuilds.
XcodeEnvs(spec, flavor, postbuild_settings, names, hash) ==
  LET sorted(additional) == IF flavor = "mac" /\ ~SettingsRaise(spec) THEN GetSortedXcodeEnv(spec, additional, names, hash) ELSE [raised |-> FALSE, pairs |-> <<>>]
  IN  [steps |-> sorted(<<>>), plist |-> sorted(GetPerTargetSettings(spec.xcode_settings)), postbuilds |-> sorted(postbuild_settings)]

\* Only what is written is asked for, and can raise.
EnvRaises(spec, flavor, envs) ==
  \/ flavor = "mac" /\ SettingsRaise(spec)
  \/ HasSteps(spec) /\ envs.steps.raised
  \/ IsMacBundle(flavor, spec) /\ spec.info_plist # <<>> /\ envs.plist.raised
  \/ Postbuilds(spec, flavor, <<>>, <<>>) # <<>> /\ envs.postbuilds.raised

Exporting(stmts, env) == {[r EXCEPT !.env = env.pairs] : r \in stmts}
PostbuildEnv(stmts, env) == {IF r.postbuilds # <<>> THEN [r EXCEPT !.env = env.pairs] ELSE r : r \in stmts}
Expanding(stmts, env) == {[r EXCEPT !.args = ExpandEnvVars(@, env.pairs)] : r \in stmts}

\* The plist of a bundle, through the preprocessor when it has defines.
WriteMacInfoPlist(spec, products, info_plist, intermediate_plist, env) ==
  IF spec.info_plist = <<>> THEN {}
  ELSE LET out == products \o File(GetBundlePlistPath(spec))
       IN  IF spec.plist_defines
           THEN {Statement({intermediate_plist}, {info_plist}, {}, "infoplist")}
                  \union Exporting({Statement({out}, {intermediate_plist}, {}, "mac_tool")}, env)
           ELSE Exporting({Statement({out}, {info_plist}, {}, "mac_tool")}, env)

WriteMacBundleResources(spec, products, resources) ==
  {Statement({r[1]}, {r[2]}, {}, "mac_tool") : r \in GetMacBundleResources(spec, products, resources)}

PchLangs == {"c", "cc", "m", "mm"}
Lang == [c |-> "c", cc |-> "cc", m |-> "m", mm |-> "mm"]
HasPch(flavor, spec) == flavor = "mac" /\ spec.prefix_header # <<>> /\ spec.precompile
Prefixed(flavor, spec) == flavor = "mac" /\ spec.prefix_header # <<>> /\ ~spec.precompile

\* Flags of the compilations of a language; gcc's for Objective-C are those of C and its own.
CompileFlags(flavor, spec, lang) ==
  IF flavor # "mac" THEN <<>>
  ELSE LET settings == spec.xcode_settings[1]
           own == [c |-> GetCflagsC(settings), cc |-> GetCflagsCC(settings), m |-> GetCflagsC(settings) \o GetCflagsObjC(settings),
                   mm |-> GetCflagsCC(settings) \o GetCflagsObjCC(settings)]
       IN  GetCflags(spec, settings) \o own[lang]

LinkFlags(flavor, spec) ==
  IF flavor # "mac" THEN <<>>
  ELSE IF spec.type = "static_library" THEN GetLibtoolflags(spec.xcode_settings[1])
  ELSE GetLdflags(spec, spec.xcode_settings[1]) \o AdjustLibraries(spec, spec.libraries)

LangOf(ext) == IF ext \in DOMAIN Lang THEN Lang[ext] ELSE "c"

\* One compiled header for each language, whether the target has sources in it or not.
WritePchTargets(flavor, spec, header, gch) ==
  IF HasPch(flavor, spec) THEN {[Statement({gch[lang]}, {header}, {}, "pch") EXCEPT !.flags = CompileFlags(flavor, spec, lang)] : lang \in PchLangs} ELSE {}

GetObjDependencies(flavor, spec, ext, gch) ==
  IF HasPch(flavor, spec) /\ ext \in DOMAIN Lang THEN {gch[Lang[ext]]} ELSE {}
=============================================================================
