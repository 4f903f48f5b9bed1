------------------------------ MODULE XcodeEnv ------------------------------
(* xcode_emulation.py: the variables Xcode would set for the build steps of a
   Mac target, in an order in which each can be evaluated.

   names is the order in which Python lists the variables of a dictionary, hash
   the order in which it takes them from a set. *)
EXTENDS Naturals, Sequences, TLC, XcodeSettings
LOCAL INSTANCE SequencesExt

\* Xcode's own variables count before those of the target.
GetXcodeEnv(spec, additional_settings) ==
  LET always == [BUILT_PRODUCTS_DIR |-> Text("builddir"), CONFIGURATION |-> Text("config"), PRODUCT_NAME |-> GetProductName(spec),
                 SRCROOT |-> Text("srcdir"), SOURCE_ROOT |-> <<<<"${", "SRCROOT">>>>, TARGET_BUILD_DIR |-> Text("builddir"),
                 TEMP_DIR |-> <<<<"${", "TMPDIR">>>>,
                 SDKROOT |-> IF GetPerTargetSetting(spec, "SDKROOT", <<>>) = <<>> THEN <<>> ELSE SdkPath(spec)]
      binary == IF spec.type \notin Binaries THEN <<>>
                ELSE [EXECUTABLE_NAME |-> GetExecutableName(spec), EXECUTABLE_PATH |-> GetExecutablePath(spec),
                      FULL_PRODUCT_NAME |-> GetFullProductName(spec), PRODUCT_TYPE |-> GetProductType(spec)]
                     @@ IF GetMachOType(spec) = <<>> THEN <<>> ELSE [MACH_O_TYPE |-> GetMachOType(spec)]
      bundle == IF ~IsBundle(spec) THEN <<>>
                ELSE [CONTENTS_FOLDER_PATH |-> GetBundleContentsFolderPath(spec), UNLOCALIZED_RESOURCES_FOLDER_PATH |-> GetBundleResourceFolder(spec),
                      INFOPLIST_PATH |-> GetBundlePlistPath(spec), WRAPPER_NAME |-> GetWrapperName(spec)]
      install == IF ~HasInstallName(spec) THEN <<>>
                 ELSE [LD_DYLIB_INSTALL_NAME |-> GetInstallName(spec), DYLIB_INSTALL_NAME_BASE |-> GetInstallNameBase(spec)]
      env == (always @@ binary @@ bundle @@ install) @@ additional_settings
  IN  [k \in DOMAIN env |-> NormalizeEnvVarReferences(env[k])]

-----------------------------------------------------------------------------
RECURSIVE Visit(_, _, _)
Visit(edges, s, node) ==
  IF s.raised THEN s
  ELSE IF node \in s.visiting THEN [s EXCEPT !.raised = TRUE]
  ELSE IF node \in s.visited THEN s
  ELSE With(LAMBDA t : IF t.raised THEN t ELSE [t EXCEPT !.visiting = @ \ {node}, !.ordered_nodes = <<node>> \o @],
            Fold(LAMBDA t, neighbor : Visit(edges, t, neighbor),
                 [s EXCEPT !.visited = @ \union {node}, !.visiting = @ \union {node}], edges[node]))

TopologicallySorted(graph, edges) ==
  Fold(LAMBDA s, node : Visit(edges, s, node), [visited |-> {}, visiting |-> {}, ordered_nodes |-> <<>>, raised |-> FALSE], graph)

UsedBy(env, k) == {v \in DOMAIN env : <<"${", v>> \in ToSet(env[k])}

\* Mutant: the order is that of the sort, in which users come first.
TopologicallySortedEnvVarKeys_Users(env, names, hash) ==
  LET present(k) == k \in DOMAIN env
      s == TopologicallySorted(SelectSeq(names, present), [k \in DOMAIN env |-> SelectSeq(hash, LAMBDA v : v \in UsedBy(env, k))])
  IN  [raised |-> s.raised, keys |-> s.ordered_nodes]

\* A variable after those its value refers to.
TopologicallySortedEnvVarKeys(env, names, hash) ==
  LET present(k) == k \in DOMAIN env
      s == TopologicallySorted(SelectSeq(names, present), [k \in DOMAIN env |-> SelectSeq(hash, LAMBDA v : v \in UsedBy(env, k))])
  IN  [raised |-> s.raised, keys |-> Reverse(s.ordered_nodes)]

\* The pairs of name and value; a cycle raises.
GetSortedXcodeEnv(spec, additional_settings, names, hash) ==
  With(LAMBDA env : With(LAMBDA sorted : [raised |-> sorted.raised,
                                          pairs |-> [i \in DOMAIN sorted.keys |-> <<sorted.keys[i], env[sorted.keys[i]]>>]],
                         TopologicallySortedEnvVarKeys(env, names, hash)),
       GetXcodeEnv(spec, additional_settings))

\* Users of a variable are expanded before it, so one pass is enough.
ExpandEnvVars(value, expansions) ==
  Fold(LAMBDA v, e : FlatMap(LAMBDA part : IF Reference(part) /\ part[2] = e[1] THEN e[2] ELSE <<part>>, v), value, Reverse(expansions))
=============================================================================
