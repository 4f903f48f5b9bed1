----------------------------- MODULE GypTargets -----------------------------
(***************************************************************************)
(* gyp/input.py: what Load makes of the build files once they are read.    *)
(* Each function Load calls is an action; an exception in any of them ends *)
(* the run.  Targets are known by their qualified names, the tokens        *)
(* file ":" name "#" toolset.                                              *)
(***************************************************************************)
EXTENDS GypVars, DependencyGraph
LOCAL INSTANCE SequencesExt

VARIABLES
  files,      \* build file -> its contents, as written
  options,    \* [multiple, circular, adjust, sort]: what the generator asks for;
              \* [roots]: the files with targets; [settings, sound, want]: the author's intent
  phase,      \* the function Load is about to call
  data,       \* build file -> its dict
  targets,    \* qualified name -> its dict
  nodes       \* dependency_nodes: qualified name -> its dependencies, in order

targetVars == <<files, options, phase, data, targets, nodes, graphVars>>

Fail == phase' = "failed"
Failed == phase = "failed"

-----------------------------------------------------------------------------
\* gyp/common.py: names of targets.
ParseQualifiedTarget(s) ==
  LET colons == {i \in DOMAIN s : s[i] = ":"}
      colon  == IF colons = {} THEN 0 ELSE CHOOSE i \in colons : TRUE
      hashes == {i \in DOMAIN s : s[i] = "#"}
  IN  [file    |-> SubSeq(s, 1, colon - 1),
       name    |-> s[colon + 1],
       toolset |-> IF hashes = {} THEN "" ELSE s[Len(s)]]
QualifiedTarget(file, name, toolset) == file \o <<":", name>> \o (IF toolset = "" THEN <<>> ELSE <<"#", toolset>>)
BuildFile(target) == ParseQualifiedTarget(target).file

ResolveTarget(build_file, target, toolset) ==
  LET p == ParseQualifiedTarget(target)
  IN  [file    |-> IF p.file = <<>> THEN build_file ELSE NormPath(DirName(build_file) \o p.file),
       name    |-> p.name,
       toolset |-> IF p.toolset = "" THEN toolset ELSE p.toolset]

-----------------------------------------------------------------------------
\* Loading: includes, toolsets, the early phase, target_defaults.
RECURSIVE LoadBuildFileIncludesIntoDict(_, _)
RECURSIVE LoadBuildFileIncludesIntoList(_, _)

LoadOneBuildFile(path) ==
  IF path \in DOMAIN files THEN LoadBuildFileIncludesIntoDict(files[path], path) ELSE Raise("GypError")

LoadBuildFileIncludesIntoDict(subdict, path) ==
  LET include(d, x) ==
        LET real == NormPath(DirName(path) \o x.str)
        IN  Then(LoadOneBuildFile(real), LAMBDA v : MergeDicts(d, v, path, real))
      child(v) == IF IsDict(v) THEN LoadBuildFileIncludesIntoDict(v, path) ELSE LoadBuildFileIncludesIntoList(v, path)
  IN  Then(Loop(include, Del(subdict, {Key("includes")}), GetList(subdict, Key("includes"))), LAMBDA merged :
        Loop(LAMBDA d, k : Then(child(merged.dict[k]), LAMBDA v : Set(d, k, v)),
             merged, InSomeOrder({k \in DOMAIN merged.dict : ~IsScalar(merged.dict[k])})))

LoadBuildFileIncludesIntoList(sublist, path) ==
  Loop(LAMBDA out, v :
         Then(CASE IsDict(v) -> LoadBuildFileIncludesIntoDict(v, path)
                [] IsList(v) -> LoadBuildFileIncludesIntoList(v, path)
                [] OTHER     -> v,
              LAMBDA x : List(Append(out.list, x))),
       List(<<>>), sublist.list)

\* The targets are merged into copies of the defaults.
WithTargetDefaults(d, path) ==
  LET defaults == Get(d, Key("target_defaults"), EmptyDict)
  IN  IF ~Has(d, Key("target_defaults")) THEN d
      ELSE IF ~Has(d, Key("targets")) THEN Raise("GypError")
      ELSE Then(Loop(LAMBDA out, t : Then(MergeDicts(defaults, t, path, path), LAMBDA x : List(Append(out.list, x))),
                     List(<<>>), d.dict[Key("targets")].list),
                LAMBDA ts : Set(Del(d, {Key("target_defaults")}), Key("targets"), ts))

\* LoadTargetBuildFile for one file.
LoadedFile(path, multiple) ==
  Then(LoadOneBuildFile(path), LAMBDA raw :
    Then(ProcessVariablesAndConditionsInDict(ProcessToolsetsInDict(raw, multiple), PHASE_EARLY, <<>>,
                                             Key("none"), MaxDepth), LAMBDA d :
      WithTargetDefaults(ProcessToolsetsInDict(d, multiple), path)))

LoadFiles ==
  /\ phase = "load"
  /\ LET roots == options.roots
     IN  \E loaded \in {Fold(LAMBDA acc, f : With(LAMBDA v : (f :> v) @@ acc, LoadedFile(f, options.multiple)),
                             <<>>, InSomeOrder(roots))} :
           IF \E f \in roots : IsErr(loaded[f])
           THEN Fail /\ UNCHANGED data
           ELSE phase' = "targets" /\ data' = loaded
  /\ UNCHANGED <<files, options, targets, nodes, graphVars>>

-----------------------------------------------------------------------------
\* BuildTargetsDict
TargetName(f, t) == QualifiedTarget(f, t.dict[Key("target_name")].str[1], t.dict[Key("toolset")].str[1])
TargetList(f) == data[f].dict[Key("targets")].list

BuildTargetsDict ==
  /\ phase = "targets"
  /\ LET places == UNION {{<<f, i>> : i \in DOMAIN TargetList(f)} : f \in DOMAIN data}
         named(p) == TargetName(p[1], TargetList(p[1])[p[2]])
     IN  IF \E p, q \in places : p # q /\ named(p) = named(q)
         THEN Fail /\ UNCHANGED targets
         ELSE /\ targets' = [n \in {named(p) : p \in places} |->
                               LET p == CHOOSE p \in places : named(p) = n IN TargetList(p[1])[p[2]]]
              /\ phase' = "qualify"
  /\ UNCHANGED <<files, options, data, nodes, graphVars>>

\* QualifyDependencies
dependency_sections == {"dependencies", "export_dependent_settings"}
Sections(dict, ops) == {k \in DOMAIN dict.dict : k[1] \in dependency_sections /\ k[2] \in ops}
Toolset(t) == targets[t].dict[Key("toolset")].str[1]

Qualified(t, dep) ==
  LET r == ResolveTarget(BuildFile(t), dep.str, Toolset(t))
  IN  Str(QualifiedTarget(r.file, r.name, IF options.multiple THEN r.toolset ELSE Toolset(t)))

\* An item of a "/" section is a list, which ResolveTarget cannot read: any such item ends the run.
QualifiedSections(t) ==
  Fold(LAMBDA d, k : Set(d, k, List(Map(LAMBDA dep : Qualified(t, dep), d.dict[k].list))),
       targets[t], InSomeOrder(Sections(targets[t], {"", "!"})))

QualifyDependencies ==
  /\ phase = "qualify"
  /\ \E new \in {[t \in DOMAIN targets |-> QualifiedSections(t)]} :
       IF \E t \in DOMAIN new : \E k \in Sections(new[t], {"", "!", "/"}) :
            ~(Range(new[t].dict[k].list) \subseteq Range(GetList(new[t], Key("dependencies"))))
       THEN Fail /\ UNCHANGED targets
       ELSE phase' = "wildcards" /\ targets' = new
  /\ UNCHANGED <<files, options, data, nodes, graphVars>>

-----------------------------------------------------------------------------
\* ExpandWildcardDependencies
IsWildcard(dep) == LET p == ParseQualifiedTarget(dep.str) IN p.name = "*" \/ p.toolset = "*"

Matches(p, t) ==
  /\ Get(t, Key("suppress_wildcard"), Num("0")) \notin TrueValues
  /\ p.name \in {"*", t.dict[Key("target_name")].str[1]}
  /\ p.toolset \in {"*", t.dict[Key("toolset")].str[1]}

ExpandWildcard(dep) ==
  LET p == ParseQualifiedTarget(dep.str)
  IN  IF ~IsWildcard(dep) THEN <<dep>>
      ELSE Map(LAMBDA t : Str(TargetName(p.file, t)), Filtered(LAMBDA t : Matches(p, t), TargetList(p.file)))

ExpandedSections(t) ==
  Fold(LAMBDA d, k : Set(d, k, List(FlatMap(ExpandWildcard, d.dict[k].list))),
       targets[t], InSomeOrder(Sections(targets[t], {""})))

ExpandWildcardDependencies ==
  /\ phase = "wildcards"
  /\ IF \E t \in DOMAIN targets : \E k \in Sections(targets[t], {""}) : \E i \in DOMAIN targets[t].dict[k].list :
          LET dep == targets[t].dict[k].list[i]
          IN  IsWildcard(dep) /\ (BuildFile(dep.str) = BuildFile(t) \/ BuildFile(dep.str) \notin DOMAIN data)
     THEN Fail /\ UNCHANGED targets
     ELSE /\ phase' = "filters"
          /\ \E new \in {[t \in DOMAIN targets |-> ExpandedSections(t)]} : targets' = new
  /\ UNCHANGED <<files, options, data, nodes, graphVars>>

\* The filters of the dependency sections only, then RemoveDuplicateDependencies.
Unify(s) == Fold(LAMBDA out, x : IF x \in Range(out) THEN out ELSE Append(out, x), <<>>, s)

FilteredSections(t) ==
  LET keys == Sections(targets[t], {"", "!", "/"})
      tmp  == Dict([k \in keys |-> targets[t].dict[k]])
  IN  Then(ProcessListFiltersInDict(tmp), LAMBDA d :
        Dict([k \in DOMAIN d.dict |-> IF k[2] = "" THEN List(Unify(d.dict[k].list)) ELSE d.dict[k]]
             @@ Del(targets[t], keys).dict))

FilterDependencies ==
  /\ phase = "filters"
  /\ \E new \in {[t \in DOMAIN targets |-> FilteredSections(t)]} :
       IF \E t \in DOMAIN new : IsErr(new[t]) THEN Fail /\ UNCHANGED targets
       ELSE targets' = new /\ phase' = IF options.circular THEN "circular" ELSE "graph"
  /\ UNCHANGED <<files, options, data, nodes, graphVars>>

-----------------------------------------------------------------------------
\* VerifyNoGYPFileCircularDependencies and BuildDependencyList.
DependenciesOf(t) == Map(LAMBDA d : d.str, GetList(targets[t], Key("dependencies")))
TargetFiles == {BuildFile(t) : t \in DOMAIN targets}
FileDependencies(f) ==
  UNION {{BuildFile(d) : d \in Range(DependenciesOf(t))} : t \in {x \in DOMAIN targets : BuildFile(x) = f}} \ {f}

VerifyNoGYPFileCircularDependencies ==
  /\ phase = "circular"
  /\ IF \E f \in TargetFiles : ~(FileDependencies(f) \subseteq TargetFiles)
     THEN Fail /\ UNCHANGED graphVars
     ELSE phase' = "flatten files" /\ StartFlatten([f \in TargetFiles |-> FileDependencies(f)])
  /\ UNCHANGED <<files, options, data, targets, nodes>>

BuildDependencyList ==
  /\ phase = "graph"
  /\ \E deps \in {[t \in DOMAIN targets |-> DependenciesOf(t)]} :
       IF \E t \in DOMAIN deps : ~(Range(deps[t]) \subseteq DOMAIN targets)
       THEN Fail /\ UNCHANGED <<nodes, graphVars>>
       ELSE /\ nodes' = deps
            /\ phase' = "flatten targets"
            /\ StartFlatten([t \in DOMAIN deps |-> Range(deps[t])])
  /\ UNCHANGED <<files, options, data, targets>>

FlattenToList ==
  /\ phase \in {"flatten files", "flatten targets"}
  /\ \E n \in in_degree_zeros : Pop(n)
  /\ UNCHANGED <<files, options, phase, data, targets, nodes>>

\* VerifyNoCollidingTargets: no two targets of one directory with the same name.
Colliding(s, t) == s # t /\ DirName(BuildFile(s)) = DirName(BuildFile(t))
                   /\ SubSeq(s, Len(BuildFile(s)) + 1, Len(s)) = SubSeq(t, Len(BuildFile(t)) + 1, Len(t))

FlattenEnds ==
  /\ phase \in {"flatten files", "flatten targets"} /\ Flattened
  /\ phase' = CASE Circular -> "failed"
                [] ~Circular /\ phase = "flatten files" -> "graph"
                [] OTHER -> IF \E s, t \in DOMAIN targets : Colliding(s, t) THEN "failed" ELSE "all_dependent_settings"
  /\ UNCHANGED <<files, options, data, targets, nodes, graphVars>>

-----------------------------------------------------------------------------
\* DependencyGraphNode: which targets a target takes settings from.
RECURSIVE DeepDependencies(_, _)
DeepDependencies(t, found) ==
  Fold(LAMBDA acc, d : IF d \in Range(acc) THEN acc ELSE DeepDependencies(d, Append(acc, d)), found, nodes[t])

\* Mutant: what an imported target exports is not imported.
RECURSIVE AddImportedDependencies(_, _)
AddImportedDependencies_Once(deps, index) ==
  IF index > Len(deps) THEN deps
  ELSE Unify(deps \o FlatMap(LAMBDA d : Map(LAMBDA e : e.str, GetList(targets[d], Key("export_dependent_settings"))), deps))

AddImportedDependencies(deps, index) ==
  IF index > Len(deps) THEN deps
  ELSE LET exported == Map(LAMBDA e : e.str, GetList(targets[deps[index]], Key("export_dependent_settings")))
       IN  With(LAMBDA new : AddImportedDependencies(new, index + 1),
                SubSeq(deps, 1, index) \o Filtered(LAMBDA e : e \notin Range(deps), exported)
                  \o SubSeq(deps, index + 1, Len(deps)))

DirectAndImportedDependencies(t) == AddImportedDependencies(nodes[t], 1)

linkable_types == {"executable", "shared_library", "loadable_module"}
Type(t) == targets[t].dict[Key("type")].str[1]
Traverse(t) == Get(targets[t], Key("dependencies_traverse"), Num("1")) \in TrueValues

RECURSIVE LinkDependencies(_, _, _)

LinkDependencies(t, found, initial) ==
  LET added == IF t \in Range(found) THEN found ELSE Append(found, t)
  IN  IF initial /\ Type(t) \notin linkable_types THEN found
      ELSE IF Type(t) = "none" /\ ~Traverse(t) THEN added
      ELSE IF ~initial /\ Type(t) \in {"executable", "loadable_module"} THEN found
      ELSE IF t \in Range(found) \/ (~initial /\ Type(t) \in linkable_types) THEN added
      ELSE Fold(LAMBDA acc, d : LinkDependencies(d, acc, FALSE), added, nodes[t])

-----------------------------------------------------------------------------
\* DoDependentSettings for one key, then the key is taken out of every target.
Providers(t, key) ==
  CASE key = "all_dependent_settings"    -> DeepDependencies(t, <<>>)
    [] key = "direct_dependent_settings" -> DirectAndImportedDependencies(t)
    [] key = "link_settings"             -> LinkDependencies(t, <<>>, TRUE)

\* In the order of flat_list, so that a target's own settings are complete when others take them.
PublishTo(ts, t, key) ==
  LET merge(d, p) == LET own == IF p = t THEN d ELSE ts[p]
                     IN  IF ~Has(own, Key(key)) THEN d
                         ELSE MergeDicts(d, own.dict[Key(key)], BuildFile(t), BuildFile(p))
  IN  With(LAMBDA d : [ts EXCEPT ![t] = d], Loop(merge, ts[t], Providers(t, key)))

NextSettings(key) ==
  CASE key = "all_dependent_settings"    -> "direct_dependent_settings"
    [] key = "direct_dependent_settings" -> "link_settings"
    [] key = "link_settings"             -> IF options.adjust THEN "adjust" ELSE "late"

DoDependentSettings ==
  /\ phase \in {"all_dependent_settings", "direct_dependent_settings", "link_settings"}
  /\ \E new \in {Fold(LAMBDA ts, t : IF \E x \in DOMAIN ts : IsErr(ts[x]) THEN ts ELSE PublishTo(ts, t, phase),
                      targets, flat_list)} :
       IF \E t \in DOMAIN new : IsErr(new[t]) THEN Fail /\ UNCHANGED targets
       ELSE /\ targets' = [t \in DOMAIN new |-> Del(new[t], {Key(phase)})]
            /\ phase' = NextSettings(phase)
  /\ UNCHANGED <<files, options, data, nodes, graphVars>>

-----------------------------------------------------------------------------
\* AdjustStaticLibraryDependencies
Hard(t) == Get(targets[t], Key("hard_dependency"), Num("0")) \in TrueValues

KeptByLibrary(t) ==
  Filtered(LAMBDA d : IF Type(d) = "static_library" THEN Hard(d) ELSE d \in Range(DependenciesOf(t)),
           DirectAndImportedDependencies(t))

SetDependencies(t, deps) ==
  IF deps = <<>> THEN Del(targets[t], {Key("dependencies")})
  ELSE Set(targets[t], Key("dependencies"), List(Map(LAMBDA d : Str(d), deps)))

\* Dependents before their dependencies, if the generator wants that.
Ordered(deps) == IF options.sort THEN Filtered(LAMBDA t : t \in Range(deps), Reverse(flat_list)) ELSE deps

AddLinked(t) ==
  Fold(LAMBDA deps, d : IF d = t \/ d \in Range(deps) THEN deps ELSE Append(deps, d),
       DependenciesOf(t), LinkDependencies(t, <<>>, TRUE))

Adjusted(t) ==
  CASE Type(t) = "static_library" ->
         IF ~Has(targets[t], Key("dependencies")) THEN targets[t]
         ELSE Set(SetDependencies(t, KeptByLibrary(t)), Key("dependencies_original"), targets[t].dict[Key("dependencies")])
    [] Type(t) \in linkable_types -> SetDependencies(t, Ordered(AddLinked(t)))
    [] OTHER -> targets[t]

AdjustStaticLibraryDependencies ==
  /\ phase = "adjust"
  /\ \E new \in {[t \in DOMAIN targets |-> Adjusted(t)]} : targets' = new
  /\ phase' = "late"
  /\ UNCHANGED <<files, options, data, nodes, graphVars>>

-----------------------------------------------------------------------------
\* What Load then does to each target by itself.
TargetConfigs(target) ==
  IF Has(target, Key("configurations")) THEN ConfigNames(target) ELSE {Key("Default")}

Late(target) == ProcessVariablesAndConditionsInDict(target, PHASE_LATE, <<>>, Key("none"), MaxDepth)
LateLate(target) == ProcessVariablesAndConditionsInDict(target, PHASE_LATELATE, <<>>, Key("none"), MaxDepth)

Validated(target) ==
  /\ ValidateTargetType(target)
  /\ ValidateSourcesInTarget(target)
  /\ ValidateRulesInTarget(target)
  /\ ValidateRunAsInTarget(target)
  /\ ValidateActionsInTarget(target)

\* A pass over the targets: new has what became of each, or the exception it raised.
EachTarget(new, next) ==
  /\ IF \E t \in DOMAIN new : IsErr(new[t]) THEN Fail /\ UNCHANGED targets
     ELSE targets' = new /\ phase' = next
  /\ UNCHANGED <<files, options, data, nodes, graphVars>>

LateExpansion ==
  /\ phase = "late"
  /\ \E new \in {[t \in DOMAIN targets |-> Late(targets[t])]} : EachTarget(new, "configurations")

\* Each hash table gives its configurations in an order of its own; one order serves all here.
ConfigurationSetUp ==
  /\ phase = "configurations"
  /\ \E order \in SetToSeqs(UNION {TargetConfigs(targets[t]) : t \in DOMAIN targets}) :
       \E new \in {[t \in DOMAIN targets |->
                       SetUpConfigurations(targets[t], BuildFile(t), Filtered(LAMBDA c : c \in TargetConfigs(targets[t]), order))]} :
         EachTarget(new, "lists")

ListFilters ==
  /\ phase = "lists"
  /\ \E new \in {[t \in DOMAIN targets |-> ProcessListFiltersInDict(targets[t])]} : EachTarget(new, "latelate")

LateLateExpansion ==
  /\ phase = "latelate"
  /\ \E new \in {[t \in DOMAIN targets |-> LateLate(targets[t])]} : EachTarget(new, "validate")

\* The checks, which give the rules their sources, and TurnIntIntoStr.
Validate ==
  /\ phase = "validate"
  /\ \E new \in {[t \in DOMAIN targets |->
                     IF Validated(targets[t]) THEN TurnIntIntoStr(WithRuleSources(targets[t])) ELSE Raise("GypError")]} :
       EachTarget(new, "done")

\* Load has returned, or an exception has ended it.
Returned == phase \in {"done", "failed"} /\ UNCHANGED targetVars

Load ==
  \/ LoadFiles \/ BuildTargetsDict \/ QualifyDependencies \/ ExpandWildcardDependencies \/ FilterDependencies
  \/ VerifyNoGYPFileCircularDependencies \/ BuildDependencyList \/ FlattenToList \/ FlattenEnds
  \/ DoDependentSettings \/ AdjustStaticLibraryDependencies
  \/ LateExpansion \/ ConfigurationSetUp \/ ListFilters \/ LateLateExpansion \/ Validate \/ Returned

TargetsInit ==
  /\ phase = "load"
  /\ data = <<>> /\ targets = <<>> /\ nodes = <<>>
  /\ NoGraph
-----------------------------------------------------------------------------
TargetsTypeOK ==
  /\ phase \in {"load", "targets", "qualify", "wildcards", "filters", "circular", "graph", "flatten files",
                "flatten targets", "all_dependent_settings", "direct_dependent_settings", "link_settings",
                "adjust", "late", "configurations", "lists", "latelate", "validate", "done", "failed"}
  /\ DOMAIN data \subseteq DOMAIN files
  /\ \A t \in DOMAIN targets : IsDict(targets[t]) /\ Has(targets[t], Key("target_name"))
  /\ DOMAIN nodes \in {{}, DOMAIN targets}
  /\ Elements(flat_list) \union in_degree_zeros \subseteq DOMAIN graph

Published == phase = "late"
Before(d, t) == \E i, j \in DOMAIN flat_list : i < j /\ flat_list[i] = d /\ flat_list[j] = t

(* What the targets end up depending on, after DoDependentSettings and
   AdjustStaticLibraryDependencies have changed their dicts, still comes before
   them in the list the generators go through. *)
StillSorted ==
  phase \in {"late", "done"} => \A t \in DOMAIN targets : \A d \in Range(DependenciesOf(t)) : Before(d, t)

\* Reference definitions: least sets, where the code walks the graph with one shared list.
Least(start, step(_)) ==
  CHOOSE s \in SUBSET DOMAIN nodes :
    /\ start \subseteq s /\ \A d \in s : step(d) \subseteq s
    /\ \A r \in SUBSET s : start \subseteq r /\ (\A d \in r : step(d) \subseteq r) => r = s
Links(t) == {d \in Range(nodes[t]) : Type(d) \notin {"executable", "loadable_module"}}
Exported(t) == {e.str : e \in Range(GetList(targets[t], Key("export_dependent_settings")))}
Deep(t) == Least(Range(nodes[t]), LAMBDA d : Range(nodes[d]))
Imported(t) == Least(Range(nodes[t]), Exported)
Linked(t) ==
  IF Type(t) \notin linkable_types THEN {}
  ELSE {t} \union Least(Links(t), LAMBDA d : IF Type(d) \in linkable_types \/ (Type(d) = "none" /\ ~Traverse(d))
                                           THEN {} ELSE Links(d))

(* A target receives the all_dependent_settings of everything it depends on,
   the direct_dependent_settings of its dependencies and of what they export,
   on through any number of exports, and the link_settings of what is linked
   into it; each once, from nobody else, and with a path that means from the
   target's build file what it meant from the provider's.  Each target
   publishes one path under each key, named for the key and itself, in a
   section that holds paths by name, by its ending, or for the generator. *)
PathLists == <<"include_dirs", "search_paths", "mac_framework_headers">>
SettingsReach ==
  Published => \A t \in DOMAIN targets :
    LET got == FlatMap(LAMBDA k : GetList(targets[t], Key(k)), PathLists)
        where(i) == NormPath(DirName(BuildFile(t)) \o got[i].str)
        from(key, p) == DirName(BuildFile(p)) \o <<options.settings[key], ParseQualifiedTarget(p).name>>
        due == UNION {{from(key, p) : p \in CASE key = "all_dependent_settings" -> Deep(t)
                                             [] key = "direct_dependent_settings" -> Imported(t)
                                             [] key = "link_settings" -> Linked(t)} : key \in DOMAIN options.settings}
    IN  {where(i) : i \in DOMAIN got} = due /\ Len(got) = Cardinality(due)

(* After the adjustment a static library waits for no other static library
   but the hard ones, and for every hard one that it or something it imports
   names; a linkable target waits for everything that is linked into it. *)
LibrariesAdjusted ==
  Published /\ options.adjust => \A t \in DOMAIN targets :
    LET deps == Range(DependenciesOf(t))
        libraries == {d \in Imported(t) : Type(d) = "static_library"}
    IN  /\ Type(t) = "static_library" => deps \intersect libraries = {d \in libraries : Hard(d)}
        /\ Linked(t) \ {t} \subseteq deps

(* When Load returns, nothing is left in the targets that a generator does not
   understand: no wildcard, no reference of any phase, no condition, no filter,
   no dependent settings, no integer. *)
NothingUnresolved ==
  phase = "done" => \A t \in DOMAIN targets :
    ~Anywhere(targets[t], DOMAIN Ref \union {"*", "!", "/", "conditions", "target_conditions", "includes", "toolsets",
                                             "all_dependent_settings", "direct_dependent_settings",
                                             "link_settings", "int"})

(* Of the filters that apply to an item the last one decides: it stays in its
   list if no regular expression matches and no "!" list names it, or if the
   last expression that matches says "include"; and it is in the list or in the
   _excluded list, in its order. *)
LastWordCounts ==
  [][phase = "lists" /\ phase' = "latelate" =>
       \A t \in DOMAIN targets : \A k \in {x \in DOMAIN targets[t].dict : x[2] = "" /\ IsList(targets[t].dict[x])} :
         LET old == targets[t].dict[k].list
             excludes == Range(Excludes(targets[t], k).list)
             regexes == Regexes(targets[t], k).list
             hits(x) == {i \in DOMAIN regexes : x \in regexes[i].list[2].re}
             stays(x) == IF hits(x) = {} THEN x \notin excludes
                         ELSE regexes[CHOOSE i \in hits(x) : \A j \in hits(x) : j <= i].list[1].str = <<"include">>
         IN  (excludes # {} \/ regexes # <<>>) =>
               /\ targets'[t].dict[k].list = SelectSeq(old, stays)
               /\ Get(targets'[t], <<k[1], "_excluded">>, List(<<>>)).list = SelectSeq(old, LAMBDA x : ~stays(x))]_targetVars

(* MergeDicts goes through a hash table: an included file gives the same
   result, or an error, whatever the order of its keys. *)
MergeOrderFree ==
  phase = "load" => \A f \in DOMAIN files : \A g \in Range(GetList(files[f], Key("includes"))) :
    LET path == NormPath(DirName(f) \o g.str)
        merged == {LET r == MergeDictsIn(Del(files[f], {Key("includes")}), files[path], f, path, keys)
                   IN  IF IsErr(r) THEN Raise("error") ELSE r : keys \in SetToSeqs(DOMAIN files[path].dict)}
    IN  path \in DOMAIN files => Cardinality(merged) = 1

\* A configuration that others inherit from and that is not abstract.
ConcreteParent(target) ==
  Has(target, Key("configurations")) /\
    LET configs == target.dict[Key("configurations")].dict
    IN  \E c, d \in DOMAIN configs : ~Abstract(configs[d]) /\ Str(<<d[1]>>) \in Range(GetList(configs[c], Key("inherit_from")))

(* SetUpConfigurations builds the configurations one after the other in the
   order of a hash table, and each overwrites its old dict: the order makes no
   difference as long as what is inherited from is abstract. *)
ConfigOrderFree ==
  phase = "configurations" => \A t \in DOMAIN targets :
    ~ConcreteParent(targets[t]) =>
      Cardinality({SetUpConfigurations(targets[t], BuildFile(t), order) : order \in SetToSeqs(TargetConfigs(targets[t]))}) = 1

(* In a target that Load returns no source is claimed by two rules, and every
   source whose extension has a rule is claimed by it; so are the files of other
   lists that the generator has rules apply to. *)
RulesClaimOnce ==
  phase = "done" => \A t \in DOMAIN targets :
    LET rules == GetList(targets[t], Key("rules"))
        claims(s) == {i \in DOMAIN rules : s \in Range(GetList(rules[i], Key("rule_sources")))}
    IN  \A s \in UNION {Range(GetList(targets[t], Key(k))) : k \in {"sources"} \union Range(Generator.extra_sources_for_rules)} :
          /\ Cardinality(claims(s)) <= 1
          /\ (\E i \in DOMAIN rules : rules[i].dict[Key("extension")].str = <<SplitExt[Last(s.str)][3]>>) => claims(s) # {}

(* A project ends as its author intends: one with a fault is refused, one
   without is accepted, and a target named in options.want gets the defines
   the author wants, through variables of every phase, defaults, conditions,
   inheritance and includes. *)
AsIntended ==
  /\ phase = "failed" => ~options.sound
  /\ phase = "done" => options.sound
  /\ phase = "done" => \A w \in options.want :
       targets[w.target].dict[Key("configurations")].dict[Key(w.config)].dict[Key("defines")].list = w.defines

(* What a target is given by others, settings and libraries, is what the
   dependencies and exports between them and it call for, and nothing else; and
   it still comes after what it depends on. *)
GivenByOthers == SettingsReach /\ LibrariesAdjusted /\ StillSorted

(* The order of Python's hash tables shows in no result: not in what is merged, nor
   in configurations that inherit from abstract ones. *)
AnyOrder == MergeOrderFree /\ ConfigOrderFree

(* A project is accepted or refused as its author intends, and one that is accepted
   has the defines that are wanted, each source claimed by its rule, and
   nothing left to be resolved. *)
ResolvedAsIntended == TargetsTypeOK /\ AsIntended /\ RulesClaimOnce /\ NothingUnresolved
=============================================================================
