------------------------------ MODULE GypDicts ------------------------------
(***************************************************************************)
(* gyp/input.py: the operations on the dicts of a build file: merging      *)
(* (MergeDicts, MergeLists), configurations, the filters "sources!" and    *)
(* "sources/", toolsets, and the checks of a finished target.              *)
(*                                                                         *)
(* A Python value is a record whose one field says its type.  A string is  *)
(* a sequence of tokens (the components of a path, words, blanks, variable *)
(* references), a key a pair of its name and its suffix character, and a   *)
(* regular expression the set of strings it matches.                       *)
(***************************************************************************)
EXTENDS Naturals, Sequences, FiniteSets, TLC, EagerFold
LOCAL INSTANCE SequencesExt
LOCAL INSTANCE FiniteSetsExt

CONSTANTS
  Dashes,       \* the tokens that begin with '-'
  Absolute,     \* the tokens that begin with one of / $ < > ^
  SplitExt,     \* file name -> its root, its extension, the extension without the dot
  ConfigOrder,  \* the names of configurations, sorted
  Generator     \* what the generator adds: its path_sections, its non_configuration_keys
                \* and the keys of its extra_sources_for_rules

Str(s) == [str |-> s]
Num(n) == [int |-> n]
List(s) == [list |-> s]
Dict(d) == [dict |-> d]
Raise(e) == [err |-> e]

IsStr(v) == "str" \in DOMAIN v
IsInt(v) == "int" \in DOMAIN v
IsList(v) == "list" \in DOMAIN v
IsDict(v) == "dict" \in DOMAIN v
IsErr(v) == "err" \in DOMAIN v
IsScalar(v) == IsStr(v) \/ IsInt(v)

Key(name) == <<name, "">>
EmptyDict == Dict(<<>>)
Has(v, k) == k \in DOMAIN v.dict
Set(v, k, x) == Dict((k :> x) @@ v.dict)
Del(v, ks) == Dict([k \in DOMAIN v.dict \ ks |-> v.dict[k]])
Get(v, k, default) == IF Has(v, k) THEN v.dict[k] ELSE default
GetList(v, k) == Get(v, k, List(<<>>)).list
TrueValues == {Num("1"), Str(<<"yes">>)}

\* The elements of a set, for a loop in which their order makes no difference.
InSomeOrder(set) == FoldSet(LAMBDA x, s : Append(s, x), <<>>, set)
\* A loop that an exception leaves.
Loop(op(_, _), v, s) == Fold(LAMBDA a, x : IF IsErr(a) THEN a ELSE op(a, x), v, s)
\* What follows unless v is an exception.
Then(v, op(_)) == With(LAMBDA x : IF IsErr(x) THEN x ELSE op(x), v)

-----------------------------------------------------------------------------
\* Paths: os.path.normpath, os.path.dirname and gyp.common.RelativePath.
NormPath(p) ==
  Fold(LAMBDA out, c : IF c = ".." /\ out # <<>> /\ Last(out) # ".." THEN Front(out) ELSE Append(out, c),
       <<>>, p)
DirName(p) == Front(p)
RelativePath(p, relative_to) ==
  LET n == Len(LongestCommonPrefix({p, relative_to}))
  IN  [i \in 1..(Len(relative_to) - n) |-> ".."] \o SubSeq(p, n + 1, Len(p))

path_sections == {"destination", "files", "include_dirs", "inputs", "libraries", "outputs", "sources"} \union Generator.path_sections
EndsWith(s, end) == Len(s) >= Len(end) /\ SubSeq(s, Len(s) - Len(end) + 1, Len(s)) = end

\* A regular expression ("/") is never a path.
IsPathSection(k) ==
  /\ k[2] # "/"
  /\ k[1] \in path_sections \/ \E end \in {"_dir", "_dirs", "_file", "_files", "_path", "_paths"} : EndsWith(k[1], end)

MakePathRelative(to, fro, item) ==
  IF to = fro \/ item.str[1] \in Dashes \union Absolute THEN item
  ELSE Str(NormPath(RelativePath(DirName(fro), DirName(to)) \o item.str))

-----------------------------------------------------------------------------
RECURSIVE MergeLists(_, _, _, _, _, _)
RECURSIVE MergeDicts(_, _, _, _)

\* A string that begins with '-' may occur several times in a list.
Singleton(item) == IsInt(item) \/ (IsStr(item) /\ (item.str = <<>> \/ item.str[1] \notin Dashes))

\* The item as it goes into the other list: a copy with its paths fixed.
ToItem(item, to, fro, is_paths) ==
  CASE IsStr(item)  -> IF is_paths THEN MakePathRelative(to, fro, item) ELSE item
    [] IsDict(item) -> MergeDicts(EmptyDict, item, to, fro)
    [] IsList(item) -> Then(MergeLists(<<>>, item.list, to, fro, FALSE, TRUE), LAMBDA m : List(m.list))
    [] OTHER        -> item

\* list.insert: past the end it appends.
Inserted(s, index, x) ==
  IF index >= Len(s) THEN Append(s, x) ELSE SubSeq(s, 1, index) \o <<x>> \o SubSeq(s, index + 1, Len(s))

AppendItem(s, singleton, x) ==
  IF singleton /\ \E i \in DOMAIN s : s[i] = x THEN s ELSE Append(s, x)

PrependItem(s, index, singleton, x) ==
  Inserted(IF singleton THEN Filtered(LAMBDA y : y # x, s) ELSE s, index, x)

\* The list `to` with the items of fro, appended or put in front in their order.
MergeLists(to, fro, to_file, fro_file, is_paths, append) ==
  Fold(LAMBDA acc, item :
         IF IsErr(acc) THEN acc
         ELSE Then(ToItem(item, to_file, fro_file, is_paths), LAMBDA x :
                [list  |-> IF append THEN AppendItem(acc.list, Singleton(item), x)
                           ELSE PrependItem(acc.list, acc.index, Singleton(item), x),
                 index |-> acc.index + 1]),
       [list |-> to, index |-> 0], fro)

\* May v be merged into the value the key already has?
MayMerge(v, old) ==
  IF IsScalar(v) THEN IsScalar(old) ELSE DOMAIN v = DOMAIN old

ListBase(k) == IF k[2] \in {"=", "+", "?"} THEN Key(k[1]) ELSE k

\* The keys that may not stand next to k in the dict merged from.
Incompatible(k) ==
  CASE k[2] = "=" -> {<<k[1], "">>, <<k[1], "?">>}
    [] k[2] = "+" -> {<<k[1], "=">>, <<k[1], "?">>}
    [] k[2] = "?" -> {<<k[1], "">>, <<k[1], "=">>, <<k[1], "+">>}
    [] k[2] = ""  -> {<<k[1], "=">>, <<k[1], "?">>}
    [] OTHER      -> {}

MergeListKey(to, fro, k, v, to_file, fro_file) ==
  LET base == ListBase(k)
      old  == IF k[2] = "=" THEN List(<<>>) ELSE Get(to, base, List(<<>>))
  IN  IF Incompatible(k) \intersect DOMAIN fro.dict # {} THEN Raise("GypError")
      ELSE IF k[2] = "?" /\ Has(to, base) THEN to
      ELSE IF ~IsList(old) THEN Raise("TypeError")
      ELSE Then(MergeLists(old.list, v.list, to_file, fro_file, IsPathSection(base), k[2] # "+"),
                LAMBDA m : Set(to, base, List(m.list)))

MergeKey(to, fro, k, to_file, fro_file) ==
  LET v == fro.dict[k]
  IN  CASE Has(to, k) /\ ~MayMerge(v, to.dict[k]) -> Raise("TypeError")
        [] OTHER ->
           CASE IsScalar(v) -> Set(to, k, IF IsStr(v) /\ IsPathSection(k)
                                          THEN MakePathRelative(to_file, fro_file, v) ELSE v)
             [] IsDict(v)   -> Then(MergeDicts(Get(to, k, EmptyDict), v, to_file, fro_file),
                                    LAMBDA d : Set(to, k, d))
             [] IsList(v)   -> MergeListKey(to, fro, k, v, to_file, fro_file)
             [] OTHER       -> Raise("TypeError")

\* fro.iteritems() comes in the order of a hash table: `keys` is one.
MergeDictsIn(to, fro, to_file, fro_file, keys) ==
  Loop(LAMBDA acc, k : MergeKey(acc, fro, k, to_file, fro_file), to, keys)

MergeDicts(to, fro, to_file, fro_file) ==
  MergeDictsIn(to, fro, to_file, fro_file, InSomeOrder(DOMAIN fro.dict))

-----------------------------------------------------------------------------
\* Configurations.
RECURSIVE MergeConfigWithInheritance(_, _, _, _, _)

MergeConfigWithInheritance(new, file, target, configuration, visited) ==
  IF configuration \in Range(visited) THEN new
  ELSE LET own == target.dict[Key("configurations")].dict[configuration]
       IN  Then(Loop(LAMBDA d, parent : MergeConfigWithInheritance(d, file, target, Key(parent.str[1]),
                                                                   Append(visited, configuration)),
                     new, GetList(own, Key("inherit_from"))),
                LAMBDA parents : Then(MergeDicts(parents, own, file, file),
                                      LAMBDA d : Del(d, {Key("abstract")})))

non_configuration_keys ==
  {"actions", "configurations", "copies", "default_configuration", "dependencies", "dependencies_original",
   "link_languages", "libraries", "postbuilds", "product_dir", "product_extension", "product_name",
   "product_prefix", "rules", "run_as", "sources", "standalone_static_library", "suppress_wildcard",
   "target_name", "toolset", "toolsets", "type", "variants", "variables"} \union Generator.non_configuration_keys
invalid_configuration_keys ==
  {"actions", "all_dependent_settings", "configurations", "dependencies", "direct_dependent_settings",
   "libraries", "link_settings", "sources", "standalone_static_library", "target_name", "type"}

StaysInTarget(k) == k[1] \in non_configuration_keys
Abstract(config) == Get(config, Key("abstract"), Num("0")) \in TrueValues
ConfigNames(target) == DOMAIN target.dict[Key("configurations")].dict

\* A single configuration if there is none, and the first concrete one as the default.
DefaultConfigurations(target) ==
  LET t == IF Has(target, Key("configurations")) THEN target
           ELSE Set(target, Key("configurations"), Dict(Key("Default") :> EmptyDict))
      concrete == {c \in ConfigNames(t) : ~Abstract(t.dict[Key("configurations")].dict[c])}
      first == CHOOSE i \in DOMAIN ConfigOrder :
                 /\ Key(ConfigOrder[i]) \in concrete
                 /\ \A j \in 1..(i - 1) : Key(ConfigOrder[j]) \notin concrete
  IN  CASE Has(t, Key("default_configuration")) -> t
        [] concrete = {}                        -> Raise("IndexError")
        [] OTHER -> Set(t, Key("default_configuration"), Str(<<ConfigOrder[first]>>))

\* Mutant: an abstract configuration is set up too.
SetUpConfiguration_All(t, file, c) ==
  LET configs == t.dict[Key("configurations")]
      base    == Del(t, {k \in DOMAIN t.dict : StaysInTarget(k)})
  IN  Then(MergeConfigWithInheritance(base, file, t, c, <<>>),
           LAMBDA d : Set(t, Key("configurations"), Set(configs, c, d)))

\* One configuration: the target's own settings, then those of the parents, then its own.
SetUpConfiguration(t, file, c) ==
  LET configs == t.dict[Key("configurations")]
      base    == Del(t, {k \in DOMAIN t.dict : StaysInTarget(k)})
  IN  IF Abstract(configs.dict[c]) THEN t
      ELSE Then(MergeConfigWithInheritance(base, file, t, c, <<>>),
                LAMBDA d : Set(t, Key("configurations"), Set(configs, c, d)))

DropMoved(t) ==
  LET configs == t.dict[Key("configurations")]
      kept    == Del(configs, {c \in DOMAIN configs.dict : Abstract(configs.dict[c])})
  IN  Set(Del(t, {k \in DOMAIN t.dict : ~StaysInTarget(k)}), Key("configurations"), kept)

CheckConfigurations(t) ==
  IF \E c \in ConfigNames(t) : \E k \in DOMAIN t.dict[Key("configurations")].dict[c].dict :
       k[2] = "" /\ k[1] \in invalid_configuration_keys
  THEN Raise("GypError") ELSE t

\* `order` is the order in which the hash table gives the configurations.
SetUpConfigurations(target, file, order) ==
  Then(DefaultConfigurations(target), LAMBDA t :
    Then(Loop(LAMBDA a, c : SetUpConfiguration(a, file, c), t, order),
         LAMBDA u : CheckConfigurations(DropMoved(u))))

-----------------------------------------------------------------------------
\* Filters: "sources!" names items to exclude, "sources/" is a list of
\* <<action, regular expression>>.
RECURSIVE ProcessListFiltersInDict(_)
RECURSIVE ProcessListFiltersInList(_)

Excludes(the_dict, k) == Get(the_dict, <<k[1], "!">>, List(<<>>))
Regexes(the_dict, k) == Get(the_dict, <<k[1], "/">>, List(<<>>))

\* What the lists say of an item: -1 nothing, 0 excluded, 1 included; the last word counts.
ListAction(item, excludes, regexes) ==
  Fold(LAMBDA action, r : IF item \in r.list[2].re
                          THEN (IF r.list[1].str = <<"exclude">> THEN "out" ELSE "in") ELSE action,
       IF item \in Range(excludes) THEN "out" ELSE "none", regexes)

BadFilter(the_dict, k) ==
  \/ ~IsList(the_dict.dict[k])
  \/ Has(the_dict, Key(k[1])) /\ ~IsList(the_dict.dict[Key(k[1])])
  \/ k[2] = "/" /\ Has(the_dict, Key(k[1]))
       /\ \E r \in Range(the_dict.dict[k].list) : r.list[1].str \notin {<<"exclude">>, <<"include">>}

\* Mutant: an item that is excluded stays excluded.
FilterList_Sticky(the_dict, k) ==
  LET out(x) == \/ x \in Range(Excludes(the_dict, k).list)
                \/ ListAction(x, <<>>, Regexes(the_dict, k).list) = "out"
      list == the_dict.dict[k].list
      excluded == Filtered(out, list)
      rest == Set(Del(the_dict, {<<k[1], "!">>, <<k[1], "/">>}), k, List(Filtered(LAMBDA x : ~out(x), list)))
  IN  IF Has(the_dict, <<k[1], "_excluded">>) THEN Raise("GypError")
      ELSE IF excluded = <<>> THEN rest ELSE Set(rest, <<k[1], "_excluded">>, List(excluded))

FilterList(the_dict, k) ==
  LET out(x) == ListAction(x, Excludes(the_dict, k).list, Regexes(the_dict, k).list) = "out"
      list == the_dict.dict[k].list
      excluded == Filtered(out, list)
      rest == Set(Del(the_dict, {<<k[1], "!">>, <<k[1], "/">>}), k, List(Filtered(LAMBDA x : ~out(x), list)))
  IN  IF Has(the_dict, <<k[1], "_excluded">>) THEN Raise("GypError")
      ELSE IF excluded = <<>> THEN rest ELSE Set(rest, <<k[1], "_excluded">>, List(excluded))

FilterDict(the_dict) ==
  LET filters == {k \in DOMAIN the_dict.dict : k[2] \in {"!", "/"}}
      lists   == {Key(k[1]) : k \in filters} \intersect DOMAIN the_dict.dict
  IN  IF \E k \in filters : BadFilter(the_dict, k) THEN Raise("ValueError")
      ELSE Loop(FilterList, Del(the_dict, {k \in filters : Key(k[1]) \notin lists}), InSomeOrder(lists))

ProcessListFiltersInDict(the_dict) ==
  Then(FilterDict(the_dict), LAMBDA d :
    Loop(LAMBDA acc, k :
           LET v == d.dict[k]
           IN  CASE IsDict(v) -> Then(ProcessListFiltersInDict(v), LAMBDA x : Set(acc, k, x))
                 [] IsList(v) -> Then(ProcessListFiltersInList(v), LAMBDA x : Set(acc, k, x))
                 [] OTHER     -> acc,
         d, InSomeOrder(DOMAIN d.dict)))

ProcessListFiltersInList(the_list) ==
  Loop(LAMBDA acc, v :
         CASE IsDict(v) -> Then(ProcessListFiltersInDict(v), LAMBDA x : List(Append(acc.list, x)))
           [] IsList(v) -> Then(ProcessListFiltersInList(v), LAMBDA x : List(Append(acc.list, x)))
           [] OTHER     -> List(Append(acc.list, v)),
       List(<<>>), the_list.list)

-----------------------------------------------------------------------------
\* ProcessToolsetsInDict: one copy of a target for each of its toolsets.
Toolsets(target, multiple) ==
  IF multiple THEN Get(target, Key("toolsets"), List(<<Str(<<"target">>)>>)).list ELSE <<Str(<<"target">>)>>

ForToolsets(target, multiple) ==
  LET built(toolset) == Set(Del(target, {Key("toolsets")}), Key("toolset"), toolset)
      toolsets == Toolsets(target, multiple)
  IN  IF Has(target, Key("toolset")) /\ ~Has(target, Key("toolsets")) THEN <<target>>
      ELSE IF toolsets = <<>> THEN <<>>
      ELSE Append(Map(built, Tail(toolsets)), built(Head(toolsets)))

RECURSIVE ProcessToolsetsInDict(_, _)
ProcessToolsetsInDict(data, multiple) ==
  LET targets == Key("targets")
      conditions == Key("conditions")
      cond(c) == IF ~IsList(c) THEN c
                 ELSE List(<<c.list[1]>> \o Map(LAMBDA d : ProcessToolsetsInDict(d, multiple), Tail(c.list)))
      new == IF ~Has(data, targets) THEN data
             ELSE Set(data, targets, List(FlatMap(LAMBDA t : ForToolsets(t, multiple), data.dict[targets].list)))
  IN  IF ~Has(new, conditions) THEN new
      ELSE Set(new, conditions, List(Map(cond, new.dict[conditions].list)))

-----------------------------------------------------------------------------
\* The checks of a finished target.
ValidTypes == {"executable", "loadable_module", "static_library", "shared_library", "none"}
ValidateTargetType(target) ==
  LET type == Get(target, Key("type"), Str(<<"">>)).str[1]
  IN  /\ type \in ValidTypes
      /\ Get(target, Key("standalone_static_library"), Num("0")) \in TrueValues => type = "static_library"

Compiled == {".c", ".cc", ".cpp", ".cxx", ".m", ".mm", ".s", ".S"}
ValidateSourcesInTarget(target) ==
  LET sources == GetList(target, Key("sources"))
      root(i) == SplitExt[Last(sources[i].str)][1]
      compiled == {i \in DOMAIN sources : SplitExt[Last(sources[i].str)][2] \in Compiled}
  IN  Get(target, Key("type"), Str(<<"">>)) = Str(<<"static_library">>) =>
        \A i, j \in compiled : root(i) = root(j) => i = j

ValidateRulesInTarget(target) ==
  LET rules == GetList(target, Key("rules"))
      same(i, j, k) == rules[i].dict[Key(k)] = rules[j].dict[Key(k)]
  IN  /\ \A i, j \in DOMAIN rules : same(i, j, "rule_name") \/ same(i, j, "extension") => i = j
      /\ \A i \in DOMAIN rules : ~Has(rules[i], Key("rule_sources"))

\* The same function then gives each rule the sources it applies to.
SourceFiles(target) == FlatMap(LAMBDA k : GetList(target, Key(k)), <<"sources">> \o Generator.extra_sources_for_rules)
RuleSources(target, rule) ==
  Filtered(LAMBDA s : SplitExt[Last(s.str)][3] = rule.dict[Key("extension")].str[1], SourceFiles(target))
WithRuleSources(target) ==
  LET claim(rule) == IF RuleSources(target, rule) = <<>> THEN rule
                     ELSE Set(rule, Key("rule_sources"), List(RuleSources(target, rule)))
  IN  IF Has(target, Key("rules")) THEN Set(target, Key("rules"), List(Map(claim, GetList(target, Key("rules")))))
      ELSE target

ValidateRunAsInTarget(target) ==
  Get(target, Key("run_as"), EmptyDict) # EmptyDict =>
    LET run_as == target.dict[Key("run_as")]
    IN  /\ IsDict(run_as)
        /\ Has(run_as, Key("action")) /\ IsList(run_as.dict[Key("action")])
        /\ GetList(run_as, Key("action")) # <<>>
        /\ Has(run_as, Key("working_directory")) => IsStr(run_as.dict[Key("working_directory")])
        /\ Has(run_as, Key("environment")) => IsDict(run_as.dict[Key("environment")])

ValidateActionsInTarget(target) ==
  \A i \in DOMAIN GetList(target, Key("actions")) :
    LET action == GetList(target, Key("actions"))[i]
    IN  Has(action, Key("action_name")) /\ Has(action, Key("inputs"))
        /\ (GetList(action, Key("action")) # <<>> => Head(GetList(action, Key("action"))) # Str(<<>>))

\* str(int) everywhere: the generators see no integers.
RECURSIVE TurnIntIntoStr(_)

TurnIntIntoStr(v) ==
  CASE IsInt(v)  -> Str(<<v.int>>)
    [] IsList(v) -> List(Map(TurnIntIntoStr, v.list))
    [] IsDict(v) -> Dict([k \in DOMAIN v.dict |-> TurnIntIntoStr(v.dict[k])])
    [] OTHER     -> v

\* Is one of the tokens, names or suffixes in `bad` anywhere in v?
RECURSIVE Anywhere(_, _)
Anywhere(v, bad) ==
  CASE IsStr(v)  -> Range(v.str) \intersect bad # {}
    [] IsList(v) -> \E i \in DOMAIN v.list : Anywhere(v.list[i], bad)
    [] IsDict(v) -> \E k \in DOMAIN v.dict : k[2] \in bad \/ k[1] \in bad \/ Anywhere(v.dict[k], bad)
    [] IsInt(v)  -> "int" \in bad
    [] OTHER     -> FALSE
=============================================================================
