------------------------------ MODULE GypVars -------------------------------
(***************************************************************************)
(* gyp/input.py: variable expansion and conditions, in three phases that   *)
(* read the references <(v), >(v) and ^(v).  A reference is one token of a *)
(* string; Ref says what the regular expressions find in it.  Scopes are   *)
(* copied, never shared: a list that is a variable is expanded in place by *)
(* the code, but it was expanded where it is defined before any use.       *)
(***************************************************************************)
EXTENDS GypDicts
LOCAL INSTANCE SequencesExt

CONSTANTS
  Ref,          \* token -> [sym, run, list, file, body]; sym is "<", ">" or "^"
  Automatic,    \* token -> key: "_type" names the automatic variable of "type"
  Canonical,    \* the tokens that are integers in canonical form
  Output,       \* command -> what running it prints; "fails" if it exits with an error
  MaxDepth      \* bound: Python's recursion limit

PHASE_EARLY == "<"
PHASE_LATE == ">"
PHASE_LATELATE == "^"

IsRef(token, phase) == token \in DOMAIN Ref /\ Ref[token].sym = phase
\* IsStrCanonicalInt and int().
Typed(v) == IF IsStr(v) /\ Len(v.str) = 1 /\ v.str[1] \in Canonical THEN Num(v.str[1]) ELSE v

Strip(s) ==
  LET words == {i \in DOMAIN s : s[i] # " "}
  IN  IF words = {} THEN <<>>
      ELSE SubSeq(s, CHOOSE i \in words : \A j \in words : i <= j, CHOOSE i \in words : \A j \in words : j <= i)
\* shlex.split, str.split(' '), and EncodePOSIXShellList, which joins.
Split(s) ==
  Fold(LAMBDA out, c : IF c = " " THEN Append(out, <<>>)
                       ELSE [out EXCEPT ![Len(out)] = Append(@, c)], <<<<>>>>, s)
EncodePOSIXShellList(items) ==
  Fold(LAMBDA out, x : out \o (IF out = <<>> THEN <<>> ELSE <<" ">>) \o (IF IsInt(x) THEN <<x.int>> ELSE x.str),
       <<>>, items)

VarName(contents) == IF contents[1] \in DOMAIN Automatic THEN Automatic[contents[1]] ELSE Key(contents[1])

RECURSIVE ExpandVariables(_, _, _, _)
RECURSIVE ProcessVariablesAndConditionsInDict(_, _, _, _, _)
RECURSIVE ProcessVariablesAndConditionsInList(_, _, _, _)

\* What a reference stands for, its contents (already expanded) being `contents`.
Replacement(ref, contents, variables, phase, depth) ==
  CASE ~IsStr(contents) -> Raise("AttributeError")
    [] ref.file -> Str(Split(Strip(contents.str))[1])
    [] ref.run -> IF Output[Strip(contents.str)] = <<"fails">> THEN Raise("GypError")
                  ELSE Str(Output[Strip(contents.str)])
    [] OTHER -> LET name == VarName(Strip(contents.str))
                IN  CASE name \in DOMAIN variables ->
                           LET v == variables[name]
                           IN  CASE IsScalar(v) -> v
                                 [] IsList(v) -> IF name[2] # "/" /\ \E i \in DOMAIN v.list : ~IsScalar(v.list[i])
                                                 THEN Raise("GypError")
                                                 ELSE ProcessVariablesAndConditionsInList(v, phase, variables, depth)
                                 [] OTHER -> Raise("GypError")
                      [] name \notin DOMAIN variables /\ name[2] \in {"!", "/"} -> List(<<>>)
                      [] OTHER -> Raise("GypError")

\* The replacement r of the i-th token: in list context if the token is the whole string.
InContext(s, i, r) ==
  LET shown == CASE IsList(r) -> EncodePOSIXShellList(r.list) [] IsInt(r) -> <<r.int>> [] OTHER -> r.str
  IN  IF Ref[s[i]].list /\ s = <<s[i]>>
      THEN IF IsList(r) THEN r ELSE List(Map(LAMBDA w : Str(w), Split(shown)))
      ELSE Str(SubSeq(s, 1, i - 1) \o shown \o SubSeq(s, i + 1, Len(s)))

\* One match of the loop: `acc` is the string so far.
ExpandMatch(acc, i, phase, variables, depth) ==
  LET ref   == Ref[acc.str[i]]
      seen  == IF ref.file THEN ProcessListFiltersInDict(Dict(variables)) ELSE Dict(variables)
  IN  Then(seen, LAMBDA vs :
        Then(ExpandVariables(Str(ref.body), phase, vs.dict, depth - 1), LAMBDA contents :
          Then(Replacement(ref, contents, variables, phase, depth - 1), LAMBDA r : InContext(acc.str, i, r))))

\* The result is looked at once more, item by item if it is a list of strings.
ExpandAgain(out, phase, variables, depth) ==
  LET again(v) == ExpandVariables(v, phase, variables, depth - 1)
  IN  IF ~IsList(out) THEN again(out)
      ELSE IF out.list # <<>> /\ IsList(out.list[1]) THEN out
      ELSE Loop(LAMBDA acc, item : Then(again(item), LAMBDA x : List(Append(acc.list, x))), List(<<>>), out.list)

\* Right to left over the matches.
ExpandVariables(input, phase, variables, depth) ==
  LET matches == IF IsStr(input) THEN {i \in DOMAIN input.str : IsRef(input.str[i], phase)} ELSE {}
  IN  IF depth = 0 THEN Raise("RuntimeError")
      ELSE IF matches = {} THEN Typed(input)
      ELSE Then(Loop(LAMBDA acc, i : ExpandMatch(acc, i, phase, variables, depth), input,
                     Reverse(SetToSortSeq(matches, LAMBDA i, j : i < j))),
                LAMBDA out : ExpandAgain(out, phase, variables, depth))

-----------------------------------------------------------------------------
LoadAutomaticVariablesFromDict(variables, the_dict) ==
  [name \in {<<k[1], k[2], "_">> : k \in {x \in DOMAIN the_dict.dict : ~IsDict(the_dict.dict[x])}}
     |-> the_dict.dict[<<name[1], name[2]>>]] @@ variables

\* Mutant: a default replaces a value that is already set.
LoadVariablesFromVariablesDict_Always(variables, the_dict, the_dict_key) ==
  LET section == Get(the_dict, Key("variables"), EmptyDict)
  IN  [name \in {Key(k[1]) : k \in {x \in DOMAIN section.dict : ~IsDict(section.dict[x])}}
         |-> IF Has(section, <<name[1], "%">>) THEN section.dict[<<name[1], "%">>] ELSE section.dict[name]] @@ variables

\* A variable written v% is set only where v is not.
LoadVariablesFromVariablesDict(variables, the_dict, the_dict_key) ==
  LET section == Get(the_dict, Key("variables"), EmptyDict)
      usable == {k \in DOMAIN section.dict : ~IsDict(section.dict[k])}
      plain == {k \in usable : k[2] # "%"}
      default == {Key(k[1]) : k \in usable \ plain} \ (DOMAIN variables \union plain)
  IN  [name \in plain \union default |->
         CASE name \in plain -> section.dict[name]
           [] the_dict_key = Key("variables") /\ Has(the_dict, name) /\ name \notin plain -> the_dict.dict[name]
           [] OTHER -> section.dict[<<name[1], "%">>]] @@ variables

\* A condition is <<name, "==", literal>>.
EvalCondition(expr, variables) == variables[VarName(<<expr[1]>>)] = Typed(Str(<<expr[3]>>))
NameError(expr, variables) == VarName(<<expr[1]>>) \notin DOMAIN variables

ProcessCondition(the_dict, condition, phase, variables, depth) ==
  IF ~IsList(condition) \/ Len(condition.list) \notin {2, 3} THEN Raise("GypError")
  ELSE Then(ExpandVariables(condition.list[1], phase, variables, depth - 1), LAMBDA expr :
         IF ~IsStr(expr) THEN Raise("ValueError")
         ELSE IF NameError(expr.str, variables) THEN Raise("NameError")
         ELSE LET branch == IF EvalCondition(expr.str, variables) THEN 2 ELSE 3
              IN  IF branch > Len(condition.list) THEN the_dict
                  ELSE Then(ProcessVariablesAndConditionsInDict(condition.list[branch], phase, variables,
                                                                Key("none"), depth - 1),
                            LAMBDA d : MergeDicts(the_dict, d, <<"f">>, <<"f">>)))

ProcessConditionsInDict(the_dict, phase, variables, depth) ==
  LET key == IF phase = PHASE_EARLY THEN Key("conditions") ELSE Key("target_conditions")
  IN  IF phase = PHASE_LATELATE \/ ~Has(the_dict, key) THEN the_dict
      ELSE Loop(LAMBDA d, c : ProcessCondition(d, c, phase, variables, depth),
                Del(the_dict, {key}), the_dict.dict[key].list)

Variables(the_dict, variables_in, the_dict_key) ==
  LoadVariablesFromVariablesDict(LoadAutomaticVariablesFromDict(variables_in, the_dict), the_dict, the_dict_key)

\* The "variables" section first, with its raw entries in scope.
ProcessVariablesSection(the_dict, phase, variables_in, depth) ==
  LET section == the_dict.dict[Key("variables")]
  IN  IF ~Has(the_dict, Key("variables")) THEN the_dict
      ELSE Then(ProcessVariablesAndConditionsInDict(
                  section, phase, section.dict @@ LoadAutomaticVariablesFromDict(variables_in, the_dict),
                  Key("variables"), depth - 1),
                LAMBDA s : Set(the_dict, Key("variables"), s))

ExpandStrings(the_dict, phase, variables, depth) ==
  Loop(LAMBDA d, k : Then(ExpandVariables(the_dict.dict[k], phase, variables, depth),
                          LAMBDA x : IF IsScalar(x) THEN Set(d, k, x) ELSE Raise("ValueError")),
       the_dict, InSomeOrder({k \in DOMAIN the_dict.dict : k # Key("variables") /\ IsStr(the_dict.dict[k])}))

ProcessChildren(the_dict, phase, variables, depth) ==
  Loop(LAMBDA d, k :
         LET v == the_dict.dict[k]
         IN  Then(IF IsDict(v) THEN ProcessVariablesAndConditionsInDict(v, phase, variables, k, depth - 1)
                  ELSE ProcessVariablesAndConditionsInList(v, phase, variables, depth - 1),
                  LAMBDA x : Set(d, k, x)),
       the_dict, InSomeOrder({k \in DOMAIN the_dict.dict : k # Key("variables") /\ ~IsScalar(the_dict.dict[k])}))

\* The variables are loaded again after each step that may change them.
ProcessVariablesAndConditionsInDict(the_dict, phase, variables_in, the_dict_key, depth) ==
  IF depth = 0 THEN Raise("RuntimeError")
  ELSE Then(ProcessVariablesSection(the_dict, phase, variables_in, depth), LAMBDA d1 :
         Then(ExpandStrings(d1, phase, LET raw == Get(the_dict, Key("variables"), EmptyDict).dict
                                       IN  LoadVariablesFromVariablesDict(
                                             raw @@ LoadAutomaticVariablesFromDict(variables_in, the_dict),
                                             d1, the_dict_key), depth), LAMBDA d2 :
           Then(ProcessConditionsInDict(d2, phase, Variables(d2, variables_in, the_dict_key), depth), LAMBDA d3 :
             ProcessChildren(d3, phase, Variables(d3, variables_in, the_dict_key), depth))))

ProcessVariablesAndConditionsInList(the_list, phase, variables, depth) ==
  Loop(LAMBDA out, item :
         Then(CASE IsDict(item) -> ProcessVariablesAndConditionsInDict(item, phase, variables, Key("none"), depth - 1)
                [] IsList(item) -> ProcessVariablesAndConditionsInList(item, phase, variables, depth - 1)
                [] IsStr(item)  -> Then(ExpandVariables(item, phase, variables, depth),
                                        LAMBDA x : IF IsList(x) THEN [splice |-> x.list] ELSE x)
                [] OTHER        -> item,
              LAMBDA x : IF "splice" \in DOMAIN x THEN List(out.list \o x.splice) ELSE List(Append(out.list, x))),
       List(<<>>), the_list.list)
=============================================================================
