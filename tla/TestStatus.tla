----------------------------- MODULE TestStatus -----------------------------
(***************************************************************************)
(* tools/test.py: the status files.  ParseCondition turns the tokens of an *)
(* expression into a tree, ReadConfigurationInto collects the sections,    *)
(* rules and definitions of a file, and ClassifyTests gives each test the  *)
(* outcomes its rules allow.                                               *)
(*                                                                         *)
(* A token is a string; a pattern of a path is the set of names it         *)
(* matches.  None stands for Python's None and Raise for an exception,     *)
(* which nothing between here and Main catches.                            *)
(***************************************************************************)
EXTENDS Integers, Sequences, FiniteSets, SequencesExt

None == [k |-> "none"]
Raise == [k |-> "raise"]
Constant(v) == [k |-> "const", value |-> v]
Variable(n) == [k |-> "var", name |-> n]
OutcomeExpr(n) == [k |-> "outcome", name |-> n]
Operation(l, op, r) == [k |-> "op", left |-> l, op |-> op, right |-> r]

Punctuation == {"(", ")", "$", ",", "&&", "||", "=="}
IsAlpha(token) == token \notin Punctuation

\* str.lower, on the names written in capitals.
LowerNames == [PASS |-> "pass", FAIL |-> "fail", CRASH |-> "crash", SKIP |-> "skip", SLOW |-> "slow"]
Lower(n) == IF n \in DOMAIN LowerNames THEN LowerNames[n] ELSE n

\* [f(x) for x in s], and their concatenation.
Mapped(f(_), s) == FoldLeft(LAMBDA acc, x : Append(acc, f(x)), <<>>, s)
FlatMapped(f(_), s) == FoldLeft(LAMBDA acc, x : acc \o f(x), <<>>, s)

-----------------------------------------------------------------------------
(* The recursive descent.  Each parser returns the tree and the index after
   it; Scanner.Current raises IndexError at the end of the tokens. *)
Parsed(ast, i) == [ast |-> ast, i |-> i]
Bad(p) == p.ast \in {None, Raise}
Current(toks, i) == IF i <= Len(toks) THEN toks[i] ELSE "eof"

RECURSIVE ParseLogicalExpression(_, _), ParseOperatorExpression(_, _)

ParseAtomicExpression(toks, i) ==
  LET cur == Current(toks, i)
      next == Current(toks, i + 1)
  IN  CASE cur = "eof" -> Parsed(Raise, i)
        [] cur = "true" -> Parsed(Constant(TRUE), i + 1)
        [] cur = "false" -> Parsed(Constant(FALSE), i + 1)
        [] cur = "$" -> IF next = "eof" THEN Parsed(Raise, i)
                        ELSE IF IsAlpha(next) THEN Parsed(Variable(Lower(next)), i + 2)
                        ELSE Parsed(None, i + 1)
        [] cur = "(" -> LET e == ParseLogicalExpression(toks, i + 1)
                        IN  IF Bad(e) THEN e
                            ELSE IF Current(toks, e.i) = "eof" THEN Parsed(Raise, e.i)
                            ELSE IF Current(toks, e.i) = ")" THEN Parsed(e.ast, e.i + 1)
                            ELSE Parsed(None, e.i)
        [] cur \in {")", ",", "&&", "||", "=="} -> Parsed(None, i)
        [] OTHER -> Parsed(OutcomeExpr(Lower(cur)), i + 1)

(* The loop the other three share: operands parsed by P and joined, left to
   right, by the operators in ops. *)
RECURSIVE Joined(_, _, _, _)
Joined(P(_, _), ops, toks, left) ==
  IF Bad(left) \/ Current(toks, left.i) \notin ops THEN left
  ELSE LET right == P(toks, left.i + 1)
       IN  IF Bad(right) THEN right
           ELSE Joined(P, ops, toks,
                       Parsed(Operation(left.ast, Current(toks, left.i), right.ast), right.i))

ParseOperatorExpression(toks, i) ==
  Joined(ParseOperatorExpression, {"=="}, toks, ParseAtomicExpression(toks, i))

\* Mutant: `if` takes all that follows as its condition.
ParseConditionalExpression_Greedy(toks, i) ==
  Joined(ParseLogicalExpression, {"if"}, toks, ParseOperatorExpression(toks, i))

ParseConditionalExpression(toks, i) ==
  Joined(ParseOperatorExpression, {"if"}, toks, ParseOperatorExpression(toks, i))

ParseLogicalExpression(toks, i) ==
  Joined(ParseConditionalExpression, {"&&", "||", ","}, toks, ParseConditionalExpression(toks, i))

ParseCondition(toks) ==
  IF toks = <<>> THEN None
  ELSE LET e == ParseLogicalExpression(toks, 1)
       IN  IF ~Bad(e) /\ e.i <= Len(toks) THEN None ELSE e.ast

-----------------------------------------------------------------------------
\* ListSet, Nothing (what a false `if` gives) and their operations.
ListSet(s) == [k |-> "list", elms |-> s]
Nothing == [k |-> "nothing"]

Intersect(a, b) ==
  IF Raise \in {a, b} THEN Raise ELSE IF Nothing \in {a, b} THEN Nothing
  ELSE ListSet(a.elms \intersect b.elms)

Union(a, b) ==
  IF Raise \in {a, b} THEN Raise ELSE IF a = Nothing THEN b ELSE IF b = Nothing THEN a
  ELSE ListSet(a.elms \union b.elms)

IsEmpty(a) == a = Nothing \/ a.elms = {}

True == Constant(TRUE)
False == Constant(FALSE)
Truth(b) == IF b THEN True ELSE False

RECURSIVE Evaluate(_, _, _), GetOutcomes(_, _, _)

\* True, False or Raise: only Constant and Operation have this method.
Evaluate(e, env, defs) ==
  IF e.k = "const" THEN e
  ELSE IF e.k # "op" THEN Raise
  ELSE CASE e.op \in {"||", ","} ->
              LET l == Evaluate(e.left, env, defs)
              IN  IF l = False THEN Evaluate(e.right, env, defs) ELSE l
         [] e.op = "&&" ->
              LET l == Evaluate(e.left, env, defs)
              IN  IF l = True THEN Evaluate(e.right, env, defs) ELSE l
         [] e.op = "if" -> False
         [] e.op = "==" ->
              LET both == Intersect(GetOutcomes(e.left, env, defs), GetOutcomes(e.right, env, defs))
              IN  IF both = Raise THEN Raise ELSE Truth(~IsEmpty(both))

\* A set, or Raise: only Variable, Outcome and Operation have this method.
GetOutcomes(e, env, defs) ==
  CASE e.k = "var" -> IF e.name \in DOMAIN env THEN ListSet({env[e.name]}) ELSE Nothing
    [] e.k = "outcome" -> IF e.name \in DOMAIN defs THEN GetOutcomes(defs[e.name], env, defs)
                          ELSE ListSet({e.name})
    [] e.k = "op" /\ e.op \in {"||", ","} ->
         Union(GetOutcomes(e.left, env, defs), GetOutcomes(e.right, env, defs))
    [] e.k = "op" /\ e.op = "&&" ->
         Intersect(GetOutcomes(e.left, env, defs), GetOutcomes(e.right, env, defs))
    [] e.k = "op" /\ e.op = "if" ->
         LET c == Evaluate(e.right, env, defs)
         IN  IF c = True THEN GetOutcomes(e.left, env, defs) ELSE IF c = False THEN Nothing ELSE Raise
    [] OTHER -> Raise

-----------------------------------------------------------------------------
(* ReadConfigurationInto, for a file given as a sequence of lines:
   [t |-> "header", toks], [t |-> "rule", path, toks], [t |-> "def", name, toks],
   [t |-> "prefix", path] or [t |-> "other"].  It stops at the first line it
   cannot read, and its callers ignore that it did. *)
Section(condition) == [condition |-> condition, rules |-> <<>>]

WithDef(defs, name, value) ==
  [n \in DOMAIN defs \union {name} |-> IF n = name THEN value ELSE defs[n]]

ReadLine(st, line) ==
  IF st.end # "no" THEN st
  ELSE IF line.t = "prefix" THEN [st EXCEPT !.prefix = line.path]
  ELSE IF line.t = "other" THEN [st EXCEPT !.end = "malformed"]
  ELSE LET value == ParseCondition(line.toks) IN
       CASE value = Raise -> [st EXCEPT !.end = "raised"]
         [] line.t = "header" /\ value # Raise ->
              [st EXCEPT !.sections = Append(@, Section(value))]
         [] line.t # "header" /\ value = None -> [st EXCEPT !.end = "malformed"]
         [] line.t = "rule" /\ ~Bad([ast |-> value]) ->
              [st EXCEPT !.sections[Len(st.sections)].rules =
                           Append(@, [path |-> st.prefix \o line.path, value |-> value])]
         [] line.t = "def" /\ ~Bad([ast |-> value]) ->
              [st EXCEPT !.defs = WithDef(@, Lower(line.name), value)]

ReadConfigurationInto(st, lines) ==
  FoldLeft(ReadLine, [st EXCEPT !.sections = Append(@, Section(True)), !.prefix = <<>>, !.end = "no"],
           lines)

\* GetTestStatus of every suite, into the same sections and definitions.
EmptyConfig == [sections |-> <<>>, defs |-> [n \in {} |-> None], prefix |-> <<>>, end |-> "no"]

GetTestStatus(files) ==
  FoldLeft(LAMBDA st, f : IF st.end = "raised" THEN st ELSE ReadConfigurationInto(st, f),
           EmptyConfig, files)

\* Rule.Contains and TestConfiguration.Contains
PathContains(path, file) ==
  /\ Len(path) <= Len(file)
  /\ \A i \in 1..Len(path) : file[i] \in path[i]

\* Rule.GetOutcomes asserts that the value is a ListSet.
RuleOutcomes(rule, env, defs) ==
  LET s == GetOutcomes(rule.value, env, defs) IN IF s.k = "list" THEN s ELSE Raise

(* The outcomes of each test and the rules no test used, or Raise.  A test no
   rule matches is expected to pass. *)
ClassifyTests(config, tests, env) ==
  LET holds(s) == IF s.condition = None THEN Raise ELSE Evaluate(s.condition, env, config.defs)
      rules == FlatMapped(LAMBDA s : IF holds(s) = True THEN s.rules ELSE <<>>, config.sections)
      matches(t) == {i \in DOMAIN rules : PathContains(rules[i].path, t)}
      sets(t) == {RuleOutcomes(rules[i], env, config.defs) : i \in matches(t)}
      outcomes(t) == UNION {s.elms : s \in sets(t)}
  IN  IF \/ \E i \in DOMAIN config.sections : holds(config.sections[i]) = Raise
         \/ \E i \in DOMAIN tests : Raise \in sets(tests[i])
      THEN Raise
      ELSE [k |-> "classified",
            outcomes |-> Mapped(LAMBDA t : IF outcomes(t) = {} THEN {"pass"} ELSE outcomes(t), tests),
            unused |-> {rules[i].path : i \in DOMAIN rules \ UNION {matches(tests[j]) : j \in DOMAIN tests}}]
=============================================================================
