---------------------------- MODULE MCFlagValues ----------------------------
(* Model of FlagValues for TLC: four small programs, each with its flags, command
   lines and flag files.  Dictionaries are walked in two orders, one the reverse of
   the other, so that of any two names either comes first. *)
EXTENDS FlagValues

W(s) == Word(<<s>>)
Off == [bool |-> FALSE]
In(m, d) == d @@ [module |-> m]
Short(s, d) == [d EXCEPT !.short = s]
Free(d) == [d EXCEPT !.allow_override = TRUE]

SomeDef ==
  [help      |-> In("main", HelpFlag("help", "?")),
   verbose   |-> In("main", Short("v", DEFINE_boolean("verbose", Off))),
   version   |-> In("lib", DEFINE_string("version", None)),
   num       |-> In("lib", Short("n", DEFINE_integer("num", W("3"), {0}, {20}))),
   name      |-> In("main", DEFINE_multi(DEFINE_string("name", W("a")))),
   size      |-> In("main", Short("s", DEFINE_multi(DEFINE_integer("size", [many |-> <<[num |-> 1]>>], {0}, {})))),
   mode      |-> In("main", Short("m", DEFINE_enum("mode", W("fast"), {"fast", "slow"}))),
   dirs      |-> In("main", DEFINE_list("dirs", Word(<<>>))),
   noverbose |-> In("lib", DEFINE_boolean("noverbose", None)),
   ownhelp   |-> In("lib", DEFINE_string("help", W("no"))),
   num2      |-> In("lib", Short("v", DEFINE_integer("num", W("4"), {}, {20}))),
   free      |-> In("lib", Short("n", Free(DEFINE_string("mode", W("x"))))),
   count     |-> In("main", Short("s", DEFINE_integer("num", W("5"), {0}, {20}))),
   bad       |-> In("main", DEFINE_integer("bad", W("99"), {0}, {20})),
   flagfile  |-> In("main", DEFINE_string("flagfile", Word(<<>>))),
   undefok   |-> In("main", DEFINE_string("undefok", Word(<<>>)))]

SomeSpecial == {"flagfile", "undefok"}
SomeFlags == DOMAIN SomeDef \ SomeSpecial
SomeNumerals == [n \in {"0", "1", "2", "3", "4", "5", "7", "16", "99"} |->
                   CHOOSE k \in 0..99 : ToString(k) = n] @@ ("0x10" :> 16)

Forward == <<"?", "dirs", "help", "mode", "m", "name", "n", "noverbose", "num", "s", "size",
             "verbose", "v", "version", "bad">>
Backward == [k \in 1..Len(Forward) |-> Forward[Len(Forward) + 1 - k]]

L(n) == Option(2, n, None)
LV(n, s) == Option(2, n, W(s))
S(n) == Option(1, n, None)
SV(n, s) == Option(1, n, W(s))
FF(f) == LV("flagfile", f)

Nothing == [flags |-> <<>>, defines |-> {}, deletes |-> {}, other |-> {}, keys |-> {}, defaults |-> {},
            assigns |-> {}, resets |-> FALSE, gnu |-> FALSE, saves |-> {}, lines |-> {}, files |-> <<>>,
            orders |-> {Forward, Backward}, steps |-> 0]

\* Modules that define, delete and adopt flags, and that override others' flags.
Registering ==
  [Nothing EXCEPT !.flags = <<"help", "mode">>, !.steps = 4,
     !.defines = {"verbose", "num", "num2", "bad"}, !.deletes = {"verbose", "v"},
     !.keys = {"verbose", "flagfile"}, !.other = {"dirs", "count"}]

Overriding ==
  [Nothing EXCEPT !.flags = <<"help", "mode">>, !.steps = 3,
     !.defines = {"verbose", "ownhelp", "free"}, !.deletes = {"mode", "m"}, !.keys = {"mode"},
     !.other = {"count"}]

\* Prefixes, "no" forms, unknown options and words.
Lines ==
  [Nothing EXCEPT !.flags = <<"help", "verbose", "version", "num">>, !.steps = 3,
     !.defines = {"noverbose", "name"}, !.gnu = TRUE, !.resets = TRUE,
     !.lines = {<<L("verb"), LV("vers", "x"), W("w"), L("verbose")>>, <<L("nov")>>, <<L("noverbose")>>,
                <<L("ver")>>, <<S("vn"), W("5"), W("w")>>, <<SV("n", "7"), DoubleDash, L("verbose")>>,
                <<LV("num", "99")>>, <<L("version"), L("verb"), L("num")>>, <<L("nohelp")>>,
                <<LV("old", "1"), LV("older", "2"), LV("undefok", "old"), LV("num", "7")>>,
                <<LV("undefok", "old"), L("noold"), LV("v", "maybe")>>, <<S("vx")>>,
                <<L("undefok"), L("verb")>>, <<Option(2, "", W("x")), W("w")>>}]

\* Flag files, some circular, saved and read again, and defaults.
Files ==
  [Nothing EXCEPT !.flags = <<"help", "verbose", "num", "name", "size", "mode", "dirs">>, !.steps = 3,
     !.resets = TRUE, !.saves = {"new"},
     !.defaults = {<<"num", W("99")>>, <<"size", [many |-> <<W("2"), W("x")>>]>>, <<"name", None>>, <<"gone", W("1")>>},
     !.assigns = {<<"num", [num |-> 0]>>, <<"gone", [num |-> 0]>>},
     !.lines = {<<FF("a"), LV("num", "0x10")>>, <<LV("name", "b"), FF("b"), FF("a"), LV("mode", "slow")>>,
                <<L("flagfile"), W("b"), Option(2, "dirs", Word(<<"x", "y">>)), W("w")>>,
                <<FF("new"), FF("gone"), LV("size", "2")>>, <<S("flagfile")>>,
                <<LV("size", "7"), LV("s", "x")>>},
     !.files = [a |-> <<LV("num", "5"), FF("b"), LV("name", "c"), FF("c"), L("verbose")>>,
                b |-> <<LV("num", "7"), FF("a"), FF("c"), LV("mode", "fast")>>,
                c |-> <<LV("size", "1"), FF("a"), L("nov")>>]]

SmallPrograms == {Registering, Overriding, Lines, Files}
=============================================================================
