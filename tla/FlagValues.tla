----------------------------- MODULE FlagValues -----------------------------
(* The registry of flags of closure_linter/gflags.py: modules define, override and
   delete flags and declare them key; the program parses command lines, resets, saves
   its flags into a file and reads them back.  One thread runs everything, so each
   call of the API is one step; a call that raises has done what comes before.

   A Flag object is an element of Flags, defined by Def: its name, its short
   name ("" if none), kind, legal values, default, whether it may be overridden,
   and the module that defines it.  A value is None or a record whose field says
   its type: str (a text), num, bool, list (of pieces) or multi (of values). *)
EXTENDS FlagArgs, TLC
LOCAL INSTANCE FiniteSets
LOCAL INSTANCE SequencesExt
LOCAL INSTANCE Functions

CONSTANTS Flags, Special,  \* the Flag objects; those of _SPECIAL_FLAGS
          Def,             \* [Flags \cup Special -> definitions]
          Modules,         \* the modules of the program
          Numerals,        \* the texts of integers: [strings -> Int]
          Programs         \* what a program defines, and which calls it may make

VARIABLES program,
          fl,          \* __flags: names -> Flag objects
          flag,        \* the state of each Flag object: default, value, present
          defined,     \* __flags_by_module
          key,         \* __key_flags_by_module
          gnu,         \* __use_gnu_getopt
          file,        \* flag files: name -> lines
          last,        \* history: the last call and its outcome
          replaced,    \* history: flags that lost a name to another
          steps
vars == <<program, fl, flag, defined, key, gnu, file, last, replaced, steps>>

Names(i) == {Def[i].name, Def[i].short} \ {""}
Boolean(i) == Def[i].kind \in {"bool", "help"}
Multi(i) == Def[i].multi
-----------------------------------------------------------------------------
(* The flags that the DEFINE_* functions make.  lower, upper and enum say what
   the parser of the kind accepts: a bound is a set, empty for None, and so are
   the values of an enum for which any is legal. *)
NewFlag(kind, name, default) ==
  [name |-> name, short |-> "", kind |-> kind, multi |-> FALSE, default |-> default,
   lower |-> {}, upper |-> {}, enum |-> {}, allow_override |-> FALSE]

DEFINE_string(name, default) == NewFlag("string", name, default)
DEFINE_boolean(name, default) == NewFlag("bool", name, default)
DEFINE_integer(name, default, lower_bound, upper_bound) ==
  [NewFlag("integer", name, default) EXCEPT !.lower = lower_bound, !.upper = upper_bound]
DEFINE_enum(name, default, enum_values) == [NewFlag("enum", name, default) EXCEPT !.enum = enum_values]
DEFINE_list(name, default) == NewFlag("list", name, default)
DEFINE_multi(d) == [d EXCEPT !.multi = TRUE]
HelpFlag(name, short) ==
  [NewFlag("help", name, [bool |-> FALSE]) EXCEPT !.short = short, !.allow_override = TRUE]
-----------------------------------------------------------------------------
(* Parsers.  Each gives the set of values it converts an argument to: none when
   it raises ValueError.  An argument is a text or, for a default, a value. *)
IsWord(a) == "word" \in DOMAIN a

ConvertBoolean(a) ==
  IF "bool" \in DOMAIN a THEN {a}
  ELSE IF a = Word(<<"true">>) \/ a = Word(<<"t">>) \/ a = Word(<<"1">>) THEN {[bool |-> TRUE]}
  ELSE IF a = Word(<<"false">>) \/ a = Word(<<"f">>) \/ a = Word(<<"0">>) THEN {[bool |-> FALSE]}
  ELSE {}

ConvertInteger(a) ==
  IF "num" \in DOMAIN a THEN {a}
  ELSE IF IsWord(a) /\ Len(a.word) = 1 /\ a.word[1] \in DOMAIN Numerals
    THEN {[num |-> Numerals[a.word[1]]]}
  ELSE {}

InBounds(d, n) == (\A b \in d.lower : b <= n) /\ (\A b \in d.upper : n <= b)
ParseNumeric(d, a) == {v \in ConvertInteger(a) : InBounds(d, v.num)}

LegalEnum(d, a) == d.enum = {} \/ (IsWord(a) /\ Len(a.word) = 1 /\ a.word[1] \in d.enum)
ParseEnum(d, a) == IF LegalEnum(d, a) THEN {[str |-> a]} ELSE {}

\* A text with no commas is a list of one; an option that was taken for an
\* argument is one piece, whatever it is.
ParseList(a) ==
  IF "list" \in DOMAIN a THEN {a}
  ELSE IF IsWord(a) THEN {[list |-> a.word]} ELSE {[list |-> <<"(option)">>]}

ParserParse(d, a) ==
  CASE d.kind = "string"  -> {[str |-> a]}
    [] d.kind = "bool"    -> ConvertBoolean(a)
    [] d.kind = "integer" -> ParseNumeric(d, a)
    [] d.kind = "enum"    -> ParseEnum(d, a)
    [] d.kind = "list"    -> ParseList(a)
-----------------------------------------------------------------------------
(* Flag objects.  s is the state of one; an operation gives the state it
   leaves and the exception it raises ("" if none). *)
Ends(s, err) == [s |-> s, err |-> err]

FlagParse(i, s, a) ==
  With(LAMBDA vs :
         IF vs = {} THEN Ends(s, "IllegalFlagValue")
         ELSE Ends([s EXCEPT !.value = CHOOSE v \in vs : TRUE, !.present = @ + 1], ""),
       ParserParse(Def[i], a))

\* HelpFlag.Parse: any argument but 0 and the empty string prints the help and exits.
HelpParse(s, a) ==
  Ends(s, IF a = [bool |-> FALSE] \/ a = Word(<<>>) THEN "" ELSE "SystemExit")

\* MultiFlag.Parse: every item is parsed into .value, then the list of all is put back;
\* it begins with the former values if the flag was present.
MultiParse(i, s, a) ==
  LET items  == IF "many" \in DOMAIN a THEN a.many ELSE <<a>>
      former == IF s.present = 0 THEN [multi |-> <<>>] ELSE s.value
      Item(r, item) ==
        IF r.err # "" THEN r
        ELSE With(LAMBDA p :
                    IF p.err # "" THEN [r EXCEPT !.err = p.err]
                    ELSE IF "multi" \notin DOMAIN former
                      THEN [r EXCEPT !.s = p.s, !.err = "AttributeError"]
                    ELSE [r EXCEPT !.s = p.s, !.values = Append(@, p.s.value)],
                  FlagParse(i, r.s, item))
  IN  With(LAMBDA r : IF r.err # "" THEN Ends(r.s, r.err)
                      ELSE Ends([r.s EXCEPT !.value = [multi |-> r.values]], ""),
           Fold(Item, [s |-> s, err |-> "",
                       values |-> IF "multi" \in DOMAIN former THEN former.multi ELSE <<>>], items))

Parse(i, s, a) ==
  IF Def[i].kind = "help" THEN HelpParse(s, a)
  ELSE IF Multi(i) THEN MultiParse(i, s, a) ELSE FlagParse(i, s, a)

Unparse(i, s) ==
  IF s.default = None THEN Ends([s EXCEPT !.value = None, !.present = 0], "")
  ELSE With(LAMBDA r : IF r.err # "" THEN r ELSE Ends([r.s EXCEPT !.present = 0], ""),
            Parse(i, s, s.default))

FlagSetDefault(i, s, a) ==
  IF a = None /\ Def[i].allow_override THEN Ends(s, "DuplicateFlagCannotPropagateNoneToSwig")
  ELSE Unparse(i, [s EXCEPT !.default = a])

\* The default is one that the flag's parser refuses.
Blank == [default |-> None, value |-> None, present |-> 0]
MakeRaises(i, a) == FlagSetDefault(i, Blank, a).err # ""
MakeFlag(i) == FlagSetDefault(i, Blank, Def[i].default)

\* Serializers: the text of a value, and the line of a flag.
ValueText(v) ==
  IF "num" \in DOMAIN v THEN Word(<<ToString(v.num)>>)
  ELSE IF "list" \in DOMAIN v THEN Word(v.list)
  ELSE v.str

OneSerialized(i, v) ==
  IF Boolean(i) THEN Option(2, IF v.bool THEN Def[i].name ELSE NoName(Def[i].name), None)
  ELSE Option(2, Def[i].name, ValueText(v))

\* The values of a MultiFlag are options separated by spaces on one line: the first
\* option, with all that follows in its text.
MultiSerialized(i, vs) ==
  IF vs = <<>> THEN <<>>
  ELSE IF Len(vs) = 1 THEN <<OneSerialized(i, vs[1])>>
  ELSE <<Option(2, Def[i].name, [spaced |-> vs])>>

Serialize(i, v) == IF Multi(i) THEN MultiSerialized(i, v.multi) ELSE <<OneSerialized(i, v)>>
-----------------------------------------------------------------------------
(* The registry: __setitem__, __delattr__ and the lists of modules.  r is a
   record of fl, defined, key and replaced, with the exception raised. *)
Registry == [fl |-> fl, defined |-> defined, key |-> key, replaced |-> replaced, err |-> ""]

Refused(r, i, n) == n \in DOMAIN r.fl /\ ~Def[i].allow_override /\ ~Def[r.fl[n]].allow_override

SetItem_LongOnly(r, i) ==
  IF Refused(r, i, Def[i].name) THEN [r EXCEPT !.err = "DuplicateFlagError"]
  ELSE [r EXCEPT !.fl = [n \in Names(i) |-> i] @@ @,
                 !.replaced = @ \cup ({r.fl[n] : n \in DOMAIN r.fl \cap Names(i)} \ {i})]

SetItem(r, i) ==
  IF \E n \in Names(i) : Refused(r, i, n) THEN [r EXCEPT !.err = "DuplicateFlagError"]
  ELSE [r EXCEPT !.fl = [n \in Names(i) |-> i] @@ @,
                 !.replaced = @ \cup ({r.fl[n] : n \in DOMAIN r.fl \cap Names(i)} \ {i})]

RegisterFlagByModule(r, m, i) == [r EXCEPT !.defined[m] = Append(@, i)]

RegisterKeyFlagForModule(r, m, i) ==
  IF i \in ToSet(r.key[m]) THEN r ELSE [r EXCEPT !.key[m] = Append(@, i)]

FlagIsRegistered_Long(names, i) == Def[i].name \in DOMAIN names /\ names[Def[i].name] = i

FlagIsRegistered(names, i) == \E n \in Names(i) : n \in DOMAIN names /\ names[n] = i

RemoveFromLists(lists, i) == [m \in DOMAIN lists |-> SelectSeq(lists[m], LAMBDA j : j # i)]

DelAttr(r, n) ==
  IF n \notin DOMAIN r.fl THEN [r EXCEPT !.err = "AttributeError"]
  ELSE With(LAMBDA names :
              IF FlagIsRegistered(names, r.fl[n]) THEN [r EXCEPT !.fl = names]
              ELSE [r EXCEPT !.fl = names, !.defined = RemoveFromLists(@, r.fl[n]),
                             !.key = RemoveFromLists(@, r.fl[n])],
            Restrict(r.fl, DOMAIN r.fl \ {n}))

DEFINE_flag(r, i) ==
  With(LAMBDA s : IF s.err # "" THEN s ELSE RegisterFlagByModule(s, Def[i].module, i), SetItem(r, i))

GetKeyFlagsForModule(r, m) ==
  Fold(LAMBDA out, i : IF i \in ToSet(out) THEN out ELSE Append(out, i), r.defined[m], r.key[m])

\* names: those of flags registered in registry.
InternalDeclareKeyFlags(r, names, registry, m) ==
  Fold(LAMBDA s, n :
         IF s.err # "" THEN s
         ELSE IF n \notin DOMAIN registry THEN [s EXCEPT !.err = "UnrecognizedFlagError"]
         ELSE RegisterKeyFlagForModule(s, m, registry[n]),
       r, names)

\* A loop over something as long as nothing is raised.
Until(op(_, _), r, seq) == Fold(LAMBDA s, x : IF s.err # "" THEN s ELSE op(s, x), r, seq)

SpecialNames == [n \in {Def[i].name : i \in Special} |-> CHOOSE i \in Special : Def[i].name = n]
\* The flags that are key to a module, or that gflags gives to each that adopts it.
FlagsToAdopt(r, from) ==
  IF from = "gflags" THEN [names |-> SetToSeq(DOMAIN SpecialNames), registry |-> SpecialNames]
  ELSE [names |-> Map(LAMBDA i : Def[i].name, GetKeyFlagsForModule(r, from)), registry |-> r.fl]

\* What help shows of a list of flags: those whose name still leads to them.
RenderFlagList(names, flags) ==
  {i \in ToSet(flags) : \E d \in {names, SpecialNames} : Def[i].name \in DOMAIN d /\ d[Def[i].name] = i}

\* The sections of the help, a flag at most once in each, the last for the special flags
\* (some module has defined a flag); and of the help in XML.
GetHelp(r) ==
  [m \in {n \in Modules : r.defined[n] # <<>>} \cup {"gflags"} |->
     RenderFlagList(r.fl, IF m = "gflags" THEN SetToSeq(Special) ELSE r.defined[m])]
ModuleHelp(r, m) == RenderFlagList(r.fl, GetKeyFlagsForModule(r, m))
WriteHelpInXMLFormat(r) == FlatMap(LAMBDA m : r.defined[m], SetToSeq(Modules))
-----------------------------------------------------------------------------
(* Calls of the API.  An order is the one in which Python's dictionaries give their
   keys, a sequence of all names; it is any of the program's. *)
InOrder(order, d) == SelectSeq(order, LAMBDA n : n \in DOMAIN d)
Call(op, arg, err) == [op |-> op, arg |-> arg, err |-> err]

Live == steps > 0 /\ last.err # "SystemExit"

Registers(r, op, arg) ==
  /\ fl' = r.fl /\ defined' = r.defined /\ key' = r.key /\ replaced' = r.replaced
  /\ last' = Call(op, arg, r.err)
  /\ steps' = steps - 1
  /\ UNCHANGED <<program, gnu, file>>

\* The DEFINE_* functions: the Flag is made, which may raise, and registered.
DefineFlag(i) ==
  /\ Live /\ i \in program.defines /\ flag[i] = None
  /\ \E made \in {MakeFlag(i)} :
       \E r \in {IF made.err # "" THEN [Registry EXCEPT !.err = made.err] ELSE DEFINE_flag(Registry, i)} :
         /\ Registers(r, "DEFINE", i)
         /\ flag' = IF r.err = "" THEN [flag EXCEPT ![i] = made.s] ELSE flag

Delete(n) ==
  /\ Live /\ n \in program.deletes
  /\ \E r \in {DelAttr(Registry, n)} : Registers(r, "del", n)
  /\ UNCHANGED flag

AppendFlagValues(order) ==
  /\ Live /\ program.other # {}
  /\ LET own == SelectSeq(order, LAMBDA n : \E i \in program.other : Def[i].name = n)
     IN  \E r \in {Until(LAMBDA s, n : SetItem(s, CHOOSE i \in program.other : Def[i].name = n),
                         Registry, own)} :
           Registers(r, "append", program.other)
  /\ UNCHANGED flag

RemoveFlagValues(order) ==
  /\ Live /\ program.other # {}
  /\ LET all == SelectSeq(order, LAMBDA n : \E i \in program.other : n \in Names(i))
     IN  \E r \in {Until(DelAttr, Registry, all)} : Registers(r, "remove", program.other)
  /\ UNCHANGED flag

DECLARE_key_flag(n, m) ==
  /\ Live /\ n \in program.keys
  /\ \E r \in {InternalDeclareKeyFlags(Registry, <<n>>,
                 IF n \in DOMAIN SpecialNames THEN SpecialNames ELSE fl, m)} :
       Registers(r, "declare", <<n, m>>)
  /\ UNCHANGED flag

\* from is a module, gflags itself, or the name of a module, which is refused.
ADOPT_module_key_flags(from, m) ==
  /\ Live /\ program.keys # {}
  /\ \E r \in {IF from = "(name)" THEN [Registry EXCEPT !.err = "FlagsError"]
               ELSE With(LAMBDA a : InternalDeclareKeyFlags(Registry, a.names, a.registry, m),
                         FlagsToAdopt(Registry, from))} :
       Registers(r, "adopt", <<from, m>>)
  /\ UNCHANGED flag

Sets(f, op, arg, err) ==
  /\ flag' = f
  /\ last' = Call(op, arg, err)
  /\ steps' = steps - 1
  /\ UNCHANGED <<program, fl, defined, key, gnu, file, replaced>>

SetDefault(n, a) ==
  /\ Live /\ <<n, a>> \in program.defaults
  /\ IF n \notin DOMAIN fl THEN Sets(flag, "SetDefault", n, "AttributeError")
     ELSE \E r \in {FlagSetDefault(fl[n], flag[fl[n]], a)} :
            Sets([flag EXCEPT ![fl[n]] = r.s], "SetDefault", n, r.err)

\* __setattr__: no parser looks at the value.
Assign(n, v) ==
  /\ Live /\ <<n, v>> \in program.assigns
  /\ IF n \notin DOMAIN fl THEN Sets(flag, "assign", n, "KeyError")
     ELSE Sets([flag EXCEPT ![fl[n]].value = v], "assign", n, "")

\* Reset: Unparse for every entry of the dictionary, a flag with two names twice.
ResetFlags(f, names, order) ==
  Until(LAMBDA s, n : With(LAMBDA r : [flag |-> [s.flag EXCEPT ![names[n]] = r.s], err |-> r.err],
                           Unparse(names[n], s.flag[names[n]])),
        [flag |-> f, err |-> ""], InOrder(order, names))

Reset(order) ==
  /\ Live /\ program.resets
  /\ \E r \in {ResetFlags(flag, fl, order)} : Sets(r.flag, "Reset", None, r.err)

UseGnuGetOpt ==
  /\ Live /\ program.gnu /\ ~gnu /\ gnu' = TRUE
  /\ last' = Call("gnu", None, "") /\ steps' = steps - 1
  /\ UNCHANGED <<program, fl, flag, defined, key, file, replaced>>

\* FlagsIntoString: a line for every entry of the dictionary whose value is not None.
FlagsIntoString(f, order) ==
  FlatMap(LAMBDA n : IF f[fl[n]].value = None THEN <<>> ELSE Serialize(fl[n], f[fl[n]].value),
          InOrder(order, fl))

\* A MultiFlag that was left with a single value cannot be serialized.
Torn(i) == Multi(i) /\ flag[i].value # None /\ "multi" \notin DOMAIN flag[i].value

\* The file is opened, and so created, before the flags are serialized.
AppendFlagsIntoFile(name, order) ==
  /\ Live /\ name \in program.saves
  /\ LET torn   == \E n \in DOMAIN fl : Torn(fl[n])
         opened == IF name \in DOMAIN file THEN file[name] ELSE <<>>
     IN  /\ file' = (name :> (opened \o (IF torn THEN <<>> ELSE FlagsIntoString(flag, order)))) @@ file
         /\ last' = Call("save", name, IF torn THEN "TypeError" ELSE "")
  /\ steps' = steps - 1
  /\ UNCHANGED <<program, fl, flag, defined, key, gnu, replaced>>
-----------------------------------------------------------------------------
(* __call__.  argv leaves out argv[0], which is returned before the rest. *)
LongNames(names) == DOMAIN names \cup {"undefok"}
OneLetter(names) == {n \in DOMAIN names : Len(n) = 1}
GetoptFor(names, g) ==
  [longs |-> LongNames(names), shorts |-> OneLetter(names), gnu |-> g, names |-> DOMAIN names,
   takes |-> {n \in OneLetter(names) : ~Boolean(names[n])}]

Booleans(names) == {n \in DOMAIN names : Boolean(names[n])}
Dict(names, order) == [order |-> InOrder(order, names), booleans |-> Booleans(names)]

Pieces(text) ==
  IF ~IsWord(text) THEN {"(option)"} ELSE IF text.word = <<>> THEN {""} ELSE ToSet(text.word)

\* One option of the list: --undefok allows its names and their "no" forms; any
\* other is parsed, a boolean short option as 1.
TakeOption(s, o, names) ==
  IF o.d = 2 /\ o.n = "undefok" THEN [s EXCEPT !.undefok = @ \cup Pieces(o.text) \cup
                                                {NoName(n) : n \in Pieces(o.text)}]
  ELSE LET i == names[o.n]
       IN  With(LAMBDA r : [s EXCEPT !.flag[i] = r.s, !.err = r.err],
                Parse(i, s.flag[i], IF Boolean(i) /\ o.d = 1 THEN [bool |-> TRUE] ELSE o.text))

\* Without gnu_getopt the unparsed arguments are given back as they were before
\* the booleans were expanded.
Unparsed(original, rest, g) ==
  IF g \/ rest = <<>> THEN rest ELSE SubSeq(original, Len(original) - Len(rest) + 1, Len(original))

Outcome(f, err, rest) == [flag |-> f, err |-> err, rest |-> rest]

AllOkay(unrecognized, undefok) == unrecognized \subseteq undefok

ParseOptions(f, names, g, original, r) ==
  IF r.err # "" THEN Outcome(f, r.err, <<>>)
  ELSE With(LAMBDA s :
              IF s.err # "" THEN Outcome(s.flag, s.err, <<>>)
              ELSE IF AllOkay(r.unrecognized, s.undefok)
                THEN Outcome(s.flag, "", Unparsed(original, r.rest, g))
              ELSE Outcome(s.flag, "UnrecognizedFlagError", <<>>),
            Until(LAMBDA s, o : TakeOption(s, o, names),
                  [flag |-> f, err |-> "", undefok |-> {}], r.opts))

ParseArgv(f, names, g, files, argv, order) ==
  With(LAMBDA read :
         IF read.err # "" THEN Outcome(f, read.err, <<>>)
         ELSE With(LAMBDA x : ParseOptions(f, names, g, read.argv, Recognize(x.args, x.getopt, {})),
                   [args |-> With(LAMBDA dict : ExpandBooleans(read.argv, dict), Dict(names, order)),
                    getopt |-> GetoptFor(names, g)]),
       ReadFlagsFromFiles(files, g, argv))

CallFlags(argv, order) ==
  /\ Live /\ argv \in program.lines
  /\ \E r \in {ParseArgv(flag, fl, gnu, file, argv, order)} :
       Sets(r.flag, "call", [argv |-> argv, rest |-> r.rest], r.err)
-----------------------------------------------------------------------------
\* A program has made and registered its first flags, and those of the registry
\* it may append.
Init ==
  /\ program \in Programs
  /\ LET Made(i) == MakeFlag(i).s
         r == Fold(DEFINE_flag,
                   [fl |-> <<>>, defined |-> [m \in Modules |-> <<>>], key |-> [m \in Modules |-> <<>>],
                    replaced |-> {}, err |-> ""], program.flags)
     IN  /\ fl = r.fl /\ defined = r.defined /\ key = r.key /\ replaced = r.replaced
         /\ flag = [i \in Flags \cup Special |->
                      IF i \in ToSet(program.flags) \cup program.other \cup Special THEN Made(i) ELSE None]
  /\ gnu = FALSE /\ file = program.files
  /\ last = Call("", None, "") /\ steps = program.steps

Next ==
  \/ \E i \in Flags : DefineFlag(i)
  \/ \E n \in program.deletes : Delete(n)
  \/ \E order \in program.orders : AppendFlagValues(order)
  \/ \E order \in program.orders : RemoveFlagValues(order)
  \/ \E n \in program.keys, m \in Modules : DECLARE_key_flag(n, m)
  \/ \E from \in Modules \cup {"gflags", "(name)"}, m \in Modules : ADOPT_module_key_flags(from, m)
  \/ \E d \in program.defaults : SetDefault(d[1], d[2])
  \/ \E d \in program.assigns : Assign(d[1], d[2])
  \/ \E order \in program.orders : Reset(order)
  \/ UseGnuGetOpt
  \/ \E name \in program.saves, order \in program.orders : AppendFlagsIntoFile(name, order)
  \/ \E argv \in program.lines, order \in program.orders : CallFlags(argv, order)

Spec == Init /\ [][Next]_vars
-----------------------------------------------------------------------------
Registered == Range(fl)

FlagsTypeOK ==
  /\ \A n \in DOMAIN fl : fl[n] \in Flags /\ n \in Names(fl[n]) /\ flag[fl[n]] # None
  /\ \A m \in Modules : \A i \in ToSet(defined[m]) : i \in Flags /\ flag[i] # None /\ Def[i].module = m
  /\ \A m \in Modules : ToSet(key[m]) \subseteq Flags \cup Special
  /\ \A i \in Registered : flag[i].present \in Nat
  /\ gnu \in BOOLEAN /\ steps \in Nat

\* Lists and dictionary agree through definitions, deletions of either name, overrides
\* and appended registries: a registered flag is listed by the module that
\* defined it, once; one that no name leads to is in no list, unless another
\* flag took one of its names.
ListsMatch ==
  /\ \A i \in Registered \ program.other :
       Cardinality({k \in 1..Len(defined[Def[i].module]) : defined[Def[i].module][k] = i}) = 1
  /\ \A m \in Modules : \A i \in ToSet(defined[m]) \cup (ToSet(key[m]) \ Special) :
       i \in Registered \cup replaced
  /\ \A m \in Modules : IsInjective(key[m])

\* "If ... the flag may be redefined without raising an error": a name never moves from one
\* flag to another of which neither allows it, whichever call registers flags and
\* however far a call that raises has got; and a DEFINE that raises changes nothing.
NoTakeover ==
  /\ \A n \in DOMAIN fl \cap DOMAIN fl' :
       fl'[n] # fl[n] => Def[fl'[n]].allow_override \/ Def[fl[n]].allow_override
  /\ last'.op = "DEFINE" /\ last'.err # "" => fl' = fl /\ defined' = defined

\* "Maps flag names to their shortest unique prefix", by definition: no other name starts
\* with it and all shorter ones are shared; a name that begins another is its own.
PrefixesShortest ==
  \A dict \in {Dict(fl, order) : order \in program.orders} :
  \A names \in {AllNames(dict)}, found \in {ShortestUniquePrefixes(dict)} :
    LET Unique(k, p) == \A j \in 1..Len(names) : j # k => ~StartsWith(names[j], p)
    IN  \A k \in 1..Len(names) :
          LET n == names[k]
              good == {l \in 1..Len(n) : Unique(k, SubSeq(n, 1, l))}
          IN  found[n] = IF good = {} THEN n
                         ELSE SubSeq(n, 1, CHOOSE l \in good : \A j \in good : l <= j)

\* Python's dictionary order never decides what a command line means, unless the "no"
\* form of a boolean flag is the name of another flag.
Ambiguous(names) == \E n \in Booleans(names) : NoName(n) \in DOMAIN names
OrderFree ==
  Ambiguous(fl) \/
  \A argv \in program.lines :
    Cardinality({ExpandBooleans(argv, dict) : dict \in {Dict(fl, order) : order \in program.orders}}) = 1

\* How far an option reaches: a bare one takes the next argument, unless it is a boolean,
\* the "no" form of one, or unknown.
TakesNext(token) ==
  /\ Bare(token) /\ token # DoubleDash
  /\ \/ IsFlagFileDirective(token)
     \/ /\ token.d = 2 /\ LongMatch(token.n, LongNames(fl)) # ""
        /\ \A order \in program.orders : ExpandBooleans(<<token>>, Dict(fl, order)) = <<token>>
     \/ /\ token.d = 1
        /\ \A k \in 1..Len(token.n) :
             Letter(token.n, k) \in DOMAIN fl /\ (Letter(token.n, k) \in Booleans(fl) <=> k < Len(token.n))

\* Where options stand on a command line before its first word or "--", the arguments they
\* take skipped.
LeadingOptions(argv) ==
  LET own[k \in 1..Len(argv)] == k = 1 \/ ~(own[k - 1] /\ TakesNext(argv[k - 1]))
      ends == {k \in 1..Len(argv) : own[k] /\ (~IsOption(argv[k]) \/ argv[k] = DoubleDash)}
  IN  {k \in 1..Len(argv) : own[k] /\ \A j \in ends : k < j}

\* The flag whose full name stands at k, or is negated there, and the text it is given,
\* behind "=" or as the next word.
Given(argv, k) ==
  LET token == argv[k]
      named == {token.n} \cap DOMAIN fl
  IN  IF token.d # 2 THEN {}
      ELSE IF ~Bare(token) THEN {<<fl[n], token.arg>> : n \in named}
      ELSE IF TakesNext(token)
        THEN {<<fl[n], argv[k + 1]>> : n \in {m \in named : k < Len(argv) /\ ~IsOption(argv[k + 1])}}
      ELSE {<<fl[n], Word(<<"true">>)>> : n \in named \cap Booleans(fl)}
           \cup {<<fl[n], Word(<<"false">>)>> : n \in {m \in Booleans(fl) : NoName(m) = token.n}}

\* An option that may be meant for flag i: a prefix of its names, or its letter.
MayName(token, i) ==
  \E n \in Names(i) \cup {NoName(m) : m \in Names(i)} :
    StartsWith(n, token.n) \/ (token.d = 1 /\ \E k \in 1..Len(token.n) : Letter(token.n, k) = n)

\* The last text for each flag that the options before the first word give.
FinalOptions(argv) ==
  {g \in UNION {Given(argv, k) \X {k} : k \in LeadingOptions(argv)} :
     \A j \in (g[2] + 1)..Len(argv) : IsOption(argv[j]) => ~MayName(argv[j], g[1][1])}

\* A file that is read contains "--", a word, or at its end an option without its argument,
\* only by mistake.
FilesAreOptions == \A f \in DOMAIN file : \A k \in 1..Len(file[f]) :
  IsOption(file[f][k]) /\ file[f][k] # DoubleDash /\ (IsFlagFileDirective(file[f][k]) \/ ~TakesNext(file[f][k]))

\* "Flags from the command line argv _should_ always take precedence": whatever the flag files
\* say, also files that include one another, a flag has the last value that was given to
\* it on the command line, and a MultiFlag has that one last.  (The documentation of Flag has
\* the second value refused instead, "If this flag was already present, a FlagsError is
\* raised"; Parse only counts, and flag files could not be overridden if it did more.)
CommandLineWins ==
  last.op = "call" /\ last.err = "" /\ FilesAreOptions /\ ~Ambiguous(fl) =>
    \A g \in FinalOptions(last.arg.argv) :
      LET i == g[1][1]
          v == flag[i].value
      IN  Def[i].kind # "help" =>
            ParserParse(Def[i], g[1][2]) = {IF Multi(i) THEN v.multi[Len(v.multi)] ELSE v}

\* Files reached from a file, and every line of theirs that is no directive.
Includes(f) == {ExtractFilename(file[f][k].arg) : k \in {j \in 1..Len(file[f]) : IsFlagFileDirective(file[f][j])}}
ReachedFrom(fs) ==
  LET reach[k \in 0..Cardinality(DOMAIN file)] ==
        IF k = 0 THEN fs \cap DOMAIN file
        ELSE reach[k - 1] \cup (UNION {Includes(f) : f \in reach[k - 1]} \cap DOMAIN file)
  IN  reach[Cardinality(DOMAIN file)]

LinesOf(f) == SelectSeq(file[f], LAMBDA token : ~IsFlagFileDirective(token))

\* Circular and repeated inclusion: the lines of a flag file are its own and those of every
\* file it leads to, each exactly once.
FilesInlined ==
  \A f \in DOMAIN file :
    LET lines == GetFlagFileLines(file, f, {}).lines
        from  == ReachedFrom({f})
        all   == UNION {ToSet(LinesOf(g)) : g \in from}
        Occurrences(seq, token) == Cardinality({k \in 1..Len(seq) : seq[k] = token})
    IN  /\ ToSet(lines) = all
        /\ \A token \in all :
             \E owners \in {{g \in from : token \in ToSet(LinesOf(g))}} :
               Cardinality(owners) = 1 =>
                 \A g \in owners : Occurrences(lines, token) = Occurrences(LinesOf(g), token)

\* "All unparsed arguments are returned", as they were written: without gnu_getopt what
\* a call returns is the end of the command line, from a word or after "--" on.
ReturnsUnparsed ==
  last.op = "call" /\ last.err = "" /\ ~gnu =>
    LET argv == last.arg.argv
        rest == last.arg.rest
        from == Len(argv) - Len(rest) + 1
    IN  rest # <<>> => /\ from >= 1 /\ rest = SubSeq(argv, from, Len(argv))
                       /\ ~IsOption(rest[1]) \/ (from > 1 /\ argv[from - 1] = DoubleDash)

\* A legal value of a flag: what its parser gives, in a list for a MultiFlag.
LegalOne(i, v) ==
  CASE Def[i].kind = "string"  -> "str" \in DOMAIN v
    [] Def[i].kind = "bool"    -> "bool" \in DOMAIN v
    [] Def[i].kind = "integer" -> "num" \in DOMAIN v /\ InBounds(Def[i], v.num)
    [] Def[i].kind = "enum"    -> "str" \in DOMAIN v /\ LegalEnum(Def[i], v.str)
    [] Def[i].kind = "list"    -> "list" \in DOMAIN v
    [] OTHER                   -> FALSE
Legal(i, v) ==
  \/ v = None
  \/ Multi(i) /\ "multi" \in DOMAIN v /\ \A k \in 1..Len(v.multi) : LegalOne(i, v.multi[k])
  \/ ~Multi(i) /\ LegalOne(i, v)

\* A call that raises half way, or a default that is refused, leaves every flag with a
\* value its parser accepts; unless a list of defaults for a MultiFlag is refused after its first
\* item, which leaves that item as the value.
ValuesLegal ==
  \A i \in Registered :
    \/ Legal(i, flag[i].value)
    \/ Multi(i) /\ "many" \in DOMAIN flag[i].default /\ MakeRaises(i, flag[i].default)

\* "Resets the values to the point before FLAGS(argv) was called": present is cleared and the
\* value is the default, also after calls that raised; except that a MultiFlag
\* with one name that was present keeps its values and gets the default after them.
ResetRestores ==
  last'.op = "Reset" /\ last'.err = "" =>
    \A i \in Registered :
      /\ flag'[i].present = 0
      /\ \/ flag'[i].value = FlagSetDefault(i, Blank, flag[i].default).s.value
         \/ Multi(i) /\ flag[i].present > 0 /\ Cardinality({n \in DOMAIN fl : fl[n] = i}) = 1

\* "Output will be in the format of a flagfile": a program that saves its flags and later reads
\* the file has them all back.  Not so for a MultiFlag, unless it has one value
\* and one name, for flags that lost their name, and for an ambiguous "no" form.
Savable(i) ==
  /\ Def[i].name \in DOMAIN fl /\ fl[Def[i].name] = i
  /\ flag[i].value = None => flag[i].default = None \/ Def[i].kind = "help"
  /\ Multi(i) /\ flag[i].value # None =>
       Cardinality(Names(i)) = 1 /\ "multi" \in DOMAIN flag[i].value /\ Len(flag[i].value.multi) = 1

RoundTrip ==
  (\A i \in Registered : Savable(i)) /\ ~Ambiguous(fl) =>
    \A order \in program.orders :
      LET reset == ResetFlags(flag, fl, order)
          read  == ParseArgv(reset.flag, fl, gnu, "saved" :> FlagsIntoString(flag, order),
                             <<Option(2, "flagfile", Word(<<"saved">>))>>, order)
      IN  reset.err = "" => read.err = "" /\ \A i \in Registered : read.flag[i].value = flag[i].value

\* Options are accepted only if they are known: one before the first word of a command
\* line that was parsed is a flag's name, the "no" form of a boolean's, or a prefix of
\* one, or --undefok names it, on the command line or in a file.
UndefokNames(tokens) ==
  UNION {LET text == IF ~Bare(tokens[k]) THEN tokens[k].arg
                     ELSE IF k < Len(tokens) THEN tokens[k + 1] ELSE None
         IN  IF IsWord(text) THEN ToSet(text.word) ELSE {} :
           k \in {j \in 1..Len(tokens) : IsOption(tokens[j]) /\ tokens[j].n = "undefok"}}
UnknownNeedsUndefok ==
  last.op = "call" /\ last.err = "" =>
    LET argv == last.arg.argv
        okay == UndefokNames(argv) \cup UNION {UndefokNames(file[f]) : f \in DOMAIN file}
    IN  \A k \in LeadingOptions(argv) :
          argv[k].d = 2 /\ argv[k].n # "flagfile" =>
            \/ \E n \in LongNames(fl) \cup {NoName(b) : b \in Booleans(fl)} : StartsWith(n, argv[k].n)
            \/ argv[k].n \in okay \cup {NoName(n) : n \in okay}

\* "All flags key to a module are key to the current module": the help for the key flags
\* of a module that has adopted another's shows all that the other's shows.
AdoptShowsAll ==
  last'.op = "adopt" /\ last'.err = "" =>
    LET from == last'.arg[1]
        m    == last'.arg[2]
        keys == IF from = "gflags" THEN SetToSeq(Special) ELSE defined[from] \o key[from]
    IN  RenderFlagList(fl, keys) \subseteq ModuleHelp([Registry EXCEPT !.key = key'], m)

\* "Provides help for all of the registered 'Flag' objects": the help, and the help in XML,
\* show every registered flag that its own name leads to exactly once, whatever was
\* overridden or deleted before; and the help shows no flag whose name is gone or leads to
\* another.  Except the flags that came with AppendFlagValues: those no module defines,
\* and the help goes by modules, so nothing is promised of them here.
HelpShowsAll ==
  LET known == {i \in Registered : Def[i].name \in DOMAIN fl /\ fl[Def[i].name] = i}
      help  == GetHelp(Registry)
      xml   == WriteHelpInXMLFormat(Registry)
  IN  /\ \A i \in known \ program.other :
           /\ Cardinality({m \in DOMAIN help : i \in help[m]}) = 1
           /\ Cardinality({k \in 1..Len(xml) : xml[k] = i}) = 1
      /\ UNION {help[m] : m \in DOMAIN help} \subseteq known \cup Special

\* Through definitions, overrides, deletions and appended registries, dictionary and
\* lists tell of the same flags, and the help of all that modules define.
RegistrySound == FlagsTypeOK /\ ListsMatch /\ HelpShowsAll

\* A command line means the same in whatever order dictionaries are walked: prefixes,
\* flag files, unknown options and words as documented; the values it leaves are legal,
\* also when it raises, and can be saved and read back.
ParsedAsWritten ==
  /\ PrefixesShortest /\ OrderFree /\ FilesInlined /\ CommandLineWins
  /\ ReturnsUnparsed /\ UnknownNeedsUndefok /\ ValuesLegal /\ RoundTrip

\* No call does what its documentation excludes: take a name away from a flag, leave a
\* parsed value after a reset, hide adopted flags from the help.
CallsKeepTheirWord == [][NoTakeover /\ ResetRestores /\ AdoptShowsAll]_vars
=============================================================================
