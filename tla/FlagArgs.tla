------------------------------ MODULE FlagArgs ------------------------------
(* How gflags.py turns a command line into options: flag files are inlined,
   boolean flags get their explicit form by shortest unique prefixes, and getopt
   splits what results, again without each option it does not know.

   A token of a command line or a line of a flag file is a word (its
   comma-separated pieces, so that "" has none) or an option: one or two dashes, a
   name, and the text after "=", attached to a one-letter option, or None.  "--"
   is the option with two dashes and no name.  A text is a token: an option that
   getopt takes for another's argument is a text.  Comments and blank lines of a
   flag file are left out; its last line ends like the others. *)
EXTENDS Integers, Sequences, EagerFold
LOCAL INSTANCE FiniteSetsExt
LOCAL INSTANCE SequencesExt

None == [none |-> TRUE]
Word(pieces) == [word |-> pieces]
Option(d, n, text) == [d |-> d, n |-> n, arg |-> text]
IsOption(token) == "n" \in DOMAIN token
Bare(token) == IsOption(token) /\ token.arg = None
DoubleDash == Option(2, "", None)
-----------------------------------------------------------------------------
\* Strings: the order of Python's sort, and prefixes.
Letters == "?abcdefghijklmnopqrstuvwxyz"
Letter(s, i) == SubSeq(s, i, i)
Rank == [c \in {Letter(Letters, i) : i \in 1..Len(Letters)} |->
           CHOOSE i \in 1..Len(Letters) : Letter(Letters, i) = c]
StartsWith(s, p) == Len(p) <= Len(s) /\ SubSeq(s, 1, Len(p)) = p
Common(a, b) == Cardinality({k \in 1..Len(a) : StartsWith(b, SubSeq(a, 1, k))})
Less(a, b) ==
  With(LAMBDA k : k < Len(b) /\ (k = Len(a) \/ Rank[Letter(a, k + 1)] < Rank[Letter(b, k + 1)]),
       Common(a, b))

Insert(sorted, s) ==
  With(LAMBDA k : SubSeq(sorted, 1, k) \o <<s>> \o SubSeq(sorted, k + 1, Len(sorted)),
       Cardinality({i \in 1..Len(sorted) : ~Less(s, sorted[i])}))

Sorted(seq) == Fold(Insert, <<>>, seq)
-----------------------------------------------------------------------------
(* Prefixes and booleans.  dict.order is the order of the dictionary of flags, a
   sequence of names; dict.booleans are the names of boolean flags. *)
NoName(n) == "no" \o n

AllNames(dict) ==
  FlatMap(LAMBDA n : IF n \in dict.booleans THEN <<n, NoName(n)>> ELSE <<n>>, dict.order)

\* One name of the sorted list: its prefix is one letter longer than what it shares
\* with the next name, or with the one before (prev).
Prefix(names, i, prev) ==
  LET curr == names[i]
  IN  With(LAMBDA k : IF k < Len(curr)
                        THEN [of |-> SubSeq(curr, 1, Min({Max({prev, k}) + 1, Len(curr)})), prev |-> k]
                        ELSE [of |-> curr, prev |-> Len(curr)],
           IF i = Len(names) THEN 0 ELSE Common(curr, names[i + 1]))

ShortestUniquePrefixes(dict) ==
  With(LAMBDA names :
         With(LAMBDA found : [n \in ToSet(names) |-> found[CHOOSE i \in 1..Len(names) : names[i] = n].of],
              Fold(LAMBDA found, i :
                     Append(found, Prefix(names, i, IF i = 1 THEN 0 ELSE found[i - 1].prev)),
                   <<>>, [i \in 1..Len(names) |-> i])),
       Sorted(AllNames(dict)))

\* An argument from the shortest unique prefix to the whole of a name.
Matches(arg, name, prefix) == StartsWith(arg, prefix) /\ StartsWith(name, arg)

\* --mybool and --nomybool become --mybool=true and --mybool=false; the first flag in
\* the dictionary that matches has replaced the argument when the others look at it.
Expanded(token, order, matches) ==
  LET Is(n)   == Matches(token.n, n, matches[n])
      IsNo(n) == Matches(token.n, NoName(n), matches[NoName(n)])
  IN  IF ~Bare(token) \/ token.d # 2 THEN token
      ELSE With(LAMBDA hits :
                  IF hits = <<>> THEN token
                  ELSE Option(2, hits[1], Word(<<IF Is(hits[1]) THEN "true" ELSE "false">>)),
                SelectSeq(order, LAMBDA n : Is(n) \/ IsNo(n)))

ExpandBooleans(argv, dict) ==
  IF dict.booleans = {} THEN argv
  ELSE With(LAMBDA ms : Map(LAMBDA token : Expanded(token, ms.order, ms.matches), argv),
            [order |-> SelectSeq(dict.order, LAMBDA n : n \in dict.booleans),
             matches |-> ShortestUniquePrefixes(dict)])
-----------------------------------------------------------------------------
(* Flag files.  files maps the names of the files that can be opened to their lines. *)
IsFlagFileDirective(token) == IsOption(token) /\ token.n = "flagfile"

\* A line of a file still has its end of line, so that a bare --flagfile is none.
IncludesFile(line) == IsFlagFileDirective(line) /\ line.arg # None

\* The file a text names; a text that is no plain word names no file.
ExtractFilename(text) ==
  IF IsOption(text) \/ Len(text.word) # 1 THEN "" ELSE text.word[1]

IncludeFlagFile(r, included) == [lines |-> r.lines \o included.lines, parsed |-> included.parsed]

\* The lines of a file with the files it includes in place, each file read once
\* among those already read (parsed); a file that cannot be opened has no lines.
RECURSIVE GetFlagFileLines(_, _, _)
GetFlagFileLines(files, name, parsed) ==
  LET Line(r, token) ==
        IF ~IncludesFile(token) THEN [r EXCEPT !.lines = Append(@, token)]
        ELSE LET sub == ExtractFilename(token.arg)
             IN  IF sub \in r.parsed THEN r
                 ELSE With(LAMBDA s : IncludeFlagFile(r, s), GetFlagFileLines(files, sub, r.parsed))
  IN  IF name \notin DOMAIN files THEN [lines |-> <<>>, parsed |-> parsed]
      ELSE Fold(Line, [lines |-> <<>>, parsed |-> parsed \cup {name}], files[name])

Inlined_After(files, r, name) ==
  [r EXCEPT !.argv = @ \o GetFlagFileLines(files, name, r.parsed).lines]

\* The lines of a file go before all that was collected, so that the command line,
\* and among files the first, is parsed last.
Inlined(files, r, name) ==
  With(LAMBDA f : [r EXCEPT !.argv = f.lines \o @, !.parsed = f.parsed],
       GetFlagFileLines(files, name, r.parsed))

\* rest: what is still to be read, <<>> when the scan ends; a bare --flagfile takes the
\* next argument.  The scan stops at "--" and, as getopt does, at a word.
RECURSIVE ScanFlagFiles(_, _, _, _)
ScanFlagFiles(files, gnu, rest, r) ==
  IF rest = <<>> THEN r
  ELSE LET token == Head(rest)
           after == Tail(rest)
       IN  IF IsFlagFileDirective(token) /\ token.arg # None
             THEN ScanFlagFiles(files, gnu, after, Inlined(files, r, ExtractFilename(token.arg)))
           ELSE IF IsFlagFileDirective(token) /\ after = <<>>
             THEN [r EXCEPT !.err = "IllegalFlagValue"]
           ELSE IF IsFlagFileDirective(token)
             THEN ScanFlagFiles(files, gnu, Tail(after), Inlined(files, r, ExtractFilename(Head(after))))
           ELSE IF token = DoubleDash \/ (~IsOption(token) /\ ~gnu)
             THEN [r EXCEPT !.argv = @ \o rest]
           ELSE ScanFlagFiles(files, gnu, after, [r EXCEPT !.argv = Append(@, token)])

ReadFlagsFromFiles(files, gnu, argv) ==
  ScanFlagFiles(files, gnu, argv, [argv |-> <<>>, parsed |-> {}, err |-> ""])
-----------------------------------------------------------------------------
(* Python's getopt (a library), as __call__ uses it: longs are the long options,
   which all take an argument, shorts the letters, takes those with an argument. *)
GetoptError(opt) == [error |-> opt]
Failed(r) == "error" \in DOMAIN r
Parsed(opts, rest) == [opts |-> opts, rest |-> rest]
Opt(d, n, text) == [d |-> d, n |-> n, text |-> text]

LongMatch(o, longs) ==
  LET possible == {n \in longs : StartsWith(n, o)}
  IN  IF o \in longs THEN o
      ELSE IF Cardinality(possible) = 1 THEN CHOOSE n \in possible : TRUE
      ELSE ""

\* The options of one argument, and what is left of the arguments.
DoLong(token, after, longs) ==
  LET n == LongMatch(token.n, longs)
  IN  IF n = "" THEN GetoptError(token.n)
      ELSE IF token.arg # None THEN Parsed(<<Opt(2, n, token.arg)>>, after)
      ELSE IF after = <<>> THEN GetoptError(n)
      ELSE Parsed(<<Opt(2, n, Head(after))>>, Tail(after))

RECURSIVE DoShorts(_, _, _, _, _)
DoShorts(letters, text, after, g, opts) ==
  LET c    == Letter(letters, 1)
      more == SubSeq(letters, 2, Len(letters))
  IN  IF letters = "" THEN Parsed(opts, after)
      ELSE IF c \notin g.shorts THEN GetoptError(c)
      ELSE IF c \notin g.takes THEN DoShorts(more, text, after, g, Append(opts, Opt(1, c, Word(<<>>))))
      ELSE IF more # "" THEN Parsed(Append(opts, Opt(1, c, Word(<<more>>))), after)
      ELSE IF text # None THEN Parsed(Append(opts, Opt(1, c, text)), after)
      ELSE IF after = <<>> THEN GetoptError(c)
      ELSE Parsed(Append(opts, Opt(1, c, Head(after))), Tail(after))

RECURSIVE Getopt(_, _, _, _)
Getopt(args, g, opts, words) ==
  IF args = <<>> THEN Parsed(opts, words)
  ELSE LET token == Head(args)
           after == Tail(args)
       IN  IF token = DoubleDash THEN Parsed(opts, words \o after)
           ELSE IF IsOption(token)
             THEN With(LAMBDA r : IF Failed(r) THEN r ELSE Getopt(r.rest, g, opts \o r.opts, words),
                       IF token.d = 2 THEN DoLong(token, after, g.longs)
                       ELSE DoShorts(token.n, token.arg, after, g, <<>>))
           ELSE IF g.gnu THEN Getopt(after, g, opts, Append(words, token))
           ELSE Parsed(opts, args)

-----------------------------------------------------------------------------
\* The options, the unparsed arguments and the options that were not recognized,
\* each taken out of args at its first spelling, until getopt accepts the rest; an
\* option without a name, a flag, or a letter among others is an error.
Spells(token, opt) ==
  IsOption(token) /\ token.n = opt /\ (token.d = 2 \/ token.arg = None)

RECURSIVE Recognize(_, _, _)
Recognize(args, g, unrecognized) ==
  With(LAMBDA r :
         IF ~Failed(r)
           THEN [opts |-> r.opts, rest |-> r.rest, unrecognized |-> unrecognized, err |-> ""]
         ELSE LET spelled == {i \in 1..Len(args) : Spells(args[i], r.error)}
              IN  IF r.error = "" \/ r.error \in g.names \/ spelled = {}
                    THEN [opts |-> <<>>, rest |-> <<>>, unrecognized |-> {}, err |-> "FlagsError"]
                  ELSE Recognize(RemoveAt(args, Min(spelled)), g, unrecognized \cup {r.error}),
       Getopt(args, g, <<>>, <<>>))
=============================================================================
