------------------------------- MODULE GypMain ------------------------------
(* pylib/gyp/__init__.py: the options of a gyp run, taken from the command
   line and the environment, and the command line that a generated makefile
   uses to run gyp again.

   A command line is a sequence of <<dest, value>>; a value is a sequence of
   strings: <<name>> or <<name, value>>, a path's components, or <<>> for a
   flag.  Options map each dest to the sequence of its values.  A path is
   relative to the directory the run starts in, absolute if it starts with "/". *)
EXTENDS Naturals, Sequences, TLC, EagerFold
LOCAL INSTANCE SequencesExt

\* The options that can be regenerated.  --parallel is added without a dest,
\* and --format, --msvs-version, --ignore-environment and --no-circular-check
\* with regenerate=False, so none of these is in the table.
Regeneratable ==
  LET O(action, type, env_name) == [action |-> action, type |-> type, env_name |-> env_name]
  IN  [defines |-> O("append", "", "GYP_DEFINES"), includes |-> O("append", "path", ""), depth |-> O("store", "path", ""),
       debug |-> O("append", "", ""), suffix |-> O("store", "", ""), generator_flags |-> O("append", "", "GYP_GENERATOR_FLAGS"),
       generator_output |-> O("store", "path", "GYP_GENERATOR_OUTPUT"), check |-> O("store_true", "", ""),
       toplevel_dir |-> O("store", "path", ""), configs |-> O("append", "", "")]
Dests == DOMAIN Regeneratable \union {"formats", "msvs_version", "ignore_environment", "parallel", "no_circular_check", "build_file", "build_files"}

\* optparse: an appending option collects, another keeps the last value.
Appends(d) == d \in {"formats", "build_file"} \/ (d \in DOMAIN Regeneratable /\ Regeneratable[d].action = "append")
ParseArgs(args) ==
  Fold(LAMBDA options, a : [options EXCEPT ![a[1]] = IF Appends(a[1]) THEN Append(@, a[2]) ELSE <<a[2]>>], [d \in Dests |-> <<>>], args)

\* name=value pairs; the last one of a name counts.
NameValueListToDict(pairs) ==
  [n \in {pairs[i][1] : i \in DOMAIN pairs} |->
     LET last == CHOOSE i \in DOMAIN pairs : pairs[i][1] = n /\ \A j \in (i + 1)..Len(pairs) : pairs[j][1] # n
     IN  IF Len(pairs[last]) = 2 THEN pairs[last][2] ELSE "True"]

Abs(cwd, path) == IF path # <<>> /\ path[1] = "/" THEN path
                  ELSE Fold(LAMBDA p, c : IF c = ".." THEN Front(p) ELSE Append(p, c), cwd, path)
Rel(abs, base) ==
  LET shared == CHOOSE n \in 0..Len(base) : /\ n <= Len(abs) /\ SubSeq(abs, 1, n) = SubSeq(base, 1, n)
                                            /\ n < Len(base) /\ n < Len(abs) => abs[n + 1] # base[n + 1]
  IN  [i \in 1..(Len(base) - shared) |-> ".."] \o SubSeq(abs, shared + 1, Len(abs))

\* Mutant: a relative path is kept as it is.
FixIfRelativePath_Kept(cwd, path, base) == path

FixIfRelativePath(cwd, path, base) == IF path # <<>> /\ path[1] = "/" THEN path ELSE Rel(Abs(cwd, path), base)

UsesEnvironment(options) == options.ignore_environment = <<>>
Env(options, env, name) == IF UsesEnvironment(options) /\ name # "" THEN env[name] ELSE <<>>

-----------------------------------------------------------------------------
\* Without --depth: the innermost directory called src above a build file.
InferDepth(cwd, build_files) ==
  LET dirs == [i \in DOMAIN build_files |-> Front(Abs(cwd, build_files[i]))]
      has(i) == \E j \in DOMAIN dirs[i] : dirs[i][j] = "src"
      inner(d) == CHOOSE j \in DOMAIN d : d[j] = "src" /\ \A k \in (j + 1)..Len(d) : d[k] # "src"
  IN  IF \E i \in DOMAIN dirs : has(i)
      THEN LET first == CHOOSE i \in DOMAIN dirs : has(i) /\ \A j \in 1..(i - 1) : ~has(j) IN <<SubSeq(dirs[first], 1, inner(dirs[first]))>>
      ELSE <<>>

\* The .gyp files of the directory.
FindBuildFiles(env, cwd) == env.found[cwd]

\* The options once gyp_main is done with them; env has the variables, and the .gyp files of
\* every directory.  build_file keeps what the command line named.
Settled(args, env, cwd) ==
  LET parsed == ParseArgs(args)
      build_files == IF parsed.build_file # <<>> THEN parsed.build_file ELSE FindBuildFiles(env, cwd)
      depth == IF parsed.depth # <<>> THEN parsed.depth ELSE InferDepth(cwd, build_files)
  IN  [parsed EXCEPT
         !.build_files = build_files, !.depth = depth,
         !.formats = IF @ # <<>> THEN @ ELSE IF Env(parsed, env, "GYP_GENERATORS") # <<>> THEN Env(parsed, env, "GYP_GENERATORS") ELSE <<<<"make">>>>,
         !.generator_output = IF @ # <<>> THEN @ ELSE Env(parsed, env, "GYP_GENERATOR_OUTPUT"),
         !.parallel = IF @ # <<>> THEN @ ELSE Env(parsed, env, "GYP_PARALLEL"),
         !.toplevel_dir = IF @ # <<>> THEN @ ELSE depth]
GypError(options) == options.build_files = <<>> \/ options.depth = <<>>

\* The variables a generator brings along, and those it works out for its flavour.
GeneratorDefaultVariables ==
  [EXECUTABLE_SUFFIX |-> "", STATIC_LIB_PREFIX |-> "lib", STATIC_LIB_SUFFIX |-> ".a", SHARED_LIB_PREFIX |-> "lib",
   INTERMEDIATE_DIR |-> "geni", SHARED_INTERMEDIATE_DIR |-> "gen", PRODUCT_DIR |-> "builddir", CONFIGURATION_NAME |-> "BUILDTYPE"]
CalculateVariables(flavor) ==
  LET product_dir == GeneratorDefaultVariables.PRODUCT_DIR
  IN  IF flavor = "mac" THEN [OS |-> "mac", SHARED_LIB_SUFFIX |-> ".dylib", SHARED_LIB_DIR |-> product_dir, LIB_DIR |-> product_dir]
      ELSE [OS |-> IF flavor = "android" THEN "linux" ELSE flavor, SHARED_LIB_SUFFIX |-> ".so", SHARED_LIB_DIR |-> "lib", LIB_DIR |-> "obj"]

\* Load: the name of the generator is set, its variables only where the command line has none.
LoadVariables(format, flavor, cmdline_default_variables) ==
  [GENERATOR |-> format] @@ cmdline_default_variables @@ GeneratorDefaultVariables @@ CalculateVariables(flavor)

\* What the run is about: the variables, flags and files the generator is given.
Effective(options, env, cwd, format, flavor) ==
  [variables |-> LoadVariables(format, flavor, NameValueListToDict(Env(options, env, "GYP_DEFINES") \o options.defines)),
   generator_flags |-> NameValueListToDict(Env(options, env, "GYP_GENERATOR_FLAGS") \o options.generator_flags),
   includes |-> [i \in DOMAIN options.includes |-> Abs(cwd, options.includes[i])],
   depth |-> Abs(cwd, options.depth[1]), toplevel_dir |-> Abs(cwd, options.toplevel_dir[1]),
   generator_output |-> [i \in DOMAIN options.generator_output |-> Abs(cwd, options.generator_output[i])],
   build_files |-> {Abs(cwd, options.build_files[i]) : i \in DOMAIN options.build_files},
   suffix |-> options.suffix, check |-> options.check # <<>>, debug |-> options.debug, configs |-> options.configs]

-----------------------------------------------------------------------------
\* The values an option that may be repeated is regenerated from: a later flag of the environment takes an earlier one's place.
RegenerateAppendFlag(d, value, options, env) ==
  LET fromEnv == Fold(LAMBDA flags, v : Append(SelectSeq(flags, LAMBDA w : w # v), v), <<>>, Env(options, env, Regeneratable[d].env_name))
  IN  fromEnv \o value

\* The flags for one option.
RegenerateFlag(d, options, env, cwd) ==
  LET meta == Regeneratable[d]
      appended == RegenerateAppendFlag(d, options[d], options, env)
      fixed(v) == IF meta.type = "path" THEN FixIfRelativePath(cwd, v, Abs(cwd, options.depth[1])) ELSE v
  IN  IF meta.action = "append" THEN [i \in DOMAIN appended |-> <<d, fixed(appended[i])>>]
      ELSE IF options[d] # <<>> THEN <<<<d, fixed(options[d][1])>>>>
      ELSE IF meta.action = "store" /\ Env(options, env, meta.env_name) # <<>> THEN <<<<d, fixed(Env(options, env, meta.env_name)[1])>>>>
      ELSE <<>>

\* The options come in the order of a dict: the flags of one option stay in order, which is all that counts.
DictOrder == <<"defines", "includes", "depth", "debug", "suffix", "generator_flags", "generator_output", "check", "toplevel_dir", "configs">>
RegenerateFlags(options, env, cwd) ==
  <<<<"ignore_environment", <<>>>>>> \o FlatMap(LAMBDA d : RegenerateFlag(d, options, env, cwd), DictOrder)

\* The command of the makefile's own rule; make runs it in the top directory.
WriteAutoRegenerationRule(options, env, cwd) ==
  LET top == Abs(cwd, options.toplevel_dir[1])
  IN  <<<<"formats", <<"make">>>>>> \o RegenerateFlags(options, env, cwd)
        \o [i \in DOMAIN options.build_file |-> <<"build_file", Rel(Abs(cwd, options.build_file[i]), top)>>]
=============================================================================
