------------------------------ MODULE GypBuild ------------------------------
(* From a gyp command to a built tree: gyp settles its options, writes the
   statements of one target after another (MakeWriter or NinjaWriter), and make
   or ninja carries them out with several jobs at a time, again after edits,
   failed commands and interrupts.

   A file's content is the set of <<source, version>> it is made from.  newer
   holds <<i, o>> when i was written after o. *)
EXTENDS MakeWriter, NinjaWriter, GypMain
LOCAL INSTANCE SequencesExt

CONSTANTS
  Work,       \* the projects, with the command and the environment gyp is run with
  Jobs,       \* commands make or ninja runs at a time
  MaxEdits, MaxFaults

VARIABLES
  work,       \* the project of this behaviour
  pc,         \* "gyp", "write", "idle", "build", "error"
  run,        \* the run of gyp under way or last: args, env, cwd, options
  first,      \* what the first run of gyp was about
  todo,       \* targets written so far
  stmts,      \* the statements written
  made,       \* target_outputs
  links,      \* target_link_deps of make
  version,    \* source file -> how often it was edited; "gyp" too
  text,       \* the version of the .gyp files the statements were written from
  content, newer,
  logged,     \* file -> the command line recorded for it
  depfile,    \* object -> headers the compiler reported
  goal, done, running,
  outcome,    \* "", "ok", "failed", "interrupted", "stuck"
  stopping,   \* a command failed: no other is started
  settled,    \* nothing has changed since the last build that went well
  edits, faults

genVars == <<run, first, todo, stmts, made, links, text>>
treeVars == <<version, content, newer, logged, depfile>>
buildVars == <<goal, done, running, outcome, stopping>>
bounds == <<edits, faults>>
vars == <<work, pc, genVars, treeVars, buildVars, settled, bounds>>

Specs == work.specs
Flavor == work.flavor
Ninja == work.format = "ninja"
PathOf(t, p) == IF Ninja THEN GypPathToNinja(Specs[t], p) ELSE MakePath(Specs[t], p)
Headers(t) == {PathOf(h[1], h[2]) : h \in Specs[t].includes}
Tree == {SourceFile(Specs[t], p) : <<t, p>> \in work.tree}

-----------------------------------------------------------------------------
\* gyp_main

NoRun == [args |-> <<>>, env |-> <<>>, cwd |-> <<>>, options |-> <<>>]
Init ==
  /\ work \in Work
  /\ pc = "gyp"
  /\ run = [NoRun EXCEPT !.args = work.args, !.env = work.env, !.cwd = work.cwd]
  /\ first = <<>>
  /\ todo = 0 /\ stmts = {} /\ made = <<>> /\ links = <<>> /\ text = 0
  /\ version = [f \in {<<"srcdir", Specs[t].dir, p[2], p[3]>> : <<t, p>> \in work.tree} \union {<<"gyp">>} |-> 0]
  /\ content = <<>> /\ newer = {} /\ logged = <<>> /\ depfile = <<>>
  /\ goal = {} /\ done = {} /\ running = {} /\ outcome = "" /\ stopping = FALSE
  /\ settled = FALSE
  /\ edits = 0 /\ faults = 0

\* The options are settled; a run without a build file or a depth ends here.
Start ==
  /\ pc = "gyp"
  /\ \E options \in {Settled(run.args, run.env, run.cwd)} :
       /\ run' = [run EXCEPT !.options = options]
       /\ IF GypError(options)
          THEN pc' = "error" /\ UNCHANGED <<first, todo, stmts, made, links, text>>
          ELSE /\ pc' = "write"
               /\ first' = IF first = <<>> THEN <<Effective(options, run.env, run.cwd, work.format, Flavor)>> ELSE first
               /\ todo' = 0 /\ stmts' = {} /\ made' = <<>> /\ links' = <<>>
               /\ text' = version[<<"gyp">>]
  /\ UNCHANGED <<work, treeVars, buildVars, settled, bounds>>

With1(f, t, v) == [x \in DOMAIN f \union {t} |-> IF x = t THEN v ELSE f[x]]

\* The target with the Xcode settings of its build file.
Merged(t) == IF Flavor = "mac" THEN MergeGlobalXcodeSettingsToSpec(work.global_xcode_settings, Specs[t]) ELSE Specs[t]
EnvsOf(spec) ==
  XcodeEnvs(spec, Flavor, IF Ninja THEN NinjaPostbuildSettings(spec) ELSE MakePostbuildSettings(spec), work.names, work.hash)

\* Variables of the target that refer to each other end the run, with the files written so far.
EnvFails ==
  /\ pc = "write" /\ todo < Len(Specs)
  /\ \E spec \in {Merged(todo + 1)} : \E envs \in {EnvsOf(spec)} : EnvRaises(spec, Flavor, envs)
  /\ pc' = "error"
  /\ UNCHANGED <<work, genVars, treeVars, buildVars, settled, bounds>>

\* GenerateOutput's loop: one target.
WriteMakefile ==
  /\ pc = "write" /\ ~Ninja /\ todo < Len(Specs)
  /\ \E t \in {todo + 1} :
     \E part_of_all \in {t \in UNION {AllTargets(Specs, f) : f \in work.roots}} :
     \E spec \in {Merged(t)} : \E envs \in {EnvsOf(spec)} :
     \E w \in {MakeWrite(spec, Flavor, made, links, Headers(t), part_of_all, envs)} :
       /\ ~EnvRaises(spec, Flavor, envs)
       /\ stmts' = stmts \union w.stmts
       /\ made' = With1(made, t, w.made)
       /\ links' = IF w.link = <<>> THEN links ELSE With1(links, t, w.link[1])
       /\ todo' = t
  /\ UNCHANGED <<work, pc, run, first, text, treeVars, buildVars, settled, bounds>>

WriteNinja ==
  /\ pc = "write" /\ Ninja /\ todo < Len(Specs)
  /\ \E t \in {todo + 1} : \E spec \in {Merged(t)} : \E envs \in {EnvsOf(spec)} : \E w \in {WriteSpec(spec, Flavor, made, Headers(t), envs)} :
       /\ ~EnvRaises(spec, Flavor, envs)
       /\ stmts' = stmts \union w.stmts
       /\ made' = IF w.target = None THEN made ELSE With1(made, t, w.target[1])
       /\ todo' = t
  /\ UNCHANGED <<work, pc, run, first, links, text, treeVars, buildVars, settled, bounds>>

\* make finds the sources of suffix rules, ninja gets its short names.  A
\* makefile that was remade is read again by the make that remade it.
WriteEnds ==
  /\ pc = "write" /\ todo = Len(Specs)
  /\ stmts' = IF Ninja THEN stmts \union ShortNames(Specs, made, UNION {AllTargets(Specs, f) : f \in work.roots})
              ELSE Resolve(stmts, Tree)
  /\ pc' = "idle"
  /\ UNCHANGED <<work, run, first, todo, made, links, text, treeVars, buildVars, settled, bounds>>

-----------------------------------------------------------------------------
\* make and ninja.

RulesFor(f) == {r \in stmts : f \in r.outs}
Reported(f) == IF f \in DOMAIN depfile THEN depfile[f] ELSE {}
Inputs(f) == UNION {r.ins : r \in RulesFor(f)} \union Reported(f)
Prereqs(f) == Inputs(f) \union UNION {r.order : r \in RulesFor(f)}
AllFiles == UNION {r.outs \union r.ins \union r.order : r \in stmts} \union UNION {depfile[o] : o \in DOMAIN depfile}

\* The text of a command: compilers, linkers and actions take flags from the .gyp file.
CommandLine(r) == IF r.cmd \in {"copy", "touch", "stamp", "mac_tool", "bundle"} THEN 0 ELSE text
Depends(r) == r.cmd \in {"cc", "pch"}

\* Mutant: a command that changed is not noticed.
Dirty_Silent(r) == \E o \in r.outs : o \notin DOMAIN content \/ \E i \in Inputs(o) : <<i, o>> \in newer

Dirty(r) == \E o \in r.outs :
  \/ o \notin DOMAIN content
  \/ logged[o] # CommandLine(r)
  \/ \E i \in Inputs(o) : <<i, o>> \in newer

Closure(from) ==
  LET step(needs) ==
        LET reach[n \in 0..12] == IF n = 0 THEN from
                                  ELSE With(LAMBDA s : {f \in DOMAIN needs : f \in s \/ \E g \in s : f \in needs[g]}, reach[n - 1])
        IN  reach[12]
  IN  With(step, [f \in AllFiles |-> Prereqs(f)])

\* Everything that needs no command any more: what the jobs under way, and those that
\* have to be carried out, do not make, and what is not missing.
Settle(finished, busy) ==
  LET blocked == UNION {r.outs : r \in {s \in Commands(stmts) : s \in busy \/ Dirty(s)}}
                   \union {f \in goal : RulesFor(f) = {} /\ f \notin Tree}
      step(needs) ==
        LET more[n \in 0..12] == IF n = 0 THEN finished
                                 ELSE With(LAMBDA d : {f \in goal : f \in d \/ (f \in DOMAIN needs /\ needs[f] \subseteq d)}, more[n - 1])
        IN  more[12]
  IN  With(LAMBDA no : With(step, [f \in goal \ no |-> Prereqs(f)]), blocked)

StartBuild ==
  /\ pc = "idle" /\ ~settled /\ text = version[<<"gyp">>]
  /\ pc' = "build"
  /\ goal' = Closure({<<"phony", "all">>})
  /\ done' = {} /\ running' = {} /\ outcome' = "" /\ stopping' = FALSE
  /\ UNCHANGED <<work, genVars, treeVars, settled, bounds>>

\* make remakes the makefile first when a .gyp file is newer.
RemakeMakefile ==
  /\ pc = "idle" /\ ~Ninja /\ text # version[<<"gyp">>]
  /\ pc' = "gyp"
  /\ run' = [NoRun EXCEPT !.args = WriteAutoRegenerationRule(run.options, run.env, run.cwd), !.env = work.later,
                          !.cwd = Abs(run.cwd, run.options.toplevel_dir[1])]
  /\ UNCHANGED <<work, first, todo, stmts, made, links, text, treeVars, buildVars, settled, bounds>>

\* With ninja gyp is run again by hand, by the same command.
RunGypAgain ==
  /\ pc = "idle" /\ Ninja /\ text # version[<<"gyp">>]
  /\ pc' = "gyp"
  /\ run' = [NoRun EXCEPT !.args = work.args, !.env = work.env, !.cwd = work.cwd]
  /\ UNCHANGED <<work, first, todo, stmts, made, links, text, treeVars, buildVars, settled, bounds>>

Up == Settle(done, running)
Ready(up) == {r \in Commands(stmts) \ running : r.outs \cap (goal \ up) # {} /\ \A o \in r.outs : Prereqs(o) \subseteq up}

StartCommand ==
  /\ pc = "build" /\ ~stopping /\ Cardinality(running) < Jobs
  /\ \E up \in {Up} : \E r \in Ready(up) :
       /\ running' = running \union {r}
       /\ done' = up
  /\ UNCHANGED <<work, pc, genVars, treeVars, goal, outcome, stopping, settled, bounds>>

\* What a command reads, and what of it ends up in what it writes: an archive
\* takes objects only, and linking with a shared library takes its interface.
Reads(r) == r.reads \union UNION {Inputs(o) : o \in r.outs}
Interface(c) == {x \in c : x[1] \notin work.private}
Taken(r, f, c) ==
  IF r.cmd \in {"touch", "stamp", "bundle"} \/ (r.cmd = "alink" /\ f[Len(f)] # "o") THEN {}
  ELSE IF r.cmd \in {"link", "solink"} /\ f[Len(f)] \in {"so", "TOC", "stamp"} THEN Interface(c)
  ELSE c
\* What is in a file: built is what the build directory holds.
Value(built, f) ==
  IF f \in DOMAIN built THEN built[f] ELSE IF f \in DOMAIN version THEN {<<f, version[f]>>} ELSE {}

Derived(r, o, built) ==
  LET taken == UNION {Taken(r, f, Value(built, f)) : f \in Reads(r)} \union IF CommandLine(r) = 0 THEN {} ELSE {<<<<"gyp">>, text>>}
  IN  {x \in taken : o[Len(o)] = "TOC" => x[1] \notin work.private}

\* The outputs that count as made now: ninja's log has those that were left alone too.
Recorded(r, written) == IF Ninja THEN r.writes ELSE written

\* The outputs `written` get a new time; those of r, and their inputs, are recorded.
Written(r, written) ==
  /\ content' = [f \in DOMAIN content \union r.writes |-> IF f \in r.writes THEN Derived(r, f, content) ELSE content[f]]
  /\ newer' = {p \in newer : p[2] \notin Recorded(r, written)}
                \union {p \in written \X ((DOMAIN content \union r.writes) \ r.writes) : p[1] \in Inputs(p[2])}
  /\ logged' = [f \in DOMAIN logged \union r.writes |-> IF f \in r.writes THEN CommandLine(r) ELSE logged[f]]
  /\ depfile' = IF Depends(r) THEN [f \in DOMAIN depfile \union r.outs |-> IF f \in r.outs THEN r.reads ELSE depfile[f]] ELSE depfile

\* An action may leave outputs that would not change alone; a .TOC file that does not change is left alone.
Same(r) == {f \in r.writes : f \in DOMAIN content /\ content[f] = Derived(r, f, content)}
Touched(r) ==
  CASE r.cmd = "action" -> {r.writes} \union (IF Same(r) = r.writes THEN {{}} ELSE {})
    [] r.cmd = "solink" -> {{f \in r.writes : f[Len(f)] = "TOC" => f \notin Same(r)}}
    [] OTHER -> {r.writes}

FinishCommand ==
  /\ pc = "build"
  /\ \E r \in running : \E written \in Touched(r) :
       /\ Written(r, written)
       /\ running' = running \ {r}
       /\ done' = Up \union r.outs
  /\ UNCHANGED <<work, pc, genVars, version, goal, outcome, stopping, settled, bounds>>

\* An output that is removed.
Removed(files) ==
  /\ content' = [f \in DOMAIN content \ files |-> content[f]]
  /\ newer' = {p \in newer : p[1] \notin files /\ p[2] \notin files}
  /\ UNCHANGED <<logged, depfile, version>>

\* A command fails: compilers and linkers remove what they wrote, so do failing
\* postbuilds; an action that fails leaves its outputs.
CommandFails ==
  /\ pc = "build" /\ faults < MaxFaults
  /\ \E r \in running :
       /\ running' = running \ {r}
       /\ Removed(IF r.cmd = "action" THEN {} ELSE r.outs)
  /\ stopping' = TRUE
  /\ faults' = faults + 1
  /\ UNCHANGED <<work, pc, genVars, goal, done, outcome, settled, edits>>

\* Ctrl-C: the outputs of the commands under way are removed.
Interrupt ==
  /\ pc = "build" /\ faults < MaxFaults /\ running # {}
  /\ Removed(UNION {r.outs : r \in running})
  /\ running' = {} /\ pc' = "idle" /\ outcome' = "interrupted"
  /\ faults' = faults + 1
  /\ UNCHANGED <<work, genVars, goal, done, stopping, settled, edits>>

EndBuild ==
  /\ pc = "build" /\ running = {}
  /\ \E up \in {Up} :
       /\ ~stopping => Ready(up) = {}
       /\ done' = up
       /\ outcome' = IF stopping THEN "failed" ELSE IF goal \subseteq up THEN "ok" ELSE "stuck"
  /\ pc' = "idle"
  /\ settled' = (outcome' = "ok")
  /\ UNCHANGED <<work, genVars, treeVars, goal, running, stopping, bounds>>

Edit ==
  /\ pc = "idle" /\ edits < MaxEdits /\ outcome # ""
  /\ \E f \in DOMAIN version :
       /\ version' = [version EXCEPT ![f] = @ + 1]
       /\ newer' = newer \union {p \in {f} \X DOMAIN content : p[1] \in Inputs(p[2])}
  /\ edits' = edits + 1 /\ settled' = FALSE
  /\ UNCHANGED <<work, pc, genVars, content, logged, depfile, buildVars, faults>>

\* Nobody edits any more, or gyp could not be run.
Rest ==
  /\ settled \/ pc = "error" \/ outcome = "stuck"
  /\ UNCHANGED vars

Next ==
  \/ Start \/ EnvFails \/ WriteMakefile \/ WriteNinja \/ WriteEnds \/ RemakeMakefile \/ RunGypAgain
  \/ StartBuild \/ StartCommand \/ FinishCommand \/ CommandFails \/ Interrupt \/ EndBuild \/ Edit \/ Rest

Spec == Init /\ [][Next]_vars

-----------------------------------------------------------------------------
\* Jobs are within the limit, what runs can run, and only files with a command have a content.
BuildTypeOK ==
  /\ pc \in {"gyp", "write", "idle", "build", "error"}
  /\ outcome \in {"", "ok", "failed", "interrupted", "stuck"}
  /\ todo \in 0..Len(Specs)
  /\ Cardinality(running) <= Jobs
  /\ running \subseteq Commands(stmts)
  /\ newer \subseteq (DOMAIN content \union DOMAIN version) \X DOMAIN content
  /\ DOMAIN content \subseteq DOMAIN logged

\* However the jobs interleave, a command starts only when all it reads is in
\* place: inputs, libraries, and headers that actions of its own target or of
\* targets it depends on generate, in a first build and in a rebuild.
ReadsMade == \A r \in running : \A f \in Reads(r) :
  /\ f \in DOMAIN content \union DOMAIN version
  /\ RulesFor(f) # {} => f \in done

\* No two commands write the same file, even when two targets compile one source.
OneWriter == pc \in {"idle", "build"} =>
  \A r, s \in Commands(stmts) : r # s => r.writes \cap s.writes = {}

\* A build never ends for want of a rule or with statements that wait for each other.
NeverStuck == outcome # "stuck"

\* After a build that went well the outputs of all steps of the targets that
\* the command line asks for, and of those they depend on, are there.
EverythingMade == pc = "idle" /\ outcome = "ok" =>
  \A t \in UNION {AllTargets(Specs, f) : f \in work.roots} :
    /\ \A a \in ToSet(Specs[t].actions) : \A p \in ToSet(a.outputs) : PathOf(t, p) \in DOMAIN content
    /\ \A c \in ToSet(Specs[t].copies) : \A p \in ToSet(c.files) : PathOf(t, <<c.destination, p[2], p[3]>>) \in DOMAIN content
    /\ \A rule \in ToSet(Specs[t].rules) : \A s \in ToSet(rule.rule_sources) : \A p \in ToSet(rule.step.outputs) :
         PathOf(t, Expand(p, s)) \in DOMAIN content
    /\ t \in DOMAIN made
    /\ (IF Ninja THEN FinalOutput(made[t]) ELSE made[t]) \in DOMAIN content

\* What a build of an empty directory would make.
Fresh ==
  LET files == UNION {r.writes : r \in Commands(stmts)}
      next(old) == [f \in files |-> LET r == CHOOSE s \in Commands(stmts) : f \in s.writes IN Derived(r, f, old)]
      value[n \in 0..7] == IF n = 0 THEN [f \in files |-> {}] ELSE With(next, value[n - 1])
  IN  value[7]

\* After a build that went well, whatever was edited, interrupted or failed
\* before, every file is what a build from scratch would give.
UpToDate == pc = "idle" /\ settled => \E fresh \in {Fresh} : \A f \in goal \cap DOMAIN fresh : content[f] = fresh[f]

\* After such a build another has nothing to do, except that make runs again
\* the actions that left their outputs alone.
NothingLeft == pc = "idle" /\ settled =>
  \A r \in Commands(stmts) : r.outs \cap goal # {} /\ Dirty(r) => ~Ninja /\ r.cmd = "action"

\* A makefile that runs gyp again runs it with the same variables, flags and
\* files, whatever the environment and the directory have become.
RegeneratesSame == pc = "write" => first = <<Effective(run.options, run.env, run.cwd, work.format, Flavor)>>

\* Steps get variables in an order in which each refers to earlier ones only, however
\* Python orders its sets, and no command line keeps a reference that could be expanded.
EnvResolved == pc = "write" => \A r \in stmts :
  /\ \A i, j \in DOMAIN r.env : <<"${", r.env[j][1]>> \in ToSet(r.env[i][2]) => j < i
  /\ Flavor = "mac" => \A part \in ToSet(r.args) : Reference(part) => part[2] \notin {"SRCROOT", "SOURCE_ROOT", "TEMP_DIR", "PRODUCT_NAME"}

\* The variables that a variable's value leads to.
LeadsTo(env, k) ==
  LET further(names) == names \union UNION {UsedBy(env, v) : v \in names}
      reached[n \in Nat] == IF n = 0 THEN UsedBy(env, k) ELSE With(further, reached[n - 1])
  IN  reached[Cardinality(DOMAIN env)]

\* gyp refuses a target exactly when it cannot translate its settings, or variables it
\* has to write for it lead back to themselves.
CyclesRefused == pc \in {"write", "error"} =>
  LET cyclic(t, additional) == \E env \in {GetXcodeEnv(Merged(t), additional)} : \E k \in DOMAIN env : k \in LeadsTo(env, k)
      bad(t) == /\ Flavor = "mac"
                /\ \/ SettingsRaise(Merged(t))
                   \/ cyclic(t, <<>>) /\ (Specs[t].actions # <<>> \/ Postbuilds(Merged(t), Flavor, <<>>, <<>>) # <<>>)
                   \/ cyclic(t, GetPerTargetSettings(Merged(t).xcode_settings)) /\ Specs[t].mac_bundle /\ Specs[t].info_plist # <<>>
  IN  /\ pc = "error" => GypError(run.options) \/ bad(todo + 1)
      /\ \A t \in 1..todo : ~bad(t)

\* However the jobs interleave, in a first build, a rebuild or one after an interrupt: what
\* a command reads is made before, nothing has two writers, and the build goes on.
JobsSound == BuildTypeOK /\ ReadsMade /\ OneWriter /\ NeverStuck

\* A build that went well has made everything that was asked for, as a build from
\* scratch would, and leaves nothing for the next one.
BuildComplete == EverythingMade /\ UpToDate /\ NothingLeft

\* Whatever is put into a bundle lies in the directory that its last step packages.
BundleWhole == pc = "write" => \A r \in stmts : r.cmd = "bundle" => \A f \in r.ins, wrapper \in r.outs : IsPrefix(wrapper, f)

\* A precompiled header has the flags of every compilation that waits for it, which
\* would refuse it otherwise.
HeadersFit == pc = "write" => \A g, waiting, r \in stmts :
  g.cmd = "pch" /\ waiting.ins \cap g.outs # {} /\ r.cmd # "" /\ r.outs \cap waiting.outs # {} => r.flags = g.flags

\* Debug information is taken before a binary is stripped, and what the target asks for comes last.
SymbolsKept == pc = "write" => \A r \in stmts : \A i, j \in DOMAIN r.postbuilds :
  i < j => <<r.postbuilds[i][1], r.postbuilds[j][1]>> \in {<<"dsymutil", "strip">>, <<"dsymutil", "postbuild">>, <<"strip", "postbuild">>}

\* The linker, which runs in the build directory, gets no path relative to the .gyp file.
LinkPathsBuilt == pc = "write" => \A r \in stmts : r.cmd \in {"link", "solink"} => \A part \in ToSet(r.flags) : part[1] # "rel"

\* The variables name the products that the build makes.
ProductsNamed == pc = "write" => \A r \in stmts : \A i \in DOMAIN r.env :
  r.env[i][1] \in {"EXECUTABLE_PATH", "FULL_PRODUCT_NAME"} =>
    \E made1 \in Commands(stmts) : <<IF Ninja THEN "out" ELSE "builddir">> \o File(r.env[i][2]) \in made1.outs

\* A Mac target is translated as a whole: its variables in order or, in a circle, refused,
\* and its products, flags and postbuilds agreeing with each other.
MacTargetsSound ==
  /\ EnvResolved /\ CyclesRefused
  /\ BundleWhole /\ HeadersFit /\ SymbolsKept /\ LinkPathsBuilt /\ ProductsNamed
=============================================================================
