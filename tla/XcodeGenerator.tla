--------------------------- MODULE XcodeGenerator ---------------------------
(* gyp.generator.xcode: the .xcodeproj of every .gyp file is built up target by
   target, finalized in two passes over the projects, and written.  A run is
   followed by another one on the same or on an edited input. *)
EXTENDS XcodeTargets
LOCAL INSTANCE SequencesExt

CONSTANTS
  Work,       \* sequences of inputs, one for each run of gyp
  MaxFaults   \* how often a file operation fails or the process is killed

VARIABLES
  work, turn, \* the inputs of this behaviour, and the run it is at
  pc,
  order,      \* the .gyp files in the order data.iteritems() answers them
  heap,
  projects,   \* xcode_projects: .gyp file -> [project, created_dir]
  at,         \* the target of target_list being translated
  todo,       \* what is left to do for it
  xct,        \* xcode_targets: number of a target -> object
  hung,       \* support_target and test_runner: object -> object
  last,       \* the copy phase created last
  left,       \* the projects the current loop has still to visit
  ids,
  printed,    \* what was printed to the temporary file
  bad,        \* the exception that ended the run
  disk,       \* .gyp file -> [dir, text, temps, makefiles, stamp]
  before,     \* disk as it was when the run began
  known,      \* the ID of every file below Source in the last complete run
  faults

genVars == <<order, heap, projects, at, todo, xct, hung, last>>
outVars == <<ids, printed>>
vars == <<work, turn, pc, genVars, left, outVars, bad, disk, before, known, faults>>

input == work[turn]
Files == DOMAIN input.files
TargetList == input.targets
NoDisk == [dir |-> FALSE, text |-> {}, temps |-> 0, makefiles |-> {}, stamp |-> 0]

Init ==
  /\ work \in Work
  /\ turn = 1 /\ pc = "projects"
  /\ order = <<>> /\ heap = <<>> /\ projects = <<>> /\ at = 0 /\ todo = <<>> /\ xct = <<>> /\ hung = <<>> /\ last = 0
  /\ left = <<>> /\ ids = <<>> /\ printed = {} /\ bad = ""
  /\ disk = [b \in Files |-> NoDisk] /\ before = disk
  /\ known = <<>> /\ faults = 0

\* The heap after an operation, or the end of the run when it raised.
Carry(r) == IF r.bad = "" THEN heap' = r.h /\ UNCHANGED <<pc, bad>>
            ELSE pc' = "raised" /\ bad' = r.bad /\ UNCHANGED heap

-----------------------------------------------------------------------------
\* One XcodeProject for each .gyp file, in the order of the dictionary

XcodeprojPath(b) == input.generator_output \o input.files[b].dir \o <<<<input.files[b].name, "xcodeproj">>>>
ProjectDirPath(b) == RelativePath(input.files[b].dir, Dirname(XcodeprojPath(b)))

AddProject(b) ==
  /\ pc = "projects" /\ b \in Files \ ToSet(order)
  /\ order' = Append(order, b)
  /\ \E h \in {NewProject(heap, XcodeprojPath(b), ProjectDirPath(b))} :
     \E r \in {Then(LAMBDA hh, g : Fold(LAMBDA s, f : Then(LAMBDA x, y : AddOrGetFileByPath(x, g, f, FALSE), s), Ok(hh, g), input.files[b].included),
                    GroupByName(h, Len(h), "Build"))} :
       /\ Carry(r)
       /\ projects' = (b :> [project |-> Len(h), created_dir |-> ~disk[b].dir]) @@ projects
  /\ disk' = [disk EXCEPT ![b].dir = TRUE]
  /\ UNCHANGED <<work, turn, at, todo, xct, hung, last, left, outVars, before, known, faults>>

-----------------------------------------------------------------------------
\* A target

Spec(i) == TargetList[i]
Project(i) == projects[Spec(i).file].project
types == [executable |-> "tool", loadable_module |-> "loadable", shared_library |-> "dynamic", static_library |-> "static"]
bundle_types == [executable |-> "application", loadable_module |-> "bundle", shared_library |-> "framework"]
Kind(s) == IF s.mac_bundle THEN bundle_types[s.type] ELSE types[s.type]
source_extensions == {"c", "cc", "cpp", "cxx", "m", "mm", "s"}
library_extensions == {"a", "dylib", "framework", "o"}

\* The output of a rule for one of its sources.
ExpandXcodeVariables(output, source) == [k \in DOMAIN output |-> IF output[k][1] = "%" THEN <<Last(source)[1], output[k][2]>> ELSE output[k]]
Outputs(rule, source) == Map(LAMBDA o : ExpandXcodeVariables(o, source), rule.outputs)

Op(op, arg) == [op |-> op, arg |-> arg]
Each(op, paths) == Map(LAMBDA p : Op(op, p), paths)
Script(name) == Op("script", Called(name))

\* What one pass of the loop over target_list does once the target exists.
ActionSteps(s) ==
  FlatMap(LAMBDA a : <<Script(a.name)>> \o (IF a.as_sources THEN Each("source", a.outputs) ELSE <<>>)
                     \o (IF a.as_resources THEN Each("resource", a.outputs) ELSE <<>>), s.actions)
RuleSteps(s) ==
  FlatMap(LAMBDA r :
            FlatMap(LAMBDA f : Each("root", Outputs(r, f)) \o (IF r.as_sources THEN Each("source", Outputs(r, f)) ELSE <<>>)
                               \o (IF r.as_resources \/ (s.mac_bundle /\ f \in ToSet(s.resources)) THEN Each("resource", Outputs(r, f)) ELSE <<>>),
                    r.rule_sources)
            \o (IF r.rule_sources # <<>> /\ r.outputs # <<>> THEN <<Op("makefile", <<<<s.name, r.name>>>>), Script(r.name)>> ELSE <<>>)
            \o Each("root", r.inputs), s.rules)
RuleExtensions(s) == {r.extension : r \in ToSet(s.rules)}
FileSteps(s) ==
  LET unless_rule(op, p) == Op(IF Last(p)[2] \in RuleExtensions(s) THEN "root" ELSE op, p)
  IN  Map(LAMBDA p : unless_rule("source", p), s.sources)
      \o (IF s.mac_bundle THEN Map(LAMBDA p : unless_rule("resource", p), s.resources) \o Each("private header", s.private_headers) ELSE <<>>)
      \o (IF s.mac_bundle \/ s.type = "static_library" THEN Each("public header", s.headers) ELSE <<>>)
CopySteps(s) == FlatMap(LAMBDA c : <<Op("copies", c.destination)>> \o Each("copy", c.files), s.copies)
ListedSteps(s) ==
  (IF input.list_excluded THEN Each("root", s.excluded) ELSE <<>>)
  \o FlatMap(LAMBDA a : Each("root", SelectSeq(a.inputs \o a.outputs, LAMBDA p : p[1] # <<"BUILT_PRODUCTS_DIR", "$">>)), s.actions)
TargetSteps(s) ==
  ActionSteps(s) \o RuleSteps(s) \o FileSteps(s) \o CopySteps(s) \o ListedSteps(s)
  \o Map(LAMBDA n : Op("postbuild", Called(n)), s.postbuilds)
  \o Each("dependency", [k \in DOMAIN s.dependencies |-> <<s.dependencies[k]>>])
  \o Each("library", s.libraries)
  \o Map(LAMBDA c : Op("configuration", Called(c)), s.configurations)

\* What is refused before the target is made: another toolset, a product type Xcode does
\* not have, a bundle of type none.
Refused(s) ==
  CASE s.toolset # "target" -> "multiple toolsets"
    [] s.type = "none" /\ s.mac_bundle -> "bundle of type none"
    [] s.type # "none" /\ s.type \notin DOMAIN (IF s.mac_bundle THEN bundle_types ELSE types) -> "unknown product type"
    [] OTHER -> ""

SupportOf(t) == IF t \in DOMAIN hung /\ "support" \in DOMAIN hung[t] THEN hung[t].support ELSE 0
NeedsSupport(s) == s.type # "none" /\ (s.actions # <<>> \/ s.rules # <<>>)

\* The target's own object and, when it is both linked and has scripts to run,
\* the support target that runs them first.
MadeTarget(s, p) ==
  Then(LAMBDA hh, t :
         IF ~NeedsSupport(s) THEN Ok(hh, <<t>>)
         ELSE With(LAMBDA g : Then(LAMBDA x, y : Ok(x, <<t, Len(g)>>), AddDependency(AppendProperty(g, p, "targets", Len(g)), t, Len(g))),
                   NewAggregate(hh, p, s.name \o " Support", s.product_name \o " Support", s.configurations)),
       Then(LAMBDA hh, t : Ok(AppendProperty(hh, p, "targets", t), t),
            IF s.type = "none" THEN With(LAMBDA g : Ok(g, Len(g)), NewAggregate(heap, p, s.name, s.product_name, s.configurations))
            ELSE NewNativeTarget(heap, p, s, Kind(s), s.configurations)))

AddTarget ==
  /\ \/ pc = "projects" /\ ToSet(order) = Files
     \/ pc = "target" /\ todo = <<>> /\ at < Len(TargetList)
  /\ at' = at + 1
  /\ \E r \in {IF Refused(Spec(at + 1)) # "" THEN Raise(heap, Refused(Spec(at + 1))) ELSE MadeTarget(Spec(at + 1), Project(at + 1))} :
       IF r.bad # "" THEN pc' = "raised" /\ bad' = r.bad /\ UNCHANGED <<heap, xct, hung, todo>>
       ELSE /\ heap' = r.h /\ pc' = "target" /\ UNCHANGED bad
            /\ xct' = (at + 1 :> r.ref[1]) @@ xct
            /\ hung' = (IF Len(r.ref) = 2 THEN r.ref[1] :> [support |-> r.ref[2]] ELSE <<>>) @@ hung
            /\ todo' = TargetSteps(Spec(at + 1))
  /\ UNCHANGED <<work, turn, order, projects, last, left, outVars, disk, before, known, faults>>

Doing(op) == pc = "target" /\ todo # <<>> /\ Head(todo).op = op
Arg == Head(todo).arg
Self == xct[at]
Step == /\ todo' = Tail(todo)
        /\ UNCHANGED <<work, turn, order, projects, at, xct, hung, left, outVars, before, known, faults>>

\* A script is a phase of the support target, or, in a target that is not
\* linked, a phase after the scripts that are there already; insert() leaves
\* that one without a parent.
AddScript ==
  /\ Doing("script") /\ Step
  /\ LET support == SupportOf(Self)
         phases == heap[Self].props.buildPhases
         prebuild_index == Len(SelectSeq(phases, LAMBDA b : heap[b].class = "PBXShellScriptBuildPhase"))
         made == NewPhase(heap, "PBXShellScriptBuildPhase", 0, [name |-> Arg])
     IN  heap' = IF support # 0 THEN AppendProperty(made, support, "buildPhases", Len(made))
                 ELSE SetProperty(made, Self, "buildPhases", InsertAt(phases, prebuild_index + 1, Len(made)))
  /\ UNCHANGED <<pc, bad, last, disk>>

AddMakefile ==
  /\ Doing("makefile") /\ Step
  /\ disk' = [disk EXCEPT ![Spec(at).file].makefiles = @ \union {Arg}]
  /\ UNCHANGED <<pc, bad, heap, last>>

AddSourceToTarget ==
  /\ Doing("source") /\ Step
  /\ \E r \in {LET ext == Last(Arg)[2]
                   in(phase) == Then(LAMBDA hh, b : AddFile(hh, b, Arg, ""), phase)
               IN  CASE Spec(at).type # "none" /\ ext \in source_extensions -> in(SourcesPhase(heap, Self))
                     [] Spec(at).type # "none" /\ ext \in library_extensions -> in(FrameworksPhase(heap, Self))
                     [] OTHER -> AddOrGetFileInRootGroup(heap, Project(at), Arg)} : Carry(r)
  /\ UNCHANGED <<last, disk>>

AddResourceToTarget ==
  /\ Doing("resource") /\ Step
  /\ \E r \in {Then(LAMBDA hh, b : AddFile(hh, b, Arg, ""), ResourcesPhase(heap, Self))} : Carry(r)
  /\ UNCHANGED <<last, disk>>

AddHeaderToTarget ==
  /\ \E access \in {"private", "public"} :
       /\ Doing(access \o " header") /\ Step
       /\ \E r \in {Then(LAMBDA hh, b : AddFile(hh, b, Arg, access), HeadersPhase(heap, Self))} : Carry(r)
  /\ UNCHANGED <<last, disk>>

AddToRootGroup ==
  /\ Doing("root") /\ Step
  /\ \E r \in {AddOrGetFileInRootGroup(heap, Project(at), Arg)} : Carry(r)
  /\ UNCHANGED <<last, disk>>

\* Each copy phase goes in front of the ones before it.  A destination that starts with a
\* variable without parentheses is refused.
AddCopies ==
  /\ Doing("copies") /\ Step
  /\ LET phases == heap[Self].props.buildPhases
         prebuild_index == Len(SelectSeq(phases, LAMBDA b : heap[b].class = "PBXShellScriptBuildPhase"))
         made == NewPhase(heap, "PBXCopyFilesBuildPhase", Self, [name |-> Called("Copy to") \o Arg, dstPath |-> Arg])
         bare == Arg[1][2] = "$$"
     IN  /\ Carry(IF bare THEN Raise(heap, "destination")
                  ELSE Ok(SetProperty(made, Self, "buildPhases", InsertAt(phases, prebuild_index + 1, Len(made))), 0))
         /\ last' = IF bare THEN last ELSE Len(made)
  /\ UNCHANGED disk

AddCopy ==
  /\ Doing("copy") /\ Step
  /\ \E r \in {AddFile(heap, last, Arg, "")} : Carry(r)
  /\ UNCHANGED <<last, disk>>

AddPostbuild ==
  /\ Doing("postbuild") /\ Step
  /\ LET made == NewPhase(heap, "PBXShellScriptBuildPhase", 0, [name |-> Arg])
     IN  heap' = AppendProperty(made, Self, "buildPhases", Len(made))
  /\ UNCHANGED <<pc, bad, last, disk>>

\* The support target gets the dependencies too.
AddTargetDependencies ==
  /\ Doing("dependency") /\ Step
  /\ LET other == xct[Arg[1]]
     IN  \E r \in {Then(LAMBDA hh, t : IF SupportOf(Self) = 0 THEN Ok(hh, t) ELSE AddDependency(hh, SupportOf(Self), other),
                        AddDependency(heap, Self, other))} : Carry(r)
  /\ UNCHANGED <<last, disk>>

AddLibrary ==
  /\ Doing("library") /\ Step
  /\ LET dir == Dirname(Arg)
         key == "LIBRARY_SEARCH_PATHS"
         searched(h) == HasBuildSetting(h, Self, key) # 0 /\ dir \in ToSet(GetBuildSetting(h, Self, key))
         standard == dir = <<<<"SDKROOT", "$">>, Part("usr"), Part("lib")>>
     IN  \E r \in {Then(LAMBDA h1, b :
                     Then(LAMBDA h2, x : Ok(IF standard \/ searched(h2) THEN h2 ELSE AppendBuildSetting(h2, Self, key, dir), x),
                          AddFile(h1, b, Arg, "")),
                     FrameworksPhase(heap, Self))} : Carry(r)
  /\ UNCHANGED <<last, disk>>

SetConfiguration ==
  /\ Doing("configuration") /\ Step
  /\ LET name == Arg[1][1]
         settings == Spec(at).settings
         own == IF name \in DOMAIN settings THEN settings[name] ELSE <<>>
         c == ConfigurationNamed(heap, Self, name)
         set == [heap EXCEPT ![c].props.buildSettings = own @@ @]
         file == Spec(at).config_file
     IN  \E r \in {IF file = <<>> THEN Ok(set, c)
                   ELSE Then(LAMBDA hh, f : Ok(SetProperty(hh, c, "baseConfigurationReference", f), c), AddOrGetFileInRootGroup(set, Project(at), file))} :
           Carry(r)
  /\ UNCHANGED <<last, disk>>

-----------------------------------------------------------------------------
\* Finalize1, for one project after the other

StartFinalize ==
  /\ pc = "target" /\ todo = <<>> /\ at = Len(TargetList)
  /\ pc' = "configurations" /\ left' = order
  /\ UNCHANGED <<work, turn, genVars, outVars, bad, disk, before, known, faults>>

\* The project has the configurations of all its targets.
ProjectConfigurations(h, p) ==
  Fold(LAMBDA out, c : IF h[c].props.name[1][1] \in ToSet(out) THEN out ELSE Append(out, h[c].props.name[1][1]),
       <<>>, FlatMap(LAMBDA t : Configurations(h, t), h[p].props.targets))
ProjectSettings(h, p, file) ==
  LET list == CreateXCConfigurationList(h, ProjectConfigurations(h, p))
      put(hh, c) == [hh EXCEPT ![c].props.buildSettings =
                       (IF hh[c].props.name[1][1] \in DOMAIN file.configurations THEN file.configurations[hh[c].props.name[1][1]] ELSE <<>>)
                       @@ file.settings @@ @]
      base(hh, f) == Fold(LAMBDA g, c : SetProperty(g, c, "baseConfigurationReference", f), hh, Configurations(hh, p))
  IN  With(LAMBDA hh : IF file.config_file = <<>> THEN Ok(hh, 0)
                       ELSE Then(LAMBDA g, f : Ok(base(g, f), f), AddOrGetFileInRootGroup(hh, p, file.config_file)),
           Fold(put, Adopt(SetProperty(list, p, "buildConfigurationList", <<Len(list)>>), p, <<Len(list)>>), list[Len(list)].props.buildConfigurations))

FinalizeConfigurations ==
  /\ pc = "configurations"
  /\ \E r \in {ProjectSettings(heap, projects[left[1]].project, input.files[left[1]])} :
       IF r.bad = "" THEN heap' = r.h /\ pc' = "finalize1" /\ UNCHANGED bad
       ELSE pc' = "raised" /\ bad' = r.bad /\ UNCHANGED heap
  /\ UNCHANGED <<work, turn, order, projects, at, todo, xct, hung, last, left, outVars, disk, before, known, faults>>

\* The targets in the order of the file, each with its support target and the
\* target that runs it.
Ordered(h, b) ==
  LET p == projects[b].project
      configurations == ProjectConfigurations(h, p)
      one(acc, i) ==
        LET t == xct[i]
            listed == acc.targets \o <<t>> \o (IF SupportOf(t) = 0 THEN <<>> ELSE <<SupportOf(t)>>)
            runner == NewAggregate(acc.h, p, "Run " \o Spec(i).name, h[t].props.productName, configurations)
            depends == AddDependency(runner, Len(runner), t)
            script == NewPhase(depends.h, "PBXShellScriptBuildPhase", 0, <<>>)
        IN  IF ~Spec(i).run_as THEN [acc EXCEPT !.targets = listed]
            ELSE [h |-> AppendProperty(script, Len(runner), "buildPhases", Len(script)),
                  targets |-> Append(listed, Len(runner)), runners |-> (t :> Len(runner)) @@ acc.runners, tests |-> Append(acc.tests, Len(runner))]
  IN  Fold(one, [h |-> h, targets |-> <<>>, runners |-> <<>>, tests |-> <<>>], input.files[b].targets)

Aggregate(h, p, name, others, index) ==
  With(LAMBDA g :
         Then(LAMBDA hh, x : Ok(SetProperty(hh, p, "targets", InsertAt(hh[p].props.targets, index, Len(g))), 0),
              Fold(LAMBDA r, o : Then(LAMBDA hh, x : AddDependency(hh, Len(g), o), r), Ok(g, 0), others)),
       NewAggregate(h, p, name, name, ProjectConfigurations(h, p)))
WantsAll(b) ==
  /\ Cardinality({i \in ToSet(input.files[b].targets) : ~Spec(i).suppress_wildcard}) > 1
  /\ \A i \in ToSet(input.files[b].targets) : Spec(i).name \notin {"all", "All"}
ForAll(b) == Map(LAMBDA i : xct[i], SelectSeq(input.files[b].targets, LAMBDA i : ~Spec(i).suppress_wildcard))

SortedProject(acc, b) ==
  LET p == projects[b].project
  IN  IF Len(acc.h[p].props.targets) + Len(acc.tests) # Len(acc.targets) THEN Raise(acc.h, "AssertionError")
      ELSE SortGroups(RootGroupsTakeOverOnlyChildren(SetProperty(acc.h, p, "targets", acc.targets), p), p)
WithAggregates(h, b, tests) ==
  LET p == projects[b].project
  IN  Then(LAMBDA hh, x : IF Len(tests) > 1 THEN Aggregate(hh, p, "Run All Tests", tests, 2) ELSE Ok(hh, 0),
           IF WantsAll(b) THEN Aggregate(h, p, "All", ForAll(b), 1) ELSE Ok(h, 0))

Finalize1 ==
  /\ pc = "finalize1"
  /\ \E acc \in {Ordered(heap, left[1])} :
     \E r \in {Then(LAMBDA hh, x : WithAggregates(hh, left[1], acc.tests), SortedProject(acc, left[1]))} :
       /\ IF r.bad = "" THEN heap' = r.h /\ pc' = (IF Len(left) = 1 THEN "finalize2" ELSE "configurations") /\ UNCHANGED bad
          ELSE pc' = "raised" /\ bad' = r.bad /\ UNCHANGED heap
       /\ hung' = [t \in DOMAIN hung \union DOMAIN acc.runners |->
                     (IF t \in DOMAIN acc.runners THEN [runner |-> acc.runners[t]] ELSE <<>>) @@ (IF t \in DOMAIN hung THEN hung[t] ELSE <<>>)]
       /\ left' = IF Len(left) = 1 THEN order ELSE Tail(left)
  /\ UNCHANGED <<work, turn, order, projects, at, todo, xct, last, outVars, disk, before, known, faults>>

-----------------------------------------------------------------------------
\* Finalize2

RunnerOf(t) == IF t \in DOMAIN hung /\ "runner" \in DOMAIN hung[t] THEN <<hung[t].runner>> ELSE <<>>
Depended(h, t) == Map(LAMBDA d : h[h[d].props.targetProxy[1]].props.remoteGlobalIDString, h[t].props.dependencies)

\* A target that runs the tests a marked target depends on comes right after it.
TestRunner(h, p, i) ==
  LET t == xct[i]
      tests == FlatMap(RunnerOf, Depended(h, t))
      index == CHOOSE k \in DOMAIN h[p].props.targets : h[p].props.targets[k] = t
      made == NewAggregate(h, p, "Run " \o Spec(i).name \o " Tests", Spec(i).name, <<>>)
  IN  IF ~Spec(i).test_runner \/ Spec(i).type # "none" \/ tests = <<>> THEN Ok(h, 0)
      ELSE Then(LAMBDA hh, x : Ok(SetProperty(hh, p, "targets", InsertAt(hh[p].props.targets, index + 1, Len(made))), 0),
                Fold(LAMBDA r, o : Then(LAMBDA hh, x : AddDependency(hh, Len(made), o), r), Ok(made, 0), tests))
UpdateReferences_None(h, p) == Ok(h, 0)

UpdateReferences(h, p) ==
  Fold(LAMBDA r, o : Then(LAMBDA hh, x : AddOrGetProjectReference(hh, p, o.other), r), Ok(h, 0), Get(h, p, "projectReferences"))

Referenced(h, b) ==
  LET p == projects[b].project
  IN  Then(LAMBDA hh, x : Ok(SortRemoteProductReferences(hh, p), 0),
      Then(LAMBDA hh, x : UpdateReferences(hh, p),
           Fold(LAMBDA r, i : Then(LAMBDA hh, x : TestRunner(hh, p, i), r), Ok(h, 0), input.files[b].targets)))

Finalize2 ==
  /\ pc = "finalize2"
  /\ \E r \in {Referenced(heap, left[1])} :
       IF r.bad # "" THEN pc' = "raised" /\ bad' = r.bad /\ UNCHANGED <<heap, ids, left>>
       ELSE /\ heap' = r.h
            /\ \E new \in {ComputeIDs(r.h, projects[left[1]].project)} :
                 /\ ids' = [o \in {x[1] : x \in ToSet(new)} |-> (CHOOSE x \in ToSet(new) : x[1] = o)[2]] @@ ids
                 /\ IF EnsureNoIDCollisions(new)
                    THEN /\ pc' = IF Len(left) = 1 THEN "write" ELSE pc
                         /\ left' = IF Len(left) = 1 THEN order ELSE Tail(left)
                         /\ UNCHANGED bad
                    ELSE pc' = "raised" /\ bad' = "duplicate ID" /\ UNCHANGED left
  /\ UNCHANGED <<work, turn, order, projects, at, todo, xct, hung, last, printed, disk, before, known, faults>>

-----------------------------------------------------------------------------
\* Write

runVars == <<work, turn, genVars, ids, before, known>>

MakeTemp ==
  /\ pc = "write"
  /\ disk' = [disk EXCEPT ![left[1]].temps = @ + 1]
  /\ pc' = "print"
  /\ UNCHANGED <<runVars, left, printed, bad, faults>>

\* The temporary file goes, and the directory with it if this run created it.
Cleaned(b) == IF projects[b].created_dir THEN [NoDisk EXCEPT !.stamp = disk[b].stamp] ELSE [disk[b] EXCEPT !.temps = @ - 1]

WriteRaises(why) ==
  /\ pc' = "raised" /\ bad' = why
  /\ disk' = [disk EXCEPT ![left[1]] = Cleaned(left[1])]
  /\ UNCHANGED <<printed, left>>

PrintFile ==
  /\ pc = "print"
  /\ \E error \in {PrintError(heap, ids, projects[left[1]].project)} :
       IF error # "" THEN WriteRaises(error)
       ELSE /\ printed' = Printed(heap, ids, projects[left[1]].project)
            /\ pc' = "replace" /\ UNCHANGED <<bad, disk, left>>
  /\ UNCHANGED <<runVars, faults>>

ReplaceFile ==
  /\ pc = "replace"
  /\ LET b == left[1]
     IN  disk' = [disk EXCEPT ![b].temps = @ - 1, ![b].text = printed, ![b].stamp = IF disk[b].text = printed THEN @ ELSE @ + 1]
  /\ printed' = {}
  /\ left' = Tail(left)
  /\ pc' = IF Len(left) = 1 THEN "done" ELSE "write"
  /\ UNCHANGED <<runVars, bad, faults>>

\* A full disk, a file that cannot be read or renamed.
WriteFails ==
  /\ pc \in {"print", "replace"} /\ faults < MaxFaults
  /\ faults' = faults + 1
  /\ WriteRaises("OSError")
  /\ UNCHANGED runVars

Ended == pc \in {"done", "raised", "killed"}
Kill ==
  /\ ~Ended /\ faults < MaxFaults
  /\ faults' = faults + 1
  /\ pc' = "killed"
  /\ UNCHANGED <<runVars, left, printed, bad, disk>>

-----------------------------------------------------------------------------
\* The next run

\* The IDs of the files below Source, by path.
SourceFiles(p) ==
  LET main == heap[p].props.mainGroup[1]
      root == GetChildByName(heap, main, Called("Source"))
  IN  IF root = 0 THEN {} ELSE {<<FullPath(heap, o), ids[o]>> : o \in {x \in ToSet(Descendants(heap, root)) : heap[x].class = "PBXFileReference"}}
Again ==
  /\ Ended /\ turn < Len(work)
  /\ turn' = turn + 1 /\ pc' = "projects" /\ bad' = ""
  /\ known' = IF pc = "done" THEN [b \in Files |-> SourceFiles(projects[b].project)] ELSE <<>>
  /\ before' = disk
  /\ order' = <<>> /\ heap' = <<>> /\ projects' = <<>> /\ at' = 0 /\ todo' = <<>> /\ xct' = <<>> /\ hung' = <<>> /\ last' = 0
  /\ left' = <<>> /\ ids' = <<>> /\ printed' = {}
  /\ UNCHANGED <<work, disk, faults>>

Over == Ended /\ turn = Len(work) /\ UNCHANGED vars

Next ==
  \/ \E b \in Files : AddProject(b)
  \/ AddTarget \/ AddScript \/ AddMakefile \/ AddSourceToTarget \/ AddResourceToTarget \/ AddHeaderToTarget \/ AddToRootGroup
  \/ AddCopies \/ AddCopy \/ AddPostbuild \/ AddTargetDependencies \/ AddLibrary \/ SetConfiguration
  \/ StartFinalize \/ FinalizeConfigurations \/ Finalize1 \/ Finalize2
  \/ MakeTemp \/ PrintFile \/ ReplaceFile \/ WriteFails \/ Kill
  \/ Again \/ Over
GenSpec == Init /\ [][Next]_vars
=============================================================================
