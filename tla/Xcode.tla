------------------------------- MODULE Xcode --------------------------------
(* What the project files the Xcode generator leaves on disk have to satisfy,
   judged against the input (the targets of the .gyp files). *)
EXTENDS XcodeGenerator
LOCAL INSTANCE SequencesExt

Steps == {"projects", "target", "configurations", "finalize1", "finalize2", "write", "print", "replace", "done", "raised", "killed"}

\* The variables have their types; no object is older than its project's heap.
XcodeTypeOK ==
  /\ turn \in 1..Len(work) /\ pc \in Steps /\ faults \in 0..MaxFaults
  /\ ToSet(order) \subseteq Files /\ at \in 0..Len(TargetList) /\ last \in 0..Len(heap)
  /\ \A i \in DOMAIN heap : heap[i].parent \in 0..Len(heap)
  /\ \A i \in DOMAIN xct : heap[xct[i]].class \in Targets
  /\ \A b \in Files : disk[b].temps \in 0..(turn + 1)
  /\ (pc = "raised") = (bad # "")

\* Every object of a project file is owned by exactly one other and has it as
\* its parent, also after groups were collapsed and sorted; only the script
\* phases put in with insert() have none (xcode.py 794, 1032).
OwnedOnce ==
  pc = "done" =>
    \A b \in Files :
      \E objects \in {Descendants(heap, projects[b].project)} :
        /\ Cardinality(ToSet(objects)) = Len(objects)
        /\ \A o \in ToSet(objects) : \A c \in ToSet(Children(heap, o)) :
             \/ heap[c].parent = o
             \/ heap[c].class = "PBXShellScriptBuildPhase" /\ heap[c].parent = 0

-----------------------------------------------------------------------------
\* The files of a phase, by the paths they have in the finished group tree.
PathsOf(ref) == IF heap[ref].class = "PBXVariantGroup" THEN {FullPath(heap, c) : c \in ToSet(heap[ref].props.children)} ELSE {FullPath(heap, ref)}
Built(t, class) ==
  LET b == PhaseOf(heap, t, class)
  IN  IF b = 0 THEN <<>> ELSE Map(LAMBDA f : PathsOf(heap[f].props.fileRef), heap[b].props.files)

Generated(s, as(_)) ==
  ToSet(FlatMap(LAMBDA a : IF as(a) THEN a.outputs ELSE <<>>, s.actions))
  \union ToSet(FlatMap(LAMBDA r : IF as(r) THEN FlatMap(LAMBDA f : Outputs(r, f), r.rule_sources) ELSE <<>>, s.rules))
ByRule(s, p) == \E r \in ToSet(s.rules) : r.extension = Last(p)[2]
ToCompile(s) ==
  {p \in {q \in ToSet(s.sources) : ~ByRule(s, q)} \union Generated(s, LAMBDA a : a.as_sources) : Last(p)[2] \in source_extensions}
ToBundle(s) ==
  IF ~s.mac_bundle THEN {}
  ELSE {q \in ToSet(s.resources) : ~ByRule(s, q)} \union Generated(s, LAMBDA a : a.as_resources)
       \union ToSet(FlatMap(LAMBDA r : FlatMap(LAMBDA f : IF f \in ToSet(s.resources) THEN Outputs(r, f) ELSE <<>>, r.rule_sources), s.rules))

\* Every target compiles exactly the sources of its .gyp file and what its
\* actions and rules generate for it, each once and under the path it was given
\* there; the same for the resources of a bundle, except that a localized one
\* brings the languages other targets of the project have of it.
PhasesMatch ==
  pc = "done" =>
    \A i \in DOMAIN xct :
      LET s == Spec(i)
          compiled == Built(xct[i], "PBXSourcesBuildPhase")
          bundled == Built(xct[i], "PBXResourcesBuildPhase")
          others == UNION {ToBundle(Spec(j)) : j \in {k \in DOMAIN xct : Spec(k).file = s.file}}
      IN  s.type # "none" =>
            /\ UNION ToSet(compiled) = ToCompile(s) /\ Len(compiled) = Cardinality(ToCompile(s))
            /\ ToBundle(s) \subseteq UNION ToSet(bundled) /\ UNION ToSet(bundled) \subseteq others
            /\ \A j, k \in DOMAIN bundled : j # k => bundled[j] \cap bundled[k] = {}

\* Every target depends on its support target and on what its .gyp file names,
\* in that order; the support target, which generates its sources, on the same;
\* it is linked with the product of each library it depends on, through a proxy
\* of the right project if the library is in another one.
DependsOnAll ==
  pc = "done" =>
    \A i \in DOMAIN xct :
      LET s == Spec(i)
          t == xct[i]
          named == Map(LAMBDA j : xct[j], s.dependencies)
          support == SupportOf(t)
          scripts(o) == Len(Filtered(LAMBDA b : heap[b].class = "PBXShellScriptBuildPhase", heap[o].props.buildPhases))
          linked == IF s.type = "none" \/ PhaseOf(heap, t, "PBXFrameworksBuildPhase") = 0 THEN <<>>
                    ELSE Map(LAMBDA f : heap[f].props.fileRef, heap[PhaseOf(heap, t, "PBXFrameworksBuildPhase")].props.files)
          behind(ref) == IF heap[ref].class = "PBXReferenceProxy" THEN heap[heap[ref].props.remoteRef[1]].props.remoteGlobalIDString ELSE ref
          libraries == {j \in ToSet(s.dependencies) : Spec(j).type = "static_library" \/ (Spec(j).type = "shared_library")}
      IN  /\ Depended(heap, t) = (IF NeedsSupport(s) THEN <<support>> ELSE <<>>) \o named
          /\ NeedsSupport(s) => /\ Depended(heap, support) = named
                                /\ scripts(support) >= Len(s.actions)
                                /\ scripts(t) = Len(s.postbuilds)
          /\ s.type \notin {"none", "static_library"} =>
               \A j \in libraries :
                 \E k \in DOMAIN linked : /\ behind(linked[k]) = heap[xct[j]].props.productReference
                                          /\ PBXProjectAncestor(heap, linked[k]) = Project(i)

\* A project that refers to another one has a proxy for each of its products,
\* in the order of its targets, and finds its project file from its own source
\* root; otherwise Xcode changes the file when it opens it.
RemoteComplete ==
  pc = "done" =>
    \A b \in Files :
      \A r \in ToSet(Get(heap, projects[b].project, "projectReferences")) :
        LET p == projects[b].project
        IN  /\ Map(LAMBDA c : heap[heap[c].props.remoteRef[1]].props.remoteGlobalIDString, heap[r.ProductGroup].props.children) = Products(heap, r.other)
            /\ NormPath(SourceRoot(heap, p) \o heap[r.ProjectRef].props.path) = NormPath(heap[r.other].props.path)

\* The IDs of a file on disk are different, and what its objects refer to is in
\* the same file; the object of another project a proxy stands for is in the
\* file of that project.
Mentioned(object) ==
  LET p == object.props
  IN  {p[k] : k \in (Single \ {"remoteGlobalIDString"}) \cap DOMAIN p} \union UNION {ToSet(p[k]) : k \in ToSet(Strong(object.isa)) \cap DOMAIN p}
RefsResolve ==
  pc = "done" =>
    \A b \in Files :
      \E here \in {{object.id : object \in disk[b].text}} :
        /\ Cardinality(here) = Cardinality(disk[b].text)
        /\ \A object \in disk[b].text :
             /\ Mentioned(object) \subseteq here
             /\ "remoteGlobalIDString" \in DOMAIN object.props =>
                  \E c \in Files : \E other \in disk[c].text : other.id = object.props.remoteGlobalIDString

\* A source file keeps its ID as long as its path stays the same, whatever
\* happens to the groups around it (xcodeproj_file.py 984).
FileIDsStable ==
  pc = "done" /\ known # <<>> =>
    \A b \in Files : \A new \in SourceFiles(projects[b].project) : \A old \in known[b] : old[1] = new[1] => old[2] = new[2]

\* Running gyp again on the same input, in whatever order its dictionaries
\* come, does not touch a project file.
QuietAgain ==
  pc = "done" /\ turn > 1 /\ known # <<>> /\ input = work[turn - 1] => \A b \in Files : disk[b].stamp = before[b].stamp

\* The target that builds everything comes first and builds everything that is
\* not kept out of it; running all tests runs each of them after it was built.
AllFirst ==
  pc = "done" =>
    \A b \in Files :
      LET p == projects[b].project
          list == heap[p].props.targets
          called(name) == {t \in ToSet(list) : Name(heap, t) = Called(name) /\ heap[t].class = "PBXAggregateTarget"}
          tests == Filtered(LAMBDA i : Spec(i).run_as, input.files[b].targets)
      IN  /\ WantsAll(b) => called("All") = {list[1]} /\ Depended(heap, list[1]) = ForAll(b)
          /\ \A i \in ToSet(tests) : \E t \in ToSet(list) : <<t>> = RunnerOf(xct[i]) /\ Depended(heap, t) = <<xct[i]>>
          /\ Len(tests) > 1 => \E t \in called("Run All Tests") : Depended(heap, t) = FlatMap(LAMBDA i : RunnerOf(xct[i]), tests)
          /\ \A i \in ToSet(input.files[b].targets) : Spec(i).test_runner =>
               {RunnerOf(xct[j]) : j \in {k \in ToSet(Spec(i).dependencies) : Spec(k).run_as}}
                 \subseteq {<<o>> : o \in UNION {ToSet(Depended(heap, t)) : t \in called("Run " \o Spec(i).name \o " Tests")}}

\* A project file that was there is never lost, whatever fails; a run that ends
\* by itself leaves no temporary file, and no directory it created for a
\* project it failed to write.
NothingLost ==
  \A b \in Files :
    /\ before[b].text # {} => disk[b].text # {} /\ (disk[b].text = before[b].text \/ pc \in {"write", "print", "replace", "done", "raised", "killed"})
    /\ pc \in {"done", "raised"} => disk[b].temps = before[b].temps \/ projects[b].created_dir
    /\ pc = "raised" /\ left # <<>> /\ b = left[1] /\ projects[b].created_dir /\ bad \in {"OSError", "required property"} => disk[b] = [NoDisk EXCEPT !.stamp = disk[b].stamp]

\* Listed twice, or at two places.
Twice(s) == Cardinality(ToSet(s)) # Len(s)
Product(i) == <<Spec(i).file, Spec(i).product_name, Spec(i).type, Spec(i).mac_bundle>>
AsResources(s) == \E a \in ToSet(s.actions) \union ToSet(s.rules) : a.as_resources
Clash(b) ==
  LET names == FlatMap(LAMBDA i : <<Spec(i).name>> \o (IF NeedsSupport(Spec(i)) THEN <<Spec(i).name \o " Support">> ELSE <<>>), input.files[b].targets)
  IN  Twice(names)

\* The generator raises only for an input that asks for the impossible: a file
\* twice in one phase, two products of one name, scripts or copies of one name
\* in a target, a setting that differs between configurations where one value
\* is needed, a directory named twice, or a file that is only a variable; and for what
\* Xcode has no words for: a target of the host's toolset, a static library that is
\* a bundle, a bundle, libraries or resources of a target that builds nothing, a
\* destination that starts with a bare variable.
RaisedForCause ==
  pc = "raised" =>
    CASE bad = "OSError" -> faults > 0
      [] bad = "multiple build files" -> \E s \in ToSet(TargetList) : Twice(s.sources) \/ Twice(s.libraries) \/ Twice(s.resources)
      [] bad = "multiple children" -> \/ \E i, j \in DOMAIN TargetList : i # j /\ Product(i) = Product(j)
                                      \/ \E s \in ToSet(TargetList) : \E c \in ToSet(s.copies) : \E f \in ToSet(c.files) : Last(f) = Slash
      [] bad = "duplicate ID" -> \/ \E s \in ToSet(TargetList) : Twice(Map(LAMBDA a : a.name, s.actions)) \/ Twice(Map(LAMBDA c : c.destination, s.copies))
                                 \/ \E b \in Files : Clash(b)
      [] bad = "variant setting" -> \E s \in ToSet(TargetList) : \E c, d \in ToSet(s.configurations) : c \in DOMAIN s.settings /\ d \notin DOMAIN s.settings
      [] bad = "required property" -> \E s \in ToSet(TargetList) : \E p \in ToSet(s.libraries) : Len(p) = 1 /\ Variable(p[1])
      [] bad = "multiple toolsets" -> \E s \in ToSet(TargetList) : s.toolset # "target"
      [] bad = "unknown product type" -> \E s \in ToSet(TargetList) : s.type = "static_library" /\ s.mac_bundle
      [] bad = "bundle of type none" -> \E s \in ToSet(TargetList) : s.type = "none" /\ s.mac_bundle
      [] bad = "AttributeError" -> \E s \in ToSet(TargetList) : s.type = "none" /\ (s.libraries # <<>> \/ AsResources(s))
      [] bad = "destination" -> \E s \in ToSet(TargetList) : \E c \in ToSet(s.copies) : c.destination[1][2] = "$$"
      [] OTHER -> FALSE

\* The objects written to a project file form a tree below the project, with references
\* that resolve, although groups, products and phases were moved after they were referred to.
TreeSound == XcodeTypeOK /\ OwnedOnce /\ RefsResolve

\* A project file says what the .gyp file does: sources, resources, dependencies, products
\* of other projects, the targets for all; and no other input is refused than
\* one that cannot be said.
ProjectFaithful == PhasesMatch /\ DependsOnAll /\ RemoteComplete /\ AllFirst /\ RaisedForCause

\* From run to run files keep their IDs, unchanged projects are not touched, and
\* no failure loses a project file.
FilesKept == FileIDsStable /\ QuietAgain /\ NothingLost
=============================================================================
