---------------------------- MODULE XcodeObjects ----------------------------
(* The objects of an Xcode project file (gyp.xcodeproj_file): a heap of objects
   with a class, a parent and properties, and the operations the generator
   builds a project with.

   A component of a path is <<stem, extension>>; <<v, "$">> is $(v) and
   <<"", "">> the end of a path with a trailing slash.  Paths and names are
   sequences of components.  A property that owns objects is a list of their
   indices, one that may be absent is not in the domain of props.  SHA-1 is
   taken for injective: an ID is the sequence of what was hashed. *)
EXTENDS Integers, Sequences, FiniteSets, TLC, EagerFold
LOCAL INSTANCE SequencesExt

CONSTANTS
  Alphabet,   \* stems and extensions in the order cmp puts them
  LibNames    \* names that begin with lib -> the rest of the name

Slash == <<"", "">>
Part(s) == <<s, "">>
Called(s) == <<Part(s)>>
Variable(c) == c[2] = "$"
SourceTreeAndPathFromPath(p) ==
  IF p # <<>> /\ Variable(p[1]) THEN [tree |-> p[1][1], path |-> Tail(p)] ELSE [tree |-> "", path |-> p]
Basename(p) == IF Last(p) = Slash THEN <<>> ELSE <<Last(p)>>
Dirname(p) == Front(p)

Rank(s) == IF \E i \in DOMAIN Alphabet : Alphabet[i] = s THEN CHOOSE i \in DOMAIN Alphabet : Alphabet[i] = s ELSE 0
ComponentLess(c, d) == \/ Rank(c[1]) < Rank(d[1])
                       \/ c[1] = d[1] /\ Rank(c[2]) < Rank(d[2])
NameLess(m, n) ==
  \E k \in 0..Len(m) : /\ \A i \in 1..k : i <= Len(n) /\ m[i] = n[i]
                       /\ IF k = Len(m) THEN k < Len(n) ELSE k < Len(n) /\ ComponentLess(m[k + 1], n[k + 1])

\* sorted(): stable.
Sorted(less(_, _), s) ==
  Fold(LAMBDA out, x :
         LET before == Len(Filtered(LAMBDA y : ~less(x, y), out))
         IN  SubSeq(out, 1, before) \o <<x>> \o SubSeq(out, before + 1, Len(out)),
       <<>>, s)

-----------------------------------------------------------------------------
\* XCObject: properties and ownership

Phases == {"PBXHeadersBuildPhase", "PBXResourcesBuildPhase", "PBXSourcesBuildPhase",
           "PBXFrameworksBuildPhase", "PBXShellScriptBuildPhase", "PBXCopyFilesBuildPhase"}
Targets == {"PBXNativeTarget", "PBXAggregateTarget"}
Elements == {"PBXGroup", "PBXVariantGroup", "PBXFileReference", "PBXReferenceProxy"}
Groups == {"PBXGroup", "PBXVariantGroup"}

\* The properties of a class marked strong in its _schema.
Strong(class) ==
  CASE class \in Groups -> <<"children">>
    [] class \in Phases -> <<"files">>
    [] class \in Targets -> <<"buildConfigurationList", "buildPhases", "dependencies">>
    [] class = "XCConfigurationList" -> <<"buildConfigurations">>
    [] class = "PBXTargetDependency" -> <<"targetProxy">>
    [] class = "PBXReferenceProxy" -> <<"remoteRef">>
    [] class = "PBXProject" -> <<"buildConfigurationList", "mainGroup", "targets">>
    [] OTHER -> <<>>

\* Those marked required that have no default.
Required(class) ==
  CASE class \in {"PBXFileReference", "PBXReferenceProxy"} -> {"path"}
    [] class = "PBXNativeTarget" -> {"name", "productName", "productReference", "productType"}
    [] class = "PBXAggregateTarget" -> {"name", "productName"}
    [] class = "PBXCopyFilesBuildPhase" -> {"dstPath"}
    [] OTHER -> {}
VerifyHasRequiredProperties(o) == Required(o.class) \subseteq DOMAIN o.props

Has(h, o, key) == key \in DOMAIN h[o].props
Get(h, o, key) == IF Has(h, o, key) THEN h[o].props[key] ELSE <<>>
SetProperty(h, o, key, value) == [h EXCEPT ![o].props = (key :> value) @@ @]
DelProperty(props, key) == [k \in DOMAIN props \ {key} |-> props[k]]
Adopt(h, o, kids) == Fold(LAMBDA g, k : [g EXCEPT ![k].parent = o], h, kids)

\* A new object is the last of the heap; UpdateProperties makes it the parent
\* of what it owns.
UpdateProperties(h, o) == Fold(LAMBDA g, key : Adopt(g, o, Get(g, o, key)), h, Strong(h[o].class))
New(h, class, parent, props) ==
  With(LAMBDA g : UpdateProperties(g, Len(g)), Append(h, [class |-> class, parent |-> parent, props |-> props]))
AppendProperty(h, o, key, value) ==
  With(LAMBDA g : IF key \in ToSet(Strong(g[o].class)) THEN [g EXCEPT ![value].parent = o] ELSE g,
       SetProperty(h, o, key, Append(Get(h, o, key), value)))

Children(h, o) ==
  FlatMap(LAMBDA key : Get(h, o, key), Strong(h[o].class))
  \o (IF h[o].class = "PBXProject" THEN Map(LAMBDA r : r.ProductGroup, Get(h, o, "projectReferences")) ELSE <<>>)
RECURSIVE Descendants(_, _)
Descendants(h, o) == <<o>> \o FlatMap(LAMBDA c : Descendants(h, c), Children(h, o))

RECURSIVE PBXProjectAncestor(_, _)
PBXProjectAncestor(h, o) ==
  IF o = 0 \/ h[o].class = "PBXProject" THEN o ELSE PBXProjectAncestor(h, h[o].parent)

\* An operation answers with the heap, the object asked for and the exception
\* it raised, if any.
Ok(h, ref) == [h |-> h, ref |-> ref, bad |-> ""]
Raise(h, what) == [h |-> h, ref |-> 0, bad |-> what]
Then(op(_, _), r) == IF r.bad # "" THEN r ELSE With(LAMBDA s : op(s.h, s.ref), r)

-----------------------------------------------------------------------------
\* XCHierarchicalElement

PathFromSourceTreeAndPath(h, o) ==
  (IF h[o].props.sourceTree # "<group>" THEN <<<<h[o].props.sourceTree, "$">>>> ELSE <<>>) \o Get(h, o, "path")

\* The path from the project, or from the variable it is relative to.
RECURSIVE FullPathBelow(_, _, _)
FullPathBelow(h, o, path) ==
  IF \/ o = 0
     \/ h[o].class \notin Elements
     \/ path # <<>> /\ Variable(path[1])
  THEN path
  ELSE FullPathBelow(h, h[o].parent, PathFromSourceTreeAndPath(h, o) \o path)
FullPath(h, o) == FullPathBelow(h, o, <<>>)

\* __init__: a longer path leaves its last part as the name; $(VAR)/rest is
\* split into source tree and path, and $(VAR) alone has no path.
ElementProps(props) ==
  LET tree == IF "sourceTree" \in DOMAIN props THEN props.sourceTree ELSE "<group>"
      path == IF "path" \in DOMAIN props THEN props.path ELSE <<>>
      named == IF "name" \in DOMAIN props \/ path = <<>> \/ Basename(path) = <<>> \/ Basename(path) = path
               THEN props ELSE ("name" :> Basename(path)) @@ props
      split == SourceTreeAndPathFromPath(path)
  IN  IF path = <<>> \/ tree # "<group>" \/ split.tree = ""
      THEN ("sourceTree" :> tree) @@ named
      ELSE IF split.path # <<>>
      THEN ("sourceTree" :> split.tree @@ "path" :> split.path) @@ named
      ELSE IF "name" \in DOMAIN named
      THEN ("sourceTree" :> split.tree) @@ named
      ELSE ("sourceTree" :> split.tree @@ "name" :> Called(split.tree)) @@ DelProperty(named, "path")

FileReferenceProps(props) ==
  LET p == ElementProps(props)
      path == IF "path" \in DOMAIN p THEN p.path ELSE <<>>
      is_dir == path # <<>> /\ Last(path) = Slash
      bare == IF is_dir THEN Front(path) ELSE path
  IN  IF path = <<>> THEN p
      ELSE IF {"explicitFileType", "lastKnownFileType"} \cap DOMAIN p # {} THEN ("path" :> bare) @@ p
      ELSE ("path" :> bare @@ "lastKnownFileType" :> IF is_dir THEN "folder" ELSE Last(bare)[2]) @@ p
NewFileReference(h, props) == New(h, "PBXFileReference", 0, FileReferenceProps(props))
NewGroup(h, class, parent, props) == New(h, class, parent, ("children" :> <<>>) @@ ElementProps(props))

\* Name, which for a few classes is made from the names of other objects.
RECURSIVE Name(_, _)
Name(h, o) ==
  LET class == h[o].class
      own(default) == IF Has(h, o, "name") THEN Get(h, o, "name") ELSE default
  IN  CASE class \in Elements -> own(Get(h, o, "path"))
        [] class = "XCConfigurationList" -> Called("Build configuration list for " \o h[h[o].parent].class) \o Name(h, h[o].parent)
        [] class = "PBXBuildFile" -> Name(h, Get(h, o, "fileRef")) \o Called(" in ") \o Name(h, h[o].parent)
        [] class = "PBXHeadersBuildPhase" -> Called("Headers")
        [] class = "PBXResourcesBuildPhase" -> Called("Resources")
        [] class = "PBXSourcesBuildPhase" -> Called("Sources")
        [] class = "PBXFrameworksBuildPhase" -> Called("Frameworks")
        [] class \in {"PBXContainerItemProxy", "PBXTargetDependency"} -> Called(class)
        [] class = "PBXProject" -> Called(Last(h[o].props.path)[1])
        [] OTHER -> own(Called(class))

-----------------------------------------------------------------------------
\* IDs

IsMainGroup(h, o) == h[PBXProjectAncestor(h, o)].props.mainGroup = <<o>>
ObjectHashables(h, o) ==
  <<Called(h[o].class)>> \o (IF Name(h, o) # <<>> THEN <<Name(h, o)>> ELSE <<>>) \o Get(h, o, "_hashables")

\* Of a file or a group: its name, if it has one of its own, and the parts of
\* its path, so that collapsing a chain of groups changes nothing below it.
ElementHashables(h, o) ==
  IF IsMainGroup(h, o) THEN ObjectHashables(h, o)
  ELSE (IF Has(h, o, "name") THEN <<Called(h[o].class \o ".name"), Get(h, o, "name")>> ELSE <<>>)
       \o FlatMap(LAMBDA c : <<Called(h[o].class \o ".path"), <<c>>>>, PathFromSourceTreeAndPath(h, o))
       \o Get(h, o, "_hashables")

RECURSIVE Hashables(_, _)
RECURSIVE PathHashables(_, _)
Hashables(h, o) ==
  LET class == h[o].class
      p == h[o].props
  IN  CASE class \in Groups -> ElementHashables(h, o) \o Filtered(LAMBDA n : n # <<>>, Map(LAMBDA c : Name(h, c), p.children))
        [] class \in Elements \ Groups -> ElementHashables(h, o)
        [] class = "PBXBuildFile" -> ObjectHashables(h, o) \o PathHashables(h, p.fileRef)
        [] class = "PBXContainerItemProxy" ->
             ObjectHashables(h, o) \o Hashables(h, p.containerPortal) \o Hashables(h, p.remoteGlobalIDString)
        [] class = "PBXTargetDependency" -> ObjectHashables(h, o) \o Hashables(h, p.targetProxy[1])
        [] OTHER -> ObjectHashables(h, o)
PathHashables(h, o) ==
  IF o = 0 \/ h[o].class \notin Elements THEN <<>>
  ELSE PathHashables(h, h[o].parent) \o Hashables(h, o)

HashablesForChild_Children(h, o) == Hashables(h, o)

\* What the IDs of an object's children begin with: not the children's names.
HashablesForChild(h, o) == IF h[o].class \in Groups THEN ElementHashables(h, o) ELSE Hashables(h, o)

RECURSIVE IDsBelow(_, _, _)
IDsBelow(h, o, seed) ==
  With(LAMBDA below : <<<<o, seed \o Hashables(h, o)>>>> \o FlatMap(LAMBDA c : IDsBelow(h, c, below), Children(h, o)),
       seed \o HashablesForChild(h, o))
ComputeIDs(h, project) == IDsBelow(h, project, <<>>)
EnsureNoIDCollisions(ids) == Cardinality({x[2] : x \in ToSet(ids)}) = Len(ids)

-----------------------------------------------------------------------------
\* PBXGroup.  _children_by_path and _variant_children_by_name_and_path are the
\* children by those keys: nothing looks into them once a group was collapsed.

First(s, test(_)) == IF \E i \in DOMAIN s : test(s[i]) THEN SelectSeq(s, test)[1] ELSE 0
GetChildByName(h, g, name) == First(h[g].props.children, LAMBDA c : Name(h, c) = name)
GetChildByPath(h, g, path) ==
  IF path = <<>> THEN 0 ELSE First(h[g].props.children, LAMBDA c : PathFromSourceTreeAndPath(h, c) = path)
GetChildByRemoteObject(h, g, remote) ==
  First(h[g].props.children,
        LAMBDA c : h[c].class = "PBXReferenceProxy" /\ h[h[c].props.remoteRef[1]].props.remoteGlobalIDString = remote)
VariantChild(h, g, name, path) ==
  First(h[g].props.children,
        LAMBDA c : h[c].class = "PBXVariantGroup" /\ Get(h, c, "name") = name /\ PathFromSourceTreeAndPath(h, c) = path)

\* Appends the newest object of the heap to a group.
AppendChild(h, g) ==
  LET child == Len(h)
      path == PathFromSourceTreeAndPath(h, child)
  IN  IF \/ GetChildByPath(h, g, path) # 0
         \/ h[child].class = "PBXVariantGroup" /\ VariantChild(h, g, Get(h, child, "name"), path) # 0
      THEN Raise(h, "multiple children")
      ELSE Ok(AppendProperty(h, g, "children", child), child)

AddOrGetVariantGroupByNameAndPath(h, g, name, path) ==
  LET found == VariantChild(h, g, name, path)
  IN  IF found # 0 THEN Ok(h, found)
      ELSE AppendChild(NewGroup(h, "PBXVariantGroup", 0, IF path = <<>> THEN [name |-> name] ELSE [name |-> name, path |-> path]), g)

\* A file is put into its group, created when it is not there; a file of an
\* .lproj directory into the variant group of its name.
RECURSIVE AddOrGetFileByPath(_, _, _, _)
AddOrGetFileByPath(h, g, path, hierarchical) ==
  LET n == Len(path)
      is_dir == path[n] = Slash
      variant == n > 1 /\ path[n - 1][2] = "lproj"
      file == GetChildByPath(h, g, path)
      dir == GetChildByPath(h, g, <<path[1]>>)
  IN  CASE is_dir /\ variant -> Raise(h, "AssertionError")
        [] n > (IF is_dir \/ variant THEN 2 ELSE 1) /\ hierarchical ->
             IF dir # 0 /\ h[dir].class # "PBXGroup" THEN Raise(h, "AssertionError")
             ELSE Then(LAMBDA hh, group : AddOrGetFileByPath(hh, group, Tail(path), hierarchical),
                       IF dir # 0 THEN Ok(h, dir) ELSE AppendChild(NewGroup(h, "PBXGroup", 0, [path |-> <<path[1]>>]), g))
        [] variant ->
             Then(LAMBDA hh, group :
                    LET within == SubSeq(path, n - 1, n)
                        added == AppendChild(NewFileReference(hh, [name |-> Called(path[n - 1][1]), path |-> within]), group)
                    IN  IF GetChildByPath(hh, group, within) # 0 THEN Ok(hh, group) ELSE [added EXCEPT !.ref = group],
                  AddOrGetVariantGroupByNameAndPath(h, g, Basename(path), SubSeq(path, 1, n - 2)))
        [] file # 0 -> IF h[file].class = "PBXFileReference" THEN Ok(h, file) ELSE Raise(h, "AssertionError")
        [] OTHER -> AppendChild(NewFileReference(h, [path |-> path]), g)

\* A group whose only child is a group takes over its properties and children.
Taken(h, g) ==
  LET old == h[g].props
      child == h[old.children[1]].props
      relative == child.sourceTree = "<group>"
      path == IF relative THEN Get(h, g, "path") \o Get(h, old.children[1], "path") ELSE Get(h, old.children[1], "path")
      moved == ("sourceTree" :> IF relative THEN old.sourceTree ELSE child.sourceTree)
               @@ (IF path = <<>> THEN child ELSE ("path" :> path) @@ child)
      shown == IF "name" \in DOMAIN moved THEN moved.name ELSE path
      named == IF "name" \in DOMAIN old /\ old.name # shown THEN ("name" :> old.name) @@ moved ELSE moved
  IN  IF "name" \in DOMAIN named /\ path # <<>> /\ named.name = path THEN DelProperty(named, "name") ELSE named

TakenOver_Quiet(h, g) == [h EXCEPT ![g].props = Taken(h, g)]

TakenOver(h, g) == With(LAMBDA hh : Adopt(hh, g, hh[g].props.children), [h EXCEPT ![g].props = Taken(h, g)])

RECURSIVE TakeOverOnlyChild(_, _)
TakeOverOnlyChild(h, g) ==
  LET kids == h[g].props.children
  IN  IF Len(kids) = 1 /\ h[kids[1]].class = "PBXGroup"
      THEN With(LAMBDA hh : TakeOverOnlyChild(hh, g), TakenOver(h, g))
      ELSE Fold(LAMBDA hh, k : IF hh[k].class = "PBXGroup" THEN TakeOverOnlyChild(hh, k) ELSE hh, h, kids)

\* Groups before files, each in alphabetical order.
Before(h, a, b) ==
  LET rank(c) == h[c].class = "PBXGroup"
  IN  IF rank(a) = rank(b) THEN NameLess(Name(h, a), Name(h, b)) ELSE rank(a)
RECURSIVE SortGroup(_, _)
SortGroup(h, g) ==
  With(LAMBDA kids : Fold(LAMBDA hh, k : IF hh[k].class \in Groups THEN SortGroup(hh, k) ELSE hh,
                          SetProperty(h, g, "children", kids), kids),
       Sorted(LAMBDA a, b : Before(h, a, b), h[g].props.children))
=============================================================================
