---------------------------- MODULE XcodeTargets ----------------------------
(* Projects, targets, build phases and configurations of an Xcode project file
   (gyp.xcodeproj_file from XCBuildConfiguration on). *)
EXTENDS XcodeObjects
LOCAL INSTANCE SequencesExt

-----------------------------------------------------------------------------
\* Configurations.  A setting is the list of its values; one value alone is
\* printed without the list.

CreateXCConfigurationList(h, names) ==
  LET used == IF names = <<>> THEN <<"Default">> ELSE names
  IN  With(LAMBDA hh : New(hh, "XCConfigurationList", 0,
                           [buildConfigurations |-> [i \in 1..Len(used) |-> Len(h) + i], defaultConfigurationName |-> used[1]]),
           Fold(LAMBDA hh, n : New(hh, "XCBuildConfiguration", 0, [name |-> Called(n), buildSettings |-> <<>>]), h, used))
DefaultConfigurationList(h) ==
  LET n == Len(CreateXCConfigurationList(h, <<"Debug", "Release">>))
  IN  SetProperty(CreateXCConfigurationList(h, <<"Debug", "Release">>), n, "defaultConfigurationName", "Release")

\* The configurations of a target or a project, by number and by name.
Configurations(h, o) == h[h[o].props.buildConfigurationList[1]].props.buildConfigurations
ConfigurationNamed(h, o, name) == First(Configurations(h, o), LAMBDA c : h[c].props.name = Called(name))
Settings(h, c) == h[c].props.buildSettings
PutSetting(h, c, key, value) == [h EXCEPT ![c].props.buildSettings = (key :> value) @@ @]
AppendSetting(h, c, key, value) ==
  PutSetting(h, c, key, (IF key \in DOMAIN Settings(h, c) THEN Settings(h, c)[key] ELSE <<>>) \o <<value>>)
SetBuildSetting(h, o, key, value) == Fold(LAMBDA hh, c : PutSetting(hh, c, key, value), h, Configurations(h, o))
AppendBuildSetting(h, o, key, value) == Fold(LAMBDA hh, c : AppendSetting(hh, c, key, value), h, Configurations(h, o))

\* 1 when all have the setting with one value, 0 when none has it, -1 otherwise.
HasBuildSetting(h, o, key) ==
  LET all == ToSet(Configurations(h, o))
      with == {c \in all : key \in DOMAIN Settings(h, c)}
  IN  CASE with = {} -> 0
        [] with = all /\ Cardinality({Settings(h, c)[key] : c \in all}) = 1 -> 1
        [] OTHER -> -1
GetBuildSetting(h, o, key) == Settings(h, Configurations(h, o)[1])[key]

-----------------------------------------------------------------------------
\* PBXProject

NewProject(h, path, projectDirPath) ==
  With(LAMBDA hh :
         With(LAMBDA g : New(g, "PBXProject", 0, [buildConfigurationList |-> <<Len(hh)>>, mainGroup |-> <<Len(g)>>, targets |-> <<>>,
                                                  path |-> path, projectDirPath |-> projectDirPath]),
              NewGroup(hh, "PBXGroup", 0, <<>>)),
       DefaultConfigurationList(h))

GroupByName(h, p, name) ==
  LET main == h[p].props.mainGroup[1]
      found == GetChildByName(h, main, Called(name))
  IN  IF found # 0 THEN Ok(h, found) ELSE AppendChild(NewGroup(h, "PBXGroup", 0, [name |-> Called(name)]), main)

\* Generated files go below Intermediates, all others below Source.
RootGroupName(path) ==
  IF SourceTreeAndPathFromPath(path).tree
       \in {"DERIVED_FILE_DIR", "INTERMEDIATE_DIR", "PROJECT_DERIVED_FILE_DIR", "SHARED_INTERMEDIATE_DIR"}
  THEN "Intermediates" ELSE "Source"
AddOrGetFileInRootGroup(h, p, path) ==
  Then(LAMBDA hh, g : AddOrGetFileByPath(hh, g, path, TRUE), GroupByName(h, p, RootGroupName(path)))

RootGroupsTakeOverOnlyChildren(h, p) ==
  Fold(LAMBDA hh, g : TakeOverOnlyChild(hh, g), h, h[h[p].props.mainGroup[1]].props.children)

NativeTargets(h, p) == Filtered(LAMBDA t : h[t].class = "PBXNativeTarget", h[p].props.targets)
Products(h, p) == Map(LAMBDA t : h[t].props.productReference, NativeTargets(h, p))

\* The root groups in their fixed order; products in the order of the targets,
\* everything else by name.
RootOrder == <<"Source", "Intermediates", "Projects", "Frameworks", "Products", "Build">>
SortGroups(h, p) ==
  LET main == h[p].props.mainGroup[1]
      place(g) == CHOOSE i \in DOMAIN RootOrder : Called(RootOrder[i]) = Name(h, g)
      roots == Sorted(LAMBDA a, b : place(a) < place(b), h[main].props.children)
  IN  Fold(LAMBDA r, g :
             Then(LAMBDA hh, x :
                    CASE Name(hh, g) # Called("Products") -> Ok(SortGroup(hh, g), 0)
                      [] Products(hh, p) = <<>> \/ ToSet(Products(hh, p)) = ToSet(hh[g].props.children) ->
                           Ok(SetProperty(hh, g, "children", Products(hh, p)), 0)
                      [] OTHER -> Raise(hh, "AssertionError"), r),
           Ok(SetProperty(h, main, "children", roots), 0), roots)

-----------------------------------------------------------------------------
\* References to other projects

Pardir == Part("..")
NormPath(p) == Fold(LAMBDA out, c : IF c = Pardir /\ out # <<>> /\ Last(out) # Pardir THEN Front(out) ELSE Append(out, c), <<>>, p)
RelativePath(path, relative_to) ==
  LET p == NormPath(path)
      r == NormPath(relative_to)
      n == Len(LongestCommonPrefix({p, r}))
  IN  [i \in 1..(Len(r) - n) |-> Pardir] \o SubSeq(p, n + 1, Len(p))
SourceRoot(h, p) == Dirname(h[p].props.path) \o h[p].props.projectDirPath

ReferenceTo(h, p, other) == SelectSeq(Get(h, p, "projectReferences"), LAMBDA r : r.other = other)

\* A proxy for every product of the other project that has none yet.
SetUpProductReferences(h, other, group, file) ==
  Fold(LAMBDA r, t :
         Then(LAMBDA hh, x :
                LET product == hh[t].props.productReference
                    item == New(hh, "PBXContainerItemProxy", 0,
                                [containerPortal |-> file, proxyType |-> 2, remoteGlobalIDString |-> product, remoteInfo |-> Name(hh, t)])
                    proxy == New(item, "PBXReferenceProxy", 0,
                                 [path |-> hh[product].props.path, sourceTree |-> hh[product].props.sourceTree, remoteRef |-> <<Len(item)>>])
                IN  IF GetChildByRemoteObject(hh, group, product) # 0 THEN Ok(hh, x) ELSE [AppendChild(proxy, group) EXCEPT !.ref = x], r),
       Ok(h, <<group, file>>), NativeTargets(h, other))

NewProjectReference(h, p, other) ==
  Then(LAMBDA h1, projects :
    With(LAMBDA h2 :
      With(LAMBDA h3 :
        Then(LAMBDA h4, file :
               LET ref == [ProductGroup |-> Len(h2), ProjectRef |-> file, other |-> other]
                   less(a, b) == NameLess(Name(h4, a.ProjectRef), Name(h4, b.ProjectRef))
               IN  Ok(SetProperty(h4, p, "projectReferences", Sorted(less, Append(Get(h4, p, "projectReferences"), ref))), <<Len(h2), file>>),
             AppendChild(h3, projects)),
        NewFileReference(h2, [lastKnownFileType |-> "wrapper.pb-project", sourceTree |-> "SOURCE_ROOT",
                              path |-> RelativePath(h[other].props.path, SourceRoot(h, p))])),
      NewGroup(h1, "PBXGroup", p, [name |-> Called("Products"), _hashables |-> Hashables(h, other)])),
    GroupByName(h, p, "Projects"))

\* Answers the group of the other project's products and the file reference to
\* the other project.
AddOrGetProjectReference(h, p, other) ==
  LET old == ReferenceTo(h, p, other)
  IN  Then(LAMBDA hh, r : SetUpProductReferences(hh, other, r[1], r[2]),
           IF old = <<>> THEN NewProjectReference(h, p, other) ELSE Ok(h, <<old[1].ProductGroup, old[1].ProjectRef>>))

SortRemoteProductReferences(h, p) ==
  Fold(LAMBDA hh, r :
         LET products == Products(hh, r.other)
             place(c) == CHOOSE i \in DOMAIN products : products[i] = hh[hh[c].props.remoteRef[1]].props.remoteGlobalIDString
         IN  SetProperty(hh, r.ProductGroup, "children", Sorted(LAMBDA a, b : place(a) < place(b), hh[r.ProductGroup].props.children)),
       h, Get(h, p, "projectReferences"))

-----------------------------------------------------------------------------
\* Build phases

PhaseOf(h, t, class) == First(h[t].props.buildPhases, LAMBDA b : h[b].class = class)
NewPhase(h, class, parent, props) == New(h, class, parent, ("files" :> <<>> @@ "_files_by_path" :> {}) @@ props)

\* The phase of a class, which is put before those of the classes after it.  Aggregate
\* targets do not have these methods.
PhaseAt(h, t, class, later) ==
  LET list == h[t].props.buildPhases
      at == {i \in DOMAIN list : h[list[i]].class \in later}
      index == IF at = {} THEN Len(list) + 1 ELSE CHOOSE i \in at : \A j \in at : i <= j
      made == NewPhase(h, class, t, <<>>)
  IN  CASE h[t].class # "PBXNativeTarget" -> Raise(h, "AttributeError")
        [] PhaseOf(h, t, class) # 0 -> Ok(h, PhaseOf(h, t, class))
        [] OTHER -> Ok(SetProperty(made, t, "buildPhases", InsertAt(list, index, Len(made))), Len(made))
HeadersPhase(h, t) == PhaseAt(h, t, "PBXHeadersBuildPhase", {"PBXResourcesBuildPhase", "PBXSourcesBuildPhase", "PBXFrameworksBuildPhase"})
ResourcesPhase(h, t) == PhaseAt(h, t, "PBXResourcesBuildPhase", {"PBXSourcesBuildPhase", "PBXFrameworksBuildPhase"})
SourcesPhase(h, t) == PhaseAt(h, t, "PBXSourcesBuildPhase", {})
FrameworksPhase(h, t) == PhaseAt(h, t, "PBXFrameworksBuildPhase", {})

FileGroup(h, phase, path) ==
  LET p == PBXProjectAncestor(h, phase)
      flat == h[phase].class = "PBXFrameworksBuildPhase" /\ Last(path)[2] # "o"
      name == IF flat THEN "Frameworks" ELSE RootGroupName(path)
  IN  Then(LAMBDA hh, g : AddOrGetFileByPath(hh, g, path, ~flat), GroupByName(h, p, name))

\* Adds a file to a phase; a further language of a localized file only adds its
\* path to the build file that is there.
AddBuildFile(h, phase, ref, path, settings) ==
  LET there == \E f \in ToSet(h[phase].props.files) : h[f].props.fileRef = ref
      variant == h[ref].class = "PBXVariantGroup"
      noted == IF variant THEN [h EXCEPT ![phase].props["_files_by_path"] = @ \union {path}] ELSE h
      file == New(noted, "PBXBuildFile", 0, IF settings = "" THEN [fileRef |-> ref] ELSE [fileRef |-> ref, settings |-> settings])
  IN  CASE variant /\ path \in h[phase].props["_files_by_path"] -> Raise(h, "multiple build files")
        [] there /\ ~variant -> Raise(h, "multiple build files")
        [] there -> Ok(noted, phase)
        [] OTHER -> Ok(AppendProperty(file, phase, "files", Len(file)), phase)

AddFile(h, phase, path, settings) ==
  Then(LAMBDA hh, ref : AddBuildFile(hh, phase, ref, path, settings), FileGroup(h, phase, path))

-----------------------------------------------------------------------------
\* Targets

product_filetypes ==
  [application |-> <<"wrapper.application", "", "app">>, bundle |-> <<"wrapper.cfbundle", "", "bundle">>,
   framework |-> <<"wrapper.framework", "", "framework">>, dynamic |-> <<"compiled.mach-o.dylib", "lib", "dylib">>,
   static |-> <<"archive.ar", "lib", "a">>, tool |-> <<"compiled.mach-o.executable", "", "">>,
   loadable |-> <<"compiled.mach-o.dylib", "", "so">>]
Wrapper(filetype) == filetype \in {"wrapper.application", "wrapper.cfbundle", "wrapper.framework"}

\* XCTarget.__init__, with the list of configurations at the end of the heap.
NewTarget(h, class, p, name, productName, phases) ==
  With(LAMBDA hh : IF HasBuildSetting(hh, Len(hh), "PRODUCT_NAME") = 0 THEN SetBuildSetting(hh, Len(hh), "PRODUCT_NAME", <<productName>>) ELSE hh,
       New(h, class, p, [buildConfigurationList |-> <<CHOOSE i \in DOMAIN h : h[i].class = "XCConfigurationList" /\ \A j \in DOMAIN h :
                                                       h[j].class = "XCConfigurationList" => j <= i>>,
                         buildPhases |-> phases, dependencies |-> <<>>, name |-> Called(name), productName |-> productName]))
NewAggregate(h, p, name, productName, configurations) ==
  With(LAMBDA hh : NewTarget(hh, "PBXAggregateTarget", p, name, productName, <<>>),
       IF configurations = <<>> THEN DefaultConfigurationList(h) ELSE CreateXCConfigurationList(h, configurations))

\* The settings and the product reference of a native target.
NewNativeTarget(h, p, spec, kind, configurations) ==
  LET row == product_filetypes[kind]
      wrapper == Wrapper(row[1])
      ext == IF spec.extension # "" THEN spec.extension ELSE IF kind = "loadable" THEN row[3] ELSE ""
      suffix == IF ext # "" /\ ~wrapper THEN ext ELSE row[3]
      tool == kind = "tool" /\ ext # ""
      prefix == IF spec.prefix # "none" THEN spec.prefix ELSE row[2]
      stem == IF prefix = "lib" /\ spec.product_name \in DOMAIN LibNames THEN LibNames[spec.product_name] ELSE spec.product_name
      settings == (IF kind = "loadable" THEN [MACH_O_TYPE |-> <<"mh_bundle">>] ELSE <<>>)
                  @@ (IF ext = "" THEN <<>> ELSE IF wrapper THEN [WRAPPER_EXTENSION |-> <<ext>>] ELSE [EXECUTABLE_EXTENSION |-> <<ext>>])
                  @@ (IF wrapper THEN [WRAPPER_PREFIX |-> <<prefix>>] ELSE [EXECUTABLE_PREFIX |-> <<prefix>>])
                  @@ [PRODUCT_NAME |-> <<IF tool THEN stem \o "." \o ext ELSE stem>>]
      phases == NewPhase(NewPhase(CreateXCConfigurationList(h, configurations), "PBXSourcesBuildPhase", 0, <<>>), "PBXFrameworksBuildPhase", 0, <<>>)
      target == NewTarget(phases, "PBXNativeTarget", p, spec.name, settings.PRODUCT_NAME[1], <<Len(phases) - 1, Len(phases)>>)
      set == [target EXCEPT ![Len(target)].props = ("productType" :> IF kind = "loadable" THEN "dynamic" ELSE kind) @@ @]
  IN  With(LAMBDA hh :
        Then(LAMBDA h1, products :
          Then(LAMBDA h2, file : Ok(SetProperty(h2, Len(hh), "productReference", file), Len(hh)),
               AppendChild(NewFileReference(h1, [explicitFileType |-> row[1], sourceTree |-> "BUILT_PRODUCTS_DIR",
                                                 path |-> <<<<prefix \o stem, suffix>>>>]), products)),
             GroupByName(hh, p, "Products")),
        Fold(LAMBDA hh, key : SetBuildSetting(hh, Len(set), key, settings[key]), set, SetToSeq(DOMAIN settings)))

\* XCTarget.AddDependency
AddTargetDependency(h, t, other) ==
  LET p == PBXProjectAncestor(h, t)
      there == PBXProjectAncestor(h, other)
      container(hh, portal) == New(hh, "PBXContainerItemProxy", 0, [containerPortal |-> portal, proxyType |-> 1,
                                                                   remoteGlobalIDString |-> other, remoteInfo |-> Name(hh, other)])
      dependency(hh, props) == With(LAMBDA g : Ok(AppendProperty(g, t, "dependencies", Len(g)), t),
                                    New(hh, "PBXTargetDependency", 0, ("targetProxy" :> <<Len(hh)>>) @@ props))
  IN  IF p = there THEN dependency(container(h, p), [target |-> other])
      ELSE Then(LAMBDA hh, r : dependency(container(hh, r[2]), [name |-> Name(hh, other)]), AddOrGetProjectReference(h, p, there))

\* A target that is linked is linked with the libraries it depends on.
Linkable(h, other) ==
  \/ h[other].props.productType = "static"
  \/ /\ h[other].props.productType \in {"dynamic", "framework"}
     /\ \/ HasBuildSetting(h, other, "MACH_O_TYPE") = 0
        \/ GetBuildSetting(h, other, "MACH_O_TYPE") # <<"mh_bundle">>
LinkProduct(h, t, other) ==
  LET p == PBXProjectAncestor(h, t)
      there == PBXProjectAncestor(h, other)
      product == h[other].props.productReference
  IN  Then(LAMBDA h1, ref :
        Then(LAMBDA h2, phase : With(LAMBDA h3 : Ok(AppendProperty(h3, phase, "files", Len(h3)), t), New(h2, "PBXBuildFile", 0, [fileRef |-> ref])),
             FrameworksPhase(h1, t)),
        IF p = there THEN Ok(h, product)
        ELSE Then(LAMBDA hh, r : Ok(hh, GetChildByRemoteObject(hh, r[1], product)), AddOrGetProjectReference(h, p, there)))
AddDependency(h, t, other) ==
  Then(LAMBDA hh, x :
         CASE \/ hh[other].class # "PBXNativeTarget"
              \/ hh[t].class # "PBXNativeTarget"
              \/ hh[t].props.productType = "static" -> Ok(hh, t)
           [] /\ hh[other].props.productType \in {"dynamic", "framework"}
              /\ HasBuildSetting(hh, other, "MACH_O_TYPE") = -1 -> Raise(hh, "variant setting")
           [] OTHER -> IF Linkable(hh, other) THEN LinkProduct(hh, t, other) ELSE Ok(hh, t),
       AddTargetDependency(h, t, other))

-----------------------------------------------------------------------------
\* XCProjectFile.Print: the objects of a project, with IDs for references.

Single == {"fileRef", "containerPortal", "remoteGlobalIDString", "target", "productReference", "baseConfigurationReference"}
Private == {"_hashables", "_files_by_path"}
ReferencedBy(h, o) ==
  LET p == h[o].props
  IN  {p[k] : k \in Single \cap DOMAIN p} \union ToSet(Children(h, o)) \union {r.ProjectRef : r \in ToSet(Get(h, o, "projectReferences"))}
PrintedObject(h, ids, o) ==
  LET p == h[o].props
      value(k) == CASE k \in Single -> ids[p[k]]
                    [] k \in ToSet(Strong(h[o].class)) -> Map(LAMBDA c : ids[c], p[k])
                    [] k = "projectReferences" -> Map(LAMBDA r : <<ids[r.ProductGroup], ids[r.ProjectRef]>>, p[k])
                    [] OTHER -> p[k]
  IN  [id |-> ids[o], isa |-> h[o].class, props |-> [k \in DOMAIN p \ Private |-> value(k)]]
PrintError(h, ids, p) ==
  LET all == ToSet(Descendants(h, p))
  IN  CASE \E o \in all : ~VerifyHasRequiredProperties(h[o]) -> "required property"
        [] \E o \in all : ~(ReferencedBy(h, o) \subseteq DOMAIN ids) -> "not printable"
        [] OTHER -> ""
Printed(h, ids, p) == {PrintedObject(h, ids, o) : o \in ToSet(Descendants(h, p))}
=============================================================================
