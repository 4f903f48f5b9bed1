---------------------------- MODULE XcodeSettings ----------------------------
(* xcode_emulation.py, class XcodeSettings: what the settings of a Mac target
   say about its products, flags and postbuilds.

   A value is a sequence of parts: <<"text", t>>; a reference to a variable,
   <<form, name>> with the form "$", "$(" or "${"; or <<"rel", p>>, a path
   relative to the .gyp file, which is <<"built", p>> once it is relative to the
   build.  A list is the sequence of its elements, one part each; paths and
   names are the sequence of theirs, without separators.  spec.xcode_settings
   has the settings of each configuration in the order of their names; the
   first configuration is the one that is built. *)
EXTENDS Naturals, Sequences, TLC, EagerFold
LOCAL INSTANCE SequencesExt

Text(t) == <<<<"text", t>>>>
Part(t) == IF t = "" THEN <<>> ELSE Text(t)
Reference(part) == part[1] \in {"$", "$(", "${"}
NormalizeEnvVarReferences(value) == [i \in DOMAIN value |-> IF Reference(value[i]) THEN <<"${", value[i][2]>> ELSE value[i]]
Replaced(value, name, by) == FlatMap(LAMBDA part : IF part = <<"$(", name>> THEN by ELSE <<part>>, value)
File(value) == [i \in DOMAIN value |-> value[i][2]]

Get(settings, key, default) == IF key \in DOMAIN settings THEN settings[key] ELSE default
Test(settings, test_key, cond_key, default) == Get(settings, test_key, Text(default)) = Text(cond_key)
Appendf(settings, test_key, flag) == IF test_key \in DOMAIN settings THEN Text(flag) \o settings[test_key] ELSE <<>>
\* The flags of the tests <<key, condition, default, flag>> that hold.
Tested(settings, tests) == FlatMap(LAMBDA t : IF Test(settings, t[1], t[2], t[3]) THEN Text(t[4]) ELSE <<>>, tests)

-----------------------------------------------------------------------------
\* The settings of the first configuration that no later one contradicts.
GetPerTargetSettings(configurations) ==
  IF configurations = <<>> THEN <<>>
  ELSE Fold(LAMBDA result, c : [k \in {j \in DOMAIN result : j \in DOMAIN c => c[j] = result[j]} |-> result[k]],
            configurations[1], Tail(configurations))

\* A setting of the whole target; one that the configurations disagree about raises.
GetPerTargetSetting(spec, setting, default) == Get(spec.xcode_settings[1], setting, default)
PerConfig(spec, setting) ==
  \E c \in ToSet(spec.xcode_settings) : Get(c, setting, <<>>) # Get(spec.xcode_settings[1], setting, <<>>)

\* The settings of the build file are under those of each configuration that has any.
MergeGlobalXcodeSettingsToSpec(global_xcode_settings, spec) ==
  [spec EXCEPT !.xcode_settings = [i \in DOMAIN @ |-> IF @[i] = <<>> THEN @[i] ELSE @[i] @@ global_xcode_settings]]

-----------------------------------------------------------------------------
\* Products.

IsBundle(spec) == spec.mac_bundle
Binaries == {"executable", "static_library", "shared_library", "loadable_module"}

GetFrameworkVersion(spec) == GetPerTargetSetting(spec, "FRAMEWORK_VERSION", Text("A"))
GetWrapperExtension(spec) ==
  IF spec.type = "executable" THEN Text("app")
  ELSE IF spec.product_extension # <<>> THEN Text(spec.product_extension[1])
  ELSE GetPerTargetSetting(spec, "WRAPPER_EXTENSION", Text([loadable_module |-> "bundle", shared_library |-> "framework"][spec.type]))
GetProductName(spec) == IF spec.product_name = <<>> THEN Text(spec.name) ELSE spec.product_name
GetWrapperName(spec) == GetProductName(spec) \o GetWrapperExtension(spec)

GetBundleContentsFolderPath(spec) ==
  GetWrapperName(spec) \o IF spec.type = "shared_library" THEN Text("Versions") \o GetFrameworkVersion(spec) ELSE Text("Contents")
GetBundleResourceFolder(spec) == GetBundleContentsFolderPath(spec) \o Text("Resources")
GetBundlePlistPath(spec) ==
  GetBundleContentsFolderPath(spec) \o (IF spec.type = "shared_library" THEN Text("Resources") ELSE <<>>) \o Text("Info") \o Text("plist")

GetProductType(spec) ==
  Text(IF IsBundle(spec)
       THEN [executable |-> "application", loadable_module |-> "bundle", shared_library |-> "framework"][spec.type]
       ELSE [executable |-> "tool", loadable_module |-> "library.dynamic", shared_library |-> "library.dynamic",
             static_library |-> "library.static"][spec.type])
GetMachOType(spec) ==
  IF ~IsBundle(spec) /\ spec.type = "executable" THEN <<>>
  ELSE Text([executable |-> "mh_execute", static_library |-> "staticlib", shared_library |-> "mh_dylib", loadable_module |-> "mh_bundle"][spec.type])

GetStandaloneExecutablePrefix(spec) ==
  Part(IF spec.product_prefix # <<>> THEN spec.product_prefix[1]
       ELSE IF spec.type \in {"static_library", "shared_library"} THEN "lib" ELSE "")
GetStandaloneExecutableSuffix(spec) ==
  Part(IF spec.product_extension # <<>> THEN spec.product_extension[1]
       ELSE [executable |-> "", static_library |-> "a", shared_library |-> "dylib", loadable_module |-> "so"][spec.type])
GetStandaloneBinaryPath(spec) == GetStandaloneExecutablePrefix(spec) \o GetProductName(spec) \o GetStandaloneExecutableSuffix(spec)

GetFullProductName(spec) == IF IsBundle(spec) THEN GetWrapperName(spec) ELSE GetStandaloneBinaryPath(spec)
GetExecutableName(spec) == IF IsBundle(spec) THEN GetProductName(spec) ELSE GetStandaloneBinaryPath(spec)
GetBundleBinaryPath(spec) ==
  GetBundleContentsFolderPath(spec) \o (IF spec.type = "shared_library" THEN <<>> ELSE Text("MacOS")) \o GetExecutableName(spec)
GetExecutablePath(spec) == IF IsBundle(spec) THEN GetBundleBinaryPath(spec) ELSE GetStandaloneBinaryPath(spec)

-----------------------------------------------------------------------------
\* Where the loader looks for a library.

SdkPath(spec) ==
  With(LAMBDA sdk_root : IF sdk_root[1] = <<"text", "macosx">> THEN Text("SDKs") \o Text("MacOSX") \o Tail(sdk_root) ELSE sdk_root,
       GetPerTargetSetting(spec, "SDKROOT", Text("macosx") \o Text("10.5")))

HasInstallName(spec) == spec.type = "shared_library" \/ (spec.type = "loadable_module" /\ ~IsBundle(spec))
GetInstallNameBase(spec) ==
  IF ~HasInstallName(spec) THEN <<>>
  ELSE GetPerTargetSetting(spec, "DYLIB_INSTALL_NAME_BASE", Text(IF IsBundle(spec) THEN "/Library/Frameworks" ELSE "/usr/local/lib"))

\* normpath; the directory above @executable_path stays.
StandardizePath(path) ==
  LET up(out, part) == out # <<>> /\ part = <<"text", "..">> /\ Last(out)[2] \notin {"..", "@executable_path", "@loader_path", "@rpath"}
  IN  Fold(LAMBDA out, part : IF up(out, part) THEN Front(out) ELSE Append(out, part), <<>>, path)

InstallBase == "DYLIB_INSTALL_NAME_BASE:standardizepath"
DefaultInstallName == <<<<"$(", InstallBase>>, <<"$(", "EXECUTABLE_PATH">>>>
ChromiumInstallName == <<<<"$(", InstallBase>>, <<"$(", "WRAPPER_NAME">>, <<"$(", "PRODUCT_NAME">>>>
LdDylibInstallName(spec) == GetPerTargetSetting(spec, "LD_DYLIB_INSTALL_NAME", DefaultInstallName)
InstallNameRaises(spec) ==
  /\ HasInstallName(spec)
  /\ \E part \in ToSet(LdDylibInstallName(spec)) : Reference(part)
  /\ LdDylibInstallName(spec) \notin {DefaultInstallName} \union IF IsBundle(spec) THEN {ChromiumInstallName} ELSE {}

GetInstallName(spec) ==
  IF ~HasInstallName(spec) THEN <<>>
  ELSE Fold(LAMBDA name, by : Replaced(name, by[1], by[2]), LdDylibInstallName(spec),
            <<<<InstallBase, StandardizePath(GetInstallNameBase(spec))>>>>
              \o (IF IsBundle(spec) THEN <<<<"WRAPPER_NAME", GetWrapperName(spec)>>, <<"PRODUCT_NAME", GetProductName(spec)>>>> ELSE <<>>)
              \o <<<<"EXECUTABLE_PATH", GetExecutablePath(spec)>>>>)

-----------------------------------------------------------------------------
\* Flags of the compiler and the linker, for the settings of one configuration.

Arch(settings) ==
  With(LAMBDA archs : IF Len(archs) # 1 THEN "i386" ELSE archs[1][2], Get(settings, "ARCHS", Text("i386")))
FrameworkDirs(spec) == FlatMap(LAMBDA part : Text("-F") \o Replaced(<<part>>, "SDKROOT", SdkPath(spec)), spec.mac_framework_dirs)

DebugSymbols(settings) == Test(settings, "GCC_GENERATE_DEBUGGING_SYMBOLS", "YES", "YES")
DebugFormatRaises(settings) ==
  DebugSymbols(settings) /\ Get(settings, "DEBUG_INFORMATION_FORMAT", Text("dwarf")) \notin {Text("dwarf"), Text("dwarf-with-dsym")}

GetCflags(spec, settings) ==
  (IF "SDKROOT" \in DOMAIN settings THEN Text("-isysroot") \o SdkPath(spec) ELSE <<>>)
  \o Tested(settings, <<<<"GCC_CHAR_IS_UNSIGNED_CHAR", "YES", "NO", "-funsigned-char">>,
                        <<"GCC_CW_ASM_SYNTAX", "YES", "YES", "-fasm-blocks">>,
                        <<"GCC_DYNAMIC_NO_PIC", "YES", "", "-mdynamic-no-pic">>,
                        <<"GCC_ENABLE_PASCAL_STRINGS", "YES", "YES", "-mpascal-strings">>>>)
  \o Text("-O") \o Get(settings, "GCC_OPTIMIZATION_LEVEL", Text("s"))
  \o (IF DebugSymbols(settings) THEN Text("-gdwarf-2") ELSE <<>>)
  \o Tested(settings, <<<<"GCC_SYMBOLS_PRIVATE_EXTERN", "YES", "NO", "-fvisibility=hidden">>,
                        <<"GCC_TREAT_WARNINGS_AS_ERRORS", "YES", "NO", "-Werror">>,
                        <<"GCC_WARN_ABOUT_MISSING_NEWLINE", "YES", "NO", "-Wnewline-eof">>>>)
  \o Appendf(settings, "MACOSX_DEPLOYMENT_TARGET", "-mmacosx-version-min")
  \o Text("-arch") \o Text(Arch(settings))
  \o (IF Arch(settings) \notin {"i386", "x86_64"} THEN <<>>
      ELSE Tested(settings, <<<<"GCC_ENABLE_SSE3_EXTENSIONS", "YES", "NO", "-msse3">>,
                              <<"GCC_ENABLE_SUPPLEMENTAL_SSE3_INSTRUCTIONS", "YES", "NO", "-mssse3">>,
                              <<"GCC_ENABLE_SSE41_EXTENSIONS", "YES", "NO", "-msse4.1">>,
                              <<"GCC_ENABLE_SSE42_EXTENSIONS", "YES", "NO", "-msse4.2">>>>))
  \o Get(settings, "WARNING_CFLAGS", <<>>)
  \o FrameworkDirs(spec)

GetCflagsC(settings) == Appendf(settings, "GCC_C_LANGUAGE_STANDARD", "-std") \o Get(settings, "OTHER_CFLAGS", <<>>)

\* The flags of C are inherited where they are referred to.
GetCflagsCC(settings) ==
  Tested(settings, <<<<"GCC_ENABLE_CPP_RTTI", "NO", "YES", "-fno-rtti">>,
                     <<"GCC_ENABLE_CPP_EXCEPTIONS", "NO", "YES", "-fno-exceptions">>,
                     <<"GCC_INLINES_ARE_PRIVATE_EXTERN", "YES", "NO", "-fvisibility-inlines-hidden">>,
                     <<"GCC_THREADSAFE_STATICS", "NO", "YES", "-fno-threadsafe-statics">>,
                     <<"GCC_WARN_ABOUT_INVALID_OFFSETOF_MACRO", "NO", "YES", "-Wno-invalid-offsetof">>>>)
  \o FlatMap(LAMBDA flag : IF Reference(flag) /\ flag[2] \in {"inherited", "OTHER_CFLAGS"} THEN Get(settings, "OTHER_CFLAGS", <<>>) ELSE <<flag>>,
             Get(settings, "OTHER_CPLUSPLUSFLAGS", <<<<"$(", "inherited">>>>))

GetCflagsObjC(settings) ==
  Tested(settings, <<<<"GCC_ENABLE_OBJC_GC", "supported", "unsupported", "-fobjc-gc">>, <<"GCC_ENABLE_OBJC_GC", "required", "unsupported", "-fobjc-gc-only">>>>)
GetCflagsObjCC(settings) == GetCflagsObjC(settings) \o Tested(settings, <<<<"GCC_OBJC_CALL_CXX_CDTORS", "YES", "NO", "-fobjc-call-cxx-cdtors">>>>)

MapLinkerFlagFilename(flags) == [i \in DOMAIN flags |-> IF flags[i][1] = "rel" THEN <<"built", flags[i][2]>> ELSE flags[i]]

GetLdflags(spec, settings) ==
  MapLinkerFlagFilename(Get(settings, "OTHER_LDFLAGS", <<>>))
  \o Tested(settings, <<<<"DEAD_CODE_STRIPPING", "YES", "NO", "-Wl,-dead_strip">>, <<"PREBINDING", "YES", "NO", "-Wl,-prebind">>>>)
  \o Appendf(settings, "DYLIB_COMPATIBILITY_VERSION", "-compatibility_version")
  \o Appendf(settings, "DYLIB_CURRENT_VERSION", "-current_version")
  \o Appendf(settings, "MACOSX_DEPLOYMENT_TARGET", "-mmacosx-version-min")
  \o (IF "SDKROOT" \in DOMAIN settings THEN Text("-isysroot") \o SdkPath(spec) ELSE <<>>)
  \o FlatMap(LAMBDA path : Text("-L") \o MapLinkerFlagFilename(<<path>>), Get(settings, "LIBRARY_SEARCH_PATHS", <<>>))
  \o MapLinkerFlagFilename(Appendf(settings, "ORDER_FILE", "-Wl,-order_file"))
  \o Text("-arch") \o Text(Arch(settings)) \o Text("-L") \o Text("product_dir")
  \o (IF HasInstallName(spec) THEN Text("-install_name") \o GetInstallName(spec) ELSE <<>>)
  \o FlatMap(LAMBDA rpath : Text("-rpath") \o <<rpath>>, Get(settings, "LD_RUNPATH_SEARCH_PATHS", <<>>))
  \o FrameworkDirs(spec)
GetLibtoolflags(settings) == Get(settings, "OTHER_LDFLAGS", <<>>)

\* A library is [form, path]: a framework, a lib*.a or lib*.dylib, or neither.
AdjustLibrary(spec, library) ==
  Replaced(IF library.form = "framework" THEN Text("-framework") \o <<Last(library.path)>>
           ELSE IF library.form = "lib" /\ Len(library.path) = 1 THEN Text("-l") \o library.path
           ELSE library.path, "SDKROOT", SdkPath(spec))
AdjustLibraries(spec, libraries) == FlatMap(LAMBDA library : AdjustLibrary(spec, library), libraries)

-----------------------------------------------------------------------------
\* What is done to a binary when it is linked: <<command, file>>.

GetDebugInfoPostbuilds(spec, settings, output_binary) ==
  IF DebugSymbols(settings) /\ Test(settings, "DEBUG_INFORMATION_FORMAT", "dwarf-with-dsym", "dwarf") /\ spec.type # "static_library"
  THEN <<<<"dsymutil", output_binary>>>> ELSE <<>>

Strips(settings) == Test(settings, "DEPLOYMENT_POSTPROCESSING", "YES", "NO") /\ Test(settings, "STRIP_INSTALLED_PRODUCT", "YES", "NO")
DefaultStripStyle(spec) == IF IsBundle(spec) THEN "non-global" ELSE IF spec.type = "executable" THEN "all" ELSE "debugging"
StripRaises(spec, settings) ==
  Strips(settings) /\ Get(settings, "STRIP_STYLE", Text(DefaultStripStyle(spec))) \notin {Text("all"), Text("non-global"), Text("debugging")}
GetStripPostbuilds(settings, output_binary) == IF Strips(settings) THEN <<<<"strip", output_binary>>>> ELSE <<>>

\* The debug information is taken before stripping removes it.
GetTargetPostbuilds(spec, settings, output_binary) ==
  GetDebugInfoPostbuilds(spec, settings, output_binary) \o GetStripPostbuilds(settings, output_binary)
=============================================================================
