----------------------------- MODULE MCGypBuild -----------------------------
(* Small projects for GypBuild, each written by make and by ninja. *)
EXTENDS GypBuild

S(name) == [Spec0 EXCEPT !.name = name]
Names == <<"A", "B", "BUILT_PRODUCTS_DIR", "CHROMIUM_STRIP_SAVE_FILE", "CONFIGURATION", "CONTENTS_FOLDER_PATH", "DYLIB_INSTALL_NAME_BASE", "EXECUTABLE_NAME",
           "EXECUTABLE_PATH", "FULL_PRODUCT_NAME", "INFOPLIST_PATH", "LD_DYLIB_INSTALL_NAME", "MACH_O_TYPE", "PRODUCT_NAME", "PRODUCT_TYPE", "SDKROOT",
           "SOURCE_ROOT", "SRCROOT", "TARGET_BUILD_DIR", "TEMP_DIR", "UNLOCALIZED_RESOURCES_FOLDER_PATH", "WRAPPER_NAME">>
Backwards == [i \in DOMAIN Names |-> Names[Len(Names) + 1 - i]]
H(t, p) == <<t, p>>
Src(root, ext) == <<"", root, ext>>
Mid(root, ext) == <<"INTERMEDIATE_DIR", root, ext>>
Shared(root, ext) == <<"SHARED_INTERMEDIATE_DIR", root, ext>>
Product(root, ext) == <<"PRODUCT_DIR", root, ext>>

NoEnv == [GYP_DEFINES |-> <<>>, GYP_GENERATOR_FLAGS |-> <<>>, GYP_GENERATORS |-> <<>>, GYP_GENERATOR_OUTPUT |-> <<>>, GYP_PARALLEL |-> <<>>,
          found |-> [d \in {<<"/">>, <<"/", "sub">>, <<"/", "src", "d">>, <<"/", "src">>} |-> <<>>]]
Plain == [args |-> <<<<"depth", <<>>>>, <<"build_file", <<"f">>>>>>, env |-> NoEnv, later |-> NoEnv, cwd |-> <<"/">>]
Project(specs, flavor, roots, tree, private, command) ==
  [specs |-> specs, format |-> "make", flavor |-> flavor, roots |-> roots, tree |-> tree, private |-> private, names |-> Names, hash |-> Names,
   global_xcode_settings |-> <<>>,
   args |-> command.args, env |-> command.env, later |-> command.later, cwd |-> command.cwd]

-----------------------------------------------------------------------------
\* An executable whose sources an action of its own generates with a tool that
\* is built first.
Tool ==
  LET tool == [S("tool") EXCEPT !.type = "executable", !.sources = <<Src("t", "c")>>, !.toolset = "host"]
      app == [S("app") EXCEPT !.type = "executable", !.dependencies = <<1>>, !.sources = <<Src("m", "cc")>>, !.includes = {H(2, Mid("gen", "h"))},
                !.actions = <<[Action0 EXCEPT !.inputs = <<Product("tool", ""), Src("in", "txt")>>,
                                 !.outputs = <<Mid("gen", "h"), Mid("gen", "c")>>, !.process_outputs_as_sources = TRUE]>>]
  IN  Project(<<tool, app>>, "linux", {"f"}, {<<1, Src("t", "c")>>, <<2, Src("m", "cc")>>, <<2, Src("in", "txt")>>}, {}, Plain)

\* A header that a target of type none generates, included by a static library,
\* a shared library over it, and an executable over that.
Libraries ==
  LET gen == [S("gen") EXCEPT !.actions = <<[Action0 EXCEPT !.inputs = <<Src("in", "txt")>>, !.outputs = <<Shared("gen", "h")>>]>>]
      lib == [S("lib") EXCEPT !.type = "static_library", !.dependencies = <<1>>, !.sources = <<Src("l", "c")>>, !.includes = {H(1, Shared("gen", "h"))}]
      dll == [S("dll") EXCEPT !.type = "shared_library", !.dependencies = <<2>>, !.sources = <<Src("s", "c")>>, !.includes = {H(1, Shared("gen", "h"))}]
      app == [S("app") EXCEPT !.type = "executable", !.dependencies = <<3>>, !.sources = <<Src("m", "c")>>]
  IN  Project(<<gen, lib, dll, app>>, "linux", {"f"},
              {<<1, Src("in", "txt")>>, <<2, Src("l", "c")>>, <<3, Src("s", "c")>>, <<4, Src("m", "c")>>}, {<<"srcdir", "d", "s", "c">>}, Plain)

\* Rules, copies, one source in two targets, a target that is not asked for.
Rules ==
  LET step == [Action0 EXCEPT !.inputs = <<Src("gen", "py")>>, !.outputs = <<Mid("%", "c"), Mid("%", "h")>>, !.process_outputs_as_sources = TRUE]
      rule == [rule_sources |-> <<Src("a", "y"), Src("b", "y")>>, extension |-> "y", step |-> step]
      one == [S("one") EXCEPT !.type = "executable", !.rules = <<rule>>, !.sources = <<Src("c", "c"), Src("h", "h")>>,
                !.includes = {H(1, Mid("a", "h")), H(1, Src("h", "h"))}]
      two == [S("two") EXCEPT !.type = "loadable_module", !.sources = <<Src("c", "c"), Product("a", "o")>>, !.file = "g", !.dependencies = <<1>>,
                !.copies = <<[files |-> <<Src("a", "o")>>, destination |-> "PRODUCT_DIR"]>>]
      three == [S("three") EXCEPT !.dependencies = <<2, 1>>, !.file = "g", !.copies = <<[files |-> <<Src("h", "h")>>, destination |-> "PRODUCT_DIR"]>>]
      four == [S("four") EXCEPT !.type = "executable", !.sources = <<Src("x", "c")>>, !.file = "h"]
  IN  Project(<<one, two, three, four>>, "linux", {"g"},
              {<<1, Src("a", "y")>>, <<1, Src("b", "y")>>, <<1, Src("gen", "py")>>, <<1, Src("c", "c")>>, <<1, Src("h", "h")>>, <<2, Src("a", "o")>>}, {}, Plain)

Var(name) == <<<<"$(", name>>>>
Chain == [A |-> Var("B") \o <<<<"$", "EXECUTABLE_NAME">>>>, B |-> <<<<"${", "PRODUCT_NAME">>>>, PRODUCT_NAME |-> Var("A")]

Yes == Text("YES")
\* A framework that is stripped, with its debug information in a file of its own.
Stripped == [FRAMEWORK_VERSION |-> Text("B"), DEPLOYMENT_POSTPROCESSING |-> Yes, STRIP_INSTALLED_PRODUCT |-> Yes,
             DEBUG_INFORMATION_FORMAT |-> Text("dwarf-with-dsym"), LD_DYLIB_INSTALL_NAME |-> ChromiumInstallName,
             DYLIB_INSTALL_NAME_BASE |-> Text("@executable_path") \o Text("..") \o Text("Frameworks") \o Text("x") \o Text("..")]
\* A bundle with resources, a property list, a compiled header and postbuilds.
Bundle ==
  LET fw == [S("fw") EXCEPT !.type = "shared_library", !.mac_bundle = TRUE, !.sources = <<Src("f", "m")>>, !.info_plist = <<>>,
               !.prefix_header = Src("p", "h"), !.postbuilds = TRUE, !.strip_save_file = Var("PRODUCT_NAME"), !.xcode_settings = <<Stripped>>]
      app == [S("app") EXCEPT !.type = "executable", !.mac_bundle = TRUE, !.dependencies = <<1>>, !.sources = <<Src("m", "c")>>,
                !.mac_bundle_resources = <<Src("r", "xib")>>, !.info_plist = Src("i", "plist"), !.plist_defines = TRUE,
                !.prefix_header = Src("p", "h"), !.precompile = TRUE, !.postbuilds = TRUE,
                !.product_name = Text("app") \o Var("SOURCE_ROOT"), !.xcode_settings = <<Chain, Chain>>,
                !.actions = <<[Action0 EXCEPT !.inputs = <<Src("i", "plist")>>, !.outputs = <<Mid("icon", "icns")>>,
                                 !.command = Var("EXECUTABLE_NAME") \o <<<<"$", "SOURCE_ROOT">>>>,
                                 !.process_outputs_as_mac_bundle_resources = TRUE]>>]
  IN  Project(<<fw, app>>, "mac", {"f"}, {<<1, Src("f", "m")>>, <<1, Src("p", "h")>>, <<2, Src("m", "c")>>, <<2, Src("r", "xib")>>, <<2, Src("i", "plist")>>},
              {}, Plain)

\* A property list under settings that may lead back to themselves, and a file that is
\* copied into the bundle.
Plist(configurations, command) ==
  Project(<<[S("app") EXCEPT !.mac_bundle = TRUE, !.type = "executable", !.info_plist = Src("i", "plist"), !.xcode_settings = configurations, !.sources = <<Src("m", "c")>>,
               !.copies = <<[files |-> <<Src("m", "c")>>, destination |-> "CONTENTS"]>>,
               !.actions = <<[Action0 EXCEPT !.outputs = <<Mid("a", "y")>>, !.command = command]>>]>>, "mac", {"f"}, {<<1, Src("i", "plist")>>, <<1, Src("m", "c")>>}, {}, Plain)
Loop == [A |-> Var("B"), B |-> Var("A")]
Plists == {Plist(<<Loop, Loop>>, <<>>),
           Plist(<<Loop, [A |-> Var("B"), B |-> Text("b")]>>, Var("TEMP_DIR")),     \* the configurations differ in B
           [Plist(<<Loop>>, <<>>) EXCEPT !.specs[1].info_plist = <<>>, !.tree = {<<1, Src("m", "c")>>}],  \* no property list
           [Plist(<<<<>>>>, <<>>) EXCEPT !.specs[1].product_name = Var("EXECUTABLE_NAME")]}

\* A plug-in outside a bundle: flags of its own, and headers compiled for Objective-C.
Flags == [ARCHS |-> Text("x86_64"), SDKROOT |-> Text("macosx") \o Text("10.7"), OTHER_CFLAGS |-> Text("-w"), GCC_C_LANGUAGE_STANDARD |-> Text("c99"),
          GCC_ENABLE_OBJC_GC |-> Text("required"), GCC_ENABLE_SSE3_EXTENSIONS |-> Yes, OTHER_LDFLAGS |-> <<<<"text", "-ObjC">>, <<"rel", "exports">>>>,
          LIBRARY_SEARCH_PATHS |-> <<<<"rel", "libs">>>>, ORDER_FILE |-> <<<<"rel", "order">>>>, LD_RUNPATH_SEARCH_PATHS |-> Text("@loader_path"),
          DEBUG_INFORMATION_FORMAT |-> Text("dwarf-with-dsym"), GCC_WARN_ABOUT_INVALID_OFFSETOF_MACRO |-> Text("NO")]
Plugin(settings) ==
  Project(<<[S("plug") EXCEPT !.type = "loadable_module", !.product_extension = <<"plugin">>, !.xcode_settings = settings,
               !.sources = <<Src("p", "mm")>>, !.prefix_header = Src("h", "h"), !.precompile = TRUE, !.postbuilds = TRUE,
               !.mac_framework_dirs = Var("SDKROOT"), !.libraries = <<[form |-> "framework", path |-> Var("SDKROOT") \o Text("Cocoa")], [form |-> "lib", path |-> Text("z")]>>]>>,
          "mac", {"f"}, {<<1, Src("p", "mm")>>, <<1, Src("h", "h")>>}, {}, Plain)
\* The build file's settings, which the target has too, or which nobody can translate.
Globals == {[PREBINDING |-> Yes, ARCHS |-> Text("ppc")], [LD_DYLIB_INSTALL_NAME |-> Var("OTHER")]}
\* Settings that are refused.
Refused == {<<Flags, [Flags EXCEPT !.SDKROOT = Text("other")]>>, <<[DEBUG_INFORMATION_FORMAT |-> Text("stabs")]>>,
            <<[LD_DYLIB_INSTALL_NAME |-> ChromiumInstallName]>>, <<[STRIP_STYLE |-> Text("none"), STRIP_INSTALLED_PRODUCT |-> Yes, DEPLOYMENT_POSTPROCESSING |-> Yes]>>}

\* Windows: an interface description, an import library, a library linked object by object.
Windows ==
  LET dll == [S("dll") EXCEPT !.type = "shared_library", !.sources = <<Src("w", "c"), Src("w", "rc")>>]
      lib == [S("lib") EXCEPT !.type = "static_library", !.dependencies = <<1>>, !.sources = <<Src("l", "c"), Src("i", "idl"), Src("z", "asm")>>,
                !.includes = {H(2, Mid("i", "h"))}]
      app == [S("app") EXCEPT !.type = "executable", !.dependencies = <<2, 1>>, !.sources = <<Src("m", "c")>>, !.dependency_inputs = TRUE,
                !.includes = {H(2, Mid("i", "h"))}]
  IN  Project(<<dll, lib, app>>, "win", {"f"},
              {<<1, Src("w", "c")>>, <<1, Src("w", "rc")>>, <<2, Src("l", "c")>>, <<2, Src("i", "idl")>>, <<2, Src("z", "asm")>>, <<3, Src("m", "c")>>}, {}, Plain)

-----------------------------------------------------------------------------
\* One small target under many commands and environments.
Command(args, env, later, cwd) ==
  Project(<<[S("app") EXCEPT !.actions = <<[Action0 EXCEPT !.inputs = <<Src("a", "x")>>, !.outputs = <<Mid("a", "y")>>]>>]>>, "linux", {"f"},
          {<<1, Src("a", "x")>>}, {}, [args |-> args, env |-> env, later |-> later, cwd |-> cwd])

Env1 == [NoEnv EXCEPT !.GYP_DEFINES = <<<<"v", "1">>, <<"w">>>>, !.GYP_GENERATOR_FLAGS = <<<<"config", "Release">>>>, !.GYP_GENERATOR_OUTPUT = <<<<"out">>>>,
                      !.GYP_PARALLEL = <<<<"1">>>>]
Env2 == [NoEnv EXCEPT !.GYP_DEFINES = <<<<"v", "2">>>>, !.GYP_GENERATORS = <<<<"make">>>>,
                      !.found = [d \in DOMAIN NoEnv.found |-> <<<<"f">>>>]]
BuildFile(p) == <<"build_file", p>>
Depth(p) == <<"depth", p>>
Commands1 == {
  \* definitions on the command line over those of the environment, one twice
  <<<<<<"defines", <<"v", "3">>>>, Depth(<<>>), <<"defines", <<"v", "4">>>>, <<"defines", <<"OS", "other">>>>, <<"includes", <<"common">>>>, <<"check", <<>>>>, BuildFile(<<"f">>)>>, Env1, Env2, <<"/">>>>,
  \* run in a directory below the top
  <<<<Depth(<<"..">>), <<"includes", <<"common">>>>, <<"generator_output", <<"..", "gen">>>>, <<"suffix", <<"x">>>>, BuildFile(<<"f">>)>>, Env1, NoEnv, <<"/", "sub">>>>,
  \* the environment is not looked at
  <<<<<<"ignore_environment", <<>>>>, Depth(<<>>), <<"debug", <<"all">>>>, <<"configs", <<"Debug">>>>, BuildFile(<<"f">>)>>, Env1, Env2, <<"/">>>>,
  \* the depth is inferred
  <<<<BuildFile(<<"f">>), BuildFile(<<"..", "g">>), <<"formats", <<"make">>>>>>, Env2, Env1, <<"/", "src", "d">>>>,
  \* the build file is found in the directory
  <<<<Depth(<<>>), <<"parallel", <<>>>>, <<"no_circular_check", <<>>>>>>, Env2, Env2, <<"/">>>>,
  \* no build file, and no depth
  <<<<Depth(<<>>)>>, NoEnv, NoEnv, <<"/">>>>,
  <<<<BuildFile(<<"f">>)>>, NoEnv, NoEnv, <<"/">>>>}

Both(p) == {p, [p EXCEPT !.format = "ninja", !.hash = Backwards]}
Projects == Both(Tool) \union Both(Libraries) \union Both(Rules) \union Both(Bundle) \union UNION {Both(p) : p \in Plists} \union UNION {Both([Plugin(<<Flags>>) EXCEPT !.global_xcode_settings = g]) : g \in Globals} \union UNION {Both(Plugin(r)) : r \in Refused} \union {[Windows EXCEPT !.format = "ninja"]}
              \union {Command(c[1], c[2], c[3], c[4]) : c \in Commands1}
=============================================================================
