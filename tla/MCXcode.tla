------------------------------ MODULE MCXcode -------------------------------
(* Small inputs for the Xcode generator. *)
EXTENDS Xcode

F(s, e) == <<s, e>>
Var(v) == <<v, "$">>
Mid(s, e) == <<Var("INTERMEDIATE_DIR"), <<s, e>>>>
Shared(s, e) == <<Var("SHARED_INTERMEDIATE_DIR"), <<s, e>>>>
Sdk(s) == <<Var("SDKROOT"), Part("usr"), Part("lib"), F(s, "dylib")>>

Target0 ==
  [name |-> "", file |-> "a", toolset |-> "target", type |-> "none", mac_bundle |-> FALSE, product_name |-> "", prefix |-> "none", extension |-> "",
   actions |-> <<>>, rules |-> <<>>, sources |-> <<>>, resources |-> <<>>, private_headers |-> <<>>, headers |-> <<>>, copies |-> <<>>,
   excluded |-> <<>>, postbuilds |-> <<>>, dependencies |-> <<>>, libraries |-> <<>>, configurations |-> <<"Debug">>, settings |-> <<>>,
   config_file |-> <<>>, run_as |-> FALSE, suppress_wildcard |-> FALSE, test_runner |-> FALSE]
T(name, type) == [Target0 EXCEPT !.name = name, !.product_name = name, !.type = type]
Action(name, outputs) == [name |-> name, inputs |-> <<<<F("in", "txt")>>>>, outputs |-> outputs, as_sources |-> TRUE, as_resources |-> FALSE]
File(dir, name, targets) ==
  [dir |-> dir, name |-> name, included |-> <<dir \o <<F(name, "gyp")>>, dir \o <<F("common", "gypi")>>>>, targets |-> targets,
   settings |-> <<>>, configurations |-> <<>>, config_file |-> <<>>]
Input(files, targets) == [files |-> files, targets |-> targets, generator_output |-> <<>>, list_excluded |-> TRUE]
One(targets) == Input([a |-> File(<<>>, "a", [i \in 1..Len(targets) |-> i])], targets)

-----------------------------------------------------------------------------
\* A library in nested directories and a tool; then a file is added that keeps
\* the directories from being collapsed.
Nested ==
  LET lib == [T("libx", "static_library") EXCEPT !.sources = <<<<Part("a"), Part("b"), F("f", "cc")>>, <<Part("a"), Part("b"), F("g", "h")>>>>,
                !.headers = <<<<F("x", "h")>>>>]
      app == [T("app", "executable") EXCEPT !.sources = <<<<Part("m"), Part("n"), F("main", "c")>>>>, !.dependencies = <<1>>,
                !.libraries = <<Sdk("z"), <<Part("lib"), F("y", "a")>>>>, !.settings = [Debug |-> [OPT |-> <<"0">>]], !.config_file = <<F("c", "xcconfig")>>,
                !.configurations = <<"Debug", "Release">>]
      more == [app EXCEPT !.sources = <<<<Part("m"), Part("n"), F("main", "c")>>, <<Part("m"), F("other", "c")>>, <<Part("a"), F("z", "cc")>>>>]
      with(t) == [One(<<lib, t>>) EXCEPT !.files["a"].config_file = <<F("p", "xcconfig")>>, !.files["a"].settings = [X |-> <<"1">>]]
  IN  <<with(app), with(more)>>

\* Two files in two directories; the second project uses the first one's
\* libraries before the first has all its targets.
Remote ==
  LET one == [T("one", "static_library") EXCEPT !.sources = <<<<F("o", "c")>>>>]
      app == [T("app", "executable") EXCEPT !.file = "b", !.sources = <<<<F("m", "c")>>>>, !.dependencies = <<1, 2>>]
      two == [T("two", "shared_library") EXCEPT !.sources = <<<<F("t", "c")>>>>, !.dependencies = <<1>>]
      plug == [T("plug", "loadable_module") EXCEPT !.sources = <<<<F("p", "c")>>>>]
      in == [Input([a |-> File(<<Part("d")>>, "a", <<4, 2, 1>>), b |-> File(<<Part("e")>>, "b", <<3>>)], <<one, two, app, plug>>)
               EXCEPT !.generator_output = <<Part("out")>>]
  IN  <<in, in>>

\* Actions and rules that generate sources and resources of a bundle, localized
\* resources, copies, postbuilds.
Bundle ==
  LET rule == [name |-> "gen", extension |-> "y", rule_sources |-> <<<<F("g", "y")>>, <<Part("d"), F("k", "y")>>>>,
               outputs |-> <<<<Var("INTERMEDIATE_DIR"), F("%", "c")>>, <<Var("INTERMEDIATE_DIR"), F("%", "h")>>>>,
               inputs |-> <<<<F("gen", "py")>>>>, as_sources |-> TRUE, as_resources |-> FALSE]
      en == <<Part("r"), F("en", "lproj"), F("Main", "xib")>>
      fr == <<Part("r"), F("fr", "lproj"), F("Main", "xib")>>
      gen == [T("gen", "none") EXCEPT !.actions = <<Action("g1", <<Shared("a", "txt")>>), Action("g2", <<Shared("b", "c")>>)>>,
                !.copies = <<[destination |-> <<Part("p")>>, files |-> <<<<F("a", "txt")>>>>], [destination |-> <<Part("q")>>, files |-> <<<<F("b", "txt")>>, <<Part("w"), Slash>>>>]>>]
      app == [T("app", "executable") EXCEPT !.mac_bundle = TRUE, !.dependencies = <<1>>, !.rules = <<rule>>, !.extension = "xyz",
                !.sources = <<<<F("m", "m")>>, <<F("g", "y")>>>>, !.resources = <<en, fr, <<F("r", "png")>>>>, !.postbuilds = <<"strip">>,
                !.actions = <<[Action("icon", <<Mid("icon", "icns")>>) EXCEPT !.as_sources = FALSE, !.as_resources = TRUE]>>,
                !.excluded = <<<<F("win", "c")>>>>, !.private_headers = <<<<F("i", "h")>>>>]
      fw == [T("fw", "shared_library") EXCEPT !.mac_bundle = TRUE, !.sources = <<<<F("w", "m")>>>>, !.resources = <<en>>, !.headers = <<<<F("w", "h")>>>>]
  IN  <<One(<<gen, app, fw>>), One(<<gen, app, fw>>)>>

\* Tests that are run one by one, all together, and from another project.
Tests ==
  LET t1 == [T("t1", "executable") EXCEPT !.sources = <<<<F("s", "c")>>>>, !.run_as = TRUE]
      t2 == [T("t2", "executable") EXCEPT !.sources = <<<<F("s", "c")>>>>, !.run_as = TRUE, !.suppress_wildcard = TRUE]
      t3 == [T("t3", "executable") EXCEPT !.sources = <<<<F("u", "o")>>, <<F("s", "c")>>>>]
      suite == [T("suite", "none") EXCEPT !.file = "b", !.dependencies = <<1, 3>>, !.test_runner = TRUE]
      all == [T("All", "none") EXCEPT !.file = "b", !.dependencies = <<4>>]
  IN  <<Input([a |-> File(<<>>, "a", <<1, 2, 3>>), b |-> File(<<>>, "b", <<5, 4>>)], <<t1, t2, t3, suite, all>>)>>

-----------------------------------------------------------------------------
\* Inputs the generator has to refuse.
Wrong ==
  LET c(t) == <<One(<<t>>)>>
      lib == [T("x", "shared_library") EXCEPT !.configurations = <<"Debug", "Release">>, !.settings = [Debug |-> [MACH_O_TYPE |-> <<"mh_dylib">>]]]
      folder == [T("f", "none") EXCEPT !.copies = <<[destination |-> <<Part("p")>>, files |-> <<<<Part("w"), Slash>>>>],
                                                    [destination |-> <<Part("q")>>, files |-> <<<<Part("w"), Slash>>>>]>>]
  IN  {c([T("s", "executable") EXCEPT !.sources = <<<<F("m", "c")>>, <<F("m", "c")>>>>]),
       c([T("s", "executable") EXCEPT !.actions = <<Action("g", <<Mid("a", "c")>>), Action("g", <<Mid("b", "c")>>)>>]),
       c([T("s", "executable") EXCEPT !.libraries = <<<<Var("SDKROOT")>>>>]),
       <<One(<<T("s", "executable"), [T("t", "executable") EXCEPT !.product_name = "s"]>>)>>,
       <<One(<<[T("s", "executable") EXCEPT !.actions = <<Action("g", <<Mid("a", "c")>>)>>], T("s Support", "none")>>)>>,
       <<One(<<lib, [T("s", "executable") EXCEPT !.dependencies = <<1>>]>>)>>,
       c(folder),
       <<One(<<T("s", "executable"), [T("h", "executable") EXCEPT !.toolset = "host"]>>)>>,
       c([T("s", "static_library") EXCEPT !.mac_bundle = TRUE]),
       c([T("s", "none") EXCEPT !.mac_bundle = TRUE]),
       c([T("s", "none") EXCEPT !.libraries = <<Sdk("z")>>]),
       c([T("s", "none") EXCEPT !.actions = <<[Action("g", <<Mid("a", "png")>>) EXCEPT !.as_resources = TRUE]>>]),
       c([T("s", "none") EXCEPT !.copies = <<[destination |-> <<<<"HOME", "$$">>>>, files |-> <<<<F("a", "txt")>>>>]>>])}

Inputs == {Nested, Remote, Bundle, Tests} \union Wrong
Letters == <<"..", "Main", "a", "app", "b", "c", "d", "e", "en", "f", "fr", "g", "gen", "h", "i", "icns", "icon", "in", "k", "lib", "lproj", "m", "main", "n",
             "o", "other", "p", "plug", "q", "r", "s", "t", "u", "w", "win", "x", "xib", "y", "z">>
LibX == [libx |-> "x"]
=============================================================================
