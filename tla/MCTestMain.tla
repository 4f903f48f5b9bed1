----------------------------- MODULE MCTestMain -----------------------------
(* Model of TestMain for TLC: two suites, and status files each written with an
   intent the classification is compared to. *)
EXTENDS TestMain

MCSuites == <<[name |-> "simple", tests |-> <<"test-a", "test-b">>],
              [name |-> "message", tests |-> <<"test-m">>]>>
MCMessages == {2}

Debug == <<"$", "mode", "==", "debug">>
Release == <<"$", "mode", "==", "release">>
Pass == [debug |-> {"pass"}, release |-> {"pass"}]

\* Tokens of a value, and the outcomes meant in each mode.
Values == {
  [toks |-> <<"FAIL", "if">> \o Debug \o <<",", "PASS">>,
   means |-> [debug |-> {"pass", "fail"}, release |-> {"pass"}]],
  [toks |-> <<"(", "CRASH", ",", "timeout", ")", "if">> \o Debug \o <<",", "SKIP", "if">> \o Release,
   means |-> [debug |-> {"crash", "timeout"}, release |-> {"skip"}]],
  [toks |-> <<"flaky", "&&", "(", "FAIL", "||", "CRASH", ")">>,
   means |-> [debug |-> {"fail"}, release |-> {"fail"}]],
  [toks |-> <<"PASS", "FAIL">>, means |-> Pass],
  [toks |-> <<"(", "FAIL">>, means |-> Pass],
  [toks |-> <<"FAIL", "if">> \o Debug, means |-> [debug |-> {"fail"}, release |-> {"fail"}]]}

\* Tokens of a section's condition, and the modes it is meant for.
Conditions == {
  [toks |-> <<"true">>, means |-> {"debug", "release"}],
  [toks |-> Debug \o <<"&&", "$", "system", "==", "linux">>, means |-> {"debug"}],
  [toks |-> <<"$", "arch", "==", "mips", "||">> \o Release, means |-> {"release"}],
  [toks |-> <<"PASS">>, means |-> {}]}

FileFor(c, v) ==
  [names |-> {"test-a"},
   intent |-> [m \in {"debug", "release"} |-> IF m \in c.means THEN v.means[m] ELSE {"pass"}],
   lines |-> <<[t |-> "def", name |-> "flaky", toks |-> <<"PASS", ",", "FAIL">>],
               [t |-> "prefix", path |-> <<{"simple"}>>],
               [t |-> "header", toks |-> c.toks],
               [t |-> "rule", path |-> <<{"test-a"}>>, toks |-> v.toks]>>]

MCStatusFiles == {FileFor(c, v) : c \in Conditions, v \in Values}
                 \union {[names |-> {}, intent |-> Pass, lines |-> <<[t |-> "other"]>>]}

AllSuites == {"simple", "message"}
Command(mode, paths, arch, simulator) ==
  [mode |-> mode, paths |-> paths, arch |-> arch, simulator |-> simulator]
MCCommands == {
  Command(<<"debug">>, <<<<{"simple"}>>>>, "none", "none"),
  Command(<<"release">>, <<<<AllSuites, {"test-a", "test-m"}>>>>, "x64", "none"),
  Command(<<"debug", "release">>, <<<<{"simple"}, {"test-a"}>>>>, "none", "none"),
  Command(<<"debug">>, <<<<{"simple"}, {"test-a"}>>>>, "none", "arm"),
  Command(<<"debug">>, <<<<{"simple"}, {"test-a"}>>>>, "ia32", "arm")}

MCCodes == {0, -SIGABRT, -11}
=============================================================================
