------------------------------ MODULE TestMain ------------------------------
(***************************************************************************)
(* tools/test.py: Main.  The status files are read, the tests of every     *)
(* path and mode are listed and classified, those to skip are left out,    *)
(* and TestRunner runs the others; the way it ends is the exit status.     *)
(***************************************************************************)
EXTENDS TestRunner, TestStatus

CONSTANTS
  Suites,      \* name of a suite -> its tests: what Ls finds in its directory
  StatusFiles, \* the status files that may be there
  Commands     \* command lines: [mode |-> sequence of modes, paths |-> sequence of paths, arch, simulator]

VARIABLES
  phase,       \* "listed", "run", "exit"
  status,      \* the status file
  command,     \* options and arguments
  vms,         \* modes whose executable exists
  config,      \* sections and definitions
  all_cases,   \* every ClassifiedTest
  exit         \* what Main returns; 1 also for a traceback

mainVars == <<phase, status, command, vms, config, all_cases, exit>>
vars == <<runnerVars, mainVars>>

Running == -1

ARCH_GUESS == "x64"

\* ProcessOptions: a simulator sets the architecture, and must not contradict it.
ProcessOptions(cmd) ==
  /\ ToSet(cmd.mode) \subseteq {"debug", "release"}
  /\ cmd.simulator # "none" => cmd.arch \in {"none", cmd.simulator}

Arch(cmd) ==
  IF cmd.arch # "none" THEN cmd.arch ELSE IF cmd.simulator # "none" THEN cmd.simulator ELSE ARCH_GUESS

Env(mode, cmd) ==
  [mode |-> mode, system |-> "linux", arch |-> Arch(cmd), simulator |-> cmd.simulator]

\* LiteralTestSuite.ListTests and ListTests of the suites: the paths of the tests below `path`.
ListTests(path) ==
  FlatMapped(LAMBDA suite :
               IF path = <<>> \/ suite.name \in path[1]
               THEN SelectSeq(Mapped(LAMBDA t : <<suite.name, t>>, suite.tests),
                              LAMBDA t : PathContains(path, t))
               ELSE <<>>,
             Suites)

\* The tests of one path in one mode; a mode whose executable is missing is passed over.
Classified(conf, path, mode) ==
  LET tests == ListTests(path)
      c == ClassifyTests(conf, tests, Env(mode, command))
  IN  IF mode \notin vms THEN <<>>
      ELSE IF c = Raise THEN <<Raise>>
      ELSE Mapped(LAMBDA i : [k |-> "case", path |-> tests[i], mode |-> mode, outcomes |-> c.outcomes[i]],
                  [i \in DOMAIN tests |-> i])

DoSkip(case) == {"skip", "slow"} \intersect case.outcomes # {}

cases_to_run == SelectSeq(all_cases, LAMBDA c : ~DoSkip(c))

-----------------------------------------------------------------------------
(* Main up to RunTestCases: the status files are read, then the tests of every
   path and mode are listed and classified.  An exception ends it. *)
Init ==
  /\ status \in StatusFiles
  /\ command \in Commands
  /\ vms \in SUBSET ToSet(command.mode)  \* which executables exist
  /\ config = GetTestStatus(<<status.lines>>)
  /\ \E found \in {FlatMapped(LAMBDA p : FlatMapped(LAMBDA m : Classified(config, p, m), command.mode),
                             command.paths)} :
       IF ~ProcessOptions(command) \/ config.end = "raised" \/ Contains(found, Raise)
       THEN phase = "exit" /\ exit = 1 /\ all_cases = <<>>
       ELSE phase = "listed" /\ exit = Running /\ all_cases = found
  /\ RunnerInit

Exits(code) == phase' = "exit" /\ exit' = code

(* RunTestCases: a new ProgressIndicator.  What it was chosen from plays no part
   any more and is forgotten. *)
RunTestCases ==
  /\ phase = "listed"
  /\ config' = EmptyConfig /\ all_cases' = <<>> /\ vms' = {}
  /\ status' = CHOOSE s \in StatusFiles : TRUE
  /\ command' = CHOOSE c \in Commands : TRUE
  /\ LET run == cases_to_run
     IN  IF run = <<>>
         THEN Exits(0) /\ UNCHANGED runnerVars
         ELSE /\ StartRun(Len(run), [i \in 1..Len(run) |-> run[i].outcomes])
              /\ phase' = "run" /\ UNCHANGED exit

\* The threads run; the interpreter waits for them even after Main returned.
Run ==
  /\ phase \in {"run", "exit"}
  /\ RunNext
  /\ UNCHANGED mainVars

Return ==
  /\ phase = "run" /\ result # "running"
  /\ Exits(IF result = "ok" THEN 0 ELSE 1)
  /\ UNCHANGED <<runnerVars, status, command, vms, config, all_cases>>

Next == RunTestCases \/ Run \/ Return

Fairness ==
  /\ WF_vars(RunTestCases)
  /\ WF_vars(Return)
  /\ RunFairness

Spec == Init /\ [][Next]_vars
FairSpec == Spec /\ Fairness

-----------------------------------------------------------------------------
MainTypeOK ==
  /\ phase \in {"listed", "run", "exit"}
  /\ exit \in {Running, 0, 1}
  /\ \A i \in DOMAIN all_cases : all_cases[i].outcomes \subseteq Outcomes

(* The outcomes of every test are those its status file was written to mean:
   intent gives, for each mode, the outcomes of the tests the rule is for.
   Parsing, precedence, sections, definitions and prefixes all stand between. *)
StatusHonoured ==
  /\ MainTypeOK
  /\ phase = "listed" =>
       \A i \in DOMAIN all_cases :
         LET c == all_cases[i]
         IN  c.outcomes = IF c.path[2] \in status.names THEN status.intent[c.mode] ELSE {"pass"}

(* Main comes to an end even when a test hangs, and so do all of its threads,
   unless one of them died with the lock: then the others wait for ever. *)
MainEnds ==
  <>(LockOrphaned \/ (exit # Running /\ \A t \in Threads : pc[t] \in {"none", "returned", "dead"}))
=============================================================================
