----------------------------- MODULE TestRunner -----------------------------
(***************************************************************************)
(* tools/test.py: ProgressIndicator.Run and the threads that execute       *)
(* RunSingle, each taking a case off the queue, running its process until  *)
(* it exits or the deadline passes, and recording the result under a lock. *)
(*                                                                         *)
(* Thread 0 is the main thread.  What can go wrong in it is modelled too:  *)
(* Popen failing, a print failing while the lock is held, and Ctrl-C.      *)
(***************************************************************************)
EXTENDS Integers, Sequences, FiniteSets, SequencesExt

CONSTANTS
  MaxCases,   \* bound: cases run
  MaxTasks,   \* bound: the option -j
  Codes,      \* exit codes of a test that is not stopped by a signal of the runner
  Messages,   \* cases of test/message, judged by their output
  Writers,    \* cases that write to test/tmp
  Faults      \* which of "popen", "print", "interrupt" may happen

ASSUME BoundAssumption == MaxCases \in Nat /\ MaxTasks \in Nat
ASSUME CodeAssumption == Codes \subseteq Int
ASSUME FaultAssumption == Faults \subseteq {"popen", "print", "interrupt"}

VARIABLES
  cases,      \* the cases to run: a set of numbers
  expected,   \* case.outcomes, from the status files
  tasks,      \* options.j
  queue, terminate, lock, remaining, succeeded, failed, crashed,
  done,       \* TapProgressIndicator._done
  pc,         \* where each thread is in RunSingle
  test,       \* the case each thread works on
  proc,       \* the process of each case: "none", "running", "exited", "reaped"
  output,     \* the CommandOutput of each case
  temps,      \* number of temporary files
  tmpdir,     \* cases with files in test/tmp
  wrote,      \* history: cases whose process has written to test/tmp
  result      \* how Run ended: "running", "ok", "failed", "raised", "interrupted"

progress == <<remaining, succeeded, failed, crashed, done>>
process == <<proc, output, temps, tmpdir, wrote>>
setup == <<cases, expected, tasks>>
runnerVars == <<setup, queue, terminate, lock, progress, pc, test, process, result>>

Cases == 1..MaxCases
Threads == 0..(tasks - 1)
Main == 0
NoThread == -1
NoCase == 0

SIGABRT == 6
SIGTERM == 15

Outcomes == {"pass", "fail", "crash", "timeout", "okay", "skip", "slow"}
\* A CommandOutput; matches: does it match the patterns of the .out file?
Output(c, t, m) == [exit_code |-> c, timed_out |-> t, matches |-> m]

\* Before RunTestCases there are no threads.
RunnerInit ==
  /\ cases = {} /\ expected = [c \in Cases |-> {}]
  /\ tasks \in 1..MaxTasks
  /\ queue = <<>> /\ terminate = FALSE /\ lock = NoThread
  /\ remaining = 0 /\ succeeded = 0 /\ failed = <<>> /\ crashed = 0 /\ done = 0
  /\ pc = [t \in 0..(MaxTasks - 1) |-> "none"]
  /\ test = [t \in 0..(MaxTasks - 1) |-> NoCase]
  /\ proc = [c \in Cases |-> "none"]
  /\ output = [c \in Cases |-> Output(0, FALSE, FALSE)]
  /\ temps = 0 /\ tmpdir = {} /\ wrote = {}
  /\ result = "running"

\* ProgressIndicator.__init__, and Run: Starting and the threads, for n cases.
StartRun(n, outcomes) ==
  /\ cases = {} /\ n \in 1..MaxCases
  /\ cases' = 1..n
  /\ expected' = [c \in Cases |-> IF c <= n THEN outcomes[c] ELSE {}]
  /\ queue' = [i \in 1..n |-> i]
  /\ remaining' = n
  /\ pc' = [t \in DOMAIN pc |-> IF t \in Threads THEN "check" ELSE "none"]
  /\ UNCHANGED <<tasks, terminate, lock, succeeded, failed, crashed, done, test, process, result>>

-----------------------------------------------------------------------------
\* TestOutput: how the output of a case is judged.
IsFailureOutput(c, o) == IF c \in Messages THEN ~o.matches ELSE o.exit_code # 0

HasCrashed(o) == ~o.timed_out /\ o.exit_code < 0 /\ o.exit_code # -SIGABRT

Outcome(c, o) ==
  CASE HasCrashed(o) -> "crash"
    [] ~HasCrashed(o) /\ o.timed_out -> "timeout"
    [] ~HasCrashed(o) /\ ~o.timed_out /\ IsFailureOutput(c, o) -> "fail"
    [] OTHER -> "pass"

UnexpectedOutput(c) == Outcome(c, output[c]) \notin expected[c]

-----------------------------------------------------------------------------
Goto(t, label) == pc' = [pc EXCEPT ![t] = label]
At(t, label) == t \in Threads /\ pc[t] = label

(* A thread ends with an exception.  In the main thread Run sets terminate,
   unless it is KeyboardInterrupt, which is no Exception. *)
Dies(t, interrupted) ==
  /\ Goto(t, "dead")
  /\ terminate' = (terminate \/ (t = Main /\ ~interrupted))
  /\ result' = IF t # Main THEN result ELSE IF interrupted THEN "interrupted" ELSE "raised"

CheckTerminate(t) ==
  /\ At(t, "check")
  /\ Goto(t, IF terminate THEN "returned" ELSE "get")
  /\ UNCHANGED <<setup, queue, terminate, lock, progress, test, process, result>>

GetNowait(t) ==
  /\ At(t, "get")
  /\ IF queue = <<>>
     THEN Goto(t, "returned") /\ UNCHANGED <<queue, test>>
     ELSE Goto(t, "about") /\ queue' = Tail(queue) /\ test' = [test EXCEPT ![t] = Head(queue)]
  /\ UNCHANGED <<setup, terminate, lock, progress, process, result>>

\* lock.acquire(); AboutToRun(case); lock.release()
AboutToRun(t) ==
  /\ At(t, "about") /\ lock = NoThread
  /\ Goto(t, "spawn")
  /\ UNCHANGED <<setup, queue, terminate, lock, progress, test, process, result>>

\* AboutToRun or HasRun raises, with the lock held: nobody releases it.
PrintFails(t) ==
  /\ "print" \in Faults
  /\ \/ At(t, "about") /\ lock = NoThread
     \/ At(t, "report") /\ lock = t
  /\ lock' = t
  /\ Dies(t, FALSE)
  /\ UNCHANGED <<setup, queue, progress, test, process>>

-----------------------------------------------------------------------------
(* TestCase.Run: BeforeRun empties test/tmp, Execute makes two temporary
   files and RunProcess starts the process. *)
BeforeRun == tmpdir' = {}

Popen(t) ==
  /\ At(t, "spawn")
  /\ BeforeRun
  /\ temps' = temps + 2
  /\ proc' = [proc EXCEPT ![test[t]] = "running"]
  /\ Goto(t, "poll")
  /\ UNCHANGED <<setup, queue, terminate, lock, progress, test, output, wrote, result>>

(* Popen raises: the finally clause of Run evaluates `result`, which is not
   assigned, and UnboundLocalError takes the place of any IOError. *)
PopenFails(t) ==
  /\ "popen" \in Faults
  /\ At(t, "spawn")
  /\ BeforeRun
  /\ temps' = temps + 2
  /\ Dies(t, FALSE)
  /\ UNCHANGED <<setup, queue, lock, progress, test, proc, output, wrote>>

\* The test itself: it may write to test/tmp, and it exits.
TestWrites(c) ==
  /\ proc[c] = "running" /\ c \in Writers \ wrote
  /\ tmpdir' = tmpdir \union {c} /\ wrote' = wrote \union {c}
  /\ UNCHANGED <<setup, queue, terminate, lock, progress, pc, test, proc, output, temps, result>>

TestExits(c) ==
  /\ proc[c] = "running"
  /\ proc' = [proc EXCEPT ![c] = "exited"]
  /\ \E code \in Codes, m \in IF c \in Messages THEN BOOLEAN ELSE {FALSE} :
       output' = [output EXCEPT ![c] = Output(code, FALSE, m)]
  /\ UNCHANGED <<setup, queue, terminate, lock, progress, pc, test, temps, tmpdir, wrote, result>>

\* SIGTERM ends it, unless it has just exited by itself.
TestKilled(c) ==
  /\ proc[c] = "running" /\ \E t \in Threads : pc[t] = "wait" /\ test[t] = c
  /\ proc' = [proc EXCEPT ![c] = "exited"]
  /\ output' = [output EXCEPT ![c] = Output(-SIGTERM, FALSE, FALSE)]
  /\ UNCHANGED <<setup, queue, terminate, lock, progress, pc, test, temps, tmpdir, wrote, result>>

\* Mutant: the exit code poll() returns is not kept, and the loop goes on.
Poll_Forgets(t) ==
  /\ At(t, "poll") /\ proc[test[t]] = "exited"
  /\ proc' = [proc EXCEPT ![test[t]] = "reaped"]
  /\ UNCHANGED <<setup, queue, terminate, lock, progress, pc, test, output, temps, tmpdir, wrote, result>>

\* process.poll() finds the process ended, which also reaps it.
Poll(t) ==
  /\ At(t, "poll") /\ proc[test[t]] = "exited"
  /\ proc' = [proc EXCEPT ![test[t]] = "reaped"]
  /\ Goto(t, "executed")
  /\ UNCHANGED <<setup, queue, terminate, lock, progress, test, output, temps, tmpdir, wrote, result>>

\* Mutant: no end time.
Deadline_Never(t) == At(t, "none") /\ UNCHANGED runnerVars

\* The end time has passed: KillProcessWithID.
Deadline(t) ==
  /\ At(t, "poll")
  /\ Goto(t, "wait")
  /\ UNCHANGED <<setup, queue, terminate, lock, progress, test, process, result>>

\* process.wait()
Wait(t) ==
  /\ At(t, "wait") /\ proc[test[t]] = "exited"
  /\ proc' = [proc EXCEPT ![test[t]] = "reaped"]
  /\ output' = [output EXCEPT ![test[t]].timed_out = TRUE]
  /\ Goto(t, "executed")
  /\ UNCHANGED <<setup, queue, terminate, lock, progress, test, temps, tmpdir, wrote, result>>

\* The rest of Execute and of TestCase.Run: the temporary files go, AfterRun empties test/tmp.
Executed(t) ==
  /\ At(t, "executed")
  /\ temps' = temps - 2
  /\ tmpdir' = {}
  /\ Goto(t, "ran")
  /\ UNCHANGED <<setup, queue, terminate, lock, progress, test, proc, output, wrote, result>>

-----------------------------------------------------------------------------
\* if self.terminate: return
CheckAgain(t) ==
  /\ At(t, "ran")
  /\ Goto(t, IF terminate THEN "returned" ELSE "record")
  /\ UNCHANGED <<setup, queue, terminate, lock, progress, test, process, result>>

\* lock.acquire() and the counters.
Record(t) ==
  /\ At(t, "record") /\ lock = NoThread
  /\ lock' = t
  /\ LET c == test[t] IN
       IF UnexpectedOutput(c)
       THEN /\ failed' = Append(failed, c)
            /\ crashed' = crashed + IF HasCrashed(output[c]) THEN 1 ELSE 0
            /\ UNCHANGED succeeded
       ELSE succeeded' = succeeded + 1 /\ UNCHANGED <<failed, crashed>>
  /\ remaining' = remaining - 1
  /\ Goto(t, "report")
  /\ UNCHANGED <<setup, queue, terminate, done, test, process, result>>

\* HasRun(output); lock.release()
HasRun(t) ==
  /\ At(t, "report")
  /\ done' = done + 1
  /\ lock' = NoThread
  /\ test' = [test EXCEPT ![t] = NoCase]
  /\ Goto(t, "check")
  /\ UNCHANGED <<setup, queue, terminate, remaining, succeeded, failed, crashed, process, result>>

\* Mutant: Run does not wait for the other threads.
JoinAndReturn_NoJoin ==
  /\ At(Main, "returned") /\ result = "running"
  /\ result' = IF failed = <<>> THEN "ok" ELSE "failed"
  /\ UNCHANGED <<setup, queue, terminate, lock, progress, pc, test, process>>

\* Run joins the threads, calls Done and returns not self.failed.
JoinAndReturn ==
  /\ At(Main, "returned") /\ result = "running"
  /\ \A t \in Threads : pc[t] \in {"returned", "dead"}
  /\ result' = IF failed = <<>> THEN "ok" ELSE "failed"
  /\ UNCHANGED <<setup, queue, terminate, lock, progress, pc, test, process>>

(* Ctrl-C in the main thread.  Inside RunCommand the finally clause turns it
   into UnboundLocalError; elsewhere it stays KeyboardInterrupt. *)
Interrupt ==
  /\ "interrupt" \in Faults /\ result = "running" /\ pc[Main] \notin {"none", "dead"}
  /\ Dies(Main, pc[Main] \notin {"spawn", "poll", "wait", "executed"})
  /\ UNCHANGED <<setup, queue, lock, progress, test, process>>

RunSingle(t) ==
  \/ CheckTerminate(t) \/ GetNowait(t) \/ AboutToRun(t) \/ Popen(t) \/ Poll(t) \/ Deadline(t)
  \/ Wait(t) \/ Executed(t) \/ CheckAgain(t) \/ Record(t) \/ HasRun(t)

RunNext ==
  \/ \E t \in Threads : RunSingle(t) \/ PrintFails(t) \/ PopenFails(t)
  \/ \E c \in Cases : TestWrites(c) \/ TestExits(c) \/ TestKilled(c)
  \/ JoinAndReturn
  \/ Interrupt

\* The runner for any cases and any outcomes they are expected to have.
RunnerNext ==
  \/ \E n \in 1..MaxCases : \E outcomes \in [1..n -> SUBSET Outcomes] : StartRun(n, outcomes)
  \/ RunNext

RunnerSpec == RunnerInit /\ [][RunnerNext]_runnerVars

(* A thread that can go on does: it polls, and sees the deadline pass.  A
   process that was sent SIGTERM ends; one that was not need never exit. *)
RunFairness ==
  /\ \A t \in 0..(MaxTasks - 1) : WF_runnerVars(RunSingle(t))
  /\ \A c \in Cases : WF_runnerVars(TestKilled(c))
  /\ WF_runnerVars(JoinAndReturn)

-----------------------------------------------------------------------------
RunnerTypeOK ==
  /\ cases \subseteq Cases /\ tasks \in 1..MaxTasks
  /\ expected \in [Cases -> SUBSET Outcomes]
  /\ ToSet(queue) \subseteq cases /\ terminate \in BOOLEAN
  /\ lock \in Threads \union {NoThread}
  /\ remaining \in Nat /\ succeeded \in Nat /\ crashed \in Nat /\ done \in Nat
  /\ ToSet(failed) \subseteq cases
  /\ pc \in [0..(MaxTasks - 1) -> {"none", "check", "get", "about", "spawn", "poll", "wait", "executed",
                                   "ran", "record", "report", "returned", "dead"}]
  /\ test \in [0..(MaxTasks - 1) -> cases \union {NoCase}]
  /\ proc \in [Cases -> {"none", "running", "exited", "reaped"}]
  /\ \A c \in Cases : output[c].timed_out \in BOOLEAN /\ output[c].exit_code \in Codes \union {0, -SIGTERM}
  /\ temps \in Nat /\ tmpdir \subseteq cases /\ wrote \subseteq cases
  /\ result \in {"running", "ok", "failed", "raised", "interrupted"}

(* The lock keeps the counters together: whenever it is free every recorded
   case has been reported and counted once, and the ones that are not recorded
   are the ones remaining. *)
CountersAgree ==
  lock = NoThread =>
    /\ succeeded + Len(failed) + remaining = Cardinality(cases)
    /\ done = succeeded + Len(failed)
    /\ crashed <= Len(failed)

\* The case a thread took with it when it ended early.
Lost == {test[t] : t \in {s \in Threads : pc[s] = "dead"}}

(* Run returns success only when every case ran to an outcome its status file
   expects, but for the cases of threads that died: those are lost silently. *)
VerdictHolds ==
  result = "ok" =>
    \A c \in cases \ Lost : proc[c] = "reaped" /\ Outcome(c, output[c]) \in expected[c]

\* SIGTERM is only sent to a process that was not reaped: its pid cannot have been reused.
KillsOwnProcess ==
  \A t \in Threads : pc[t] = "wait" => proc[test[t]] \in {"running", "exited"}

\* Each execution under way owns two temporary files, and nothing else leaves any behind.
TempsAccounted ==
  (\A t \in Threads : pc[t] # "dead") =>
    temps = 2 * Cardinality({t \in Threads : pc[t] \in {"poll", "wait", "executed"}})

(* With -j1 nothing removes the files a running test has in test/tmp; with
   more tasks BeforeRun and AfterRun of the other cases do. *)
TmpIntact ==
  tasks = 1 => \A c \in cases : proc[c] = "running" /\ c \in wrote => c \in tmpdir

LockOrphaned == lock # NoThread /\ pc[lock] = "dead"

\* Success means that every case ran to an outcome that was expected, and the counters and
\* lists the verdict is made from agree whenever the lock is free; but for the cases
\* of threads that died.
VerdictSound == RunnerTypeOK /\ CountersAgree /\ VerdictHolds

\* A thread kills, removes and leaves behind only what is its own: processes, temporary
\* files and, with -j1, the directory test/tmp.
OwnsWhatItUses == KillsOwnProcess /\ TempsAccounted /\ TmpIntact
=============================================================================
