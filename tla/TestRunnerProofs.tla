-------------------------- MODULE TestRunnerProofs --------------------------
(***************************************************************************)
(* tools/test.py: the threads of ProgressIndicator.Run share out the cases *)
(* and count them, for any number of threads and cases, any exit codes and *)
(* any of the faults.                                                      *)
(*                                                                         *)
(* The invariant follows each case: it waits in the queue, one thread has  *)
(* it, or it was judged; a thread that dies or returns early keeps what it *)
(* had.  What was not recorded is counted by `remaining`, what has started *)
(* by the temporary files.                                                 *)
(***************************************************************************)
EXTENDS TestRunner, SequenceTheorems, FiniteSetTheorems, TLAPS

AllThreads == 0..(MaxTasks - 1)
Labels == {"none", "check", "get", "about", "spawn", "poll", "wait", "executed",
           "ran", "record", "report", "returned", "dead"}
Before == {"none", "check", "get"}
Unrecorded == {"about", "spawn", "poll", "wait", "executed", "ran", "record"}
Reaped == {"executed", "ran", "record", "report"}
Started == {"poll", "wait", "executed"}

\* Of the n cases the first m were taken, in order; the others wait.
Scheduled(n, m) ==
  /\ n \in 0..MaxCases /\ m \in 0..n /\ cases = 1..n
  /\ queue \in Seq(Nat) /\ Len(queue) = n - m /\ \A i \in 1..(n - m) : queue[i] = m + i

\* A thread between GetNowait and HasRun has a case, and no other has it.
Holding(m) ==
  /\ tasks \in 1..MaxTasks /\ pc \in [AllThreads -> Labels] /\ test \in [AllThreads -> 0..m]
  /\ \A t \in AllThreads : t \notin Threads => pc[t] = "none"
  /\ \A t \in AllThreads : pc[t] \in Before => test[t] = NoCase
  /\ \A t \in AllThreads : pc[t] \in Unrecorded \cup {"report"} => test[t] # NoCase
  /\ \A s, t \in AllThreads : test[s] = test[t] /\ test[s] # NoCase => s = t

\* terminate is set by the death of the main thread alone; as long as it is not, threads
\* return because the queue is empty.
Control(n) ==
  /\ terminate \in BOOLEAN /\ result \in {"running", "ok", "failed", "raised", "interrupted"}
  /\ terminate => pc[Main] = "dead"
  /\ pc[Main] = "dead" <=> result \in {"raised", "interrupted"}
  /\ result \in {"ok", "failed"} => \A t \in Threads : pc[t] \in {"returned", "dead"}
  /\ result = "ok" => failed = <<>>
  /\ ~terminate => \A t \in AllThreads : pc[t] = "returned" => test[t] = NoCase /\ queue = <<>>
  /\ n = 0 => \A t \in AllThreads : pc[t] = "none"

OutputType == [exit_code : Codes \cup {0, -SIGTERM}, timed_out : BOOLEAN, matches : BOOLEAN]

\* Where the process of a case is, by where its thread is.
Processes(m) ==
  /\ proc \in [Cases -> {"none", "running", "exited", "reaped"}]
  /\ output \in [Cases -> OutputType] /\ expected \in [Cases -> SUBSET Outcomes]
  /\ \A c \in Cases : c > m => proc[c] = "none"
  /\ \A t \in AllThreads : pc[t] \in {"about", "spawn"} => proc[test[t]] = "none"
  /\ \A t \in AllThreads : pc[t] \in {"poll", "wait"} => proc[test[t]] \in {"running", "exited"}
  /\ \A t \in AllThreads : pc[t] \in Reaped => proc[test[t]] = "reaped"
  /\ \A c \in Cases : proc[c] = "running" =>
       \E t \in Threads : test[t] = c /\ pc[t] \in {"poll", "wait", "dead"}

\* The case has run, and unless one has failed it went as expected.
Judged(c) == proc[c] = "reaped" /\ (failed = <<>> => Outcome(c, output[c]) \in expected[c])

\* Cases that were taken and that no thread has any more were judged.
Verdicts(m) ==
  /\ \A c \in 1..m : (\A t \in AllThreads : test[t] # c) => Judged(c)
  /\ \A t \in AllThreads : pc[t] = "report" => Judged(test[t])

\* Between Record and HasRun the lock is held, and done is one behind.
Counts(n) ==
  /\ succeeded \in Nat /\ crashed \in Nat /\ done \in Nat /\ remaining \in Nat
  /\ failed \in Seq(1..n) /\ succeeded + Len(failed) + remaining = n /\ crashed <= Len(failed)
  /\ lock \in Threads \cup {NoThread}
  /\ \A t \in AllThreads : pc[t] = "report" => lock = t
  /\ lock # NoThread => pc[lock] \in {"report", "dead"}
  /\ lock = NoThread => done = succeeded + Len(failed)
  /\ lock # NoThread /\ pc[lock] = "report" => done + 1 = succeeded + Len(failed)

\* Cases that may still be recorded.
Todo(n, m) ==
  {c \in 1..n : c > m \/ \E t \in AllThreads : test[t] = c /\ pc[t] \in Unrecorded}

Remain(n, m) == Cardinality(Todo(n, m)) <= remaining

Executing == {t \in Threads : pc[t] \in Started}

Temps ==
  /\ temps \in Nat /\ 2 * Cardinality(Executing) <= temps
  /\ (\A t \in Threads : pc[t] # "dead") => temps = 2 * Cardinality(Executing)

\* Only a process that was started has written.
Files(m) ==
  /\ tmpdir \subseteq 1..m /\ wrote \subseteq 1..m /\ TmpIntact
  /\ \A c \in wrote : proc[c] # "none"

Inv(n, m) ==
  /\ Scheduled(n, m) /\ Holding(m) /\ Control(n) /\ Processes(m) /\ Verdicts(m)
  /\ Counts(n) /\ Remain(n, m) /\ Temps /\ Files(m)

IInv == \E n, m \in Nat : Inv(n, m)

-----------------------------------------------------------------------------
\* A thread goes to a label, and the others stay.
LEMMA GotoFacts ==
  ASSUME NEW m, Holding(m), NEW t \in Threads, NEW l \in Labels, Goto(t, l)
  PROVE  /\ t \in AllThreads /\ pc' \in [AllThreads -> Labels] /\ pc'[t] = l
         /\ \A s \in AllThreads : s # t => pc'[s] = pc[s]
<1>1. tasks \in 1..MaxTasks /\ pc \in [AllThreads -> Labels]
  BY DEF Holding
<1>2. t \in AllThreads
  BY <1>1, BoundAssumption DEF Threads, AllThreads
<1>3. pc' = [pc EXCEPT ![t] = l]
  BY DEF Goto
<1> QED BY <1>1, <1>2, <1>3

\* Threads are numbered from 0, the main one, and are finitely many.
LEMMA MainIsThread ==
  ASSUME NEW m, Holding(m)
  PROVE  Main \in Threads /\ Main \in AllThreads /\ Threads \subseteq AllThreads
         /\ NoThread \notin AllThreads /\ IsFiniteSet(Threads)
<1>1. tasks \in 1..MaxTasks
  BY DEF Holding
<1>2. IsFiniteSet(0..(tasks - 1))
  BY <1>1, BoundAssumption, FS_Interval
<1> QED BY <1>1, <1>2, BoundAssumption DEF Main, Threads, AllThreads, NoThread

\* A thread goes to a label with the case it has.
LEMMA HoldingMoves ==
  ASSUME NEW m, Holding(m), NEW t \in Threads, NEW l \in Labels \ {"none"}, Goto(t, l),
         test' = test, tasks' = tasks,
         l \in Before => test[t] = NoCase,
         l \in Unrecorded \cup {"report"} => test[t] # NoCase
  PROVE  Holding(m)'
<1>1. /\ t \in AllThreads /\ pc' \in [AllThreads -> Labels] /\ pc'[t] = l
      /\ \A s \in AllThreads : s # t => pc'[s] = pc[s]
  BY GotoFacts
<1>2. Threads' = Threads
  BY DEF Threads
<1>3. /\ tasks \in 1..MaxTasks /\ test \in [AllThreads -> 0..m]
      /\ \A s \in AllThreads : s \notin Threads => pc[s] = "none"
      /\ \A s \in AllThreads : pc[s] \in Before => test[s] = NoCase
      /\ \A s \in AllThreads : pc[s] \in Unrecorded \cup {"report"} => test[s] # NoCase
      /\ \A r, s \in AllThreads : test[r] = test[s] /\ test[r] # NoCase => r = s
  BY DEF Holding
<1>4. \A s \in AllThreads : s \notin Threads => pc'[s] = "none"
  BY <1>1, <1>3
<1>5. \A s \in AllThreads : pc'[s] \in Before => test[s] = NoCase
  BY <1>1, <1>3
<1>6. \A s \in AllThreads : pc'[s] \in Unrecorded \cup {"report"} => test[s] # NoCase
  BY <1>1, <1>3
<1> QED BY <1>1, <1>2, <1>3, <1>4, <1>5, <1>6 DEF Holding

\* What may still be recorded grows fewer, unless a case is recorded.
LEMMA TodoFinite ==
  ASSUME NEW n \in Nat, NEW S, S \subseteq 1..n
  PROVE  IsFiniteSet(S) /\ Cardinality(S) \in Nat /\ Cardinality(S) <= n
<1>1. IsFiniteSet(1..n) /\ Cardinality(1..n) = n
  BY FS_Interval
<1> QED BY <1>1, FS_Subset, FS_CardinalityType

\* remaining still covers them when nothing is added.
LEMMA RemainKept ==
  ASSUME NEW n \in Nat, NEW m \in Nat, Remain(n, m), NEW k \in Nat, Todo(n, k)' \subseteq Todo(n, m),
         remaining' = remaining, remaining \in Nat
  PROVE  Remain(n, k)'
<1>1. Todo(n, m) \subseteq 1..n
  BY DEF Todo
<1>2. IsFiniteSet(Todo(n, m)) /\ Cardinality(Todo(n, m)) \in Nat
  BY <1>1, TodoFinite
<1>3. Cardinality(Todo(n, k)') <= Cardinality(Todo(n, m)) /\ Cardinality(Todo(n, k)') \in Nat
  BY <1>2, FS_Subset, FS_CardinalityType
<1>4. Cardinality(Todo(n, k)') <= remaining'
  BY <1>2, <1>3 DEF Remain
<1> QED BY <1>4 DEF Remain

\* A step that brings no thread among the unrecorded ones.
LEMMA TodoMoves ==
  ASSUME NEW n \in Nat, NEW m \in Nat, Holding(m), NEW t \in Threads, NEW l \in Labels, Goto(t, l), test' = test,
         l \in Unrecorded => pc[t] \in Unrecorded
  PROVE  Todo(n, m)' \subseteq Todo(n, m)
<1>1. /\ t \in AllThreads /\ pc'[t] = l
      /\ \A s \in AllThreads : s # t => pc'[s] = pc[s]
  BY GotoFacts
<1>2. \A s \in AllThreads : pc'[s] \in Unrecorded => pc[s] \in Unrecorded
  BY <1>1
<1> QED BY <1>2 DEF Todo

\* Temporary files: a step that neither starts nor ends an execution, and one that kills a thread.
LEMMA ExecutingFinite ==
  ASSUME NEW m, Holding(m)
  PROVE  IsFiniteSet(Executing) /\ Cardinality(Executing) \in Nat
<1>1. Executing \subseteq Threads /\ IsFiniteSet(Threads)
  BY MainIsThread DEF Executing
<1> QED BY <1>1, FS_Subset, FS_CardinalityType

\* A thread that starts or ends no execution.
LEMMA TempsMoves ==
  ASSUME NEW m, Holding(m), Temps, NEW t \in Threads, NEW l \in Labels \ {"dead"}, Goto(t, l),
         l \in Started <=> pc[t] \in Started, pc[t] # "dead", temps' = temps, tasks' = tasks
  PROVE  Temps'
<1>1. /\ t \in AllThreads /\ pc'[t] = l
      /\ \A s \in AllThreads : s # t => pc'[s] = pc[s]
  BY GotoFacts
<1>2. Threads' = Threads /\ Threads \subseteq AllThreads
  BY MainIsThread DEF Threads
<1>3. \A s \in Threads : /\ pc'[s] \in Started <=> pc[s] \in Started
                         /\ pc'[s] = "dead" <=> pc[s] = "dead"
  BY <1>1, <1>2
<1>4. Executing' = Executing
  BY <1>2, <1>3 DEF Executing
<1> QED BY <1>2, <1>3, <1>4 DEF Temps

\* A thread that dies leaves its files behind.
LEMMA TempsDies ==
  ASSUME NEW m, Holding(m), Temps, NEW t \in Threads, Goto(t, "dead"),
         temps' \in Nat, temps <= temps', tasks' = tasks
  PROVE  Temps'
<1>1. /\ t \in AllThreads /\ pc'[t] = "dead"
      /\ \A s \in AllThreads : s # t => pc'[s] = pc[s]
  BY GotoFacts DEF Labels
<1>2. Threads' = Threads /\ Threads \subseteq AllThreads
  BY MainIsThread DEF Threads
<1>3. Executing' \subseteq Executing
  BY <1>1, <1>2 DEF Executing, Started
<1>4. IsFiniteSet(Executing) /\ Cardinality(Executing) \in Nat
  BY ExecutingFinite
<1>5. Cardinality(Executing') \in Nat /\ Cardinality(Executing') <= Cardinality(Executing)
  BY <1>3, <1>4, FS_Subset, FS_CardinalityType
<1>6. temps \in Nat /\ 2 * Cardinality(Executing) <= temps
  BY DEF Temps
<1>7. 2 * Cardinality(Executing') <= temps'
  BY <1>4, <1>5, <1>6
<1>8. ~(\A s \in Threads' : pc'[s] # "dead")
  BY <1>1, <1>2
<1> QED BY <1>7, <1>8 DEF Temps

\* An execution starts, with two files.
LEMMA TempsStarts ==
  ASSUME NEW m, Holding(m), Temps, NEW t \in Threads, pc[t] = "spawn", Goto(t, "poll"),
         temps' = temps + 2, tasks' = tasks
  PROVE  Temps'
<1>1. /\ t \in AllThreads /\ pc'[t] = "poll"
      /\ \A s \in AllThreads : s # t => pc'[s] = pc[s]
  BY GotoFacts DEF Labels
<1>2. Threads' = Threads /\ Threads \subseteq AllThreads
  BY MainIsThread DEF Threads
<1>3. Executing' = Executing \cup {t} /\ t \notin Executing
  BY <1>1, <1>2 DEF Executing, Started
<1>4. IsFiniteSet(Executing) /\ Cardinality(Executing) \in Nat
  BY ExecutingFinite
<1>5. Cardinality(Executing') = Cardinality(Executing) + 1
  BY <1>3, <1>4, FS_AddElement
<1>6. \A s \in Threads : pc'[s] = "dead" <=> pc[s] = "dead"
  BY <1>1, <1>2
<1>7. temps \in Nat /\ 2 * Cardinality(Executing) <= temps
  BY DEF Temps
<1>8. temps' \in Nat /\ 2 * Cardinality(Executing') <= temps'
  BY <1>4, <1>5, <1>7
<1>9. (\A s \in Threads' : pc'[s] # "dead") => temps' = 2 * Cardinality(Executing')
  <2>1. (\A s \in Threads' : pc'[s] # "dead") => temps = 2 * Cardinality(Executing)
    BY <1>2, <1>6 DEF Temps
  <2> QED BY <1>4, <1>5, <2>1
<1> QED BY <1>8, <1>9 DEF Temps

\* An execution ends, and its two files are removed.
LEMMA TempsEnds ==
  ASSUME NEW m, Holding(m), Temps, NEW t \in Threads, pc[t] = "executed", Goto(t, "ran"),
         temps' = temps - 2, tasks' = tasks
  PROVE  Temps'
<1>1. /\ t \in AllThreads /\ pc'[t] = "ran"
      /\ \A s \in AllThreads : s # t => pc'[s] = pc[s]
  BY GotoFacts DEF Labels
<1>2. Threads' = Threads /\ Threads \subseteq AllThreads
  BY MainIsThread DEF Threads
<1>3. Executing' = Executing \ {t} /\ t \in Executing
  BY <1>1, <1>2 DEF Executing, Started
<1>4. IsFiniteSet(Executing) /\ Cardinality(Executing) \in Nat
  BY ExecutingFinite
<1>5. Cardinality(Executing') = Cardinality(Executing) - 1 /\ Cardinality(Executing') \in Nat
  BY <1>3, <1>4, FS_RemoveElement, FS_CardinalityType
<1>6. \A s \in Threads : pc'[s] = "dead" <=> pc[s] = "dead"
  BY <1>1, <1>2
<1>7. temps \in Nat /\ 2 * Cardinality(Executing) <= temps
  BY DEF Temps
<1>8. temps' \in Nat /\ 2 * Cardinality(Executing') <= temps'
  BY <1>4, <1>5, <1>7
<1>9. (\A s \in Threads' : pc'[s] # "dead") => temps' = 2 * Cardinality(Executing')
  <2>1. (\A s \in Threads' : pc'[s] # "dead") => temps = 2 * Cardinality(Executing)
    BY <1>2, <1>6 DEF Temps
  <2> QED BY <1>4, <1>5, <2>1
<1> QED BY <1>8, <1>9 DEF Temps

-----------------------------------------------------------------------------
\* A thread goes on, or dies.
LEMMA ControlMoves ==
  ASSUME NEW n, NEW m, Holding(m), Control(n), NEW t \in Threads, NEW l \in Labels \ {"none", "dead"},
         pc[t] \notin {"none", "returned", "dead"}, Goto(t, l),
         terminate' = terminate, result' = result, tasks' = tasks,
         queue' = queue \/ queue # <<>>,
         \A s \in AllThreads : s # t => test'[s] = test[s],
         l = "returned" => terminate \/ (test'[t] = NoCase /\ queue' = <<>>)
  PROVE  Control(n)'
<1>1. /\ t \in AllThreads /\ pc'[t] = l
      /\ \A s \in AllThreads : s # t => pc'[s] = pc[s]
  BY GotoFacts
<1>2. Threads' = Threads /\ Threads \subseteq AllThreads /\ Main \in AllThreads
  BY MainIsThread DEF Threads
<1>3. /\ terminate \in BOOLEAN /\ result \in {"running", "ok", "failed", "raised", "interrupted"}
      /\ terminate => pc[Main] = "dead"
      /\ pc[Main] = "dead" <=> result \in {"raised", "interrupted"}
      /\ n # 0 /\ result \notin {"ok", "failed"}
      /\ ~terminate => \A s \in AllThreads : pc[s] = "returned" => test[s] = NoCase /\ queue = <<>>
  BY <1>1 DEF Control
<1>4. pc'[Main] = "dead" <=> pc[Main] = "dead"
  BY <1>1, <1>2
<1>5. ASSUME ~terminate, NEW s \in AllThreads, pc'[s] = "returned"
      PROVE  test'[s] = NoCase /\ queue' = <<>>
  <2>1. CASE s = t
    BY <1>1, <1>5, <2>1
  <2>2. CASE s # t
    BY <1>1, <1>3, <1>5, <2>2
  <2> QED BY <2>1, <2>2
<1> QED BY <1>2, <1>3, <1>4, <1>5 DEF Control

\* A thread dies, the main one or another.
LEMMA ControlDies ==
  ASSUME NEW n, NEW m, Holding(m), Control(n), NEW t \in Threads, NEW b \in BOOLEAN,
         pc[t] # "none", Dies(t, b),
         tasks' = tasks, queue' = queue, test' = test, failed' = failed
  PROVE  Control(n)'
<1>1. /\ t \in AllThreads /\ pc'[t] = "dead"
      /\ \A s \in AllThreads : s # t => pc'[s] = pc[s]
  BY GotoFacts DEF Labels, Dies
<1>2. Threads' = Threads /\ Threads \subseteq AllThreads /\ Main \in AllThreads
  BY MainIsThread DEF Threads
<1>3. /\ terminate \in BOOLEAN /\ result \in {"running", "ok", "failed", "raised", "interrupted"}
      /\ terminate => pc[Main] = "dead"
      /\ pc[Main] = "dead" <=> result \in {"raised", "interrupted"}
      /\ result \in {"ok", "failed"} => \A s \in Threads : pc[s] \in {"returned", "dead"}
      /\ result = "ok" => failed = <<>>
      /\ n # 0
      /\ ~terminate => \A s \in AllThreads : pc[s] = "returned" => test[s] = NoCase /\ queue = <<>>
  BY <1>1 DEF Control
<1>4. /\ terminate' = (terminate \/ (t = Main /\ ~b))
      /\ result' = IF t # Main THEN result ELSE IF b THEN "interrupted" ELSE "raised"
  BY DEF Dies
<1>5. terminate' \in BOOLEAN /\ result' \in {"running", "ok", "failed", "raised", "interrupted"}
  BY <1>3, <1>4
<1>6. terminate' => pc'[Main] = "dead"
  BY <1>1, <1>2, <1>3, <1>4
<1>7. pc'[Main] = "dead" <=> result' \in {"raised", "interrupted"}
  BY <1>1, <1>2, <1>3, <1>4
<1>8. result' \in {"ok", "failed"} => \A s \in Threads : pc'[s] \in {"returned", "dead"}
  BY <1>1, <1>2, <1>3, <1>4
<1>9. result' = "ok" => failed = <<>>
  BY <1>3, <1>4
<1>10. ~terminate' => \A s \in AllThreads : pc'[s] = "returned" => test[s] = NoCase /\ queue = <<>>
  BY <1>1, <1>3, <1>4
<1> QED BY <1>2, <1>3, <1>5, <1>6, <1>7, <1>8, <1>9, <1>10 DEF Control

-----------------------------------------------------------------------------
\* The processes stay as they are, and thread t goes on, with its case or with another.
LEMMA ProcessesKept ==
  ASSUME NEW m \in Nat, Holding(m), Processes(m), NEW t \in Threads, NEW l \in Labels, Goto(t, l),
         NEW k \in Nat, m <= k, tasks' = tasks,
         \A s \in AllThreads : s # t => test'[s] = test[s],
         proc' = proc, output' = output, expected' = expected,
         l \in {"about", "spawn"} => proc[test'[t]] = "none",
         l \in {"poll", "wait"} => proc[test'[t]] \in {"running", "exited"},
         l \in Reaped => proc[test'[t]] = "reaped",
         \/ pc[t] \notin {"poll", "wait", "dead"}
         \/ test'[t] = test[t] /\ (l \in {"poll", "wait", "dead"} \/ proc[test[t]] # "running")
  PROVE  Processes(k)'
<1>1. /\ t \in AllThreads /\ pc'[t] = l
      /\ \A s \in AllThreads : s # t => pc'[s] = pc[s]
  BY GotoFacts
<1>2. Threads' = Threads /\ Threads \subseteq AllThreads /\ Cases' = Cases
  BY MainIsThread DEF Threads, Cases
<1>3. /\ proc \in [Cases -> {"none", "running", "exited", "reaped"}]
      /\ output \in [Cases -> OutputType] /\ expected \in [Cases -> SUBSET Outcomes]
      /\ \A c \in Cases : c > m => proc[c] = "none"
      /\ \A s \in AllThreads : pc[s] \in {"about", "spawn"} => proc[test[s]] = "none"
      /\ \A s \in AllThreads : pc[s] \in {"poll", "wait"} => proc[test[s]] \in {"running", "exited"}
      /\ \A s \in AllThreads : pc[s] \in Reaped => proc[test[s]] = "reaped"
      /\ \A c \in Cases : proc[c] = "running" =>
           \E s \in Threads : test[s] = c /\ pc[s] \in {"poll", "wait", "dead"}
  BY DEF Processes
<1>4. \A c \in Cases : c > k => proc[c] = "none"
  BY <1>3 DEF Cases
<1>5. \A s \in AllThreads : pc'[s] \in {"about", "spawn"} => proc[test'[s]] = "none"
  BY <1>1, <1>3
<1>6. \A s \in AllThreads : pc'[s] \in {"poll", "wait"} => proc[test'[s]] \in {"running", "exited"}
  BY <1>1, <1>3
<1>7. \A s \in AllThreads : pc'[s] \in Reaped => proc[test'[s]] = "reaped"
  BY <1>1, <1>3
<1>8. ASSUME NEW c \in Cases, proc[c] = "running"
      PROVE  \E s \in Threads : test'[s] = c /\ pc'[s] \in {"poll", "wait", "dead"}
  <2>1. PICK s \in Threads : test[s] = c /\ pc[s] \in {"poll", "wait", "dead"}
    BY <1>3, <1>8
  <2>2. CASE s = t
    BY <1>1, <1>8, <2>1, <2>2
  <2>3. CASE s # t
    BY <1>1, <1>2, <2>1, <2>3
  <2> QED BY <2>2, <2>3
<1> QED BY <1>2, <1>3, <1>4, <1>5, <1>6, <1>7, <1>8 DEF Processes

\* The process of the case that thread t has is started, ends or is reaped.
LEMMA ProcessesSet ==
  ASSUME NEW m \in Nat, Holding(m), Processes(m), NEW t \in AllThreads, NEW c \in Cases, c = test[t],
         c <= m, tasks' = tasks, test' = test, expected' = expected, output' \in [Cases -> OutputType],
         pc' \in [AllThreads -> Labels], \A s \in AllThreads : s # t => pc'[s] = pc[s],
         NEW v \in {"running", "exited", "reaped"}, proc' = [proc EXCEPT ![c] = v],
         pc'[t] \notin {"about", "spawn"},
         pc'[t] \in {"poll", "wait"} => v \in {"running", "exited"},
         pc'[t] \in Reaped => v = "reaped",
         v = "running" => pc'[t] \in {"poll", "wait", "dead"} /\ t \in Threads
  PROVE  Processes(m)'
<1>1. c # NoCase
  BY BoundAssumption DEF Cases, NoCase
<1>2. \A s \in AllThreads : s # t => test[s] # c
  BY <1>1 DEF Holding
<1>3. Threads' = Threads /\ Threads \subseteq AllThreads /\ Cases' = Cases
  BY MainIsThread DEF Threads, Cases
<1>4. /\ proc \in [Cases -> {"none", "running", "exited", "reaped"}]
      /\ expected \in [Cases -> SUBSET Outcomes]
      /\ \A d \in Cases : d > m => proc[d] = "none"
      /\ \A s \in AllThreads : pc[s] \in {"about", "spawn"} => proc[test[s]] = "none"
      /\ \A s \in AllThreads : pc[s] \in {"poll", "wait"} => proc[test[s]] \in {"running", "exited"}
      /\ \A s \in AllThreads : pc[s] \in Reaped => proc[test[s]] = "reaped"
      /\ \A d \in Cases : proc[d] = "running" =>
           \E s \in Threads : test[s] = d /\ pc[s] \in {"poll", "wait", "dead"}
  BY DEF Processes
<1>5. /\ proc' \in [Cases -> {"none", "running", "exited", "reaped"}]
      /\ proc'[c] = v
  BY <1>4
<1>6. \A d : d # c => proc'[d] = proc[d]
  BY <1>4
<1>7. \A d \in Cases : d > m => proc'[d] = "none"
  BY <1>4, <1>6 DEF Cases
<1>8. \A s \in AllThreads : pc'[s] \in {"about", "spawn"} => proc'[test[s]] = "none"
  BY <1>2, <1>4, <1>6
<1>9. \A s \in AllThreads : pc'[s] \in {"poll", "wait"} => proc'[test[s]] \in {"running", "exited"}
  BY <1>2, <1>4, <1>5, <1>6
<1>10. \A s \in AllThreads : pc'[s] \in Reaped => proc'[test[s]] = "reaped"
  BY <1>2, <1>4, <1>5, <1>6
<1>11. ASSUME NEW d \in Cases, proc'[d] = "running"
       PROVE  \E s \in Threads : test[s] = d /\ pc'[s] \in {"poll", "wait", "dead"}
  <2>1. CASE d = c
    BY <1>5, <1>11, <2>1
  <2>2. CASE d # c
    <3>1. PICK s \in Threads : test[s] = d /\ pc[s] \in {"poll", "wait", "dead"}
      BY <1>4, <1>6, <1>11, <2>2
    <3>2. s # t /\ s \in AllThreads
      BY <1>3, <2>2, <3>1
    <3> QED BY <3>1, <3>2
  <2> QED BY <2>1, <2>2
<1> QED BY <1>3, <1>4, <1>5, <1>7, <1>8, <1>9, <1>10, <1>11 DEF Processes

\* What is judged stays so while thread t works on its case.
LEMMA VerdictsKept ==
  ASSUME NEW m \in Nat, Holding(m), Verdicts(m), NEW t \in AllThreads,
         \A s \in AllThreads : s # t => pc'[s] = pc[s], pc'[t] # "report",
         test' = test, expected' = expected, failed' = failed,
         \A d \in Nat : d # test[t] => proc'[d] = proc[d] /\ output'[d] = output[d],
         test[t] = NoCase => proc' = proc /\ output' = output
  PROVE  Verdicts(m)'
<1>1. test \in [AllThreads -> 0..m] /\ \A s \in AllThreads : test[s] \in Nat
  BY DEF Holding
<1>2. ASSUME NEW d \in Nat, d # test[t], Judged(d)
      PROVE  Judged(d)'
  BY <1>2 DEF Judged, Outcome, IsFailureOutput, HasCrashed
<1>3. ASSUME NEW c \in 1..m, \A s \in AllThreads : test[s] # c
      PROVE  Judged(c)'
  BY <1>2, <1>3 DEF Verdicts
<1>4. ASSUME NEW s \in AllThreads, pc'[s] = "report"
      PROVE  Judged(test[s])'
  <2>1. s # t /\ pc[s] = "report"
    BY <1>4
  <2>2. test[s] # NoCase /\ test[s] # test[t]
    BY <2>1 DEF Holding
  <2>3. Judged(test[s])
    BY <2>1 DEF Verdicts
  <2>4. PICK d \in Nat : d = test[s]
    BY <1>1
  <2>5. Judged(d)'
    BY <1>2, <2>2, <2>3, <2>4
  <2> QED BY <2>4, <2>5
<1> QED BY <1>3, <1>4 DEF Verdicts

\* The counters and the lock stay as they are.
LEMMA CountsMoves ==
  ASSUME NEW n, NEW m, Holding(m), Counts(n), NEW t \in Threads, NEW l \in Labels \ {"report"},
         pc[t] \notin {"report", "dead"}, Goto(t, l), tasks' = tasks, lock' = lock,
         succeeded' = succeeded, crashed' = crashed, done' = done, remaining' = remaining, failed' = failed
  PROVE  Counts(n)'
<1>1. /\ t \in AllThreads /\ pc'[t] = l
      /\ \A s \in AllThreads : s # t => pc'[s] = pc[s]
  BY GotoFacts
<1>2. Threads' = Threads /\ Threads \subseteq AllThreads
  BY MainIsThread DEF Threads
<1>3. lock # t /\ lock \in Threads \cup {NoThread}
  BY <1>1, MainIsThread DEF Counts
<1>4. lock # NoThread => pc'[lock] = pc[lock]
  BY <1>1, <1>2, <1>3
<1>5. \A s \in AllThreads : pc'[s] = "report" => lock = s
  BY <1>1 DEF Counts
<1> QED BY <1>2, <1>3, <1>4, <1>5 DEF Counts

\* test/tmp stays as it is, and nothing is started.
LEMMA FilesKept ==
  ASSUME NEW m \in Nat, Files(m), NEW k \in Nat, m <= k, tmpdir' = tmpdir, wrote' = wrote,
         \A c \in Nat : /\ proc'[c] = "running" => proc[c] = "running"
                        /\ proc[c] # "none" => proc'[c] # "none",
         cases \subseteq Nat, cases' = cases, tasks' = tasks
  PROVE  Files(k)'
<1>1. tmpdir \subseteq 1..k /\ wrote \subseteq 1..k /\ wrote \subseteq Nat
  BY DEF Files
<1>2. \A c \in wrote : proc'[c] # "none"
  BY <1>1 DEF Files
<1>3. TmpIntact'
  BY DEF Files, TmpIntact
<1> QED BY <1>1, <1>2, <1>3 DEF Files

\* test/tmp is emptied: with one thread, where that has nothing running, nothing is lost.
LEMMA FilesEmptied ==
  ASSUME NEW m \in Nat, Holding(m), Processes(m), Files(m), NEW t \in Threads, NEW k \in Nat, m <= k,
         pc[t] \notin {"poll", "wait", "dead"}, tmpdir' = {}, wrote' = wrote,
         \A c \in Nat : /\ proc'[c] = "running" => proc[c] = "running" \/ c \notin wrote
                        /\ proc[c] # "none" => proc'[c] # "none",
         cases \subseteq Cases, cases' = cases, tasks' = tasks
  PROVE  Files(k)'
<1>1. wrote \subseteq 1..k /\ wrote \subseteq Nat
  BY DEF Files
<1>2. \A c \in wrote : proc'[c] # "none"
  BY <1>1 DEF Files
<1>3. ASSUME tasks = 1, NEW c \in cases, proc'[c] = "running", c \in wrote
      PROVE  FALSE
  <2>1. proc[c] = "running" /\ c \in Cases
    BY <1>1, <1>3
  <2>2. PICK s \in Threads : pc[s] \in {"poll", "wait", "dead"}
    BY <2>1 DEF Processes
  <2>3. s = t
    BY <1>3 DEF Threads
  <2> QED BY <2>2, <2>3
<1>4. TmpIntact'
  BY <1>3 DEF TmpIntact
<1>5. tmpdir' \subseteq 1..k
  OBVIOUS
<1> QED BY <1>1, <1>2, <1>4, <1>5 DEF Files

-----------------------------------------------------------------------------
\* The parts of the invariant, and what they say of the numbers.
LEMMA Parts ==
  ASSUME NEW n, NEW m, Inv(n, m)
  PROVE  /\ n \in Nat /\ m \in Nat /\ m <= n /\ n <= MaxCases /\ cases = 1..n /\ cases \subseteq Cases
         /\ cases \subseteq Nat /\ remaining \in Nat
         /\ Scheduled(n, m) /\ Holding(m) /\ Control(n) /\ Processes(m) /\ Verdicts(m)
         /\ Counts(n) /\ Remain(n, m) /\ Temps /\ Files(m)
<1>1. /\ Scheduled(n, m) /\ Holding(m) /\ Control(n) /\ Processes(m) /\ Verdicts(m)
      /\ Counts(n) /\ Remain(n, m) /\ Temps /\ Files(m)
  BY DEF Inv
<1>2. n \in 0..MaxCases /\ m \in 0..n /\ cases = 1..n
  BY <1>1 DEF Scheduled
<1>3. remaining \in Nat
  BY <1>1 DEF Counts
<1> QED BY <1>1, <1>2, <1>3, BoundAssumption DEF Cases

\* The queue stays as it is.
LEMMA ScheduledKept ==
  ASSUME NEW n, NEW m, Scheduled(n, m), cases' = cases, queue' = queue
  PROVE  Scheduled(n, m)'
BY DEF Scheduled

\* Labels a thread goes to without touching anything else.
LEMMA MovesKeeps ==
  ASSUME NEW n, NEW m, Inv(n, m), NEW t \in Threads, NEW l \in Labels \ {"none", "dead", "report"},
         pc[t] \notin {"none", "returned", "dead", "report"}, Goto(t, l),
         UNCHANGED <<setup, queue, terminate, lock, progress, test, process, result>>,
         l \in Before => test[t] = NoCase,
         l \in Unrecorded => test[t] # NoCase /\ pc[t] \in Unrecorded,
         l \in Started <=> pc[t] \in Started,
         l = "returned" => terminate \/ (test[t] = NoCase /\ queue = <<>>),
         l \in {"about", "spawn"} => proc[test[t]] = "none",
         l \in {"poll", "wait"} => proc[test[t]] \in {"running", "exited"},
         l \in Reaped => proc[test[t]] = "reaped",
         pc[t] \in {"poll", "wait"} => l \in {"poll", "wait"}
  PROVE  Inv(n, m)'
<1>1. /\ n \in Nat /\ m \in Nat /\ cases \subseteq Nat /\ remaining \in Nat
      /\ Scheduled(n, m) /\ Holding(m) /\ Control(n) /\ Processes(m) /\ Verdicts(m)
      /\ Counts(n) /\ Remain(n, m) /\ Temps /\ Files(m)
  BY Parts
<1>2. /\ cases' = cases /\ expected' = expected /\ tasks' = tasks /\ queue' = queue
      /\ terminate' = terminate /\ lock' = lock /\ test' = test /\ result' = result
      /\ remaining' = remaining /\ succeeded' = succeeded /\ failed' = failed
      /\ crashed' = crashed /\ done' = done
      /\ proc' = proc /\ output' = output /\ temps' = temps /\ tmpdir' = tmpdir /\ wrote' = wrote
  BY DEF setup, progress, process
<1>3. /\ t \in AllThreads /\ pc'[t] = l
      /\ \A s \in AllThreads : s # t => pc'[s] = pc[s]
  BY <1>1, GotoFacts
<1>4. Scheduled(n, m)'
  BY <1>1, <1>2, ScheduledKept
<1>5. Holding(m)'
  BY <1>1, <1>2, HoldingMoves
<1>6. Control(n)'
  BY <1>1, <1>2, ControlMoves
<1>7. Processes(m)'
  BY <1>1, <1>2, ProcessesKept
<1>8. Verdicts(m)'
  BY <1>1, <1>2, <1>3, VerdictsKept
<1>9. Counts(n)'
  BY <1>1, <1>2, CountsMoves
<1>10. Remain(n, m)'
  <2>1. Todo(n, m)' \subseteq Todo(n, m)
    BY <1>1, <1>2, TodoMoves
  <2> QED BY <1>1, <1>2, <2>1, RemainKept
<1>11. Temps'
  BY <1>1, <1>2, TempsMoves
<1>12. Files(m)'
  BY <1>1, <1>2, FilesKept
<1> QED BY <1>4, <1>5, <1>6, <1>7, <1>8, <1>9, <1>10, <1>11, <1>12 DEF Inv

\* CheckTerminate, AboutToRun, Deadline, CheckAgain, and GetNowait on an empty queue.
LEMMA GoesOnKeeps ==
  ASSUME NEW n, NEW m, Inv(n, m), NEW t \in Threads,
         \/ CheckTerminate(t) \/ AboutToRun(t) \/ Deadline(t) \/ CheckAgain(t)
         \/ queue = <<>> /\ GetNowait(t)
  PROVE  Inv(n, m)'
<1>1. Holding(m) /\ Processes(m) /\ Control(n)
  BY Parts
<1>2. t \in AllThreads
  BY <1>1, MainIsThread
<1>3. /\ pc[t] \in Before => test[t] = NoCase
      /\ pc[t] \in Unrecorded => test[t] # NoCase
  BY <1>1, <1>2 DEF Holding
<1>4. /\ pc[t] \in {"about", "spawn"} => proc[test[t]] = "none"
      /\ pc[t] \in {"poll", "wait"} => proc[test[t]] \in {"running", "exited"}
      /\ pc[t] \in Reaped => proc[test[t]] = "reaped"
  BY <1>1, <1>2 DEF Processes
<1>5. CASE CheckTerminate(t)
  <2>1. /\ pc[t] = "check" /\ Goto(t, IF terminate THEN "returned" ELSE "get")
        /\ UNCHANGED <<setup, queue, terminate, lock, progress, test, process, result>>
    BY <1>5 DEF CheckTerminate, At
  <2>2. CASE terminate
    <3>1. Goto(t, "returned")
      BY <2>1, <2>2
    <3> QED BY <1>3, <2>1, <2>2, <3>1, MovesKeeps DEF Labels, Before, Unrecorded, Started, Reaped
  <2>3. CASE ~terminate
    <3>1. Goto(t, "get")
      BY <2>1, <2>3
    <3> QED BY <1>3, <2>1, <2>3, <3>1, MovesKeeps DEF Labels, Before, Unrecorded, Started, Reaped
  <2> QED BY <2>2, <2>3
<1>6. CASE AboutToRun(t)
  <2>1. /\ pc[t] = "about" /\ Goto(t, "spawn")
        /\ UNCHANGED <<setup, queue, terminate, lock, progress, test, process, result>>
    BY <1>6 DEF AboutToRun, At
  <2> QED BY <1>3, <1>4, <2>1, MovesKeeps DEF Labels, Before, Unrecorded, Started, Reaped
<1>7. CASE Deadline(t)
  <2>1. /\ pc[t] = "poll" /\ Goto(t, "wait")
        /\ UNCHANGED <<setup, queue, terminate, lock, progress, test, process, result>>
    BY <1>7 DEF Deadline, At
  <2> QED BY <1>3, <1>4, <2>1, MovesKeeps DEF Labels, Before, Unrecorded, Started, Reaped
<1>8. CASE CheckAgain(t)
  <2>1. /\ pc[t] = "ran" /\ Goto(t, IF terminate THEN "returned" ELSE "record")
        /\ UNCHANGED <<setup, queue, terminate, lock, progress, test, process, result>>
    BY <1>8 DEF CheckAgain, At
  <2>2. CASE terminate
    <3>1. Goto(t, "returned")
      BY <2>1, <2>2
    <3> QED BY <1>3, <1>4, <2>1, <2>2, <3>1, MovesKeeps DEF Labels, Before, Unrecorded, Started, Reaped
  <2>3. CASE ~terminate
    <3>1. Goto(t, "record")
      BY <2>1, <2>3
    <3> QED BY <1>3, <1>4, <2>1, <2>3, <3>1, MovesKeeps DEF Labels, Before, Unrecorded, Started, Reaped
  <2> QED BY <2>2, <2>3
<1>9. CASE queue = <<>> /\ GetNowait(t)
  <2>1. /\ pc[t] = "get" /\ Goto(t, "returned")
        /\ UNCHANGED <<setup, queue, terminate, lock, progress, test, process, result>>
    BY <1>9 DEF GetNowait, At
  <2> QED BY <1>3, <1>4, <1>9, <2>1, MovesKeeps DEF Labels, Before, Unrecorded, Started, Reaped
<1> QED BY <1>5, <1>6, <1>7, <1>8, <1>9

\* A thread takes the next case: nobody had it.
LEMMA GetNowaitKeeps ==
  ASSUME NEW n, NEW m, Inv(n, m), NEW t \in Threads, queue # <<>>, GetNowait(t)
  PROVE  Inv(n, m + 1)'
<1>1. /\ n \in Nat /\ m \in Nat /\ m <= n /\ n <= MaxCases /\ cases = 1..n /\ cases \subseteq Cases
      /\ cases \subseteq Nat /\ remaining \in Nat
      /\ Scheduled(n, m) /\ Holding(m) /\ Control(n) /\ Processes(m) /\ Verdicts(m)
      /\ Counts(n) /\ Remain(n, m) /\ Temps /\ Files(m)
  BY Parts
<1>2. /\ cases' = cases /\ expected' = expected /\ tasks' = tasks
      /\ terminate' = terminate /\ lock' = lock /\ result' = result
      /\ remaining' = remaining /\ succeeded' = succeeded /\ failed' = failed
      /\ crashed' = crashed /\ done' = done
      /\ proc' = proc /\ output' = output /\ temps' = temps /\ tmpdir' = tmpdir /\ wrote' = wrote
  BY DEF GetNowait, setup, progress, process
<1>3. pc[t] = "get" /\ Goto(t, "about") /\ queue' = Tail(queue) /\ test' = [test EXCEPT ![t] = Head(queue)]
  BY DEF GetNowait, At
<1>4. /\ t \in AllThreads /\ pc' \in [AllThreads -> Labels] /\ pc'[t] = "about"
      /\ \A s \in AllThreads : s # t => pc'[s] = pc[s]
  BY <1>1, <1>3, GotoFacts DEF Labels
<1>5. /\ queue \in Seq(Nat) /\ Len(queue) = n - m /\ \A i \in 1..(n - m) : queue[i] = m + i
  BY <1>1 DEF Scheduled
<1>6. Len(queue) # 0
  BY <1>5, EmptySeq
<1>7. m + 1 <= n /\ m + 1 \in Nat /\ m + 1 \in Cases
  BY <1>1, <1>5, <1>6 DEF Cases
<1>8. Head(queue) = m + 1
  BY <1>5, <1>7
<1>9. /\ test \in [AllThreads -> 0..m]
      /\ \A s \in AllThreads : s \notin Threads => pc[s] = "none"
      /\ \A s \in AllThreads : pc[s] \in Before => test[s] = NoCase
      /\ \A s \in AllThreads : pc[s] \in Unrecorded \cup {"report"} => test[s] # NoCase
      /\ \A r, s \in AllThreads : test[r] = test[s] /\ test[r] # NoCase => r = s
  BY <1>1 DEF Holding
<1>10. /\ test'[t] = m + 1 /\ \A s \in AllThreads : s # t => test'[s] = test[s]
  BY <1>3, <1>4, <1>8, <1>9
<1>11. test' \in [AllThreads -> 0..(m + 1)] /\ \A s \in AllThreads : test[s] # m + 1
  BY <1>1, <1>3, <1>4, <1>8, <1>9
<1>12. Scheduled(n, m + 1)'
  <2>1. /\ Tail(queue) \in Seq(Nat) /\ Len(Tail(queue)) = n - (m + 1)
        /\ \A i \in 1..(n - (m + 1)) : Tail(queue)[i] = queue[i + 1]
    BY <1>1, <1>5, <1>6, HeadTailProperties
  <2>2. \A i \in 1..(n - (m + 1)) : Tail(queue)[i] = (m + 1) + i
    BY <1>1, <1>5, <2>1
  <2> QED BY <1>1, <1>2, <1>3, <1>7, <2>1, <2>2 DEF Scheduled
<1>13. Holding(m + 1)'
  <2>1. Threads' = Threads /\ tasks' \in 1..MaxTasks
    BY <1>1, <1>2 DEF Threads, Holding
  <2>2. \A s \in AllThreads : s \notin Threads => pc'[s] = "none"
    BY <1>4, <1>9
  <2>3. \A s \in AllThreads : pc'[s] \in Before => test'[s] = NoCase
    BY <1>4, <1>9, <1>10 DEF Before
  <2>4. \A s \in AllThreads : pc'[s] \in Unrecorded \cup {"report"} => test'[s] # NoCase
    BY <1>1, <1>4, <1>9, <1>10 DEF NoCase
  <2>5. \A r, s \in AllThreads : test'[r] = test'[s] /\ test'[r] # NoCase => r = s
    BY <1>9, <1>10, <1>11
  <2> QED BY <1>4, <1>11, <2>1, <2>2, <2>3, <2>4, <2>5 DEF Holding
<1>14. Control(n)'
  BY <1>1, <1>2, <1>3, <1>10, ControlMoves DEF Labels
<1>15. Processes(m + 1)'
  <2>1. proc[m + 1] = "none"
    BY <1>1, <1>7 DEF Processes
  <2> QED BY <1>1, <1>2, <1>3, <1>7, <1>10, <2>1, ProcessesKept DEF Labels, Reaped
<1>16. Verdicts(m + 1)'
  <2>1. \A c \in Nat : Judged(c)' <=> Judged(c)
    BY <1>2 DEF Judged, Outcome, IsFailureOutput, HasCrashed
  <2>2. ASSUME NEW c \in 1..(m + 1), \A s \in AllThreads : test'[s] # c
        PROVE  Judged(c)'
    <3>1. c # m + 1
      BY <1>4, <1>10, <2>2
    <3>2. c \in 1..m /\ c \in Nat /\ c # NoCase
      BY <1>1, <3>1 DEF NoCase
    <3>3. test[t] = NoCase
      BY <1>3, <1>4, <1>9 DEF Before
    <3>4. \A s \in AllThreads : test[s] # c
      BY <1>10, <2>2, <3>2, <3>3
    <3> QED BY <1>1, <2>1, <3>2, <3>4 DEF Verdicts
  <2>3. ASSUME NEW s \in AllThreads, pc'[s] = "report"
        PROVE  Judged(test[s])'
    <3>1. s # t
      BY <1>4, <2>3
    <3>2. pc[s] = "report" /\ test'[s] = test[s]
      BY <1>4, <1>10, <2>3, <3>1
    <3>3. PICK d \in Nat : d = test[s]
      BY <1>1, <1>9
    <3>4. Judged(d)
      BY <1>1, <3>2, <3>3 DEF Verdicts
    <3>5. Judged(d)'
      BY <2>1, <3>4
    <3> QED BY <3>2, <3>3, <3>5
  <2> QED BY <2>2, <2>3 DEF Verdicts
<1>17. Counts(n)'
  BY <1>1, <1>2, <1>3, CountsMoves DEF Labels
<1>18. Remain(n, m + 1)'
  <2>1. Todo(n, m + 1)' \subseteq Todo(n, m)
    <3>1. SUFFICES ASSUME NEW c \in 1..n,
                          c > m + 1 \/ \E s \in AllThreads : test'[s] = c /\ pc'[s] \in Unrecorded
                   PROVE  c > m \/ \E s \in AllThreads : test[s] = c /\ pc[s] \in Unrecorded
      BY DEF Todo
    <3>2. CASE c > m + 1
      BY <1>1, <3>2
    <3>3. ASSUME NEW s \in AllThreads, test'[s] = c, pc'[s] \in Unrecorded
          PROVE  c > m \/ \E r \in AllThreads : test[r] = c /\ pc[r] \in Unrecorded
      BY <1>1, <1>4, <1>10, <3>3
    <3> QED BY <3>1, <3>2, <3>3
  <2> QED BY <1>1, <1>2, <1>7, <2>1, RemainKept
<1>19. Temps'
  BY <1>1, <1>2, <1>3, TempsMoves DEF Labels, Started
<1>20. Files(m + 1)'
  BY <1>1, <1>2, <1>7, FilesKept
<1> QED BY <1>12, <1>13, <1>14, <1>15, <1>16, <1>17, <1>18, <1>19, <1>20 DEF Inv

\* A thread dies, wherever it is, with or without the lock, and with its case.
LeftBehind(t) ==
  /\ lock' = lock \/ (lock' = t /\ lock \in {NoThread, t})
  /\ tmpdir' = tmpdir \/ (tmpdir' = {} /\ pc[t] = "spawn")

Died(t) == \E b \in BOOLEAN : Dies(t, b)

\* A thread ends with an exception.
LEMMA DiesKeeps ==
  ASSUME NEW n, NEW m, Inv(n, m), NEW t \in Threads, pc[t] \notin {"none", "dead"},
         Died(t), UNCHANGED <<setup, queue, progress, test, proc, output, wrote>>,
         LeftBehind(t), temps' \in Nat, temps <= temps'
  PROVE  Inv(n, m)'
<1>1. /\ n \in Nat /\ m \in Nat /\ cases \subseteq Nat /\ cases \subseteq Cases /\ remaining \in Nat
      /\ Scheduled(n, m) /\ Holding(m) /\ Control(n) /\ Processes(m) /\ Verdicts(m)
      /\ Counts(n) /\ Remain(n, m) /\ Temps /\ Files(m)
  BY Parts
<1>2. /\ cases' = cases /\ expected' = expected /\ tasks' = tasks /\ queue' = queue /\ test' = test
      /\ remaining' = remaining /\ succeeded' = succeeded /\ failed' = failed
      /\ crashed' = crashed /\ done' = done
      /\ proc' = proc /\ output' = output /\ wrote' = wrote
  BY DEF setup, progress
<1>3. Goto(t, "dead") /\ "dead" \in Labels
  BY DEF Died, Dies, Labels
<1>4. /\ t \in AllThreads /\ pc'[t] = "dead"
      /\ \A s \in AllThreads : s # t => pc'[s] = pc[s]
  BY <1>1, <1>3, GotoFacts
<1>5. Scheduled(n, m)'
  BY <1>1, <1>2, ScheduledKept
<1>6. Holding(m)'
  BY <1>1, <1>2, <1>3, HoldingMoves DEF Before, Unrecorded
<1>7. Control(n)'
  <2>1. PICK b \in BOOLEAN : Dies(t, b)
    BY DEF Died
  <2> QED BY <1>1, <1>2, <2>1, ControlDies
<1>8. Processes(m)'
  BY <1>1, <1>2, <1>3, ProcessesKept DEF Reaped
<1>9. Verdicts(m)'
  BY <1>1, <1>2, <1>4, VerdictsKept
<1>10. Counts(n)'
  <2>0. lock' = lock \/ (lock' = t /\ lock \in {NoThread, t})
    BY DEF LeftBehind
  <2>1. Threads' = Threads /\ Threads \subseteq AllThreads /\ NoThread \notin AllThreads
    BY <1>1, <1>2, MainIsThread DEF Threads
  <2>2. /\ lock \in Threads \cup {NoThread}
        /\ \A s \in AllThreads : pc[s] = "report" => lock = s
        /\ lock # NoThread => pc[lock] \in {"report", "dead"}
        /\ lock = NoThread => done = succeeded + Len(failed)
        /\ lock # NoThread /\ pc[lock] = "report" => done + 1 = succeeded + Len(failed)
    BY <1>1 DEF Counts
  <2>3. \A s \in AllThreads : pc'[s] = "report" => s # t /\ pc[s] = "report" /\ lock = s
    BY <1>4, <2>2
  <2>4. \A s \in AllThreads : pc'[s] = "report" => lock' = s
    BY <2>0, <2>1, <2>3
  <2>5. lock' \in Threads \cup {NoThread} /\ (lock' = NoThread => lock = NoThread)
    BY <2>0, <2>1, <2>2
  <2>6. lock' # NoThread => pc'[lock'] \in {"report", "dead"}
    BY <1>4, <2>0, <2>1, <2>2, <2>5
  <2>7. lock' # NoThread /\ pc'[lock'] = "report" => done + 1 = succeeded + Len(failed)
    BY <1>4, <2>0, <2>1, <2>2, <2>5
  <2> QED BY <1>1, <1>2, <2>1, <2>2, <2>4, <2>5, <2>6, <2>7 DEF Counts
<1>11. Remain(n, m)'
  <2>1. Todo(n, m)' \subseteq Todo(n, m)
    BY <1>1, <1>2, <1>3, TodoMoves DEF Unrecorded
  <2> QED BY <1>1, <1>2, <2>1, RemainKept
<1>12. Temps'
  BY <1>1, <1>2, <1>3, TempsDies
<1>13. Files(m)'
  <2>1. CASE tmpdir' = tmpdir
    BY <1>1, <1>2, <2>1, FilesKept
  <2>2. CASE tmpdir' = {} /\ pc[t] = "spawn"
    BY <1>1, <1>2, <2>2, FilesEmptied
  <2> QED BY <2>1, <2>2 DEF LeftBehind
<1> QED BY <1>5, <1>6, <1>7, <1>8, <1>9, <1>10, <1>11, <1>12, <1>13 DEF Inv

\* PrintFails, PopenFails and Interrupt.
LEMMA FaultsKeep ==
  ASSUME NEW n, NEW m, Inv(n, m), (\E t \in Threads : PrintFails(t) \/ PopenFails(t)) \/ Interrupt
  PROVE  Inv(n, m)'
<1>1. Holding(m) /\ Temps /\ temps \in Nat
  BY Parts DEF Temps
<1>2. ASSUME NEW t \in Threads, PrintFails(t) PROVE Inv(n, m)'
  <2>1. /\ pc[t] \in {"about", "report"} /\ lock' = t /\ (lock = NoThread \/ lock = t)
        /\ Dies(t, FALSE) /\ UNCHANGED <<setup, queue, progress, test, process>>
    BY <1>2 DEF PrintFails, At
  <2>2. /\ UNCHANGED <<setup, queue, progress, test, proc, output, wrote>>
        /\ temps' = temps /\ tmpdir' = tmpdir
    BY <2>1 DEF process
  <2>3. Died(t)
    BY <2>1 DEF Died
  <2>4. temps' \in Nat /\ temps <= temps'
    BY <1>1, <2>2
  <2>5. LeftBehind(t)
    BY <2>1, <2>2 DEF LeftBehind
  <2> QED BY <2>1, <2>2, <2>3, <2>4, <2>5, DiesKeeps
<1>3. ASSUME NEW t \in Threads, PopenFails(t) PROVE Inv(n, m)'
  <2>1. /\ pc[t] = "spawn" /\ tmpdir' = {} /\ temps' = temps + 2 /\ Dies(t, FALSE) /\ lock' = lock
        /\ UNCHANGED <<setup, queue, progress, test, proc, output, wrote>>
    BY <1>3 DEF PopenFails, At, BeforeRun
  <2>2. temps' \in Nat /\ temps <= temps'
    BY <1>1, <2>1
  <2>3. Died(t)
    BY <2>1 DEF Died
  <2>4. LeftBehind(t)
    BY <2>1 DEF LeftBehind
  <2> QED BY <2>1, <2>2, <2>3, <2>4, DiesKeeps
<1>4. ASSUME Interrupt PROVE Inv(n, m)'
  <2> DEFINE b == pc[Main] \notin {"spawn", "poll", "wait", "executed"}
  <2>1. /\ pc[Main] \notin {"none", "dead"} /\ Dies(Main, b) /\ lock' = lock
        /\ UNCHANGED <<setup, queue, progress, test, process>>
    BY <1>4 DEF Interrupt
  <2>2. b \in BOOLEAN /\ Main \in Threads
    BY <1>1, MainIsThread
  <2> HIDE DEF b
  <2>3. /\ UNCHANGED <<setup, queue, progress, test, proc, output, wrote>>
        /\ temps' = temps /\ tmpdir' = tmpdir
    BY <2>1 DEF process
  <2>4. Died(Main)
    BY <2>1, <2>2 DEF Died
  <2>5. temps' \in Nat /\ temps <= temps'
    BY <1>1, <2>3
  <2>6. LeftBehind(Main)
    BY <2>1, <2>3 DEF LeftBehind
  <2> QED BY <2>1, <2>2, <2>3, <2>4, <2>5, <2>6, DiesKeeps
<1> QED BY <1>2, <1>3, <1>4

-----------------------------------------------------------------------------
\* The case of a thread that runs one.
LEMMA HeldCase ==
  ASSUME NEW n, NEW m, Inv(n, m), NEW t \in AllThreads, pc[t] \in Unrecorded \cup {"report"}
  PROVE  test[t] \in 1..m /\ test[t] \in Cases /\ test[t] \in Nat /\ test[t] # NoCase
<1>1. n \in Nat /\ m \in Nat /\ m <= n /\ n <= MaxCases /\ Holding(m)
  BY Parts
<1>2. test[t] \in 0..m /\ test[t] # NoCase
  BY <1>1 DEF Holding
<1> QED BY <1>1, <1>2, BoundAssumption DEF Cases, NoCase

\* The process of the thread's case is started or reaped.
LEMMA ProcessStepKeeps ==
  ASSUME NEW n, NEW m, Inv(n, m), NEW t \in Threads,
         \/ Popen(t) \/ Poll(t) \/ Wait(t)
  PROVE  Inv(n, m)'
<1>1. /\ n \in Nat /\ m \in Nat /\ cases \subseteq Nat /\ cases \subseteq Cases /\ remaining \in Nat
      /\ Scheduled(n, m) /\ Holding(m) /\ Control(n) /\ Processes(m) /\ Verdicts(m)
      /\ Counts(n) /\ Remain(n, m) /\ Temps /\ Files(m)
  BY Parts
<1>2. /\ cases' = cases /\ expected' = expected /\ tasks' = tasks /\ queue' = queue
      /\ terminate' = terminate /\ lock' = lock /\ test' = test /\ result' = result
      /\ remaining' = remaining /\ succeeded' = succeeded /\ failed' = failed
      /\ crashed' = crashed /\ done' = done /\ wrote' = wrote
  BY DEF Popen, Poll, Wait, setup, progress
<1> DEFINE c == test[t]
<1>3. PICK l \in {"poll", "executed"}, v \in {"running", "reaped"} :
        /\ Goto(t, l) /\ proc' = [proc EXCEPT ![c] = v]
        /\ \/ /\ l = "poll" /\ v = "running" /\ pc[t] = "spawn"
              /\ tmpdir' = {} /\ temps' = temps + 2 /\ output' = output
           \/ /\ l = "executed" /\ v = "reaped" /\ pc[t] \in {"poll", "wait"}
              /\ tmpdir' = tmpdir /\ temps' = temps
              /\ output' = output \/ output' = [output EXCEPT ![c].timed_out = TRUE]
  <2>1. CASE Popen(t)
    BY <2>1 DEF Popen, At, BeforeRun
  <2>2. CASE Poll(t)
    BY <2>2 DEF Poll, At
  <2>3. CASE Wait(t)
    BY <2>3 DEF Wait, At
  <2> QED BY <2>1, <2>2, <2>3
<1>4. /\ t \in AllThreads /\ pc' \in [AllThreads -> Labels] /\ pc'[t] = l
      /\ \A s \in AllThreads : s # t => pc'[s] = pc[s]
  BY <1>1, <1>3, GotoFacts DEF Labels
<1>5. pc[t] \in Unrecorded
  BY <1>3 DEF Unrecorded
<1>6. c \in 1..m /\ c \in Cases /\ c \in Nat /\ c # NoCase
  BY <1>4, <1>5, HeldCase
<1>7. /\ proc \in [Cases -> {"none", "running", "exited", "reaped"}] /\ output \in [Cases -> OutputType]
  BY <1>1 DEF Processes
<1>8. output' \in [Cases -> OutputType] /\ \A d \in Nat : d # c => output'[d] = output[d]
  <2>1. CASE output' = output
    BY <1>7, <2>1
  <2>2. CASE output' = [output EXCEPT ![c].timed_out = TRUE]
    <3> DEFINE o == [output[c] EXCEPT !.timed_out = TRUE]
    <3>1. o \in OutputType
      BY <1>6, <1>7 DEF OutputType
    <3>2. output' = [output EXCEPT ![c] = o]
      BY <2>2
    <3> HIDE DEF o
    <3> QED BY <1>6, <1>7, <3>1, <3>2
  <2> QED BY <1>3, <2>1, <2>2
<1>9. /\ \A d \in Nat : d # c => proc'[d] = proc[d]
      /\ proc'[c] = v
  BY <1>3, <1>6, <1>7
<1>10. Scheduled(n, m)'
  BY <1>1, <1>2, ScheduledKept
<1>11. Holding(m)'
  BY <1>1, <1>2, <1>3, <1>6, HoldingMoves DEF Labels, Before
<1>12. Control(n)'
  BY <1>1, <1>2, <1>3, ControlMoves DEF Labels
<1>13. Processes(m)'
  <2>1. c <= m
    BY <1>1, <1>6
  <2> QED BY <1>1, <1>2, <1>3, <1>4, <1>6, <1>8, <2>1, ProcessesSet DEF Reaped
<1>14. Verdicts(m)'
  BY <1>1, <1>2, <1>3, <1>4, <1>6, <1>8, <1>9, VerdictsKept
<1>15. Counts(n)'
  BY <1>1, <1>2, <1>3, CountsMoves DEF Labels
<1>16. Remain(n, m)'
  <2>1. Todo(n, m)' \subseteq Todo(n, m)
    BY <1>1, <1>2, <1>3, <1>5, TodoMoves DEF Labels
  <2> QED BY <1>1, <1>2, <2>1, RemainKept
<1>17. Temps'
  <2>1. CASE l = "poll"
    BY <1>1, <1>2, <1>3, <2>1, TempsStarts
  <2>2. CASE l = "executed"
    BY <1>1, <1>2, <1>3, <2>2, TempsMoves DEF Labels, Started
  <2> QED BY <2>1, <2>2
<1>18. Files(m)'
  <2>1. CASE l = "poll"
    <3>1. pc[t] = "spawn" /\ tmpdir' = {}
      BY <1>3, <2>1
    <3>2. proc[c] = "none"
      BY <1>1, <1>4, <3>1 DEF Processes
    <3>3. c \notin wrote
      BY <1>1, <3>2 DEF Files
    <3>4. \A d \in Nat : /\ proc'[d] = "running" => proc[d] = "running" \/ d \notin wrote
                         /\ proc[d] # "none" => proc'[d] # "none"
      BY <1>9, <3>2, <3>3
    <3> QED BY <1>1, <1>2, <3>1, <3>4, FilesEmptied
  <2>2. CASE l = "executed"
    <3>1. tmpdir' = tmpdir /\ v = "reaped"
      BY <1>3, <2>2
    <3>2. \A d \in Nat : /\ proc'[d] = "running" => proc[d] = "running"
                         /\ proc[d] # "none" => proc'[d] # "none"
      BY <1>9, <3>1
    <3> QED BY <1>1, <1>2, <3>1, <3>2, FilesKept
  <2> QED BY <2>1, <2>2
<1> QED BY <1>10, <1>11, <1>12, <1>13, <1>14, <1>15, <1>16, <1>17, <1>18 DEF Inv

\* The process of a case writes, exits or is killed: its thread waits for it, or died.
LEMMA TestKeeps ==
  ASSUME NEW n, NEW m, Inv(n, m), NEW c \in Cases, TestWrites(c) \/ TestExits(c) \/ TestKilled(c)
  PROVE  Inv(n, m)'
<1>1. /\ n \in Nat /\ m \in Nat /\ m <= n /\ n <= MaxCases /\ cases = 1..n
      /\ cases \subseteq Nat /\ cases \subseteq Cases /\ remaining \in Nat
      /\ Scheduled(n, m) /\ Holding(m) /\ Control(n) /\ Processes(m) /\ Verdicts(m)
      /\ Counts(n) /\ Remain(n, m) /\ Temps /\ Files(m)
  BY Parts
<1>2. /\ cases' = cases /\ expected' = expected /\ tasks' = tasks /\ queue' = queue
      /\ terminate' = terminate /\ lock' = lock /\ test' = test /\ result' = result /\ pc' = pc
      /\ remaining' = remaining /\ succeeded' = succeeded /\ failed' = failed
      /\ crashed' = crashed /\ done' = done /\ temps' = temps
  BY DEF TestWrites, TestExits, TestKilled, setup, progress
<1>3. /\ proc \in [Cases -> {"none", "running", "exited", "reaped"}] /\ output \in [Cases -> OutputType]
      /\ pc \in [AllThreads -> Labels]
  BY <1>1 DEF Processes, Holding
<1>4. proc[c] = "running" /\ c \in Nat
  <2>1. proc[c] = "running"
    BY DEF TestWrites, TestExits, TestKilled
  <2>2. c \in Nat
    BY BoundAssumption DEF Cases
  <2> QED BY <2>1, <2>2
<1>5. PICK t \in Threads : test[t] = c /\ pc[t] \in {"poll", "wait", "dead"}
  BY <1>1, <1>4 DEF Processes
<1>6. t \in AllThreads /\ c <= m /\ c \in 1..m
  <2>1. t \in AllThreads
    BY <1>1, MainIsThread
  <2>2. c <= m
    BY <1>1, <1>4 DEF Processes
  <2> QED BY <1>1, <2>1, <2>2 DEF Cases
<1>7. Threads' = Threads /\ Executing' = Executing /\ Todo(n, m)' = Todo(n, m)
  BY <1>2 DEF Threads, Executing, Todo
<1>8. Scheduled(n, m)' /\ Holding(m)' /\ Control(n)' /\ Counts(n)' /\ Temps'
  BY <1>1, <1>2, <1>7 DEF Scheduled, Holding, Control, Counts, Temps
<1>9. Remain(n, m)'
  BY <1>1, <1>2, <1>7 DEF Remain
<1>10. CASE TestWrites(c)
  <2>1. /\ proc' = proc /\ output' = output
        /\ tmpdir' = tmpdir \union {c} /\ wrote' = wrote \union {c}
    BY <1>10 DEF TestWrites
  <2>2. Processes(m)'
    BY <1>1, <1>2, <1>7, <2>1 DEF Processes
  <2>3. Verdicts(m)'
    BY <1>1, <1>2, <1>6, <2>1, <1>5, VerdictsKept
  <2>4. TmpIntact'
    BY <1>1, <1>2, <2>1 DEF Files, TmpIntact
  <2>5. Files(m)'
    BY <1>1, <1>4, <1>6, <2>1, <2>4 DEF Files
  <2> QED BY <1>8, <1>9, <2>2, <2>3, <2>5 DEF Inv
<1>11. CASE TestExits(c) \/ TestKilled(c)
  <2>1. proc' = [proc EXCEPT ![c] = "exited"] /\ tmpdir' = tmpdir /\ wrote' = wrote
    BY <1>11 DEF TestExits, TestKilled
  <2>2. PICK o \in OutputType : output' = [output EXCEPT ![c] = o]
    <3>1. ASSUME NEW code \in Codes \cup {0, -SIGTERM}, NEW b \in BOOLEAN,
                 output' = [output EXCEPT ![c] = Output(code, FALSE, b)]
          PROVE  \E o \in OutputType : output' = [output EXCEPT ![c] = o]
      <4>1. Output(code, FALSE, b) \in OutputType
        BY DEF Output, OutputType
      <4> QED BY <3>1, <4>1
    <3>2. CASE TestExits(c)
      <4>1. PICK code \in Codes, b \in IF c \in Messages THEN BOOLEAN ELSE {FALSE} :
              output' = [output EXCEPT ![c] = Output(code, FALSE, b)]
        BY <3>2 DEF TestExits
      <4>2. b \in BOOLEAN
        OBVIOUS
      <4> QED BY <3>1, <4>1, <4>2
    <3>3. CASE TestKilled(c)
      <4>1. output' = [output EXCEPT ![c] = Output(-SIGTERM, FALSE, FALSE)]
        BY <3>3 DEF TestKilled
      <4> QED BY <3>1, <4>1
    <3> QED BY <1>11, <3>2, <3>3
  <2>3. output' \in [Cases -> OutputType] /\ \A d \in Nat : d # c => output'[d] = output[d]
    BY <1>3, <2>2
  <2>4. proc'[c] = "exited" /\ \A d \in Nat : d # c => proc'[d] = proc[d]
    BY <1>3, <2>1
  <2>5. Processes(m)'
    BY <1>1, <1>2, <1>3, <1>5, <1>6, <2>1, <2>3, ProcessesSet DEF Reaped
  <2>6. Verdicts(m)'
    <3>1. test[t] # NoCase
      BY <1>5, <1>6 DEF NoCase
    <3> QED BY <1>1, <1>2, <1>5, <1>6, <2>3, <2>4, <3>1, VerdictsKept
  <2>7. Files(m)'
    <3>1. \A d \in Nat : /\ proc'[d] = "running" => proc[d] = "running"
                         /\ proc[d] # "none" => proc'[d] # "none"
      BY <2>4
    <3> QED BY <1>1, <1>2, <2>1, <3>1, FilesKept
  <2> QED BY <1>8, <1>9, <2>5, <2>6, <2>7 DEF Inv
<1> QED BY <1>10, <1>11

\* The files of an execution go.
LEMMA ExecutedKeeps ==
  ASSUME NEW n, NEW m, Inv(n, m), NEW t \in Threads, Executed(t)
  PROVE  Inv(n, m)'
<1>1. /\ n \in Nat /\ m \in Nat /\ cases \subseteq Nat /\ cases \subseteq Cases /\ remaining \in Nat
      /\ Scheduled(n, m) /\ Holding(m) /\ Control(n) /\ Processes(m) /\ Verdicts(m)
      /\ Counts(n) /\ Remain(n, m) /\ Temps /\ Files(m)
  BY Parts
<1>2. /\ cases' = cases /\ expected' = expected /\ tasks' = tasks /\ queue' = queue
      /\ terminate' = terminate /\ lock' = lock /\ test' = test /\ result' = result
      /\ remaining' = remaining /\ succeeded' = succeeded /\ failed' = failed
      /\ crashed' = crashed /\ done' = done
      /\ proc' = proc /\ output' = output /\ wrote' = wrote /\ tmpdir' = {} /\ temps' = temps - 2
  BY DEF Executed, setup, progress
<1>3. pc[t] = "executed" /\ Goto(t, "ran")
  BY DEF Executed, At
<1>4. /\ t \in AllThreads /\ pc'[t] = "ran"
      /\ \A s \in AllThreads : s # t => pc'[s] = pc[s]
  BY <1>1, <1>3, GotoFacts DEF Labels
<1>5. test[t] # NoCase
  BY <1>3, <1>4, HeldCase DEF Unrecorded
<1>6. proc[test[t]] = "reaped"
  BY <1>1, <1>3, <1>4 DEF Processes, Reaped
<1>7. Scheduled(n, m)'
  BY <1>1, <1>2, ScheduledKept
<1>8. Holding(m)'
  BY <1>1, <1>2, <1>3, <1>5, HoldingMoves DEF Labels, Before
<1>9. Control(n)'
  BY <1>1, <1>2, <1>3, ControlMoves DEF Labels
<1>10. Processes(m)'
  BY <1>1, <1>2, <1>3, <1>6, ProcessesKept DEF Labels
<1>11. Verdicts(m)'
  BY <1>1, <1>2, <1>4, VerdictsKept
<1>12. Counts(n)'
  BY <1>1, <1>2, <1>3, CountsMoves DEF Labels
<1>13. Remain(n, m)'
  <2>1. Todo(n, m)' \subseteq Todo(n, m)
    BY <1>1, <1>2, <1>3, TodoMoves DEF Labels, Unrecorded
  <2> QED BY <1>1, <1>2, <2>1, RemainKept
<1>14. Temps'
  BY <1>1, <1>2, <1>3, TempsEnds
<1>15. Files(m)'
  BY <1>1, <1>2, <1>3, FilesEmptied
<1> QED BY <1>7, <1>8, <1>9, <1>10, <1>11, <1>12, <1>13, <1>14, <1>15 DEF Inv

-----------------------------------------------------------------------------
\* What was judged stays judged: failed only grows, and a case that fails makes it grow.
LEMMA RecordKeeps ==
  ASSUME NEW n, NEW m, Inv(n, m), NEW t \in Threads, Record(t)
  PROVE  Inv(n, m)'
<1>1. /\ n \in Nat /\ m \in Nat /\ m <= n /\ cases \subseteq Nat /\ cases \subseteq Cases /\ remaining \in Nat
      /\ Scheduled(n, m) /\ Holding(m) /\ Control(n) /\ Processes(m) /\ Verdicts(m)
      /\ Counts(n) /\ Remain(n, m) /\ Temps /\ Files(m)
  BY Parts
<1>2. /\ cases' = cases /\ expected' = expected /\ tasks' = tasks /\ queue' = queue
      /\ terminate' = terminate /\ test' = test /\ result' = result /\ done' = done
      /\ proc' = proc /\ output' = output /\ temps' = temps /\ tmpdir' = tmpdir /\ wrote' = wrote
      /\ remaining' = remaining - 1 /\ lock' = t /\ lock = NoThread
  BY DEF Record, setup, process
<1>3. pc[t] = "record" /\ Goto(t, "report")
  BY DEF Record, At
<1>4. /\ t \in AllThreads /\ pc'[t] = "report"
      /\ \A s \in AllThreads : s # t => pc'[s] = pc[s]
  BY <1>1, <1>3, GotoFacts DEF Labels
<1> DEFINE c == test[t]
<1>5. c \in 1..m /\ c \in Cases /\ c \in Nat /\ c # NoCase
  BY <1>3, <1>4, HeldCase DEF Unrecorded
<1>6. proc[c] = "reaped"
  BY <1>1, <1>3, <1>4 DEF Processes, Reaped
<1>7. /\ UnexpectedOutput(c) => /\ failed' = Append(failed, c) /\ succeeded' = succeeded
                                /\ crashed' = crashed \/ crashed' = crashed + 1
      /\ ~UnexpectedOutput(c) => failed' = failed /\ crashed' = crashed /\ succeeded' = succeeded + 1
  <2>1. succeeded \in Nat /\ crashed \in Nat
    BY <1>1 DEF Counts
  <2>2. CASE UnexpectedOutput(c)
    <3>1. /\ failed' = Append(failed, c) /\ succeeded' = succeeded
          /\ crashed' = crashed + IF HasCrashed(output[c]) THEN 1 ELSE 0
      BY <2>2 DEF Record
    <3>2. crashed' = crashed \/ crashed' = crashed + 1
      BY <2>1, <3>1
    <3> QED BY <2>2, <3>1, <3>2
  <2>3. CASE ~UnexpectedOutput(c)
    BY <2>3 DEF Record
  <2> QED BY <2>2, <2>3
<1>8. /\ succeeded \in Nat /\ crashed \in Nat /\ done \in Nat
      /\ failed \in Seq(1..n) /\ succeeded + Len(failed) + remaining = n /\ crashed <= Len(failed)
      /\ \A s \in AllThreads : pc[s] # "report"
      /\ done = succeeded + Len(failed)
  BY <1>1, <1>2, MainIsThread DEF Counts
<1> HIDE DEF c
<1>9. /\ failed' \in Seq(1..n) /\ Len(failed') \in Nat
      /\ succeeded' \in Nat /\ crashed' \in Nat /\ crashed' <= Len(failed')
      /\ succeeded' + Len(failed') = succeeded + Len(failed) + 1
      /\ failed' = <<>> => failed = <<>> /\ ~UnexpectedOutput(c)
  <2>1. c \in 1..n
    BY <1>1, <1>5
  <2>2. Append(failed, c) \in Seq(1..n) /\ Len(Append(failed, c)) = Len(failed) + 1 /\ Len(failed) \in Nat
        /\ Append(failed, c) # <<>>
    BY <1>8, <2>1, AppendProperties, LenProperties
  <2>3. CASE UnexpectedOutput(c)
    <3>1. /\ failed' \in Seq(1..n) /\ Len(failed') = Len(failed) + 1 /\ failed' # <<>>
          /\ succeeded' = succeeded /\ (crashed' = crashed \/ crashed' = crashed + 1)
      BY <1>7, <2>2, <2>3
    <3> QED BY <1>8, <2>2, <3>1
  <2>4. CASE ~UnexpectedOutput(c)
    BY <1>7, <1>8, <2>2, <2>4
  <2> QED BY <2>3, <2>4
<1>10. Todo(n, m)' = Todo(n, m) \ {c} /\ c \in Todo(n, m)
  <2>1. c \in Todo(n, m)
    BY <1>1, <1>3, <1>4, <1>5 DEF Todo, Unrecorded, c
  <2>2. \A s \in AllThreads : s # t => test[s] # c
    BY <1>1, <1>4, <1>5 DEF Holding, c
  <2>3. \A s \in AllThreads : pc'[s] \in Unrecorded <=> s # t /\ pc[s] \in Unrecorded
    BY <1>4 DEF Unrecorded
  <2>4. c <= m
    BY <1>1, <1>5
  <2>5. \A d \in 1..n : d \in Todo(n, m)' <=> d \in Todo(n, m) /\ d # c
    <3> TAKE d \in 1..n
    <3>1. CASE d = c
      <4>1. d \notin Todo(n, m)'
        BY <1>1, <1>2, <2>2, <2>3, <2>4, <3>1 DEF Todo
      <4> QED BY <3>1, <4>1
    <3>2. CASE d # c
      BY <1>2, <1>4, <2>3, <3>2 DEF Todo, c
    <3> QED BY <3>1, <3>2
  <2>6. Todo(n, m)' \subseteq 1..n /\ Todo(n, m) \subseteq 1..n
    BY DEF Todo
  <2> QED BY <2>1, <2>5, <2>6
<1>11. Remain(n, m)' /\ remaining' \in Nat
  <2>1. Todo(n, m) \subseteq 1..n
    BY DEF Todo
  <2>2. IsFiniteSet(Todo(n, m)) /\ Cardinality(Todo(n, m)) \in Nat
    BY <1>1, <2>1, TodoFinite
  <2>3. Cardinality(Todo(n, m)') = Cardinality(Todo(n, m)) - 1 /\ Cardinality(Todo(n, m)') \in Nat
    BY <1>10, <2>2, FS_RemoveElement, FS_CardinalityType
  <2>4. Cardinality(Todo(n, m)) <= remaining
    BY <1>1 DEF Remain
  <2>5. Cardinality(Todo(n, m)') <= remaining' /\ remaining' \in Nat
    BY <1>1, <1>2, <2>2, <2>3, <2>4
  <2> QED BY <2>5 DEF Remain
<1>12. Scheduled(n, m)'
  BY <1>1, <1>2, ScheduledKept
<1>13. Holding(m)'
  BY <1>1, <1>2, <1>3, <1>5, HoldingMoves DEF Labels, Before, c
<1>14. Control(n)'
  BY <1>1, <1>2, <1>3, ControlMoves DEF Labels
<1>15. Processes(m)'
  BY <1>1, <1>2, <1>3, <1>6, ProcessesKept DEF Labels, c
<1>16. Verdicts(m)'
  <2>1. \A d \in Nat : Judged(d) => Judged(d)'
    BY <1>2, <1>9 DEF Judged, Outcome, IsFailureOutput, HasCrashed
  <2>2. ASSUME NEW d \in 1..m, \A s \in AllThreads : test'[s] # d
        PROVE  Judged(d)'
    BY <1>1, <1>2, <2>1, <2>2 DEF Verdicts
  <2>3. Judged(c)'
    BY <1>2, <1>6, <1>9 DEF Judged, UnexpectedOutput, Outcome, IsFailureOutput, HasCrashed, c
  <2>4. ASSUME NEW s \in AllThreads, pc'[s] = "report"
        PROVE  Judged(test[s])'
    <3>1. s = t
      BY <1>4, <1>8, <2>4
    <3> QED BY <2>3, <3>1 DEF c
  <2> QED BY <2>2, <2>4 DEF Verdicts
<1>17. Counts(n)'
  <2>1. Threads' = Threads /\ t \in Threads /\ t # NoThread
    BY <1>1, <1>2, <1>4, MainIsThread DEF Threads
  <2>2. succeeded' + Len(failed') + remaining' = n
    BY <1>1, <1>2, <1>8, <1>9
  <2>3. done' + 1 = succeeded' + Len(failed')
    BY <1>2, <1>8, <1>9
  <2>4. \A s \in AllThreads : pc'[s] = "report" => lock' = s
    BY <1>2, <1>4, <1>8
  <2>5. done' \in Nat
    BY <1>2, <1>8
  <2> QED BY <1>2, <1>4, <1>9, <1>11, <2>1, <2>2, <2>3, <2>4, <2>5 DEF Counts
<1>18. Temps'
  BY <1>1, <1>2, <1>3, TempsMoves DEF Labels, Started
<1>19. Files(m)'
  BY <1>1, <1>2, FilesKept
<1> QED BY <1>11, <1>12, <1>13, <1>14, <1>15, <1>16, <1>17, <1>18, <1>19 DEF Inv

\* The thread gives its case up, which it has recorded, and the lock.
LEMMA HasRunKeeps ==
  ASSUME NEW n, NEW m, Inv(n, m), NEW t \in Threads, HasRun(t)
  PROVE  Inv(n, m)'
<1>1. /\ n \in Nat /\ m \in Nat /\ m <= n /\ cases \subseteq Nat /\ cases \subseteq Cases /\ remaining \in Nat
      /\ Scheduled(n, m) /\ Holding(m) /\ Control(n) /\ Processes(m) /\ Verdicts(m)
      /\ Counts(n) /\ Remain(n, m) /\ Temps /\ Files(m)
  BY Parts
<1>2. /\ cases' = cases /\ expected' = expected /\ tasks' = tasks /\ queue' = queue
      /\ terminate' = terminate /\ result' = result
      /\ remaining' = remaining /\ succeeded' = succeeded /\ failed' = failed /\ crashed' = crashed
      /\ proc' = proc /\ output' = output /\ temps' = temps /\ tmpdir' = tmpdir /\ wrote' = wrote
      /\ done' = done + 1 /\ lock' = NoThread /\ test' = [test EXCEPT ![t] = NoCase]
  BY DEF HasRun, setup, process
<1>3. pc[t] = "report" /\ Goto(t, "check")
  BY DEF HasRun, At
<1>4. /\ t \in AllThreads /\ pc' \in [AllThreads -> Labels] /\ pc'[t] = "check"
      /\ \A s \in AllThreads : s # t => pc'[s] = pc[s]
  BY <1>1, <1>3, GotoFacts DEF Labels
<1>5. /\ tasks \in 1..MaxTasks /\ test \in [AllThreads -> 0..m]
      /\ \A s \in AllThreads : s \notin Threads => pc[s] = "none"
      /\ \A s \in AllThreads : pc[s] \in Before => test[s] = NoCase
      /\ \A s \in AllThreads : pc[s] \in Unrecorded \cup {"report"} => test[s] # NoCase
      /\ \A r, s \in AllThreads : test[r] = test[s] /\ test[r] # NoCase => r = s
  BY <1>1 DEF Holding
<1>6. test'[t] = NoCase /\ \A s \in AllThreads : s # t => test'[s] = test[s]
  BY <1>2, <1>4, <1>5
<1>7. test' \in [AllThreads -> 0..m]
  BY <1>1, <1>2, <1>4, <1>5 DEF NoCase
<1>8. lock = t /\ t # NoThread /\ \A s \in AllThreads : s # t => pc[s] # "report"
  BY <1>1, <1>3, <1>4, MainIsThread DEF Counts
<1>9. Scheduled(n, m)'
  BY <1>1, <1>2, ScheduledKept
<1>10. Holding(m)'
  <2>1. Threads' = Threads
    BY <1>2 DEF Threads
  <2>2. \A s \in AllThreads : s \notin Threads => pc'[s] = "none"
    BY <1>4, <1>5
  <2>3. \A s \in AllThreads : pc'[s] \in Before => test'[s] = NoCase
    BY <1>4, <1>5, <1>6
  <2>4. \A s \in AllThreads : pc'[s] \in Unrecorded \cup {"report"} => test'[s] # NoCase
    BY <1>4, <1>5, <1>6 DEF Unrecorded
  <2>5. \A r, s \in AllThreads : test'[r] = test'[s] /\ test'[r] # NoCase => r = s
    BY <1>5, <1>6
  <2> QED BY <1>2, <1>4, <1>5, <1>7, <2>1, <2>2, <2>3, <2>4, <2>5 DEF Holding
<1>11. Control(n)'
  BY <1>1, <1>2, <1>3, <1>6, ControlMoves DEF Labels
<1>12. Processes(m)'
  BY <1>1, <1>2, <1>3, <1>6, ProcessesKept DEF Labels, Reaped
<1>13. Verdicts(m)'
  <2>1. \A d \in Nat : Judged(d)' <=> Judged(d)
    BY <1>2 DEF Judged, Outcome, IsFailureOutput, HasCrashed
  <2>2. ASSUME NEW d \in 1..m, \A s \in AllThreads : test'[s] # d
        PROVE  Judged(d)'
    <3>0. d \in Nat
      BY <1>1
    <3>1. CASE d = test[t]
      BY <1>1, <1>3, <1>4, <2>1, <3>0, <3>1 DEF Verdicts
    <3>2. CASE d # test[t]
      <4>1. \A s \in AllThreads : test[s] # d
        BY <1>6, <2>2, <3>2
      <4> QED BY <1>1, <2>1, <3>0, <4>1 DEF Verdicts
    <3> QED BY <3>1, <3>2
  <2>3. \A s \in AllThreads : pc'[s] # "report"
    BY <1>4, <1>8
  <2> QED BY <2>2, <2>3 DEF Verdicts
<1>14. Counts(n)'
  <2>1. Threads' = Threads
    BY <1>2 DEF Threads
  <2>2. /\ done \in Nat /\ done + 1 = succeeded + Len(failed)
    BY <1>1, <1>3, <1>8 DEF Counts
  <2>3. \A s \in AllThreads : pc'[s] # "report"
    BY <1>4, <1>8
  <2>4. done' \in Nat /\ done' = succeeded' + Len(failed')
    BY <1>2, <2>2
  <2> QED BY <1>1, <1>2, <2>1, <2>3, <2>4 DEF Counts
<1>15. Remain(n, m)'
  <2>1. Todo(n, m)' \subseteq Todo(n, m)
    <3>1. \A s \in AllThreads : pc'[s] \in Unrecorded => pc[s] \in Unrecorded /\ test'[s] = test[s]
      BY <1>4, <1>6 DEF Unrecorded
    <3> QED BY <3>1 DEF Todo
  <2> QED BY <1>1, <1>2, <2>1, RemainKept
<1>16. Temps'
  BY <1>1, <1>2, <1>3, TempsMoves DEF Labels, Started
<1>17. Files(m)'
  BY <1>1, <1>2, FilesKept
<1> QED BY <1>9, <1>10, <1>11, <1>12, <1>13, <1>14, <1>15, <1>16, <1>17 DEF Inv

\* The verdict is made when no thread works any more.
LEMMA JoinKeeps ==
  ASSUME NEW n, NEW m, Inv(n, m), JoinAndReturn
  PROVE  Inv(n, m)'
<1>1. /\ Scheduled(n, m) /\ Holding(m) /\ Control(n) /\ Processes(m) /\ Verdicts(m)
      /\ Counts(n) /\ Remain(n, m) /\ Temps /\ Files(m)
  BY Parts
<1>2. /\ cases' = cases /\ expected' = expected /\ tasks' = tasks /\ queue' = queue
      /\ terminate' = terminate /\ lock' = lock /\ test' = test /\ pc' = pc
      /\ remaining' = remaining /\ succeeded' = succeeded /\ failed' = failed
      /\ crashed' = crashed /\ done' = done
      /\ proc' = proc /\ output' = output /\ temps' = temps /\ tmpdir' = tmpdir /\ wrote' = wrote
  BY DEF JoinAndReturn, setup, progress, process
<1>3. Threads' = Threads /\ Executing' = Executing /\ Todo(n, m)' = Todo(n, m)
  BY <1>2 DEF Threads, Executing, Todo
<1>4. Scheduled(n, m)' /\ Holding(m)' /\ Counts(n)' /\ Remain(n, m)' /\ Temps'
  BY <1>1, <1>2, <1>3 DEF Scheduled, Holding, Counts, Remain, Temps
<1>5. Processes(m)'
  BY <1>1, <1>2, <1>3 DEF Processes
<1>6. Verdicts(m)'
  BY <1>1, <1>2 DEF Verdicts, Judged, Outcome, IsFailureOutput, HasCrashed
<1>7. Files(m)'
  BY <1>1, <1>2 DEF Files, TmpIntact
<1>8. Control(n)'
  <2>1. /\ pc[Main] = "returned" /\ \A t \in Threads : pc[t] \in {"returned", "dead"}
        /\ result' = IF failed = <<>> THEN "ok" ELSE "failed"
    BY DEF JoinAndReturn, At
  <2>2. /\ terminate \in BOOLEAN /\ (terminate => pc[Main] = "dead")
        /\ ~terminate => \A t \in AllThreads : pc[t] = "returned" => test[t] = NoCase /\ queue = <<>>
        /\ n = 0 => \A t \in AllThreads : pc[t] = "none"
    BY <1>1 DEF Control
  <2>3. /\ result' \in {"ok", "failed"} /\ (result' = "ok" => failed = <<>>)
    BY <2>1
  <2> QED BY <1>2, <1>3, <2>1, <2>2, <2>3 DEF Control
<1> QED BY <1>4, <1>5, <1>6, <1>7, <1>8 DEF Inv

\* With no cases, before StartRun, nothing has happened.
LEMMA NothingYet ==
  ASSUME NEW n, NEW m, Inv(n, m), cases = {}
  PROVE  n = 0 /\ m = 0
<1>1. n \in Nat /\ m \in Nat /\ m <= n /\ cases = 1..n
  BY Parts
<1>2. n = 0
  <2>1. CASE n # 0
    <3>1. 1 \in 1..n
      BY <1>1, <2>1
    <3> QED BY <1>1, <3>1
  <2> QED BY <2>1
<1> QED BY <1>1, <1>2

\* Run starts its threads.
LEMMA StartKeeps ==
  ASSUME NEW n0, NEW m0, Inv(n0, m0), NEW n \in 1..MaxCases, NEW outcomes \in [1..n -> SUBSET Outcomes],
         StartRun(n, outcomes)
  PROVE  Inv(n, 0)'
<1>1. /\ Scheduled(0, 0) /\ Holding(0) /\ Control(0) /\ Processes(0) /\ Verdicts(0)
      /\ Counts(0) /\ Temps /\ Files(0)
  <2>1. n0 = 0 /\ m0 = 0
    BY NothingYet DEF StartRun
  <2> QED BY <2>1, Parts
<1>2. /\ cases' = 1..n /\ expected' = [c \in Cases |-> IF c <= n THEN outcomes[c] ELSE {}]
      /\ queue' = [i \in 1..n |-> i] /\ remaining' = n
      /\ pc' = [t \in DOMAIN pc |-> IF t \in Threads THEN "check" ELSE "none"]
      /\ tasks' = tasks /\ terminate' = terminate /\ lock' = lock /\ succeeded' = succeeded
      /\ failed' = failed /\ crashed' = crashed /\ done' = done /\ test' = test /\ result' = result
      /\ proc' = proc /\ output' = output /\ temps' = temps /\ tmpdir' = tmpdir /\ wrote' = wrote
  BY DEF StartRun, process
<1>3. /\ tasks \in 1..MaxTasks /\ pc \in [AllThreads -> Labels] /\ test \in [AllThreads -> 0..0]
      /\ \A t \in AllThreads : pc[t] = "none"
  BY <1>1 DEF Holding, Control
<1>4. /\ pc' \in [AllThreads -> {"check", "none"}]
      /\ \A t \in AllThreads : t \notin Threads => pc'[t] = "none"
  BY <1>2, <1>3
<1>5. /\ Main \in Threads /\ Main \in AllThreads /\ Threads \subseteq AllThreads
      /\ NoThread \notin AllThreads /\ Threads' = Threads
  BY <1>1, <1>2, MainIsThread DEF Threads
<1>6. n \in Nat /\ n # 0 /\ n <= MaxCases
  BY BoundAssumption
<1>7. \A t \in AllThreads : test[t] = NoCase
  BY <1>3 DEF NoCase
<1>8. Scheduled(n, 0)'
  <2>1. queue' \in Seq(Nat) /\ Len(queue') = n /\ \A i \in 1..n : queue'[i] = i
    BY <1>2, <1>6
  <2>2. \A i \in 1..(n - 0) : queue'[i] = 0 + i
    BY <1>6, <2>1
  <2> QED BY <1>2, <1>6, <2>1, <2>2, BoundAssumption DEF Scheduled
<1>9. Holding(0)'
  BY <1>2, <1>3, <1>4, <1>5, <1>7 DEF Holding, Labels, Before, Unrecorded
<1>10. Control(n)'
  <2>1. /\ terminate \in BOOLEAN /\ result \in {"running", "ok", "failed", "raised", "interrupted"}
        /\ terminate => pc[Main] = "dead"
        /\ pc[Main] = "dead" <=> result \in {"raised", "interrupted"}
        /\ result \in {"ok", "failed"} => \A t \in Threads : pc[t] \in {"returned", "dead"}
    BY <1>1 DEF Control
  <2>2. ~terminate /\ result = "running"
    BY <1>3, <1>5, <2>1
  <2>3. /\ pc'[Main] # "dead" /\ \A t \in AllThreads : pc'[t] # "returned"
        /\ terminate' = FALSE /\ result' = "running"
    BY <1>2, <1>4, <1>5, <2>1, <2>2
  <2> QED BY <1>6, <2>3 DEF Control
<1>11. Processes(0)'
  <2>1. /\ proc \in [Cases -> {"none", "running", "exited", "reaped"}] /\ output \in [Cases -> OutputType]
        /\ \A c \in Cases : c > 0 => proc[c] = "none"
    BY <1>1 DEF Processes
  <2>2. \A c \in Cases : proc[c] = "none"
    BY <2>1 DEF Cases
  <2>3. expected' \in [Cases -> SUBSET Outcomes]
    <3>1. \A c \in Cases : (IF c <= n THEN outcomes[c] ELSE {}) \in SUBSET Outcomes
      <4> TAKE c \in Cases
      <4>1. CASE c <= n
        <5>1. c \in 1..n
          BY <1>6, <4>1 DEF Cases
        <5> QED BY <4>1, <5>1
      <4>2. CASE ~(c <= n)
        BY <4>2
      <4> QED BY <4>1, <4>2
    <3> QED BY <1>2, <3>1
  <2> QED BY <1>2, <1>4, <2>1, <2>2, <2>3 DEF Processes, Reaped
<1>12. Verdicts(0)'
  BY <1>4 DEF Verdicts
<1>13. Counts(n)'
  <2>1. /\ succeeded \in Nat /\ crashed \in Nat /\ done \in Nat /\ remaining \in Nat
        /\ failed \in Seq(1..0) /\ succeeded + Len(failed) + remaining = 0 /\ crashed <= Len(failed)
        /\ lock \in Threads \cup {NoThread}
        /\ lock # NoThread => pc[lock] \in {"report", "dead"}
        /\ lock = NoThread => done = succeeded + Len(failed)
    BY <1>1 DEF Counts
  <2>2. lock = NoThread
    BY <1>3, <1>5, <2>1
  <2>3. Len(failed) \in Nat
    BY <2>1, LenProperties
  <2>4. succeeded + Len(failed) + n = n /\ Len(failed) = 0
    BY <1>6, <2>1, <2>3
  <2>5. failed \in Seq(1..n)
    <3>1. failed = <<>>
      BY <2>1, <2>4, EmptySeq
    <3> QED BY <3>1
  <2> QED BY <1>2, <1>4, <1>5, <1>6, <2>1, <2>2, <2>4, <2>5 DEF Counts
<1>14. Remain(n, 0)'
  <2>1. Todo(n, 0)' \subseteq 1..n
    BY DEF Todo
  <2>2. Cardinality(Todo(n, 0)') <= n
    BY <1>6, <2>1, TodoFinite
  <2> QED BY <1>2, <2>2 DEF Remain
<1>15. Temps'
  <2>1. Executing = {} /\ Executing' = {}
    BY <1>2, <1>3, <1>4, <1>5 DEF Executing, Started
  <2>2. \A t \in Threads : pc[t] # "dead"
    BY <1>3, <1>5
  <2>3. temps \in Nat /\ 2 * Cardinality(Executing) <= temps /\ temps = 2 * Cardinality(Executing)
    BY <1>1, <2>2 DEF Temps
  <2> QED BY <1>2, <2>1, <2>3 DEF Temps
<1>16. Files(0)'
  <2>0. \A c \in 1..n : c \in Cases /\ c > 0
    BY <1>6, BoundAssumption DEF Cases
  <2>1. \A c \in 1..n : proc[c] = "none"
    BY <1>1, <2>0 DEF Processes
  <2>2. TmpIntact'
    BY <1>2, <2>1 DEF TmpIntact
  <2> QED BY <1>1, <1>2, <2>2 DEF Files
<1> QED BY <1>8, <1>9, <1>10, <1>11, <1>12, <1>13, <1>14, <1>15, <1>16 DEF Inv

\* The invariant holds before Run.
LEMMA InitInv ==
  ASSUME RunnerInit
  PROVE  Inv(0, 0)
<1>1. /\ cases = {} /\ expected = [c \in Cases |-> {}] /\ tasks \in 1..MaxTasks
      /\ queue = <<>> /\ terminate = FALSE /\ lock = NoThread
      /\ remaining = 0 /\ succeeded = 0 /\ failed = <<>> /\ crashed = 0 /\ done = 0
      /\ pc = [t \in AllThreads |-> "none"] /\ test = [t \in AllThreads |-> NoCase]
      /\ proc = [c \in Cases |-> "none"] /\ output = [c \in Cases |-> Output(0, FALSE, FALSE)]
      /\ temps = 0 /\ tmpdir = {} /\ wrote = {} /\ result = "running"
  BY DEF RunnerInit, AllThreads
<1>2. Scheduled(0, 0)
  BY <1>1, BoundAssumption DEF Scheduled
<1>3. Holding(0)
  BY <1>1 DEF Holding, Labels, NoCase, Unrecorded
<1>4. Main \in AllThreads /\ Threads \subseteq AllThreads /\ NoThread \notin AllThreads
  BY <1>3, MainIsThread
<1>5. Control(0)
  BY <1>1, <1>4 DEF Control
<1>6. Processes(0)
  <2>1. Output(0, FALSE, FALSE) \in OutputType
    BY DEF Output, OutputType
  <2>2. output \in [Cases -> OutputType]
    BY <1>1, <2>1
  <2> QED BY <1>1, <2>2 DEF Processes, Reaped
<1>7. Verdicts(0)
  BY <1>1 DEF Verdicts
<1>8. Counts(0)
  BY <1>1, <1>4 DEF Counts
<1>9. Remain(0, 0)
  <2>1. Todo(0, 0) \subseteq 1..0
    BY DEF Todo
  <2>2. Cardinality(Todo(0, 0)) <= 0
    BY <2>1, TodoFinite
  <2> QED BY <1>1, <2>2 DEF Remain
<1>10. Temps
  <2>1. Executing = {}
    BY <1>1, <1>4 DEF Executing, Started
  <2>2. Cardinality(Executing) = 0
    BY <2>1, FS_EmptySet
  <2> QED BY <1>1, <2>2 DEF Temps
<1>11. Files(0)
  BY <1>1 DEF Files, TmpIntact
<1> QED BY <1>2, <1>3, <1>5, <1>6, <1>7, <1>8, <1>9, <1>10, <1>11 DEF Inv

\* Every step keeps the invariant, for some division of the cases.
LEMMA NextInv ==
  ASSUME IInv, [RunnerNext]_runnerVars
  PROVE  IInv'
<1>1. PICK n \in Nat, m \in Nat : Inv(n, m)
  BY DEF IInv
<1>2. SUFFICES ASSUME ~IInv' PROVE FALSE
  OBVIOUS
<1>3. \A k, l \in Nat : ~Inv(k, l)'
  BY <1>2 DEF IInv
<1>4. ~Inv(n, m)' /\ ~Inv(n, m + 1)'
  BY <1>3
<1>5. ASSUME NEW t \in Threads PROVE ~RunSingle(t)
  <2>1. GetNowait(t) => queue = <<>> \/ Inv(n, m + 1)'
    BY <1>1, GetNowaitKeeps
  <2>2. ~CheckTerminate(t) /\ ~AboutToRun(t) /\ ~Deadline(t) /\ ~CheckAgain(t) /\ ~GetNowait(t)
    BY <1>1, <1>4, <2>1, GoesOnKeeps
  <2>3. ~Popen(t) /\ ~Poll(t) /\ ~Wait(t)
    BY <1>1, <1>4, ProcessStepKeeps
  <2>4. ~Executed(t) /\ ~Record(t) /\ ~HasRun(t)
    BY <1>1, <1>4, ExecutedKeeps, RecordKeeps, HasRunKeeps
  <2> QED BY <2>2, <2>3, <2>4 DEF RunSingle
<1>6. ~(\E t \in Threads : PrintFails(t) \/ PopenFails(t)) /\ ~Interrupt
  BY <1>1, <1>4, FaultsKeep
<1>7. ~(\E c \in Cases : TestWrites(c) \/ TestExits(c) \/ TestKilled(c)) /\ ~JoinAndReturn
  BY <1>1, <1>4, TestKeeps, JoinKeeps
<1>8. ~RunNext
  BY <1>5, <1>6, <1>7 DEF RunNext
<1>9. ASSUME NEW k \in 1..MaxCases, NEW outcomes \in [1..k -> SUBSET Outcomes], StartRun(k, outcomes)
      PROVE  FALSE
  <2>1. Inv(k, 0)'
    BY <1>1, <1>9, StartKeeps
  <2>2. k \in Nat /\ 0 \in Nat
    BY BoundAssumption
  <2> QED BY <1>3, <2>1, <2>2
<1>10. ~RunnerNext
  BY <1>8, <1>9 DEF RunnerNext
<1>11. ~UNCHANGED runnerVars
  <2>1. SUFFICES ASSUME UNCHANGED runnerVars PROVE Inv(n, m)'
    BY <1>4
  <2>2. /\ cases' = cases /\ expected' = expected /\ tasks' = tasks /\ queue' = queue
        /\ terminate' = terminate /\ lock' = lock /\ test' = test /\ pc' = pc /\ result' = result
        /\ remaining' = remaining /\ succeeded' = succeeded /\ failed' = failed
        /\ crashed' = crashed /\ done' = done
        /\ proc' = proc /\ output' = output /\ temps' = temps /\ tmpdir' = tmpdir /\ wrote' = wrote
    BY <2>1 DEF runnerVars, setup, progress, process
  <2>3. /\ Scheduled(n, m) /\ Holding(m) /\ Control(n) /\ Processes(m) /\ Verdicts(m)
        /\ Counts(n) /\ Remain(n, m) /\ Temps /\ Files(m)
    BY <1>1, Parts
  <2>4. Threads' = Threads /\ Executing' = Executing /\ Todo(n, m)' = Todo(n, m)
    BY <2>2 DEF Threads, Executing, Todo
  <2>5. Scheduled(n, m)' /\ Holding(m)' /\ Counts(n)' /\ Remain(n, m)' /\ Temps'
    BY <2>2, <2>3, <2>4 DEF Scheduled, Holding, Counts, Remain, Temps
  <2>6. Processes(m)' /\ Control(n)'
    BY <2>2, <2>3, <2>4 DEF Processes, Control
  <2>7. Verdicts(m)'
    BY <2>2, <2>3 DEF Verdicts, Judged, Outcome, IsFailureOutput, HasCrashed
  <2>8. Files(m)'
    BY <2>2, <2>3 DEF Files, TmpIntact
  <2> QED BY <2>5, <2>6, <2>7, <2>8 DEF Inv
<1> QED BY <1>10, <1>11

-----------------------------------------------------------------------------
\* The invariant gives the types,
LEMMA TypesHold ==
  ASSUME NEW n, NEW m, Inv(n, m)
  PROVE  RunnerTypeOK
<1>1. /\ n \in Nat /\ m \in Nat /\ m <= n /\ cases = 1..n /\ cases \subseteq Cases /\ remaining \in Nat
      /\ Scheduled(n, m) /\ Holding(m) /\ Control(n) /\ Processes(m)
      /\ Counts(n) /\ Temps /\ Files(m)
  BY Parts
<1>2. 1..m \subseteq cases /\ 0..m \subseteq cases \union {NoCase}
  BY <1>1 DEF NoCase
<1>3. ToSet(queue) \subseteq cases
  <2>1. /\ queue \in Seq(Nat) /\ Len(queue) = n - m /\ \A i \in 1..(n - m) : queue[i] = m + i
    BY <1>1 DEF Scheduled
  <2>2. \A i \in DOMAIN queue : queue[i] \in 1..n
    BY <1>1, <2>1
  <2> QED BY <1>1, <2>2 DEF ToSet
<1>4. ToSet(failed) \subseteq cases
  <2>1. failed \in Seq(1..n)
    BY <1>1 DEF Counts
  <2>2. DOMAIN failed = 1..Len(failed)
    BY <2>1, LenProperties
  <2>3. \A i \in DOMAIN failed : failed[i] \in 1..n
    BY <2>1, <2>2, ElementOfSeq
  <2> QED BY <1>1, <2>3 DEF ToSet
<1>5. /\ tasks \in 1..MaxTasks /\ pc \in [AllThreads -> Labels] /\ test \in [AllThreads -> cases \union {NoCase}]
  BY <1>1, <1>2 DEF Holding
<1>6. \A c \in Cases : output[c].timed_out \in BOOLEAN /\ output[c].exit_code \in Codes \union {0, -SIGTERM}
  BY <1>1 DEF Processes, OutputType
<1>7. /\ proc \in [Cases -> {"none", "running", "exited", "reaped"}] /\ expected \in [Cases -> SUBSET Outcomes]
  BY <1>1 DEF Processes
<1>8. /\ lock \in Threads \union {NoThread} /\ succeeded \in Nat /\ crashed \in Nat /\ done \in Nat
  BY <1>1 DEF Counts
<1>9. /\ terminate \in BOOLEAN /\ result \in {"running", "ok", "failed", "raised", "interrupted"}
  BY <1>1 DEF Control
<1>10. /\ temps \in Nat /\ tmpdir \subseteq cases /\ wrote \subseteq cases
  BY <1>1, <1>2 DEF Temps, Files
<1> QED BY <1>1, <1>3, <1>4, <1>5, <1>6, <1>7, <1>8, <1>9, <1>10 DEF RunnerTypeOK, AllThreads, Labels

\* the counters and the verdict,
LEMMA VerdictFollows ==
  ASSUME NEW n, NEW m, Inv(n, m)
  PROVE  VerdictSound
<1>1. /\ n \in Nat /\ m \in Nat /\ m <= n /\ n <= MaxCases /\ cases = 1..n
      /\ Scheduled(n, m) /\ Holding(m) /\ Control(n) /\ Verdicts(m) /\ Counts(n)
  BY Parts
<1>2. CountersAgree
  <2>1. Cardinality(cases) = n
    BY <1>1, FS_Interval
  <2> QED BY <1>1, <2>1 DEF CountersAgree, Counts
<1>3. ASSUME result = "ok", NEW c \in cases \ Lost
      PROVE  proc[c] = "reaped" /\ Outcome(c, output[c]) \in expected[c]
  <2>1. /\ \A t \in Threads : pc[t] \in {"returned", "dead"}
        /\ failed = <<>> /\ pc[Main] # "dead" /\ ~terminate
    BY <1>1, <1>3 DEF Control
  <2>2. \A t \in AllThreads : pc[t] = "returned" => test[t] = NoCase /\ queue = <<>>
    BY <1>1, <2>1 DEF Control
  <2>3. Main \in Threads /\ Main \in AllThreads /\ Threads \subseteq AllThreads
    BY <1>1, MainIsThread
  <2>4. queue = <<>>
    BY <2>1, <2>2, <2>3
  <2>5. m = n
    <3>1. Len(queue) = 0 /\ Len(queue) = n - m
      BY <1>1, <2>4 DEF Scheduled
    <3> QED BY <1>1, <3>1
  <2>6. c \in 1..m /\ c # NoCase
    BY <1>1, <2>5 DEF NoCase
  <2>7. \A t \in AllThreads : test[t] # c
    <3> TAKE t \in AllThreads
    <3>1. CASE t \notin Threads
      <4>1. test[t] = NoCase
        BY <1>1, <3>1 DEF Holding, Before
      <4> QED BY <2>6, <4>1
    <3>2. CASE t \in Threads /\ pc[t] = "returned"
      BY <2>2, <2>6, <3>2
    <3>3. CASE t \in Threads /\ pc[t] = "dead"
      BY <1>3, <3>3 DEF Lost
    <3> QED BY <2>1, <3>1, <3>2, <3>3
  <2>8. Judged(c)
    BY <1>1, <2>6, <2>7 DEF Verdicts
  <2> QED BY <2>1, <2>8 DEF Judged
<1>4. RunnerTypeOK
  BY TypesHold
<1> QED BY <1>2, <1>3, <1>4 DEF VerdictSound, VerdictHolds

\* and what a thread owns.
LEMMA OwnershipFollows ==
  ASSUME NEW n, NEW m, Inv(n, m)
  PROVE  OwnsWhatItUses
<1>1. Holding(m) /\ Processes(m) /\ Temps /\ Files(m)
  BY Parts
<1>2. Threads \subseteq AllThreads
  BY <1>1, MainIsThread
<1>3. KillsOwnProcess
  BY <1>1, <1>2 DEF KillsOwnProcess, Processes
<1>4. TempsAccounted
  BY <1>1 DEF TempsAccounted, Temps, Executing, Started
<1>5. TmpIntact
  BY <1>1 DEF Files
<1> QED BY <1>3, <1>4, <1>5 DEF OwnsWhatItUses

\* The invariant always holds.
LEMMA Invariance == RunnerSpec => []IInv
<1>1. RunnerInit => IInv
  BY InitInv DEF IInv
<1>2. IInv /\ [RunnerNext]_runnerVars => IInv'
  BY NextInv
<1> QED BY <1>1, <1>2, PTL DEF RunnerSpec

(* However the threads interleave, whatever the tests do and wherever a thread
   dies, `ok` means that every case not lost with a dead thread was reaped with
   an outcome its status file expects, and the counters of ProgressIndicator
   agree whenever the lock is free. *)
THEOREM VerdictIsSound == RunnerSpec => []VerdictSound
<1>1. IInv => VerdictSound
  BY VerdictFollows DEF IInv
<1> QED BY <1>1, Invariance, PTL

(* RunProcess never signals a process that was reaped, the temporary files are
   those of the executions under way as long as no thread has died, and with
   -j1 the files of a running test in test/tmp stay. *)
THEOREM OwnsOnlyItsOwn == RunnerSpec => []OwnsWhatItUses
<1>1. IInv => OwnsWhatItUses
  BY OwnershipFollows DEF IInv
<1> QED BY <1>1, Invariance, PTL
=============================================================================
