------------------------------ MODULE GypLoad -------------------------------
(***************************************************************************)
(* gyp/input.py: loading the build files.  Load goes through the files of  *)
(* the command line; LoadTargetBuildFile loads one and, depth first, the   *)
(* files its targets depend on.  With --parallel a pool of processes loads *)
(* them instead: the main thread schedules files under a condition, and    *)
(* the pool's result thread hands it what each worker found.               *)
(***************************************************************************)
EXTENDS Naturals, Sequences, FiniteSets, SequencesExt

CONSTANTS
  Files,      \* build files
  MaxRoots,   \* bound: files on the command line
  MayCrash    \* may a worker process be killed?

ASSUME LoadAssumption == MaxRoots \in Nat /\ MayCrash \in BOOLEAN

VARIABLES
  deps,       \* file -> sequence of the files its targets depend on
  broken,     \* files that cannot be loaded: missing, or not well formed
  parallel,   \* options.parallel
  roots,      \* files of the command line still to be loaded
  asked,      \* all of them
  data,       \* data['target_build_files']
  stack,      \* calls of LoadTargetBuildFile, oldest first: what each has still to load
  pending, scheduled, dependencies, error,  \* ParallelState
  calls,      \* apply_async calls: [file, seen]; seen is the copy of data the worker gets
  results,    \* results in the order they came, not yet passed to the callback
  main,       \* the main thread: "next", "loop", "wait", "woken", "done", "failed", "exited"
  loads,      \* history: how often each file was read
  lost,       \* history: calls of workers that crashed
  earlier     \* history: data when LoadTargetBuildFileParallel was called

loadInput == <<deps, broken, parallel, asked>>
parState == <<pending, scheduled, dependencies, error>>
pool == <<calls, results>>
history == <<loads, lost, earlier>>
loadVars == <<loadInput, roots, data, stack, parState, pool, main, history>>

Ok(f, ds) == [file |-> f, ok |-> TRUE, deps |-> ds]
NotOk(f) == [file |-> f, ok |-> FALSE, deps |-> <<>>]

\* Any build files, and any command line.
LoadInputOK ==
  /\ deps \in [Files -> Seq(Files)] /\ broken \subseteq Files
  /\ parallel \in BOOLEAN /\ asked \in Seq(Files)

LoadInit ==
  /\ roots = asked
  /\ data = {} /\ stack = <<>>
  /\ pending = 0 /\ scheduled = {} /\ dependencies = <<>> /\ error = FALSE
  /\ calls = <<>> /\ results = <<>>
  /\ main = "next"
  /\ loads = [f \in Files |-> 0] /\ lost = 0 /\ earlier = {}

Read(f) == loads' = [loads EXCEPT ![f] = @ + 1]

-----------------------------------------------------------------------------
\* One file at a time: LoadTargetBuildFile with load_dependencies.

(* Called with `callers` on the stack: it returns at once for a file that is
   already there; an exception ends Load. *)
LoadTargetBuildFile(f, callers) ==
  IF f \in data
  THEN stack' = callers /\ UNCHANGED <<data, main, loads>>
  ELSE /\ data' = data \union {f}
       /\ IF f \in broken
          THEN main' = "failed" /\ stack' = <<>> /\ UNCHANGED loads
          ELSE Read(f) /\ stack' = Append(callers, deps[f]) /\ UNCHANGED main

NextRoot ==
  /\ ~parallel /\ main = "next" /\ stack = <<>> /\ roots # <<>>
  /\ roots' = Tail(roots)
  /\ LoadTargetBuildFile(Head(roots), <<>>)
  /\ UNCHANGED <<loadInput, parState, pool, lost, earlier>>

\* The innermost call goes on with its next dependency, or returns.
NextDependency ==
  /\ ~parallel /\ main = "next" /\ stack # <<>>
  /\ LET top == Last(stack)
     IN  IF top = <<>>
         THEN stack' = Front(stack) /\ UNCHANGED <<data, main, loads>>
         ELSE LoadTargetBuildFile(Head(top), Append(Front(stack), Tail(top)))
  /\ UNCHANGED <<loadInput, roots, parState, pool, lost, earlier>>

-----------------------------------------------------------------------------
\* LoadTargetBuildFileParallel: a fresh ParallelState for each file of the command line.
StartParallel ==
  /\ parallel /\ main = "next" /\ roots # <<>>
  /\ roots' = Tail(roots)
  /\ dependencies' = <<Head(roots)>> /\ scheduled' = {Head(roots)}
  /\ pending' = 0 /\ error' = FALSE
  /\ earlier' = data
  /\ main' = "loop"
  /\ UNCHANGED <<loadInput, data, stack, pool, loads, lost>>

Counted(n) == n + 1

\* The loop, with the condition held; what it waits for gives the condition up.
Schedule ==
  /\ main = "loop" /\ ~error /\ dependencies # <<>>
  /\ dependencies' = Front(dependencies)
  /\ pending' = Counted(pending)
  /\ calls' = Append(calls, [file |-> Last(dependencies), seen |-> data])
  /\ UNCHANGED <<loadInput, roots, data, stack, scheduled, error, results, main, history>>

WaitForResult ==
  /\ main = "loop" /\ ~error /\ dependencies = <<>> /\ pending > 0
  /\ main' = "wait"
  /\ UNCHANGED <<loadInput, roots, data, stack, parState, pool, history>>

\* Mutant: the loop ends when there is nothing more to schedule.
LoopOver_Early == error \/ dependencies = <<>>

LoopOver == error \/ (dependencies = <<>> /\ pending = 0)

\* sys.exit() after an error; else the next file of the command line.
LeaveLoop ==
  /\ main = "loop"
  /\ LoopOver
  /\ main' = IF error THEN "exited" ELSE "next"
  /\ UNCHANGED <<loadInput, roots, data, stack, parState, pool, history>>

\* The worker returns False for a file in the data it was sent, None for an exception.
GivesNothing(c) == c.file \in c.seen \/ c.file \in broken

\* One of the eight workers takes a call and answers it.
CallLoadTargetBuildFile ==
  \E i \in DOMAIN calls :
    /\ calls' = RemoveAt(calls, i)
    /\ IF GivesNothing(calls[i])
       THEN results' = Append(results, NotOk(calls[i].file)) /\ UNCHANGED loads
       ELSE results' = Append(results, Ok(calls[i].file, deps[calls[i].file])) /\ Read(calls[i].file)
    /\ UNCHANGED <<loadInput, roots, data, stack, parState, main, lost, earlier>>

\* A killed worker's call is never answered.
WorkerCrashes ==
  /\ MayCrash
  /\ \E i \in DOMAIN calls : calls' = RemoveAt(calls, i)
  /\ lost' = lost + 1
  /\ UNCHANGED <<loadInput, roots, data, stack, parState, results, main, loads, earlier>>

\* Mutant: every dependency is scheduled.
NewDependencies_All(ds, old) == ds

\* Where the loop over ds adds to `scheduled`: the first place of each file that is new.
FirstPlaces(ds, old) == {i \in DOMAIN ds : ds[i] \notin old /\ \A j \in 1..(i - 1) : ds[j] # ds[i]}

Rank(i, S) == Cardinality({j \in S : j <= i})

\* The files of ds that were not scheduled before, in order.
NewDependencies(ds, old) ==
  LET places == FirstPlaces(ds, old)
  IN  [k \in 1..Cardinality(places) |-> ds[CHOOSE i \in places : Rank(i, places) = k]]

\* Mutant: nobody is woken.
Notify_Not == UNCHANGED main

Notify == main' = "woken"

\* LoadTargetBuildFileCallback, on the result thread, while nobody holds the condition.
LoadTargetBuildFileCallback ==
  /\ main \in {"wait", "woken"}
  /\ results # <<>> /\ results' = Tail(results)
  /\ LET r == Head(results)
         new == NewDependencies(r.deps, scheduled)
     IN  IF r.ok
         THEN /\ data' = data \union {r.file}
              /\ scheduled' = scheduled \union ToSet(new)
              /\ dependencies' = dependencies \o new
              /\ pending' = pending - 1
              /\ UNCHANGED error
         ELSE error' = TRUE /\ UNCHANGED <<data, scheduled, dependencies, pending>>
  /\ Notify
  /\ UNCHANGED <<loadInput, roots, stack, calls, history>>

\* condition.wait() has the condition again; other results may have come first.
WaitReturns ==
  /\ main = "woken"
  /\ main' = "loop"
  /\ UNCHANGED <<loadInput, roots, data, stack, parState, pool, history>>

LoadDone ==
  /\ main = "next" /\ roots = <<>> /\ stack = <<>>
  /\ main' = "done"
  /\ UNCHANGED <<loadInput, roots, data, stack, parState, pool, history>>

MainLoads ==
  \/ NextRoot \/ NextDependency \/ StartParallel \/ Schedule \/ WaitForResult \/ WaitReturns
  \/ LeaveLoop \/ LoadDone

PoolLoads == CallLoadTargetBuildFile \/ LoadTargetBuildFileCallback

LoadNext == MainLoads \/ PoolLoads \/ WorkerCrashes

LoadSpec == LoadInputOK /\ LoadInit /\ [][LoadNext]_loadVars

LoadFairness == WF_loadVars(MainLoads) /\ WF_loadVars(CallLoadTargetBuildFile)
                /\ WF_loadVars(LoadTargetBuildFileCallback)

-----------------------------------------------------------------------------
LoadTypeOK ==
  /\ ToSet(roots) \subseteq Files /\ data \subseteq Files
  /\ \A i \in DOMAIN stack : ToSet(stack[i]) \subseteq Files
  /\ pending \in Nat /\ scheduled \subseteq Files /\ ToSet(dependencies) \subseteq scheduled
  /\ error \in BOOLEAN
  /\ main \in {"next", "loop", "wait", "woken", "done", "failed", "exited"}

(* No file is read twice, whatever the order the workers answer in: what is in
   `scheduled` or already loaded is not read again. *)
ReadOnce == \A f \in Files : loads[f] <= 1

\* pending counts the calls that are not answered, those of crashed workers with them.
PendingExact ==
  parallel /\ ~error => pending = Len(calls) + Len(results) + lost

(* Loading in parallel exits, with status 0 and nothing generated, only if a
   file cannot be loaded or one was loaded for an earlier file of the command
   line: a new ParallelState schedules it again, the worker finds it in the data,
   and its `return False` counts as an error. *)
ErrorExplained ==
  main = "exited" => (broken \union earlier) \intersect scheduled # {}

\* The bookkeeping of the parallel loader, for every order of the answers: no file is read
\* twice, pending counts the answers that are due, and an error has a cause.
SchedulingSound == LoadTypeOK /\ ReadOnce /\ PendingExact /\ ErrorExplained

\* Loading ends, unless a worker's answer is lost.
LoadEnds ==
  <>(main \in {"done", "failed", "exited"} \/ (main = "wait" /\ lost > 0))

\* Both ways of loading do what GypClosure promises.
Closure == INSTANCE GypClosure WITH
  asked <- ToSet(asked), needs <- [f \in Files |-> ToSet(deps[f])], loaded <- data,
  outcome <- CASE main = "done" -> "ok"
               [] main \in {"failed", "exited"} -> "error"
               [] OTHER -> "loading"

LoadsClosure == Closure!Spec
=============================================================================
