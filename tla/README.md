# TLA+ models of node and its tools

The repository is a fork of node v0.9.5, built as a library. Its own logic is the
JavaScript of `lib/` and the C++ and JavaScript of `src/`, and the Python of `tools/` that
configures, builds and tests it: gyp, the test runner, the flags library of the linter.
`deps/` (V8, libuv, OpenSSL, zlib, c-ares, http_parser) is vendored and `benchmark/`
auxiliary. The modules model the parts whose correctness depends on an *order* nobody
controls: of callbacks, threads, worker processes, jobs, failures, hash tables and sets. They
are translated from the code; where a comment or a document says something else, the code is
what is modelled and the difference is reported under "Disagreements".

## 1. The system

In node, JavaScript runs on one thread. libuv's loop calls C++ wrappers, which enter JavaScript
through `MakeCallback`; user code runs inside such a call, returns or throws, and the
deferred callbacks run before control returns to libuv. Nothing is preempted, so the hard
behaviours come from re-entrance (user code called half way through an operation calls the
operation again), from state remembered across a call of user code, from exceptions thrown
through such code, and from clocks that are read at different times.

The tools run one after another: `tools/gyp_node` starts gyp, which reads the `.gyp` files
(`input.py`), turns them into targets, and hands the targets to a generator (`make.py`,
`ninja.py`, `xcode.py`); make or ninja carries out what was written, and the makefile runs gyp
again when a `.gyp` file changes. `tools/test.py` then runs the tests. Here the hard
behaviours are threads and worker processes, exceptions half way, the order of Python's
sets and dictionaries, parallel jobs, and edits, failures and interrupts between builds.

| Component | State | Operations | Interacts with | Hard behaviours | What makes it correct |
|---|---|---|---|---|---|
| Tick queue (`src/node.js` 239-369, `src/node.cc` 159-210, 882-964, 1888-1934, 2929-2941) | `nextTickQueue`, `nextTickIndex`, `inTick`, `tickDepth`, `need_tick_cb`, `_exiting` | `nextTick`, `_tickCallback`, `_makeCallback`, the idle spinner, `FatalException`, `process.exit`, `EmitExit` | every wrapper in `src/*_wrap.cc`; domains | nested `MakeCallback`, throwing tocks, recursion limit, exit | each tock once, in order, by one drain; never stranded; I/O not starved |
| Linked lists (`lib/_linklist.js`) | `_idleNext`, `_idlePrev` inside the items | `init`, `peek`, `shift`, `remove`, `append`, `isEmpty` | timers, immediates | items already or no longer in a list | FIFO queues |
| Timers (`lib/timers.js` 27-282, `src/timer_wrap.cc`, `src/handle_wrap.cc`) | `lists`, a Timer and queue per duration, fields of items, Timers of their own | `enroll`, `active`, `unenroll`, `setTimeout`, `clearTimeout`, `setInterval`, `clearInterval`, `ref`, `unref`, `close`, `ontimeout` | net, http (idle sockets), domains, `FatalException` | callbacks changing the list that is being walked; stale clocks; `unref` | timed out neither early nor never; once; not after clearing; no leaked watcher |
| Immediates (`lib/timers.js` 285-353) | `immediateQueue`, `started`, `immediateTimer` | `setImmediate`, `clearImmediate`, `processImmediate` | libuv's timer pass | restarting the Timer inside the timer pass | order; one per iteration; all run |
| Writable streams (`lib/_stream_writable.js`) | `WritableState` and its buffer | `write`, `end`, `onwrite` | tick queue (deferred callbacks, 'drain'); `_write` of net, fs, zlib, Transform | synchronous and asynchronous completion; user code in the middle of `onwrite`; errors | order, one `_write` at a time, exact length, 'finish' last, 'drain' not forgotten |
| Readable streams and pipe (`lib/_stream_readable.js`) | `ReadableState`: buffer, length, reading, sync, flowing, `awaitDrain`, pipes | `read`, `onread`, `endReadable`, `pipe`, `unpipe`, `on`, `resume`, `wrap` | writable streams, tick queue | several destinations draining in any order, `unpipe` during flow, `read` inside 'readable' | no byte lost or repeated; no lost wake-up; end once |
| Transform, Duplex (`lib/_stream_transform.js`, `lib/_stream_duplex.js`) | `TransformState`: pending write, `transforming` | `_write`, `_read`, `_transform`, `_flush` | both stream halves | back pressure between halves, `_flush` against 'finish' | one transform at a time; no stall |
| HTTP agent, server pipeline (`lib/http.js`, `lib/freelist.js`) | `requests`, `sockets`, parsers, `outgoing` queue | `addRequest`, `createSocket`, `removeSocket`, 'free', `abort` | net, timers | close against free, keep-alive reuse, `maxSockets` | at most `maxSockets`; every request gets a socket; responses in order |
| Cluster (`lib/cluster.js`) | `workers`, server handles by key, `queryId` callbacks | `fork`, `disconnect`, `destroy`, `queryServer`, `listening` | child processes | worker dying while acknowledging; disconnect counting | each callback once; handles released |
| Child processes and IPC (`lib/child_process.js`) | handle queue, `_closesGot`, channel | `spawn`, `send`, `disconnect`, `kill` | pipes, cluster | exit before stdio is closed; acknowledgement before next handle | 'close' after all streams; handles in order |
| Sockets, servers (`lib/net.js`) | `_connecting`, `_pendingData`, `destroyed`, `_connections` | `connect`, `write`, `end`, `destroy`, `listen`, `close` | streams, timers | destroy while connecting; half-open | 'close' once; connections counted exactly |
| Domains, events (`lib/domain.js`, `lib/events.js`) | domain stack, members, listener arrays | `enter`, `exit`, `dispose`, `emit`, `removeListener` | tick queue, timers | throw between enter and exit; disposal during callbacks | balanced stack |
| Test runner (`tools/test.py`, `test/simple`, `test/message/testcfg.py`) | queue of cases, counters, `terminate`, the lock, child processes and their files, `test/tmp` | `Run`, `RunSingle`, `RunProcess`, `Execute`, `ClassifyTests`, the parser of status files, `Main` | the tests' processes | threads against each other, time limit against exit, exceptions with the lock held, Ctrl-C | the verdict is about every case; no hang; status files mean what they say |
| gyp: loading (`gyp/input.py` 1-606) | `data`, `aux_data`, `ParallelState` | `LoadOneBuildFile`, `LoadTargetBuildFile`, the pool and its callback | worker processes | answers in any order, failing or dying workers | each file once; the closure of the command line; an end |
| gyp: targets (`gyp/input.py` 607-2663, `gyp/common.py`) | dicts of build files and targets, variables, `dependency_nodes`, `flat_list` | `Load` and the functions it calls, phase after phase | generators | order of sets and hash tables, lists changed while they are used | sorted; settings reach whom they should; the same result for every order; faults refused |
| gyp: front end (`gyp/__init__.py`) | options, defines, flags | `gyp_main`, `RegenerateFlags` | generators, the environment | the environment of a later run | regeneration gives the same |
| gyp: make and ninja (`generator/make.py`, `generator/ninja.py`, `xcode_emulation.py`) | the rules written, the files of the build | `GenerateOutput`, the writers, the environment of steps | make, ninja | parallel jobs, generated headers, interrupted builds | nothing read before it is made; one writer; up to date afterwards; nothing left to do |
| gyp: Xcode (`generator/xcode.py`, `xcodeproj_file.py`) | object graph, IDs, project files | `GenerateOutput`, `Finalize1`, `Finalize2`, `Write` | Xcode, other projects | objects moved after they were referred to, failing writes, kills | every object owned once; stable IDs; no file lost; no needless write |
| Flags library (`closure_linter/gflags.py`) | `FlagValues`, `Flag` objects, lists by module | `DEFINE_*`, `FLAGS(argv)`, `Reset`, `SetDefault`, `FlagsIntoString`, `ADOPT_module_key_flags`, help | the linter | two names per flag, exceptions half way, circular flag files, order of dictionaries | dictionary and lists agree; the command line wins; saved flags can be read back |
| fs, tls, crypto, zlib, dgram, dns, module, buffer, repl, readline, debugger, helpers | see `PROJECT.json` | | | | left out: thin layers, data conversion, front ends |

`PROJECT.json` lists every component with its status and, under "hazards", each place where
the code is most exposed to something a test would hardly reach.

## 2. Modules

| Module | Models | State and actions |
|---|---|---|
| `NextTick` | the tick queue and the C++ boundary | The variables of `processNextTick`, the spinner flag, and the call stack as a sequence of frames: a callback of `_makeCallback`, `_tickCallback` between tocks or inside one, listeners of 'uncaughtException' and of 'exit'. One action for every way a frame is entered or left, by return or by throw. |
| `LinkList` | `_linklist.js` | the two link fields of all items and list objects; the assignments of `remove` and `append` in the order of the code |
| `IdleQueue` | what the lists promise | a FIFO queue per list; `LinkList` refines it (`ImplementsQueues`), `Timers` uses its operators |
| `NextTickProofs`, `LinkListProofs`, `TimersProofs`, `ImmediateProofs`, `WritableProofs`, `ReadableProofs`, `TestRunnerProofs`, `GypInputProofs` | | theorems about the module of that name; the last about `GypLoad` and `DependencyGraph` |
| `Timers` | `timers.js` without immediates, `TimerWrap`, `HandleWrap` | `lists`, queues, watchers and Timers with the loop time at which they are due, the fields of sockets and Timeouts; `frame` is the activation of `ontimeout` and of a callback. The clocks (`Date.now()` and `loop->time`) advance separately. |
| `Immediate` | `setImmediate` | the queue, `started`, the ms until the Timer is due, and the phase of libuv's loop |
| `Writable` | `_stream_writable.js` | the fields of `WritableState`, the buffer, ticks queued, the stack of user code and of `_write` calls; chunks are numbers in the order of `write()` |
| `Readable` | `_stream_readable.js` without pipe, old mode and `wrap` | the fields of `ReadableState` that decide, the number of bytes buffered, `_read` calls whose callback is due, the stack of `read()`, `_read`, and user code |
| `TestRunner` | `ProgressIndicator.Run`, `RunSingle`, `RunProcess`, `Execute` | a program counter per thread, the lock, the counters, each case's process and files; one action per stretch of code between two points where another thread or process can come in |
| `TestStatus`, `TestMain` | status files; `Main` | the parser and evaluator as operators on tokens; `Main` composes them with `TestRunner` |
| `GypClosure` | what loading promises | files loaded because something loaded needs them; `GypLoad` refines it (`LoadsClosure`) |
| `GypLoad` | the loader, serial and parallel | the recursion of `LoadTargetBuildFile` as a stack; `ParallelState`, calls on their way to workers and back |
| `DependencyGraph` | `FlattenToList` | the list and the set of nodes that are ready; `pop` takes any. `GypTargets` takes these steps on the graphs that gyp builds, `GraphSpec` on any closed graph |
| `GypDicts`, `GypVars` | merging, filters, configurations, checks; variables and conditions | operators on Python values |
| `GypTargets` | `Load` | one action per function that `Load` calls; any of them may raise |
| `BuildRules`, `XcodeEnv`, `XcodeSettings` | what both writers share; the environment of Xcode's steps; what the settings of a Mac target say | statements of a build file; topological sort of variables; products, flags that depend on other settings or on paths, post-builds |
| `MakeWriter`, `NinjaWriter` | the two generators | operators that give the statements of a target |
| `GypMain` | the front end | operators on options and environment |
| `GypBuild` | a project over its life | gyp runs (one action per target), make or ninja starts, runs and ends jobs, files are edited, jobs fail, builds are interrupted, gyp runs again |
| `XcodeObjects`, `XcodeTargets` | `xcodeproj_file.py` | objects are numbers into a heap; IDs are what would be hashed |
| `XcodeGenerator`, `Xcode` | `generator/xcode.py`, and its properties | one action per target and project in each pass; files on disk with temporary ones |
| `FlagArgs`, `FlagValues` | `gflags.py` | command lines as options and words; one action per call of the interface |
| `EagerFold` | | loops over sequences that TLC evaluates in one pass |
| `MC*` | | models for TLC of the components whose instances are more than the constants in a `.cfg` |

What is abstracted in the JavaScript modules: the values of chunks, arguments, error objects and
domains. That a domain was disposed is a nondeterministic choice (the callback is skipped).
Frames that only pass an exception on are left out. The stacks hold only the frames that these
components distinguish. libuv is external: loop time is read once per iteration, the timer due
first runs first, repeating timers are restarted before they are called, idle handles run on
every iteration and keep the loop alive. In `Writable` the implementation calls back once
per chunk, as the contract of `_write` demands, inside `_write` or later; it does not write
to its own stream. In `Readable` it calls back once per `_read`, the chunks are bytes without
encoding, and of them only the number is kept, since they leave in the order they came. An
'error' listener is present (without one the error would be thrown).

In the Python modules: strings are sequences of tokens (components of paths, names, references),
never characters, except where prefixes of flag names matter; a regular expression is the set of
strings it matches; a hash function is injective; compiler flags, wording and layout are left out.
The order in which a set or dictionary is walked is arbitrary: every choice (`DependencyGraph`,
`GypTargets`), every order of the project files (`Xcode`), or one order and its reverse, so that of
any two names either comes first (`FlagValues`, `XcodeEnv`). make, ninja, the compilers, the tests' processes
and the pool of `multiprocessing` are external: make and ninja run a command when its prerequisites
are made and its output is older or its command changed; commands read what they read and write what
they write at one instant. A command that fails has left its outputs alone; neither tool could tell otherwise.

Bounds are constants: `MaxTocks`, `MaxFrames`; `MaxTime`, `ListIds`; `MaxImmediates`;
`MaxChunks`; `MaxBytes`; `MaxCases`, `MaxTasks`; `MaxRoots`; `MaxDepth` (Python's recursion limit);
`Jobs`, `MaxEdits`, `MaxFaults`; a program's `steps` in `FlagValues`. `Reentrant`, `MayFail`, `ReadInError`, `Faults` and `MayCrash` say
what user code or the environment may do.

## 3. Runs

| Run | Checks | Bounds, and why they are enough |
|---|---|---|
| `next_tick` | `OneTicker`, `TickOrder`, `SpinnerArmed`, `DepthBounded`, `EveryTockTaken` | 4 tocks, 3 frames, `maxTickDepth` 2: two passes, a third that is refused, a nested drain under a running one, a throw inside each |
| `link_list` | `Mirrored`, `ImplementsQueues` | 2 lists, 4 items: an item has neighbours on both sides that are not the sentinel, and can move between lists |
| `timers` | `ListsKept` (`TypeOK`, `ListsSound`, `EmptyStopped`, `TimelyWatcher`), `FiresOnce` (`OneShot`, `NeverNull`), `FiresRightly` (`NotEarly`, `Silence`), `EveryItemExpires` | six programs: a socket and a Timeout that share a list or have two, two Timeouts, a Timeout and an interval, two sockets, an interval that fires again and again; time up to 5, clock skew of 1 ms: the watcher fires early, late and at the right time for a re-activated item and is restarted; callbacks throw, enroll, unenroll, close, unref and clear at any point |
| `immediate` | `ImmediatesSound` (`Armed`, `InOrder`, `OncePerIteration`), `EveryImmediateRuns` | 4 immediates; time is relative and unbounded |
| `writable` | `Accounted` (`TypeOK`, `LengthExact`, `FinishLast`, `DrainPromised`), `WrittenInOrder` (`InOrder`, `OneAtATime`), `FinishComes` | 3 chunks of length 1 or 2, marks 2 and 1: one in flight, two buffered, or a nested write; with and without callbacks, failures anywhere and writes after them |
| `readable` | `BytesSound` (`TypeOK`, `LengthExact`, `OneRead`, `EndLast`), `EndComes` | 6 bytes in chunks of any size, `read()` of all, 1 or 3 bytes, marks 2 and 1, up to 4 frames deep where user code reads: reads that are satisfied from the buffer, by `_read` at once, after several `_read`, not yet, or not by a `_read` that completed at once with too little. With the default low mark 0 both properties hold too, but `onread` never calls `_read` again |
| `test_runner` | `VerdictSound` (`RunnerTypeOK`, `CountersAgree`, `VerdictHolds`), `OwnsWhatItUses` (`KillsOwnProcess`, `TempsAccounted`, `TmpIntact`), `StatusHonoured`, `MainEnds` | 2 threads and 2 cases of two suites: one is running, reporting or dead at each point of the other; `Popen` and `print` fail, Ctrl-C comes; status files with a known intent for each operator, section and definition |
| `gyp_load` | `SchedulingSound` (`LoadTypeOK`, `ReadOnce`, `PendingExact`, `ErrorExplained`), `LoadEnds`, `LoadsClosure` | 3 files with every dependency list of two of them (self, circular, repeated), one file that cannot be loaded, 2 files on the command line, workers that die |
| `gyp_targets` | `ResolvedAsIntended` (`TargetsTypeOK`, `AsIntended`, `RulesClaimOnce`, `NothingUnresolved`), `SortedForGenerators` (`FlatSorted`, `CyclesRefused`), `GivenByOthers` (`SettingsReach`, `LibrariesAdjusted`, `StillSorted`), `AnyOrder` (`MergeOrderFree`, `ConfigOrderFree`), `LastWordCounts` | graphs of 4 targets in 2 directories, so that a setting passes two exports and a change of directory; one project for each construct of the language and each fault; a generator that adds a path section, a key outside configurations and a list of sources for rules (`Generator`); `MaxDepth` 11 is deeper than any expansion that ends |
| `gyp_build` | `JobsSound` (`BuildTypeOK`, `ReadsMade`, `OneWriter`, `NeverStuck`), `BuildComplete` (`EverythingMade`, `UpToDate`, `NothingLeft`), `RegeneratesSame`, `MacTargetsSound` (`EnvResolved`, `CyclesRefused`, `BundleWhole`, `HeadersFit`, `SymbolsKept`, `LinkPathsBuilt`, `ProductsNamed`) | five projects by both generators (a tool that generates sources, libraries, rules, a Mac bundle, Windows), bundles with cyclic and contradicting settings, a plug-in outside a bundle with settings of its own, of the build file, and ones to refuse, 2 jobs, 1 edit, 1 failure or interrupt anywhere; seven command lines and environments for regeneration |
| `xcode` | `TreeSound` (`XcodeTypeOK`, `OwnedOnce`, `RefsResolve`), `ProjectFaithful` (`PhasesMatch`, `DependsOnAll`, `RemoteComplete`, `AllFirst`, `RaisedForCause`), `FilesKept` (`FileIDsStable`, `QuietAgain`, `NothingLost`) | four inputs, generated twice or before and after an edit, in every order of the files, with one failure or kill; thirteen inputs to refuse, among them another toolset, an unknown product type, a bundle of type none and a copy to no place |
| `gflags` | `RegistrySound` (`FlagsTypeOK`, `ListsMatch`, `HelpShowsAll`), `ParsedAsWritten` (`PrefixesShortest`, `OrderFree`, `FilesInlined`, `CommandLineWins`, `ReturnsUnparsed`, `UnknownNeedsUndefok`, `ValuesLegal`, `RoundTrip`), `CallsKeepTheirWord` (`NoTakeover`, `ResetRestores`, `AdoptShowsAll`) | four programs of 3 or 4 calls: definitions and deletions; overrides, also of a flag by another with its short name; command lines with prefixes, "no" forms, unknown and empty options; circular flag files, defaults, illegal values, reset, saving and reading |

A property with names in parentheses is the conjunction of these parts, each stated and
commented where it is defined. `TypeOK` and `DrainedBeforeExit` of `NextTick` are proved and need no run.

Most properties of the last five runs relate what the code produced to the input and are stated
for every instance; the instances are listed in the `MC` modules with what each is for.

`CHECK_DEADLOCK FALSE` stands where the system may stop: the process ends, user code has
made all its calls, the clock has reached its bound, or threads wait for a lock that died
with its owner. The other runs (`link_list`, `gyp_targets`, `gyp_build`, `xcode`) are checked
for deadlock; their final states stutter by an action of their own.

Fairness. `NextTick`: the steps of `_tickCallback` are sequential code (weak); the spinner
is an idle handle that libuv runs on every iteration, between any two events (strong); user
code at each depth of the stack returns, after any number of nested calls (strong).
`Timers`: the clock advances, `ontimeout` is sequential, callbacks return, libuv reads the
clock and runs what is due on every iteration, however much user code runs in between
(strong). `Immediate`: the loop iterates, and its clock advances again and again, not
necessarily in every iteration. `Writable`: calls return, the tick queue is drained
(`EveryTockTaken`), and the implementation calls back for every chunk. `Readable`: the same,
and user code that has begun to read reads until it gets null, as the documentation asks.
`TestRunner`: each thread is scheduled (weak), a process that got SIGTERM ends (tests do not
ignore it); a test that was not killed need not end. `GypLoad`: the main thread,
the workers and the pool's result thread are scheduled (weak); a worker that was killed answers never.

### Disagreements

The properties say what holds; where the code falls short of a comment or document, the
property names the exception, or the instance leaves it out, as listed here.

In node: `unref` of a cleared Timeout starts a Timer with `ontimeout` null and
`MakeCallback` aborts, although `timers.markdown:21` says clearTimeout "Prevents a timeout from
triggering."; of one that has fired, it fires it again (`NeverNull`, `OneShot` except them). The Timer of
an interval or of an unref'd Timeout is started with a delay from `Date.now()` (`timers.js:256-261`) but counts from
the time at which libuv last read its clock, so it comes early by the time callbacks took before the call (`NotEarly` allows that much). `ref` and
`unref` of a Timer closed in the same iteration give NULL to libuv (`handle_wrap.cc:59-84`, after line 97): the process dies. A
callback that clears the last waiting immediate and sets a new one runs it in the same
iteration (`timers.markdown:56` "popped off the queue once per loop iteration";
`OncePerIteration` excepts it). `write()` in an asynchronous write callback overtakes buffered
chunks and overlaps with the next one (`_stream_writable.js:80` "so that we don't end up in an
overlapped onwrite situation"): `InOrder` and `OneAtATime` fail with `Reentrant = TRUE`. A chunk written after an asynchronous error overtakes those the error left in
the buffer (lines 171-187 return before the buffer is processed, and 146 asks only for `writing`); `InOrder` allows it. `read(n)` whose `_read`
completes inside with fewer bytes gives null with nothing under way that could emit 'readable'
(`stream.markdown:203`), and so does one whose `_read` reports the end inside it: a consumer that then waits for an event waits for ever
(`mute`; `EndComes` allows the stream to stop there, if nobody reads again). `FinishLast` fails with 0 among `Sizes` (an empty chunk does not count);
`EndLast` fails with 0 among `Amounts` (`read(0)` after the end, with bytes unread, schedules
'end'), and `LengthExact` with `ReadInError = TRUE` (a listener of 'error' reads inside the
`read()` whose `_read` failed). `ontimeout` deletes the table entry of a list that its last callback registered after
closing its own (`timers.js:112`), and a listener of 'uncaughtException' that throws leaves its list without watcher.

In the tools: a case whose thread died is missing from the
verdict (`test.py:405`), a thread that dies reporting keeps the lock (134), tests share `test/tmp` under
`-j` (`simple/testcfg.py:66`). Loading in parallel ends with status 0 after an error, also if
two files of the command line merely share a dependency, and hangs when a worker dies
(`input.py:563`, `574`, `603`). Configurations that inherit from concrete ones depend on the order of
a hash table (2063). Precompiled headers and libraries without compiled
sources do not carry the order of generated headers (`make.py:1257`, `1403`). Regeneration makes paths
relative to depth but runs in the top-level directory (`__init__.py:187`). In Xcode projects a directory asked for twice
raises (`xcodeproj_file.py:1145`) and copies stand in reverse order (`xcode.py:1126`). In `gflags.py` reset of a MultiFlag appends its
default (1658; docstring at 1135), a MultiFlag with several values is saved on a line that cannot be read back (2414),
`--nohelp` prints the help (2032), of two values in flag files the last wins (1437 says the first), a flag given
twice takes the second value (1602 says "If this flag was already present, a FlagsError is raised", `Parse` only counts; `CommandLineWins` states what the code does),
and the help shows no flag that came by `AppendFlagValues`, since no module defines it (716 and 1154 promise "all"; `HelpShowsAll` excepts these).

## 4. Proofs

`NextTickProofs` proves, for every `maxTickDepth` in `Int`, every `MaxTocks` and
`MaxFrames` in `Nat`, with and without nested `MakeCallback`, that `Spec` implies
`[]TypeOK` (`TypeCorrect`), `[]OneTicker` (`ExclusiveDrain`), `[]TickOrder`
(`ExactlyOnceInOrder`), `[]SpinnerArmed` (`NeverStranded`), `[]DrainedBeforeExit`
(`EmptyAtExit`) and `[]DepthBounded` (`BoundedPasses`). The argument is one inductive
invariant: these formulas strengthened by `AtRest` (without an activation of
`_tickCallback` on the stack the index is 0) and `OverExiting` (once the loop has ended
`_exiting` is set, so nothing is queued any more). `OneTicker` alone is not inductive: that
no nested call splices the queue needs `inTick`, and that the index is within the part
counted needs the frame's `nextTickLength`; `SpinnerArmed` needs `OneTicker`, because only
the end of the one drain clears `inTick`; `DrainedBeforeExit` follows from `SpinnerArmed`
and `TickOrder` where the loop ends. Each action has its step.

`LinkListProofs` proves `[]Mirrored` (`LinksMirrored`) for any set of lists and any finite set of items. The links agree
only if no two lists share a node, which `Mirrored` cannot say; the invariant therefore
adds an owner for every linked node that is constant along the links, and each operation
gives the owner function after it. It also proves the refinement `ImplementsQueues` (`PointersImplementQueues`): with
the chain of each list for its queue every step of the code is a step of `IdleQueue`. The chain is the sequence that
follows the links from the list object round to it; that there is one is part of the invariant
(`Represents`: each operation says which sequences the links follow after it), and that there is only one holds because two of them
would differ at a least position. So nothing has to be computed along a list, and no induction over data is needed.

`ImmediateProofs` proves `[]TypeOK`, `[]ImmediatesSound` (`ImmediatesCorrect`) and the action property
`NeverAgain` (`CalledOnce`) for any number of immediates. `InOrder` needs that the queue is sorted by creation and holds nothing cleared (`QueueInOrder`) and that
the histories name only immediates that exist (`HistoryKnown`); `OncePerIteration` needs that the Timer
is due in the next iteration once an immediate has run (`NextIteration`).

`GypInputProofs` proves `[]SchedulingSound` (`SchedulingCorrect`) and that both loaders implement `GypClosure`
(`LoadingImplementsClosure`), for any build files, broken ones, command line and number of workers, and
whether or not workers die. The invariant says that each scheduled file not yet loaded is in one place only
(waiting in `dependencies`, with a worker, or in an answer: `Tokens`), which gives `ReadOnce` and `PendingExact`, and that
what is wanted and not loaded is in one of these places, on the stack or lost with its worker. `LoadInputOK`, in the specification, only gives the inputs their types.
Of `FlattenToList` it proves `[]SortedForGenerators` (`GraphSorted`) for `GraphSpec`: any finite graph without dependencies
outside it, which both builders of graphs check, and any order in which the set is popped. Nothing is listed before what it depends on, and
the list falls short of the graph, which is refused, exactly if there are nodes each of which depends on one of them. Invariant: the
set holds the nodes that are not listed and whose dependencies are, the list counts its nodes without repeating one, and no node of a cycle is ever listed. `GypTargets`
takes the same steps (`StartFlatten`, `Pop`); it reaches recursive operators, so the theorem is about `GraphSpec`.

`WritableProofs` proves `[]WrittenInOrder` (`InWrittenOrder`) and `[]Accounted` (`LengthAccounted`) for any marks,
sizes, callbacks, failures and number of chunks, with completions inside and after `_write` mixed. Its hypotheses are
two of the exceptions listed under "Disagreements": `Reentrant = FALSE` (a write callback that `onwrite` runs writes only where
no chunk waits and none is being written, and nobody writes while `end()` is half way through; all other code writes at any time, after errors too) and, for `Accounted`, no empty chunk; TLC shows that either property
fails without them. The invariant says where every chunk is (`Queue`): given to `_write` once, or in the buffer behind the `p` that a loop of `onwrite` has passed and not yet removed,
both in order but for chunks written after one had failed (`Excused`). That nothing overtakes before an error needs `Attended`: until then, chunks wait in the buffer only
while one is written or `onwrite` is going to go on with them;
`p` is read off the loop's frame on the stack, of which there is at most one, exactly while
`bufferProcessing` (`Loop`). That a nested `onwrite` cannot give the chunk after next to `_write` needs `CbAlone`:
a write callback that finds chunks waiting finds no other callback below. `onwrite` is taken apart as in
the code: `AfterCbKeeps` and `ProcessKeeps` are about the state between its assignments, so their invariant
(`Sound`) takes the state as arguments. The length is proved to be a sum by its partial sums, and what
holds of every chunk by a least counterexample (`LeastElement`), which needs no induction.

`TimersProofs` proves `[]ListsKept` (`ListsAlwaysKept`), `[]FiresOnce` (`FiresAtMostOnce`) and the action property
`FiresRightly` (`FiresOnlyRightly`) for any sockets, Timeouts and intervals (pairwise disjoint sets: `KindsAssumption`), durations, number of
lists and clock skew, with callbacks that do anything in the middle of `ontimeout`. `ListsInv` speaks of the queues, the table, the watchers and the fields of
the items as arguments, so that leaving a list and joining one are a lemma each (`LeaveKeeps`, `JoinKeeps`) that every operation cites, also the ones that do both.
`TimelyWatcher` is about the first item of a list and not inductive, since that one may leave: `Timely` says it of every item, which needs that
the most idle comes first (`Ordered`). That a list in the table is never empty without a watcher holds but while it is walked
(`EmptyWalked`). `FiresOnce` needs that an item in a list still has its function and has not fired (`ReadyInv`) and that
the Timer `unref` made has replaced the list (`OwnInv`); `NotEarly` needs that the clock `ontimeout` read is behind the present one (`FrameInv`)
and that a Timer of its own is due no earlier than it was asked for less the lag of the loop's clock (`Timed`), which also says that a closed Timer will not fire; `Silence` needs
that what stands in a list was activated and not taken out since (`ReadyInv`).

`ReadableProofs` proves, for any marks, amounts, number of bytes and depth of the stack, `[]OneRead` (`OneReadAtATime`) without hypothesis;
that the length is exact (`LengthIsExact`) if listeners of 'error' do not read; and `[]BytesSound` (`BytesAreSound`) if besides 0 is not among `Amounts`.
The hypotheses are the two exceptions under "Disagreements", which the run also makes. `OneRead` counts the `_read` calls that owe
a callback; what is inductive is that only the newest activation can be one (`OpenAtTop`), because `read()` and `onread` call `_read` only when none is
under way. `LengthExact` needs `Waits`: above a `read()` that waits for its `_read` nothing reads, since onread does not emit 'readable' while
`sync` is set, so the amount it decided on is still in the buffer when it is subtracted. `EndLast` needs `Ended`: after the end no `_read` is under way, and once 'end' is scheduled nothing is left.

`TestRunnerProofs` proves `[]VerdictSound` (`VerdictIsSound`) and `[]OwnsWhatItUses` (`OwnsOnlyItsOwn`) of `RunnerSpec`: `TestRunner` for any number of threads and
cases, any exit codes, expected outcomes and faults. `TestMain` is built on recursive operators, so no theorem can be about its specification; each of its steps leaves
`runnerVars` alone or is a `RunNext` or a `StartRun` step, which is what `RunnerNext` allows. None of the two properties is inductive: they say
nothing of the queue or of who has which case. The invariant follows each case: of the `n` cases the first `m` were taken, in order (`Scheduled`), by one thread each (`Holding`), and one that nobody has
any more was judged (`Verdicts`). `VerdictHolds` then needs that threads return early only after the main thread has died (`Control`), so that `ok` means an empty queue.
That `remaining` stays a natural number needs a count: it is at least the number of cases that may still be recorded (`Remain`), more when threads died with theirs.
`CountersAgree` needs what holds while the lock is taken (`Counts`), also by a thread that died with it; `TmpIntact`, that a process started now has not written (`Files`).

Only model-checked: liveness (fairness and ENABLED are out of the prover's reach), and the safety of the
modules that the theorems do not name. `GypVars`, `XcodeEnv`, `TestStatus`, `FlagArgs` and what is built on them are recursive programs
over data: what they compute needs induction, so their properties stay with TLC, and so do those of `GypBuild` and `Xcode`, whose steps run them.

## 5. Not modelled

`PROJECT.json` gives a reason for each component. In `lib/` and `src/`: pipe and old mode of
readable streams, Transform, the HTTP agent, cluster, IPC, sockets and domains, which would be
further modules of the same kind; thin layers over system calls and OpenSSL; data conversion; front ends.
In `tools/`: the Visual Studio generators (tables of settings and writers of XML), the generators this
repository does not use, the linters (rules over text), straight-line build scripts. Within the
modelled parts: compiler and linker flags that a setting merely turns into text, queries of xcode-select and SDK versions, target names that begin with "lib", configurations but the first, Windows-only steps of ninja (manifests, rc, midl), texts of help and
errors. The instances of `gyp_build` run gyp with depth equal to the top-level directory and do not model
the compilers' environment variables; those of `gflags` exclude
flag files whose last line has no end of line and text attached to letters without argument.

## 6. Next

In `lib/`: `pipe`, where `awaitDrain` counts the full destinations (the hazard no property covers), then the HTTP
agent and the queue of handles of IPC, on top of `Readable` and `Writable`. In `tools/`: the linter that uses the flags library.
