# unsynced: a TLA+ model of crash-state enumeration and checking

`unsynced` records what a workload does to a directory, enumerates the states a
power cut could leave on disk, runs the user's checker on each, and explains
the failures it finds. A mistake in it is silent: a crash state it never builds
or attributes to the wrong marks is a bug in the user's program nobody hears
of. This directory specifies the parts that decide what is taken to have
happened, which states are built from it and what is said about them, checks
them with TLC and proves the central facts with TLAPS. Source paths below are relative to the repository's `src/` directory.

## 1. Inventory

| part | source | state | operations |
|---|---|---|---|
| Traces and trees | `trace.rs` | the ops and the initial snapshot; a tree is a map from paths to entries | `Op::path`, snapshots, bundle load and save, `sync_to` |
| Inode image | `model.rs` `Fs`, `Node`, `Micro` | nodes by inode number, entries of directories | `from_tree`, `lookup`, `apply`, `to_tree` |
| Compiler | `model.rs` `compile` | volatile view, micro-ops with their `durable_at`, pending maps, `op_end`, `marks_before` | one iteration per op: replay, emit, register, barrier |
| Crash states | `crash.rs` | none; it reads a `Program` | `in_flight`, `candidates`, `close`, `materialize` |
| Checking engine | `check.rs` `check`, `Engine` | jobs, claim counter, results, verdict cache, groups | enumerate and dedupe, thread pool, minimize, explain, hint |
| Recovery checking | `check.rs` `check_with_recovery` | traces seen, recoveries noted, the growing report | note recoveries from the checker, sort, check each, merge |
| Recorder | `record.rs` | the log, handles with their offsets | perform a call and log it |
| strace front end | `strace.rs` | descriptors and working directories per process, sizes and directories under the root | join the lines of a call, apply it |
| Command line | `main.rs` | none | arguments, the checker command and its timeout |
| Example log | `examples/wal.rs` | one log file | put, read, repair |
| Facade, report printing | `lib.rs`, `check.rs` 550-620 | none | wording and re-exports |

**Interactions.** A front end (Recorder or strace) yields a `Trace`. `check`
compiles it to a `Program` once; then the program is read only. The engine asks
`candidates` for each crash point, closes and materializes each candidate, and
keeps those with a new pair of content and marks. Each thread has one directory,
which `sync_to` turns from whatever the last checker left into the next state;
the command line's checker then runs a shell command there. Threads share the counter
`next`, the vector of results and the first I/O error, and call the checker the
caller passed in. Minimizing is sequential; it shares the verdict cache filled
by the pool. `check_with_recovery` calls `check` with a checker that itself
writes to two shared collections, and afterwards calls `check` once per
recovery it noted, with what is left of `max_states`.

**What is hard**, and what makes each part correct:

- *Compiler*: one pending list per inode, fed and drained by a long mix of ops;
  micro-ops renamed across directories; a barrier must cover what its
  inode's history put there and nothing more; the bookkeeping is shared by all
  crash points although it is still growing. Correct if the volatile view is
  the POSIX directory, barriers are those of `docs/model.md`, and earlier
  points never change.
- *Crash states*: two ext4 rules applied once each, in one order; a boundary
  at which the search changes from exhaustive to a battery. Correct if
  `close` yields the least legal state, nothing legal is missed
  below the boundary, nothing illegal tried above it, what was synced is in
  every state, and no state shows bytes that never were.
- *Engine*: threads, I/O errors in the middle, a cache and a dedupe keyed by
  content and marks, one-pass minimization. Correct if each job is judged once,
  the report counts every rejected state, minimized states are real, and `check`
  returns.
- *Recovery*: two locks taken one after the other by many threads, a dedupe
  whose key leaves the marks out, a shared budget.
- *Recorder*: performing and logging are two steps; handles keep paths and
  offsets of their own. Correct if the log, replayed, is the directory on disk,
  and what it says is durable was synced.
- *strace*: the same, from lines that come when calls end, with offsets shared
  by `dup`, `fork` and threads, and sizes and directories mirrored by path
  across renames. Correct if also the mirror agrees with the log after each line.
- *sync_to and the command*: a snapshot that ages while the directory changes;
  a timeout racing an exit. Correct if a command starts on exactly its state
  and always gets a verdict.
- *Example log*: a repair that is crashed while it repairs. Correct if
  acknowledged puts survive any number of crashes.

`PROJECT.json` lists every hazard at its line with the properties that cover it.

## 2. Modules

```
Fs ── Compile ──┬── CrashStates ──┬── MCNamespace, MCData
  │             │    │            └── Wal ── MCWal
  ├── Crash ────┤    ├ implements Durability
  │             │    └ implements PosixDir
  │             └── Engine ── MCEngine
  └── Kernel ───┬── Recorder (with Compile) ── MCRecorder
                └── Processes ── Strace (with Compile) ── MCStrace
Recovery ── MCRecovery
Worker ── MCWorker

Induction ── ProgramProofs (Fs, Compile, Crash) ──┬── CrashProofs (CrashStates)
    │                                             │       ├── RecorderProofs (Recorder)
    │                                             │       └── WalProofs (Wal)
    │                                             └── EngineProofs (Engine)
    └── RecoveryProofs (Recovery)
WorkerProofs (Worker)
```

**Fs** - the inode image. A node is a directory (`entries`, a function from
names to inode numbers, `NoIno` where there is none) or a file (`buf`, `len`);
`Apply` has a branch per `Micro`. `FromTree`, `Lookup`, `ToTree` translate
between paths and inodes; `Walk` visits like the code's `walk`, an inode once.
Paths are sequences of names, bytes are numbers.

**Compile** - `compile`. One step is one iteration of the loop
over ops, so after k steps the variables hold the program of a k-op trace and
TLC's search over steps is a search over all traces up to `MaxOps`. `failed`
is the `Err` return. The pending maps are relations between inodes and micro-op
indices, since `flush` does not depend on the order of a list. `CompileOp` is
the whole iteration: micro-ops, registration, barrier, `op_end` and
`marks_before`.

**Crash** - `in_flight`, `close`, `candidates`, `materialize`, over a program
record. The `samples` random subsets are a parameter, so every
pseudo-random choice is covered. `Legal` states the profile's rules as a
predicate; `close` is compared with it.

**CrashStates** - the program of any trace (Compile) with its crash states
(Crash), and the properties that need both. A crash after the last op of a
trace is considered; a crash at an earlier point is a crash after the last op
of a shorter trace, which is what `InFlightStable` says.

**Durability** - what barriers promise, with no pending lists: micro-ops are
issued, a barrier makes durable those that concern its inode (and the journal
on ext4), nothing becomes volatile again. **PosixDir** - a map from paths to
entries and what each op does to it, with no inodes.

**Engine** - `check`. Phases `compile`, `enumerate`, `pool`, `explain`, `done`.
Compiling is Compile's steps on one of the given `Traces`. `EnumeratePoint` is
an iteration of the loop over points, with the cut at `max_states`. In the
pool each thread claims (`fetch_add`), then finishes or fails its job; these
interleave freely. `Collect` is what follows the scope. `NextFailure`,
`TryAdd`, `Classify` and `Finish` are the sequential explaining: attribution to a known cause,
one `try_add` of `minimize`, then `explain`, `hint` and grouping. The checker's
verdict on a key is chosen when it is first asked and remembered by the
environment (`checker`), so every deterministic checker is covered, also those
not monotone.

**Recovery** - `check_with_recovery`. The workload's `check` is reduced to what
it does with its checker: calls from a pool of threads, one per job, then
calls on further states while explaining, among them the question asked as if
nothing had been acknowledged. The checker is split where threads can
interleave: recover, insert into `seen`, push to `recoveries`, verify. Then the
recoveries are explored in order of their point, with budget, truncation and the merge
of vulnerabilities. `recover` is a function of the directory, and
`verify` rejects an arbitrary set of pairs of a tree and marks. What the loop over
one check's failures makes of them (`Attributed`, `Explanations`) depends on the ops
lost in each, which Recovery leaves out: any failure may be minimized, and put down
to any cause, up to `Options::explain` of them; any other may be covered by a cause
found so; and one that is not is dropped once the limit was met. `reported` is a
history of what each check named and whether it met its limit.

**Kernel** - what the operating system does to a directory, on images of Fs:
create, remove, move, write, resize, and when they succeed. It is external: it
is what Recorder and the traced command call.

**Recorder** - `record.rs`. Threads of a program call methods of one Recorder.
A call that is done first and logged after is two steps (`Rename1` and the
like, then `LogAndReturn`); `create` and `append` are three: look at the path,
log, open. Pushing an op on the log is `CompileOp`, so `v` is the directory as
the log has it, to be compared with `real`, and `durable_at` says what the log
claims is durable, to be compared with `synced`. A handle has the code's
fields; `ino` is what its `File` refers to.

**Processes** - external: processes and threads with descriptor tables, open
file descriptions and working directories, running the programs of an
instance. A call takes effect in one step and its line comes in a later one,
which is how the lines of concurrent calls get out of order. **Strace** -
`State`: one action for each arm of the match in `State::apply`; `Exit` is an
iteration of `parse` for a complete call. Its log is compiled as Recorder's
is. Lines carry the descriptor paths `-y` prints; splitting a line's text is
not modelled.

**Worker** - `Tree::sync_to` and `run_checker` for one worker. `Load`, then one
step per entry in both loops of `sync_to`, any of which is an I/O error when
the operating system would refuse it (`IoError`); then spawn, poll, compare the
time, kill. The command may put the directory in any state, exit, or hang. A
`BTreeMap` of path strings has directories before their content; all orders
with that property are allowed.

**Wal** - `examples/wal.rs`: its workload and repair as sequences of ops
compiled one by one, and a `PowerCut` at any point to any state `close` allows,
after which `repair` reads what is there and is itself compiled. Any number of
crashes may follow one another, where `check_with_recovery` tries two.

**MC...** modules hold the ops, traces and trees of the instances.
Operators marked "Faulty variant" are plausible mistakes in the
definition that follows them; each property is refuted when one of them takes
that definition's place.

## 3. Runs

Run a configuration with `tlc -config MCData.cfg MCData`; each finishes in
about two minutes or less.

| run | configuration | asks |
|---|---|---|
| namespace | MCNamespace | `TypeOK`, `PendingOK`; the image after replaying the micro-ops is the volatile view; earlier points are stable; a synced directory or file is in every crash state; Durability and PosixDir are implemented |
| data | MCData | bytes in crash states were really there (or zeros, on posix); replace-via-rename is atomic on ext4; synced files survive; PosixDir again, with data; `close` gives the least legal state; exhaustive search is exactly the legal states; the battery is legal and has all cuts |
| engine | MCEngine | every job ran; no pair of content and marks is judged twice; the report counts the rejected states; minimized states are real, and minimal for a checker that does not reject more after accepting less; failures are attributed once; a suggested fsync covers what was lost; `check` returns |
| recovery | MCRecovery | recoveries are explored once, with real marks, within the budget; their failures are counted apart from the workload's, none twice, and none is left out where `explain` was not met; every cause a check named is reported, with the earliest first crash that led to it |
| recorder | MCRecorder | the log of two threads replays to the real directory, and, on posix, claims durability only for what was synced |
| strace | MCStrace | the same of the reconstructed log; the mirror of sizes and directories is the log's, the mirror of offsets the kernel's |
| worker | MCWorker | each command starts on exactly its state; `sync_to` never trips over itself; each command gets a verdict |
| wal | MCWal | the fixed log passes its checker after any number of crashes; a finished repair leaves no tail |
| recovery_marks | MCRecoveryMarks | refutes that a clean report means recovery survives a second crash |
| strace_fork | MCStraceFork | refutes `LogIsReal` when a child's line comes before the clone's |
| worker_forks | MCWorkerForks | refutes `StateIsExact` under `ForkingSpec`, where a killed command leaves processes |
| recorder_open_fails | MCRecorderOpenFails | refutes `LogIsReal` when `File::create` fails |

**Bounds, and why they are enough.**
*namespace*: every trace of at most 4 of 18 ops over 2 names and two levels,
both profiles. Four ops hold a rename there, a rename back, a creation in
between and a barrier, which is the longest interplay between two pending
entries of one inode; directories move into one another and out again.
*data*: every trace of at most 4 of 14 ops on one or two files, blocks of 2
bytes, files of at most 3 bytes: below, at and over a block boundary, with
holes, and truncated both ways; create, write, rename and fsync fit in four
ops. The exhaustive limit of 5 leaves traces on both sides of it. The battery's
pseudo-random samples may be any subset.
*engine*: 7 traces of at most 3 ops, both profiles, 2 threads, any verdict on
any state and an I/O error at any job and at any verdict; exhaustive limit 3,
9 states and 2 minimizations, each of which some behaviour reaches; no random
samples, which the battery of *data* covers.
*recovery*: 5 contents, 2 counts of marks, 3 recoveries that write, 2 threads,
`max_states` 5, which some pairs of recoveries use up exactly and the three
overrun; two causes and at most 2 minimizations per check, for up to four failures
of the workload and three of a recovery, so failures are covered below the limit and
covered or dropped at it.
*recorder*: 2 threads and any 4 logged ops out of 16 calls, on a directory that
holds a file: opening, writing and syncing a file, or renaming over it, fit
while the other thread does the same elsewhere.
*strace*: 3 programs for two tasks of up to 6 and 3 calls, about descriptors,
about names and about barriers; at each step a program has alternatives, and
any call may fail. Between them they have `dup`, `dup2`, `O_APPEND`, `lseek`
and inherited descriptors, numbers reused after close and exec, threads and
processes, renames of directories, over targets and out of the root.
*worker*: all 20 trees over four paths three levels deep, as state and as what
a command leaves: a path is a file in one, a directory in the next and absent
in a third, with any order the loops may take.
*wal*: the 3 puts of the source in blocks of 1 byte, so a record tears between
any two bytes; both profiles; crashes without bound.

`CHECK_DEADLOCK FALSE` appears where a trace is at its bound, a program has
ended or compiling has failed: the system really stops there. Engine, Recovery
and Worker have a next step everywhere and are checked for deadlock.

**Fairness.** `Termination` (Engine) and `JobsGetDone` (Worker) need it. The operating system schedules every
thread of the scope, hence weak fairness of each thread; the code between the
scopes runs on, hence weak fairness of the sequential steps and of enumerating.
The checker is assumed to return (the command line kills it after a timeout).
In Worker the thread's own steps are weakly fair, those of `sync_to` and those
of `run_checker`, and so is the passing of time; the command need never exit.
No fairness is put on a particular outcome: I/O errors and verdicts are free.

## 4. What the refuted runs show

1. **Recoveries are verified with the marks of whichever thread came first**
   (`check.rs:183`). A crash state with the same content before and after a
   mark gives the same recovery trace; it is deduped by trace, so a verifier
   that demands more after the mark is never asked about the second crash of
   the later one. The report can be clean although `docs/model.md:113-116`
   promises otherwise, and which marks are used depends on scheduling. The
   property assumes a verifier that never demands less after more marks.
2. **A child that writes before its `clone` line is logged at the end of the
   file** (`strace.rs:320`). The code knows that a child may come first
   (`strace.rs:594`) and keeps what the child *opened*; but a descriptor it
   inherited and used is taken for one never opened, put at the end of the
   file, and kept so when the clone's line comes.
3. **A timed out command's children live on** (`main.rs:227`): only the shell
   is killed, and the worker's directory is reused at once.
4. **`create` and `append` log before they open** (`record.rs:70`, `:89`): when
   opening fails the log has an op that never happened.

Smaller divergences that were met have no run of their own. A logged write of
no bytes past the end of a file grows it in the model (`model.rs:290`); the
Recorder logs such writes, strace drops them but counts them in its sizes
(`strace.rs:459`). One greedy pass of `minimize` is not minimal for every
checker (`check.rs:401`). `Unsynced` is also the last resort, with nothing
acknowledged (`check.rs:450`). A reordering hint finds its rename by path
(`check.rs:521`), so it can name the rename of another file.

## 5. Proofs

Checked by `tlapm`; for every value of the constants, so for traces, trees,
names and block sizes of any size. Every inductive invariant below was checked
by TLC on the instances before it was proved.

- `Induction` has the induction the other modules need, in forms the provers can
  use: stated for a set of numbers or of sets, not for a predicate. A sum over a
  set is the number of its units, so sums are counted, added and compared by
  cardinality. `ProgramProofs` has the facts about Fs: what `Sorted` puts where,
  that the run of `ApplyAll` exists, is unique and can be split, which inode a
  micro-op can touch, that `FromTree` builds an image, and what the walk lists of
  an image that is a tree; and those about Crash: `close`, the masks and the
  lists of the battery.
- `ProgramProofs`: **CompileTypeOK** and **CompilePendingOK**. The inductive
  invariant is `TypeOK /\ PendingOK`. `PendingOK` needs `TypeOK` because "the
  new micro-ops" are those past `op_end`'s last entry, and `TypeOK`
  is stated with `durable_at` in a range that makes NEVER and a barrier
  distinct. The step is split into two shapes every op has: `Emit` (append
  micro-ops and register them) and `Flush` (make a set durable and take it off
  the lists); `StepCases` shows each op to be one of them, `EmitKeeps...` and
  `FlushKeeps...` that each keeps the invariant.
  **CompileImageOK** adds what the crash states need: `v` and `base` are
  images with the same inodes, every micro-op names inodes they have, of the
  right kind, and replaying all micro-ops on `base` gives `v`. A node created by
  a later op is in `base` from the start; replaying the earlier micro-ops leaves
  it alone, because none of them names it.
- `CrashProofs`, the directory as paths: **CompileImplementsPosixDir**. Compile knows inodes and links,
  PosixDir only paths, so the refinement mapping is `ToTree(v)`, the walk itself. The inductive
  invariant (`Kept`) says that the volatile view is a tree - no inode is reached by two
  paths, and a directory has finitely many entries - and that no file has bytes
  behind its end (TLC checked it for paths of up to 5 names). Only in such an image does the walk list exactly
  the paths that `Lookup` resolves (`ToTreeIs`, by induction over the
  directories still unseen); a crash state may reach a directory twice, and there the
  walk depends on which path comes first. From then on an op is a change of one entry: what it
  does to every `Lookup` gives what it does to the tree (`CreateTree`,
  `UnlinkTree`, `RenameTree`), and the image is a tree again. For a rename this
  is where the code's check that the target is not inside the source is needed: without it
  the subtree would be cut off. For the data, the chunks of a write, in the order they are emitted, give the bytes
  of the whole write (`WriteTree`), and a truncation cuts or shows zeros because
  nothing is left behind the end (`TruncateTree`). `FromTreeShows` is the
  initial state, and needs that a snapshot lists a directory before what is in it
  (`TreesAssumption`, `model.rs:113`).
  The theorem is about ops a directory has (`DirectoryOps`): no write of no bytes, of
  which it is false (`model.rs:290`, section 4), and none that removes or moves the root.
- `CrashProofs`, barriers and `close`: **CompileImplementsDurability** shows that each op of `compile` is the
  Durability step it stands for. `PendingOK` is what makes it true: what is not yet durable
  is listed under the one inode whose fsync covers it, so flushing the list is
  covering the inode. **CloseGivesLeast**: for ext4, the metadata prefix is
  closed under "earlier metadata", and the data it orders brings in no metadata,
  so a second round would add nothing; the least legal state is reached in
  one pass. **EarlierPointsAreStable**: a step changes `durable_at`
  only of micro-ops that were NEVER durable and to an op later than every
  earlier point, and `op_end` and `marks_before` only at their end.
- `CrashProofs`, the search: **ExhaustiveMissesNothing** - every subset of what is in flight
  is the bits of a mask below 2^n, so every legal state, being its own closure,
  is tried. It assumes `ExhaustiveLimit < WordBits`: beyond, the shift of
  `crash.rs:50` wraps and most subsets have no mask (section 6).
  **BatteryReachesCuts** - a cut of the program order at any micro-op is, up to
  what is durable, the cut at the next one in flight, which the battery lists, or the
  whole flight.
- `CrashProofs`, what is kept: **ReplayGivesVolatile** is the last conjunct of `ImageOK`.
  **FsyncKeepsItsPromise** and **ReplaceLosesNothing** compare two runs of
  the same micro-ops, one in full and one of a crash set: as long as both apply the same
  micro-ops to an inode they agree on its node. For the file of an fsync
  every micro-op of its inode is durable; for the file a replacing rename installs,
  `close` has put in every earlier write and every earlier size change. For a
  directory, an entry differs only after a rename out of it that is
  durable with its target and not with it.
- `CrashProofs`, the bytes: **ShownWasWritten**. The invariant (`BytesOK`) is a fact about
  the program alone: files start whole, and every byte a Write carries was
  seen at its place at some moment of the run that loses nothing. It is inductive because the
  chunks of a write are pieces of one datum (`ChunksArePieces`), so after all
  of them, and the size change where the file grew, the file shows every
  byte; a later op leaves what was seen earlier, as a file depends on the micro-ops
  about it alone (`FilesAgree`). Then, for any legal state: a byte
  of a buffer is a zero or was seen, which is all posix promises. On ext4, at a size
  extension that persisted, the file is what the program had at that moment, since
  `close` has brought in every write and size change before; between extensions no reader gets
  behind the end. Lengths agree with the program's as long as no size change is lost.
- `EngineProofs`: **PoolRunsEveryJob**. The invariant: a job that was
  claimed has a result or a thread at work on it, or some thread met an error; a
  thread stops only for an error or when no job is left to claim. `max_states` bounds the jobs, so the mark of a stopped thread is
  no job; there are finitely many candidates (2^n of n micro-ops, or the
  battery), so the new jobs of a point are a sequence. **NoStateCheckedTwice**:
  sorting gives each number of a finite set exactly one place, so the jobs of
  a point have keys of their own, new to all earlier jobs; in the pool
  a job that runs has no result and one thread; when the pool ends the cache holds
  every key the checker ran on, and explaining asks it first.
  **ReportedIsReal** (`RealInv`): jobs are legal states with their own keys,
  results and cache hold only what the checker said, and what is minimized was rejected
  with the marks of its point; a trial that is accepted as the new minimum was itself
  rejected. **ReportCountsRejected** (`ReportInv`): unless `max_states` cut the search, every candidate of
  every point before `point` has a job with its key, and a finished report
  follows a pool in which every job has a result. **GreedyIsMinimal** (`MinimalInv`):
  each lost micro-op of the state being minimized is still to be tried,
  or some accepted state has no more than its re-persisting keeps; shrinking
  what is lost keeps such a witness. **FailuresAttributedOnce** (`CountInv`):
  occurrences, and the failures still waiting, add up to
  the rejected jobs until the limit of minimizations is used up, and to no more afterwards.
- `EngineProofs`, the hints: **HintsCover**. A hint names a file by a path, what has to be
  flushed belongs to an inode, and paths are reused by later ops. The invariant
  (`HintInv`): every micro-op has, right after its op, a path that leads to the inode
  that flushes it - the op's own path for data, the directory of the changed entry
  otherwise - and a group's fsync hint is that path for the first micro-op it lost.
  `OpIsFound` shows it of each op, from the volatile view being a tree: linking,
  unlinking or moving an entry leaves every path that does not run through it where it
  was, so the parent is still found. `StaysFlushable` keeps it while the trace is
  compiled on: replaying a prefix of the micro-ops gives the same image, up to the node
  a later op creates, which no path leads to yet. It assumes that no op removes or moves the root
  (`RootStays`, which the ops of run engine satisfy).
- `RecoveryProofs`: **RecoveryMarks**. The invariant adds that whatever writing
  recovery the checker was called on is in `seen`, and that a thread past the insert
  has its trace there. A call with empty marks happens only for a directory
  the checker was called on before, so it can never be the one that is noted.
  **RecoveryWithinBudget** holds of every schedule: only a recovery that wrote is
  ever noted, so `Taken` is a prefix of at most the budget left, and
  `recovery_states` stays within `max_states` from phase to phase; that the phases
  follow each other needs that no thread works once the pool is over.
  **RecoveryEarliest** (`EarlyInv`): the recoveries are explored in the order of
  their points, so those left are no earlier than any checked; each vulnerability carries
  the point of a check that named it, and a cause named again is found already.
  It is about what the checks named: where a check meets `Options::explain` it may drop a
  cause, and `in_recovery` is then a later crash whose recovery showed it.
  **RecoveryCounts** (`CountInv`): a check's failures that were put down to causes are counted
  once each (`TallySums`), and they are all of them unless the limit was met (`ExplanationIs`);
  merging adds those of a recovery to recovery's vulnerabilities and never touches the
  workload's. **RecoveriesExploredOnce**
  (`SeenOnce`, `SpentInv`): a tree that is in `seen` is with one thread, or noted once, or
  explored; and `recovery_states` is the sum over the trees explored
  as long as nothing was truncated.
- `RecorderProofs`: **RecordedIsReal** is `Recorder.LogIsReal`, for any number of threads
  in any interleaving of calls done for real and calls logged. The invariant
  (`RecorderInv`): the calls under way are about paths of which none is at or below
  another's; at all other paths the view of the log and the directory on disk show the
  same; and at the paths of a call, what they show differs by exactly what its missing op does
  there (`Effect`), or, for `create` and `append`, which log first, by what their open will do.
  Both images are told apart only by what a path shows (`Sees`), because their inode
  numbers differ: the disk makes its nodes in the order of the calls, the log in that of
  its lock. The view's half rests on CompileImplementsPosixDir, op by op (`LogHasEffect`); the
  lemmas `MadeShows` to `SizedShows` say the same of the system calls. Each action is a `Turn`
  of one thread, and `TurnKeepsInv` shows once that a turn leaves the other calls what
  they wait for; that a file which `append` or `create` has logged can be made on disk (`OpenIsPossible`) holds
  because no other call under way is about its directory. Assumed are that opens the directory
  allows succeed (`~OpenMayFail`; run recorder_open_fails refutes it otherwise) and that no write is
  of no bytes (`WritesSomething`, the divergence of section 4).
  **RecordedIsSynced** is `Recorder.DurableWasSynced`, under the same assumptions and the posix
  profile. On ext4 it is false, and is meant to be: there the journal makes a size of one file durable with the
  fsync of another (`JournalCommit`), which nobody synced; so run recorder takes posix too. The
  invariant (`SyncInv`), next to `RecorderInv`: where no call is under way, a file of the log
  without data in flight has the content its file on disk was last synced with
  (`SyncedAs`); at the paths of a call, that is owed (`Owed`) - of a file that was renamed, to the
  path the log still has it at (`Source`); of a file that was written or cut, nothing, as
  logging that puts data in flight; of a file that was synced, that it was not changed
  since (`Saved`), from which the fsync follows when it is logged, because by then the log and
  the disk show the same there. `LogDue` is what compiling an op makes durable: only an
  fsync of that very inode does (`LogDurable`, from `PendingOK`). Each turn keeps the invariant
  by what it owes (`SyncTurnKeeps`).
- `WalProofs`: **WalCrashesAccepted** and **WalRepairCuts**, for any block size, both
  profiles and any number of power cuts at any op of the workload or of a repair. They are about the log as it
  should be written (`FixedLog`: checksums, the directory synced, repair by truncation, started in an
  empty directory); the faulty variants are the mutants of run wal. The invariant (`WalInv`) says
  where the program is: at each of its eleven ops how many puts the log holds, how many
  are acknowledged, and that at most one op is in flight, which the next fsync covers
  (`AwaitsFsync`); likewise for a repair, which has a torn put to cut off, has cut it off,
  or is done. Its last part, `CrashesGood`, is stronger than what the checker accepts: every
  crash state is a directory with nothing in it, before anything was acknowledged, or with the log
  alone, which is whole (`Exact`) or has one torn put behind whole ones (`Torn`). What the checker
  accepts would not be inductive: the next repair reads the bytes of the torn put, not what was
  accepted. Each op of the log is one step: a crash after a `write` keeps some of its
  blocks and perhaps its size (`EmitCrash`, `SomePut`), so each byte of the new record is
  written or reads as a zero (`PartContent`) - whatever the blocks are; then its first byte is 0, or its checksum
  does not fit, or it is all there (`TornReads`). A crash after a `truncate` keeps the torn put or cuts it off. After
  an fsync nothing is in flight and a crash loses nothing (`QuietCrash`). At a power cut
  the directory found is the next program's snapshot (`GoodIsSnapshot`, `FromTreeShows`), and
  `GoodIsRepaired` says which repair it gets. The checksum enters as one that
  tells the two payload bytes from the same with zeros among them (section 6).
- `WorkerProofs`: **EveryStateIsExact** and **SyncAlwaysSucceeds**, for any set
  of trees. The invariant describes the directory inside `sync_to`: in the loop
  that removes it is the snapshot minus what was visited and not kept; in the
  loop that creates it is the wanted state where the loop has been, and the
  kept entries elsewhere. It is inductive because nothing kept lies below an
  entry that is removed (the state would have a directory there), and because
  each path comes after the directories above it. Both theorems assume that no
  process outlives a killed command (`~Forks`); without it the first is refuted
  by run worker_forks.

Assumptions, all named and evaluated by TLC on the instances:
`NamesAssumption` (names are their ranks),
`CompileAssumption` (profiles, a positive block size - the code takes
`block.max(1)` -, offsets are naturals), `PathsAssumption` (trees are finite, trees and
ops name files by paths), `TreesAssumption` (a snapshot lists the directories its files
lie in: `load_into` does), `BytesAssumption` (contents are bytes, lengths are numbers), `WordAssumption`, `SearchAssumption`,
`EngineAssumption`, `RecoveryAssumption`, `RecorderAssumption`,
`CallsAssumption` (calls name files by paths), `ProcessesAssumption`, `WalAssumption` (the shapes of the inputs), and
`WorkerAssumption` (every entry of a tree lies in directories of the tree).

**Only model-checked:** liveness (`Termination`, `JobsGetDone`);
`CleanMeansRecoverable`, which is refuted; Strace.

## 6. Abstractions

- Hashes are the values hashed: collisions of the 64-bit keys are left out.
- The checker gets the directory and the marks. The code passes the crash point
  too, which the dedupe ignores; a checker that looked at it could have its
  verdict on an equal state at another point replaced by the first one's.
- In Engine and Recovery a materialized state is exactly what the worker's
  directory holds when the checker runs. Worker shows that of `sync_to`.
- Inode numbers of the model are those of the code; error messages, report
  wording, and statistics are left out. `survived` is used in full; the report
  prints five.
- `1u64 << m` counts the masks of the exhaustive search with `WordBits` bits.
  A limit of 64 or more would let the shift wrap (`crash.rs:50`), but
  2^63 subsets are out of any search's reach, and no run sets it.
- Ops on the root path other than fsync are not among the inputs: a workload
  neither removes nor moves the directory it is run in.

**What is taken for granted of a workload**, as the code does:

- Recorder (`Ordered`): a program orders its conflicting calls, and neither
  writes through a handle whose file was renamed (`RecFile` says that this is
  not tracked) nor appends to a file another handle changed. Otherwise the
  order of the log is that of a lock taken after the call. `OpenMayFail` adds
  opens that fail for reasons the directory does not show.
- Strace (`Independent`, `KnownChild`, `Plain`): calls that overlap are about
  different files and do not change descriptors of one table; a child uses
  inherited files and relative paths only after the line of its clone
  (`ChildFirst` lifts that for descriptors); working directories are not moved,
  nor changed by a thread; no `pwrite` on a descriptor that appends, no writes
  of no bytes, no rename of a path onto itself; only stdout is inherited from
  strace, and pids are not reused. A workload that breaks one of these gets a
  wrong log; `PROJECT.json` lists them as hazards without a property.
- Wal: a checksum distinguishes all payloads; the ops are those the Recorder
  logs for the calls of the example.
- Worker: checkers leave only regular files and directories behind, as the
  comment above `sync_to` says.

## 7. Not modelled

Splitting and unescaping strace's text (`strace.rs` 102-248), starting strace,
bundle files, argument parsing and report printing keep no state a property here
is about. Of the arms of `State::apply`, `O_TMPFILE`, `RENAME_EXCHANGE` (each a
warning and nothing else) and writes cut short by strace (an error that ends
the parse) are left out.

What would come next: that every ext4 crash state is a posix crash state, proofs about the strace front end,
and descriptors inherited from outside of strace in Processes.
