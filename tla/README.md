# spn: a TLA+ model of the build

spn is a package manager and build tool for C. This directory holds TLA+
modules that model spn from the manifest to the staged program: resolution and
options, units and the build graph, the scheduler that runs it, the threads and
the disk beneath, and the front ends that read and write text. TLC configurations
check them on small instances; TLAPS proves the safety of everything that runs
concurrently or shares a disk (the scheduler, the thread pool, the operation queue,
the host, the file cache, the store, the git cache, publication and staging) for every
graph and any number of threads, processes, files and machines; and, of what is
sequential, that options and dependencies settle, that units are complete, and that the
installer keeps a home directory sound, for every package graph and every home.
Paths are relative to the repository's `source/`.

Run a check with `tlc -config MCDagRunHeaders.cfg MCDagRun` and the proofs of a
component with `tlapm DagRunProofs.tla`, and likewise for the other `*Proofs.tla`.

## 1. Inventory

How a command runs: the CLI (`cli/main.c`, `cli/commands`) creates a context
(`core/ctx`), submits an **operation** (`core/op`) to the op thread and sits in a
**wait loop** (`cli/host`), draining **events** (`core/event`) into the terminal
UI until the operation is done. An operation loads the model (`core/model`),
resolves versions and synchronises packages and indexes on a **thread pool**
(`util/thread_pool`), settles options, makes units and targets, generates a **DAG**
of actions (`core/graph`), **runs** it (`core/dag`) on another pool and stages the
programs.

| component | state | operations | talks to | hard part | what makes it correct |
|---|---|---|---|---|---|
| DAG run (`dag/run.c`) | per action: pending, deferred, waiters, parked, done, flight; ready stack, in_flight, completed, err | seed, dispatch, complete, commit, finish, requeue, cancel, exit | pool (submit, poll), disk, store, caches | results of *discovered* actions are judged after the fact; two settle sites (worker restore, main commit) | no action twice or lost; no result built from an overwritten file is kept; every run ends; errors drain |
| Graph (`dag/dag.c`) | actions, artifacts | add, validate | DAG run | - | one producer per artifact, no overlap of targets |
| Store, action cache, observation table (`dag/store.c`) | blobs, entries, pathsets as files | put, locate, owns, drop, materialize; get, put, remove | DAG run, other processes | hard links, crash, shared `.tmp` names | an entry is a true fact; a blob has its digest |
| File cache (`dag/stamp.c`, `run.c`) | digest per path and mtime | digest, seed, stat | DAG run | a change within the mtime resolution | a cached digest is the file's |
| Observation hooks (`dag/wasi.c`) | observed set | on_open, on_stat, on_readdir | DAG run | what a probe is recorded as | the pathset covers what the result depends on |
| Thread pool (`util/thread_pool`) | queue, done, counters, shutdown; mutex and two condition variables | submit, poll, try_poll, wait, deinit | DAG run, sync | lost wakeups, teardown | each job run and returned once; calls return |
| Operation queue (`util/queue`) | lock-free stack, private list, futex word, poked | push, pop, wait, wake | hosts, op thread | compare-and-swap, sleep against push | FIFO, no sleep through work |
| Operations (`core/op`) | done, cancelled, result; ctx error | submit, cancel, stop | queue, wake flag | publication order, stop | results final, nothing dropped |
| Events and wake flag (`core/event`, `core/core`) | buffer, signaled | push, drain, ring, pulse, rearm | every thread to the host | ring skipped while the flag is up | the host never sleeps through news |
| Host and TUI (`cli/host`, `cli/tui`) | doorbell, interrupted, handoff | wait, interrupt, flush, handoff, shutdown | all of the above | interrupt at any time, handoff | waits end, events are shown |
| Git cache, provisioning, runtime (`core/git`, `core/toolchain/provision.c`, `core/ctx/init.c`) | directories in a cache shared by processes; entries and mutexes of a process | clone, fetch, checkout, patch; download, verify, unpack; extract; stage, rename, lock | pool, file system | crash and concurrent processes | what is at a published path is whole |
| Index and publication (`core/index`, `core/op/publish.c`) | a replica per machine, upstream | sync, freshen, append, commit, push, restore | git remote | a push whose answer is lost, a race, a death in between | a version is upstream at most once; a failed publication leaves no trace (but see section 4) |
| Resolver (`core/resolve`) | scopes with the packages picked in each, boundaries, pins | solve a scope, undo a candidate, re-enter, retry forced, identify instances | index, options | undo several levels deep; scopes re-entered after they were solved | every request met, nothing left over |
| Model (`core/model`, `core/session/options.c`, `core/pkg/options.c`) | resolved packages and their options | resolve, sync, settle options, prune gated edges, resolve again | resolver, pool, manifests | options and dependencies define each other | a fixed point of both |
| Units and targets (`core/unit`, `core/target`) | units, targets, link plans | add packages, scripts' targets, configure, targets, link closure | model, graph | first creation wins; private and shared edges | complete link lines, runtime libraries staged |
| Graph generation and staging (`core/graph`) | the actions; the list of what is staged | prepare, check, run, stage, drop | DAG run, disk | generated headers; a kill between two file operations | every input has a producer before it; whatever is staged is listed |
| Profiles and toolchains (`core/profile`, `core/toolchain`, `core/triple`) | layers, catalog, link table | merge, query, select, finalize | compiler | partial wishes from four layers | explicit wishes are met, the row can be linked |
| Compiler drivers (`core/compiler`, `graph/nodes`) | command lines | validate, render, read depfiles, write response files | toolchain, DAG run | excluded cases are excluded elsewhere; escapes | compile and link agree; names survive |
| Manifests, TOML, versions, lock file (`core/codegen`, `core/toml`, `core/semver`, `core/lock`) | documents | lower, edit, parse, print | - | boundary cases | what is said is meant and kept |
| Installer (`cli/install`, `cli/commands/self.c`) | home directory, plan | probe, ask, plan, apply, report | file system, registry | stuck, killed and repeated runs | no doubled hook, true advice |
| The rest (command parsing, rendering, globs, hashes, object formats, WebAssembly binding) | none or data read once | pure translation | - | - | unit tests |

`PROJECT.json` lists all components with their status, and under `hazards` every
place where this code is hard to test, with the properties that watch it.

## 2. Modules

| module | models | composes / implements |
|---|---|---|
| `DagRun` | `dag/run.c`, with the parts of `store.c`, `dag.c` and `wasi.c` it calls | implements the client side of `Executor` (`UsesExecutor`) |
| `DagRunProofs` | theorems about `DagRun` | - |
| `FileCache` | the file cache of `dag/run.c`, `dag/stamp.c`, the hint file of `dag/store.c`, with a clock and an editor | - |
| `FileCacheProofs` | theorems about `FileCache` | - |
| `Executor` | abstract: what `spn_thread_pool_executor_t` promises | - |
| `ThreadPool` | `util/thread_pool/thread_pool.c` and how its callers use it | implements the safe part of `Executor` (`IsSafeExecutor`) |
| `ThreadPoolProofs` | theorems about `ThreadPool`, the refinement among them | - |
| `Fifo` | abstract: what `sp_queue_t` promises | - |
| `OpQueue` | `util/queue/queue.h`, `op_thread` as its consumer | implements `Fifo` |
| `OpQueueProofs` | theorems about `OpQueue`, the refinement among them | - |
| `Host` | `op.c`, `core.c` (wake), `event.c`, `host.c`, `main.c`, the draining in `tui.c`, `ctx/init.c` stop | uses the queue as a FIFO with a wake |
| `HostProofs` | theorems about `Host` | - |
| `Options` | `pkg/options.c`, `when/when.c`, `target/select.c` | - |
| `Reachability` | the work lists that follow edges | - |
| `Model` | `model/model.c`, `session/options.c`; the resolver only by what it promises (`Rooted`) | extends `Options`, `Reachability` |
| `Units` | `unit/graph.c`, `unit/paths.c`, the session's two builds | extends `Model` |
| `ModelProofs` | theorems about `Model` and `Units` | - |
| `Resolver` | `resolve/resolve.c` | extends `Model` for its state |
| `Gates` | `model/resolve.c`: one search per turn, in the loop of `Model` | extends `Resolver`, which must keep the promise (`Sound`) |
| `Targets` | `unit/target.c`, `unit/link.c`, `unit/fingerprint.c`, `model/configure.c`, `filter/filter.c` | extends `Units`, `Gates` |
| `Graph` | `graph/dag.c` up to the run, the outputs' check of `dag/dag.c` | extends `Targets`; what it makes is run by `DagRun` |
| `GitCache` | `git/cache.c` | - |
| `Provision` | `toolchain/provision.c`, the runtime of `ctx/init.c` | - |
| `BlobStore` | `dag/store.c` on disk, with `settle` and `commit` of `dag/run.c` as its client | - |
| `Publish` | `index/index.c`, `index/jsonl.c`, `index/publish.c`, `op/publish.c`, `op/index.c`, the git commands they run | - |
| `Staging` | the end of `graph/dag.c`, `op/clean.c` | - |
| `Toolchains` | `profile/profile.c`, `triple/triple.c`, `toolchain/{catalog,linker,sdk,select,toolchain}.c` | - |
| `Compiler` | `compiler/{driver,gnu,msvc}.c`, `graph/nodes/{object,link}.c` | extends `Toolchains`: runs with what it selected |
| `Manifest` | `codegen/{lower,toolchain}.c`, `pkg/load.c` | extends `Toolchains` for its tables |
| `TomlEdit` | `toml/edit.c`, `op/add.c` | - |
| `Versions` | `semver/*.c`, `lock/lock.c` | - |
| `Depfile` | `compiler/occ.c`, `compiler/rsp.c` | - |
| `Installer` | `install/{plan,install}.c`, `commands/self.c` | - |
| `FrontProofs` | theorems about `Installer` and `Toolchains` | extends both |
| `MCPipeline` | worlds for `Graph` and everything it extends | - |
| `MCDisk` | `GitCache`, `Provision`, `BlobStore`, `Publish`, `Staging`: one at a time, as they share no state | - |
| `DiskProofs` | theorems about `GitCache`, `Provision`, `Staging`, `Publish` and `BlobStore` | extends `MCDisk` |
| `MCFront` | `Compiler`, `Manifest`, `TomlEdit`, `Versions`, `Depfile`, `Installer`, likewise | - |
| other `MC*` | instances for TLC | - |

### DagRun

Variables are the fields of `spn_dag_run_state_t` and `spn_dag_run_t` under
their own names (`pending`, `deferred`, `waiters`, `parked`, `done`,
`done_epoch`, `flight`; `ready`, `completed`, `in_flight`, `err`, `turns`), the
flag `wrote` of an action, the `cancel` flag, and what is outside: `disk`,
`blob`, `entry` (action cache), `known` (observation table), `scratch`.

`pc` is where the main thread is. One turn of the loop of
`spn_dag_run_executor` is one action: `TurnComplete` (try_poll returned a flight),
`TurnDispatch`, `TurnBlock` then `PollReturn`, or `TurnExit`. `finish_action` is
a step of its own, `FinishAction`, because workers read `completed` and the main
thread is between the settle and the count. A flight on a worker takes three
steps: `FlightStart` (read the epoch), `LookupAbsent` or `LookupRestore`, and
`Execute`.

| action | code |
|---|---|
| `Seed` | `seed_sources`, `seed_ready` |
| `FlightStart`, `LookupAbsent`, `LookupRestore`, `Execute` | `flight_run`, `lookup`, `try_restore`, `restore_entry`, `execute`, `execute_attempt` |
| `Complete` (in `TurnComplete`, `PollReturn`) | `run_complete` |
| `DispatchParked`, `DispatchFresh` | `run_dispatch` |
| `Commit` | `run_commit_flight`, `commit`, `record` |
| `Settle`, `Stuck`, `Poisoned`, `SettleWrote` | `settle`, `settle_file`, `settle_tree`, `target_state`, `spn_dag_store_owns` |
| `Defer`, `Waits`, `Requeue`, `Touches` | `defer_observations`, `defer_producer` |
| `FinishAction` | `finish_action` |

What is abstracted:

- The content of a target is `"none"`, `"old"` (anything but what its action
  produces now) or `"cur"`. A digest is whether the content is `"cur"`.
- The blob of an artifact's digest is `"gone"`, `"good"`, or `"shared"`: hard
  linked to a target that was edited in place, so that it holds the edit.
- A path is a sequence of names; what an observation resolves to is the content
  at the path, of the tree around it, and the names below it (`View`).
- An action cache entry under the key a lookup computes is present or not.
- `ready` is a set and not a stack, so results hold for every order; the executor
  is any number of workers that start and land flights in any order.
- The probes of one execution and the reads behind them are one step, as is one
  settle. The steps of other threads are interleaved before and after, not within.
  A producer finishing during an execution is covered: the epoch is read in an
  earlier step.
- `LookupAbsent` may happen whenever the lookup could find nothing, whatever
  the abstract cache says (another key, an observation that changed).
- File system errors other than the ones the code turns into a miss, a failed
  flight or a store error, and traces and diagnostics, are left out.

### FileCache

`metadata` (stats of this run), `entries` (records by inode), `hints` (records
by path), `fence` are the fields of `spn_dag_file_cache_t`; `saved` is the file the
hints are flushed to. `call` holds the locals of a thread inside
`spn_dag_file_cache_digest` or `_seed`. What happens without the mutex is a step of
its own: the stat, its insertion, the critical section of the lookup (with the
probe for a new fence, which the code makes under the mutex), the hash, the
record. `Load` may come at any moment, with every call cut off, and stands for the
end or the kill of a session and the start of the next one.

The file system has a `clock` in ticks: a file written twice in one tick keeps its
mtime. An editor writes a file in place (same inode, and every hard link to it) or
renames a new one over it. Sources are edited at any time. Outputs are paths that
spn links blobs to; others edit them only between sessions and not in the tick they were
last written in. The second part is an assumption the code makes: `seed` records what it
linked without consulting the fence, and such an edit would go unnoticed (the test
`seed_in_open_quantum_recorded` fixes that behaviour). A digest is not asked for
while another thread links the path; `DagRun` sees to that by deferring the observer.

Abstracted: sizes are equal, so that only inode and mtime tell two states apart;
every path exists; a hash reads the file in one step (a hash torn by an edit is
recorded for an mtime behind the fence, which the file no longer has); two sources are
not hard links of each other; a blob edited through a link is dropped at the edit
rather than when it is next used (`TARGET_POISONED`, which `DagRun` models).

### ThreadPool and Executor

A critical section is one action: the mutex is never held across a blocking
call, and a condition wait releases it and sleeps in one step. Notifications
follow the unlock and are actions of their own. Condition variables may wake
spuriously. The client is the one thread that owns the pool, doing what the
callers do: `spn_dag_run_executor` polls only with a flight out; `sync_packages`
and `sync_indexes` submit, wait and tear down. `team` is the set of workers the
pool was made with; when it is empty, it is the pool of `spn_dag_run`, in which
`pool_poll` runs the jobs itself.

### OpQueue and Fifo

One action per atomic operation with the thread-private work that follows it. The code
passes `RELAXED`, `ACQUIRE` and `RELEASE` (`queue.h:35-88`); the model takes its atomics to
be sequentially consistent, which assumes more than the code asks for, so that what is
shown of the queue is shown of every interleaving and not of weaker orderings. `next` is modelled
link by link and a node may be pushed again after it was taken, so that a
compare-and-swap may meet an old head (it is harmless here: the consumer always
takes the whole stack). `Chain(next, p)` is the sequence of nodes that the links spell out
from `p` to `Null` (`IsList`), chosen rather than computed, so that it can be reasoned
about. `Contents` (the private list, then the reversed stack) is the refinement mapping.

### Host

The op thread, the threads that emit events and progress, the signal handler
and the host thread around `signaled`, `doorbell`, `done`, `cancelled`. The
queue is the FIFO that `OpQueue` implements, with its `poked` flag and NULL
returns. `WaitDrain` pops one event per step and rearms in the critical section
that finds the buffer empty, as `spn_ctx_drain` does. A host submits and waits,
as the CLI does; `NothingDropped` depends on it, because `op_thread` leaves
at the first NULL after the stop without looking at the queue again: a host that
did not wait for its operations would lose them.

### The pipeline: Options, Model, Units, Resolver, Gates, Targets, Graph

One behaviour is one `spn build` up to the run. `world` holds the inputs: an index
of releases, local packages, the root manifest, its configuration of packages, the
profile, what cannot be fetched or does not load.

| action | code |
|---|---|
| `ResolveStart`, `ResolveEnd`, `Sync` | `spn_model_establish`, `resolve`, `sync_packages` |
| `Turn` | `solve_once` on one scope: `resolve_scope`, `solve_node`, `attempt_reqs`, `restore_named` |
| `Finish`, `Retry` | `finish`: processes, duplicate shared libraries, instances; another solve with a version forced |
| `spn_session_apply_options` | the same: merge options, prune closed gates, sweep, ask for open ones |
| `spn_units_add_packages` | the units of both builds |
| `add_metaprogram_targets`, `configure`, `add_target_build_targets` | targets of scripts, the configure phase, targets of the build |
| `prepare_graph` | `dag_add_*`, the check for a second producer |

Names and versions are numbers, a range is `lo..hi` (`Versions` has the real ones), a
condition is a set of clauses. Hashes are the tuples of what is hashed. Where the
code walks a hash table and the outcome depends on the order (two consumers ask for
different values of an option that neither overrides), `tie` chooses.
The search within a turn is one step: nothing else runs meanwhile.

`Model` is the loop of `spn_model_establish` with any answer of the resolver that is
`Rooted`: instances with an id each, edges between them, one root that reaches all.
`Gates` puts the search of `Resolver` in place of that answer, and its `Sound` checks that
the search keeps the promise. So what is proved about `Model` and `Units` does not depend on
how versions are searched, and what `Pipeline` checks is the loop and the search together.
`spn_units_add_packages` follows edges with a work list. While it drains it asks for all units
of a build with the same kinds, so that the order of the list makes no difference, and
`Units` says with `Reach` what it ends with.

### The disk: GitCache, Provision, BlobStore, Publish, Staging

Steps are single file operations or single commands, as far as another process can
see the difference; any of them may fail, and a process may be killed between any
two. What a killed process held in memory is gone, what it wrote stays, and file
locks are released. `GitCache` has threads within processes, with an entry and a
mutex per checkout and per database; a directory left by a killed `git clone --bare`
is taken for a database, as the code does, and can only make the fetch fail.
`Provision` lets a process that cannot lock go on without the lock, as
`spn_toolchain_provision` does. All its processes are of one version: two versions
that open one storage directory replace each other's runtime.
`BlobStore` has inodes with names, since outputs are hard links to blobs. `torn`
marks the one window the code leaves open: a process killed, or a write by someone
else, between the link of a blob and the change of its mode.

`Publish` abstracts git to sequences of lines, a commit's number in upstream's history
(`tip`, `base`) and what git holds of a replica's own line (`change`: nothing, the added
file, a commit); a push is a test for a fast-forward. Upstream may be empty (`tip = 0`) until
the first push, ours or that of another package. `freshen_step`, `change_step`, `push_step`
and `restore` are one attempt of `publish_git`: a line may be written whole, in part or not at
all, the file before it may be there and not be read, a commit is refused when it would
change nothing, and a removal in `git_index_freshen` may fail without being noticed (`at =
"held"`). While upstream is empty the replica has no branch to reset to, and what was
added stays (`Stays`). The history `by` and `read` of a line, and `wrote` of a job, say whether
the publisher could read the file and wrote its line.

`Staging` abstracts the graph's run to its outcome. The manifest may fail to be read (then
it counts as empty), a removal may fail (then the entry is left and `missed`), and the new
manifest may fail to be written; the code looks at none of the three, and the history `stray`
holds the entries whose record is lost by one of them or by a clean that was cut short.
Builds of one profile follow each other; two at a time are not modelled (section 6).

### The front ends: Toolchains, Compiler, Manifest, TomlEdit, Versions, Depfile, Installer

These are sequential. Each has an action per phase of the code, and the algorithms
between are operators under the names of the C functions.

- `Toolchains`: `Resolve` or `Metaprogram`, `Query`, `Select`, `Finalize`. `Compiler`
  goes on from there: `Plan`, `spn_dag_exec_object`, then archive, or exports and link.
  An argument is a tuple with the option first.
- `Manifest`: `Lower` turns the record of the generated reader into a package and a set
  of issues, then `Patches`. Values that do not parse are `"bad"`.
- `TomlEdit`: documents are token sequences; scanner, look-up, placement and splice are
  the code's. `EditSound` judges the result by a definition of its own of what a TOML
  document says, and not with the scanner that is under test.
- `Versions`: texts are character sequences and components wrap at `Base`, as those of the
  code do at 2^32. Requirements are compared with `Meaning`, defined without bounds; the text
  is read a second way for that (`Parts`), each number modulo `Base`, since the code
  accepts a component that is too large as one that is not (section 4).
- `Depfile`: the reader takes one construct per step. It is compared with the names that
  were escaped into the text, with lines broken before a name with or without a blank;
  response files with how the drivers read them. Names that end in a backslash are left
  out: how gcc writes them before a blank or a line end is not something that can be read
  back. So the end-of-line path of `occ.c:155-168` is met with the backslash of the
  continuation alone, and that at the end of the text not at all; and nothing here would
  notice the quotes around an argument that starts with `#` (`needs_quotes`), because no
  driver is modelled that takes it for a comment.
- `Installer`: `Execute` carries out one step of the plan, which may get stuck;
  `Killed` and `Again` start over on the same home directory. A run meets with files that are
  links or that cannot be read (`blind`): `probe_facts` takes the former for absent and
  both for files without the hook line, `custom_file` the latter only. `unseen` is a history: the
  files that had the line when such a run appended to them. A `PATH` in the registry is a
  sequence of `Dirs`: the installation's directory, the user's last one, and others.

## 3. Runs

| run | instance | distinct states | checks |
|---|---|---|---|
| `Headers` | generator, discovered compiler, link; all caches and disks, failure, cancellation | 32 479 | `CountersExact FreshCommits ScratchDiscarded TrueFacts FinishedStays ErrorDrains Terminates` |
| `Web` | two actions that may observe each other, a tree, a consumer | 114 945 | `NotTwice NotLost StallIsCycle UsesExecutor` |
| `Include` | include tree with stamp, restored halfway | violation | `TrueFacts` |
| `Probe` | a directory probed before it exists | violation | `TrueFacts` |
| `Pool` | 0, 1 or 2 workers, 3 jobs, 4 submissions | 19 966 | `WorkConserving AssertsHold CallsReturn IsSafeExecutor` |
| `Queue` | 2 hosts, 3 nodes, 3 pushes or wakes | 90 187 | `NoSleepOnWork IsFifo WakeUnblocks` |
| `Host` | 2 operations, 2 emitters, 2 emissions | 405 865 | `NoLostRing NothingDropped CallsReturn` |
| `Files` | one path, source or output; 2 threads, 2 contents, mtimes 0 to 2, 3 inodes | 680 471 | `RecordsTrue DigestsSeen` |
| `Pipeline` | families of worlds, see below | 67 654 | `Sound ReentryAddsNothing GatesSettled UnitsComplete LinkSound GraphSound` |
| `StorePath` | worlds whose root configures packages | violation | `StorePaths` |
| `Disk` | 3 threads of 2 processes, 3 storage users, 2 builds, 2 machines, 3 builds in a row | 1 558 025 | `TreesWhole StoreTrue PublishedOnce StagedListed` |
| `Front` | families of inputs, see below | 1 123 822 | `ProfileSound CommandsAgree LowerSound EditsSound VersionsSound TextSound InstallSound` |

`TypeOK` is a conjunct of one property per run of the threaded modules.

**What the properties say.** `NotTwice`, `NotLost`, `CountersExact`: an action is in
exactly one of the scheduler's places and its counters are what they count.
`FreshCommits`: at the end a discovered action's observations still resolve to
what it saw, so its result is not built from a file another action has since
replaced. `TrueFacts`: the same at the moment an entry is recorded, for all its
observations. `StallIsCycle`: a run is declared stalled only if every unfinished
action waits for an unfinished one (itself if it consumes its own output, which
`spn_dag_validate` accepts). `Terminates`: the run ends, within the turns the assertion in
the loop grants. `ErrorDrains`, `ScratchDiscarded`, `FinishedStays`: what errors, exits
and restores may not do. `WorkConserving`, `NoSleepOnWork`, `NoLostRing`: no lost wakeup,
in the pool, the queue and the host. `NothingDropped`: what is done has its result and
error in place, and the shutdown leaves no operation and no event behind. `RecordsTrue`:
a recorded digest that an inode and mtime make current is the file's. `DigestsSeen`: a
digest that is returned is of a content the path has had in this run. `IsSafeExecutor`,
`IsFifo`, `UsesExecutor`: refinement.

Of the pipeline, `Sound`: each scope meets its requests and those of its packages, and
holds nothing else; no process loads two builds of a shared library. `ReentryAddsNothing`:
a scope that was solved gets nothing new when it is entered again. `GatesSettled`: the
options and the dependencies they gate agree. `UnitsComplete`, `LinkSound`, `GraphSound`:
units have all their dependencies, link lines are complete, ordered and unambiguous and
their shared libraries staged, and every input is made before it is read.

Of the disk, `TreesWhole`: what is at the path of a checkout, a runtime or a toolchain is
whole. `StoreTrue`: a blob has the content its digest names and a build gets it so, but
for the window `torn` marks. `PublishedOnce`: no version is upstream twice, who is told OK has
its release there, and a failure leaves no line in the replica that is not upstream's.
`StagedListed`: what is staged is in the list, what is dropped is needed by no other program,
and a build that says OK has staged all. Both name the file operations whose failure the code
does not notice as exceptions (section 4).

Of the front, `ProfileSound`: the explicit wishes are met by a row that can be linked, and a
refusal has a true reason. `CommandsAgree`: no case the renderers call unreachable is
reached, and what was compiled fits what is linked. `LowerSound`: a manifest that loads can
be decided and has lost nothing. `EditsSound`: an addition says that and no more.
`VersionsSound`: a requirement admits what it means with its components taken modulo `Base`,
also after printing, and a lock file reads back. `TextSound`: names survive depfiles and arguments response files.
`InstallSound`: after any history of runs, hooks lead somewhere and are single, except in a
file whose line a run could not see, and the advice given is true.

**Why the bounds are enough.** A deferral concerns an observer and a producer; a
second observer gives cycles, a consumer gives the order of release through
`pending`, and a third kind of producer (tree or value) gives partial settles.
The two passing DAG instances hold all of these, with each target absent, old or
current, each blob present, lost or edited where that matters, and pathsets of
earlier builds present or not. One action of `Headers` fails and any moment may
cancel. In the pool two workers and three jobs give a sleeping worker, a busy
worker and a queued job at once. In the queue two producers collide in the
compare-and-swap while the consumer is at any step. In the host two emitters are
needed for one to skip its ring because the other raised the flag, and two
operations for a second failure to meet the first error. `MaxSubmits`,
`MaxPushes` and `MaxEmits` bound counters in guards; nothing else depends on them.

In `Files` two threads are enough for one to record while the other looks up,
three mtimes for an edit before, in and after the tick of a fence, and three inodes for
two blobs linked to a path in turn or one blob and a replacement. The same
properties hold with one more tick (5.6 million states) and with two paths, one
thread and shared hard links (7.0 million states); those runs are too long to keep.

`Pipeline` takes all combinations of dependencies of two packages with two versions each
on a third, static or shared, public, private or for the build (conflicts, undo and
scopes); options with defaults that depend on the system, asked for along edges that
the same options gate; and build worlds with scripts, sibling libraries of every kind,
generated headers and every kind of program. `OddWorlds` and `OddBuilds` have one world for
each error path. `MaxResolves` is the code's own bound.

In `Disk` two threads of one process and one of another meet at every mutex and rename; two
builds share the blob of one key, with three look-ups and two faults (`MaxRuns`,
`MaxFaults`), which is enough for an edit, a kill and a build that meets both; two machines
publish one version or two, race or follow each other (`MaxPublish` 2), with one failure of an
operation whose result is not looked at (`MaxSlips` 1), and the index of one may be pinned
instead (`Pinnings`); three builds (`MaxBuilds`) of two programs with a library they may share
drop, keep and restage it, each losing what records it may.

`Front` enumerates: hosts, kits and overrides of four systems; manifests with one or two
things wrong; documents of up to three lines from fourteen, which include every spelling of
a dependency table; texts of up to five characters after each operator, with components
that overflow (`Base` 3); names of up to four characters from those with a meaning to an
escape; and two installations (`MaxInstalls`) in four homes, each stuck or killed anywhere, in all
surroundings in which every file can be seen and in some with a link and files that cannot be
read (`Surroundings`).

**Fairness.** A thread that can take a step does (weak fairness per thread: main,
each worker, op thread, host, a call once begun). That is the scheduler of the
operating system, and mutexes and atomics here never keep a thread out for ever;
an execution is assumed to return. Nobody is obliged to submit, cancel,
interrupt, stop, or wake spuriously. In `Host`, that a raised `poked` is
noticed is an assumption which `OpQueue` checks as `WakeUnblocks`. `Pipeline`, `Disk` and
`Front` check safety only and state no fairness.

**Deadlock** is not an error in `Pipeline`, `Disk` and `Front`: a build, a bounded
history of faults and a command come to an end there. In the other runs it is checked.

**Symmetry** is used in `Files` only (threads and contents, which nothing orders;
it checks no liveness).

**Mutants.** Operators named `Bug...`, or said to be "for a mutant" in the comment above
them, are altered forms of one definition each, listed in `PROJECT.json`; with one of them in
place the property named there fails. They show that each property can fail.

## 4. Findings

1. `Include` (`dag/run.c:441`). `settle` clears `action->wrote` each time. A
   restore that relinks the include tree and then fails on the stamp (an output
   without path whose blob is gone) is followed by an execution whose commit finds the
   tree in place: `wrote` is false although this run rewrote the tree. An
   action that read the tree before is then not requeued, and its stale output is
   recorded under a key of the new tree.
2. `Probe` (`dag/run.c:975`). Targets below an observed path are looked at only
   for enumerations. An absent observation of a directory is not ordered
   against an action that creates a file below it, yet `resolve_one` computes the key
   from the directory that exists at commit time.
3. `StorePath` (`unit/fingerprint.c:50`). `hash_options` leaves out options that are
   `is_default`, which is relative to a fallback that the root manifest changes when it
   declines a package's defaults. The default option set and one with all defaults
   declined hash alike, against the comment above the function.

The first two record an entry that is not the fact the README of the repository (line 515)
says an entry is. `Headers` holds `TrueFacts` because it has neither shape: no tree whose
action also makes a value after it, and probes that ask for the file or a listing.

Limits that the properties state as exceptions, or as part of what they say, rather than as
runs of their own; each exception is as narrow as the code allows, and what lies outside it is
checked and, except for `GraphSound` and `VersionsSound`, proved:

- `StoreTrue`: the `torn` window of the blob store.
- `GraphSound`: the cases in which two actions claim one file.
- `PublishedOnce`, an empty upstream (`LeftAdded`). `spn_index_publish` says "Leave the replica
  clean when the transaction died after mutating it" (`index/index.c:291`). With an empty
  upstream there is no `origin/HEAD`, so that `git_index_freshen` checks nothing out and only
  runs `git clean` (`index.c:51-64`, `external/git.c:214-229`), which leaves a file that was
  added (`index.c:240`). After a failed commit, or a kill, the line therefore stays:
  publishing the same version again is refused as existing, and publishing the next one
  pushes the line of the failed one along.
- `PublishedOnce`, results that are not looked at: the removal of the replica
  (`index.c:42`; the failed line stays until a later freshen), the read of the
  package's file (`index/jsonl.c:28`; the check for the version passes, and a version may be
  upstream twice), the open and the write of the line (`index.c:170-175`; OK is said and the
  release is not upstream, or cut).
- `StagedListed`: the read of the list, the removal of an entry and the write of the list
  (`graph/dag.c:720`, `749`, `753`). An entry whose record is lost so is never removed by a later
  build.
- `VersionsSound`: `parser.c:43` multiplies a `u32` without a look at its size and
  `spn_semver_parse_range` does not check, so that `^4294967297` is read as `^1` and admits
  `1.x`. The property says so ("modulo"), rather than leave such texts out.
- `InstallSound`: an rc file or a custom file that cannot be read, or an rc file that is a link,
  counts as one without the hook (`install.c:105-112`, a link by
  `sp_fs_is_file` in line 106; `commands/self.c:282-287`), and one that has it gets it a second time.

## 5. Proofs

`DagRunProofs` holds for every graph that satisfies `GraphAssumption`
(`ValidGraph`: what `spn_dag_action_add_output` and `spn_dag_validate` accept:
finite, one producer per artifact, one artifact per path, nothing below a tree)
and every initial disk, cache and fault that satisfies `InputAssumption`. TLC
evaluates both assumptions on each run.

| theorem | property | |
|---|---|---|
| `Types` | - | types (`TypeOK`), `in_flight` never below zero |
| `NeverTwice` | `NotTwice` | an action is in at most one place |
| `NeverLost` | `NotLost` | without an error, in at least one |
| `FinishedIsFinal` | `FinishedStays` | what is finished is not written again |
| `DrainsAfterError` | `ErrorDrains` | nothing new after an error, the first error stays |
| `NothingLeftBehind` | `ScratchDiscarded` | no scratch directory after the end |
| `KeepsContract` | `UsesExecutor` | refinement of `Executor!Safe` |
| `CountersAreExact` | `CountersExact` | `pending`, `deferred`, `in_flight` are what they count |
| `StallsAreCycles` | `StallIsCycle` | a stall is never a false alarm |
| `ResultsStayFresh` | `FreshCommits` | given `FilesProbed`, `RestoresWhole`: no stale result |
| `EntriesAreFacts` | `TrueFacts` | given the same: only true entries are recorded |
| `RestoresAreWhole` | - | `PathsLast` implies `RestoresWhole` |

**The argument.** `NotTwice` and `NotLost` are not inductive alone. `IInv` adds

- `FlightCount`, `in_flight` is the number of flights: without it the exit could be
  taken with a flight out, or the counter pass below zero;
- `AtSeed`, nothing has happened before seeding, which sets `pending` and
  `ready` from nothing;
- `FiniteSeen`, observations and pathsets are finite, so that the registrations
  `Defer` counts are a number, and positive when there are any.

`StepInv` has one case per action. `FinishAction` is the deep one: an action is
released when `pending` or `deferred` *reaches* zero, and only one of the two can
be above zero (`NotTwice`), so it enters `ready` exactly once. `Invariance` is
`Spec => []IInv`. On top of it `TidyRun` proves `Calm` (an action is finished
only while there is no error), `HitsLand` (only a restore sets `hit`) and `Tidy` (a
scratch directory belongs to a landed miss or to a parked result), from which the
rest follows. `KeepsContract` shows that each step moves at most one flight
through the statuses of `Executor` and that the exit is a `Close`.

`Counting` relates each counter to a set: `pending` to the inputs without a producer that
is done (`Open`), `deferred` to the entries for the action in the waiters lists of
unfinished producers (`Registrations`, pairs of a producer and a place in its list). A
finish takes from the first what the action outputs, which nobody else does
(`ValidGraph`), and from the second the finished action's list; both are subsets of what
was counted, so the saturating `Less` never saturates wrongly (`FinishCounts`). A
deferral adds as many pairs as it makes waits, by a bijection that numbers the new waits of
each producer from the end of its list (`DeferCounts`). At the exit an action that is not
done has a positive counter by `NotLost`, and an exact positive counter has something to
name, which is the cycle of `StallIsCycle` (`ExitIsCycle`).

`FreshCommits` and `TrueFacts` are false for some graphs (section 4), and the theorems name
what has to hold instead. `FilesProbed`, on the constants: a probe or a stored observation that
is not a listing is not about a directory with targets below it; `Probe` breaks it.
`RestoresWhole`, on the behaviour: no restore fails after it has rewritten a target; `Include`
breaks it. `RestoresAreWhole` reduces the second to the shape of the graph: it holds wherever
an action's outputs without path are settled before its only target (`PathsLast`).
`Headers` and `Web` satisfy both hypotheses, and TLC has checked the invariant on them first;
`dag_add_tree` adds the tree before the stamp and so falls outside.

`FreshInv` says of a result that waits to be judged, landed or parked, that each observation is
`Explained`: it resolves to what was seen, or a producer it touches wrote and is to `Blame`, being
done with a later epoch, about to be done, or landed as a hit. Those are the cases that
`defer_observations` finds (`Judged`), the last two because the producer is not done yet. Of a
finished action, one being finished and a landed hit it says that each observation is `Lasting`:
all it touches is done and, since what is done is not written again, it resolves to what was seen. A flight's
epoch is never later than `completed`, so a finish moves the blame to the later epoch
(`FinishFresh`); a settle that changes a target sets `wrote`, so it takes the blame on itself
(`SettleExplained`), and here `RestoresWhole` is used, as a failed restore has nobody to
blame. A hit is `Lasting` as its flight was submitted when nothing its pathset touches was
unfinished (`Tried`). `ViewKept` is where `FilesProbed` is used: what an observation resolves to
depends only on targets that `Touches` names.

`FileCacheProofs` holds for all sets of paths, contents and threads under
`CacheAssumption` (the first inodes differ and lie below the first free one); the
bounds on clock and inodes play no role in it.

| theorem | property | |
|---|---|---|
| `CacheTypes` | - | types (`TypeOK`); only digests of contents are recorded |
| `NoRecordLies` | `RecordsTrue` | no current record names another content |
| `DigestsWereThere` | `DigestsSeen` | a digest returned was the path's at some time in this run |

`RecordsTrue` speaks of the present state only; an edit could make a record current
that was harmless before. `IInv` therefore says of every record (`Trusted`) that
its mtime is older than any mtime an edit can still give to its inode: older than
now for a source, because it was behind a fence, and not newer than the file for an
output, because an output is edited only after its own tick. `StatsOK` and `CallsOK`
carry this through the calls: the stat of a source may be stale but is then of an
inode that only this path has had; the stat of an output is exact except between
a link and the invalidation that follows it, and `Alone` says that during that time no
other thread is on the path. `Owned` (an inode has one state; only outputs share one)
is what a hard link needs. One lemma per action; the deep ones are `RecordInv`,
`WriteInv` and `LinkInv`. `DigestsWereThere` needs a second invariant, `Seeing`: what is
recorded for a stat of a source that is in use, be it in the table or in the hands of a thread,
is something this run has seen there (`Witnessed`), although the file may have changed since.

`ThreadPoolProofs` holds for any finite set of workers, any jobs and any number of
submissions (`PoolAssumption`).

| theorem | property | |
|---|---|---|
| `NoAssertFires` | `AssertsHold` | types; neither `sp_assert` of the pool fires |
| `NoWakeupLost` | `WorkConserving` | no sleeping worker with more work than others will take |
| `PoolIsExecutor` | `IsSafeExecutor` | refinement of `Executor!Safe` |

`IInv` says that a job is in one place, once (`Apart`), that what the client has out is what
is queued, running or finished (`HeldExact`), that `submitted` is `completed` with the
queued and the running jobs (`Counted`), and what the client and the workers know from
where they are (`Places`). `Counted` is what makes the second assertion hold: a
teardown follows a wait for `completed = submitted`, which leaves nothing queued. For the
wakeups each step is shown to change the length of the queue and the set of workers
heading for it together; a submit that has not notified yet counts as one of them.

`OpQueueProofs` holds for any set of hosts, any finite set of nodes and any number of pushes
and wakes (`QueueAssumption`).

| theorem | property | |
|---|---|---|
| `NeverSleepsOnWork` | `NoSleepOnWork` | the op thread does not sleep through a push or a wake |
| `QueueIsFifo` | safe part of `IsFifo` | refinement of `Fifo!Safe` |

`Shape`: the private list and the stack are lists without repetition that share no node,
and a node being pushed is in neither and with one host only. That is why a
compare-and-swap that succeeds on a head that was popped and pushed again is still right:
the link it publishes was written to a node nobody else reads, and points to the head that
is there now. Lemmas show what a push, a pop and the reversal of the batch do to `Chain`. `Awake`: work
that arrived since the consumer loaded the count has changed the count or is about to.

`HostProofs` holds for any operations, emitters and emissions (`HostAssumption`).

| theorem | property | |
|---|---|---|
| `NoRingLost` | `NoLostRing` | the host does not sleep through news |
| `NothingLost` | `NothingDropped` | results, errors, operations and events all arrive |

`IInv`: an operation is queued, with the op thread, or done, once (`Places`); all but the one
waited for are done (`Settled`); outcomes precede their publication (`Outcomes`); the op
thread leaves only after the stop (`Stopping`); and, since the host lowered the flag, whoever raised
it has rung or will, and whoever has news has raised it or is about to (`Bells`). The last
is the one that an emitter which skips its ring depends on.

`DiskProofs` proves the four properties of the `Disk`
run for any processes, threads, checkouts, users, machines, versions, keys, executables
and libraries, and without a bound on faults, runs or builds.

| theorem | property | |
|---|---|---|
| `TreesAreWhole` | `TreesWhole` | checkouts, runtimes, toolchains are whole |
| `StagedIsListed` | `StagedListed` | what is staged is listed, or lost its record to a failure nobody saw; an `ok` build staged all |
| `VersionsPublishedOnce` | `PublishedOnce` | no version twice; failures leave no trace; the exceptions are those of section 4 |
| `StoreIsTrue` | `StoreTrue` | blobs have their content, but for `torn` |

- Checkouts: only a finished tree is renamed to the path (`Placed`), and a free entry without
  an error is a promise about the disk that nothing takes back (`Promises`).
- Storage: who holds the runtime's lock holds it alone, and a stamp of this version is only
  ever on a whole runtime (`StorageInv`).
- Staging: what is staged is recorded, or marked as lost from the record (`Recorded`).
  `Dropping` says of the phase between the read of the list and its write what is about to be
  lost: what was listed and not read, and what could not be removed (`Unwanted`, `Unrecorded`);
  `Copying` and `Ended` say what the later phases have done so far.
- Publication: a replica that stands on upstream's tip has all its lines, one that stands on no
  commit has only own lines, and none holds a version twice but for a file that could not be
  read (`ReplicaFits`, `AppendedOnce`). A job about to push has its line there if it wrote it, and one
  about to look at the replica, or failed, finds in it nothing it should not (`JobFits`, with
  `Left` for the exceptions). So a fast-forward onto the tip extends upstream and keeps it free
  of repetition (`PushLands`), and leaves what is said of the other machines as it was.
- Store: a blob and a link about to be renamed have their content or are `torn`, and nobody
  can write to them without marking them (`BlobsGood`, `LinksGood`); what a tool has just
  written has no other name (`ScratchGood`). A new file gets a free inode because names are
  fewer than inodes (`NewIsFree`).

The assumptions these add are of the model, not of the code: `EnoughInodes` (the disk has an
inode for a new file; there are fewer names than inodes), `UsersAssumption` (`"free"` is
nobody's name), `IdsAssumption` (there is a checkout), `DigestAssumption` (digests are numbers).

`ModelProofs` holds for all worlds, option values and rounds, whatever the resolver answers
as long as it is `Rooted`, and has no assumption on the constants.

| theorem | property | |
|---|---|---|
| `GatesSettledHolds` | `GatesSettled` | when the loop ends, options and the edges they gate agree |
| `UnitsCompleteHolds` | `UnitsComplete` | units have their dependencies; no request widens a unit |

- `Reach` is a recursive function over rounds. That it is what it is defined to be
  (`RoundsExist`), and that a round per edge is enough to be closed (`ReachClosed`: each round
  but the last passes an edge more) and no more than the least closed set (`ReachLeast`), are
  inductions over sets of numbers (`Induction`, from `NatLessThanWellFounded`).
- `ModelInv`: from the answer on, the resolved instances are `Rooted`. Pruning keeps ids and
  the ends of edges (`PruneTied`), and the sweep makes the rest reachable again
  (`SweepRooted`). The last pass prunes nothing and misses nothing, so that what it records is
  settled (`SettledAfterLastPass`).
- `UnitsInv` is `ModelInv` and `UnitsComplete`; the units are made in one step, of which
  `RootFacts`, `MemberFacts` and `HostFacts` follow the three parts: the root and what it
  reaches, the packages that scripts use, the packages that only host their own. Each ends in
  a drain, which adds what is asked for and nothing else (`DrainFacts`) and widens nothing,
  as what it comes to has the kinds it asks for (the assertion in `add_unit`): a host, which
  has fewer, is added last and is nobody's dependency by then.

`FrontProofs` holds, of `Installer`, for all starting homes that are sound
(`HomesAssumption`), all files the user may name, any surroundings of a run and any number of runs; of
`Toolchains`, for all layers of profiles, hosts, kits and lists of declared toolchains.

| theorem | property | |
|---|---|---|
| `InstallSoundHolds` | `InstallSound` | no doubled hook where the line can be seen, none without the program, the advice is true |
| `ProfileSoundHolds` | `ProfileSound` | what is settled on can be linked, meets the wishes; refusals are true |

`IInv` says of a run under way, whatever it found and was asked (`RunOf`): the plan is
distinct in its paths, starts with the program unless the running one is installed, and its
hooks are of the kind its state promises (`PlanOf`, built choice by choice in `HooksGrow`); the
files it has yet to append to do not source the env file, unless the run is blind to them
(`Clear`, `Fresh`), so that an append doubles a line only where `Marked` has recorded it
(`MarkedIs`); and of each action behind it, it got stuck or its effect is on the disk
(`Effect`), which later steps and later runs do not take back (`Grows`). `ReportFacts` says
which messages a report holds, `PathWhole` what is there when it does not advise the user to
edit the path: a path that is not broken has a hook that is live or went in. The assumption
`CustomsAssumption` is of the model in one respect: `custom_file` refuses what lies under the
installation's own directory, but it would accept spn's own fish file or the file of
`GITHUB_PATH`, and the model has no user who names these two.

`Sound(setup)` says stage by stage what a profile has settled: what is given (`Given`), where
its target comes from (`Origin`) and which wishes it meets (`Wished`) once it is resolved, what
the candidates are once there is a query, which toolchain and row were taken once there is a
selection, and all of it together when it is ready (`Ready`). It rests on facts about the
algorithms, each with its lemmas:

- the link table by its cases: what `spn_ld_linking` returns is a row of the table that fits
  the request, the first one (`LinkingIs`), and a refusal names what no row offers
  (`ReasonTrue`; it looks at every system and libc, as it depends on what each table holds);
- the catalog: a row is of a real triple that the driver composes, and has the kit this needs,
  whether it was declared, is the host's own, bare, or hosted (`RowsBound`, `CatalogOK`);
- the selection: the reaches of finitely many candidates have a closest one (`ClosestIs`), so
  that what is selected is a row of the catalog for a candidate of the query (`SelectOK`);
- the query (`QueryIs`) and the layers (`MergedIs`, `ResolveIs`): the topmost layer that
  asks for something decides, and no later step takes it back;
- directories of profiles: a name is one segment and no triple, so that none is the beginning
  of another (`BuildDirs`).

Of the constants it assumes what the code grants: hosts are real, and the libc of a windows
host is left open (`HostsAssumption`, `spn_triple_host`); a row is only lowered for a real
triple that its driver composes (`DeclsAssumption`, `codegen/toolchain.c:172-184`); and
profiles are well typed, with an override that lifts no way to link (`ProfilesAssumption`,
`override_to_info`). The instance of `Front` satisfies all three.

**Only model-checked.** Liveness (`Terminates`, `CallsReturn`, `WakeUnblocks`, the
fairness in `IsFifo`) and `ENABLED` are out of the prover's reach. `FreshCommits` and `TrueFacts`
are proved under hypotheses and checked without them on `Headers`. `Resolver`, `Gates`, `Targets`,
`Graph` and `TomlEdit` have recursive operators (search, closures, scanners), which the prover
cannot work with: `Sound`, `ReentryAddsNothing`, `LinkSound`, `GraphSound` and `EditsSound` stay
with TLC. An induction over data can be done where it is over a set of numbers and a
recursive function, as in `ModelProofs` and `FrontProofs`; it cannot where a fold takes an
operator, as in `Compiler`, `Manifest`, `Versions` and `Depfile`, whose properties
(`CommandsAgree`, `LowerSound`, `VersionsSound`, `TextSound`) are about what folds compute.
`Toolchains` says with sets and a least element what the code says with loops, and needs none.

## 6. Not modelled

- Two builds of one project at the same time: they share scratch directories
  (`scratch/<action index>`, `dag/run.c:645`), output paths and the staging list, and nothing
  in the code keeps them apart, so that none of the properties above would hold.
- Source-only libraries: `dag_add_target_edges` returns early for `SPN_LIB_KIND_SOURCE`
  (`graph/dag.c:531`), and the model does the same; whether a consumer compiles their
  sources is not asked.
- The file cache's table of canonical paths, missing files and failed stats (`DagRun` takes
  digests to be those of the disk, which is what `RecordsTrue` gives it for files that are not
  being edited); the formats of entries, pathsets and hints.
- Glob filters of enumerations; the wrap of the 2^32 push counter; weak memory orderings:
  the queue's atomics are relaxed, acquire and release, the model's sequentially consistent.
- Probing of the machine for compilers and kits, whose results are inputs of `Toolchains`;
  the generated readers of manifests; the text of patches and diagnostics; scaffolding and the
  test runner.
- Rendering, argument parsing, hashes, interning, object formats, enum tables, the binding to
  the WebAssembly runtime: translation of data or I/O without a protocol of its own.

See `PROJECT.json` for every component and the reason.

## 7. Plan

The modules of section 2 are done, and so are the proofs of section 5. What is left is a
weaker condition than `PathsLast` for `RestoresAreWhole`: blobs that are not collected while a
build runs.
