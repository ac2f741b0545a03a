# arXMCP: TLA+ verification

arXMCP is a local-first MCP server over an arXiv corpus: a FastAPI daemon that
answers search, chunk and graph tools from LanceDB tables and SQLite stores,
drives ingest and parse subprocesses for its notebooks, follows the corpus as it
moves on disk, and runs under systemd, in a container or inside a desktop shell.
Most of its code is text and vector processing, which unit tests reach well.
These modules are about the rest: the code whose correctness depends on the
order in which coroutines, subprocesses, crashes and the disk act. TLC checks
the modules on small instances; TLAPS proves their central facts for every
value of the constants.

## 1. Inventory

The daemon is one asyncio event loop. Between two `await`s a coroutine is alone;
at every `await` anything else may run, and a task may be cancelled. Store
methods run in threads behind one lock each, so each is a step of its own.

| part | state it keeps | operations | interacts with | what is hard | what makes it correct |
|---|---|---|---|---|---|
| Notebook ingest (`server/routes/notebooks.py`, `server/ingest_tracker.py`, `server/notebooks_store.py`, `server/main.py`) | run rows in SQLite, `_tasks`, a one-permit semaphore, subprocesses | trigger, run, settle, cancel, recover, shut down | the binding (a finished ingest asks for a refresh) | checks before awaits, cancellation at every await, crash and restart | one subprocess; one run per notebook; every row settles, once and truthfully |
| Corpus binding (`server/resources.py`, `server/corpus_freshness.py`, `server/handlers/search.py`) | the bound table, corpus version, cache, degraded reason, the freshness gate | startup, late bind, probe, rebind, search | ingest subprocesses through the marker file; the cache | a rebind between the awaits of a search; failures half way | an answer names the corpus it came from; the server converges on the disk |
| Retrieval cache (`server/cache.py`, `server/cache_sqlite.py`) | mirror, semantic index, SQLite rows, rerank tier | lookup, store, invalidate, rehydrate, purge | search, rerank, binding | mirror, index and rows disagree; a lifetime counted twice | a hit answers the call, and no entry outlives its row |
| Rerank phase (`server/retrieval/rerank.py`, `Singleflight` in `server/resources.py`) | in-flight map, its lock, the semaphore | rerank, join, evict, cancel | cache tier 3 | a lock held over an await, shielded tasks | identical reranks run once; no result answers for its key after its pass is evicted |
| Query encoder (`server/query_encoder.py`) | in-flight map with delayed eviction | encode | search | as above | one embedding per text in flight |
| Session caps (`server/session.py`, `server/middleware.py`) | an LRU of sessions, counters, a window of timestamps | check and count | every tool call | eviction, window edges, two caps at once | budgets hold; refused calls cost nothing |
| Schema migrations (`server/notebooks_store.py`) | `user_version`, tables and columns | open | the daemon and the tools open one file | a crash between two autocommitted statements | the version never promises what is not there; no data is lost |
| Textbook parse (`server/routes/notebooks.py`, `server/parse_tracker.py`, `ingest/textbook_parser.py`) | `parse_status`, `_tasks`, semaphore, worker threads, MinerU processes | upload, parse, cancel, recover, shut down | notebook rows | as for ingest, with one status per notebook and a thread no cancellation reaches | a running status has work behind it; one MinerU |
| Notebook tables (`server/resources.py`) | LRU of tables, a gate per slug | open, probe, drop, evict | ingests, deletion of notebooks | a probe and an open in threads, under one lock | a handle is never older than an announced ingest |
| Lean REPL (`server/lean_repl.py`, `server/handlers/lean_verify.py`) | subprocess, I/O lock, environments, generation | query, time out, respawn, continue | nothing else | a late reply on a shared pipe | a reply belongs to its query |
| Cutover (`ops/cutover.py`, `ops/watchdog_eval.py`) | active, staging and rollback directories, reports, flag | check, swap, verify, roll back, score | the daemon's binding, the re-embed | several tools without a lock; a crash between two renames | an active corpus always exists; the one before it can be had back |
| Ingest sentinel (`tools/ingest_sentinel.py`, `server/health.py`, `server/metrics_refresh.py`) | a pause file with a reason | write, clear, poll | the delta harvest | two writers, hysteresis | a low disk pauses; an operator's pause survives |
| Delta harvest (`ingest/oai_delta.py`) | a state file with a date and a token, a feed in memory | list, page, resume, hand over | the paper pipeline | a crash between the state file and the hand-over | every day is listed once complete, or known to be forfeit |
| Vectors (`ingest/embedder.py`, `ingest/bulk_ingest.py`, `ingest/re_embed.py`) | an NPZ and a sidecar per paper, rows of two datasets, a sentinel | embed, ingest, copy, resume | the writer, cutover | kills between two files, versions that move on | a row states the space of its vector; "complete" is complete |
| Corpus writer (`ingest/store.py`, `tools/notebook_reconcile_marker.py`) | the dataset's versions and `corpus-version.json` | merge, index, mark, recount | binding, notebook tables | a swallowed marker write, a recount in steps | the marker counts the version it names |
| Desktop shell (`apps/desktop`, `server/desktop_child.py`) | lock, record of the child, one control, a process tree | launch, serve, watch, shut down, collect | the daemon's process | SIGKILL at any step, timeouts against a stuck child, three ways out | one child; no orphan of the group; every shutdown ends |
| Start-up and health (`server/main.py`, `server/health.py`) | readiness, gauges | lifespan, probes, refresh | all of the above | order of recovery | ready means warm |
| Tool handlers, retrieval arithmetic, pages, per-notebook stores, configuration | little | read-only | binding | wire formats | unit-tested |
| Ingest pipeline and operator tools (`ingest/`, `tools/`) | the corpus on disk | batch | the marker, `notebooks.db` | resumption | a subprocess to the daemon |

`PROJECT.json` lists each with its sources and says which are modelled.

## 2. Modules

| module | models | theorems |
|---|---|---|
| `IngestLedger` | what the run rows promise: inserted running, settled at most once, gone with their notebook (the abstract specification) | |
| `SharedWork` | what the rerank phase promises: work on a key done once at a time, shared by those who want it meanwhile, told to nobody who comes after the moment it ends, its result kept only if it went well (abstract) | |
| `ParseLedger` | what `parse_status` promises: marks and last words of uploads that have claimed their notebook, completeness that is earned, one parser at a time (abstract) | |
| `CorpusSwitch` | what cutovers and rollbacks promise: one corpus served, one behind it, one hand in between (abstract) | |
| `IngestRuns` | triggers, tasks, permit, subprocesses, rows, start-up recovery, shutdown, crash; implements `IngestLedger` | `IngestRunsProofs` |
| `CorpusBinding` | the marker and datasets on disk, start and crash, late bind and rebind, the gate, searches with their cache | `CorpusBindingProofs` |
| `CacheTiers` | tiers 1 and 2 of the cache: file, mirror, ring, index, lifetimes, caps, over rebinds and crashes; the embedder in the key | `IngestRunsProofs` |
| `SessionCaps` | the registry, the two caps, time | `ToolCallProofs` |
| `NotebookMigrations` | the schema ladder over SQLite's autocommit, two openers, crashes | `NotebookProofs` |
| `RerankFlight` | rerank with its semaphore, singleflight, shielded passes, tier 3; implements `SharedWork` | `ToolCallProofs` |
| `LeanRepl` | lean_verify calls over one subprocess: lock, pipes, timeouts, cancellation, respawn, tokens | `ToolCallProofs` |
| `ParseRuns` | uploads, their tasks and permit, MinerU in its thread, the status, shutdown, recovery; implements `ParseLedger` | `UpkeepProofs` |
| `NotebookTables` | the LRU of open tables, the per-slug gates, the lock, ingests and deletions under it | `NotebookProofs` |
| `Cutover` | several cutover tools and the watchdog over three directories; implements `CorpusSwitch` | `CorpusFilesProofs` |
| `IngestSentinel` | the refresher's tick against the operator and the delta harvest | `UpkeepProofs` |
| `OaiDelta` | the harvest's windows, sets, pages, tokens and state file, over days | `CorpusFilesProofs` |
| `ReEmbed` | vectors, sidecars and rows across builds: ingests, re-embeds, cutovers | `CorpusFilesProofs` |
| `CorpusWriter` | commits, the marker, its gate, the recount | `CorpusFilesProofs` |
| `DesktopShell` | supervisors of one data root, their children, locks, records and ladders | `DesktopShellProofs` |

Three modules put instances together for TLC. Components that share no state are
run as a sum, not a product: a variable `focus` chooses one of them at the start
and the others rest. `MCServer` takes `IngestRuns`, `CorpusBinding` and `CacheTiers` so,
`MCUpkeep` the binding over faults, the parses and the sentinel, `MCBookkeeping`
nine: caps, migrations, rerank, Lean, tables, cutover, harvest, re-embed, writer.
`IngestRuns`, `DesktopShell` and the violations run without one.

The type invariants of these three are theorems too, `ServerTypeCorrect` in `IngestRunsProofs`,
`UpkeepTypeCorrect` in `UpkeepProofs`, `BookkeepingTypeCorrect` in `CorpusFilesProofs`.

`SequenceLemmas` holds what the proofs share about sequences in which nothing stands
twice: what `RemoveAt`, `RemoveFirst` and `Append` make of a lock's waiters, an
`OrderedDict`, a semaphore's tasks.

### IngestRuns

`row`, `slugOf`, `aged` are the table `notebook_ingest_runs`; `reg` is
`IngestTaskTracker._tasks`; `task[r]` is where the coroutine of run `r` is
suspended; `ahead` the order in which tasks were created, from which the FIFO
order of the semaphore follows; `permits` its value; `cx` a `cancel()` that has
not been delivered; `proc[r]` the subprocess, which outlives a daemon that is
killed. A trigger is five actions (`TrigArrive`, `TrigLookup`, `TrigCheck`,
`TrigDbCheck`, `TrigInsert`, then `TrigStart`), because `trigger_ingest` awaits
the store between its two collision checks and before and after the insert. A task's
actions follow `_run_ingest_subprocess` from `async with` to the done callback;
`CancelHandled`, `CancelEnds` and `CancelDuringWrite` are the three things a
cancellation does, depending on whether it meets the task before the `try`,
inside it, or while the final write is in its thread. `Start` includes the
recovery sweep of `lifespan`; `Shutdown`, `DrainTimeout`, `Drained` and `Exit` are
`IngestTaskTracker.shutdown` and the end of the process.

### CorpusBinding

`marker` and `damaged` are the disk, changed by others (`MarkerMoves`, `Damage`,
`Repair`). `bound` is what `Resources` publishes. `handler[p]` holds a handler's
locals: what it captured before an await is in there, what it reads after one is
not, and the difference is the point of the model. `gate` and `checked` are the
`FreshnessGate`. `_bind_corpus` is `OpenTable`, `OpenCache` or `CacheUnavailable`,
`LoadCache`, `Swap`, `CloseOld`, with `BindFaults` for an exception at each await.
`handle_search_papers` is `Capture`, `Hit` or `Miss`, `Rank`, `Stamp`, `Store`,
`Reply`. One query stands for all, so a version has one cached row. Expiry only
drops entries and is left to `CacheTiers`.

### CacheTiers

`table` is the SQLite file, which every process and every `RetrievalCache` object shares;
`mirror[g]`, `ring[g]` and `index[g]` are the memory of the `g`-th object, `shut` the ones
whose connection a rebind has closed under calls that still hold them. `asker[a]` is
a call of `handle_search_papers` between its two lookups: `ProbeMirror`, `ReadRow` and
`FillMirror` are `_tier1_get`, whose read of the file is awaited between two looks at the
mirror; `Onward` the encode, with its fallback, after which tier 1 is asked again under the
embedder that was really used; `SearchNear` is `_tier2_lookup`; `RankLocal`, `KeepRow`,
`ReflectRow` and `Recall` rank and store. An entry carries the ranking it holds and the
time it was written beside the key and the expiry the code has: `HitAnswers`
compares them. A text stands for its embedding, a version for the filters, the level and
the corpus. Texts that hash alike, rows that cannot be decoded, and a cache that cannot
be opened (the server then runs without) are left out. The version number of a notebook is
taken to differ from the corpus's.

### SessionCaps

One request is one action: the locks of `session.py` are not held across an
await. `registry` lists the sessions from the least to the most recently used;
`count` and `stamps` are the code's counters. `served` and `calls` are
history: what a session has really been given, against which the counters are
checked. `Stale` counts the instants at the head of the deque that have left the
window, and `Pruned` drops them. A batch the handler will refuse costs 0 units, any other call as many
as it fetches.

### NotebookMigrations

`Ladder` is `open_sync` as data: per version the statements it runs, in order.
`Execute` runs the next one under SQLite's rules (`Refused`, `Effect`), commits it
at once outside a transaction, and keeps the write lock inside one; `Raise` and
`Busy` are the two ways it fails, `Stop` is a crash or a close, which undoes an
open transaction (`Leave`). An opener's place is its `rung`, the version it is making, and
the statement `at` within it; it starts at the rung after the file's version, as the
`if version < n` guards do. The runs take a file without a schema to have one
creator (`SoleCreator = TRUE`): the application creates it before anything else can
know of it. Without that assumption a second creator's `DROP TABLE` costs the
first one's rows.

### RerankFlight

`pc[c]` is where search `c` is in `RerankPhase.rerank`: waiting for a permit, queued
on `Singleflight._lock`, awaiting a pass it joined (inside the lock, as the code
does) or one it started (outside it). `inflight` is the map, `passes` the shielded
tasks. `Finish` is the end of one; its done callbacks are only scheduled then, and
`due` holds the passes whose callbacks have yet to run. `Evict` runs them: the
eviction was registered first, so it precedes the wake-up of any waiter, and
`Answer` comes after both. In between a search may get its turn, find the ended
pass in the map and return with its result or its exception at once (`Late`: the
shield of a finished task is that task). A pass whose starter was cancelled runs on
and holds no permit. Storing the ranking is part of `Return`. Lookups that hit
change nothing and are left out. `told` records what the latest step told a search,
so that the refinement sees whose end it was.

### LeanRepl

`call[c].pc` is where lean_verify call `c` is suspended: on the I/O lock (`queued`),
in `readline` (`reading`), between a verdict and its axiom audit, awaiting its
heartbeat task after a timeout (`timedout`), or in `close` (`closing`). `owner[g]` is
the `io_lock` of the `g`-th process, `stdin[g]` and `stdout[g]` its pipes, `log[g]` the
environments it has made, numbered from 1; environment 0 stands for a command without
`env`. `repl` is `resources.lean_repl`, so a token's generation is the number of the
process. The wire carries no correlation: `Read` takes the first reply there is. A
reply records whose command it answers (`by`), a command whose environment its sender
means (`of`); the code has neither, the properties compare them with what was
delivered. `Exit` is a crash as well as the kill. A broken pipe while writing ends a
call like an end of file does and is folded into `Eof`. `TimeOut` requires a process that
nobody is closing: a query waits 30 seconds, and `close` ends the process within
twice 5. The order in which the lock's waiters are served is left open, which covers
the one asyncio has. The spawn at start-up, the shutdown's close and the argument
checks before the process is asked for are left out.

### ParseRuns

`stage[u]` follows one upload from the junction row through the handler's awaits
(`InsertPaper`, `CheckTracker`, `HasRunningParse`, `MarkRunning`, `StartParse`) into its
task (`AcquirePermit`, `MineruReturned`, `Rendered`, `WriteOutcome`). `queue` has the tasks
in the order they reached the semaphore; its head has the permit. `thread[u]` is
`run_mineru_sandboxed`, which no cancellation reaches, `mineru[u]` the process it
spawned, which outlives a daemon that dies. A shutdown is `CancelParses`,
`TerminateMineru` and `Gathered`; `BootParses` is `mark_orphaned_parses_failed`. The
receipt and the checks of the file, before the junction row, are left out.

### NotebookTables

`lru` lists the open handles from the least to the most recently used, `memo[s]` says
as which edition a handle was opened. An edition is a directory and a version
number: versions count from one in every new directory, and the probe
(`ProbeTable`) compares numbers only. A lookup holds `tableLock` from its probe to its
open, two threads apart. `IngestNotebook` and `DeleteTables` move the disk at any
moment; `Invalidate` is `on_ingest_complete`, and `promised` remembers what it announced.

### Cutover

`dir` says which corpus is at each path, `tool[p]` where a run of `ops.cutover` stands:
each criterion is read in a step of its own, the swap and the rollback are two
renames with their undo. Nothing locks, so two tools interleave and may be killed
anywhere; a rename fails on a missing source and an existing target, and a second one
also of itself. A restoring rename that fails of itself ends the run with the paths as a
kill there leaves them, and is `KillTool`. The watchdog
writes `reports` and the quarantine `flag`. The drill, the seed evaluation and the integrity
probe pass or refuse.

### IngestSentinel

`tick` steps through one pass of the refresher: usage, write or look, read,
unlink; all but the look may fail (`TickFails`). The operator writes and removes the same file with no lock in common, and the
delta harvest looks at it once, when it starts.

### OaiDelta

`harvest` is a run: its window, its set, the token it holds, what it has listed.
`onDisk` is the state file, rewritten after every page; `fed` what reached the pipeline.
A record is its set, day and page. `forfeit` collects what a mishap excuses (a page given
up, an operator's window, a dry run, a run over midnight), each named at the action
that does it, so that everything else must be fed. After midnight a run goes on with the
token it has, or the server no longer takes it (`Expired`). The hand-over of one feed is one step.

### ReEmbed

A build is a pair of versions, chunker and embedder; chunk ids name text, so of each
paper one chunk survives every chunker and one does not. `npz`, `sidecar`, and the rows
in `active` and `staging` say in which space a vector is and which version it states;
the code keeps only the second. `work` is the one process at work: `IngestPaper`, or
`StartReEmbed` and then per paper `NextPaper`, `Copy`, `EmbedSkips` or `WriteNpz` and
`WriteSidecar`, `Write`. `StepRaises` is any of these failing, with or without the rows
committed; `Kill` may fall between any two. The target of a re-embed is the build's embedder
or an older one that `--target-embedder-version` names: `work.target` stamps what is copied,
while what is embedded is the build's. `AcrossEmbedders` says whether a re-embed is also used
with another target than the active marker's embedder, as after an embedder bump; one
docstring forbids it and the runbook describes it.

### CorpusWriter

`commits` are the dataset's versions, `mark` is `corpus-version.json`. `write_chunks` is
`Merge`, `CreateIndices`, `WriteMarker` or `SwallowMarker`, and `Gate`. The recount of
`make reconcile` and of the notebook page is `RecountReads`, `RecountCounts`,
`RecountWrites`, which a writer may overtake. `DamageCount` is the edit it repairs.

### DesktopShell

`sup[u]` is a supervisor process from its lock over the collection of an earlier
tree (`rec`, `target`), the spawn and the launch frames to its end. `ctl[u]` says who has
the one control of the child: the boot, the slot, the signal watcher or the window's
exit. `rung[u]` is that owner's ladder: shutdown frame, grace, TERM, reap, sweep of the
group, sweep of the detached. `proc[u]` has the child, what shares its group, and what
left it with `setsid`. A supervisor may be killed and a child may stop or wedge at any step;
every wait may end by its deadline. A probe is a `ps`, and one that fails or outlasts its
budget says "gone" (`Probes`) or lists no descendants (`Walk`). `lost` are children whose
record was never written, went with the supervisor that had taken it up, or was
dropped because such a probe took its living child for gone.

## 3. Runs

Every run but the violations is expected to finish without an error.

| run | instance | shows |
|---|---|---|
| `ingest_safety` | one notebook, two concurrent triggers, two runs, two daemon lives, one failing write, fairness | types; a row's outcome is its subprocess's, once; every run settles; `IngestRuns` implements `IngestLedger` |
| `server` | two notebooks, one trigger at a time, three runs; two searches and the ingest callback over two versions and two moves of the disk; two searches, two texts, two widths, two versions and a notebook over caches of one row, two cache objects, two units of time | one subprocess, no row without a hand on it; payloads keyed by content, one rebind per bump; what the tiers serve answers the call |
| `bookkeeping` | see below | eighteen properties of nine components, two of them refinements: `RerankFlight` implements `SharedWork`, `Cutover` implements `CorpusSwitch` |
| `upkeep` | one search, the callback, one failing step, one move, a crash and a restart; two uploads among three books of two notebooks, two lives, one failing write; three orders and two failing ticks; fairness | what must come about: the server converges on the disk, parses end, a low disk pauses; the published cache is open, a running status is worked on; `ParseRuns` implements `ParseLedger` |
| `desktop` | two supervisors, one SIGKILL, one stuck child, fairness | no launch meets an earlier child that was not lost, a finished ladder leaves nothing, every boot and shutdown ends |
| `bind_stamp`, `migration_reopen`, `lean_desync`, `parse_twice`, `operator_pause`, `delta_resume`, `reembed_bump` | as small as shows it | what a comment or document says and the code does not do; see Findings |

`bookkeeping` has three sessions of two calls each in a registry of two, over a
window that slides; two openers of the schema from all seven released versions, three
opens; three searches, two keys, two permits, three passes; three lean_verify calls over two
processes; two searches over one slot, two notebooks and one directory of two
versions each; two cutover tools over three corpora, two reports, two version
numbers and one slip; two sets of two pages over three days, with a crash, a lapse and an
operator's order; two papers, one bump, one cutover, two mishaps, used as the
docstring says (`AcrossEmbedders = FALSE`), with targets of the build and older ones; two rows, six versions, two failures, two recounts.

Why the bounds are enough. A race of two triggers needs two handlers of one
notebook; a queue in which the permit can be handed to the wrong run needs three
runs. A second daemon life is what makes rows of a dead daemon exist; a third
would meet the same rows. A search is overtaken by at most two rebinds before
its answer leaves, hence two moves of the marker, and two versions suffice
because the fallback only reaches one version down. A registry of two with three
sessions evicts one while another could have been chosen; a window of one unit in
a time of two slides out of view once. The ladder starts from every released
version, and one opener overtakes another in every statement. For the
singleflight, one more search than permits makes one wait, and of three
searches over two keys two share a pass while the third runs another. For the Lean wire, three calls are one that leaves
early, one that gets its reply and one that waits meanwhile; two processes are the
fewest for which a number, or a token, can mean another environment. One slot and two
notebooks evict; two versions are an old and an announced one. A
cache of one row overflows at the second; two calls are one that stores or reads back and one
that expires, evicts or rebinds meanwhile; a lifetime of one unit in a time of two ends within
a behaviour, for a row that is read again half way. Two cutover tools
with three corpora have one to serve, one to promote and one to lose. A harvest that
crashes loses the first day and needs a second to miss it and a third to show
it. A bump between the NPZ and the sidecar, or between an ingest and a re-embed that
resumes, takes one bump and one kill; the second mishap is the failing paper. Two
uploads to one notebook are the race, a third book makes the other notebook wait. Two
supervisors are one that dies and one that finds what it left.

The counters of starts, moves, faults, passes and opens are bounded, so the models
stop in states in which the program would go on; this is why the configurations do
not check for deadlock. `RunsSettle`, `Converges`, `ParsesEnd`, `LowDiskPauses` and
`Settles` are the checks that nothing waits for good inside those bounds.

### Fairness

`IngestRuns`: weak fairness of each handler's, each task's and each subprocess's
steps. The event loop runs every ready callback and the store's thread returns;
that subprocesses end is an assumption, since `communicate()` has no timeout
(see the hazards). Nothing is assumed about triggers, crashes or cancellation.

`CorpusBinding`: weak fairness of the steps of a search or a bind, weak fairness of
the freshness interval and of arrivals (`Converges` is about a server that is used), and strong fairness of
entering the gate, whose `asyncio.Lock` serves its waiters in order. Nothing is
assumed of the disk, of ingests or of restarts.

`ParseRuns`: weak fairness of a task's and a thread's steps. Here the end of the
subprocess is the code's own: MinerU has a wall timeout.

`IngestSentinel`: weak fairness of the refresher's tick, a loop that sleeps a fixed time
and survives what it catches. Nothing is assumed of the operator or the disk.

`DesktopShell`: weak fairness of every living supervisor's next step. One of its threads
always has something to do and every wait has a deadline; nothing is assumed of the
child, which may never answer, nor of the window, which may never be closed.

In `MCUpkeep` the fairness of a component at rest is vacuous: none of its actions is
enabled.

## 4. Proofs

All proofs are for every value of the constants, from the named assumptions in the
modules (bounds are naturals, the special values are none of the sets' members).
Three theorems say what else they assume: `ServesWholeHolds` and `RowsKeptHolds` that a
file without a schema has one creator, or that there is none (`SoleCreator \/ 0 \notin
Released`), `StampTellsSpaceHolds` that the target of a re-embed is the active marker's embedder
(`~AcrossEmbedders`). The first is what the start of the daemon does, the second what
the docstring of `re_embed.py` asks; the configurations set both the same way.

### The daemon

| theorem | invariant it rests on |
|---|---|
| `TypeCorrect`, `OneSubprocessHolds` | `TInv`: types, and the permit is free only when nobody is inside, where at most one task is. `OneSubprocess` alone is not inductive: that a permit is handed on exactly once shows in `permits`. |
| `OutcomeHonestHolds`, `SettledOnceHolds` | `RunInv`: a task that has yet to write has an unwritten row, its subprocess agrees with where it is, each run has one hand on it, and a dead daemon has none. |
| `NoLostRunHolds` | `RunInv` again, with the places at which a row that says running is in somebody's hand. |
| `OnePerSlugHolds` | for a single trigger handler, that what it has checked is still so when it inserts; with two it is false, which is why no run checks it. |
| `ImplementsLedgerHolds` | the refinement: under the mapping of `IngestRuns` every action is an action of `IngestLedger` or leaves the mapped variables alone, given `TInv` and `RunInv`. |
| `BindingTypeCorrect`, `KeyedByContentHolds` | `BindInv`: every handler is `Coherent`, i.e. the cache in its hand belongs to the table and the payload it holds. That the stored payload is right follows from what was captured long before. |
| `BoundCacheOpenHolds`, `OneRebindPerBumpHolds` | `RebindInv`: one handler binds at a time; the cache in its hand is open and is not the bound one, so that closing it on a fault or as the old one takes nothing from a search; and the version in its hand is still news. The gate gives this for rebinds only. The late bind of a stub takes no lock: what keeps it apart is that a stub answers before it comes to the gate, and stays a stub until the late bind is over. |
| `HitAnswersHolds` | `TierInv`: whatever the file, the mirrors and the rings hold is honest, i.e. was ranked for the key it stands under and carries the time it was written, and a call that holds something between two awaits holds it for its own question. That a served entry was ranked for its caller follows from the key alone; that it is no older than its tier allows does not, since a row that is read again gets a second lifetime in the mirror. |
| `OneFlightPerKeyHolds`, `FlightIsNamedHolds` | `FlightInv`: the map and the passes that run, or have ended with their callbacks due, name each other. Either half alone is broken by the step that the other half governs. That the map names nothing but passes that run would be false: between the end of a pass and its callback it names one that is over. |
| `FlightImplementsSharedWork` | the refinement, from `FlightInv` and `ShareInv`: whoever waits for a pass asked for its key, a pass runs for exactly the keys underway, and who shares it is told what it has come to, or who comes in the moment it ends. That a pass ends for all its sharers in one step and for nobody else is where the map, the shielded task and the done callback have to agree. |
| `PermitsHold` | `FlightAccount`: every permit is free or with a search that is past the semaphore (`PermitsAddUp`), and the lock's holder is the one search that joined, its line exactly those who wait for it, once each (`LockInLine`). That the sum comes out rests on the line: a search that the lock passes over, or that is cancelled in it, has a permit too. |
| `TiersKeptHolds` | `TiersKept`, on top of `TierInv`: the table's rows have one key each and stay within the cap, a mirror has a key once, and a ring no text that its index lacks. What is stored takes the place of what has its key, whatever other calls did between. A mirror's length is not bounded: a row that is read goes in and evicts nothing. |
| `BudgetAlwaysHolds` | `CapInv`: charged and served counters agree and are affordable. |
| `HourlyWindowHolds` | `WindowInv` and `OrderInv`: the deque is the end of the session's calls, call by call, what has left it is out of the window, and calls stand in the order of their times. So the loop forgets exactly the prefix it may (`LastOnes`), and its count is that of the calls in the window, neither more nor less. |
| `RegistryHolds` | `RegistryInv` beside `CapInv` and `WindowInv`: the order names a session once and is no longer than its maximum. A session that comes back is moved to the end, and never doubled. |
| `TablesTyped`, `FreshAfterIngestHolds` | `TabInv`: the disk has reached what was promised, what a lookup has read under the lock is no older than that, and the notebook it probes stays in the registry. An announcement waits for the lock, so it cannot fall between a lookup's read and its store. |

### Notebooks

| theorem | invariant it rests on |
|---|---|
| `ServesWholeHolds`, `RowsKeptHolds` | `MigInv`: each opener is at a statement of the ladder whose predecessors it has seen done in the file it would find if every other process died now (`Mine`), the write lock is held by whoever is in a transaction, and a file that is being created has nobody else at it. The saved file must be in the invariant beside the live one: a rollback puts it back under openers that have read the other. |
| `RunningIsWorkedHolds`, `OneMineruHolds` | `ParseInv`: the queue holds each task at work once, only its head is past the semaphore, and only it has a thread while the daemon is up. That a running status has a task behind it rests on where every handler stands. |
| `ParsesImplementLedger` | `LedgerInv`, on top of `ParseInv`: requests are answered before a shutdown begins (`AnsweredInv`), a thread is the one its task awaits or has heard (`HeardInv`), and the tracker registers only tasks that have not ended, each under its own notebook (`TrackerInv`). A shutdown is one step of the ledger in which every registered task that ends lets go, with its last word or without. One parser at a time is promised while the daemon is up only: a task the tracker has lost sight of (a second upload took its place) is not cancelled, and may begin while the thread of a cancelled one is still at work. |

### Lean, files and the desktop

| theorem | invariant it rests on |
|---|---|
| `EnvBindsHolds` | `EnvInv`: every environment number underway, in a command, a reply, a call's hand or a client's token, names what its holder means. `EnvBinds` speaks of commands on the pipe only, and says nothing of where their numbers come from. |
| `LiveIsCurrentHolds` | `LiveInv`: besides the property, that a call about to replace a process replaces the current one, and that one call does so at a time: two would spawn two. |
| `WireAccountedHolds` | `WireInv`: the account, that the lock's holder is the call that reads, and that a process yet to be spawned has a clean wire. |
| `OwnUntilLostHolds` | `OwnInv`, on top of `WireInv`: while nothing is lost on a process, its pipes hold one message, the lock's holder's next (`WireOwn`); what a call has been given is its own (`CallOwn`); and a dead process has no command left to answer (`DeadDeaf`). |
| `CountsItsVersionHolds` | `WriterInv`: a write that is about to mark names the last commit, a recount holds the count of the version it read. |
| `StampTellsSpaceHolds` | `StampInv`: an NPZ is never older than its sidecar nor newer than the process that could have written it, so a sidecar of this build means vectors of this build; and a re-embed's old version is its target's. `reembed_bump` shows the property false without `~AcrossEmbedders`. |
| `CompleteIsWholeHolds` | `WholeInv`: every paper of the run is to come, given up, at work or in staging, and past the copy only pending ids can be missing. |
| `AloneInTheGap`, `ActiveServedHolds`, `LifelineKeptHolds` | `CutInv`: while a tool is between its renames the active path is empty, so every other tool's first rename fails: the empty path is the lock that nobody took. With it, a staged corpus stands nowhere else (`FreshInv`), and what waits at the rollback path has no lifeline of its own left (`SpentInv`), so that a rollback owes nothing. |
| `CutoverImplementsSwitch` | the refinement, from `CutInv`, `OnceInv` (what stands in staging has never been served, so that no corpus is promoted twice) and `ApartInv` (what is served, or was put aside, is not what waits). A step of a tool is a step of the switch only because no other tool is between its renames. |
| `CutTypeCorrect` | `FilesTyped` and `ScoreTyped`: what tools, the watchdog and the operator write and read, in any order. |
| `FedOrForfeitHolds` | `DeltaInv`: during a run every record that could be owed is fed, forfeit, in the feed, or still ahead by window, set and page (`WindowInv`), and a listing that does not begin with its window continues one of which nothing is owed (`TokenInv`). The property is about rest only; the step that breaks it is taken a whole run earlier. |
| `ShellTypeCorrect`, `SpawnsAloneHolds` | who holds the lock, and that a living child is on record, in its own supervisor's hand or in a collector's, unless it is lost: never recorded, its collector dead, or taken for gone by a failed probe. |
| `LadderClearsHolds` | an action property, from the types and from what each rung leaves behind it. |

### The sums

`ServerTypeCorrect`, `UpkeepTypeCorrect` and `BookkeepingTypeCorrect` state the type invariants
of `MCServer`, `MCUpkeep` and `MCBookkeeping`. A behaviour of a sum is a behaviour of each of
its components, since a step of one leaves the variables of the others alone; so each conjunct
follows from a theorem of its component, and the same argument carries every other theorem
over to the sums. Some of those types bound more than a shape:

| theorem | what its types need |
|---|---|
| `BindingTypeCorrect`, `TiersKeptHolds`, `RegistryHolds`, `PermitsHold`, `TablesTyped`, `CutTypeCorrect` | as above |
| `TypeCorrect` | `TInv` |
| `LeanTypeCorrect` | `LeanTyped`: a call that waits has something to send, one between verdict and audit has a reply and a process |
| `MigTypeCorrect` | `MigTypeInv`, which asks for no single creator: the write lock's holder is in a transaction, and everybody stands at a statement of the ladder, also after a second creator's `DROP TABLE` |
| `ParseTypeCorrect` | `QueueInv`, on top of `LedgerInv`: through a shutdown, too, the semaphore's line has each task at work once |
| `SentTypeCorrect` | nothing beside the types |
| `WriterTypeCorrect` | `RoomInv`: a marker, a writer and a recount name a version the dataset has, and a merge leaves room for the version its indices make. It needs the rows to be finitely many, so that they can be counted |
| `ReEmbedTypeCorrect` | `BoundedInv`, on top of `StampInv`: no row, vector or target of a re-embed is of an embedder above the build's, no chunk of a chunker above it. A deployment only raises the bound |
| `DeltaTypeCorrect` | `DeltaInv`: the date of the state file is at most a day ahead of the day it is |

Each invariant is shown to hold initially, to be kept by every action (one step
per action, lemmas for the parts actions share), and to imply the property; the
temporal step is last.

What stays with TLC is liveness (`RunsSettle`, `Converges`, `ParsesEnd`, `LowDiskPauses`,
`Settles`), whose proofs need fairness and `ENABLED`. Every invariant and every action property that a
passing run checks, and every refinement, is a theorem. The one safety statement about the
sentinel beside its types is the one `operator_pause` refutes.

## 5. Findings

Seven statements of the repository the code does not keep, each with a run
whose trace shows it; `PROJECT.json` quotes the lines.

1. `bind_stamp`: an answer computed on one version is stamped, and cached, with the
   next when a rebind falls between.
2. `migration_reopen`: a crash between an `ALTER TABLE` and its version bump makes
   every later open fail.
3. `lean_desync`: a call that leaves before its reply leaves it to the next call. One that
   timed out has freed the lock before its handler closes the process, and a waiter writes and
   reads in between; after one that was cancelled nobody replaces the process, and every
   later call on it gets its predecessor's verdict.
4. `parse_twice`: two uploads to one notebook both pass the check that is said to
   close their race, and both parse.
5. `operator_pause`: a low disk overwrites an operator's pause, and the recovery
   clears it.
6. `delta_resume`: a harvest that dies after a page has already moved its date; what it
   listed is never listed again.
7. `reembed_bump`: after an embedder bump the re-embed copies old vectors and stamps them
   as new.

Disagreements seen while modelling, which the models contain and no run is spent on:

- Ingest: two triggers for one notebook both pass the 409 checks, as the uploads do; a
  run cancelled while it queues keeps its running row after an orderly shutdown.
- Search: an answer computed on the fallback version is cached under the damaged
  one's number and served, unmarked, once that is repaired.
- Cache: a row that overflows the file stays in the mirror, which "never holds an entry the
  durable store does not have"; a row read back goes into the mirror without its cap; a
  restart puts the freshest row where the mirror evicts first; an expired entry leaves tier 2's
  buffer but stays in its index, and takes one of the eight neighbours; a rebind drops a
  notebook's rows, whose version is not the corpus's; and the comment that tier 2 is "NOT
  version-namespaced" (`resources.py:1381`) is out of date, as `HitAnswers` shows.
- Rerank: with a joiner inside the singleflight's lock, a later caller of the same key runs a
  second pass.
- Parse: a paper whose parse failed is a duplicate when it is uploaded again, and is
  not parsed.
- Lean: a call cancelled while it replaces the process leaves a process that has exited
  as the current one.
- Desktop: a signal between spawn and hand-over ends the supervisor without a ladder; a
  `ps` that fails or is late reads as "the recorded PID is gone", a case the three ways
  in which `collect_orphan_tree` "declines to act" do not name, and the next child starts
  beside the old one.
- Cutover: the check after activation reads the newest report, whichever corpus it is of.
- Harvest: a dry run writes the state file it says it does not touch; a run that works past
  midnight moves the date past the new day.
- Re-embed: the runbook has the cutover read the progress sentinel, which nothing reads;
  staging is not cleared between bumps and keeps chunks no chunker makes any
  more; the bulk ingest has no guard against mixing spaces; a rollback of the build
  after a kill between NPZ and sidecar would believe the sidecar.
- Writer: a re-ingest of known rows whose marker write is swallowed passes the gate,
  which compares counts only; a reconcile beside an ingest can put an older marker
  back; the text for a missing marker says to run the reconcile, which refuses.

## 6. Not modelled

Ranking, chunking, embedding, parsing of papers, plan validation and the wire formats
are code over data: their inputs and outputs are values of the models, their computation is
not. The HTTP middleware other than the caps keeps nothing between requests. The
notebook pages and the read-only tools are queries. The query encoder's delayed eviction is
stateful and not yet modelled. Backup and restore are scripts around an external tool.
The clock that steps back, a restore that repeats a version number and a build that
is rolled back are outside the models; their hazards say so.

## 7. Plan

1. The query encoder as a second instance of the singleflight, with its eviction
   100 ms after success.
2. The one-shot move of notebooks to their own directories (`tools/notebook_cutover.py`)
   and the restore, beside the daemon that serves them.
3. Documents and their statuses in the per-notebook stores.
4. Abstract specifications for the binding and the Lean wire, with their refinements.
5. `CorpusBinding` with a content identity in the marker, to say what a repeated
   version number costs.
