------------------------------ MODULE IngestRuns ------------------------------
(***************************************************************************)
(* The ingest of a notebook, from the click to the terminal row.           *)
(*                                                                         *)
(* trigger_ingest (server/routes/notebooks.py) checks for a collision,     *)
(* inserts a run row and hands it to IngestTaskTracker                     *)
(* (server/ingest_tracker.py), whose tasks queue on an asyncio.Semaphore   *)
(* for the one subprocess the daemon may have, and write the outcome to    *)
(* the row.  lifespan (server/main.py) recovers the rows a dead daemon     *)
(* left behind, and cancels the tasks at shutdown.                         *)
(*                                                                         *)
(* Everything between two awaits is one action; so is everything a store   *)
(* method does in its thread, because the store's lock serialises them.    *)
(***************************************************************************)
EXTENDS Naturals

CONSTANTS Slugs,       \* notebook slugs
          Reqs,        \* concurrent POST .../ingest handlers
          MaxRun,      \* bound: run rows ever inserted
          MaxBoots,    \* bound: daemon starts
          MaxFaults    \* bound: run-row writes that raise

ASSUME BoundsAssumption ==
    MaxRun \in Nat /\ MaxBoots \in Nat /\ MaxFaults \in Nat

ASSUME SlugsAssumption == Slugs # {}

Runs  == 1 .. MaxRun   \* notebook_ingest_runs.id, AUTOINCREMENT
NoRun == 0

\* status, exit_code and message of a run row in one value
Settled == {"success", "failed", "nospawn", "cancelled", "orphaned"}
RowStates == {"unborn", "running", "gone"} \cup Settled

\* where a task waits; Holding are the places inside `async with _global_cap`
Holding == {"granted", "spawn", "comm", "reap", "settle", "fwrite", "cwrite",
            "callback"}
TaskStates == {"none", "new", "waiting", "done"} \cup Holding

VARIABLES
    notebooks,  \* slugs with a row in the notebooks table
    row,        \* row[r]: the run row, RowStates
    slugOf,     \* slugOf[r]: the row's slug (meaningless while unborn)
    aged,       \* rows whose started_at lies more than 5 minutes back
    req,        \* req[q]: a handler's [pc, slug, run]
    reg,        \* reg[s]: IngestTaskTracker._tasks, NoRun when absent
    task,       \* task[r]: where the run's asyncio task is
    ahead,      \* ahead[r]: tasks that start_ingest had created before r's
    permits,    \* _global_cap's value
    cx,         \* tasks with an undelivered cancel()
    proc,       \* proc[r]: the subprocess
    phase,      \* the daemon: "down", "up", "draining", "closed"
    mine,       \* runs triggered by the current daemon
    boots,      \* daemon starts so far
    faults      \* store writes that raised

dbVars   == <<notebooks, row, slugOf, aged>>
taskVars == <<reg, task, ahead, permits, cx>>
sysVars  == <<phase, mine, boots>>
vars == <<notebooks, row, slugOf, aged, req, reg, task, ahead, permits, cx,
          proc, phase, mine, boots, faults>>

ReqStates == [pc : {"idle", "lookup", "check", "dbcheck", "insert", "start"},
              slug : Slugs, run : Runs \cup {NoRun}]
Idle == [pc |-> "idle", slug |-> CHOOSE s \in Slugs : TRUE, run |-> NoRun]

TypeOK ==
    /\ notebooks \subseteq Slugs
    /\ row \in [Runs -> RowStates]
    /\ slugOf \in [Runs -> Slugs]
    /\ aged \subseteq Runs
    /\ req \in [Reqs -> ReqStates]
    /\ reg \in [Slugs -> Runs \cup {NoRun}]
    /\ task \in [Runs -> TaskStates]
    /\ ahead \in [Runs -> SUBSET Runs]
    /\ permits \in 0 .. 1
    /\ cx \subseteq Runs
    /\ proc \in [Runs -> {"none", "live", "ok", "err", "killed"}]
    /\ phase \in {"down", "up", "draining", "closed"}
    /\ mine \subseteq Runs
    /\ boots \in 0 .. MaxBoots
    /\ faults \in 0 .. MaxFaults

Init ==
    /\ notebooks = {}
    /\ row = [r \in Runs |-> "unborn"]
    /\ slugOf = [r \in Runs |-> CHOOSE s \in Slugs : TRUE]
    /\ aged = {}
    /\ req = [q \in Reqs |-> Idle]
    /\ reg = [s \in Slugs |-> NoRun]
    /\ task = [r \in Runs |-> "none"]
    /\ ahead = [r \in Runs |-> {}]
    /\ permits = 1
    /\ cx = {}
    /\ proc = [r \in Runs |-> "none"]
    /\ phase = "down"
    /\ mine = {}
    /\ boots = 0
    /\ faults = 0
-------------------------------------------------------------------------------
(***************************************************************************)
(* Notebook rows.  DELETE cascades to the run rows.                        *)
(***************************************************************************)
CreateNotebook(s) ==
    /\ phase = "up"
    /\ s \notin notebooks
    /\ notebooks' = notebooks \cup {s}
    /\ UNCHANGED <<row, slugOf, aged, req, taskVars, proc, sysVars, faults>>

DeleteNotebook(s) ==
    /\ phase = "up"
    /\ s \in notebooks
    /\ notebooks' = notebooks \ {s}
    /\ row' = [r \in Runs |-> IF row[r] # "unborn" /\ slugOf[r] = s
                              THEN "gone" ELSE row[r]]
    /\ UNCHANGED <<slugOf, aged, req, taskVars, proc, sysVars, faults>>

\* five minutes pass since the row was inserted
AgeRow(r) ==
    /\ row[r] = "running"
    /\ r \notin aged
    /\ aged' = aged \cup {r}
    /\ UNCHANGED <<notebooks, row, slugOf, req, taskVars, proc, sysVars,
                   faults>>
-------------------------------------------------------------------------------
(***************************************************************************)
(* trigger_ingest, one action per await.                                   *)
(***************************************************************************)
IsRunning(s) == reg[s] # NoRun /\ task[reg[s]] # "done"
HasRunningIngest(s) == \E r \in Runs : row[r] = "running" /\ slugOf[r] = s

Goto(q, pc) == req' = [req EXCEPT ![q].pc = pc]
Answer(q)   == req' = [req EXCEPT ![q] = Idle]

TrigArrive(q, s) ==
    /\ phase = "up"
    /\ req[q].pc = "idle"
    /\ req' = [req EXCEPT ![q] = [pc |-> "lookup", slug |-> s, run |-> NoRun]]
    /\ UNCHANGED <<dbVars, taskVars, proc, sysVars, faults>>

\* await store.get_notebook: 404 when there is none
TrigLookup(q) ==
    /\ req[q].pc = "lookup"
    /\ IF req[q].slug \in notebooks THEN Goto(q, "check") ELSE Answer(q)
    /\ UNCHANGED <<dbVars, taskVars, proc, sysVars, faults>>

\* tracker.is_running: 409 when the registered task lives
TrigCheck(q) ==
    /\ req[q].pc = "check"
    /\ IF IsRunning(req[q].slug) THEN Answer(q) ELSE Goto(q, "dbcheck")
    /\ UNCHANGED <<dbVars, taskVars, proc, sysVars, faults>>

\* await store.has_running_ingest: 409 when a row is running
TrigDbCheck(q) ==
    /\ req[q].pc = "dbcheck"
    /\ IF HasRunningIngest(req[q].slug) THEN Answer(q) ELSE Goto(q, "insert")
    /\ UNCHANGED <<dbVars, taskVars, proc, sysVars, faults>>

\* await store.insert_ingest_run; the foreign key refuses a deleted notebook
TrigInsert(q) ==
    /\ req[q].pc = "insert"
    /\ IF req[q].slug \in notebooks
       THEN \E r \in Runs :
              /\ row[r] = "unborn"
              /\ \A p \in Runs : p < r => row[p] # "unborn"
              /\ row' = [row EXCEPT ![r] = "running"]
              /\ slugOf' = [slugOf EXCEPT ![r] = req[q].slug]
              /\ mine' = mine \cup {r}
              /\ req' = [req EXCEPT ![q] =
                           [pc |-> "start", slug |-> @.slug, run |-> r]]
       ELSE Answer(q) /\ UNCHANGED <<row, slugOf, mine>>
    /\ UNCHANGED <<notebooks, aged, taskVars, proc, phase, boots, faults>>

\* tracker.start_ingest: create_task, then _tasks[slug] = task
TrigStart(q) ==
    /\ req[q].pc = "start"
    /\ task' = [task EXCEPT ![req[q].run] = "new"]
    /\ ahead' = [ahead EXCEPT ![req[q].run] = {r \in Runs : task[r] # "none"}]
    /\ reg' = [reg EXCEPT ![req[q].slug] = req[q].run]
    /\ Answer(q)
    /\ UNCHANGED <<dbVars, permits, cx, proc, sysVars, faults>>
-------------------------------------------------------------------------------
(***************************************************************************)
(* _run_ingest_subprocess, one action per await.  Semaphore.release hands  *)
(* the permit to the first waiter whose future is not cancelled.           *)
(***************************************************************************)
First(r, S) == r \in S /\ ahead[r] \cap S = {}
\* Mutant: a release wakes nobody.
WaitersForgotten == {}
Waiters == {r \in Runs : task[r] = "waiting" /\ r \notin cx}

\* Mutant: a release both wakes a waiter and returns the permit.
EndTaskTwice(r) ==
    /\ reg' = [reg EXCEPT ![slugOf[r]] = IF @ = r THEN NoRun ELSE @]
    /\ cx' = cx \ {r}
    /\ permits' = permits + (IF task[r] \in Holding THEN 1 ELSE 0)
    /\ task' = [p \in Runs |-> CASE p = r -> "done"
                              [] p # r /\ First(p, Waiters) -> "granted"
                              [] OTHER -> task[p]]
    /\ UNCHANGED ahead

\* the coroutine ends: leave the semaphore if inside, then _on_task_done
EndTask(r) ==
    /\ reg' = [reg EXCEPT ![slugOf[r]] = IF @ = r THEN NoRun ELSE @]
    /\ cx' = cx \ {r}
    /\ IF task[r] \notin Holding
       THEN task' = [task EXCEPT ![r] = "done"] /\ UNCHANGED permits
       ELSE \/ /\ Waiters = {}
               /\ permits' = permits + 1
               /\ task' = [task EXCEPT ![r] = "done"]
            \/ \E w \in Waiters :
                 /\ First(w, Waiters)
                 /\ task' = [task EXCEPT ![r] = "done", ![w] = "granted"]
                 /\ UNCHANGED permits
    /\ UNCHANGED ahead

Move(r, to) ==
    /\ task' = [task EXCEPT ![r] = to]
    /\ UNCHANGED <<reg, ahead, permits, cx>>

\* the task r waits at `at` and no cancellation is due
At(r, at) == task[r] = at /\ r \notin cx

StoreOpen == phase \in {"up", "draining"}
\* Mutant: INSERT OR REPLACE instead of UPDATE.
SetRowUpsert(r, to) == row' = [row EXCEPT ![r] = to]

\* UPDATE ... WHERE id = r matches nothing once the row is deleted
SetRow(r, to) ==
    row' = [row EXCEPT ![r] = IF @ = "gone" THEN @ ELSE to]

\* the task's first step: take a free permit or queue for it
Acquire(r) ==
    /\ At(r, "new")
    /\ First(r, {p \in Runs : task[p] = "new"})
    /\ IF permits > 0
       THEN /\ task' = [task EXCEPT ![r] = "spawn"]
            /\ permits' = permits - 1
            /\ UNCHANGED <<reg, ahead, cx>>
       ELSE Move(r, "waiting")
    /\ UNCHANGED <<dbVars, req, proc, sysVars, faults>>

Granted(r) ==
    /\ At(r, "granted")
    /\ Move(r, "spawn")
    /\ UNCHANGED <<dbVars, req, proc, sysVars, faults>>

\* create_subprocess_exec returns, or raises
Spawn(r) ==
    /\ At(r, "spawn")
    /\ Move(r, "comm")
    /\ proc' = [proc EXCEPT ![r] = "live"]
    /\ UNCHANGED <<dbVars, req, sysVars, faults>>

\* Mutant: the error path returns without writing the row.
SpawnFailsSilently(r) ==
    /\ At(r, "spawn")
    /\ EndTask(r)
    /\ UNCHANGED <<dbVars, req, proc, sysVars, faults>>

SpawnFails(r) ==
    /\ At(r, "spawn")
    /\ Move(r, "fwrite")
    /\ UNCHANGED <<dbVars, req, proc, sysVars, faults>>

\* tools.notebook_ingest ends, under this daemon or as an orphan
ProcExit(r) ==
    /\ proc[r] = "live"
    /\ \E out \in {"ok", "err"} : proc' = [proc EXCEPT ![r] = out]
    /\ UNCHANGED <<dbVars, req, taskVars, sysVars, faults>>

\* Mutant: the exit status is read before the subprocess has ended.
CollectEarly(r) ==
    /\ At(r, "comm")
    /\ Move(r, "settle")
    /\ UNCHANGED <<dbVars, req, proc, sysVars, faults>>

\* communicate returns
Collect(r) ==
    /\ At(r, "comm")
    /\ proc[r] # "live"
    /\ Move(r, "settle")
    /\ UNCHANGED <<dbVars, req, proc, sysVars, faults>>

\* the outcome is written; exit 0 goes on to on_success_callback
Settle(r) ==
    /\ At(r, "settle")
    /\ StoreOpen
    /\ SetRow(r, IF proc[r] = "ok" THEN "success" ELSE "failed")
    /\ IF proc[r] = "ok" THEN Move(r, "callback") ELSE EndTask(r)
    /\ UNCHANGED <<notebooks, slugOf, aged, req, proc, sysVars, faults>>

\* Resources.on_ingest_complete returned or raised (raising is only logged)
CallbackDone(r) ==
    /\ At(r, "callback")
    /\ EndTask(r)
    /\ UNCHANGED <<dbVars, req, proc, sysVars, faults>>

WriteSpawnFailure(r) ==
    /\ At(r, "fwrite")
    /\ StoreOpen
    /\ SetRow(r, "nospawn")
    /\ EndTask(r)
    /\ UNCHANGED <<notebooks, slugOf, aged, req, proc, sysVars, faults>>

\* terminate, wait up to two seconds, kill
Reap(r) ==
    /\ At(r, "reap")
    /\ Move(r, "cwrite")
    /\ proc' = [proc EXCEPT ![r] = IF @ = "live" THEN "killed" ELSE @]
    /\ UNCHANGED <<dbVars, req, sysVars, faults>>

WriteCancelled(r) ==
    /\ At(r, "cwrite")
    /\ StoreOpen
    /\ SetRow(r, "cancelled")
    /\ EndTask(r)
    /\ UNCHANGED <<notebooks, slugOf, aged, req, proc, sysVars, faults>>

\* update_ingest_run raises: a fault of the store, or its closed connection
WriteFails(r) ==
    /\ At(r, "settle") \/ At(r, "fwrite") \/ At(r, "cwrite")
    /\ IF StoreOpen THEN faults < MaxFaults /\ faults' = faults + 1
                    ELSE UNCHANGED faults
    /\ EndTask(r)
    /\ UNCHANGED <<dbVars, req, proc, sysVars>>
-------------------------------------------------------------------------------
(***************************************************************************)
(* CancelledError arrives.  Inside the try it is handled; anywhere else it *)
(* ends the coroutine.  A write already handed to a thread may still land. *)
(***************************************************************************)
CancelHandled(r) ==
    /\ r \in cx
    /\ \/ task[r] = "comm" /\ task' = [task EXCEPT ![r] = "reap"]
       \/ task[r] = "spawn" /\ task' = [task EXCEPT ![r] = "cwrite"]
    /\ cx' = cx \ {r}
    /\ UNCHANGED <<dbVars, req, reg, ahead, permits, proc, sysVars, faults>>

CancelEnds(r) ==
    /\ r \in cx
    /\ task[r] \in {"new", "waiting", "granted", "callback"}
    /\ EndTask(r)
    /\ UNCHANGED <<dbVars, req, proc, sysVars, faults>>

Pending(r) == CASE task[r] = "settle" -> IF proc[r] = "ok" THEN "success"
                                         ELSE "failed"
                [] task[r] = "fwrite" -> "nospawn"
                [] task[r] = "cwrite" -> "cancelled"

CancelDuringWrite(r) ==
    /\ r \in cx
    /\ task[r] \in {"settle", "fwrite", "cwrite"}
    /\ SetRow(r, Pending(r)) \/ UNCHANGED row
    /\ EndTask(r)
    /\ UNCHANGED <<notebooks, slugOf, aged, req, proc, sysVars, faults>>
-------------------------------------------------------------------------------
(***************************************************************************)
(* The daemon's life (lifespan).                                           *)
(***************************************************************************)
\* Mutant: recovery does not look at the status.
StartSweepsAll ==
    /\ phase = "down"
    /\ boots < MaxBoots
    /\ boots' = boots + 1
    /\ phase' = "up"
    /\ mine' = {}
    /\ row' = [r \in Runs |-> IF r \in aged THEN "orphaned" ELSE row[r]]
    /\ UNCHANGED <<notebooks, slugOf, aged, req, taskVars, proc, faults>>

\* mark_orphaned_runs_failed, then empty trackers
Start ==
    /\ phase = "down"
    /\ boots < MaxBoots
    /\ boots' = boots + 1
    /\ phase' = "up"
    /\ mine' = {}
    /\ row' = [r \in Runs |-> IF row[r] = "running" /\ r \in aged
                              THEN "orphaned" ELSE row[r]]
    /\ UNCHANGED <<notebooks, slugOf, aged, req, taskVars, proc, faults>>

Tracked == {r \in Runs : reg[slugOf[r]] = r}

\* uvicorn has answered the open requests; the tracker cancels what it holds
Shutdown ==
    /\ phase = "up"
    /\ \A q \in Reqs : req[q].pc = "idle"
    /\ phase' = "draining"
    /\ cx' = cx \cup Tracked
    /\ UNCHANGED <<dbVars, req, reg, task, ahead, permits, proc, mine, boots,
                   faults>>

\* wait_for gives up after 5 s, which cancels the gathered tasks once more;
\* the 2 s grace is over by then
DrainTimeout ==
    /\ phase = "draining"
    /\ Tracked # {} /\ Tracked \cap cx = {}
    /\ \A r \in Tracked : task[r] = "cwrite"
    /\ cx' = cx \cup Tracked
    /\ UNCHANGED <<dbVars, req, reg, task, ahead, permits, proc, sysVars,
                   faults>>

\* gather returns; the store closes
Drained ==
    /\ phase = "draining"
    /\ Tracked = {}
    /\ phase' = "closed"
    /\ UNCHANGED <<dbVars, req, taskVars, proc, mine, boots, faults>>

\* what the process held in memory is gone
Forget ==
    /\ phase' = "down"
    /\ req' = [q \in Reqs |-> Idle]
    /\ reg' = [s \in Slugs |-> NoRun]
    /\ task' = [r \in Runs |-> "none"]
    /\ ahead' = [r \in Runs |-> {}]
    /\ permits' = 1
    /\ cx' = {}
    /\ UNCHANGED <<dbVars, mine, boots, faults>>

\* the event loop closes: it cancels the tasks the tracker lost sight of
Exit ==
    /\ phase = "closed"
    /\ proc' = [r \in Runs |-> IF task[r] \in {"comm", "reap"} /\ proc[r] = "live"
                               THEN "killed" ELSE proc[r]]
    /\ Forget

\* SIGKILL or power loss: the children live on
Crash ==
    /\ phase # "down"
    /\ UNCHANGED proc
    /\ Forget
-------------------------------------------------------------------------------
TaskStep(r) ==
    \/ Acquire(r) \/ Granted(r) \/ Spawn(r) \/ SpawnFails(r)
    \/ Collect(r) \/ Settle(r) \/ CallbackDone(r) \/ WriteSpawnFailure(r)
    \/ Reap(r) \/ WriteCancelled(r) \/ WriteFails(r)
    \/ CancelHandled(r) \/ CancelEnds(r) \/ CancelDuringWrite(r)

ReqStep(q) ==
    TrigLookup(q) \/ TrigCheck(q) \/ TrigDbCheck(q) \/ TrigInsert(q)
    \/ TrigStart(q)

Next ==
    \/ \E s \in Slugs : CreateNotebook(s) \/ DeleteNotebook(s)
    \/ \E q \in Reqs, s \in Slugs : TrigArrive(q, s)
    \/ \E q \in Reqs : ReqStep(q)
    \/ \E r \in Runs : TaskStep(r) \/ ProcExit(r) \/ AgeRow(r)
    \/ Start \/ Shutdown \/ DrainTimeout \/ Drained \/ Exit \/ Crash

Spec == Init /\ [][Next]_vars

\* the event loop runs what is ready, the store's thread returns, and a
\* subprocess ends by itself; nothing is promised about requests or the daemon
Fairness ==
    /\ \A q \in Reqs : WF_vars(ReqStep(q))
    /\ \A r \in Runs : WF_vars(TaskStep(r)) /\ WF_vars(ProcExit(r))

FairSpec == Spec /\ Fairness
-------------------------------------------------------------------------------
(***************************************************************************)
(* Properties.                                                             *)
(***************************************************************************)
\* The run whose subprocess the daemon is driving.
Driving(r) == task[r] \in {"comm", "reap"}
Live(r) == task[r] \notin {"none", "done"}

\* The global cap: however triggers, cancellations and completions
\* interleave, the daemon drives at most one ingest subprocess at a time
\* (IngestTaskTracker._global_cap).
OneSubprocess ==
    \A r1, r2 \in Runs : Driving(r1) /\ Driving(r2) => r1 = r2

\* A row tells the truth about its subprocess: success only for one that
\* exited 0, failed only for one that exited otherwise, spawn failure only
\* for one that never ran (the writes of _run_ingest_subprocess).
OutcomeHonest ==
    \A r \in Runs : /\ row[r] = "success" => proc[r] = "ok"
                    /\ row[r] = "failed"  => proc[r] = "err"
                    /\ row[r] = "nospawn" => proc[r] = "none"

\* While the daemon is up and no write of a row has failed, a running row it
\* inserted has a task, or a handler about to create one: nobody waits for a
\* run that nothing works on (trigger_ingest, _run_ingest_subprocess).
NoLostRun ==
    \A r \in mine :
      phase = "up" /\ faults = 0 /\ row[r] = "running" =>
        \/ Live(r)
        \/ \E q \in Reqs : req[q].pc = "start" /\ req[q].run = r

\* At most one ingest per notebook is in flight (trigger_ingest's 409).
OnePerSlug ==
    \A r1, r2 \in Runs :
      Live(r1) /\ Live(r2) /\ slugOf[r1] = slugOf[r2] => r1 = r2

\* A run settles once: a poller that saw a terminal row (HTTP 286) never
\* finds it changed, unless the notebook is deleted (latest_ingest).
SettledOnce ==
    [][\A r \in Runs : row[r] \in Settled => row'[r] \in {row[r], "gone"}]_vars

\* Every accepted run settles while the daemon stays up and its store works,
\* whatever is queued before it: no hand-off of the permit is lost.
RunsSettle ==
    \A r \in Runs :
      (r \in mine /\ row[r] = "running" /\ phase = "up")
        ~> (row[r] # "running" \/ phase # "up" \/ faults > 0)

\* The inductive form of OutcomeHonest and SettledOnce: a run that still has
\* something to write has not been written, each run has one hand on it, and
\* a dead daemon has none.
Unsettled == {"new", "waiting", "granted", "spawn", "comm", "reap", "settle",
              "fwrite", "cwrite"}
RunInv ==
    /\ phase = "down" => /\ \A r \in Runs : task[r] = "none"
                         /\ \A q \in Reqs : req[q].pc = "idle"
    /\ \A q \in Reqs : req[q].pc = "start" =>
         /\ req[q].run \in Runs
         /\ row[req[q].run] \in {"running", "gone"}
         /\ task[req[q].run] = "none"
         /\ proc[req[q].run] = "none"
    /\ \A q1, q2 \in Reqs :
         req[q1].pc = "start" /\ req[q2].pc = "start"
           /\ req[q1].run = req[q2].run => q1 = q2
    /\ \A r \in Runs :
         /\ row[r] = "unborn" => task[r] = "none" /\ proc[r] = "none"
         /\ task[r] \in Unsettled => row[r] \in {"running", "gone"}
         /\ task[r] \in {"new", "waiting", "granted", "spawn", "fwrite"}
              => proc[r] = "none"
         /\ task[r] = "comm" => proc[r] \in {"live", "ok", "err"}
         /\ task[r] = "settle" => proc[r] \in {"ok", "err"}
    /\ OutcomeHonest
-------------------------------------------------------------------------------
(***************************************************************************)
(* The abstract ledger, and how the daemon implements it.                  *)
(***************************************************************************)
worker == IF \E r \in Runs : Driving(r) THEN CHOOSE r \in Runs : Driving(r)
                                        ELSE NoRun
Ledger == INSTANCE IngestLedger WITH row <- row, proc <- proc, worker <- worker

\* Behind all handlers, queues, cancellations and restarts there is a ledger
\* of runs that settle once and truthfully, and a single worker.
ImplementsLedger == Ledger!Spec
===============================================================================
