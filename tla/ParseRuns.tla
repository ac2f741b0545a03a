------------------------------- MODULE ParseRuns -------------------------------
(***************************************************************************)
(* The parse of an uploaded textbook, from the upload to the terminal      *)
(* parse_status of its notebook.                                           *)
(*                                                                         *)
(* upload_paper (server/routes/notebooks.py) inserts the paper, looks for  *)
(* a parse in flight, marks the notebook running and hands the book to     *)
(* ParseTaskTracker (server/parse_tracker.py), whose tasks queue for one   *)
(* permit and work in threads that run MinerU in a session of its own      *)
(* (ingest/textbook_parser.py).  Everything between two awaits is one      *)
(* action; a store call is the one its thread performs.                    *)
(***************************************************************************)
EXTENDS Naturals, SequencesExt

CONSTANTS Books,       \* paper ids of textbooks
          Shelf,       \* Shelf[b]: the notebook b is uploaded to
          MaxUploads,  \* bound: POST .../papers/upload handlers
          MaxLives,    \* bound: daemon starts
          MaxErrors    \* bound: store writes and mkdirs that raise

ASSUME ParseBoundsAssumption ==
    MaxUploads \in Nat /\ MaxLives \in Nat /\ MaxErrors \in Nat

Uploads   == 1 .. MaxUploads
NoUpload  == 0
Notebooks == {Shelf[b] : b \in Books}

\* the handler, its answers, then the task it created
Handling == {"insert", "check", "query", "mark", "start"}
Answered == {"existing", "refused", "error"}
Permitted == {"mineru", "render", "complete", "failed", "cancelled"}
Working  == {"wait"} \cup Permitted
Stages   == {"idle", "done", "forgotten"} \cup Handling \cup Answered \cup Working

VARIABLES
    junction,  \* books with a notebook_papers row
    status,    \* status[n]: parse_status
    stage,     \* stage[u]: where the upload and then its parse stands
    bookOf,    \* bookOf[u]
    queue,     \* tasks in the order they reached the semaphore; the head
               \* may have the permit
    registry,  \* registry[n]: ParseTaskTracker._tasks, NoUpload when absent
    thread,    \* thread[u]: run_mineru_sandboxed, in a worker thread
    mineru,    \* mineru[u]: the process it spawned
    life,      \* the daemon
    lives,
    errors

parseVars == <<junction, status, stage, bookOf, queue, registry, thread, mineru,
               life, lives, errors>>
parseBounds == <<lives, errors>>

ParseTypeOK ==
    /\ junction \subseteq Books
    /\ status \in [Notebooks -> {"pending", "running", "complete", "failed"}]
    /\ stage \in [Uploads -> Stages]
    /\ bookOf \in [Uploads -> Books]
    /\ \A i \in DOMAIN queue : stage[queue[i]] \in Working
    /\ registry \in [Notebooks -> Uploads \cup {NoUpload}]
    /\ thread \in [Uploads -> {"none", "spawn", "spawned", "registered",
                               "ok", "raised"}]
    /\ mineru \in [Uploads -> {"none", "live", "dead"}]
    /\ life \in {"down", "up", "cancelled", "gathering", "closed"}
    /\ lives \in 0 .. MaxLives
    /\ errors \in 0 .. MaxErrors

ParseInit ==
    /\ junction = {}
    /\ status = [n \in Notebooks |-> "pending"]
    /\ stage = [u \in Uploads |-> "idle"]
    /\ bookOf \in [Uploads -> Books]
    /\ queue = <<>>
    /\ registry = [n \in Notebooks |-> NoUpload]
    /\ thread = [u \in Uploads |-> "none"]
    /\ mineru = [u \in Uploads |-> "none"]
    /\ life = "down"
    /\ lives = 0
    /\ errors = 0
-------------------------------------------------------------------------------
Home(u)      == Shelf[bookOf[u]]
StageTo(u, s) == stage' = [stage EXCEPT ![u] = s]
StatusOf(n, s) == status' = [status EXCEPT ![n] = s]
Raises == errors < MaxErrors /\ errors' = errors + 1
IsRunning(n) == registry[n] # NoUpload

\* upload_paper, from the junction row on
Upload(u) ==
    /\ life = "up"
    /\ stage[u] = "idle"
    /\ \A v \in Uploads : v < u => stage[v] # "idle"
    /\ StageTo(u, "insert")
    /\ UNCHANGED <<junction, status, bookOf, queue, registry, thread, mineru,
                   life, parseBounds>>

\* a duplicate is answered 200 and parses nothing
InsertPaper(u) ==
    /\ stage[u] = "insert"
    /\ IF bookOf[u] \in junction
       THEN StageTo(u, "existing") /\ UNCHANGED junction
       ELSE StageTo(u, "check") /\ junction' = junction \cup {bookOf[u]}
    /\ UNCHANGED <<status, bookOf, queue, registry, thread, mineru, life, parseBounds>>

CheckTracker(u) ==
    /\ stage[u] = "check"
    /\ StageTo(u, IF IsRunning(Home(u)) THEN "refused" ELSE "query")
    /\ UNCHANGED <<junction, status, bookOf, queue, registry, thread, mineru,
                   life, parseBounds>>

HasRunningParse(u) ==
    /\ stage[u] = "query"
    /\ StageTo(u, IF status[Home(u)] = "running" THEN "refused" ELSE "mark")
    /\ UNCHANGED <<junction, status, bookOf, queue, registry, thread, mineru,
                   life, parseBounds>>

MarkRunning(u) ==
    /\ stage[u] = "mark"
    /\ \/ StageTo(u, "start") /\ StatusOf(Home(u), "running") /\ UNCHANGED errors
       \/ StageTo(u, "error") /\ Raises /\ UNCHANGED status
    /\ UNCHANGED <<junction, bookOf, queue, registry, thread, mineru, life,
                   lives>>

\* mkdir, which may raise, and start_parse
StartParse(u) ==
    /\ stage[u] = "start"
    /\ \/ /\ StageTo(u, "wait")
          /\ queue' = Append(queue, u)
          /\ registry' = [registry EXCEPT ![Home(u)] = u]
          /\ UNCHANGED errors
       \/ /\ StageTo(u, "error")
          /\ Raises
          /\ UNCHANGED <<queue, registry>>
    /\ UNCHANGED <<junction, status, bookOf, thread, mineru, life, lives>>

\* DELETE of the paper; the parse is not told
RemovePaper(b) ==
    /\ life = "up"
    /\ b \in junction
    /\ junction' = junction \ {b}
    /\ UNCHANGED <<status, stage, bookOf, queue, registry, thread, mineru, life, parseBounds>>
-------------------------------------------------------------------------------
(***************************************************************************)
(* _run_parse.                                                             *)
(***************************************************************************)
\* a task stands in the queue once
Others(u) == RemoveFirst(queue, u)
Unregister(u) ==
    registry' = [registry EXCEPT ![Home(u)] = IF @ = u THEN NoUpload ELSE @]

\* Mutant: a failed parse keeps the permit.
ParseDoneKeepsPermit(u) ==
    /\ StageTo(u, "done")
    /\ queue' = IF stage[u] = "complete" THEN Others(u) ELSE queue
    /\ Unregister(u)

\* the coroutine ends: the permit is free, _on_task_done
ParseDone(u) ==
    /\ StageTo(u, "done")
    /\ queue' = Others(u)
    /\ Unregister(u)

\* Mutant: the semaphore lets everybody in.
AcquireUncapped(u) ==
    /\ stage[u] = "wait"
    /\ StageTo(u, "mineru")
    /\ thread' = [thread EXCEPT ![u] = "spawn"]
    /\ UNCHANGED <<junction, status, bookOf, queue, registry, mineru, life, parseBounds>>

\* async with _global_cap, then to_thread
AcquirePermit(u) ==
    /\ stage[u] = "wait"
    /\ u = Head(queue)
    /\ StageTo(u, "mineru")
    /\ thread' = [thread EXCEPT ![u] = "spawn"]
    /\ UNCHANGED <<junction, status, bookOf, queue, registry, mineru, life, parseBounds>>

MineruReturned(u) ==
    /\ stage[u] = "mineru"
    /\ thread[u] \in {"ok", "raised"}
    /\ StageTo(u, IF thread[u] = "ok" THEN "render" ELSE "failed")
    /\ UNCHANGED <<junction, status, bookOf, queue, registry, thread, mineru,
                   life, parseBounds>>

Rendered(u) ==
    /\ stage[u] = "render"
    /\ \E how \in {"complete", "failed"} : StageTo(u, how)
    /\ UNCHANGED <<junction, status, bookOf, queue, registry, thread, mineru,
                   life, parseBounds>>

Written(u) == IF stage[u] = "complete" THEN "complete" ELSE "failed"
StoreIsOpen == life # "closed"

\* Mutant: a failed parse writes nothing.
WriteSuccessOnly(u) ==
    /\ stage[u] \in {"complete", "failed", "cancelled"}
    /\ StoreIsOpen
    /\ IF stage[u] = "complete" THEN StatusOf(Home(u), "complete")
                                ELSE UNCHANGED status
    /\ ParseDone(u)
    /\ UNCHANGED <<junction, bookOf, thread, mineru, life, parseBounds>>

WriteOutcome(u) ==
    /\ stage[u] \in {"complete", "failed", "cancelled"}
    /\ StoreIsOpen
    /\ StatusOf(Home(u), Written(u))
    /\ ParseDone(u)
    /\ UNCHANGED <<junction, bookOf, thread, mineru, life, parseBounds>>

\* update_parse_status raises: suppressed, logged, or the task's exception
WriteRaises(u) ==
    /\ stage[u] \in {"complete", "failed", "cancelled"}
    /\ IF StoreIsOpen THEN Raises ELSE UNCHANGED errors
    /\ ParseDone(u)
    /\ UNCHANGED <<junction, status, bookOf, thread, mineru, life, lives>>
-------------------------------------------------------------------------------
(***************************************************************************)
(* run_mineru_sandboxed in its thread: nothing cancels it.                 *)
(***************************************************************************)
ThreadTo(u, t) == thread' = [thread EXCEPT ![u] = t]
ThreadRest == UNCHANGED <<junction, status, stage, bookOf, queue, registry, life,
                          parseBounds>>

\* a missing file or binary, or Popen
SpawnMineru(u) ==
    /\ thread[u] = "spawn"
    /\ \/ ThreadTo(u, "spawned") /\ mineru' = [mineru EXCEPT ![u] = "live"]
       \/ ThreadTo(u, "raised") /\ UNCHANGED mineru
    /\ ThreadRest

\* _LIVE_MINERU.add
RegisterMineru(u) ==
    /\ thread[u] = "spawned"
    /\ ThreadTo(u, "registered")
    /\ UNCHANGED mineru
    /\ ThreadRest

\* communicate returns: MinerU ended, or was killed at the wall timeout
Communicated(u) ==
    /\ thread[u] = "registered"
    /\ mineru' = [mineru EXCEPT ![u] = "dead"]
    /\ \/ mineru[u] = "live" /\ ThreadTo(u, "ok")
       \/ ThreadTo(u, "raised")
    /\ ThreadRest

\* a MinerU that no thread waits for any more comes to its end
OrphanEnds(u) ==
    /\ thread[u] = "none"
    /\ mineru[u] = "live"
    /\ mineru' = [mineru EXCEPT ![u] = "dead"]
    /\ UNCHANGED thread
    /\ ThreadRest
-------------------------------------------------------------------------------
(***************************************************************************)
(* The daemon's life (lifespan, ParseTaskTracker.shutdown).                *)
(***************************************************************************)
\* mark_orphaned_parses_failed
BootParses ==
    /\ life = "down"
    /\ lives < MaxLives
    /\ lives' = lives + 1
    /\ life' = "up"
    /\ status' = [n \in Notebooks |-> IF status[n] = "running" THEN "failed"
                                      ELSE status[n]]
    /\ UNCHANGED <<junction, stage, bookOf, queue, registry, thread, mineru,
                   errors>>

Registered == {u \in Uploads : registry[Home(u)] = u}

\* Where a cancelled task goes on: outside the try it just ends.
CancelledTo(u) ==
    CASE stage[u] \in {"mineru", "render"} -> "cancelled"
      [] stage[u] = "cancelled" -> "cancelled"
      [] OTHER -> "done"

\* These tasks of the queue, in its order.
InLine(tasks) ==
    {q \in [1 .. Cardinality(tasks) -> tasks] :
        \A i, j \in DOMAIN q : i < j =>
            \E k, l \in DOMAIN queue : k < l /\ queue[k] = q[i] /\ queue[l] = q[j]}
Queued == {queue[i] : i \in DOMAIN queue}

\* The requests are answered.  A write that is under way when its task is
\* cancelled may still land.
CancelParses ==
    /\ life = "up"
    /\ \A u \in Uploads : stage[u] \notin Handling
    /\ life' = IF Registered = {} THEN "closed" ELSE "cancelled"
    /\ stage' = [u \in Uploads |-> IF u \in Registered THEN CancelledTo(u)
                                   ELSE stage[u]]
    /\ queue' \in InLine({v \in Queued : stage'[v] \in Working})
    /\ registry' = [n \in Notebooks |->
          IF IsRunning(n) /\ stage'[registry[n]] # "done" THEN registry[n]
          ELSE NoUpload]
    /\ \E landed \in SUBSET {u \in Registered : stage[u] \in {"complete", "failed"}} :
          status' = [n \in Notebooks |->
             IF registry[n] \in landed THEN Written(registry[n]) ELSE status[n]]
    /\ UNCHANGED <<junction, bookOf, thread, mineru, parseBounds>>

\* terminate_live_mineru: TERM, KILL to what was in _LIVE_MINERU
TerminateMineru ==
    /\ life = "cancelled"
    /\ life' = "gathering"
    /\ mineru' = [u \in Uploads |-> IF thread[u] = "registered" THEN "dead"
                                    ELSE mineru[u]]
    /\ UNCHANGED <<junction, status, stage, bookOf, queue, registry, thread, parseBounds>>

\* gather, for five seconds; then its tasks are cancelled again, write or no
\* write
Gathered ==
    /\ life = "gathering"
    /\ life' = "closed"
    /\ stage' = [u \in Uploads |-> IF u \in Registered THEN "done" ELSE stage[u]]
    /\ queue' \in InLine(Queued \ Registered)
    /\ registry' = [n \in Notebooks |-> NoUpload]
    /\ UNCHANGED <<junction, status, bookOf, thread, mineru, parseBounds>>

\* the end of the process, orderly or by SIGKILL: MinerU lives on
ProcessEnds ==
    /\ life # "down"
    /\ life' = "down"
    /\ stage' = [u \in Uploads |-> IF stage[u] \in Handling \cup Working
                                   THEN "forgotten" ELSE stage[u]]
    /\ queue' = <<>>
    /\ registry' = [n \in Notebooks |-> NoUpload]
    /\ thread' = [u \in Uploads |-> "none"]
    /\ UNCHANGED <<junction, status, bookOf, mineru, parseBounds>>
-------------------------------------------------------------------------------
HandlerStep(u) ==
    \/ InsertPaper(u) \/ CheckTracker(u) \/ HasRunningParse(u) \/ MarkRunning(u)
    \/ StartParse(u)
ParseStep(u) ==
    \/ AcquirePermit(u) \/ MineruReturned(u) \/ Rendered(u) \/ WriteOutcome(u)
    \/ WriteRaises(u)
ThreadStep(u) == SpawnMineru(u) \/ RegisterMineru(u) \/ Communicated(u)

ParseNext ==
    \/ \E u \in Uploads : Upload(u) \/ HandlerStep(u) \/ ParseStep(u)
                          \/ ThreadStep(u) \/ OrphanEnds(u)
    \/ \E b \in Books : RemovePaper(b)
    \/ BootParses \/ CancelParses \/ TerminateMineru \/ Gathered \/ ProcessEnds

ParseSpec == ParseInit /\ [][ParseNext]_parseVars

\* The loop runs what is ready and a thread comes back: MinerU has a wall
\* timeout, after which communicate does not wait.
ParseFairness ==
    \A u \in Uploads : WF_parseVars(ParseStep(u)) /\ WF_parseVars(ThreadStep(u))
-------------------------------------------------------------------------------
\* A notebook whose row says running is being worked on: while the daemon is
\* up and no write or mkdir has failed it has a task, or a handler about to
\* create one, so nobody is refused on behalf of a parse that died with an
\* earlier daemon, was cancelled in the queue or had a write overtaken
\* (upload_paper, _run_parse, mark_orphaned_parses_failed).
RunningIsWorked ==
    life = "up" /\ errors = 0 =>
      \A n \in Notebooks : status[n] = "running" =>
        \E u \in Uploads : Home(u) = n /\ stage[u] \in Working \cup {"start"}

\* "Global concurrency cap of 1": while the daemon is up it has one MinerU at
\* a time, even when two uploads to a notebook have both started a parse.
OneMineru ==
    life = "up" =>
      \A u, v \in Uploads :
        thread[u] \in {"spawned", "registered"}
          /\ thread[v] \in {"spawned", "registered"} => u = v

\* Every parse the tracker accepts comes to its end, whatever is before it in
\* the queue.
ParsesEnd ==
    \A u \in Uploads : stage[u] = "wait" ~> stage[u] \in {"done", "forgotten"}

\* The "has_running_parse" fallback "closes the TOCTOU window where two
\* near-simultaneous uploads both observe is_running==False".
OneParsePerNotebook ==
    \A u, v \in Uploads :
      stage[u] \in Working /\ stage[v] \in Working /\ Home(u) = Home(v) => u = v

\* An upload holds a claim on its notebook from the mark to the end of its task.
ClaimOf(s) ==
    CASE s \in Working \cup {"start"} -> "held"
      [] s \in {"done", "forgotten"} \cup Answered -> "over"
      [] OTHER -> "none"
WorkOf(t) == IF t \in {"spawn", "spawned", "registered"} THEN "busy" ELSE t

home == [u \in Uploads |-> Home(u)]
claim == [u \in Uploads |-> ClaimOf(stage[u])]
work == [u \in Uploads |-> WorkOf(thread[u])]

Ledger == INSTANCE ParseLedger
    WITH Jobs <- Uploads, home <- home, claim <- claim, work <- work, open <- life = "up"

\* Behind the handlers, the tracker, the queue, the threads and a shutdown that
\* cancels them there is a ledger: every status is the mark or the last word of
\* an upload to that notebook, "complete" is only said by one whose MinerU
\* ended well, one MinerU works at a time while the daemon is up (the
\* semaphore's "global cap of 1"), and a start finds nobody at work.
ImplementsParseLedger == Ledger!Spec
=============================================================================
