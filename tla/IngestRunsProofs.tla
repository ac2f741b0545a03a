--------------------------- MODULE IngestRunsProofs ---------------------------
(***************************************************************************)
(* Theorems about IngestRuns, for every set of slugs and handlers and      *)
(* every value of the bounds.                                              *)
(*                                                                         *)
(* Then about CacheTiers, for any calls, texts, corpora, caps and          *)
(* lifetimes: what tier 1 or tier 2 serves answers the call that it is     *)
(* served to, and what they keep can be found and stays within the caps.   *)
(* Last the types of what MCServer adds up.                                *)
(***************************************************************************)
EXTENDS MCServer, CorpusBindingProofs, SequenceLemmas

USE DEF Runs, NoRun

(***************************************************************************)
(* The permit and its holder: a free permit means nobody is inside, and    *)
(* nobody is inside together with another.                                 *)
(***************************************************************************)
PermitInv ==
    /\ permits = 1 => \A r \in Runs : task[r] \notin Holding
    /\ \A r1, r2 \in Runs : task[r1] \in Holding /\ task[r2] \in Holding
                              => r1 = r2

TInv == TypeOK /\ PermitInv

\* Moving a task that is already inside to another place inside, or any task
\* to a place outside, keeps types and the permit.
LEMMA TaskMoveKeeps ==
    ASSUME TInv, NEW r \in Runs, NEW to \in TaskStates, Move(r, to),
           to \in Holding => task[r] \in Holding
    PROVE  /\ task' \in [Runs -> TaskStates]
           /\ PermitInv'
  BY DEF TInv, TypeOK, PermitInv, Move

\* The end of a coroutine hands the permit on, or returns it.
LEMMA EndTaskKeeps ==
    ASSUME TInv, NEW r \in Runs, EndTask(r)
    PROVE  /\ reg' \in [Slugs -> Runs \cup {NoRun}]
           /\ task' \in [Runs -> TaskStates]
           /\ ahead' \in [Runs -> SUBSET Runs]
           /\ permits' \in 0 .. 1
           /\ cx' \subseteq Runs
           /\ PermitInv'
<1>1. /\ reg' \in [Slugs -> Runs \cup {NoRun}]
      /\ ahead' \in [Runs -> SUBSET Runs]
      /\ cx' \subseteq Runs
  BY DEF TInv, TypeOK, EndTask
<1>2. "done" \in TaskStates \ Holding /\ "granted" \in Holding
      /\ Holding \subseteq TaskStates
  BY DEF TaskStates, Holding
<1>3. CASE task[r] \notin Holding
  <2>1. task' = [task EXCEPT ![r] = "done"] /\ permits' = permits
    BY <1>3 DEF EndTask
  <2>2. \A p \in Runs : task'[p] \in Holding => task[p] \in Holding
    BY <1>2, <2>1 DEF TInv, TypeOK
  <2>3. task' \in [Runs -> TaskStates]
    BY <1>2, <2>1 DEF TInv, TypeOK
  <2>4. PermitInv'
    BY <2>1, <2>2 DEF TInv, PermitInv
  <2> QED
    BY <1>1, <2>1, <2>3, <2>4 DEF TInv, TypeOK
<1>4. CASE task[r] \in Holding /\ Waiters = {} /\ permits' = permits + 1
           /\ task' = [task EXCEPT ![r] = "done"]
  BY <1>1, <1>2, <1>4 DEF TInv, TypeOK, PermitInv
<1>5. ASSUME task[r] \in Holding, NEW w \in Waiters, permits' = permits,
             task' = [task EXCEPT ![r] = "done", ![w] = "granted"]
      PROVE  /\ task' \in [Runs -> TaskStates]
             /\ permits' \in 0 .. 1
             /\ PermitInv'
  <2>1. w \in Runs
    BY DEF Waiters
  <2>2. \A p \in Runs : task'[p] \in Holding => p = w
    BY <1>2, <1>5, <2>1 DEF TInv, TypeOK, PermitInv
  <2>3. permits = 0
    BY <1>5 DEF TInv, TypeOK, PermitInv
  <2> QED
    BY <1>2, <1>5, <2>1, <2>2, <2>3 DEF TInv, TypeOK, PermitInv
<1> QED
  BY <1>1, <1>3, <1>4, <1>5 DEF EndTask

-------------------------------------------------------------------------------
\* The initial states have the right types and a free permit.
LEMMA InitTInv == Init => TInv
<1> SUFFICES ASSUME Init PROVE TInv
  OBVIOUS
<1>1. TypeOK
  <2>1. (CHOOSE s \in Slugs : TRUE) \in Slugs
    BY SlugsAssumption
  <2>2. Idle \in ReqStates
    BY <2>1 DEF Idle, ReqStates
  <2>3. req \in [Reqs -> ReqStates]
    BY <2>2 DEF Init
  <2>4. row \in [Runs -> RowStates] /\ task \in [Runs -> TaskStates]
    BY DEF Init, RowStates, TaskStates
  <2>5. slugOf \in [Runs -> Slugs]
    BY <2>1 DEF Init
  <2>6. boots \in 0 .. MaxBoots /\ faults \in 0 .. MaxFaults
    BY BoundsAssumption DEF Init
  <2>7. /\ reg \in [Slugs -> Runs \cup {NoRun}]
        /\ ahead \in [Runs -> SUBSET Runs]
        /\ permits \in 0 .. 1 /\ cx \subseteq Runs
        /\ proc \in [Runs -> {"none", "live", "ok", "err", "killed"}]
    BY DEF Init
  <2>8. /\ notebooks \subseteq Slugs /\ aged \subseteq Runs
        /\ mine \subseteq Runs
        /\ phase \in {"down", "up", "draining", "closed"}
    BY DEF Init
  <2> QED
    BY <2>3, <2>4, <2>5, <2>6, <2>7, <2>8 DEF TypeOK
<1>2. PermitInv
  BY DEF Init, PermitInv, Holding
<1> QED
  BY <1>1, <1>2 DEF TInv

\* Every step keeps them so.
LEMMA NextTInv == TInv /\ [Next]_vars => TInv'
<1> SUFFICES ASSUME TInv, [Next]_vars PROVE TInv'
  OBVIOUS
<1>0. /\ Idle \in ReqStates
      /\ Holding \subseteq TaskStates /\ "done" \in TaskStates
      /\ {"none", "new", "waiting"} \subseteq TaskStates \ Holding
  BY SlugsAssumption DEF Idle, ReqStates, Holding, TaskStates
<1>1. ASSUME NEW s \in Slugs, CreateNotebook(s) \/ DeleteNotebook(s)
      PROVE  TInv'
  <2>1. CASE CreateNotebook(s)
    BY <2>1 DEF CreateNotebook, TInv, TypeOK, PermitInv, taskVars, sysVars
  <2>2. CASE DeleteNotebook(s)
    BY <2>2 DEF DeleteNotebook, TInv, TypeOK, PermitInv, RowStates, taskVars,
                sysVars
  <2> QED
    BY <1>1, <2>1, <2>2
<1>2. ASSUME NEW q \in Reqs, NEW s \in Slugs, TrigArrive(q, s)
      PROVE  TInv'
  <2>1. req' \in [Reqs -> ReqStates]
    BY <1>2 DEF TrigArrive, TInv, TypeOK, ReqStates
  <2> QED
    BY <1>2, <2>1
    DEF TrigArrive, TInv, TypeOK, PermitInv, taskVars, sysVars, dbVars
<1>3. ASSUME NEW q \in Reqs, ReqStep(q)
      PROVE  TInv'
  <2>0. ASSUME NEW pc \in {"check", "dbcheck", "insert"},
               Goto(q, pc) \/ Answer(q)
        PROVE  req' \in [Reqs -> ReqStates]
    <3>1. [req[q] EXCEPT !.pc = pc] \in ReqStates
      BY <2>0 DEF TInv, TypeOK, ReqStates
    <3> QED
      BY <1>0, <2>0, <3>1 DEF Goto, Answer, TInv, TypeOK
  <2>1. CASE TrigLookup(q) \/ TrigCheck(q) \/ TrigDbCheck(q)
    <3>1. req' \in [Reqs -> ReqStates]
      BY <2>0, <2>1 DEF TrigLookup, TrigCheck, TrigDbCheck
    <3> QED
      BY <2>1, <3>1
      DEF TrigLookup, TrigCheck, TrigDbCheck, TInv, TypeOK, PermitInv,
          taskVars, sysVars, dbVars
  <2>2. CASE TrigInsert(q)
    <3>1. CASE req[q].slug \in notebooks
      <4>1. PICK r \in Runs :
              /\ row' = [row EXCEPT ![r] = "running"]
              /\ slugOf' = [slugOf EXCEPT ![r] = req[q].slug]
              /\ mine' = mine \cup {r}
              /\ req' = [req EXCEPT ![q] =
                           [pc |-> "start", slug |-> @.slug, run |-> r]]
        BY <2>2, <3>1 DEF TrigInsert
      <4>2. req' \in [Reqs -> ReqStates]
        <5>1. [pc |-> "start", slug |-> req[q].slug, run |-> r] \in ReqStates
          BY DEF TInv, TypeOK, ReqStates
        <5>2. req' = [req EXCEPT ![q] = [pc |-> "start",
                                         slug |-> req[q].slug, run |-> r]]
          BY <4>1 DEF TInv, TypeOK, ReqStates
        <5> QED
          BY <5>1, <5>2 DEF TInv, TypeOK
      <4>3. slugOf' \in [Runs -> Slugs] /\ row' \in [Runs -> RowStates]
        BY <4>1 DEF TInv, TypeOK, ReqStates, RowStates
      <4> QED
        BY <2>2, <4>1, <4>2, <4>3 DEF TrigInsert, TInv, TypeOK, PermitInv,
                                      taskVars
    <3>2. CASE req[q].slug \notin notebooks
      BY <2>0, <2>2, <3>2 DEF TrigInsert, TInv, TypeOK, PermitInv, taskVars
    <3> QED
      BY <3>1, <3>2
  <2>3. CASE TrigStart(q)
    <3>1. req' \in [Reqs -> ReqStates]
      BY <2>0, <2>3 DEF TrigStart
    <3>2. req[q].slug \in Slugs /\ req[q].run \in Runs \cup {NoRun}
      BY DEF TInv, TypeOK, ReqStates
    <3>3. /\ reg' \in [Slugs -> Runs \cup {NoRun}]
          /\ task' \in [Runs -> TaskStates]
          /\ ahead' \in [Runs -> SUBSET Runs]
      BY <1>0, <2>3, <3>2 DEF TrigStart, TInv, TypeOK
    <3>4. PermitInv'
      BY <1>0, <2>3, <3>2 DEF TrigStart, TInv, TypeOK, PermitInv, Holding
    <3> QED
      BY <2>3, <3>1, <3>3, <3>4
      DEF TrigStart, TInv, TypeOK, sysVars, dbVars
  <2> QED
    BY <1>3, <2>1, <2>2, <2>3 DEF ReqStep
<1>4. ASSUME NEW r \in Runs, TaskStep(r)
      PROVE  TInv'
  <2>1. CASE Acquire(r)
    <3>1. CASE permits > 0
      <4>1. /\ task' = [task EXCEPT ![r] = "spawn"]
            /\ permits' = permits - 1
            /\ permits = 1
        BY <2>1, <3>1 DEF Acquire, TInv, TypeOK
      <4>2. task' \in [Runs -> TaskStates] /\ permits' \in 0 .. 1
        BY <4>1 DEF TInv, TypeOK, TaskStates, Holding
      <4>3. \A p \in Runs : task'[p] \in Holding => p = r
        BY <4>1 DEF TInv, TypeOK, PermitInv
      <4>4. PermitInv'
        BY <4>1, <4>3 DEF PermitInv
      <4> QED
        BY <2>1, <3>1, <4>2, <4>4 DEF Acquire, TInv, TypeOK, sysVars, dbVars
    <3>2. CASE ~(permits > 0)
      BY <1>0, <2>1, <3>2, TaskMoveKeeps
      DEF Acquire, Move, TInv, TypeOK, sysVars, dbVars
    <3> QED
      BY <3>1, <3>2
  <2>2. CASE Granted(r) \/ Spawn(r) \/ SpawnFails(r) \/ Collect(r) \/ Reap(r)
    <3>1. PICK to \in {"spawn", "comm", "fwrite", "settle", "cwrite"} :
            Move(r, to) /\ task[r] \in Holding
      BY <2>2 DEF Granted, Spawn, SpawnFails, Collect, Reap, At, Holding
    <3>2. task' \in [Runs -> TaskStates] /\ PermitInv'
      BY <3>1, TaskMoveKeeps DEF TaskStates, Holding
    <3> QED
      BY <2>2, <3>1, <3>2
      DEF Granted, Spawn, SpawnFails, Collect, Reap, Move, TInv, TypeOK,
          sysVars, dbVars
  <2>3. CASE Settle(r)
    <3>1. row' \in [Runs -> RowStates]
      BY <2>3 DEF Settle, SetRow, TInv, TypeOK, RowStates, Settled
    <3>2. CASE proc[r] = "ok"
      <4>1. Move(r, "callback") /\ task[r] \in Holding
        BY <2>3, <3>2 DEF Settle, At, Holding
      <4>2. task' \in [Runs -> TaskStates] /\ PermitInv'
        BY <4>1, TaskMoveKeeps DEF TaskStates, Holding
      <4> QED
        BY <2>3, <3>1, <4>1, <4>2 DEF Settle, Move, TInv, TypeOK, sysVars
    <3>3. CASE proc[r] # "ok"
      <4>1. EndTask(r)
        BY <2>3, <3>3 DEF Settle
      <4> QED
        BY <2>3, <3>1, <4>1, EndTaskKeeps DEF Settle, TInv, TypeOK, sysVars
    <3> QED
      BY <3>2, <3>3
  <2>4. CASE CallbackDone(r) \/ CancelEnds(r)
    <3>1. EndTask(r)
      BY <2>4 DEF CallbackDone, CancelEnds
    <3> QED
      BY <2>4, <3>1, EndTaskKeeps
      DEF CallbackDone, CancelEnds, TInv, TypeOK, sysVars, dbVars
  <2>5. CASE WriteSpawnFailure(r) \/ WriteCancelled(r) \/ CancelDuringWrite(r)
    <3>1. EndTask(r)
      BY <2>5 DEF WriteSpawnFailure, WriteCancelled, CancelDuringWrite
    <3>2. row' \in [Runs -> RowStates]
      <4>1. CASE WriteSpawnFailure(r) \/ WriteCancelled(r)
        BY <4>1 DEF WriteSpawnFailure, WriteCancelled, SetRow, TInv, TypeOK,
                    RowStates, Settled
      <4>2. CASE CancelDuringWrite(r)
        <5>1. Pending(r) \in Settled
          BY <4>2 DEF CancelDuringWrite, Pending, Settled
        <5> QED
          BY <4>2, <5>1 DEF CancelDuringWrite, SetRow, TInv, TypeOK, RowStates
      <4> QED
        BY <2>5, <4>1, <4>2
    <3> QED
      BY <2>5, <3>1, <3>2, EndTaskKeeps
      DEF WriteSpawnFailure, WriteCancelled, CancelDuringWrite, TInv, TypeOK,
          sysVars
  <2>6. CASE WriteFails(r)
    <3>1. EndTask(r) /\ faults' \in 0 .. MaxFaults
      BY <2>6, BoundsAssumption DEF WriteFails, TInv, TypeOK
    <3> QED
      BY <2>6, <3>1, EndTaskKeeps DEF WriteFails, TInv, TypeOK, sysVars, dbVars
  <2>7. CASE CancelHandled(r)
    <3>1. PICK to \in {"reap", "cwrite"} :
            task' = [task EXCEPT ![r] = to] /\ task[r] \in Holding
      BY <2>7 DEF CancelHandled, Holding
    <3>2. to \in TaskStates
      BY <3>1 DEF TaskStates, Holding
    <3>3. task' \in [Runs -> TaskStates]
      BY <3>1, <3>2 DEF TInv, TypeOK
    <3>4. PermitInv'
      BY <2>7, <3>1 DEF CancelHandled, TInv, TypeOK, PermitInv
    <3> QED
      BY <2>7, <3>3, <3>4
      DEF CancelHandled, TInv, TypeOK, sysVars, dbVars
  <2> QED
    BY <1>4, <2>1, <2>2, <2>3, <2>4, <2>5, <2>6, <2>7 DEF TaskStep
<1>5. ASSUME NEW r \in Runs, ProcExit(r) \/ AgeRow(r)
      PROVE  TInv'
  BY <1>5 DEF ProcExit, AgeRow, TInv, TypeOK, PermitInv, taskVars, sysVars,
              dbVars
<1>6. CASE Start
  BY <1>6, BoundsAssumption
  DEF Start, TInv, TypeOK, PermitInv, RowStates, Settled, taskVars
<1>7. CASE Shutdown \/ DrainTimeout \/ Drained
  BY <1>7
  DEF Shutdown, DrainTimeout, Drained, Tracked, TInv, TypeOK, PermitInv,
      taskVars, sysVars, dbVars
<1>8. CASE Exit \/ Crash
  <2>1. req' \in [Reqs -> ReqStates]
    BY <1>0, <1>8 DEF Exit, Crash, Forget
  <2>2. PermitInv' /\ task' \in [Runs -> TaskStates]
    BY <1>0, <1>8 DEF Exit, Crash, Forget, PermitInv
  <2>3. proc' \in [Runs -> {"none", "live", "ok", "err", "killed"}]
    BY <1>8 DEF Exit, Crash, TInv, TypeOK
  <2>4. /\ reg' \in [Slugs -> Runs \cup {NoRun}]
        /\ ahead' \in [Runs -> SUBSET Runs]
        /\ permits' \in 0 .. 1 /\ cx' \subseteq Runs
        /\ phase' \in {"down", "up", "draining", "closed"}
    BY <1>8 DEF Exit, Crash, Forget
  <2>5. UNCHANGED <<notebooks, row, slugOf, aged, mine, boots, faults>>
    BY <1>8 DEF Exit, Crash, Forget, dbVars
  <2> QED
    BY <2>1, <2>2, <2>3, <2>4, <2>5 DEF TInv, TypeOK
<1>9. CASE UNCHANGED vars
  BY <1>9 DEF vars, TInv, TypeOK, PermitInv
<1> QED
  BY <1>1, <1>2, <1>3, <1>4, <1>5, <1>6, <1>7, <1>8, <1>9 DEF Next

\* Every variable keeps its type (TypeOK), and the semaphore its meaning.
THEOREM TypeCorrect == Spec => [](TypeOK /\ PermitInv)
BY InitTInv, NextTInv, PTL DEF Spec, TInv

\* The global cap holds for any number of handlers, notebooks and runs: the
\* daemon never drives two ingest subprocesses at once.
THEOREM OneSubprocessHolds == Spec => []OneSubprocess
<1>1. TInv => OneSubprocess
  BY DEF TInv, PermitInv, OneSubprocess, Driving, Holding
<1> QED
  BY <1>1, InitTInv, NextTInv, PTL DEF Spec
-------------------------------------------------------------------------------
(***************************************************************************)
(* RunInv: rows, tasks and subprocesses agree.                             *)
(***************************************************************************)
\* What EndTask does to any task: end r's, wake a waiter, nothing else.
LEMMA EndTaskEffect ==
    ASSUME TInv, NEW r \in Runs, EndTask(r)
    PROVE  \A p \in Runs : \/ task'[p] = task[p] /\ p # r
                           \/ p = r /\ task'[p] = "done"
                           \/ p # r /\ task[p] = "waiting" /\ task'[p] = "granted"
<1>0. task \in [Runs -> TaskStates]
  BY DEF TInv, TypeOK
<1>1. CASE task' = [task EXCEPT ![r] = "done"]
  BY <1>0, <1>1
<1>2. ASSUME NEW w \in Waiters, task[r] \in Holding,
             task' = [task EXCEPT ![r] = "done", ![w] = "granted"]
      PROVE  \A p \in Runs : \/ task'[p] = task[p] /\ p # r
                             \/ p = r /\ task'[p] = "done"
                             \/ p # r /\ task[p] = "waiting"
                                 /\ task'[p] = "granted"
  <2>1. w \in Runs /\ task[w] = "waiting" /\ w # r
    BY <1>2 DEF Waiters, Holding
  <2> QED
    BY <1>0, <1>2, <2>1
<1> QED
  BY <1>1, <1>2 DEF EndTask

\* SetRow touches the row of r alone and keeps a deleted row deleted.
LEMMA SetRowEffect ==
    ASSUME TInv, NEW r \in Runs, NEW to, SetRow(r, to)
    PROVE  /\ \A p \in Runs \ {r} : row'[p] = row[p]
           /\ row'[r] = IF row[r] = "gone" THEN "gone" ELSE to
BY DEF TInv, TypeOK, SetRow

\* A step that ends r's task, and may settle r's row truthfully, keeps RunInv.
LEMMA EndTaskKeepsRunInv ==
    ASSUME TInv, RunInv, NEW r \in Runs, EndTask(r),
           task[r] # "none", phase # "down",
           UNCHANGED <<req, proc, phase>>,
           \/ UNCHANGED row
           \/ \E to \in Settled :
                /\ SetRow(r, to)
                /\ task[r] \in Unsettled
                /\ to = "success" => proc[r] = "ok"
                /\ to = "failed"  => proc[r] = "err"
                /\ to = "nospawn" => proc[r] = "none"
    PROVE  RunInv'
<1>1. \A p \in Runs : \/ task'[p] = task[p] /\ p # r
                      \/ p = r /\ task'[p] = "done"
                      \/ p # r /\ task[p] = "waiting" /\ task'[p] = "granted"
  BY EndTaskEffect
<1>2. \A p \in Runs \ {r} : row'[p] = row[p]
  BY SetRowEffect
<1>3. /\ row'[r] = "unborn" => row[r] = "unborn"
      /\ row'[r] = "success" => proc[r] = "ok"
      /\ row'[r] = "failed"  => proc[r] = "err"
      /\ row'[r] = "nospawn" => proc[r] = "none"
  BY SetRowEffect DEF RunInv, OutcomeHonest, Settled
<1>4. OutcomeHonest'
  BY <1>2, <1>3 DEF RunInv, OutcomeHonest
<1>5. \A q \in Reqs : req[q].pc = "start" =>
        /\ req[q].run \in Runs \ {r}
        /\ task'[req[q].run] = "none"
  BY <1>1 DEF RunInv
<1>6. \A p \in Runs :
        /\ row'[p] = "unborn" => task'[p] = "none" /\ proc[p] = "none"
        /\ task'[p] \in Unsettled => row'[p] \in {"running", "gone"}
        /\ task'[p] \in {"new", "waiting", "granted", "spawn", "fwrite"}
             => proc[p] = "none"
        /\ task'[p] = "comm" => proc[p] \in {"live", "ok", "err"}
        /\ task'[p] = "settle" => proc[p] \in {"ok", "err"}
  BY <1>1, <1>2, <1>3 DEF RunInv, Unsettled
<1> QED
  BY <1>2, <1>4, <1>5, <1>6 DEF RunInv

\* Initially nothing is triggered, queued or written.
LEMMA InitRunInv == Init => RunInv
<1> SUFFICES ASSUME Init PROVE RunInv
  OBVIOUS
<1>1. \A q \in Reqs : req[q].pc = "idle"
  BY DEF Init, Idle
<1>2. \A r \in Runs : row[r] = "unborn" /\ task[r] = "none" /\ proc[r] = "none"
  BY DEF Init
<1> QED
  BY <1>1, <1>2 DEF RunInv, OutcomeHonest, Unsettled

\* Every step keeps rows, tasks and subprocesses in agreement.
LEMMA NextRunInv == TInv /\ RunInv /\ [Next]_vars => RunInv'
<1> SUFFICES ASSUME TInv, RunInv, [Next]_vars PROVE RunInv'
  OBVIOUS
<1>0. /\ row \in [Runs -> RowStates] /\ task \in [Runs -> TaskStates]
      /\ proc \in [Runs -> {"none", "live", "ok", "err", "killed"}]
      /\ req \in [Reqs -> ReqStates]
      /\ \A q \in Reqs : req[q].slug \in Slugs
      /\ Idle.pc = "idle"
  BY DEF TInv, TypeOK, ReqStates, Idle
<1>1. ASSUME NEW s \in Slugs, CreateNotebook(s) \/ DeleteNotebook(s)
      PROVE  RunInv'
  <2>1. UNCHANGED <<req, task, proc, phase>>
    BY <1>1 DEF CreateNotebook, DeleteNotebook, taskVars, sysVars
  <2>2. \A r \in Runs : row'[r] # row[r] =>
                           row[r] # "unborn" /\ row'[r] = "gone"
    BY <1>0, <1>1 DEF CreateNotebook, DeleteNotebook
  <2> QED
    BY <1>0, <2>1, <2>2 DEF RunInv, OutcomeHonest
<1>2. ASSUME NEW q \in Reqs, NEW s \in Slugs, TrigArrive(q, s)
      PROVE  RunInv'
  <2>1. \A p \in Reqs : req'[p] = req[p] \/ req'[p].pc = "lookup"
    BY <1>0, <1>2 DEF TrigArrive
  <2> QED
    BY <1>2, <2>1 DEF TrigArrive, RunInv, OutcomeHonest, dbVars, taskVars,
                      sysVars
<1>3. ASSUME NEW q \in Reqs, ReqStep(q)
      PROVE  RunInv'
  <2>1. CASE \/ TrigLookup(q) \/ TrigCheck(q) \/ TrigDbCheck(q)
             \/ (TrigInsert(q) /\ req[q].slug \notin notebooks)
    <3>1. UNCHANGED <<row, task, proc, phase>>
      BY <2>1 DEF TrigLookup, TrigCheck, TrigDbCheck, TrigInsert, dbVars,
                  taskVars, sysVars
    <3>2. req[q].pc # "idle"
      BY <2>1 DEF TrigLookup, TrigCheck, TrigDbCheck, TrigInsert
    <3>3. \A p \in Reqs : \/ req'[p] = req[p]
                          \/ p = q /\ req'[p].pc \in {"idle", "check",
                                                      "dbcheck", "insert"}
      BY <1>0, <2>1 DEF TrigLookup, TrigCheck, TrigDbCheck, TrigInsert, Goto,
                        Answer, ReqStates
    <3> QED
      BY <3>1, <3>2, <3>3 DEF RunInv, OutcomeHonest
  <2>2. CASE TrigInsert(q) /\ req[q].slug \in notebooks
    <3>1. PICK r \in Runs :
            /\ row[r] = "unborn"
            /\ row' = [row EXCEPT ![r] = "running"]
            /\ req' = [req EXCEPT ![q] =
                         [pc |-> "start", slug |-> @.slug, run |-> r]]
      BY <2>2 DEF TrigInsert
    <3>2. UNCHANGED <<task, proc, phase>> /\ phase # "down"
      BY <2>2 DEF TrigInsert, taskVars, RunInv
    <3>3. \A p \in Reqs \ {q} : req'[p] = req[p]
      BY <1>0, <3>1
    <3>4. req'[q].pc = "start" /\ req'[q].run = r
      BY <1>0, <3>1
    <3>5. \A p \in Reqs \ {q} : req[p].pc = "start" => req[p].run # r
      BY <3>1 DEF RunInv
    <3>6. task[r] = "none" /\ proc[r] = "none"
      BY <3>1 DEF RunInv
    <3>7. \A p \in Runs \ {r} : row'[p] = row[p]
      BY <1>0, <3>1
    <3>8. row'[r] = "running"
      BY <1>0, <3>1
    <3>9. OutcomeHonest'
      BY <3>2, <3>7, <3>8 DEF RunInv, OutcomeHonest
    <3> QED
      BY <3>2, <3>3, <3>4, <3>5, <3>6, <3>7, <3>8, <3>9 DEF RunInv, Unsettled
  <2>3. CASE TrigStart(q)
    <3> DEFINE r == req[q].run
    <3>1. /\ r \in Runs /\ row[r] \in {"running", "gone"} /\ proc[r] = "none"
          /\ phase # "down"
      BY <2>3 DEF TrigStart, RunInv
    <3>2. task'[r] = "new" /\ \A p \in Runs \ {r} : task'[p] = task[p]
      BY <1>0, <2>3, <3>1 DEF TrigStart
    <3>3. UNCHANGED <<row, proc, phase>>
      BY <2>3 DEF TrigStart, dbVars, sysVars
    <3>4. req'[q].pc = "idle" /\ \A p \in Reqs \ {q} : req'[p] = req[p]
      BY <1>0, <2>3 DEF TrigStart, Answer
    <3>5. \A p \in Reqs \ {q} : req[p].pc = "start" => req[p].run # r
      BY <2>3 DEF TrigStart, RunInv
    <3>6. OutcomeHonest'
      BY <3>3 DEF RunInv, OutcomeHonest
    <3>7. \A p1, p2 \in Reqs :
             req'[p1].pc = "start" /\ req'[p2].pc = "start"
               /\ req'[p1].run = req'[p2].run => p1 = p2
      BY <3>4 DEF RunInv
    <3>8. \A p \in Reqs : req'[p].pc = "start" =>
             /\ req'[p].run \in Runs
             /\ row'[req'[p].run] \in {"running", "gone"}
             /\ task'[req'[p].run] = "none"
             /\ proc'[req'[p].run] = "none"
      BY <3>2, <3>3, <3>4, <3>5 DEF RunInv
    <3>9. \A p \in Runs :
             /\ row'[p] = "unborn" => task'[p] = "none" /\ proc'[p] = "none"
             /\ task'[p] \in Unsettled => row'[p] \in {"running", "gone"}
             /\ task'[p] \in {"new", "waiting", "granted", "spawn", "fwrite"}
                  => proc'[p] = "none"
             /\ task'[p] = "comm" => proc'[p] \in {"live", "ok", "err"}
             /\ task'[p] = "settle" => proc'[p] \in {"ok", "err"}
      BY <3>1, <3>2, <3>3 DEF RunInv, Unsettled
    <3> QED
      BY <3>1, <3>3, <3>6, <3>7, <3>8, <3>9 DEF RunInv
  <2> QED
    BY <1>3, <2>1, <2>2, <2>3 DEF ReqStep
<1>4. ASSUME NEW r \in Runs, TaskStep(r)
      PROVE  RunInv'
  <2>1. UNCHANGED <<req, phase>>
    BY <1>4 DEF TaskStep, Acquire, Granted, Spawn, SpawnFails, Collect, Settle,
                CallbackDone, WriteSpawnFailure, Reap, WriteCancelled,
                WriteFails, CancelHandled, CancelEnds, CancelDuringWrite,
                sysVars
  <2>2. task[r] # "none" /\ phase # "down"
    BY <1>4 DEF TaskStep, Acquire, Granted, Spawn, SpawnFails, Collect, Settle,
                CallbackDone, WriteSpawnFailure, Reap, WriteCancelled,
                WriteFails, CancelHandled, CancelEnds, CancelDuringWrite, At,
                RunInv
  <2>3. ASSUME NEW to, task' = [task EXCEPT ![r] = to], UNCHANGED <<row, proc>>,
               \/ task[r] \in {"new", "granted"} /\ to \in {"waiting", "spawn"}
               \/ task[r] = "spawn" /\ to \in {"fwrite", "cwrite"}
               \/ task[r] = "comm" /\ to = "settle" /\ proc[r] # "live"
               \/ task[r] = "comm" /\ to = "reap"
        PROVE  RunInv'
    <3>1. task'[r] = to /\ \A p \in Runs \ {r} : task'[p] = task[p]
      BY <1>0, <2>3
    <3>2. OutcomeHonest'
      BY <2>3 DEF RunInv, OutcomeHonest
    <3> QED
      BY <2>1, <2>2, <2>3, <3>1, <3>2 DEF RunInv, Unsettled
  <2>4. CASE Acquire(r) \/ Granted(r) \/ SpawnFails(r) \/ Collect(r)
             \/ CancelHandled(r)
    BY <2>3, <2>4 DEF Acquire, Granted, SpawnFails, Collect, CancelHandled, At,
                      Move, dbVars
  <2>5. CASE Spawn(r) \/ Reap(r)
    <3>1. /\ UNCHANGED row /\ task[r] \in Unsettled
          /\ task'[r] \in {"comm", "cwrite"}
          /\ \A p \in Runs \ {r} : task'[p] = task[p] /\ proc'[p] = proc[p]
          /\ task'[r] = "comm" => proc'[r] = "live"
      BY <1>0, <2>5 DEF Spawn, Reap, Move, At, Unsettled, dbVars
    <3>2. row[r] \in {"running", "gone"}
      BY <3>1 DEF RunInv
    <3>3. OutcomeHonest'
      BY <3>1, <3>2 DEF RunInv, OutcomeHonest
    <3> QED
      BY <2>1, <2>2, <3>1, <3>2, <3>3 DEF RunInv, Unsettled
  <2>6. CASE Settle(r) /\ proc[r] = "ok"
    <3>1. /\ UNCHANGED proc /\ task[r] = "settle" /\ task'[r] = "callback"
          /\ \A p \in Runs \ {r} : task'[p] = task[p]
      BY <1>0, <2>6 DEF Settle, Move, At
    <3>2. /\ \A p \in Runs \ {r} : row'[p] = row[p]
          /\ row'[r] \in {"success", "gone"}
      BY <2>6, SetRowEffect DEF Settle
    <3>3. OutcomeHonest'
      BY <2>6, <3>1, <3>2 DEF RunInv, OutcomeHonest
    <3>4. \A q \in Reqs : req[q].pc = "start" => req[q].run # r
      BY <3>1 DEF RunInv
    <3> QED
      BY <2>1, <2>2, <3>1, <3>2, <3>3, <3>4 DEF RunInv, Unsettled
  <2>7. CASE Settle(r) /\ proc[r] # "ok"
    <3>1. task[r] = "settle" /\ EndTask(r) /\ SetRow(r, "failed")
          /\ UNCHANGED proc
      BY <2>7 DEF Settle, At
    <3>2. proc[r] = "err"
      BY <2>7, <3>1 DEF RunInv
    <3> QED
      BY <2>1, <2>2, <3>1, <3>2, EndTaskKeepsRunInv DEF Unsettled, Settled
  <2>8. CASE CallbackDone(r) \/ CancelEnds(r) \/ WriteFails(r)
    <3>1. EndTask(r) /\ UNCHANGED <<row, proc>>
      BY <2>8 DEF CallbackDone, CancelEnds, WriteFails, dbVars
    <3> QED
      BY <2>1, <2>2, <3>1, EndTaskKeepsRunInv
  <2>9. CASE WriteSpawnFailure(r) \/ WriteCancelled(r)
    <3>1. EndTask(r) /\ UNCHANGED proc /\ task[r] \in {"fwrite", "cwrite"}
          /\ SetRow(r, IF task[r] = "fwrite" THEN "nospawn" ELSE "cancelled")
      BY <2>9 DEF WriteSpawnFailure, WriteCancelled, At
    <3>2. task[r] = "fwrite" => proc[r] = "none"
      BY DEF RunInv
    <3> QED
      BY <2>1, <2>2, <3>1, <3>2, EndTaskKeepsRunInv DEF Unsettled, Settled
  <2>10. CASE CancelDuringWrite(r)
    <3>1. /\ EndTask(r) /\ UNCHANGED proc
          /\ task[r] \in {"settle", "fwrite", "cwrite"}
          /\ SetRow(r, Pending(r)) \/ UNCHANGED row
      BY <2>10 DEF CancelDuringWrite
    <3>2. /\ task[r] = "fwrite" => proc[r] = "none"
          /\ task[r] = "settle" => proc[r] \in {"ok", "err"}
      BY DEF RunInv
    <3>3. /\ Pending(r) \in Settled /\ task[r] \in Unsettled
          /\ Pending(r) = "success" => proc[r] = "ok"
          /\ Pending(r) = "failed"  => proc[r] = "err"
          /\ Pending(r) = "nospawn" => proc[r] = "none"
      <4>1. CASE task[r] = "settle"
        BY <3>2, <4>1 DEF Pending, Settled, Unsettled
      <4>2. CASE task[r] = "fwrite"
        BY <3>2, <4>2 DEF Pending, Settled, Unsettled
      <4>3. CASE task[r] = "cwrite"
        BY <4>3 DEF Pending, Settled, Unsettled
      <4> QED
        BY <3>1, <4>1, <4>2, <4>3
    <3> QED
      BY <2>1, <2>2, <3>1, <3>3, EndTaskKeepsRunInv
  <2> QED
    BY <1>4, <2>4, <2>5, <2>6, <2>7, <2>8, <2>9, <2>10 DEF TaskStep, Settle
<1>5. ASSUME NEW r \in Runs, ProcExit(r) \/ AgeRow(r)
      PROVE  RunInv'
  <2>1. UNCHANGED <<req, row, task, phase>>
    BY <1>5 DEF ProcExit, AgeRow, dbVars, taskVars, sysVars
  <2>2. /\ \A p \in Runs \ {r} : proc'[p] = proc[p]
        /\ proc'[r] # proc[r] => /\ proc[r] = "live"
                                 /\ proc'[r] \in {"ok", "err"}
    BY <1>0, <1>5 DEF ProcExit, AgeRow
  <2>3. OutcomeHonest'
    BY <2>1, <2>2 DEF RunInv, OutcomeHonest
  <2> QED
    BY <2>1, <2>2, <2>3 DEF RunInv
<1>6. CASE Start
  <2>1. UNCHANGED <<req, task, proc>> /\ phase = "down"
    BY <1>6 DEF Start, taskVars
  <2>2. \A r \in Runs : \/ row'[r] = row[r]
                        \/ row[r] = "running" /\ row'[r] = "orphaned"
    BY <1>0, <1>6 DEF Start
  <2>3. OutcomeHonest'
    BY <2>1, <2>2 DEF RunInv, OutcomeHonest
  <2> QED
    BY <2>1, <2>2, <2>3 DEF RunInv, Unsettled
<1>7. CASE Shutdown \/ DrainTimeout \/ Drained
  <2>1. UNCHANGED <<req, row, task, proc>> /\ phase # "down" /\ phase' # "down"
    BY <1>7 DEF Shutdown, DrainTimeout, Drained, dbVars, taskVars, sysVars
  <2> QED
    BY <2>1 DEF RunInv, OutcomeHonest
<1>8. CASE Exit \/ Crash
  <2>1. /\ UNCHANGED row
        /\ \A q \in Reqs : req'[q].pc = "idle"
        /\ \A r \in Runs : task'[r] = "none"
    BY <1>0, <1>8 DEF Exit, Crash, Forget, dbVars
  <2>2. \A r \in Runs : \/ proc'[r] = proc[r]
                        \/ proc[r] = "live" /\ proc'[r] = "killed"
    BY <1>0, <1>8 DEF Exit, Crash
  <2>3. OutcomeHonest'
    BY <2>1, <2>2 DEF RunInv, OutcomeHonest
  <2> QED
    BY <2>1, <2>2, <2>3 DEF RunInv, Unsettled
<1>9. CASE UNCHANGED vars
  BY <1>9 DEF vars, RunInv, OutcomeHonest
<1> QED
  BY <1>1, <1>2, <1>3, <1>4, <1>5, <1>6, <1>7, <1>8, <1>9 DEF Next

\* Rows tell the truth about their subprocess, for every instance.
THEOREM OutcomeHonestHolds == Spec => []OutcomeHonest
<1>1. RunInv => OutcomeHonest
  BY DEF RunInv
<1> QED
  BY <1>1, InitTInv, NextTInv, InitRunInv, NextRunInv, PTL DEF Spec
-------------------------------------------------------------------------------
\* No step rewrites a settled row: writers hold runs that RunInv calls
\* unsettled, and recovery runs when there are no writers.
LEMMA StepSettledOnce ==
    TInv /\ RunInv /\ [Next]_vars =>
      \A p \in Runs : row[p] \in Settled => row'[p] \in {row[p], "gone"}
<1> SUFFICES ASSUME TInv, RunInv, [Next]_vars, NEW p \in Runs,
                    row[p] \in Settled
             PROVE  row'[p] \in {row[p], "gone"}
  OBVIOUS
<1>0. /\ row \in [Runs -> RowStates]
      /\ row[p] \notin {"unborn", "running", "gone"}
  BY DEF TInv, TypeOK, Settled
<1>1. CASE UNCHANGED row
  BY <1>1
<1>2. ASSUME NEW s \in Slugs, CreateNotebook(s) \/ DeleteNotebook(s)
      PROVE  row'[p] \in {row[p], "gone"}
  BY <1>0, <1>2 DEF CreateNotebook, DeleteNotebook
<1>3. ASSUME NEW q \in Reqs, ReqStep(q)
      PROVE  row'[p] \in {row[p], "gone"}
  <2>1. CASE TrigInsert(q)
    BY <1>0, <2>1 DEF TrigInsert
  <2>2. CASE TrigLookup(q) \/ TrigCheck(q) \/ TrigDbCheck(q) \/ TrigStart(q)
    BY <2>2 DEF TrigLookup, TrigCheck, TrigDbCheck, TrigStart, dbVars
  <2> QED
    BY <1>3, <2>1, <2>2 DEF ReqStep
<1>4. ASSUME NEW r \in Runs, TaskStep(r)
      PROVE  row'[p] \in {row[p], "gone"}
  <2>1. CASE \E to : SetRow(r, to) /\ task[r] \in Unsettled
    <3>1. p # r
      BY <1>0, <2>1 DEF RunInv
    <3> QED
      BY <2>1, <3>1, SetRowEffect
  <2>2. CASE Settle(r) \/ WriteSpawnFailure(r) \/ WriteCancelled(r)
             \/ CancelDuringWrite(r)
    BY <1>1, <2>1, <2>2 DEF Settle, WriteSpawnFailure, WriteCancelled,
                            CancelDuringWrite, At, Unsettled
  <2>3. CASE ~(Settle(r) \/ WriteSpawnFailure(r) \/ WriteCancelled(r)
               \/ CancelDuringWrite(r))
    BY <1>4, <2>3 DEF TaskStep, Acquire, Granted, Spawn, SpawnFails, Collect,
                      CallbackDone, Reap, WriteFails, CancelHandled,
                      CancelEnds, dbVars
  <2> QED
    BY <2>2, <2>3
<1>5. ASSUME NEW r \in Runs, ProcExit(r) \/ AgeRow(r)
      PROVE  row'[p] \in {row[p], "gone"}
  BY <1>5 DEF ProcExit, AgeRow, dbVars
<1>6. CASE Start
  BY <1>0, <1>6 DEF Start
<1>7. CASE \/ Shutdown \/ DrainTimeout \/ Drained \/ Exit \/ Crash
           \/ \E q \in Reqs, s \in Slugs : TrigArrive(q, s)
  BY <1>7 DEF Shutdown, DrainTimeout, Drained, Exit, Crash, Forget, TrigArrive,
              dbVars
<1>8. CASE UNCHANGED vars
  BY <1>8 DEF vars
<1> QED
  BY <1>2, <1>3, <1>4, <1>5, <1>6, <1>7, <1>8 DEF Next

\* A poller that saw a terminal row never finds it changed, for every
\* instance and over crashes, restarts and cancellations.
THEOREM SettledOnceHolds == Spec => SettledOnce
<1>1. TInv /\ RunInv /\ [Next]_vars
        => [\A r \in Runs : row[r] \in Settled => row'[r] \in {row[r], "gone"}]_vars
  BY StepSettledOnce
<1> QED
  BY <1>1, InitTInv, NextTInv, InitRunInv, NextRunInv, PTL
  DEF Spec, SettledOnce

(***************************************************************************)
(* The refinement: the rows, the subprocesses and the one worker behave as *)
(* IngestLedger says.                                                      *)
(***************************************************************************)
WorkerIsDriving == worker \in Runs \cup {NoRun} /\ \A r \in Runs : worker = r <=> Driving(r)

\* The worker is the run that is driven, if any.
LEMMA WorkerIs == TInv => WorkerIsDriving
<1> SUFFICES ASSUME TInv PROVE WorkerIsDriving
  OBVIOUS
<1>1. \A r1, r2 \in Runs : Driving(r1) /\ Driving(r2) => r1 = r2
  BY DEF TInv, PermitInv, Driving, Holding
<1>2. CASE \E r \in Runs : Driving(r)
  <2>1. worker = CHOOSE r \in Runs : Driving(r)
    BY <1>2 DEF worker
  <2>2. worker \in Runs /\ Driving(worker)
    BY <1>2, <2>1
  <2> QED
    BY <1>1, <2>2 DEF WorkerIsDriving
<1>3. CASE ~ \E r \in Runs : Driving(r)
  <2>1. worker = NoRun
    BY <1>3 DEF worker
  <2>2. NoRun \notin Runs
    BY BoundsAssumption
  <2> QED
    BY <1>3, <2>1, <2>2 DEF WorkerIsDriving
<1> QED
  BY <1>2, <1>3

\* A step that changes nobody's driving changes no worker.
LEMMA SameWorker ==
    ASSUME WorkerIsDriving, WorkerIsDriving', \A r \in Runs : Driving(r)' <=> Driving(r)
    PROVE  worker' = worker
  BY DEF WorkerIsDriving

\* If nobody is driven afterwards there is no worker.
LEMMA NoWorker ==
    ASSUME WorkerIsDriving', \A r \in Runs : ~Driving(r)'
    PROVE  worker' = NoRun
  BY DEF WorkerIsDriving

\* The initial state of the daemon is one of the ledger.
LEMMA InitLedger == Init => Ledger!Init
<1> SUFFICES ASSUME Init PROVE Ledger!Init
  OBVIOUS
<1>1. worker = NoRun
  BY DEF Init, worker, Driving
<1> QED
  BY <1>1 DEF Init, Ledger!Init, Ledger!Runs, Ledger!NoRun

\* A write of a row by the hand that holds it is the ledger's settling, or a
\* stutter when the notebook is gone.
LEMMA WriteSettles ==
    ASSUME TInv, RunInv, NEW r \in Runs, NEW how \in Settled, SetRow(r, how),
           task[r] \in Unsettled,
           how = "success" => proc[r] = "ok",
           how = "failed" => proc[r] = "err",
           how = "nospawn" => proc[r] = "none",
           proc' = proc, worker' = worker
    PROVE  [Ledger!Next]_Ledger!vars
<1>1. row[r] \in {"running", "gone"}
  BY DEF RunInv
<1>2. CASE row[r] = "running"
  <2>1. row' = [row EXCEPT ![r] = how]
    BY <1>2 DEF SetRow
  <2>2. Ledger!Settle(r, how)
    BY <1>2, <2>1 DEF Ledger!Settle
  <2> QED
    BY <2>2 DEF Ledger!Next, Ledger!Runs, Ledger!Settled, Settled
<1>3. CASE row[r] = "gone"
  <2>1. row' = row
    BY <1>3 DEF SetRow, TInv, TypeOK
  <2> QED
    BY <2>1 DEF Ledger!vars
<1> QED
  BY <1>1, <1>2, <1>3

\* What leaves rows, subprocesses and the worker alone is a stutter of the ledger.
LEMMA StutterSteps ==
    ASSUME UNCHANGED <<row, proc, worker>>
    PROVE  [Ledger!Next]_Ledger!vars
  BY DEF Ledger!vars

\* The end of a coroutine that drives nothing changes no worker.
LEMMA EndTaskSameWorker ==
    ASSUME TInv, WorkerIsDriving, WorkerIsDriving', NEW r \in Runs, EndTask(r),
           ~Driving(r)
    PROVE  worker' = worker
<1>1. \A p \in Runs : Driving(p)' <=> Driving(p)
  <2> SUFFICES ASSUME NEW p \in Runs PROVE Driving(p)' <=> Driving(p)
    OBVIOUS
  <2>1. CASE task' = [task EXCEPT ![r] = "done"]
    BY <2>1 DEF Driving, TInv, TypeOK
  <2>2. ASSUME NEW w \in Waiters, task' = [task EXCEPT ![r] = "done", ![w] = "granted"]
        PROVE  Driving(p)' <=> Driving(p)
    BY <2>2 DEF Driving, TInv, TypeOK, Waiters
  <2> QED
    BY <2>1, <2>2 DEF EndTask
<1> QED
  BY <1>1, SameWorker

\* A coroutine that moves between two places of the same kind changes no worker.
LEMMA MoveSameWorker ==
    ASSUME TInv, WorkerIsDriving, WorkerIsDriving', NEW r \in Runs, NEW to,
           task' = [task EXCEPT ![r] = to],
           task[r] \in {"comm", "reap"} <=> to \in {"comm", "reap"}
    PROVE  worker' = worker
<1>1. \A p \in Runs : Driving(p)' <=> Driving(p)
  BY DEF Driving, TInv, TypeOK
<1> QED
  BY <1>1, SameWorker

\* Every step of the daemon is a step of the ledger or none.
LEMMA StepLedger ==
    TInv /\ RunInv /\ WorkerIsDriving /\ TInv' /\ WorkerIsDriving' /\ [Next]_vars
      => [Ledger!Next]_Ledger!vars
<1> SUFFICES ASSUME TInv, RunInv, WorkerIsDriving, TInv', WorkerIsDriving', [Next]_vars
             PROVE  [Ledger!Next]_Ledger!vars
  OBVIOUS
<1> USE DEF Ledger!Runs
<1>0. /\ row \in [Runs -> RowStates] /\ task \in [Runs -> TaskStates]
      /\ proc \in [Runs -> {"none", "live", "ok", "err", "killed"}]
      /\ \A r \in Runs : worker = r <=> Driving(r)
      /\ worker \in Runs \cup {NoRun}
      /\ NoRun \notin Runs
      /\ \A r1, r2 \in Runs : Driving(r1) /\ Driving(r2) => r1 = r2
  BY BoundsAssumption DEF TInv, TypeOK, WorkerIsDriving
<1>1. ASSUME task' = task PROVE worker' = worker
  BY <1>1, SameWorker DEF Driving
<1>2. ASSUME NEW s \in Slugs, CreateNotebook(s) \/ DeleteNotebook(s)
      PROVE  [Ledger!Next]_Ledger!vars
  <2>1. CASE CreateNotebook(s)
    BY <1>1, <2>1, StutterSteps DEF CreateNotebook, taskVars
  <2>2. CASE DeleteNotebook(s)
    <3>1. PICK S \in SUBSET Runs : S = {r \in Runs : row[r] # "unborn" /\ slugOf[r] = s}
      OBVIOUS
    <3>2. row' = [r \in Runs |-> IF r \in S THEN "gone" ELSE row[r]]
      BY <2>2, <3>1 DEF DeleteNotebook
    <3>3. Ledger!Remove(S)
      BY <1>1, <2>2, <3>1, <3>2 DEF DeleteNotebook, taskVars, Ledger!Remove
    <3> QED
      BY <3>3 DEF Ledger!Next
  <2> QED
    BY <1>2, <2>1, <2>2
<1>3. ASSUME NEW q \in Reqs, ReqStep(q)
      PROVE  [Ledger!Next]_Ledger!vars
  <2>1. CASE TrigLookup(q) \/ TrigCheck(q) \/ TrigDbCheck(q)
    BY <1>1, <2>1, StutterSteps DEF TrigLookup, TrigCheck, TrigDbCheck, dbVars, taskVars
  <2>2. CASE TrigInsert(q)
    <3>1. CASE req[q].slug \in notebooks
      <4>1. PICK r \in Runs : row[r] = "unborn" /\ row' = [row EXCEPT ![r] = "running"]
        BY <2>2, <3>1 DEF TrigInsert
      <4>2. Ledger!Open(r)
        BY <1>1, <2>2, <4>1 DEF TrigInsert, taskVars, Ledger!Open
      <4> QED
        BY <4>2 DEF Ledger!Next
    <3>2. CASE req[q].slug \notin notebooks
      BY <1>1, <2>2, <3>2, StutterSteps DEF TrigInsert, taskVars
    <3> QED
      BY <3>1, <3>2
  <2>3. CASE TrigStart(q)
    <3>1. req[q].run \in Runs /\ task[req[q].run] = "none"
      BY <2>3 DEF TrigStart, RunInv
    <3>2. worker' = worker
      BY <2>3, <3>1, MoveSameWorker DEF TrigStart
    <3> QED
      BY <2>3, <3>2, StutterSteps DEF TrigStart, dbVars
  <2> QED
    BY <1>3, <2>1, <2>2, <2>3 DEF ReqStep
<1>4. ASSUME NEW r \in Runs, TaskStep(r)
      PROVE  [Ledger!Next]_Ledger!vars
  <2>1. CASE Acquire(r) \/ Granted(r) \/ SpawnFails(r)
    <3>1. UNCHANGED <<row, proc>>
      BY <2>1 DEF Acquire, Granted, SpawnFails, dbVars
    <3>2. PICK to \in {"spawn", "waiting", "fwrite"} : task' = [task EXCEPT ![r] = to]
      BY <2>1 DEF Acquire, Granted, SpawnFails, Move
    <3>3. task[r] \in {"new", "granted", "spawn"}
      BY <2>1 DEF Acquire, Granted, SpawnFails, At
    <3>4. worker' = worker
      BY <3>2, <3>3, MoveSameWorker
    <3> QED
      BY <3>1, <3>4, StutterSteps
  <2>2. CASE Spawn(r)
    <3>1. /\ task[r] = "spawn" /\ task' = [task EXCEPT ![r] = "comm"]
          /\ proc' = [proc EXCEPT ![r] = "live"] /\ row' = row
      BY <2>2 DEF Spawn, At, Move, dbVars
    <3>2. proc[r] = "none" /\ row[r] \in {"running", "gone"}
      BY <3>1 DEF RunInv, Unsettled
    <3>3. worker = NoRun
      <4>1. \A p \in Runs : ~Driving(p)
        BY <3>1 DEF TInv, PermitInv, Holding, Driving
      <4> QED
        BY <1>0, <4>1
    <3>4. worker' = r
      <4>1. Driving(r)'
        BY <1>0, <3>1 DEF Driving
      <4> QED
        BY <4>1 DEF WorkerIsDriving
    <3>5. Ledger!Drive(r)
      BY <3>1, <3>2, <3>3, <3>4 DEF Ledger!Drive, Ledger!NoRun
    <3> QED
      BY <3>5 DEF Ledger!Next
  <2>3. CASE Collect(r)
    <3>1. task[r] = "comm" /\ task' = [task EXCEPT ![r] = "settle"] /\ UNCHANGED <<row, proc>>
      BY <2>3 DEF Collect, At, Move, dbVars
    <3>2. \A p \in Runs : ~Driving(p)'
      BY <1>0, <3>1 DEF Driving
    <3>3. Ledger!Leave
      BY <3>1, <3>2, NoWorker DEF Ledger!Leave, Ledger!NoRun
    <3> QED
      BY <3>3 DEF Ledger!Next
  <2>4. CASE Reap(r)
    <3>1. /\ task[r] = "reap" /\ task' = [task EXCEPT ![r] = "cwrite"] /\ row' = row
          /\ proc' = [proc EXCEPT ![r] = IF @ = "live" THEN "killed" ELSE @]
      BY <2>4 DEF Reap, At, Move, dbVars
    <3>2. \A p \in Runs : ~Driving(p)'
      BY <1>0, <3>1 DEF Driving
    <3>3. worker' = NoRun /\ worker = r
      BY <1>0, <3>1, <3>2, NoWorker DEF Driving
    <3>4. CASE proc[r] = "live"
      <4>1. Ledger!Ends(r, "killed")
        BY <1>0, <3>1, <3>3, <3>4 DEF Ledger!Ends, Ledger!NoRun
      <4> QED
        BY <4>1 DEF Ledger!Next
    <3>5. CASE proc[r] # "live"
      <4>1. proc' = proc
        BY <1>0, <3>1, <3>5
      <4>2. Ledger!Leave
        BY <3>1, <3>3, <4>1 DEF Ledger!Leave, Ledger!NoRun
      <4> QED
        BY <4>2 DEF Ledger!Next
    <3> QED
      BY <3>4, <3>5
  <2>5. CASE Settle(r)
    <3>1. task[r] = "settle" /\ proc[r] \in {"ok", "err"} /\ proc' = proc
      BY <2>5 DEF Settle, At, RunInv
    <3>2. worker' = worker
      <4>1. ~Driving(r)
        BY <3>1 DEF Driving
      <4>2. CASE EndTask(r)
        BY <4>1, <4>2, EndTaskSameWorker
      <4>3. CASE Move(r, "callback")
        BY <3>1, <4>3, MoveSameWorker DEF Move
      <4> QED
        BY <2>5, <4>2, <4>3 DEF Settle
    <3>3. PICK how \in {"success", "failed"} :
            SetRow(r, how) /\ how = IF proc[r] = "ok" THEN "success" ELSE "failed"
      BY <2>5 DEF Settle
    <3> QED
      BY <3>1, <3>2, <3>3, WriteSettles DEF Settled, Unsettled
  <2>6. CASE WriteSpawnFailure(r) \/ WriteCancelled(r)
    <3>1. /\ task[r] \in {"fwrite", "cwrite"} /\ proc' = proc /\ EndTask(r)
          /\ \/ SetRow(r, "nospawn") /\ task[r] = "fwrite"
             \/ SetRow(r, "cancelled")
      BY <2>6 DEF WriteSpawnFailure, WriteCancelled, At
    <3>2. worker' = worker
      BY <3>1, EndTaskSameWorker DEF Driving
    <3>3. task[r] = "fwrite" => proc[r] = "none"
      BY DEF RunInv
    <3> QED
      BY <3>1, <3>2, <3>3, WriteSettles DEF Settled, Unsettled
  <2>7. CASE CallbackDone(r) \/ WriteFails(r) \/ CancelEnds(r)
    <3>1. UNCHANGED <<row, proc>> /\ EndTask(r) /\ ~Driving(r)
      BY <2>7 DEF CallbackDone, WriteFails, CancelEnds, At, Driving, dbVars
    <3>2. worker' = worker
      BY <3>1, EndTaskSameWorker
    <3> QED
      BY <3>1, <3>2, StutterSteps
  <2>8. CASE CancelHandled(r)
    <3>1. UNCHANGED <<row, proc>>
      BY <2>8 DEF CancelHandled, dbVars
    <3>2. worker' = worker
      BY <2>8, MoveSameWorker DEF CancelHandled
    <3> QED
      BY <3>1, <3>2, StutterSteps
  <2>9. CASE CancelDuringWrite(r)
    <3>1. task[r] \in {"settle", "fwrite", "cwrite"} /\ EndTask(r) /\ proc' = proc
      BY <2>9 DEF CancelDuringWrite
    <3>2. worker' = worker
      BY <3>1, EndTaskSameWorker DEF Driving
    <3>3. CASE UNCHANGED row
      BY <3>1, <3>2, <3>3, StutterSteps
    <3>4. CASE SetRow(r, Pending(r))
      <4>1. /\ task[r] = "settle" => proc[r] \in {"ok", "err"}
            /\ task[r] = "fwrite" => proc[r] = "none"
        BY DEF RunInv
      <4>2. PICK how \in Settled : /\ SetRow(r, how)
                                   /\ how = "success" => proc[r] = "ok"
                                   /\ how = "failed" => proc[r] = "err"
                                   /\ how = "nospawn" => proc[r] = "none"
        <5>1. CASE task[r] = "settle"
          BY <3>4, <4>1, <5>1 DEF Pending, Settled
        <5>2. CASE task[r] = "fwrite"
          BY <3>4, <4>1, <5>2 DEF Pending, Settled
        <5>3. CASE task[r] = "cwrite"
          BY <3>4, <5>3 DEF Pending, Settled
        <5> QED
          BY <3>1, <5>1, <5>2, <5>3
      <4> QED
        BY <3>1, <3>2, <4>2, WriteSettles DEF Unsettled
    <3> QED
      BY <2>9, <3>3, <3>4 DEF CancelDuringWrite
  <2> QED
    BY <1>4, <2>1, <2>2, <2>3, <2>4, <2>5, <2>6, <2>7, <2>8, <2>9 DEF TaskStep
<1>5. ASSUME NEW r \in Runs, ProcExit(r)
      PROVE  [Ledger!Next]_Ledger!vars
  <2>1. PICK out \in {"ok", "err"} : proc' = [proc EXCEPT ![r] = out]
    BY <1>5 DEF ProcExit
  <2>2. Ledger!Ends(r, out)
    BY <1>1, <1>5, <2>1 DEF ProcExit, dbVars, taskVars, Ledger!Ends
  <2> QED
    BY <2>2 DEF Ledger!Next
<1>6. ASSUME NEW r \in Runs, AgeRow(r)
      PROVE  [Ledger!Next]_Ledger!vars
  BY <1>1, <1>6, StutterSteps DEF AgeRow, taskVars
<1>7. CASE Start
  <2>1. PICK S \in SUBSET Runs : S = {r \in Runs : row[r] = "running" /\ r \in aged}
    OBVIOUS
  <2>2. row' = [r \in Runs |-> IF r \in S THEN "orphaned" ELSE row[r]]
    BY <1>7, <2>1 DEF Start
  <2>3. Ledger!GiveUp(S)
    BY <1>1, <1>7, <2>1, <2>2 DEF Start, taskVars, Ledger!GiveUp
  <2> QED
    BY <2>3 DEF Ledger!Next
<1>8. CASE \/ Shutdown \/ DrainTimeout \/ Drained
           \/ \E q \in Reqs, s \in Slugs : TrigArrive(q, s)
  BY <1>1, <1>8, StutterSteps
  DEF Shutdown, DrainTimeout, Drained, TrigArrive, dbVars, taskVars
<1>9. ASSUME Exit \/ Crash
      PROVE  [Ledger!Next]_Ledger!vars
  <2>1. row' = row /\ \A p \in Runs : ~Driving(p)'
    BY <1>9 DEF Exit, Crash, Forget, dbVars, Driving
  <2>2. worker' = NoRun
    BY <2>1, NoWorker
  <2>3. CASE proc' = proc
    BY <2>1, <2>2, <2>3 DEF Ledger!Leave, Ledger!Next, Ledger!NoRun
  <2>4. CASE proc' # proc
    <3>1. proc' = [r \in Runs |-> IF Driving(r) /\ proc[r] = "live" THEN "killed"
                                  ELSE proc[r]]
      BY <1>9, <2>4 DEF Exit, Crash, Driving
    <3>2. PICK r \in Runs : Driving(r) /\ proc[r] = "live"
      BY <1>0, <2>4, <3>1
    <3>3. proc' = [proc EXCEPT ![r] = "killed"]
      BY <1>0, <3>1, <3>2
    <3>4. Ledger!Ends(r, "killed")
      BY <1>0, <2>1, <2>2, <3>2, <3>3 DEF Ledger!Ends, Ledger!NoRun
    <3> QED
      BY <3>4 DEF Ledger!Next
  <2> QED
    BY <2>3, <2>4
<1>10. CASE UNCHANGED vars
  BY <1>1, <1>10, StutterSteps DEF vars
<1> QED
  BY <1>2, <1>3, <1>4, <1>5, <1>6, <1>7, <1>8, <1>9, <1>10 DEF Next

\* Behind all handlers, queues, cancellations and restarts there is the
\* ledger, for every instance.
THEOREM ImplementsLedgerHolds == Spec => ImplementsLedger
<1> USE InitTInv, NextTInv, InitRunInv, NextRunInv, WorkerIs, InitLedger, StepLedger
<1> QED
  BY PTL DEF Spec, ImplementsLedger, Ledger!Spec

(***************************************************************************)
(* Nobody waits for a run that nothing works on: cancellations belong to   *)
(* the shutdown, and whoever reaches the callback has written its row.     *)
(***************************************************************************)
LostInv ==
    /\ phase \in {"up", "down"} => cx = {}
    /\ \A r \in Runs : task[r] = "callback" => row[r] # "running"
    /\ NoLostRun

\* A write of r's row leaves it settled or gone.
LEMMA SetRowSettles ==
    ASSUME TInv, NEW r \in Runs, NEW how \in Settled, SetRow(r, how)
    PROVE  row'[r] # "running"
  BY DEF SetRow, TInv, TypeOK, Settled

\* The end of a coroutine whose row is settled, gone or failed to be written
\* loses no run, and starts no callback.
LEMMA EndTaskLosesNothing ==
    ASSUME TInv, LostInv, NEW r \in Runs, EndTask(r),
           row'[r] # "running" \/ faults' > 0 \/ phase # "up",
           \A p \in Runs : row'[p] = "running" => row[p] = "running",
           UNCHANGED <<phase, mine, req>>, faults' >= faults, faults' \in Nat
    PROVE  LostInv'
<1>1. cx' = cx \ {r}
  BY DEF EndTask
<1>2. \A p \in Runs : /\ p # r /\ Live(p) => task'[p] = task[p] \/ task'[p] = "granted"
                      /\ task'[p] = "callback" => task[p] = "callback"
  <2>1. CASE task' = [task EXCEPT ![r] = "done"]
    BY <2>1 DEF TInv, TypeOK
  <2>2. ASSUME NEW w \in Waiters, task' = [task EXCEPT ![r] = "done", ![w] = "granted"]
        PROVE  \A p \in Runs : /\ p # r /\ Live(p) => task'[p] = task[p] \/ task'[p] = "granted"
                               /\ task'[p] = "callback" => task[p] = "callback"
    BY <2>2 DEF Waiters, TInv, TypeOK
  <2> QED
    BY <2>1, <2>2 DEF EndTask
<1>3. faults \in Nat
  BY BoundsAssumption DEF TInv, TypeOK
<1>4. NoLostRun'
  <2> SUFFICES ASSUME NEW p \in mine', (phase = "up" /\ faults = 0)', row'[p] = "running"
               PROVE  (Live(p) \/ \E q \in Reqs : req[q].pc = "start" /\ req[q].run = p)'
    BY DEF NoLostRun
  <2>1. faults = 0 /\ p # r /\ p \in mine /\ p \in Runs /\ row[p] = "running"
    BY <1>3 DEF TInv, TypeOK
  <2>2. Live(p) \/ \E q \in Reqs : req[q].pc = "start" /\ req[q].run = p
    BY <2>1 DEF LostInv, NoLostRun
  <2>3. CASE Live(p)
    BY <1>2, <2>1, <2>3 DEF Live
  <2> QED
    BY <2>2, <2>3
<1> QED
  BY <1>1, <1>2, <1>4 DEF LostInv

\* Nobody waits in the initial state.
LEMMA InitLostInv == Init => LostInv
  BY DEF Init, LostInv, NoLostRun

\* Every step keeps it: the case split is over the actions of the daemon.
LEMMA NextLostInv == TInv /\ RunInv /\ LostInv /\ [Next]_vars => LostInv'
<1> SUFFICES ASSUME TInv, RunInv, LostInv, [Next]_vars PROVE LostInv'
  OBVIOUS
<1>0. /\ row \in [Runs -> RowStates] /\ task \in [Runs -> TaskStates]
      /\ req \in [Reqs -> ReqStates] /\ mine \subseteq Runs
      /\ faults \in Nat
  BY BoundsAssumption DEF TInv, TypeOK
\* steps that leave tasks, runs and faults alone, and revive no row
<1>1. ASSUME UNCHANGED <<task, cx, mine, phase, faults>>,
             \A p \in Runs : row'[p] = "running" => row[p] = "running",
             \A q \in Reqs : req[q].pc = "start" => req'[q] = req[q]
      PROVE  LostInv'
  BY <1>0, <1>1 DEF LostInv, NoLostRun, Live
<1>2. ASSUME NEW s \in Slugs, CreateNotebook(s) \/ DeleteNotebook(s)
      PROVE  LostInv'
  BY <1>0, <1>1, <1>2 DEF CreateNotebook, DeleteNotebook, taskVars, sysVars
<1>3. ASSUME NEW q \in Reqs, ReqStep(q)
      PROVE  LostInv'
  <2>1. CASE TrigLookup(q) \/ TrigCheck(q) \/ TrigDbCheck(q)
    BY <1>0, <1>1, <2>1 DEF TrigLookup, TrigCheck, TrigDbCheck, Goto, Answer, dbVars,
                       taskVars, sysVars
  <2>2. CASE TrigInsert(q)
    <3>1. CASE req[q].slug \in notebooks
      <4>1. PICK r \in Runs :
              /\ row' = [row EXCEPT ![r] = "running"]
              /\ mine' = mine \cup {r}
              /\ req' = [req EXCEPT ![q] =
                           [pc |-> "start", slug |-> @.slug, run |-> r]]
              /\ row[r] = "unborn"
        BY <2>2, <3>1 DEF TrigInsert
      <4>2. req'[q].pc = "start" /\ req'[q].run = r
        BY <1>0, <4>1
      <4>3. \A o \in Reqs : req[o].pc = "start" => req'[o] = req[o]
        BY <1>0, <2>2, <4>1 DEF TrigInsert
      <4>4. UNCHANGED <<task, cx, phase, faults>>
        BY <2>2 DEF TrigInsert, taskVars
      <4>5. \A p \in Runs : p # r => row'[p] = row[p]
        BY <1>0, <4>1
      <4>6. task[r] # "callback"
        BY <4>1 DEF RunInv
      <4> QED
        BY <1>0, <4>1, <4>2, <4>3, <4>4, <4>5, <4>6 DEF LostInv, NoLostRun, Live
    <3>2. CASE req[q].slug \notin notebooks
      BY <1>0, <1>1, <2>2, <3>2 DEF TrigInsert, Answer, taskVars
    <3> QED
      BY <3>1, <3>2
  <2>3. CASE TrigStart(q)
    <3>1. req[q].run \in Runs /\ task[req[q].run] = "none"
      BY <2>3 DEF TrigStart, RunInv
    <3>2. /\ task' = [task EXCEPT ![req[q].run] = "new"]
          /\ UNCHANGED <<row, cx, phase, faults, mine>>
          /\ \A o \in Reqs : o # q => req'[o] = req[o]
      BY <2>3 DEF TrigStart, Answer, dbVars, sysVars
    <3>3. \A p \in Runs : p # req[q].run => task'[p] = task[p]
      BY <1>0, <3>2
    <3>4. task'[req[q].run] = "new"
      BY <1>0, <3>1, <3>2
    <3> QED
      BY <1>0, <3>1, <3>2, <3>3, <3>4 DEF LostInv, NoLostRun, Live
  <2> QED
    BY <1>3, <2>1, <2>2, <2>3 DEF ReqStep
<1>4. ASSUME NEW r \in Runs, TaskStep(r)
      PROVE  LostInv'
  <2>0. phase = "up" => r \notin cx
    BY DEF LostInv
  <2>1. ASSUME NEW to \in TaskStates \ {"none", "done", "callback"},
               task' = [task EXCEPT ![r] = to],
               UNCHANGED <<row, req, phase, mine, faults>>, cx' \subseteq cx
        PROVE  LostInv'
    BY <1>0, <2>1 DEF LostInv, NoLostRun, Live
  <2>2. CASE \/ Acquire(r) \/ Granted(r) \/ Spawn(r) \/ SpawnFails(r)
             \/ Collect(r) \/ Reap(r) \/ CancelHandled(r)
    <3>1. UNCHANGED <<row, req, phase, mine, faults>> /\ cx' \subseteq cx
      BY <2>2 DEF Acquire, Granted, Spawn, SpawnFails, Collect, Reap, CancelHandled,
                  Move, dbVars, sysVars
    <3>2. PICK to \in {"spawn", "waiting", "comm", "fwrite", "settle", "cwrite", "reap"} :
             task' = [task EXCEPT ![r] = to]
      BY <2>2 DEF Acquire, Granted, Spawn, SpawnFails, Collect, Reap, CancelHandled, Move
    <3>3. to \in TaskStates \ {"none", "done", "callback"}
      BY DEF TaskStates, Holding
    <3> QED
      BY <2>1, <3>1, <3>2, <3>3
  <2>3. CASE Settle(r) \/ WriteSpawnFailure(r) \/ WriteCancelled(r)
    <3>1. PICK how \in Settled : SetRow(r, how)
      BY <2>3 DEF Settle, WriteSpawnFailure, WriteCancelled, Settled
    <3>2. /\ row'[r] # "running"
          /\ \A p \in Runs : row'[p] = "running" => row[p] = "running"
      BY <1>0, <3>1, SetRowSettles DEF SetRow, Settled
    <3>3. UNCHANGED <<phase, mine, req, faults>>
      BY <2>3 DEF Settle, WriteSpawnFailure, WriteCancelled, sysVars
    <3>4. CASE EndTask(r)
      BY <1>0, <3>2, <3>3, <3>4, EndTaskLosesNothing
    <3>5. CASE Move(r, "callback")
      BY <1>0, <3>2, <3>3, <3>5 DEF Move, LostInv, NoLostRun, Live
    <3> QED
      BY <2>3, <3>4, <3>5 DEF Settle, WriteSpawnFailure, WriteCancelled
  <2>4. CASE CallbackDone(r) \/ CancelEnds(r)
    <3>1. EndTask(r) /\ UNCHANGED <<row, phase, mine, req, faults>>
      BY <2>4 DEF CallbackDone, CancelEnds, dbVars, sysVars
    <3>2. row[r] # "running" \/ phase # "up"
      BY <2>0, <2>4 DEF CallbackDone, CancelEnds, At, LostInv
    <3> QED
      BY <1>0, <3>1, <3>2, EndTaskLosesNothing
  <2>5. CASE WriteFails(r)
    <3>1. EndTask(r) /\ UNCHANGED <<row, phase, mine, req>>
      BY <2>5 DEF WriteFails, dbVars, sysVars
    <3>2. faults' \in Nat /\ faults' >= faults /\ (faults' > 0 \/ phase # "up")
      BY <1>0, <2>5 DEF WriteFails, StoreOpen
    <3> QED
      BY <3>1, <3>2, EndTaskLosesNothing
  <2>6. CASE CancelDuringWrite(r)
    <3>1. EndTask(r) /\ UNCHANGED <<phase, mine, req, faults>> /\ phase # "up"
      BY <2>0, <2>6 DEF CancelDuringWrite, sysVars
    <3>2. \A p \in Runs : row'[p] = "running" => row[p] = "running"
      BY <1>0, <2>6 DEF CancelDuringWrite, SetRow, Pending
    <3> QED
      BY <1>0, <3>1, <3>2, EndTaskLosesNothing
  <2> QED
    BY <1>4, <2>2, <2>3, <2>4, <2>5, <2>6 DEF TaskStep
<1>5. ASSUME NEW r \in Runs, ProcExit(r) \/ AgeRow(r)
      PROVE  LostInv'
  BY <1>1, <1>5 DEF ProcExit, AgeRow, dbVars, taskVars, sysVars
<1>6. CASE Start
  BY <1>0, <1>6 DEF Start, taskVars, LostInv, NoLostRun, RunInv
<1>7. CASE Shutdown \/ DrainTimeout \/ Drained \/ Exit \/ Crash
  BY <1>7 DEF Shutdown, DrainTimeout, Drained, Exit, Crash, Forget, LostInv, NoLostRun,
              dbVars, taskVars, sysVars
<1>8. ASSUME NEW q \in Reqs, NEW s \in Slugs, TrigArrive(q, s)
      PROVE  LostInv'
  BY <1>0, <1>1, <1>8 DEF TrigArrive, dbVars, taskVars, sysVars
<1>9. CASE UNCHANGED vars
  BY <1>1, <1>9 DEF vars
<1> QED
  BY <1>2, <1>3, <1>4, <1>5, <1>6, <1>7, <1>8, <1>9 DEF Next

\* While the daemon is up and no write of a row has raised, no row is left
\* "running" by a task that has ended,
\* for every number of triggers, cancellations and restarts.
THEOREM NoLostRunHolds == Spec => []NoLostRun
<1>1. LostInv => NoLostRun
  BY DEF LostInv
<1> QED
  BY <1>1, InitTInv, NextTInv, InitRunInv, NextRunInv, InitLostInv, NextLostInv, PTL
  DEF Spec

(***************************************************************************)
(* One trigger at a time: the tracker then knows every live task, and a    *)
(* handler past its check meets none of its notebook.                      *)
(***************************************************************************)
OneHandler == \A q1, q2 \in Reqs : q1 = q2

SoleInv ==
    OneHandler =>
      /\ \A r \in Runs : Live(r) => reg[slugOf[r]] = r
      /\ \A q \in Reqs, r \in Runs :
           req[q].pc \in {"dbcheck", "insert", "start"} /\ slugOf[r] = req[q].slug
             => ~Live(r)
      /\ \A q \in Reqs : req[q].pc = "start" => slugOf[req[q].run] = req[q].slug

\* No task is known in the initial state.
LEMMA InitSoleInv == Init => SoleInv
<1> SUFFICES ASSUME Init PROVE SoleInv
  OBVIOUS
<1>1. Idle.pc = "idle"
  BY DEF Idle
<1>2. (\A r \in Runs : ~Live(r)) /\ \A q \in Reqs : req[q].pc = "idle"
  BY <1>1 DEF Init, Live
<1> QED
  BY <1>2 DEF SoleInv

\* Coroutines that move, or end, keep the registry of the others.
LEMMA EndTaskKeepsSole ==
    ASSUME TInv, SoleInv, NEW r \in Runs, EndTask(r), task[r] # "none",
           UNCHANGED <<slugOf, req>>
    PROVE  SoleInv'
<1>1. \A p \in Runs : Live(p)' => p # r /\ Live(p)
  <2>1. CASE task' = [task EXCEPT ![r] = "done"]
    BY <2>1 DEF TInv, TypeOK, Live
  <2>2. ASSUME NEW w \in Waiters, task' = [task EXCEPT ![r] = "done", ![w] = "granted"],
               task[r] \in Holding
        PROVE  \A p \in Runs : Live(p)' => p # r /\ Live(p)
    BY <2>2 DEF Waiters, TInv, TypeOK, Live, Holding
  <2> QED
    BY <2>1, <2>2 DEF EndTask
<1>2. \A s \in Slugs : reg'[s] = reg[s] \/ reg[s] = r
  BY DEF EndTask, TInv, TypeOK
<1>3. \A p \in Runs : slugOf[p] \in Slugs
  BY DEF TInv, TypeOK
<1> QED
  BY <1>1, <1>2, <1>3 DEF SoleInv

\* Every step keeps it while one trigger is handled at a time.
LEMMA NextSoleInv == TInv /\ RunInv /\ SoleInv /\ [Next]_vars => SoleInv'
<1> SUFFICES ASSUME TInv, RunInv, SoleInv, [Next]_vars, OneHandler PROVE SoleInv'
  BY DEF SoleInv
<1>0. /\ task \in [Runs -> TaskStates] /\ slugOf \in [Runs -> Slugs]
      /\ req \in [Reqs -> ReqStates] /\ reg \in [Slugs -> Runs \cup {NoRun}]
      /\ Idle.pc = "idle"
  BY DEF TInv, TypeOK, Idle
\* steps that leave tasks and registry alone, and no handler past its check
<1>1. ASSUME UNCHANGED <<task, reg, slugOf>>,
             \A q \in Reqs : req'[q].pc \in {"dbcheck", "insert", "start"} =>
                 /\ req[q].pc \in {"dbcheck", "insert", "start"}
                 /\ req'[q].slug = req[q].slug
                 /\ req'[q].pc = "start" => req'[q] = req[q]
      PROVE  SoleInv'
  BY <1>0, <1>1 DEF SoleInv, Live
<1>2. ASSUME NEW s \in Slugs, CreateNotebook(s) \/ DeleteNotebook(s)
      PROVE  SoleInv'
  BY <1>1, <1>2 DEF CreateNotebook, DeleteNotebook, taskVars
<1>3. ASSUME NEW q \in Reqs, ReqStep(q)
      PROVE  SoleInv'
  <2>0. /\ \A o \in Reqs : o = q
        /\ req[q].slug \in Slugs
    BY <1>0 DEF OneHandler, ReqStates
  <2>1. CASE TrigLookup(q)
    <3>1. UNCHANGED <<task, reg, slugOf>>
      BY <2>1 DEF TrigLookup, dbVars, taskVars
    <3>2. req'[q].pc \in {"idle", "check"}
      BY <1>0, <2>1 DEF TrigLookup, Goto, Answer, ReqStates
    <3> QED
      BY <1>1, <2>0, <3>1, <3>2
  <2>2. CASE TrigCheck(q)
    <3>1. CASE IsRunning(req[q].slug)
      BY <1>0, <1>1, <2>0, <2>2, <3>1 DEF TrigCheck, Answer, Idle, dbVars, taskVars
    <3>2. CASE ~IsRunning(req[q].slug)
      <4>1. req' = [req EXCEPT ![q].pc = "dbcheck"] /\ UNCHANGED <<task, reg, slugOf>>
        BY <2>2, <3>2 DEF TrigCheck, Goto, dbVars, taskVars
      <4>2. req'[q].pc = "dbcheck" /\ req'[q].slug = req[q].slug
        BY <1>0, <4>1 DEF ReqStates
      <4>3. \A r \in Runs : slugOf[r] = req[q].slug => ~Live(r)
        <5> SUFFICES ASSUME NEW r \in Runs, slugOf[r] = req[q].slug, Live(r)
                     PROVE  FALSE
          OBVIOUS
        <5>1. reg[req[q].slug] = r
          BY DEF SoleInv
        <5>2. r # NoRun
          BY BoundsAssumption
        <5> QED
          BY <3>2, <5>1, <5>2 DEF IsRunning, Live
      <4> QED
        BY <2>0, <4>1, <4>2, <4>3 DEF SoleInv, Live
    <3> QED
      BY <3>1, <3>2
  <2>3. CASE TrigDbCheck(q)
    <3>1. UNCHANGED <<task, reg, slugOf>>
      BY <2>3 DEF TrigDbCheck, dbVars, taskVars
    <3>2. req'[q].pc \in {"idle", "insert"} /\ (req'[q].pc = "insert" => req'[q].slug = req[q].slug)
      BY <1>0, <2>3 DEF TrigDbCheck, Goto, Answer, Idle, ReqStates
    <3>3. req[q].pc = "dbcheck"
      BY <2>3 DEF TrigDbCheck
    <3> QED
      BY <1>1, <2>0, <3>1, <3>2, <3>3
  <2>4. CASE TrigInsert(q)
    <3>1. CASE req[q].slug \in notebooks
      <4>1. PICK r \in Runs :
              /\ slugOf' = [slugOf EXCEPT ![r] = req[q].slug]
              /\ req' = [req EXCEPT ![q] =
                           [pc |-> "start", slug |-> @.slug, run |-> r]]
              /\ row[r] = "unborn"
        BY <2>4, <3>1 DEF TrigInsert
      <4>2. req'[q].pc = "start" /\ req'[q].run = r /\ req'[q].slug = req[q].slug
        BY <1>0, <4>1
      <4>3. task[r] = "none" /\ UNCHANGED <<task, reg>> /\ req[q].pc = "insert"
        BY <2>4, <4>1 DEF TrigInsert, taskVars, RunInv
      <4>4. slugOf'[r] = req[q].slug /\ \A p \in Runs : p # r => slugOf'[p] = slugOf[p]
        BY <1>0, <4>1
      <4>5. \A p \in Runs : Live(p)' => Live(p) /\ p # r
        BY <4>3 DEF Live
      <4>6. \A p \in Runs : Live(p) => reg[slugOf[p]] = p
        BY DEF SoleInv
      <4>7. \A p \in Runs : slugOf[p] = req[q].slug => ~Live(p)
        BY <4>3 DEF SoleInv
      <4>8. \A p \in Runs : Live(p)' => reg'[slugOf'[p]] = p
        BY <4>3, <4>4, <4>5, <4>6
      <4>9. \A p \in Runs : slugOf'[p] = req'[q].slug => ~Live(p)'
        BY <4>2, <4>4, <4>5, <4>7
      <4> QED
        BY <2>0, <4>2, <4>4, <4>8, <4>9 DEF SoleInv
    <3>2. CASE req[q].slug \notin notebooks
      BY <1>0, <1>1, <2>0, <2>4, <3>2 DEF TrigInsert, Answer, Idle, taskVars
    <3> QED
      BY <3>1, <3>2
  <2>5. CASE TrigStart(q)
    <3>1. PICK r \in Runs : r = req[q].run
      BY <2>5 DEF TrigStart, RunInv
    <3>2. slugOf[r] = req[q].slug
      BY <2>5, <3>1 DEF TrigStart, SoleInv
    <3>3. /\ task' = [task EXCEPT ![r] = "new"]
          /\ reg' = [reg EXCEPT ![req[q].slug] = r]
          /\ slugOf' = slugOf
          /\ req'[q].pc = "idle"
      BY <1>0, <2>5, <3>1 DEF TrigStart, Answer, Idle, dbVars
    <3>4. \A p \in Runs : p # r /\ Live(p) => slugOf[p] # req[q].slug
      BY <2>5 DEF TrigStart, SoleInv
    <3>5. \A p \in Runs : p # r => (Live(p)' <=> Live(p))
      BY <1>0, <3>3 DEF Live
    <3>6. \A p \in Runs : Live(p)' => reg'[slugOf'[p]] = p
      BY <1>0, <2>0, <3>2, <3>3, <3>4, <3>5 DEF SoleInv
    <3> QED
      BY <2>0, <3>3, <3>6 DEF SoleInv
  <2> QED
    BY <1>3, <2>1, <2>2, <2>3, <2>4, <2>5 DEF ReqStep
<1>4. ASSUME NEW r \in Runs, TaskStep(r)
      PROVE  SoleInv'
  <2>1. CASE \/ Acquire(r) \/ Granted(r) \/ Spawn(r) \/ SpawnFails(r)
             \/ Collect(r) \/ Reap(r) \/ CancelHandled(r)
    <3>1. UNCHANGED <<req, reg, slugOf>>
      BY <2>1 DEF Acquire, Granted, Spawn, SpawnFails, Collect, Reap, CancelHandled,
                  Move, dbVars
    <3>2. PICK to : task' = [task EXCEPT ![r] = to]
      BY <2>1 DEF Acquire, Granted, Spawn, SpawnFails, Collect, Reap, CancelHandled, Move
    <3>3. Live(r)
      BY <2>1 DEF Acquire, Granted, Spawn, SpawnFails, Collect, Reap, CancelHandled, At, Live
    <3>4. \A p \in Runs : Live(p)' => Live(p)
      BY <1>0, <3>2, <3>3 DEF Live
    <3> QED
      BY <3>1, <3>4 DEF SoleInv
  <2>2. CASE ~(\/ Acquire(r) \/ Granted(r) \/ Spawn(r) \/ SpawnFails(r)
               \/ Collect(r) \/ Reap(r) \/ CancelHandled(r))
    <3>1. UNCHANGED <<slugOf, req>>
      BY <1>4, <2>2 DEF TaskStep, Settle, CallbackDone, WriteSpawnFailure, WriteCancelled,
                        WriteFails, CancelEnds, CancelDuringWrite, dbVars
    <3>2. task[r] # "none"
      BY <1>4, <2>2 DEF TaskStep, Settle, CallbackDone, WriteSpawnFailure, WriteCancelled,
                        WriteFails, CancelEnds, CancelDuringWrite, At
    <3>3. CASE EndTask(r)
      BY <3>1, <3>2, <3>3, EndTaskKeepsSole
    <3>4. CASE task[r] = "settle" /\ Move(r, "callback")
      <4>1. task' = [task EXCEPT ![r] = "callback"] /\ reg' = reg
        BY <3>4 DEF Move
      <4>2. \A p \in Runs : Live(p)' => Live(p)
        BY <1>0, <3>4, <4>1 DEF Live
      <4> QED
        BY <3>1, <4>1, <4>2 DEF SoleInv
    <3> QED
      BY <1>4, <2>2, <3>3, <3>4
      DEF TaskStep, Settle, CallbackDone, WriteSpawnFailure, WriteCancelled,
          WriteFails, CancelEnds, CancelDuringWrite, At
  <2> QED
    BY <2>1, <2>2
<1>5. ASSUME NEW r \in Runs, ProcExit(r) \/ AgeRow(r)
      PROVE  SoleInv'
  BY <1>1, <1>5 DEF ProcExit, AgeRow, dbVars, taskVars
<1>6. CASE Start \/ Shutdown \/ DrainTimeout \/ Drained
  BY <1>1, <1>6 DEF Start, Shutdown, DrainTimeout, Drained, taskVars, dbVars
<1>7. CASE Exit \/ Crash
  <2>1. (\A r \in Runs : ~Live(r)') /\ \A q \in Reqs : req'[q].pc = "idle"
    BY <1>0, <1>7 DEF Exit, Crash, Forget, Live
  <2> QED
    BY <2>1 DEF SoleInv
<1>8. ASSUME NEW q \in Reqs, NEW s \in Slugs, TrigArrive(q, s)
      PROVE  SoleInv'
  <2>1. \A o \in Reqs : req'[o].pc = "lookup" \/ req'[o] = req[o]
    BY <1>0, <1>8 DEF TrigArrive
  <2> QED
    BY <1>1, <1>8, <2>1 DEF TrigArrive, dbVars, taskVars
<1>9. CASE UNCHANGED vars
  BY <1>1, <1>9 DEF vars
<1> QED
  BY <1>2, <1>3, <1>4, <1>5, <1>6, <1>7, <1>8, <1>9 DEF Next

\* One ingest per notebook, as long as triggers are handled one at a time.
THEOREM OnePerSlugHolds == Spec => [](OneHandler => OnePerSlug)
<1>1. SoleInv => (OneHandler => OnePerSlug)
  BY DEF SoleInv, OnePerSlug
<1> QED
  BY <1>1, InitTInv, NextTInv, InitRunInv, NextRunInv, InitSoleInv, NextSoleInv, PTL
  DEF Spec

-----------------------------------------------------------------------------
(***************************************************************************)
(* Tiers 1 and 2.  HitAnswers speaks of replies and mirrors; to be         *)
(* inductive it needs the rows, the ring and what the calls have in hand:  *)
(* an entry is moved from one to another several awaits later.             *)
(***************************************************************************)
\* An entry with its times, and a call with its locals.
TierEntries == [key : Rankings, got : Rankings, since : Nat, exp : Nat]
TierCalls ==
    [pc : Steps \ {"reply"}, gen : Gens, text : Texts, k : Widths,
     version : {Notebook} \cup Salts, by : Embedders, encoded : BOOLEAN,
     entry : {Unkept} \cup TierEntries, age : Int]

\* Entries that are what their key says and expire within their tier's lifetime.
Honest(ttl) ==
    {e \in TierEntries :
        /\ e.got.text = e.key.text /\ e.got.k = e.key.k
        /\ e.got.version = e.key.version /\ e.got.by = e.key.by
        /\ e.exp <= e.since + ttl}

\* What a call is about to serve or to keep is honest; once it has encoded it goes
\* by the embedder that ranked.
CallHonest(l) ==
    /\ l \in TierCalls
    /\ l.encoded \/ l.pc \in {"near", "rank"} => l.by = "local"
    /\ l.pc = "fill" =>
         /\ l.entry \in Honest(TtlExact)
         /\ l.entry.key.text = l.text /\ l.entry.key.k = l.k
         /\ l.entry.key.version = l.version /\ l.entry.key.by = l.by
         /\ l.age <= TtlExact
    /\ l.pc \in {"keep", "reflect", "recall"} => l.entry \in Honest(TtlExact)

\* What HitAnswers asks of a reply.
Answers(l) ==
    l.tier # "none" =>
      /\ l.got.version = l.ask.version /\ l.got.by = l.ask.by
      /\ l.tier = "exact" =>
           l.got.text = l.ask.text /\ l.got.k = l.ask.k /\ l.age <= TtlExact
      /\ l.tier = "near" =>
           /\ \E i \in DOMAIN Closest[l.ask.text] :
                 l.got.text = Closest[l.ask.text][i]
           /\ l.got.k >= l.ask.k /\ l.age <= TtlNear

CallOK(l) == l = Resting \/ (l.pc = "reply" /\ Answers(l)) \/ CallHonest(l)

\* A cache that is or will be bound has been opened, for a version.
OpenedOK ==
    /\ clock \in Nat /\ gens \in 0 .. MaxGens
    /\ salt \in [Gens -> {NoSalt} \cup Salts]
    /\ current # NoGen => current \in Gens /\ salt[current] \in Salts
    /\ opening # NoGen => opening \in Gens /\ salt[opening] \in Salts

KeptOK ==
    /\ table \subseteq Honest(TtlExact) /\ IsFiniteSet(table)
    /\ mirror \in [Gens -> Seq(Honest(TtlExact))]
    /\ ring \in [Gens -> Seq(Honest(TtlNear))]

TierInv == OpenedOK /\ KeptOK /\ \A a \in Askers : CallOK(asker[a])

\* Sequences of anything stay so when an element is taken out, when the oldest
\* are dropped, and when some of them are kept.
LEMMA WithoutTyped ==
    ASSUME NEW S, NEW s \in Seq(S), NEW here \in SUBSET (DOMAIN s)
    PROVE  Without(s, here) \in Seq(S)
<1>1. CASE here = {}
  BY <1>1 DEF Without
<1>2. CASE here # {}
  <2> DEFINE i == CHOOSE i \in here : TRUE
             front == SubSeq(s, 1, i - 1)
             back == SubSeq(s, i + 1, Len(s))
  <2>1. i \in here
    BY <1>2
  <2>2. i \in 1 .. Len(s) /\ Len(s) \in Nat /\ \A j \in 1 .. Len(s) : s[j] \in S
    BY <2>1
  <2>3. Without(s, here) = front \o back
    BY <1>2 DEF Without, RemoveAt
  <2> HIDE DEF i
  <2>4. \A j \in 1 .. (i - 1) : s[j] \in S
    BY <2>2
  <2>5. \A j \in (i + 1) .. Len(s) : s[j] \in S
    BY <2>2
  <2>6. front \in Seq(S)
    BY <2>2, <2>4, SubSeqProperties
  <2>7. back \in Seq(S)
    BY <2>2, <2>5, SubSeqProperties
  <2> HIDE DEF front, back
  <2>8. front \o back \in Seq(S)
    BY <2>6, <2>7
  <2> QED
    BY <2>3, <2>8
<1> QED
  BY <1>1, <1>2

LEMMA NewestTyped ==
    ASSUME NEW S, NEW s \in Seq(S), NEW n \in Nat
    PROVE  Newest(s, n) \in Seq(S)
<1> DEFINE m == IF Len(s) > n THEN Len(s) - n + 1 ELSE 1
<1>1. m \in Int /\ Len(s) \in Int /\ \A j \in m .. Len(s) : s[j] \in S
  OBVIOUS
<1>2. Newest(s, n) = SubSeq(s, m, Len(s))
  BY DEF Newest
<1> HIDE DEF m
<1> QED
  BY <1>1, <1>2, SubSeqProperties

LEMMA LeftTyped ==
    ASSUME NEW S, NEW s \in Seq(S), NEW places \in SUBSET (DOMAIN s),
           NEW left \in Left(s, places)
    PROVE  left \in Seq(S)
<1>1. IsFiniteSet(places)
  <2>1. IsFiniteSet(1 .. Len(s))
    BY FS_Interval
  <2> QED
    BY <2>1, FS_Subset
<1>2. Cardinality(places) \in Nat
  BY <1>1, FS_CardinalityType
<1> DEFINE n == Cardinality(places)
<1> HIDE DEF n
<1>3. PICK f \in [1 .. n -> places] : left = [i \in DOMAIN f |-> s[f[i]]]
  BY DEF Left, n
<1>4. left = [i \in 1 .. n |-> s[f[i]]] /\ \A i \in 1 .. n : s[f[i]] \in S
  BY <1>3
<1>5. left \in [1 .. n -> S] /\ n \in Nat
  BY <1>2, <1>4 DEF n
<1> QED
  BY <1>5

\* The rows that a new mirror takes over.
LEMMA RehydratedTyped ==
    ASSUME TierInv, NEW taken \in SUBSET table,
           NEW s \in [1 .. Cardinality(taken) -> taken]
    PROVE  s \in Seq(Honest(TtlExact))
<1>1. Cardinality(taken) \in Nat
  BY FS_Subset, FS_CardinalityType DEF TierInv, KeptOK
<1>2. taken \subseteq Honest(TtlExact)
  BY DEF TierInv, KeptOK
<1> QED
  BY <1>1, <1>2

\* A call that goes to a place in order leaves every call in order: a reply that
\* has been seen is gone.
LEMMA GoesKeeps ==
    ASSUME TierInv, NEW a \in Askers, NEW l, CallOK(l), Goes(a, l)
    PROVE  \A b \in Askers : CallOK(asker'[b])
<1>1. \A b \in Askers : CallOK(asker[b]) /\ CallOK(Resting)
  BY DEF TierInv, CallOK
<1>2. \A b \in Askers : CallOK(Seen(b))
  BY <1>1 DEF Seen
<1> QED
  BY <1>2 DEF Goes

LEMMA SeenKeeps ==
    ASSUME TierInv, AllSeen
    PROVE  \A b \in Askers : CallOK(asker'[b])
<1>1. \A b \in Askers : CallOK(asker[b]) /\ CallOK(Resting)
  BY DEF TierInv, CallOK
<1>2. \A b \in Askers : CallOK(Seen(b))
  BY <1>1 DEF Seen
<1> QED
  BY <1>2 DEF AllSeen

\* What a call underway has in hand.
LEMMA AtWork ==
    ASSUME TierInv, NEW a \in Askers, NEW here \in Steps \ {"reply"}, Now(a, here)
    PROVE  CallHonest(asker[a]) /\ KeyOf(asker[a]) \in Rankings
<1>1. asker[a].pc = here /\ here # "reply" /\ here # "idle"
  BY DEF Now, Steps
<1>2. Resting.pc = "idle"
  BY DEF Resting
<1>3. CallHonest(asker[a])
  BY <1>1, <1>2 DEF TierInv, CallOK
<1> QED
  BY <1>3 DEF CallHonest, TierCalls, KeyOf, Rankings

\* An entry made now from a ranking and its key.
LEMMA EntryHonest ==
    ASSUME TierInv, NEW k \in Rankings, NEW got \in Rankings, NEW ttl \in Nat,
           got.text = k.text, got.k = k.k, got.version = k.version, got.by = k.by
    PROVE  Entry(k, got, ttl) \in Honest(ttl)
<1>1. clock \in Nat /\ clock + ttl \in Nat
  BY DEF TierInv, OpenedOK
<1>2. Entry(k, got, ttl) \in TierEntries
  BY <1>1 DEF Entry, TierEntries
<1> QED
  BY <1>1, <1>2 DEF Entry, Honest

\* An honest entry that lives is no older than its tier allows.
LEMMA YoungEnough ==
    ASSUME TierInv, NEW ttl \in Nat, NEW e \in Honest(ttl), Alive(e)
    PROVE  clock - e.since \in Int /\ clock - e.since <= ttl
  BY DEF TierInv, OpenedOK, Honest, TierEntries, Alive

\* Steps that touch none of the caches' settings.
LEMMA OpenedStays ==
    ASSUME TierInv, UNCHANGED <<clock, bindingVars>>
    PROVE  OpenedOK'
  BY DEF TierInv, OpenedOK, bindingVars

-----------------------------------------------------------------------------
LEMMA TierInvInit == TiersInit => TierInv
<1> SUFFICES ASSUME TiersInit PROVE TierInv
  OBVIOUS
<1>1. OpenedOK
  BY TiersAssumption DEF TiersInit, OpenedOK, NoGen
<1>2. KeptOK
  <2>1. IsFiniteSet(table) /\ table = {}
    BY FS_EmptySet DEF TiersInit
  <2> QED
    BY <2>1 DEF TiersInit, KeptOK, NoTiers
<1>3. \A a \in Askers : CallOK(asker[a])
  BY DEF TiersInit, CallOK
<1> QED
  BY <1>1, <1>2, <1>3 DEF TierInv

\* Starts, rebinds and the end of a process.
LEMMA OpenTiersKeeps ==
    ASSUME TierInv, NEW v \in Salts,
           OpenTiers(v) \/ \E p \in Providers : StartTiers(p, v)
    PROVE  TierInv'
<1> DEFINE g == gens + 1
<1>1. g \in Gens /\ gens' = g /\ salt' = [salt EXCEPT ![g] = v]
      /\ clock' = clock /\ AllSeen /\ ring' = ring
  BY TiersAssumption DEF OpenTiers, StartTiers, Opened, TierInv, OpenedOK, Gens
<1>2. /\ \/ current' = current /\ opening' = g
         \/ current' = g /\ opening' = opening
  BY DEF OpenTiers, StartTiers
<1> HIDE DEF g
<1>3. gens' \in 0 .. MaxGens
  BY <1>1 DEF Gens, TierInv, OpenedOK
<1>4. OpenedOK'
  BY <1>1, <1>2, <1>3 DEF OpenedOK, TierInv
<1>5. \E s \in Rehydrated(v) : mirror' = [mirror EXCEPT ![g] = s]
  BY DEF OpenTiers, StartTiers, g
<1>6. PICK s \in Rehydrated(v) : mirror' = [mirror EXCEPT ![g] = s]
  BY <1>5
<1>7. s \in Seq(Honest(TtlExact))
  <2> DEFINE taken == {r \in table : r.key.version = v /\ Alive(r)}
  <2>1. s \in [1 .. Cardinality(taken) -> taken] /\ taken \in SUBSET table
    BY DEF Rehydrated
  <2> HIDE DEF taken
  <2> QED
    BY <2>1, RehydratedTyped
<1>8. table' \subseteq table /\ IsFiniteSet(table')
  <2>1. table' \subseteq table
    BY DEF OpenTiers, StartTiers
  <2> QED
    BY <2>1, FS_Subset DEF TierInv, KeptOK
<1>9. KeptOK'
  BY <1>1, <1>6, <1>7, <1>8 DEF KeptOK, TierInv
<1> QED
  BY <1>1, <1>4, <1>9, SeenKeeps DEF TierInv

LEMMA BindTiersKeeps ==
    ASSUME TierInv, Die \/ Publish \/ (\E g \in Gens : CloseTiers(g))
                    \/ ClearNear \/ TimePasses
    PROVE  TierInv'
<1>1. CASE Die
  <2>1. OpenedOK'
    BY <1>1 DEF Die, OpenedOK, TierInv
  <2>2. KeptOK'
    BY <1>1 DEF Die, KeptOK, TierInv, NoTiers
  <2>3. \A a \in Askers : CallOK(asker'[a])
    BY <1>1 DEF Die, CallOK
  <2> QED
    BY <2>1, <2>2, <2>3 DEF TierInv
<1>2. CASE Publish
  <2>1. OpenedOK' /\ KeptOK' /\ AllSeen
    BY <1>2 DEF Publish, OpenedOK, KeptOK, TierInv, tierVars
  <2> QED
    BY <2>1, SeenKeeps DEF TierInv
<1>3. CASE \E g \in Gens : CloseTiers(g)
  <2>1. OpenedOK' /\ KeptOK' /\ AllSeen
    BY <1>3 DEF CloseTiers, OpenedOK, KeptOK, TierInv, tierVars
  <2> QED
    BY <2>1, SeenKeeps DEF TierInv
<1>4. CASE ClearNear
  <2>1. OpenedOK' /\ AllSeen
    BY <1>4, OpenedStays DEF ClearNear
  <2>2. /\ ring' = [ring EXCEPT ![current] = <<>>]
        /\ table' = table /\ mirror' = mirror
    BY <1>4 DEF ClearNear
  <2>3. <<>> \in Seq(Honest(TtlNear))
    OBVIOUS
  <2>4. KeptOK'
    BY <2>2, <2>3 DEF KeptOK, TierInv
  <2> QED
    BY <2>1, <2>4, SeenKeeps DEF TierInv
<1>5. CASE TimePasses
  <2>1. OpenedOK' /\ KeptOK' /\ AllSeen
    BY <1>5 DEF TimePasses, OpenedOK, KeptOK, TierInv, tierVars, bindingVars
  <2> QED
    BY <2>1, SeenKeeps DEF TierInv
<1> QED
  BY <1>1, <1>2, <1>3, <1>4, <1>5

-----------------------------------------------------------------------------
\* A call asks for what it is asked, by the embedder that is configured.
LEMMA QueryKeeps ==
    ASSUME TierInv, NEW a \in Askers, NEW q \in Questions, Query(a, q)
    PROVE  TierInv'
<1> DEFINE version == IF q.book THEN Notebook ELSE salt[current]
           by == Identity(provider, FALSE)
           l == [pc |-> "probe", gen |-> current, text |-> q.text, k |-> q.k,
                 version |-> version, by |-> by, encoded |-> FALSE,
                 entry |-> Unkept, age |-> 0]
<1>1. /\ q.text \in Texts /\ q.k \in Widths
      /\ current \in Gens /\ salt[current] \in Salts
  BY TiersAssumption DEF Query, TierInv, OpenedOK
<1>2. by \in Embedders /\ version \in {Notebook} \cup Salts
  BY <1>1 DEF Identity, Embedders
<1>3. l \in TierCalls
  <2> HIDE DEF version, by
  <2> QED
    BY <1>1, <1>2 DEF TierCalls, Steps
<1>4. CallOK(l)
  BY <1>3 DEF CallOK, CallHonest
<1>5. Goes(a, l) /\ UNCHANGED <<table, tierVars, bindingVars, clock>>
  BY DEF Query
<1> HIDE DEF l
<1>6. KeptOK'
  BY <1>5 DEF KeptOK, TierInv, tierVars
<1> QED
  BY <1>4, <1>5, <1>6, GoesKeeps, OpenedStays DEF TierInv

\* Onward leads a call that missed tier 1 to its neighbours, or to probe again
\* under the embedder that it turned out to use: the local one, whether the
\* provider is local or a hosted one that failed.
LEMMA OnwardOK ==
    ASSUME NEW l, CallHonest(l)
    PROVE  CallOK(Onward(l))
<1>0. l \in TierCalls
  BY DEF CallHonest
<1>1. CASE l.encoded
  <2> DEFINE m == [l EXCEPT !.pc = "near"]
  <2>1. m \in TierCalls /\ m.pc = "near" /\ m.by = l.by
    BY <1>0 DEF TierCalls, Steps
  <2>2. l.by = "local"
    BY <1>1 DEF CallHonest
  <2>3. Onward(l) = m
    BY <1>1 DEF Onward
  <2> HIDE DEF m
  <2> QED
    BY <2>1, <2>2, <2>3 DEF CallOK, CallHonest
<1>2. CASE ~l.encoded
  <2> DEFINE by == Identity(provider, provider # "local")
             m == [l EXCEPT !.pc = "probe", !.encoded = TRUE, !.by = by]
  <2>1. by = "local" /\ by \in Embedders
    BY DEF Identity, Embedders
  <2>2. Onward(l) = m
    BY <1>2 DEF Onward
  <2> HIDE DEF by
  <2>3. m \in TierCalls /\ m.pc = "probe" /\ m.by = by
    BY <1>0, <2>1 DEF TierCalls, Steps
  <2> HIDE DEF m
  <2> QED
    BY <2>1, <2>2, <2>3 DEF CallOK, CallHonest
<1> QED
  BY <1>1, <1>2

\* An honest entry kept under what a call asks answers it on the first tier.
LEMMA ExactOK ==
    ASSUME NEW l \in TierCalls, NEW e \in Honest(TtlExact), NEW age,
           e.key.text = l.text, e.key.k = l.k, e.key.version = l.version,
           e.key.by = l.by, age <= TtlExact
    PROVE  CallOK(Served(l, "exact", e, age))
<1> DEFINE s == Served(l, "exact", e, age)
<1>1. /\ s.pc = "reply" /\ s.tier = "exact" /\ s.got = e.got /\ s.age = age
      /\ s.ask.text = l.text /\ s.ask.k = l.k /\ s.ask.version = l.version
      /\ s.ask.by = l.by
  BY DEF Served, KeyOf
<1> HIDE DEF s
<1>2. Answers(s)
  BY <1>1 DEF Answers, Honest
<1> QED
  BY <1>1, <1>2 DEF CallOK, s

\* The mirror is probed.
LEMMA ProbeKeeps ==
    ASSUME TierInv, NEW a \in Askers, ProbeMirror(a)
    PROVE  TierInv'
<1> DEFINE l == asker[a]
           s == mirror[l.gen]
           here == Places(s, KeyOf(l))
<1>0. CallHonest(l) /\ l \in TierCalls /\ l.pc = "probe"
  BY AtWork DEF ProbeMirror, Now, Steps, CallHonest
<1>1. l.gen \in Gens /\ s \in Seq(Honest(TtlExact)) /\ here \in SUBSET (DOMAIN s)
  BY <1>0 DEF TierCalls, TierInv, KeptOK, Places
<1>2. UNCHANGED <<table, ring, index, bindingVars, clock, asks>>
  BY DEF ProbeMirror
<1>3. Without(s, here) \in Seq(Honest(TtlExact))
  BY <1>1, WithoutTyped
<1>4. ASSUME NEW new \in Seq(Honest(TtlExact)), mirror' = [mirror EXCEPT ![l.gen] = new]
      PROVE  KeptOK' /\ OpenedOK'
  BY <1>1, <1>2, <1>4, OpenedStays DEF KeptOK, TierInv
<1>5. ASSUME NEW i \in here, Alive(s[i]),
             mirror' = [mirror EXCEPT ![l.gen] = Append(Without(s, here), s[i])],
             Goes(a, Served(l, "exact", s[i], clock - s[i].since))
      PROVE  TierInv'
  <2> DEFINE e == s[i]
  <2>1. e \in Honest(TtlExact) /\ e.key = KeyOf(l)
    BY <1>1 DEF Places
  <2>2. e.key.text = l.text /\ e.key.k = l.k /\ e.key.version = l.version
        /\ e.key.by = l.by
    BY <2>1 DEF KeyOf
  <2>3. clock - e.since <= TtlExact
    BY <1>5, <2>1, YoungEnough, TiersAssumption
  <2> HIDE DEF e
  <2>4. CallOK(Served(l, "exact", e, clock - e.since))
    BY <1>0, <2>1, <2>2, <2>3, ExactOK
  <2>5. \A b \in Askers : CallOK(asker'[b])
    BY <1>5, <2>4, GoesKeeps DEF e
  <2>6. Append(Without(s, here), e) \in Seq(Honest(TtlExact))
    BY <1>3, <2>1
  <2>7. KeptOK' /\ OpenedOK'
    BY <1>4, <1>5, <2>6 DEF e
  <2> QED
    BY <2>5, <2>7 DEF TierInv
<1>6. ASSUME mirror' = [mirror EXCEPT ![l.gen] = Without(s, here)],
             Goes(a, [l EXCEPT !.pc = "row"])
      PROVE  TierInv'
  <2> DEFINE m == [l EXCEPT !.pc = "row"]
  <2>1. m \in TierCalls /\ m.pc = "row" /\ m.by = l.by /\ m.encoded = l.encoded
    BY <1>0 DEF TierCalls, Steps
  <2> HIDE DEF m
  <2>2. CallOK(m)
    BY <1>0, <2>1 DEF CallOK, CallHonest
  <2>3. \A b \in Askers : CallOK(asker'[b])
    BY <1>6, <2>2, GoesKeeps DEF m
  <2>4. KeptOK' /\ OpenedOK'
    BY <1>3, <1>4, <1>6
  <2> QED
    BY <2>3, <2>4 DEF TierInv
<1> QED
  BY <1>5, <1>6 DEF ProbeMirror

\* The file is read.
LEMMA ReadKeeps ==
    ASSUME TierInv, NEW a \in Askers, ReadRow(a)
    PROVE  TierInv'
<1> DEFINE l == asker[a]
<1>0. CallHonest(l) /\ l \in TierCalls /\ l.pc = "row"
  BY AtWork DEF ReadRow, Now, Steps, CallHonest
<1>1. UNCHANGED <<tierVars, bindingVars, clock, asks>> /\ table' \subseteq table
  BY DEF ReadRow
<1>2. IsFiniteSet(table')
  BY <1>1, FS_Subset DEF TierInv, KeptOK
<1>3. KeptOK' /\ OpenedOK'
  BY <1>1, <1>2, OpenedStays DEF KeptOK, TierInv, tierVars
<1>4. ASSUME NEW r \in table, r.key = KeyOf(l), Alive(r),
             Goes(a, [l EXCEPT !.pc = "fill", !.entry = r, !.age = clock - r.since])
      PROVE  TierInv'
  <2> DEFINE age == clock - r.since
  <2>1. r \in Honest(TtlExact) /\ r \in TierEntries
    BY DEF TierInv, KeptOK, Honest
  <2>2. r.key.text = l.text /\ r.key.k = l.k /\ r.key.version = l.version
        /\ r.key.by = l.by
    BY <1>4 DEF KeyOf
  <2>3. age \in Int /\ age <= TtlExact
    BY <1>4, <2>1, YoungEnough, TiersAssumption
  <2> DEFINE m == [l EXCEPT !.pc = "fill", !.entry = r, !.age = age]
  <2>4. Goes(a, m)
    BY <1>4
  <2> HIDE DEF age
  <2>5. /\ m \in TierCalls /\ m.pc = "fill" /\ m.by = l.by /\ m.encoded = l.encoded
        /\ m.text = l.text /\ m.k = l.k /\ m.version = l.version
        /\ m.entry = r /\ m.age = age
    BY <1>0, <2>1, <2>3 DEF TierCalls, Steps
  <2> HIDE DEF m
  <2>6. CallOK(m)
    BY <1>0, <2>1, <2>2, <2>3, <2>5 DEF CallOK, CallHonest
  <2> QED
    BY <1>3, <2>4, <2>6, GoesKeeps DEF TierInv
<1>5. ASSUME Goes(a, Onward(l)) PROVE TierInv'
  BY <1>0, <1>3, <1>5, OnwardOK, GoesKeeps DEF TierInv
<1> QED
  BY <1>4, <1>5 DEF ReadRow

\* The row that was read goes into the mirror with the expiry it has.
LEMMA FillKeeps ==
    ASSUME TierInv, NEW a \in Askers, FillMirror(a)
    PROVE  TierInv'
<1> DEFINE l == asker[a]
           s == mirror[l.gen]
           here == Places(s, KeyOf(l))
<1>0. CallHonest(l) /\ l \in TierCalls /\ l.pc = "fill"
  BY AtWork DEF FillMirror, Now, Steps, CallHonest
<1>1. l.gen \in Gens /\ s \in Seq(Honest(TtlExact)) /\ here \in SUBSET (DOMAIN s)
  BY <1>0 DEF TierCalls, TierInv, KeptOK, Places
<1>2. /\ UNCHANGED <<table, ring, index, bindingVars, clock, asks>>
      /\ mirror' = [mirror EXCEPT ![l.gen] = Append(Without(s, here), l.entry)]
      /\ Goes(a, Served(l, "exact", l.entry, l.age))
  BY <1>1 DEF FillMirror, TierInv, KeptOK
<1>3. l.entry \in Honest(TtlExact)
  BY <1>0 DEF CallHonest
<1>4. Append(Without(s, here), l.entry) \in Seq(Honest(TtlExact))
  <2> DEFINE w == Without(s, here)
  <2>1. w \in Seq(Honest(TtlExact))
    BY <1>1, WithoutTyped
  <2> HIDE DEF w
  <2>2. Append(w, l.entry) \in Seq(Honest(TtlExact))
    BY <1>3, <2>1
  <2> QED
    BY <2>2 DEF w
<1>5. CallOK(Served(l, "exact", l.entry, l.age))
  BY <1>0, ExactOK DEF CallHonest
<1>6. KeptOK' /\ OpenedOK'
  BY <1>1, <1>2, <1>4, OpenedStays DEF KeptOK, TierInv
<1> QED
  BY <1>2, <1>5, <1>6, GoesKeeps DEF TierInv

\* The neighbours are searched: a slot found under a near text, and that fits,
\* answers with its entry.
LEMMA SearchNearKeeps ==
    ASSUME TierInv, NEW a \in Askers, SearchNear(a)
    PROVE  TierInv'
<1> DEFINE l == asker[a]
           s == ring[l.gen]
           fit(n) == {i \in SlotsOf(s, Closest[l.text][n]) : Fits(s[i], l)}
<1>0. CallHonest(l) /\ l \in TierCalls /\ l.pc = "near"
  BY AtWork DEF SearchNear, Now, Steps, CallHonest
<1>1. l.gen \in Gens /\ s \in Seq(Honest(TtlNear))
  BY <1>0 DEF TierCalls, TierInv, KeptOK
<1>2. UNCHANGED <<table, mirror, index, bindingVars, clock, asks>>
  BY DEF SearchNear
<1>3. KeptOK' /\ OpenedOK'
  <2>1. PICK dead : \E left \in Left(s, DOMAIN s \ dead) :
                       ring' = [ring EXCEPT ![l.gen] = left]
    BY DEF SearchNear
  <2>2. PICK left \in Left(s, DOMAIN s \ dead) : ring' = [ring EXCEPT ![l.gen] = left]
    BY <2>1
  <2>3. left \in Seq(Honest(TtlNear))
    BY <1>1, LeftTyped
  <2> QED
    BY <1>1, <1>2, <2>2, <2>3, OpenedStays DEF KeptOK, TierInv
<1>4. ASSUME Goes(a, [l EXCEPT !.pc = "rank"]) PROVE TierInv'
  <2> DEFINE m == [l EXCEPT !.pc = "rank"]
  <2>1. m \in TierCalls /\ m.pc = "rank" /\ m.by = l.by
    BY <1>0 DEF TierCalls, Steps
  <2> HIDE DEF m
  <2>2. CallOK(m)
    BY <1>0, <2>1 DEF CallOK, CallHonest
  <2> QED
    BY <1>3, <1>4, <2>2, GoesKeeps DEF TierInv, m
<1>5. ASSUME NEW n \in Neighbours(l), NEW i \in fit(n), Alive(s[i]),
             Goes(a, Served(l, "near", s[i], clock - s[i].since))
      PROVE  TierInv'
  <2> DEFINE e == s[i]
             r == Served(l, "near", e, clock - e.since)
  <2>1. /\ e \in Honest(TtlNear) /\ e.key.text = Closest[l.text][n] /\ Fits(e, l)
        /\ n \in DOMAIN Closest[l.text]
    BY <1>1 DEF SlotsOf, Neighbours
  <2>2. clock - e.since <= TtlNear
    BY <1>5, <2>1, YoungEnough, TiersAssumption
  <2> HIDE DEF e
  <2>3. /\ r.pc = "reply" /\ r.tier = "near" /\ r.got = e.got
        /\ r.age = clock - e.since
        /\ r.ask.text = l.text /\ r.ask.k = l.k /\ r.ask.version = l.version
        /\ r.ask.by = l.by
    BY DEF Served, KeyOf
  <2> HIDE DEF r
  <2>4. Answers(r)
    BY <2>1, <2>2, <2>3 DEF Answers, Honest, Fits
  <2>5. CallOK(r)
    BY <2>3, <2>4 DEF CallOK
  <2> QED
    BY <1>3, <1>5, <2>5, GoesKeeps DEF TierInv, r, e
<1>6. \/ Goes(a, [l EXCEPT !.pc = "rank"])
      \/ \E n \in Neighbours(l) : \E i \in fit(n) :
            Alive(s[i]) /\ Goes(a, Served(l, "near", s[i], clock - s[i].since))
  BY DEF SearchNear
<1> QED
  BY <1>4, <1>5, <1>6

\* The ranking is made, and named after the embedder that made it.
LEMMA RankKeeps ==
    ASSUME TierInv, NEW a \in Askers, RankLocal(a)
    PROVE  TierInv'
<1> DEFINE l == asker[a]
           e == Entry(KeyOf(l), [KeyOf(l) EXCEPT !.by = "local"], TtlExact)
<1>0. /\ CallHonest(l) /\ l \in TierCalls /\ l.pc = "rank" /\ l.by = "local"
      /\ KeyOf(l) \in Rankings
  BY AtWork DEF RankLocal, Now, Steps, CallHonest
<1>1. e \in Honest(TtlExact)
  <2> DEFINE k == KeyOf(l)
             got == [k EXCEPT !.by = "local"]
  <2>1. k.by = "local" /\ k \in Rankings
    BY <1>0 DEF KeyOf
  <2> HIDE DEF k
  <2>2. /\ got \in Rankings /\ got.by = "local"
        /\ got.text = k.text /\ got.k = k.k /\ got.version = k.version
    BY <2>1 DEF Rankings, Embedders
  <2> HIDE DEF got
  <2>3. Entry(k, got, TtlExact) \in Honest(TtlExact)
    BY <2>1, <2>2, EntryHonest, TiersAssumption
  <2> QED
    BY <2>3 DEF k, got
<1>2. UNCHANGED <<table, tierVars, bindingVars, clock, asks>>
      /\ Goes(a, [l EXCEPT !.pc = "keep", !.entry = e])
  BY DEF RankLocal
<1> DEFINE m == [l EXCEPT !.pc = "keep", !.entry = e]
<1> HIDE DEF e
<1>3. m \in TierCalls /\ m.pc = "keep" /\ m.by = "local" /\ m.entry = e
  <2>1. e \in TierEntries
    BY <1>1 DEF Honest
  <2> QED
    BY <1>0, <2>1 DEF TierCalls, Steps
<1> HIDE DEF m
<1>4. CallOK(m)
  BY <1>1, <1>3 DEF CallOK, CallHonest
<1>5. KeptOK' /\ OpenedOK'
  BY <1>2, OpenedStays DEF KeptOK, TierInv, tierVars
<1> QED
  BY <1>2, <1>4, <1>5, GoesKeeps DEF TierInv, m

\* A call that keeps what it has in hand, at its next step.
LEMMA CarriesOn ==
    ASSUME NEW l \in TierCalls, CallHonest(l), l.pc \in {"keep", "reflect", "recall"},
           NEW next \in {"reflect", "recall"}
    PROVE  CallOK([l EXCEPT !.pc = next])
<1> DEFINE m == [l EXCEPT !.pc = next]
<1>1. /\ m \in TierCalls /\ m.pc = next /\ m.by = l.by /\ m.encoded = l.encoded
      /\ m.entry = l.entry
  BY DEF TierCalls, Steps
<1> HIDE DEF m
<1>2. CallHonest(m)
  BY <1>1 DEF CallHonest
<1> QED
  BY <1>2 DEF CallOK, m

\* The row is written, and others may be evicted for it.
LEMMA KeepRowKeeps ==
    ASSUME TierInv, NEW a \in Askers, KeepRow(a)
    PROVE  TierInv'
<1> DEFINE l == asker[a]
           put == {r \in table : r.key # l.entry.key} \cup {l.entry}
<1>0. CallHonest(l) /\ l \in TierCalls /\ l.pc = "keep"
  BY AtWork DEF KeepRow, Now, Steps, CallHonest
<1>1. l.entry \in Honest(TtlExact)
  BY <1>0 DEF CallHonest
<1>2. put \subseteq Honest(TtlExact) /\ IsFiniteSet(put)
  <2>1. IsFiniteSet({r \in table : r.key # l.entry.key})
    BY FS_Subset DEF TierInv, KeptOK
  <2> QED
    BY <1>1, <2>1, FS_AddElement DEF TierInv, KeptOK
<1>3. table' = table \/ \E gone \in SUBSET put : table' = put \ gone
  BY DEF KeepRow
<1> HIDE DEF put
<1>4. table' \subseteq Honest(TtlExact) /\ IsFiniteSet(table')
  BY <1>2, <1>3, FS_Subset DEF TierInv, KeptOK
<1>5. UNCHANGED <<tierVars, bindingVars, clock, asks>>
      /\ \E next \in {"reflect", "recall"} : Goes(a, [l EXCEPT !.pc = next])
  BY DEF KeepRow
<1>6. KeptOK' /\ OpenedOK'
  BY <1>4, <1>5, OpenedStays DEF KeptOK, TierInv, tierVars
<1>7. PICK next \in {"reflect", "recall"} : Goes(a, [l EXCEPT !.pc = next])
  BY <1>5
<1>8. CallOK([l EXCEPT !.pc = next])
  BY <1>0, CarriesOn
<1> QED
  BY <1>6, <1>7, <1>8, GoesKeeps DEF TierInv

\* The mirror takes it in, and drops its oldest beyond the cap.
LEMMA ReflectKeeps ==
    ASSUME TierInv, NEW a \in Askers, ReflectRow(a)
    PROVE  TierInv'
<1> DEFINE l == asker[a]
           s == mirror[l.gen]
           w == Without(s, Places(s, l.entry.key))
           new == Newest(Append(w, l.entry), Cap)
<1>0. CallHonest(l) /\ l \in TierCalls /\ l.pc = "reflect"
  BY AtWork DEF ReflectRow, Now, Steps, CallHonest
<1>1. l.gen \in Gens /\ s \in Seq(Honest(TtlExact)) /\ l.entry \in Honest(TtlExact)
  BY <1>0 DEF TierCalls, TierInv, KeptOK, CallHonest
<1>2. /\ UNCHANGED <<table, ring, index, bindingVars, clock, asks>>
      /\ mirror' = [mirror EXCEPT ![l.gen] = new]
      /\ Goes(a, [l EXCEPT !.pc = "recall"])
  BY <1>1 DEF ReflectRow, TierInv, KeptOK
<1>3. w \in Seq(Honest(TtlExact))
  BY <1>1, WithoutTyped DEF Places
<1> HIDE DEF w
<1>4. Append(w, l.entry) \in Seq(Honest(TtlExact))
  BY <1>1, <1>3
<1>5. new \in Seq(Honest(TtlExact))
  BY <1>4, NewestTyped, TiersAssumption
<1> HIDE DEF new
<1>6. KeptOK' /\ OpenedOK'
  BY <1>1, <1>2, <1>5, OpenedStays DEF KeptOK, TierInv
<1>7. CallOK([l EXCEPT !.pc = "recall"])
  BY <1>0, CarriesOn
<1> QED
  BY <1>2, <1>6, <1>7, GoesKeeps DEF TierInv

\* The ring takes it in under its second lifetime, counted from now.
LEMMA RecallKeeps ==
    ASSUME TierInv, NEW a \in Askers, Recall(a)
    PROVE  TierInv'
<1> DEFINE l == asker[a]
           s == ring[l.gen]
           e == Entry(l.entry.key, l.entry.got, TtlNear)
           w == Without(s, SlotsOf(s, l.text))
           new == Newest(Append(w, e), Ring)
           r == Served(l, "none", l.entry, 0)
<1>0. CallHonest(l) /\ l \in TierCalls /\ l.pc = "recall"
  BY AtWork DEF Recall, Now, Steps, CallHonest
<1>1. l.gen \in Gens /\ s \in Seq(Honest(TtlNear)) /\ l.entry \in Honest(TtlExact)
  BY <1>0 DEF TierCalls, TierInv, KeptOK, CallHonest
<1>2. /\ UNCHANGED <<table, mirror, bindingVars, clock, asks>>
      /\ ring' = [ring EXCEPT ![l.gen] = new]
      /\ Goes(a, r)
  BY DEF Recall
<1>3. w \in Seq(Honest(TtlNear))
  BY <1>1, WithoutTyped DEF SlotsOf
<1>4. e \in Honest(TtlNear)
  BY <1>1, EntryHonest, TiersAssumption DEF Honest, TierEntries
<1>5. CallOK(r)
  <2>1. r.pc = "reply" /\ r.tier = "none"
    BY DEF Served
  <2> HIDE DEF r
  <2> QED
    BY <2>1 DEF CallOK, Answers
<1> HIDE DEF w, e, r
<1>6. Append(w, e) \in Seq(Honest(TtlNear))
  BY <1>3, <1>4
<1>7. new \in Seq(Honest(TtlNear))
  BY <1>6, NewestTyped, TiersAssumption
<1> HIDE DEF new
<1>8. KeptOK' /\ OpenedOK'
  BY <1>1, <1>2, <1>7, OpenedStays DEF KeptOK, TierInv
<1> QED
  BY <1>2, <1>5, <1>8, GoesKeeps DEF TierInv

\* Every step preserves the invariant.
LEMMA TierInvStep == TierInv /\ [TiersNext]_cacheVars => TierInv'
<1> SUFFICES ASSUME TierInv, [TiersNext]_cacheVars PROVE TierInv'
  OBVIOUS
<1>1. CASE \E v \in Salts : OpenTiers(v) \/ \E p \in Providers : StartTiers(p, v)
  BY <1>1, OpenTiersKeeps
<1>2. CASE Die \/ Publish \/ (\E g \in Gens : CloseTiers(g)) \/ ClearNear \/ TimePasses
  BY <1>2, BindTiersKeeps
<1>3. ASSUME NEW a \in Askers, SearchCall(a) PROVE TierInv'
  BY <1>3, QueryKeeps, ProbeKeeps, ReadKeeps, FillKeeps, SearchNearKeeps, RankKeeps,
     KeepRowKeeps, ReflectKeeps, RecallKeeps DEF SearchCall
<1>4. CASE UNCHANGED cacheVars
  BY <1>4 DEF cacheVars, tierVars, bindingVars, TierInv, OpenedOK, KeptOK
<1> QED
  BY <1>1, <1>2, <1>3, <1>4 DEF TiersNext

\* Whatever is cached, evicted, rebound or restarted between the steps of a call,
\* what a tier serves answers it, and is no older than the tier allows.
THEOREM HitAnswersHolds == TiersSpec => []HitAnswers
<1>1. TierInv => HitAnswers
  <2> SUFFICES ASSUME TierInv PROVE HitAnswers
    OBVIOUS
  <2>1. ASSUME NEW a \in Askers, Now(a, "reply") PROVE Answers(asker[a])
    <3>1. asker[a].pc = "reply" /\ Resting.pc = "idle" /\ CallOK(asker[a])
      BY <2>1 DEF Now, Resting, TierInv
    <3>2. ~CallHonest(asker[a])
      BY <3>1 DEF CallHonest, TierCalls
    <3> QED
      BY <3>1, <3>2 DEF CallOK
  <2>2. ASSUME NEW g \in Gens, NEW i \in DOMAIN mirror[g]
        PROVE  mirror[g][i].exp <= mirror[g][i].since + TtlExact
    <3>1. mirror[g][i] \in Honest(TtlExact)
      BY DEF TierInv, KeptOK
    <3> QED
      BY <3>1 DEF Honest
  <2> QED
    BY <2>1, <2>2 DEF HitAnswers, Answers
<1> QED
  BY <1>1, TierInvInit, TierInvStep, PTL DEF TiersSpec

-----------------------------------------------------------------------------
(***************************************************************************)
(* What the tiers keep.  No key has two rows or two places in a mirror:    *)
(* that goes by the row that is read and the entry that is stored taking   *)
(* the place of what has their key, whatever other calls did between.      *)
(***************************************************************************)
KeysOnce(s) == \A i, j \in DOMAIN s : s[i].key = s[j].key => i = j
TextsIn(s) == {s[i].key.text : i \in DOMAIN s}

TableKept == (\A r, s \in table : r.key = s.key => r = s) /\ Cardinality(table) <= Cap
MirrorsKept == \A g \in Gens : KeysOnce(mirror[g])
RingsKept ==
    /\ index \in [Gens -> SUBSET Texts]
    /\ \A g \in Gens : Len(ring[g]) <= Ring /\ TextsIn(ring[g]) \subseteq index[g]
BoundsKept ==
    /\ shut \subseteq Gens /\ provider \in Providers
    /\ clock \in 0 .. MaxClock /\ asks \in 0 .. MaxAsks

TiersKept == TierInv /\ TableKept /\ MirrorsKept /\ RingsKept /\ BoundsKept

\* What is left when the place of a key is taken out.
LEMMA TakenFrom ==
    ASSUME NEW S, NEW s \in Seq(S), KeysOnce(s), NEW k
    PROVE  LET w == Without(s, Places(s, k)) IN
           w \in Seq(S) /\ KeysOnce(w) /\ \A i \in DOMAIN w : w[i].key # k
<1> DEFINE here == Places(s, k)
           w == Without(s, here)
<1>1. DOMAIN s = 1 .. Len(s) /\ Len(s) \in Nat
  OBVIOUS
<1>2. CASE here = {}
  <2>1. w = s
    BY <1>2 DEF Without
  <2> HIDE DEF w
  <2>2. w \in Seq(S) /\ KeysOnce(w) /\ \A i \in DOMAIN w : w[i].key # k
    BY <1>2, <2>1 DEF Places
  <2> QED BY <2>2 DEF w
<1>3. CASE here # {}
  <2> DEFINE p == CHOOSE i \in here : TRUE
             m(n) == IF n < p THEN n ELSE n + 1
  <2>1. p \in here
    BY <1>3
  <2>2. w = RemoveAt(s, p)
    BY <1>3 DEF Without
  <2> HIDE DEF p, w
  <2>3. p \in 1 .. Len(s) /\ p \in DOMAIN s /\ s[p].key = k
    BY <1>1, <2>1 DEF Places
  <2>4. /\ w \in Seq(S) /\ Len(w) = Len(s) - 1
        /\ \A j \in 1 .. (Len(s) - 1) : w[j] = IF j < p THEN s[j] ELSE s[j + 1]
    BY <2>2, <2>3, RemoveAtIs
  <2>5. DOMAIN w = 1 .. (Len(s) - 1)
    BY <2>4
  <2>6. \A j \in DOMAIN w : m(j) \in DOMAIN s /\ m(j) # p /\ w[j] = s[m(j)]
    BY <1>1, <2>3, <2>4, <2>5
  <2>7. \A i, j \in DOMAIN w : m(i) = m(j) => i = j
    BY <2>3, <2>5
  <2> HIDE DEF m
  <2>8. ASSUME NEW i \in DOMAIN w, NEW j \in DOMAIN w, w[i].key = w[j].key PROVE i = j
    <3>1. m(i) = m(j)
      BY <2>6, <2>8 DEF KeysOnce
    <3> QED BY <2>7, <3>1
  <2>9. \A i \in DOMAIN w : w[i].key # k
    BY <2>3, <2>6 DEF KeysOnce
  <2>10. w \in Seq(S) /\ KeysOnce(w) /\ \A i \in DOMAIN w : w[i].key # k
    BY <2>4, <2>8, <2>9 DEF KeysOnce
  <2> QED BY <2>10 DEF w
<1> QED BY <1>2, <1>3

\* What takes the place of an entry with its key, at the end.
LEMMA InItsPlace ==
    ASSUME NEW S, NEW s \in Seq(S), KeysOnce(s), NEW e \in S
    PROVE  KeysOnce(Append(Without(s, Places(s, e.key)), e))
<1> DEFINE w == Without(s, Places(s, e.key))
           r == Append(w, e)
<1>1. w \in Seq(S) /\ KeysOnce(w) /\ \A i \in DOMAIN w : w[i].key # e.key
  BY TakenFrom
<1> HIDE DEF w
<1>2. /\ DOMAIN w = 1 .. Len(w) /\ DOMAIN r = 1 .. (Len(w) + 1) /\ Len(w) \in Nat
      /\ r[Len(w) + 1] = e /\ \A j \in 1 .. Len(w) : r[j] = w[j]
  BY <1>1
<1> HIDE DEF r
<1>3. KeysOnce(r)
  <2> SUFFICES ASSUME NEW i \in DOMAIN r, NEW j \in DOMAIN r, r[i].key = r[j].key
               PROVE  i = j
    BY DEF KeysOnce
  <2>1. CASE i \in DOMAIN w /\ j \in DOMAIN w
    BY <1>1, <1>2, <2>1 DEF KeysOnce
  <2>2. CASE i \notin DOMAIN w \/ j \notin DOMAIN w
    BY <1>1, <1>2, <2>2
  <2> QED BY <2>1, <2>2
<1> QED BY <1>3 DEF r, w

\* The newest are no more than asked for, and all come from the sequence.
LEMMA NewestIs ==
    ASSUME NEW S, NEW s \in Seq(S), NEW n \in Nat
    PROVE  LET r == Newest(s, n) IN
           /\ r \in Seq(S) /\ Len(r) <= n
           /\ \A i \in DOMAIN r : \E j \in DOMAIN s : r[i] = s[j]
           /\ KeysOnce(s) => KeysOnce(r)
<1> DEFINE m == IF Len(s) > n THEN Len(s) - n + 1 ELSE 1
           r == Newest(s, n)
<1>1. /\ m \in Int /\ Len(s) \in Nat /\ Len(s) \in Int /\ DOMAIN s = 1 .. Len(s)
      /\ m >= 1 /\ m <= Len(s) + 1 /\ Len(s) - m + 1 <= n
      /\ \A j \in m .. Len(s) : s[j] \in S
  OBVIOUS
<1>2. r = SubSeq(s, m, Len(s))
  BY DEF Newest
<1> HIDE DEF m, r
<1>3. /\ r \in Seq(S)
      /\ Len(r) = IF m <= Len(s) THEN Len(s) - m + 1 ELSE 0
      /\ \A i \in 1 .. (Len(s) - m + 1) : r[i] = s[m + i - 1]
  BY <1>1, <1>2, SubSeqProperties
<1>4. Len(r) = Len(s) - m + 1 /\ DOMAIN r = 1 .. (Len(s) - m + 1)
  BY <1>1, <1>3
<1>5. ASSUME NEW i \in DOMAIN r
      PROVE  (m + i - 1) \in DOMAIN s /\ r[i] = s[m + i - 1]
  <2>1. i \in 1 .. (Len(s) - m + 1) /\ i \in Int
    BY <1>4
  <2>2. (m + i - 1) \in 1 .. Len(s)
    BY <1>1, <2>1
  <2> QED BY <1>1, <1>3, <2>1, <2>2
<1>6. ASSUME KeysOnce(s) PROVE KeysOnce(r)
  <2> SUFFICES ASSUME NEW i \in DOMAIN r, NEW j \in DOMAIN r, r[i].key = r[j].key
               PROVE  i = j
    BY DEF KeysOnce
  <2>1. m + i - 1 = m + j - 1
    BY <1>5, <1>6 DEF KeysOnce
  <2> QED BY <1>1, <1>4, <2>1
<1> QED BY <1>1, <1>3, <1>4, <1>5, <1>6 DEF r

\* What is left of a sequence is no longer, and all comes from it.
LEMMA LeftIs ==
    ASSUME NEW S, NEW s \in Seq(S), NEW places \in SUBSET (DOMAIN s),
           NEW left \in Left(s, places)
    PROVE  /\ left \in Seq(S) /\ Len(left) <= Len(s)
           /\ \A i \in DOMAIN left : \E j \in DOMAIN s : left[i] = s[j]
<1>1. IsFiniteSet(1 .. Len(s)) /\ Cardinality(1 .. Len(s)) = Len(s) /\ Len(s) \in Nat
  <2>1. Len(s) \in Nat /\ Len(s) \in Int /\ 1 \in Int
    OBVIOUS
  <2>2. (IF 1 > Len(s) THEN 0 ELSE Len(s) - 1 + 1) = Len(s)
    BY <2>1
  <2> QED BY <2>1, <2>2, FS_Interval
<1>2. places \subseteq 1 .. Len(s)
  OBVIOUS
<1>3. IsFiniteSet(places) /\ Cardinality(places) <= Cardinality(1 .. Len(s))
  BY <1>1, <1>2, FS_Subset
<1>4. Cardinality(places) \in Nat
  BY <1>3, FS_CardinalityType
<1> DEFINE n == Cardinality(places)
<1>5. n \in Nat /\ n <= Len(s)
  BY <1>1, <1>3, <1>4
<1> HIDE DEF n
<1>6. PICK f \in [1 .. n -> places] : left = [i \in DOMAIN f |-> s[f[i]]]
  BY DEF Left, n
<1>7. left \in Seq(S)
  BY LeftTyped
<1>8. DOMAIN left = 1 .. n /\ \A i \in 1 .. n : f[i] \in DOMAIN s /\ left[i] = s[f[i]]
  BY <1>6
<1>9. Len(left) = n
  BY <1>5, <1>7, <1>8
<1> QED BY <1>5, <1>7, <1>8, <1>9

\* Fewer rows, each still alone with its key.
LEMMA FewerRows ==
    ASSUME TiersKept, table' \subseteq table
    PROVE  TableKept'
<1>1. IsFiniteSet(table) /\ Cardinality(table) <= Cap /\ Cap \in Nat
  BY TiersAssumption DEF TiersKept, TierInv, KeptOK, TableKept
<1>2. IsFiniteSet(table') /\ Cardinality(table') <= Cardinality(table)
  BY <1>1, FS_Subset
<1>3. Cardinality(table') \in Nat /\ Cardinality(table) \in Nat
  BY <1>1, <1>2, FS_CardinalityType
<1>4. Cardinality(table') <= Cap
  BY <1>1, <1>2, <1>3
<1> QED BY <1>4 DEF TiersKept, TableKept

\* A mirror that is replaced by one with each key once.
LEMMA MirrorPut ==
    ASSUME TiersKept, NEW g \in Gens, NEW s, KeysOnce(s),
           mirror' = [mirror EXCEPT ![g] = s]
    PROVE  MirrorsKept'
BY DEF TiersKept, MirrorsKept, TierInv, KeptOK

\* A ring and its index that are replaced by others that fit each other.
LEMMA RingPut ==
    ASSUME TiersKept, NEW g \in Gens, NEW s, NEW x \in SUBSET Texts,
           Len(s) <= Ring, TextsIn(s) \subseteq x,
           ring' = [ring EXCEPT ![g] = s], index' = [index EXCEPT ![g] = x]
    PROVE  RingsKept'
<1>1. index' \in [Gens -> SUBSET Texts]
  BY DEF TiersKept, RingsKept
<1>2. ASSUME NEW h \in Gens PROVE Len(ring'[h]) <= Ring /\ TextsIn(ring'[h]) \subseteq index'[h]
  <2>1. CASE h = g
    BY <2>1 DEF TiersKept, RingsKept, TierInv, KeptOK
  <2>2. CASE h # g
    BY <2>2 DEF TiersKept, RingsKept, TierInv, KeptOK
  <2> QED BY <2>1, <2>2
<1> QED BY <1>1, <1>2 DEF RingsKept

LEMMA MirrorsStay == ASSUME TiersKept, UNCHANGED mirror PROVE MirrorsKept'
BY DEF TiersKept, MirrorsKept

LEMMA RingsStay == ASSUME TiersKept, UNCHANGED <<ring, index>> PROVE RingsKept'
BY DEF TiersKept, RingsKept

LEMMA BoundsStay ==
    ASSUME TiersKept, UNCHANGED <<shut, provider, clock, asks>> PROVE BoundsKept'
BY DEF TiersKept, BoundsKept

\* The rows that a new mirror takes over have different keys.
LEMMA RehydratedOnce ==
    ASSUME TiersKept, NEW v, NEW s \in Rehydrated(v)
    PROVE  KeysOnce(s)
<1> DEFINE taken == {r \in table : r.key.version = v /\ Alive(r)}
<1>1. /\ s \in [1 .. Cardinality(taken) -> taken] /\ taken \subseteq table
      /\ \A i, j \in DOMAIN s : i < j => s[i] # s[j]
  BY DEF Rehydrated
<1>2. Cardinality(taken) \in Nat
  BY FS_Subset, FS_CardinalityType DEF TiersKept, TierInv, KeptOK
<1> DEFINE n == Cardinality(taken)
<1>3. n \in Nat /\ DOMAIN s = 1 .. n /\ \A i \in 1 .. n : s[i] \in table
  BY <1>1, <1>2
<1> HIDE DEF n, taken
<1> SUFFICES ASSUME NEW i \in 1 .. n, NEW j \in 1 .. n, s[i].key = s[j].key PROVE i = j
  BY <1>3 DEF KeysOnce
<1>4. s[i] = s[j]
  BY <1>3 DEF TiersKept, TableKept
<1>5. ~(i < j) /\ ~(j < i)
  BY <1>1, <1>3, <1>4
<1> QED BY <1>3, <1>5

\* The row that is written takes the place of the one with its key, and the cap is kept.
LEMMA RowPut ==
    ASSUME TiersKept, NEW a \in Askers, KeepRow(a)
    PROVE  TableKept'
<1> DEFINE e == asker[a].entry
           others == {r \in table : r.key # e.key}
           put == others \cup {e}
           over == IF Cardinality(put) > Cap THEN Cardinality(put) - Cap ELSE 0
<1>1. CASE UNCHANGED table
  BY <1>1, FewerRows
<1>2. CASE \E gone \in SUBSET put : Cardinality(gone) = over /\ table' = put \ gone
  <2>1. PICK gone \in SUBSET put : Cardinality(gone) = over /\ table' = put \ gone
    BY <1>2
  <2>2. IsFiniteSet(put)
    <3>1. IsFiniteSet(others)
      BY FS_Subset DEF TiersKept, TierInv, KeptOK
    <3> QED BY <3>1, FS_AddElement
  <2>3. \A r, s \in put : r.key = s.key => r = s
    BY DEF TiersKept, TableKept
  <2> HIDE DEF put
  <2>4. IsFiniteSet(gone) /\ Cardinality(put) \in Nat /\ Cardinality(gone) \in Nat
    BY <2>2, FS_Subset, FS_CardinalityType
  <2>5. Cardinality(put \ gone) = Cardinality(put) - Cardinality(put \cap gone)
    BY <2>2, <2>4, FS_Difference
  <2>6. put \cap gone = gone
    OBVIOUS
  <2>7. Cap \in Nat
    BY TiersAssumption
  <2>8. Cardinality(table') <= Cap
    <3> DEFINE c == Cardinality(put)
               d == Cardinality(gone)
    <3>1. c \in Nat /\ d = IF c > Cap THEN c - Cap ELSE 0
      BY <2>1, <2>4
    <3>2. Cardinality(table') = c - d
      BY <2>1, <2>5, <2>6
    <3> HIDE DEF c, d
    <3> QED BY <2>7, <3>1, <3>2
  <2>9. \A r, s \in table' : r.key = s.key => r = s
    BY <2>1, <2>3
  <2> QED BY <2>8, <2>9 DEF TableKept
<1> QED BY <1>1, <1>2 DEF KeepRow

\* A cache that is opened mirrors the rows of its version.
LEMMA OpenedKept ==
    ASSUME TiersKept, NEW v \in Salts,
           OpenTiers(v) \/ \E p \in Providers : StartTiers(p, v)
    PROVE  TiersKept'
<1>1. gens + 1 \in Gens
  BY TiersAssumption DEF OpenTiers, StartTiers, Opened, TiersKept, TierInv, OpenedOK, Gens
<1>2. \E s \in Rehydrated(v) : mirror' = [mirror EXCEPT ![gens + 1] = s]
  BY DEF OpenTiers, StartTiers
<1>3. MirrorsKept'
  BY <1>1, <1>2, RehydratedOnce, MirrorPut
<1>4. table' \subseteq table /\ UNCHANGED <<ring, index, shut, clock, asks>>
  BY DEF OpenTiers, StartTiers
<1>5. provider' \in Providers
  BY DEF OpenTiers, StartTiers, TiersKept, BoundsKept
<1>6. TableKept' /\ RingsKept' /\ BoundsKept'
  BY <1>4, <1>5, FewerRows, RingsStay DEF TiersKept, BoundsKept
<1>7. TierInv'
  BY OpenTiersKeeps DEF TiersKept
<1> QED BY <1>3, <1>6, <1>7 DEF TiersKept

\* A process that ends, a rebind that ends, a notebook that is dropped, a second.
LEMMA BindKept ==
    ASSUME TiersKept, Die \/ Publish \/ (\E g \in Gens : CloseTiers(g))
                      \/ ClearNear \/ TimePasses
    PROVE  TiersKept'
<1>1. TierInv'
  BY BindTiersKeeps DEF TiersKept
<1>2. UNCHANGED table
  BY DEF Die, Publish, CloseTiers, ClearNear, TimePasses
<1>3. TableKept'
  BY <1>2, FewerRows
<1>4. CASE Die
  <2>1. \A g \in Gens : NoTiers[g] = << >> /\ KeysOnce(<< >>) /\ TextsIn(<< >>) = {}
    BY DEF NoTiers, KeysOnce, TextsIn
  <2>2. /\ mirror' = NoTiers /\ ring' = NoTiers /\ index' = [g \in Gens |-> {}]
        /\ shut' = {} /\ UNCHANGED <<provider, clock, asks>>
    BY <1>4 DEF Die
  <2>3. RingsKept'
    BY <2>1, <2>2, TiersAssumption DEF RingsKept
  <2>4. MirrorsKept'
    BY <2>1, <2>2 DEF MirrorsKept
  <2>5. BoundsKept'
    BY <2>2 DEF TiersKept, BoundsKept
  <2> QED BY <1>1, <1>3, <2>3, <2>4, <2>5 DEF TiersKept
<1>5. CASE ClearNear
  <2>1. /\ UNCHANGED <<mirror, shut, provider, clock, asks>> /\ current \in Gens
        /\ ring' = [ring EXCEPT ![current] = << >>]
        /\ index' = [index EXCEPT ![current] = {}]
    BY <1>5 DEF ClearNear, bindingVars, TiersKept, TierInv, OpenedOK
  <2>2. TextsIn(<< >>) = {} /\ Len(<< >>) <= Ring /\ {} \in SUBSET Texts
    BY TiersAssumption DEF TextsIn
  <2>3. RingsKept'
    BY <2>1, <2>2, RingPut
  <2> QED BY <1>1, <1>3, <2>1, <2>3, MirrorsStay, BoundsStay DEF TiersKept
<1>6. CASE Publish \/ (\E g \in Gens : CloseTiers(g)) \/ TimePasses
  <2>1. UNCHANGED tierVars
    BY <1>6 DEF Publish, CloseTiers, TimePasses
  <2>2. MirrorsKept' /\ RingsKept'
    BY <2>1, MirrorsStay, RingsStay DEF tierVars
  <2>3. ASSUME Publish PROVE BoundsKept'
    BY <2>3, BoundsStay DEF Publish
  <2>4. ASSUME NEW g \in Gens, CloseTiers(g) PROVE BoundsKept'
    BY <2>4 DEF CloseTiers, TiersKept, BoundsKept
  <2>5. ASSUME TimePasses PROVE BoundsKept'
    BY <2>5, TiersAssumption DEF TimePasses, bindingVars, TiersKept, BoundsKept
  <2> QED BY <1>1, <1>3, <1>6, <2>2, <2>3, <2>4, <2>5 DEF TiersKept
<1> QED BY <1>4, <1>5, <1>6

\* The steps of a call, one by one.
LEMMA CallKept ==
    ASSUME TiersKept, NEW a \in Askers, SearchCall(a)
    PROVE  TiersKept'
<1> DEFINE l == asker[a]
<1>0. TierInv
  BY DEF TiersKept
<1>1. TierInv'
  BY <1>0, QueryKeeps, ProbeKeeps, ReadKeeps, FillKeeps, SearchNearKeeps, RankKeeps,
     KeepRowKeeps, ReflectKeeps, RecallKeeps DEF SearchCall
<1>2. ASSUME NEW here \in Steps \ {"reply"}, Now(a, here)
      PROVE  /\ CallHonest(l) /\ l.pc = here /\ l.gen \in Gens
             /\ mirror[l.gen] \in Seq(Honest(TtlExact))
             /\ KeysOnce(mirror[l.gen])
             /\ ring[l.gen] \in Seq(Honest(TtlNear))
             /\ Len(ring[l.gen]) <= Ring /\ TextsIn(ring[l.gen]) \subseteq index[l.gen]
             /\ index[l.gen] \in SUBSET Texts
  <2>1. CallHonest(l) /\ l.pc = here
    BY <1>0, <1>2, AtWork DEF Now
  <2>2. l.gen \in Gens
    BY <2>1 DEF CallHonest, TierCalls
  <2> QED BY <1>0, <2>1, <2>2 DEF TierInv, KeptOK, TiersKept, MirrorsKept, RingsKept
<1>3. ASSUME NEW q \in Questions, Query(a, q) PROVE TiersKept'
  <2>1. UNCHANGED <<table, tierVars, bindingVars, clock>> /\ asks < MaxAsks /\ asks' = asks + 1
    BY <1>3 DEF Query
  <2>2. BoundsKept'
    BY <2>1, TiersAssumption DEF bindingVars, TiersKept, BoundsKept
  <2> QED BY <1>1, <2>1, <2>2, FewerRows, MirrorsStay, RingsStay DEF tierVars, TiersKept
<1>4. CASE ProbeMirror(a)
  <2> DEFINE s == mirror[l.gen]
             here == Places(s, KeyOf(l))
  <2>1. /\ UNCHANGED <<table, ring, index, bindingVars, clock, asks>> /\ Now(a, "probe")
        /\ \/ \E i \in here : mirror' = [mirror EXCEPT ![l.gen] = Append(Without(s, here), s[i])]
           \/ mirror' = [mirror EXCEPT ![l.gen] = Without(s, here)]
    BY <1>4 DEF ProbeMirror
  <2>2. l.gen \in Gens /\ s \in Seq(Honest(TtlExact)) /\ KeysOnce(s)
    BY <1>2, <2>1 DEF Steps
  <2> HIDE DEF s
  <2>3. ASSUME NEW i \in here,
               mirror' = [mirror EXCEPT ![l.gen] = Append(Without(s, here), s[i])]
        PROVE  MirrorsKept'
    <3>1. s[i].key = KeyOf(l) /\ s[i] \in Honest(TtlExact)
      BY <2>2, <2>3 DEF Places
    <3>2. here = Places(s, s[i].key)
      BY <3>1
    <3>3. KeysOnce(Append(Without(s, here), s[i]))
      BY <2>2, <3>1, <3>2, InItsPlace
    <3> QED BY <2>2, <2>3, <3>3, MirrorPut
  <2>4. ASSUME mirror' = [mirror EXCEPT ![l.gen] = Without(s, here)] PROVE MirrorsKept'
    BY <2>2, <2>4, TakenFrom, MirrorPut
  <2> QED BY <1>1, <2>1, <2>3, <2>4, FewerRows, RingsStay, BoundsStay
          DEF TiersKept, bindingVars, s
<1>5. CASE ReadRow(a)
  <2>1. /\ UNCHANGED <<tierVars, bindingVars, clock, asks>> /\ table' \subseteq table
    BY <1>5 DEF ReadRow
  <2> QED BY <1>1, <2>1, FewerRows, MirrorsStay, RingsStay, BoundsStay
          DEF TiersKept, bindingVars, tierVars
<1>6. CASE FillMirror(a)
  <2> DEFINE s == mirror[l.gen]
             e == l.entry
  <2>1. /\ UNCHANGED <<table, ring, index, bindingVars, clock, asks>> /\ Now(a, "fill")
        /\ mirror' = [mirror EXCEPT ![l.gen] = Append(Without(s, Places(s, KeyOf(l))), e)]
    BY <1>2, <1>6 DEF FillMirror, TiersKept, TierInv, KeptOK, Steps
  <2>2. /\ l.gen \in Gens /\ s \in Seq(Honest(TtlExact)) /\ KeysOnce(s)
        /\ CallHonest(l) /\ l.pc = "fill"
    BY <1>2, <2>1 DEF Steps
  <2>3. e \in Honest(TtlExact) /\ e.key = KeyOf(l)
    <3>1. /\ e \in Honest(TtlExact) /\ e.key \in Rankings
          /\ e.key.text = l.text /\ e.key.k = l.k
          /\ e.key.version = l.version /\ e.key.by = l.by
      BY <2>2 DEF CallHonest, Honest, TierEntries
    <3> QED BY <3>1 DEF Rankings, KeyOf
  <2> HIDE DEF s, e
  <2>4. KeysOnce(Append(Without(s, Places(s, KeyOf(l))), e))
    BY <2>2, <2>3, InItsPlace
  <2>5. MirrorsKept'
    BY <2>1, <2>2, <2>4, MirrorPut
  <2> QED BY <1>1, <2>1, <2>5, FewerRows, RingsStay, BoundsStay DEF TiersKept, bindingVars
<1>7. CASE SearchNear(a)
  <2> DEFINE s == ring[l.gen]
  <2>1. UNCHANGED <<table, mirror, index, bindingVars, clock, asks>> /\ Now(a, "near")
    BY <1>7 DEF SearchNear
  <2>2. PICK dead : \E left \in Left(s, DOMAIN s \ dead) :
                       ring' = [ring EXCEPT ![l.gen] = left]
    BY <1>7 DEF SearchNear
  <2>3. PICK left \in Left(s, DOMAIN s \ dead) : ring' = [ring EXCEPT ![l.gen] = left]
    BY <2>2
  <2>4. /\ l.gen \in Gens /\ s \in Seq(Honest(TtlNear)) /\ Len(s) <= Ring
        /\ TextsIn(s) \subseteq index[l.gen] /\ index[l.gen] \in SUBSET Texts
    BY <1>2, <2>1 DEF Steps
  <2> HIDE DEF s
  <2>5. /\ left \in Seq(Honest(TtlNear)) /\ Len(left) <= Len(s)
        /\ \A i \in DOMAIN left : \E j \in DOMAIN s : left[i] = s[j]
    BY <2>4, LeftIs
  <2>6. TextsIn(left) \subseteq TextsIn(s)
    BY <2>5 DEF TextsIn
  <2>7. Len(left) <= Ring
    BY <2>4, <2>5, TiersAssumption
  <2>8. index' = [index EXCEPT ![l.gen] = index[l.gen]]
    BY <2>1 DEF TiersKept, RingsKept
  <2>9. RingsKept'
    BY <2>3, <2>4, <2>6, <2>7, <2>8, RingPut
  <2> QED BY <1>1, <2>1, <2>9, FewerRows, MirrorsStay, BoundsStay DEF TiersKept, bindingVars
<1>8. CASE RankLocal(a)
  <2>1. UNCHANGED <<table, tierVars, bindingVars, clock, asks>>
    BY <1>8 DEF RankLocal
  <2> QED BY <1>1, <2>1, FewerRows, MirrorsStay, RingsStay, BoundsStay
          DEF TiersKept, bindingVars, tierVars
<1>9. CASE KeepRow(a)
  <2>1. UNCHANGED <<tierVars, bindingVars, clock, asks>>
    BY <1>9 DEF KeepRow
  <2> QED BY <1>1, <1>9, <2>1, RowPut, MirrorsStay, RingsStay, BoundsStay
          DEF TiersKept, bindingVars, tierVars
<1>10. CASE ReflectRow(a)
  <2> DEFINE s == mirror[l.gen]
             e == l.entry
             put == Append(Without(s, Places(s, e.key)), e)
  <2>1. /\ UNCHANGED <<table, ring, index, bindingVars, clock, asks>> /\ Now(a, "reflect")
        /\ mirror' = [mirror EXCEPT ![l.gen] = Newest(put, Cap)]
    BY <1>2, <1>10 DEF ReflectRow, TiersKept, TierInv, KeptOK, Steps
  <2>2. /\ l.gen \in Gens /\ s \in Seq(Honest(TtlExact)) /\ KeysOnce(s)
        /\ e \in Honest(TtlExact)
    BY <1>2, <2>1 DEF Steps, CallHonest
  <2> HIDE DEF s, e
  <2>3. KeysOnce(put)
    BY <2>2, InItsPlace
  <2>4. Without(s, Places(s, e.key)) \in Seq(Honest(TtlExact))
    BY <2>2, WithoutTyped DEF Places
  <2>5. put \in Seq(Honest(TtlExact))
    BY <2>2, <2>4
  <2> HIDE DEF put
  <2>6. KeysOnce(Newest(put, Cap))
    BY <2>3, <2>5, NewestIs, TiersAssumption
  <2>7. MirrorsKept'
    BY <2>1, <2>2, <2>6, MirrorPut
  <2> QED BY <1>1, <2>1, <2>7, FewerRows, RingsStay, BoundsStay DEF TiersKept, bindingVars
<1>11. CASE Recall(a)
  <2> DEFINE s == ring[l.gen]
             e == Entry(l.entry.key, l.entry.got, TtlNear)
             w == Without(s, SlotsOf(s, l.text))
             kept == Newest(Append(w, e), Ring)
  <2>1. /\ UNCHANGED <<table, mirror, bindingVars, clock, asks>> /\ Now(a, "recall")
        /\ ring' = [ring EXCEPT ![l.gen] = kept]
        /\ index' = [index EXCEPT ![l.gen] = TextsIn(kept)]
    BY <1>11 DEF Recall, TextsIn
  <2>2. /\ l.gen \in Gens /\ s \in Seq(Honest(TtlNear)) /\ l.entry \in Honest(TtlExact)
    BY <1>2, <2>1 DEF Steps, CallHonest
  <2>3. w \in Seq(Honest(TtlNear))
    BY <2>2, WithoutTyped DEF SlotsOf
  <2>4. e \in Honest(TtlNear)
    BY <1>0, <2>2, EntryHonest, TiersAssumption DEF Honest, TierEntries
  <2> HIDE DEF w, e
  <2>5. Append(w, e) \in Seq(Honest(TtlNear))
    BY <2>3, <2>4
  <2>6. kept \in Seq(Honest(TtlNear)) /\ Len(kept) <= Ring
    BY <2>5, NewestIs, TiersAssumption
  <2> HIDE DEF kept
  <2>7. TextsIn(kept) \in SUBSET Texts
    <3>1. ASSUME NEW i \in DOMAIN kept PROVE kept[i].key.text \in Texts
      <4>1. kept[i] \in Honest(TtlNear)
        BY <2>6
      <4> QED BY <4>1 DEF Honest, TierEntries, Rankings
    <3> QED BY <3>1 DEF TextsIn
  <2>8. RingsKept'
    BY <2>1, <2>2, <2>6, <2>7, RingPut
  <2> QED BY <1>1, <2>1, <2>8, FewerRows, MirrorsStay, BoundsStay DEF TiersKept, bindingVars
<1> QED BY <1>3, <1>4, <1>5, <1>6, <1>7, <1>8, <1>9, <1>10, <1>11 DEF SearchCall

\* What is kept is kept so by every step.
LEMMA TiersKeptStep == TiersKept /\ [TiersNext]_cacheVars => TiersKept'
<1> SUFFICES ASSUME TiersKept, [TiersNext]_cacheVars PROVE TiersKept'
  OBVIOUS
<1>1. CASE UNCHANGED cacheVars
  <2>1. UNCHANGED <<table, mirror, ring, index, shut, provider, clock, asks>>
    BY <1>1 DEF cacheVars, tierVars, bindingVars
  <2>2. TierInv'
    BY <1>1, TierInvStep DEF TiersKept
  <2> QED BY <2>1, <2>2, FewerRows, MirrorsStay, RingsStay, BoundsStay DEF TiersKept
<1> QED BY <1>1, OpenedKept, BindKept, CallKept DEF TiersNext

\* However the calls, the rebinds and the restarts cross each other, the file has
\* one row for a key and no more than its cap, a mirror one entry for a key, and
\* what a ring holds can be found by its index.
THEOREM TiersKeptHolds == TiersSpec => []TiersTypeOK
<1>1. TiersInit => TiersKept
  <2> SUFFICES ASSUME TiersInit PROVE TiersKept
    OBVIOUS
  <2>1. TierInv
    BY TierInvInit
  <2>2. \A g \in Gens : NoTiers[g] = << >> /\ KeysOnce(<< >>) /\ TextsIn(<< >>) = {}
    BY DEF NoTiers, KeysOnce, TextsIn
  <2>3. RingsKept /\ MirrorsKept
    BY <2>2, TiersAssumption DEF TiersInit, RingsKept, MirrorsKept
  <2>4. TableKept
    BY FS_EmptySet, TiersAssumption DEF TiersInit, TableKept
  <2>5. BoundsKept
    BY TiersAssumption DEF TiersInit, BoundsKept, Providers
  <2> QED BY <2>1, <2>3, <2>4, <2>5 DEF TiersKept
<1>2. TiersKept => TiersTypeOK
  <2> SUFFICES ASSUME TiersKept PROVE TiersTypeOK
    OBVIOUS
  <2>1. \A r \in table : r.key \in Rankings /\ r.got \in Rankings
    BY DEF TiersKept, TierInv, KeptOK, Honest, TierEntries
  <2>2. ASSUME NEW a \in Askers PROVE asker[a] = Resting \/ asker[a].pc \in Steps
    <3>1. CallOK(asker[a])
      BY DEF TiersKept, TierInv
    <3> QED BY <3>1 DEF CallOK, CallHonest, TierCalls, Steps
  <2>3. \A g \in Gens : /\ \A i, j \in DOMAIN mirror[g] : mirror[g][i].key = mirror[g][j].key => i = j
                        /\ Len(ring[g]) <= Ring
                        /\ {ring[g][i].key.text : i \in DOMAIN ring[g]} \subseteq index[g]
    BY DEF TiersKept, MirrorsKept, RingsKept, KeysOnce, TextsIn
  <2> QED BY <2>1, <2>2, <2>3
          DEF TiersKept, TableKept, BoundsKept, TierInv, OpenedOK, TiersTypeOK
<1> QED BY TiersKeptStep, <1>1, <1>2, PTL DEF TiersSpec
-------------------------------------------------------------------------------
(* The server that MCServer adds up: while one component runs the others rest. *)

\* Every variable of the queue of ingests, of the binding and of the tiers keeps its
\* type, and what the tiers hold stays single and findable.
THEOREM ServerTypeCorrect == ServerSpec => []ServerTypeOK
<1>1. ServerSpec => BindSpec
  <2>1. ServerInit => BindInit
    BY DEF ServerInit
  <2>2. [ServerNext]_<<vars, bindVars, cacheVars, focus>> => [BindNext]_bindVars
    BY DEF ServerNext
  <2> QED BY <2>1, <2>2, PTL DEF ServerSpec, BindSpec
<1>2. ServerSpec => TiersSpec
  <2>1. ServerInit => TiersInit
    BY DEF ServerInit
  <2>2. [ServerNext]_<<vars, bindVars, cacheVars, focus>> => [TiersNext]_cacheVars
    BY DEF ServerNext
  <2> QED BY <2>1, <2>2, PTL DEF ServerSpec, TiersSpec
<1>3. ServerSpec => Spec
  <2>1. ServerInit => Init
    BY DEF ServerInit
  <2>2. [ServerNext]_<<vars, bindVars, cacheVars, focus>> => [Next]_vars
    BY DEF ServerNext
  <2> QED BY <2>1, <2>2, PTL DEF ServerSpec, Spec
<1> QED BY <1>1, <1>2, <1>3, TypeCorrect, BindingTypeCorrect, TiersKeptHolds, PTL
        DEF ServerTypeOK
===============================================================================
