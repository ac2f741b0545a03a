----------------------------- MODULE UpkeepProofs -----------------------------
(***************************************************************************)
(* The parses of textbooks, for any number of uploads, notebooks and       *)
(* starts of the daemon: nobody is marked running for nothing, there is    *)
(* one MinerU at a time, and the statuses are ParseLedger's.  Then the     *)
(* sentinel, and the types of the three components that MCUpkeep adds up.  *)
(***************************************************************************)
EXTENDS MCUpkeep, CorpusBindingProofs, SequenceLemmas

-------------------------------------------------------------------------------
(* The parses: one MinerU at a time, and no notebook marked for nothing. *)

AtWork == {"spawn", "spawned", "registered"}
Statuses == {"pending", "running", "complete", "failed"}
ThreadStates == AtWork \cup {"none", "ok", "raised"}

\* While the daemon is up, the tasks at work are those of the queue, and only
\* its head has the permit; a daemon that is down has left no task.
ParseTyped ==
    /\ status \in [Notebooks -> Statuses]
    /\ stage \in [Uploads -> Stages]
    /\ bookOf \in [Uploads -> Books]
    /\ thread \in [Uploads -> ThreadStates]
    /\ errors \in Nat

DownInv == life = "down" =>
    /\ queue = <<>>
    /\ \A u \in Uploads : stage[u] \notin Handling \cup Working /\ thread[u] = "none"

UpInv == life = "up" =>
    /\ queue \in Seq(Uploads) /\ OnceEach(queue)
    /\ \A i \in DOMAIN queue : stage[queue[i]] \in Working
    /\ \A u \in Uploads :
         /\ stage[u] \in Working => \E i \in DOMAIN queue : queue[i] = u
         /\ stage[u] \in Permitted => u = queue[1]
         /\ thread[u] \in AtWork => stage[u] = "mineru"

ParseInv == ParseTyped /\ DownInv /\ UpInv /\ RunningIsWorked

\* The head of the queue leaves it: the others move up, none of them permitted.
LEMMA OthersAre ==
    ASSUME ParseInv, life = "up", NEW u \in Uploads, stage[u] \in Permitted
    PROVE  /\ Others(u) \in Seq(Uploads) /\ OnceEach(Others(u))
           /\ \A v \in Uploads : (\E i \in DOMAIN Others(u) : Others(u)[i] = v) <=>
                 v # u /\ \E i \in DOMAIN queue : queue[i] = v
<1> DEFINE q == RemoveFirst(queue, u)
<1>1. queue \in Seq(Uploads) /\ OnceEach(queue)
  BY DEF ParseInv, UpInv
<1>2. /\ q \in Seq(Uploads) /\ OnceEach(q)
      /\ \A v : Has(q, v) <=> v # u /\ Has(queue, v)
  BY <1>1, LeavesIt
<1>3. Others(u) = q
  BY DEF Others
<1> HIDE DEF q
<1> QED BY <1>2, <1>3 DEF Has

\* A coroutine that ends while the daemon is up leaves the permit to the next.
LEMMA DoneKeeps ==
    ASSUME ParseInv, life = "up", NEW u \in Uploads, stage[u] \in Permitted \ {"mineru"},
           ParseDone(u), thread' = thread
    PROVE  /\ stage' \in [Uploads -> Stages] /\ stage'[u] = "done"
           /\ \A v \in Uploads \ {u} : stage'[v] = stage[v]
           /\ queue' \in Seq(Uploads) /\ OnceEach(queue')
           /\ \A i \in DOMAIN queue' : stage'[queue'[i]] \in Working
           /\ \A v \in Uploads :
                /\ stage'[v] \in Working => \E i \in DOMAIN queue' : queue'[i] = v
                /\ stage'[v] \in Permitted => v = queue'[1]
                /\ thread'[v] \in AtWork => stage'[v] = "mineru"
<1>1. /\ stage' = [stage EXCEPT ![u] = "done"] /\ queue' = Others(u)
      /\ stage \in [Uploads -> Stages]
  BY DEF ParseDone, StageTo, ParseInv, ParseTyped
<1>2. /\ stage' \in [Uploads -> Stages] /\ stage'[u] = "done" /\ "done" \notin Working
      /\ \A v \in Uploads \ {u} : stage'[v] = stage[v]
  BY <1>1 DEF Stages, Working, Permitted
<1>3. /\ queue' \in Seq(Uploads) /\ OnceEach(queue')
      /\ \A v \in Uploads : (\E i \in DOMAIN queue' : queue'[i] = v) <=>
            v # u /\ \E i \in DOMAIN queue : queue[i] = v
  BY <1>1, OthersAre
<1>4. \A v \in Uploads : stage[v] \in Permitted => v = u
  BY DEF ParseInv, ParseTyped, DownInv, UpInv
<1>5. \A v \in Uploads : stage'[v] \notin Permitted
  BY <1>2, <1>4 DEF Working
<1>6. \A i \in DOMAIN queue' : stage'[queue'[i]] \in Working
  <2> SUFFICES ASSUME NEW i \in DOMAIN queue' PROVE stage'[queue'[i]] \in Working
    OBVIOUS
  <2>1. queue'[i] \in Uploads
    BY <1>3
  <2>2. queue'[i] # u /\ \E j \in DOMAIN queue : queue[j] = queue'[i]
    BY <1>3, <2>1
  <2> QED BY <1>2, <2>1, <2>2 DEF ParseInv, ParseTyped, DownInv, UpInv
<1>7. \A v \in Uploads : thread'[v] \in AtWork => stage'[v] = "mineru"
  BY <1>2 DEF ParseInv, ParseTyped, DownInv, UpInv
<1>8. \A v \in Uploads : stage'[v] \in Working => \E i \in DOMAIN queue' : queue'[i] = v
  BY <1>2, <1>3 DEF ParseInv, ParseTyped, DownInv, UpInv
<1> QED BY <1>2, <1>3, <1>5, <1>6, <1>7, <1>8

LEMMA ParseInitially == ASSUME ParseInit PROVE ParseInv
<1>1. ParseTyped
  BY DEF ParseInit, ParseTyped, Statuses, Stages, ThreadStates
<1>2. life = "down" /\ queue = <<>> /\ \A u \in Uploads : stage[u] = "idle" /\ thread[u] = "none"
  BY DEF ParseInit
<1> QED BY <1>1, <1>2 DEF ParseInv, DownInv, UpInv, RunningIsWorked, Handling, Working, Permitted

\* A handler on its way to the tracker: no task comes or goes.
LEMMA HandlingKeeps ==
    ASSUME ParseInv, NEW u \in Uploads,
           Upload(u) \/ InsertPaper(u) \/ CheckTracker(u) \/ HasRunningParse(u) \/ MarkRunning(u)
    PROVE  ParseInv'
<1> USE DEF ParseInv
<1>1. PICK s \in Stages \ Working : stage' = [stage EXCEPT ![u] = s]
  BY DEF Upload, InsertPaper, CheckTracker, HasRunningParse, MarkRunning, StageTo, Stages,
         Handling, Answered, Working, Permitted
<1>2. /\ stage[u] \in {"idle"} \cup (Handling \ {"start"})
      /\ UNCHANGED <<bookOf, queue, thread, life>>
      /\ life = "down" => stage[u] \in Handling
  BY DEF Upload, InsertPaper, CheckTracker, HasRunningParse, MarkRunning, Handling, parseBounds
<1>3. \/ status' = status /\ errors' = errors
      \/ s = "start" /\ status' = [status EXCEPT ![Home(u)] = "running"] /\ errors' = errors
      \/ status' = status /\ errors' = errors + 1
  <2>1. CASE MarkRunning(u)
    <3>1. CASE StageTo(u, "start") /\ StatusOf(Home(u), "running") /\ errors' = errors
      <4>1. s = stage'[u] /\ stage'[u] = "start"
        BY <1>1, <3>1 DEF StageTo, ParseTyped
      <4> QED BY <3>1, <4>1 DEF StatusOf
    <3> QED BY <2>1, <3>1 DEF MarkRunning, Raises
  <2> QED BY <2>1 DEF Upload, InsertPaper, CheckTracker, HasRunningParse, parseBounds
<1>4. /\ \A v \in Uploads \ {u} : stage'[v] = stage[v]
      /\ stage'[u] = s /\ s \notin Working /\ stage[u] \notin Working
      /\ stage' \in [Uploads -> Stages]
  BY <1>1, <1>2 DEF ParseTyped, Handling, Working, Permitted
<1>5. ParseTyped'
  <2>1. status' \in [Notebooks -> Statuses]
    BY <1>3 DEF ParseTyped, Statuses
  <2> QED BY <1>2, <1>3, <1>4, <2>1 DEF ParseTyped
<1>6. DownInv' /\ UpInv'
  <2>1. life # "down"
    BY <1>2 DEF DownInv
  <2>2. life = "up" => /\ \A i \in DOMAIN queue : queue[i] # u /\ queue[i] \in Uploads
                       /\ thread[u] \notin AtWork
    BY <1>2, <1>4 DEF UpInv, Handling
  <2>3. "mineru" \in Working /\ Permitted \subseteq Working
    BY DEF Working, Permitted
  <2> QED BY <1>2, <1>4, <2>1, <2>2, <2>3 DEF DownInv, UpInv
<1>7. RunningIsWorked'
  <2> SUFFICES ASSUME life' = "up", errors' = 0, NEW n \in Notebooks, status'[n] = "running"
               PROVE  \E v \in Uploads : Home(v)' = n /\ stage'[v] \in Working \cup {"start"}
    BY DEF RunningIsWorked
  <2>1. life = "up" /\ errors = 0 /\ errors' = errors /\ \A v : Home(v)' = Home(v)
    BY <1>2, <1>3 DEF ParseTyped, Home
  <2>2. CASE status'[n] = status[n]
    <3>1. PICK v \in Uploads : Home(v) = n /\ stage[v] \in Working \cup {"start"}
      BY <2>1, <2>2 DEF RunningIsWorked
    <3>2. v # u
      BY <1>2, <3>1 DEF Handling, Working, Permitted
    <3> QED BY <1>4, <2>1, <3>1, <3>2
  <2>3. CASE status'[n] # status[n]
    <3>1. n = Home(u) /\ s = "start"
      BY <1>3, <2>1, <2>3 DEF ParseTyped
    <3> QED BY <1>4, <2>1, <3>1
  <2> QED BY <2>2, <2>3
<1> QED BY <1>5, <1>6, <1>7

LEMMA StartKeeps == ASSUME ParseInv, NEW u \in Uploads, StartParse(u) PROVE ParseInv'
<1> USE DEF ParseInv
<1>1. stage[u] = "start" /\ UNCHANGED <<status, bookOf, thread, life>>
  BY DEF StartParse
<1>2. life # "down"
  BY <1>1 DEF DownInv, Handling
<1>3. stage[u] \notin Working /\ "wait" \in Working /\ "wait" \notin Permitted
  BY <1>1 DEF Working, Permitted
<1>4. CASE stage' = [stage EXCEPT ![u] = "error"] /\ errors' = errors + 1 /\ queue' = queue
  <2>1. ParseTyped'
    BY <1>1, <1>4 DEF ParseTyped, Stages, Answered
  <2>2. "error" \notin Working /\ "mineru" \in Working /\ Permitted \subseteq Working
    BY DEF Working, Permitted
  <2>3. /\ \A v \in Uploads \ {u} : stage'[v] = stage[v]
        /\ stage'[u] = "error" /\ errors' # 0
    BY <1>4 DEF ParseTyped
  <2>4. UpInv'
    <3>1. life = "up" => /\ \A i \in DOMAIN queue : queue[i] # u /\ queue[i] \in Uploads
                         /\ thread[u] \notin AtWork
      BY <1>1, <1>3 DEF UpInv
    <3> QED BY <1>1, <1>4, <2>2, <2>3, <3>1 DEF UpInv
  <2> QED BY <1>1, <1>2, <2>1, <2>3, <2>4 DEF DownInv, RunningIsWorked
<1>5. CASE stage' = [stage EXCEPT ![u] = "wait"] /\ errors' = errors /\ queue' = Append(queue, u)
  <2>1. ParseTyped'
    BY <1>1, <1>5 DEF ParseTyped, Stages, Working
  <2>2. /\ \A v \in Uploads \ {u} : stage'[v] = stage[v]
        /\ stage'[u] = "wait"
    BY <1>5 DEF ParseTyped
  <2>3. UpInv'
    <3> SUFFICES ASSUME life = "up" PROVE UpInv'
      BY <1>1 DEF UpInv
    <3>1. /\ queue \in Seq(Uploads) /\ OnceEach(queue) /\ Len(queue) \in Nat
          /\ DOMAIN queue = 1..Len(queue)
          /\ \A i \in DOMAIN queue : queue[i] # u /\ queue[i] \in Uploads
      BY <1>3 DEF UpInv
    <3>2. /\ queue' \in Seq(Uploads) /\ DOMAIN queue' = 1..(Len(queue) + 1)
          /\ \A i \in 1..(Len(queue) + 1) :
                queue'[i] = IF i = Len(queue) + 1 THEN u ELSE queue[i]
      BY <1>5, <3>1
    <3>3. OnceEach(queue')
      BY <3>1, <3>2 DEF OnceEach
    <3>4. \A i \in DOMAIN queue' : stage'[queue'[i]] \in Working
      BY <1>3, <2>2, <3>1, <3>2 DEF UpInv
    <3>5. ASSUME NEW v \in Uploads, stage'[v] \in Working
          PROVE  \E i \in DOMAIN queue' : queue'[i] = v
      <4>1. CASE v = u
        BY <3>1, <3>2, <4>1
      <4>2. CASE v # u
        <5>1. PICK i \in DOMAIN queue : queue[i] = v
          BY <2>2, <3>5, <4>2 DEF UpInv
        <5> QED BY <3>1, <3>2, <5>1
      <4> QED BY <4>1, <4>2
    <3>6. ASSUME NEW v \in Uploads, stage'[v] \in Permitted PROVE v = queue'[1]
      <4>1. v # u /\ stage[v] \in Permitted
        BY <1>3, <2>2, <3>6
      <4>2. PICK i \in DOMAIN queue : queue[i] = v
        BY <4>1 DEF UpInv, Working
      <4>3. v = queue[1]
        BY <4>1 DEF UpInv
      <4> QED BY <3>1, <3>2, <4>2, <4>3
    <3>7. ASSUME NEW v \in Uploads, thread'[v] \in AtWork PROVE stage'[v] = "mineru"
      BY <1>1, <2>2, <3>7 DEF UpInv
    <3> QED BY <3>2, <3>3, <3>4, <3>5, <3>6, <3>7 DEF UpInv
  <2>4. RunningIsWorked'
    BY <1>1, <1>3, <1>5, <2>2 DEF RunningIsWorked, Home
  <2> QED BY <1>1, <1>2, <2>1, <2>3, <2>4 DEF DownInv
<1> QED BY <1>4, <1>5 DEF StartParse, StageTo, Raises

\* The head of the queue gets the permit, which nobody has.
LEMMA AcquireKeeps == ASSUME ParseInv, NEW u \in Uploads, AcquirePermit(u) PROVE ParseInv'
<1> USE DEF ParseInv
<1>1. /\ stage[u] = "wait" /\ u = Head(queue)
      /\ stage' = [stage EXCEPT ![u] = "mineru"]
      /\ thread' = [thread EXCEPT ![u] = "spawn"]
      /\ UNCHANGED <<status, bookOf, queue, life, errors>>
  BY DEF AcquirePermit, StageTo, parseBounds
<1>2. "wait" \in Working /\ "wait" \notin Permitted /\ "mineru" \in Working
  BY DEF Working, Permitted
<1>3. ParseTyped'
  BY <1>1 DEF ParseTyped, Stages, Working, Permitted, ThreadStates, AtWork
<1>4. /\ \A v \in Uploads \ {u} : stage'[v] = stage[v] /\ thread'[v] = thread[v]
      /\ stage'[u] = "mineru"
  BY <1>1 DEF ParseTyped
<1>5. DownInv'
  BY <1>1, <1>2 DEF DownInv
<1>6. UpInv'
  <2> SUFFICES ASSUME life = "up" PROVE UpInv'
    BY <1>1 DEF UpInv
  <2>1. u = queue[1] /\ 1 \in DOMAIN queue
    BY <1>1, <1>2 DEF UpInv
  <2>2. \A v \in Uploads : stage[v] \in Permitted => FALSE
    BY <1>1, <1>2, <2>1 DEF UpInv
  <2>3. \A v \in Uploads \ {u} : stage'[v] \notin Permitted
    BY <1>4, <2>2
  <2> QED BY <1>1, <1>2, <1>4, <2>1, <2>3 DEF UpInv
<1>7. RunningIsWorked'
  BY <1>1, <1>2, <1>4 DEF RunningIsWorked, Home
<1> QED BY <1>3, <1>5, <1>6, <1>7

LEMMA WorkGoesOn ==
    ASSUME ParseInv, NEW u \in Uploads, MineruReturned(u) \/ Rendered(u) PROVE ParseInv'
<1> USE DEF ParseInv
<1>1. PICK s \in Permitted \ {"mineru"} : stage' = [stage EXCEPT ![u] = s]
  BY DEF MineruReturned, Rendered, StageTo, Permitted
<1>2. /\ stage[u] \in Permitted /\ (stage[u] = "mineru" => thread[u] \notin AtWork)
      /\ UNCHANGED <<status, bookOf, queue, thread, life, errors>>
  BY DEF MineruReturned, Rendered, AtWork, Permitted, parseBounds
<1>3. /\ \A v \in Uploads \ {u} : stage'[v] = stage[v]
      /\ stage'[u] = s /\ Permitted \subseteq Working /\ "start" \notin Permitted
  BY <1>1 DEF ParseTyped, Working, Permitted
<1>4. ParseTyped'
  BY <1>1, <1>2 DEF ParseTyped, Stages, Working
<1>5. DownInv'
  BY <1>2, <1>3 DEF DownInv
<1>6. UpInv'
  BY <1>2, <1>3 DEF UpInv
<1>7. RunningIsWorked'
  BY <1>2, <1>3 DEF RunningIsWorked, Home
<1> QED BY <1>4, <1>5, <1>6, <1>7

\* The outcome is written, or is not, and the task ends.
LEMMA OutcomeKeeps ==
    ASSUME ParseInv, NEW u \in Uploads, WriteOutcome(u) \/ WriteRaises(u) PROVE ParseInv'
<1> USE DEF ParseInv
<1>1. /\ stage[u] \in {"complete", "failed", "cancelled"} /\ ParseDone(u)
      /\ UNCHANGED <<bookOf, thread, life>>
  BY DEF WriteOutcome, WriteRaises, parseBounds
<1>2. \/ /\ status' = [status EXCEPT ![Home(u)] = Written(u)] /\ errors' = errors
      \/ /\ status' = status
         /\ errors' = (IF life # "closed" THEN errors + 1 ELSE errors)
  BY DEF WriteOutcome, WriteRaises, StoreIsOpen, Raises, StatusOf, parseBounds
<1>3. /\ stage' = [stage EXCEPT ![u] = "done"]
      /\ stage[u] \in Permitted \ {"mineru"} /\ Permitted \subseteq Working
  BY <1>1 DEF ParseDone, StageTo, Permitted, Working
<1>4. /\ \A v \in Uploads \ {u} : stage'[v] = stage[v]
      /\ stage' \in [Uploads -> Stages]
  BY <1>3 DEF ParseTyped, Stages
<1>5. Written(u) \in {"complete", "failed"}
  BY DEF Written
<1>6. ParseTyped'
  BY <1>1, <1>2, <1>4, <1>5 DEF ParseTyped, Statuses
<1>7. life # "down"
  BY <1>3 DEF DownInv
<1>8. UpInv'
  <2> SUFFICES ASSUME life = "up" PROVE UpInv'
    BY <1>1 DEF UpInv
  <2> QED BY <1>1, <1>3, DoneKeeps DEF UpInv
<1>9. RunningIsWorked'
  <2> SUFFICES ASSUME life' = "up", errors' = 0, NEW n \in Notebooks, status'[n] = "running"
               PROVE  \E v \in Uploads : Home(v)' = n /\ stage'[v] \in Working \cup {"start"}
    BY DEF RunningIsWorked
  <2>1. /\ life = "up" /\ errors = 0 /\ \A v : Home(v)' = Home(v)
        /\ status' = [status EXCEPT ![Home(u)] = Written(u)]
    BY <1>1, <1>2 DEF ParseTyped, Home
  <2>2. n # Home(u) /\ status[n] = "running"
    BY <1>5, <2>1 DEF ParseTyped
  <2>3. PICK v \in Uploads : Home(v) = n /\ stage[v] \in Working \cup {"start"}
    BY <2>1, <2>2 DEF RunningIsWorked
  <2> QED BY <1>4, <2>1, <2>2, <2>3
<1> QED BY <1>1, <1>6, <1>7, <1>8, <1>9 DEF DownInv

\* A worker thread goes on: it does not begin what its task has not.
LEMMA ThreadKeeps ==
    ASSUME ParseInv, NEW u \in Uploads, ThreadStep(u) \/ OrphanEnds(u) PROVE ParseInv'
<1> USE DEF ParseInv
<1>1. UNCHANGED <<status, stage, bookOf, queue, life, errors>>
  BY DEF ThreadStep, SpawnMineru, RegisterMineru, Communicated, OrphanEnds, ThreadRest, parseBounds
<1>2. \/ thread' = thread
      \/ thread[u] \in AtWork /\ \E t \in ThreadStates : thread' = [thread EXCEPT ![u] = t]
  BY DEF ThreadStep, SpawnMineru, RegisterMineru, Communicated, OrphanEnds, ThreadTo,
         ThreadStates, AtWork
<1>3. ParseTyped'
  BY <1>1, <1>2 DEF ParseTyped
<1>4. \A v \in Uploads : thread'[v] = thread[v] \/ thread[v] \in AtWork
  BY <1>2 DEF ParseTyped
<1>5. DownInv' /\ UpInv'
  BY <1>1, <1>2, <1>4 DEF DownInv, UpInv, AtWork
<1>6. RunningIsWorked'
  BY <1>1 DEF RunningIsWorked, Home
<1> QED BY <1>3, <1>5, <1>6

\* The daemon's life.
LEMMA LifeKeeps ==
    ASSUME ParseInv, BootParses \/ CancelParses \/ TerminateMineru \/ Gathered \/ ProcessEnds
    PROVE  ParseInv'
<1> USE DEF ParseInv
<1>1. CASE BootParses
  <2>1. /\ life = "down" /\ life' = "up" /\ UNCHANGED <<stage, bookOf, queue, thread, errors>>
        /\ status' = [n \in Notebooks |-> IF status[n] = "running" THEN "failed" ELSE status[n]]
    BY <1>1 DEF BootParses
  <2>2. ParseTyped' /\ \A n \in Notebooks : status'[n] # "running"
    BY <2>1 DEF ParseTyped, Statuses
  <2>3. queue = <<>> /\ \A u \in Uploads : stage[u] \notin Working /\ thread[u] = "none"
    BY <2>1 DEF DownInv
  <2>4. UpInv'
    BY <2>1, <2>3 DEF UpInv, OnceEach, AtWork, Working
  <2> QED BY <2>1, <2>2, <2>4 DEF DownInv, RunningIsWorked
<1>2. CASE CancelParses
  <2>1. life' \notin {"up", "down"} /\ UNCHANGED <<bookOf, thread, errors>>
    BY <1>2 DEF CancelParses, parseBounds
  <2>2. stage' \in [Uploads -> Stages]
    <3>1. \A u \in Uploads : CancelledTo(u) \in Stages
      BY DEF CancelledTo, Stages, Working, Permitted
    <3> QED BY <1>2, <3>1 DEF CancelParses, ParseTyped
  <2>3. status' \in [Notebooks -> Statuses]
    BY <1>2 DEF CancelParses, ParseTyped, Statuses, Written
  <2> QED BY <2>1, <2>2, <2>3 DEF ParseTyped, DownInv, UpInv, RunningIsWorked
<1>3. CASE TerminateMineru
  BY <1>3 DEF TerminateMineru, ParseTyped, DownInv, UpInv, RunningIsWorked, parseBounds
<1>4. CASE Gathered
  <2>1. life' = "closed" /\ UNCHANGED <<status, bookOf, thread, errors>>
    BY <1>4 DEF Gathered, parseBounds
  <2>2. stage' \in [Uploads -> Stages]
    BY <1>4 DEF Gathered, ParseTyped, Stages
  <2> QED BY <2>1, <2>2 DEF ParseTyped, DownInv, UpInv, RunningIsWorked
<1>5. CASE ProcessEnds
  <2>1. /\ life' = "down" /\ queue' = <<>> /\ thread' = [u \in Uploads |-> "none"]
        /\ stage' = [u \in Uploads |-> IF stage[u] \in Handling \cup Working
                                       THEN "forgotten" ELSE stage[u]]
        /\ UNCHANGED <<status, bookOf, errors>>
    BY <1>5 DEF ProcessEnds, parseBounds
  <2>2. "forgotten" \in Stages /\ "forgotten" \notin Handling \cup Working
    BY DEF Stages, Handling, Working, Permitted
  <2>3. ParseTyped'
    BY <2>1, <2>2 DEF ParseTyped, ThreadStates
  <2>4. DownInv'
    BY <2>1, <2>2 DEF DownInv
  <2> QED BY <2>1, <2>3, <2>4 DEF UpInv, RunningIsWorked
<1> QED BY <1>1, <1>2, <1>3, <1>4, <1>5

LEMMA ParseStepKeeps == ASSUME ParseInv, [ParseNext]_parseVars PROVE ParseInv'
<1>1. CASE UNCHANGED parseVars
  BY <1>1 DEF parseVars, ParseInv, ParseTyped, DownInv, UpInv, RunningIsWorked, Home
<1>2. ASSUME NEW b \in Books, RemovePaper(b) PROVE ParseInv'
  BY <1>2 DEF RemovePaper, parseBounds, ParseInv, ParseTyped, DownInv, UpInv, RunningIsWorked, Home
<1>3. ASSUME NEW u \in Uploads, Upload(u) \/ HandlerStep(u) PROVE ParseInv'
  BY <1>3, HandlingKeeps, StartKeeps DEF HandlerStep
<1>4. ASSUME NEW u \in Uploads, ParseStep(u) PROVE ParseInv'
  BY <1>4, AcquireKeeps, WorkGoesOn, OutcomeKeeps DEF ParseStep
<1>5. ASSUME NEW u \in Uploads, ThreadStep(u) \/ OrphanEnds(u) PROVE ParseInv'
  BY <1>5, ThreadKeeps
<1> QED BY <1>1, <1>2, <1>3, <1>4, <1>5, LifeKeeps DEF ParseNext

\* upload_paper, _run_parse and mark_orphaned_parses_failed: a notebook marked
\* running is being worked on while the daemon is up and no write has failed,
\* for any number of uploads, notebooks and starts.
THEOREM RunningIsWorkedHolds == ParseSpec => []RunningIsWorked
<1>1. ParseInit => ParseInv
  BY ParseInitially
<1>2. ParseInv /\ [ParseNext]_parseVars => ParseInv'
  BY ParseStepKeeps
<1>3. ParseInv => RunningIsWorked
  BY DEF ParseInv
<1> QED BY <1>1, <1>2, <1>3, PTL DEF ParseSpec

\* The semaphore of ParseTaskTracker: while the daemon is up it has one MinerU
\* at a time, though its threads outlive the tasks that a shutdown cancels.
THEOREM OneMineruHolds == ParseSpec => []OneMineru
<1>1. ParseInit => ParseInv
  BY ParseInitially
<1>2. ParseInv /\ [ParseNext]_parseVars => ParseInv'
  BY ParseStepKeeps
<1>3. ParseInv => OneMineru
  BY DEF ParseInv, UpInv, OneMineru, AtWork, Permitted
<1> QED BY <1>1, <1>2, <1>3, PTL DEF ParseSpec

-------------------------------------------------------------------------------
(* The parses implement ParseLedger. *)

\* What the statuses rest on beside ParseInv: requests are answered before the
\* tracker is shut down, a thread is the one its task waits for or has heard,
\* and the tracker registers tasks that have not ended, each for its notebook.
AnsweredInv == life # "up" => \A u \in Uploads : stage[u] \notin Handling

HeardInv == \A u \in Uploads :
    /\ stage[u] \in {"idle", "wait"} \cup Handling => thread[u] = "none"
    /\ stage[u] \in {"render", "complete"} => thread[u] = "ok"

TrackerInv ==
    /\ registry \in [Notebooks -> Uploads \cup {NoUpload}]
    /\ \A n \in Notebooks : registry[n] # NoUpload =>
          /\ registry[n] \in Uploads
          /\ Home(registry[n]) = n
          /\ stage[registry[n]] \in Working

LedgerInv == ParseInv /\ AnsweredInv /\ HeardInv /\ TrackerInv

\* The words of an upload and of a thread.
LEMMA Words ==
    /\ \A s \in Working \cup {"start"} : ClaimOf(s) = "held"
    /\ \A s \in {"done", "forgotten"} \cup Answered : ClaimOf(s) = "over"
    /\ \A s \in {"idle", "insert", "check", "query", "mark"} : ClaimOf(s) = "none"
    /\ \A t \in AtWork : WorkOf(t) = "busy"
    /\ \A t \in {"none", "ok", "raised"} : WorkOf(t) = t
BY DEF ClaimOf, WorkOf, Working, Permitted, Answered, AtWork

\* A notebook in the hands of its upload.
LEMMA AtHome ==
    ASSUME ParseInv
    PROVE  /\ home \in [Uploads -> Notebooks]
           /\ \A u \in Uploads : /\ Home(u) \in Notebooks
                                 /\ home[u] = Home(u)
                                 /\ claim[u] = ClaimOf(stage[u])
                                 /\ work[u] = WorkOf(thread[u])
BY DEF ParseInv, ParseTyped, home, Home, Notebooks, claim, work

LEMMA LedgerInitially == ASSUME ParseInit PROVE LedgerInv /\ Ledger!Init
<1>1. ParseInv
  BY ParseInitially
<1>2. /\ \A u \in Uploads : stage[u] = "idle" /\ thread[u] = "none"
      /\ \A n \in Notebooks : registry[n] = NoUpload /\ status[n] = "pending"
      /\ registry \in [Notebooks -> Uploads \cup {NoUpload}]
      /\ status = [n \in Notebooks |-> "pending"]
      /\ life = "down"
  BY DEF ParseInit
<1>3. AnsweredInv /\ HeardInv /\ TrackerInv
  BY <1>2 DEF AnsweredInv, HeardInv, TrackerInv, Handling
<1>4. claim = [u \in Uploads |-> "none"] /\ work = [u \in Uploads |-> "none"]
  BY <1>2, Words DEF claim, work
<1> QED BY <1>1, <1>2, <1>3, <1>4, AtHome DEF LedgerInv, Ledger!Init

\* One upload moves to another stage.
LEMMA ClaimMoves ==
    ASSUME ParseInv, NEW u \in Uploads, NEW s \in Stages,
           stage' = [stage EXCEPT ![u] = s], bookOf' = bookOf
    PROVE  /\ home' = home
           /\ claim' = [claim EXCEPT ![u] = ClaimOf(s)]
           /\ stage'[u] = s
           /\ \A v \in Uploads \ {u} : stage'[v] = stage[v]
BY DEF ParseInv, ParseTyped, home, Home, claim

LEMMA SameClaims ==
    ASSUME stage' = stage, bookOf' = bookOf PROVE home' = home /\ claim' = claim
BY DEF home, Home, claim

LEMMA SameWork == ASSUME thread' = thread PROVE work' = work
BY DEF work

LEMMA WorkMoves ==
    ASSUME ParseInv, NEW u \in Uploads, NEW t \in ThreadStates, thread' = [thread EXCEPT ![u] = t]
    PROVE  work' = [work EXCEPT ![u] = WorkOf(t)]
BY DEF ParseInv, ParseTyped, work

\* A job that lets go of its claim alone, with or without a word.
LEMMA SettlesAlone ==
    ASSUME ParseInv, NEW u \in Uploads, stage[u] \in Working \cup {"start"},
           NEW s \in Stages, ClaimOf(s) = "over",
           stage' = [stage EXCEPT ![u] = s], UNCHANGED <<bookOf, thread, life>>,
           \/ status' = status
           \/ \E w : status' = [status EXCEPT ![Home(u)] = w] /\ Ledger!Word(u, w)
    PROVE  Ledger!Next
<1>0. bookOf' = bookOf /\ thread' = thread
  OBVIOUS
<1>1. /\ home' = home /\ claim' = [claim EXCEPT ![u] = "over"] /\ work' = work
  <2>1. claim' = [claim EXCEPT ![u] = ClaimOf(s)] /\ home' = home
    BY <1>0, ClaimMoves
  <2> QED BY <1>0, <2>1, SameWork
<1>2. claim[u] = "held" /\ home[u] = Home(u) /\ Home(u) \in Notebooks
  BY AtHome, Words
<1>3. claim' = [j \in Uploads |-> IF j \in {u} THEN "over" ELSE claim[j]]
  BY <1>1 DEF claim
<1>4. status \in [Notebooks -> {"pending", "running", "complete", "failed"}]
  BY DEF ParseInv, ParseTyped, Statuses
<1>5. /\ status' \in [Notebooks -> {"pending", "running", "complete", "failed"}]
      /\ \A n \in Notebooks :
            status'[n] # status[n] => \E j \in {u} : home[j] = n /\ Ledger!Word(j, status'[n])
  BY <1>2, <1>4 DEF Ledger!Word
<1>6. Ledger!Settle({u})
  BY <1>1, <1>2, <1>3, <1>5 DEF Ledger!Settle, Ledger!Held
<1> QED BY <1>6 DEF Ledger!Next

\* The handler, up to the tracker.
LEMMA HandlerMaps ==
    ASSUME LedgerInv, NEW u \in Uploads, Upload(u) \/ HandlerStep(u)
    PROVE  (AnsweredInv /\ HeardInv /\ TrackerInv)' /\ [Ledger!Next]_Ledger!vars
<1> USE DEF LedgerInv
<1>0. stage[u] \in {"idle"} \cup Handling /\ UNCHANGED <<bookOf, thread, life>>
  BY DEF Upload, HandlerStep, InsertPaper, CheckTracker, HasRunningParse, MarkRunning,
         StartParse, Handling
<1>1. PICK s \in Stages : /\ stage' = [stage EXCEPT ![u] = s]
                          /\ s \in {"wait"} \cup Handling \cup Answered
  BY DEF Upload, HandlerStep, InsertPaper, CheckTracker, HasRunningParse, MarkRunning,
         StartParse, StageTo, Stages, Handling, Answered, Working
<1>2. /\ home' = home /\ work' = work
      /\ claim' = [claim EXCEPT ![u] = ClaimOf(s)]
      /\ stage'[u] = s
      /\ \A v \in Uploads \ {u} : stage'[v] = stage[v]
  BY <1>0, <1>1, ClaimMoves, SameWork
<1>3. life = "up"
  <2>1. CASE Upload(u)
    BY <2>1 DEF Upload
  <2>2. CASE HandlerStep(u)
    BY <2>2 DEF AnsweredInv, HandlerStep, InsertPaper, CheckTracker, HasRunningParse,
                MarkRunning, StartParse, Handling
  <2> QED BY <2>1, <2>2
<1>4. AnsweredInv' /\ HeardInv'
  BY <1>0, <1>1, <1>2, <1>3 DEF AnsweredInv, HeardInv, Handling, Answered
<1>5. \/ registry' = registry
      \/ registry' = [registry EXCEPT ![Home(u)] = u] /\ s = "wait"
  <2>1. CASE StartParse(u)
    <3>1. CASE stage' = [stage EXCEPT ![u] = "wait"]
      BY <1>2, <2>1, <3>1 DEF StartParse, StageTo, ParseInv, ParseTyped
    <3> QED BY <2>1, <3>1 DEF StartParse, StageTo
  <2> QED BY <2>1 DEF Upload, HandlerStep, InsertPaper, CheckTracker, HasRunningParse, MarkRunning
<1>6. TrackerInv'
  <2>1. Home(u) \in Notebooks /\ bookOf' = bookOf
    BY <1>0, AtHome
  <2>2. "wait" \in Working /\ stage[u] \notin Working
    BY <1>0 DEF Working, Permitted, Handling
  <2>3. registry \in [Notebooks -> Uploads \cup {NoUpload}]
    BY DEF TrackerInv
  <2>4. ASSUME NEW n \in Notebooks, NEW v, v = registry'[n], v # NoUpload
        PROVE  v \in Uploads /\ Home(v) = n /\ stage'[v] \in Working
    <3>1. CASE v = registry[n]
      BY <1>2, <2>2, <2>4, <3>1 DEF TrackerInv
    <3>2. CASE v # registry[n]
      <4>1. v = u /\ n = Home(u) /\ s = "wait"
        BY <1>5, <2>1, <2>3, <2>4, <3>2
      <4> QED BY <1>2, <2>2, <4>1
    <3> QED BY <3>1, <3>2
  <2>5. registry' \in [Notebooks -> Uploads \cup {NoUpload}]
    BY <1>5, <2>3
  <2> QED BY <2>1, <2>4, <2>5 DEF TrackerInv, Home
<1>7. CASE Upload(u) \/ InsertPaper(u) \/ CheckTracker(u) \/ HasRunningParse(u)
  <2>1. /\ status' = status /\ stage[u] \in {"idle", "insert", "check", "query"}
        /\ s \in {"insert", "check", "query", "mark", "existing", "refused"}
    BY <1>2, <1>7 DEF Upload, InsertPaper, CheckTracker, HasRunningParse, StageTo, ParseInv, ParseTyped
  <2>2. claim[u] = "none" /\ ClaimOf(s) \in {"none", "over"}
    BY <2>1, AtHome, Words DEF Answered
  <2>3. CASE ClaimOf(s) = "none"
    <3>1. claim' = claim
      BY <1>2, <2>2, <2>3 DEF claim
    <3> QED BY <1>0, <1>2, <1>4, <1>6, <2>1, <3>1 DEF Ledger!vars
  <2>4. CASE ClaimOf(s) = "over"
    <3>1. Ledger!Refuse(u)
      BY <1>0, <1>2, <2>1, <2>2, <2>4 DEF Ledger!Refuse
    <3> QED BY <1>4, <1>6, <3>1 DEF Ledger!Next
  <2> QED BY <2>2, <2>3, <2>4
<1>8. CASE MarkRunning(u)
  <2>1. stage[u] = "mark" /\ claim[u] = "none" /\ home[u] = Home(u)
    BY <1>8, AtHome, Words DEF MarkRunning
  <2>2. CASE stage' = [stage EXCEPT ![u] = "start"] /\ status' = [status EXCEPT ![Home(u)] = "running"]
    <3>1. ClaimOf(s) = "held"
      BY <1>2, <2>2, Words DEF ParseInv, ParseTyped
    <3>2. Ledger!Mark(u)
      BY <1>0, <1>2, <1>3, <2>1, <2>2, <3>1 DEF Ledger!Mark
    <3> QED BY <1>4, <1>6, <3>2 DEF Ledger!Next
  <2>3. CASE stage' = [stage EXCEPT ![u] = "error"] /\ status' = status
    <3>1. ClaimOf(s) = "over"
      BY <1>2, <2>3, Words DEF ParseInv, ParseTyped, Answered
    <3>2. Ledger!Refuse(u)
      BY <1>0, <1>2, <2>1, <2>3, <3>1 DEF Ledger!Refuse
    <3> QED BY <1>4, <1>6, <3>2 DEF Ledger!Next
  <2> QED BY <1>8, <2>2, <2>3 DEF MarkRunning, StageTo, StatusOf
<1>9. CASE StartParse(u)
  <2>1. stage[u] = "start" /\ claim[u] = "held" /\ status' = status /\ s \in {"wait", "error"}
    BY <1>2, <1>9, AtHome, Words DEF StartParse, StageTo, ParseInv, ParseTyped
  <2>2. CASE s = "wait"
    <3>1. claim' = claim
      BY <1>2, <2>1, <2>2, Words DEF claim, Working
    <3> QED BY <1>0, <1>2, <1>4, <1>6, <2>1, <3>1 DEF Ledger!vars
  <2>3. CASE s = "error"
    <3>1. ClaimOf(s) = "over" /\ stage[u] \in Working \cup {"start"} /\ ParseInv
      BY <2>1, <2>3, Words DEF Answered
    <3>2. Ledger!Next
      BY <1>0, <1>1, <2>1, <3>1, SettlesAlone
    <3> QED BY <1>4, <1>6, <3>2
  <2> QED BY <2>1, <2>2, <2>3
<1> QED BY <1>7, <1>8, <1>9 DEF HandlerStep

\* A task that waits, parses or writes, and the thread that works for it.
LEMMA TaskMaps ==
    ASSUME LedgerInv, NEW u \in Uploads, ParseStep(u)
    PROVE  (AnsweredInv /\ HeardInv /\ TrackerInv)' /\ [Ledger!Next]_Ledger!vars
<1> USE DEF LedgerInv
<1>0. stage[u] \in Working /\ bookOf' = bookOf /\ life' = life
  BY DEF ParseStep, AcquirePermit, MineruReturned, Rendered, WriteOutcome, WriteRaises,
         Working, Permitted
<1>1. PICK s \in {"done"} \cup Permitted : stage' = [stage EXCEPT ![u] = s]
  BY DEF ParseStep, AcquirePermit, MineruReturned, Rendered, WriteOutcome, WriteRaises,
         ParseDone, StageTo, Permitted
<1>2. /\ home' = home /\ claim' = [claim EXCEPT ![u] = ClaimOf(s)]
      /\ stage'[u] = s /\ s \in Stages
      /\ \A v \in Uploads \ {u} : stage'[v] = stage[v]
  <2>1. s \in Stages
    BY DEF Stages, Working
  <2> QED BY <1>0, <1>1, <2>1, ClaimMoves
<1>3. /\ AnsweredInv'
      /\ stage[u] \in Working \cup {"start"}
      /\ claim[u] = "held"
  <2>1. s \notin Handling
    BY DEF Handling, Permitted
  <2> QED BY <1>0, <1>2, <2>1, AtHome, Words DEF AnsweredInv
<1>4. CASE AcquirePermit(u)
  <2>1. /\ stage[u] = "wait" /\ u = Head(queue) /\ s = "mineru"
        /\ thread' = [thread EXCEPT ![u] = "spawn"]
        /\ UNCHANGED <<status, registry>>
    BY <1>2, <1>4 DEF AcquirePermit, StageTo, ParseInv, ParseTyped
  <2>2. HeardInv'
    BY <1>2, <2>1 DEF HeardInv, Handling, ParseInv, ParseTyped
  <2>3. TrackerInv'
    BY <1>0, <1>2, <2>1 DEF TrackerInv, Home, Working, Permitted
  <2>4. claim' = claim
    BY <1>2, <2>1, Words DEF claim, Working, Permitted
  <2>5. work[u] = "none" /\ work' = [work EXCEPT ![u] = "busy"]
    <3>1. "spawn" \in ThreadStates /\ WorkOf("spawn") = "busy" /\ ParseInv
      BY Words DEF ThreadStates, AtWork
    <3>2. thread[u] = "none"
      BY <2>1 DEF HeardInv
    <3>3. work' = [work EXCEPT ![u] = WorkOf("spawn")]
      BY <2>1, <3>1, WorkMoves
    <3>4. work[u] = WorkOf("none")
      BY <3>1, <3>2, AtHome
    <3> QED BY <3>1, <3>3, <3>4, Words
  <2>6. ASSUME life = "up", NEW v \in Uploads, work[v] = "busy" PROVE FALSE
    <3>1. thread[v] \in AtWork
      BY <2>6, AtHome, Words DEF ParseInv, ParseTyped, ThreadStates
    <3>2. v = queue[1] /\ stage[v] = "mineru"
      BY <2>6, <3>1 DEF ParseInv, UpInv, Permitted
    <3>3. u = queue[1]
      BY <2>1
    <3> QED BY <2>1, <3>2, <3>3
  <2>7. Ledger!Begin(u)
    BY <1>0, <1>2, <1>3, <2>1, <2>4, <2>5, <2>6 DEF Ledger!Begin, Ledger!Busy
  <2> QED BY <1>3, <2>2, <2>3, <2>7 DEF Ledger!Next
<1>5. CASE MineruReturned(u) \/ Rendered(u)
  <2>1. /\ s \in {"render", "complete", "failed"}
        /\ s \in {"render", "complete"} => thread[u] = "ok"
        /\ UNCHANGED <<status, registry, thread>>
    BY <1>2, <1>5 DEF MineruReturned, Rendered, StageTo, HeardInv, ParseInv, ParseTyped
  <2>2. HeardInv'
    BY <1>2, <2>1 DEF HeardInv, Handling
  <2>3. TrackerInv'
    BY <1>0, <1>2, <2>1 DEF TrackerInv, Home, Working, Permitted
  <2>4. claim' = claim /\ work' = work
    <3>1. claim' = claim
      BY <1>2, <1>3, <2>1, Words DEF claim, Working, Permitted
    <3> QED BY <2>1, <3>1, SameWork
  <2> QED BY <1>0, <1>2, <1>3, <2>1, <2>2, <2>3, <2>4 DEF Ledger!vars
<1>6. CASE WriteOutcome(u) \/ WriteRaises(u)
  <2>1. /\ s = "done" /\ ClaimOf(s) = "over" /\ thread' = thread
        /\ registry' = [registry EXCEPT ![Home(u)] = IF @ = u THEN NoUpload ELSE @]
    BY <1>2, <1>6, Words DEF WriteOutcome, WriteRaises, ParseDone, StageTo, Unregister,
                             ParseInv, ParseTyped
  <2>2. HeardInv'
    BY <1>2, <2>1 DEF HeardInv, Handling
  <2>3. TrackerInv'
    <3>1. registry \in [Notebooks -> Uploads \cup {NoUpload}] /\ Home(u) \in Notebooks
      BY AtHome DEF TrackerInv
    <3>2. registry' \in [Notebooks -> Uploads \cup {NoUpload}]
      BY <2>1, <3>1
    <3>3. ASSUME NEW n \in Notebooks, NEW v, v = registry'[n], v # NoUpload
          PROVE  v \in Uploads /\ Home(v) = n /\ stage'[v] \in Working
      <4>1. v = registry[n]
        BY <2>1, <3>1, <3>3
      <4>2. v \in Uploads /\ Home(v) = n /\ stage[v] \in Working
        BY <3>3, <4>1 DEF TrackerInv
      <4>3. v # u
        BY <2>1, <3>1, <3>3, <4>1, <4>2
      <4> QED BY <1>2, <4>2, <4>3
    <3> QED BY <1>0, <3>2, <3>3 DEF TrackerInv, Home
  <2>4. \/ status' = status
        \/ \E w : status' = [status EXCEPT ![Home(u)] = w] /\ Ledger!Word(u, w)
    <3>1. CASE WriteOutcome(u)
      <4>1. status' = [status EXCEPT ![Home(u)] = Written(u)]
        BY <3>1 DEF WriteOutcome, StatusOf
      <4>2. Ledger!Word(u, Written(u))
        BY AtHome, Words DEF Ledger!Word, Written, HeardInv
      <4> QED BY <4>1, <4>2
    <3>2. CASE WriteRaises(u)
      BY <3>2 DEF WriteRaises
    <3> QED BY <1>6, <3>1, <3>2
  <2>5. ParseInv /\ s \in Stages /\ UNCHANGED <<bookOf, thread, life>>
    BY <1>0, <1>2, <2>1
  <2>6. Ledger!Next
    BY <1>1, <1>3, <2>1, <2>4, <2>5, SettlesAlone
  <2> QED BY <1>3, <2>2, <2>3, <2>6
<1> QED BY <1>4, <1>5, <1>6 DEF ParseStep

LEMMA ThreadMaps ==
    ASSUME LedgerInv, NEW u \in Uploads, ThreadStep(u) \/ OrphanEnds(u)
    PROVE  (AnsweredInv /\ HeardInv /\ TrackerInv)' /\ [Ledger!Next]_Ledger!vars
<1> USE DEF LedgerInv
<1>1. UNCHANGED <<status, stage, bookOf, registry, life>>
  BY DEF ThreadStep, SpawnMineru, RegisterMineru, Communicated, OrphanEnds, ThreadRest
<1>2. AnsweredInv' /\ TrackerInv' /\ home' = home /\ claim' = claim
  <2>1. stage' = stage /\ bookOf' = bookOf
    BY <1>1
  <2> QED BY <1>1, <2>1, SameClaims DEF AnsweredInv, TrackerInv, Home
<1>3. CASE OrphanEnds(u)
  <2>1. thread' = thread
    BY <1>3 DEF OrphanEnds
  <2>2. HeardInv' /\ work' = work
    BY <1>1, <2>1, SameWork DEF HeardInv
  <2> QED BY <1>1, <1>2, <2>2 DEF Ledger!vars
<1>4. CASE ThreadStep(u)
  <2>1. PICK t \in ThreadStates \ {"none", "spawn"} :
              thread[u] \in AtWork /\ thread' = [thread EXCEPT ![u] = t]
    BY <1>4 DEF ThreadStep, SpawnMineru, RegisterMineru, Communicated, ThreadTo, ThreadStates,
                AtWork
  <2>2. \A v \in Uploads : thread'[v] = thread[v] \/ thread[v] \in AtWork
    BY <2>1 DEF ParseInv, ParseTyped
  <2>3. HeardInv'
    BY <1>1, <2>2 DEF HeardInv, AtWork
  <2>4. work' = [work EXCEPT ![u] = WorkOf(t)] /\ work[u] = "busy" /\ ParseInv
    BY <2>1, WorkMoves, AtHome, Words
  <2>5. CASE t \in AtWork
    <3>1. work' = work
      BY <2>4, <2>5, Words DEF work
    <3> QED BY <1>1, <1>2, <2>3, <3>1 DEF Ledger!vars
  <2>6. CASE t \notin AtWork
    <3>1. t \in {"ok", "raised"} /\ WorkOf(t) = t
      BY <2>1, <2>6, Words DEF ThreadStates, AtWork
    <3>2. Ledger!End(u, t)
      BY <1>1, <1>2, <2>4, <3>1 DEF Ledger!End
    <3> QED BY <1>2, <2>3, <3>1, <3>2 DEF Ledger!Next
  <2> QED BY <2>5, <2>6
<1> QED BY <1>3, <1>4

\* A shutdown cancels the tasks the tracker knows: those whose coroutine ends
\* let go, and a write that was under way may be the last word of one of them.
LEMMA CancelMaps ==
    ASSUME LedgerInv, CancelParses
    PROVE  (AnsweredInv /\ HeardInv /\ TrackerInv)' /\ [Ledger!Next]_Ledger!vars
<1> USE DEF LedgerInv
<1>0. /\ life = "up" /\ life' # "up" /\ UNCHANGED <<bookOf, thread>>
      /\ \A u \in Uploads : stage[u] \notin Handling
      /\ stage' = [u \in Uploads |-> IF u \in Registered THEN CancelledTo(u) ELSE stage[u]]
      /\ registry' = [n \in Notebooks |->
             IF IsRunning(n) /\ stage'[registry[n]] # "done" THEN registry[n] ELSE NoUpload]
  BY DEF CancelParses
<1>1. Registered \subseteq Uploads /\ \A u \in Registered : stage[u] \in Working
  BY AtHome DEF Registered, TrackerInv, NoUpload, Uploads
<1>2. /\ \A u \in Registered : stage'[u] \in {"cancelled", "done"}
      /\ \A u \in Registered : stage[u] \in {"complete", "failed"} => stage'[u] = "done"
      /\ \A u \in Uploads \ Registered : stage'[u] = stage[u]
  BY <1>0, <1>1 DEF CancelledTo
<1> DEFINE L == {u \in Registered : stage'[u] = "done"}
<1>3. AnsweredInv' /\ HeardInv'
  BY <1>0, <1>1, <1>2 DEF AnsweredInv, HeardInv, Handling
<1>4. TrackerInv'
  <2>1. /\ registry \in [Notebooks -> Uploads \cup {NoUpload}]
        /\ registry' \in [Notebooks -> Uploads \cup {NoUpload}]
    BY <1>0 DEF TrackerInv
  <2>2. ASSUME NEW n \in Notebooks, NEW v, v = registry'[n], v # NoUpload
        PROVE  v \in Uploads /\ Home(v) = n /\ stage'[v] \in Working
    <3>1. v = registry[n] /\ stage'[v] # "done"
      BY <1>0, <2>2
    <3>2. v \in Uploads /\ Home(v) = n /\ v \in Registered
      BY <2>2, <3>1 DEF TrackerInv, Registered
    <3> QED BY <1>2, <3>1, <3>2 DEF Working, Permitted
  <2> QED BY <1>0, <2>1, <2>2 DEF TrackerInv, Home
<1>5. L \subseteq Ledger!Held
  BY <1>1, AtHome, Words DEF Ledger!Held
<1>6. claim' = [j \in Uploads |-> IF j \in L THEN "over" ELSE claim[j]]
  <2>1. ASSUME NEW j \in Uploads
        PROVE  ClaimOf(stage'[j]) = IF j \in L THEN "over" ELSE claim[j]
    <3>1. CASE j \in L
      BY <3>1, Words
    <3>2. CASE j \in Registered \ L
      <4>1. stage'[j] = "cancelled"
        BY <1>2, <3>2
      <4>2. "cancelled" \in Working
        BY DEF Working, Permitted
      <4> QED BY <1>1, <3>2, <4>1, <4>2, AtHome, Words
    <3>3. CASE j \notin Registered
      BY <1>2, <3>3, AtHome
    <3> QED BY <3>1, <3>2, <3>3
  <2> HIDE DEF L
  <2> QED BY <2>1 DEF claim
<1>7. /\ status' \in [Notebooks -> {"pending", "running", "complete", "failed"}]
      /\ \A n \in Notebooks :
            status'[n] # status[n] => \E j \in L : home[j] = n /\ Ledger!Word(j, status'[n])
  <2>1. PICK landed \in SUBSET {u \in Registered : stage[u] \in {"complete", "failed"}} :
              status' = [n \in Notebooks |->
                 IF registry[n] \in landed THEN Written(registry[n]) ELSE status[n]]
    BY DEF CancelParses
  <2>2. status \in [Notebooks -> {"pending", "running", "complete", "failed"}]
    BY DEF ParseInv, ParseTyped, Statuses
  <2>3. \A u : Written(u) \in {"complete", "failed"}
    BY DEF Written
  <2>4. status' \in [Notebooks -> {"pending", "running", "complete", "failed"}]
    BY <2>1, <2>2, <2>3
  <2>5. ASSUME NEW n \in Notebooks, status'[n] # status[n]
        PROVE  \E j \in L : home[j] = n /\ Ledger!Word(j, status'[n])
    <3>1. registry[n] \in landed /\ status'[n] = Written(registry[n])
      BY <2>1, <2>5
    <3>2. registry[n] \in L /\ registry[n] \in Uploads /\ registry[n] # NoUpload
      <4>1. registry[n] \in Registered /\ stage[registry[n]] \in {"complete", "failed"}
        BY <3>1
      <4>2. registry[n] \in Uploads
        BY <1>1, <4>1
      <4>3. registry[n] # NoUpload
        BY <4>2 DEF Uploads, NoUpload
      <4> QED BY <1>2, <4>1, <4>2, <4>3
    <3>3. home[registry[n]] = n
      BY <3>2, AtHome DEF TrackerInv
    <3>4. Ledger!Word(registry[n], Written(registry[n]))
      BY <3>2, AtHome, Words DEF Ledger!Word, Written, HeardInv
    <3> QED BY <3>1, <3>2, <3>3, <3>4
  <2> QED BY <2>4, <2>5
<1>8. home' = home /\ work' = work
  BY <1>0, SameWork DEF home, Home
<1>9. L \in SUBSET Uploads
  BY <1>1
<1> HIDE DEF L
<1>10. Ledger!Close(L)
  BY <1>0, <1>5, <1>6, <1>7, <1>8 DEF Ledger!Close, Ledger!Settle
<1> QED BY <1>3, <1>4, <1>9, <1>10 DEF Ledger!Next

\* The rest of the daemon's life.
LEMMA LifeMaps ==
    ASSUME LedgerInv, BootParses \/ TerminateMineru \/ Gathered \/ ProcessEnds
    PROVE  (AnsweredInv /\ HeardInv /\ TrackerInv)' /\ [Ledger!Next]_Ledger!vars
<1> USE DEF LedgerInv
<1>0. bookOf' = bookOf
  BY DEF BootParses, TerminateMineru, Gathered, ProcessEnds
<1>1. CASE BootParses
  <2>1. /\ life = "down" /\ life' = "up" /\ UNCHANGED <<stage, thread, registry>>
        /\ status' = [n \in Notebooks |-> IF status[n] = "running" THEN "failed" ELSE status[n]]
    BY <1>1 DEF BootParses
  <2>2. \A u \in Uploads : stage[u] \notin Handling \cup Working /\ thread[u] = "none"
    BY <2>1 DEF ParseInv, DownInv
  <2>3. home' = home /\ claim' = claim /\ work' = work
    BY <1>0, <2>1, SameClaims, SameWork
  <2>4. Ledger!Held = {} /\ Ledger!Busy = {}
    <3>1. \A u \in Uploads : claim[u] # "held"
      BY <2>2, AtHome DEF ClaimOf, Handling
    <3>2. \A u \in Uploads : work[u] # "busy"
      BY <2>2, AtHome, Words
    <3> QED BY <3>1, <3>2 DEF Ledger!Held, Ledger!Busy
  <2>5. Ledger!Recover
    BY <2>1, <2>3, <2>4 DEF Ledger!Recover
  <2> QED BY <1>0, <2>1, <2>5 DEF AnsweredInv, HeardInv, TrackerInv, Home, Ledger!Next
<1>2. CASE TerminateMineru
  <2>1. /\ life # "up" /\ life' # "up" /\ stage' = stage /\ thread' = thread
        /\ UNCHANGED <<status, registry>>
    BY <1>2 DEF TerminateMineru
  <2>2. home' = home /\ claim' = claim /\ work' = work
    BY <1>0, <2>1, SameClaims, SameWork
  <2>3. (life = "up") = FALSE /\ (life' = "up") = FALSE
    BY <2>1
  <2> QED BY <1>0, <2>1, <2>2, <2>3 DEF AnsweredInv, HeardInv, TrackerInv, Home, Ledger!vars
<1>3. CASE Gathered
  <2>1. /\ life # "up" /\ life' # "up" /\ thread' = thread /\ status' = status
        /\ stage' = [u \in Uploads |-> IF u \in Registered THEN "done" ELSE stage[u]]
        /\ registry' = [n \in Notebooks |-> NoUpload]
    BY <1>3 DEF Gathered
  <2>2. Registered \subseteq Uploads /\ \A u \in Registered : stage[u] \in Working
    BY AtHome DEF Registered, TrackerInv, NoUpload, Uploads
  <2>3. AnsweredInv' /\ HeardInv' /\ TrackerInv'
    BY <2>1 DEF AnsweredInv, HeardInv, TrackerInv, Handling
  <2>4. Registered \subseteq Ledger!Held
    BY <2>2, AtHome, Words DEF Ledger!Held
  <2>5. claim' = [j \in Uploads |-> IF j \in Registered THEN "over" ELSE claim[j]]
    <3>1. \A j \in Uploads :
             ClaimOf(stage'[j]) = IF j \in Registered THEN "over" ELSE ClaimOf(stage[j])
      BY <2>1, Words
    <3> QED BY <3>1 DEF claim
  <2>6. home' = home /\ work' = work
    BY <1>0, <2>1, SameWork DEF home, Home
  <2>7. status \in [Notebooks -> {"pending", "running", "complete", "failed"}]
    BY DEF ParseInv, ParseTyped, Statuses
  <2>8. Ledger!Settle(Registered)
    BY <2>1, <2>4, <2>5, <2>6, <2>7 DEF Ledger!Settle
  <2>9. (life = "up") = FALSE /\ (life' = "up") = FALSE
    BY <2>1
  <2> QED BY <2>2, <2>3, <2>8, <2>9 DEF Ledger!Next
<1>4. CASE ProcessEnds
  <2>1. /\ life' = "down" /\ status' = status
        /\ stage' = [u \in Uploads |-> IF stage[u] \in Handling \cup Working
                                       THEN "forgotten" ELSE stage[u]]
        /\ registry' = [n \in Notebooks |-> NoUpload]
        /\ thread' = [u \in Uploads |-> "none"]
    BY <1>4 DEF ProcessEnds
  <2>2. \A u \in Uploads : stage'[u] \in {"idle", "done", "forgotten"} \cup Answered
    BY <2>1 DEF ParseInv, ParseTyped, Stages
  <2>3. AnsweredInv' /\ HeardInv' /\ TrackerInv'
    BY <2>1, <2>2 DEF AnsweredInv, HeardInv, TrackerInv, Handling, Answered
  <2>4. /\ claim' \in [Uploads -> {"none", "over"}]
        /\ \A j \in Uploads : claim[j] = "over" => claim'[j] = "over"
    <3>1. \A j \in Uploads : ClaimOf(stage'[j]) \in {"none", "over"}
      BY <2>2, Words
    <3>2. ASSUME NEW j \in Uploads, claim[j] = "over" PROVE ClaimOf(stage'[j]) = "over"
      <4>1. stage[j] \notin {"idle"}
        BY <3>2, AtHome, Words
      <4>2. stage'[j] # "idle"
        BY <2>1, <4>1
      <4> QED BY <2>2, <4>2, Words
    <3> QED BY <3>1, <3>2 DEF claim
  <2>5. work' = [j \in Uploads |-> "none"]
    BY <2>1, Words DEF work
  <2>6. home' = home
    BY <1>0 DEF home, Home
  <2>7. Ledger!Die
    BY <2>1, <2>4, <2>5, <2>6 DEF Ledger!Die
  <2> QED BY <2>3, <2>7 DEF Ledger!Next
<1> QED BY <1>1, <1>2, <1>3, <1>4

LEMMA LedgerStep ==
    ASSUME LedgerInv, [ParseNext]_parseVars
    PROVE  LedgerInv' /\ [Ledger!Next]_Ledger!vars
<1>1. ParseInv'
  BY ParseStepKeeps DEF LedgerInv
<1>2. CASE UNCHANGED parseVars \/ \E b \in Books : RemovePaper(b)
  <2>1. /\ stage' = stage /\ bookOf' = bookOf /\ thread' = thread
        /\ UNCHANGED <<status, registry, life>>
    BY <1>2 DEF parseVars, RemovePaper
  <2>2. home' = home /\ claim' = claim /\ work' = work
    BY <2>1, SameClaims, SameWork
  <2> QED BY <1>1, <2>1, <2>2 DEF LedgerInv, AnsweredInv, HeardInv, TrackerInv, Home, Ledger!vars
<1>3. ASSUME NEW u \in Uploads,
             Upload(u) \/ HandlerStep(u) \/ ParseStep(u) \/ ThreadStep(u) \/ OrphanEnds(u)
      PROVE  LedgerInv' /\ [Ledger!Next]_Ledger!vars
  BY <1>1, <1>3, HandlerMaps, TaskMaps, ThreadMaps DEF LedgerInv
<1>4. CASE BootParses \/ CancelParses \/ TerminateMineru \/ Gathered \/ ProcessEnds
  BY <1>1, <1>4, CancelMaps, LifeMaps DEF LedgerInv
<1> QED BY <1>2, <1>3, <1>4 DEF ParseNext

\* upload_paper, _run_parse, ParseTaskTracker and mark_orphaned_parses_failed
\* together keep the ledger of parse statuses, for any number of uploads,
\* notebooks, starts and failing writes: each step is one of ParseLedger or
\* leaves its variables alone.
THEOREM ParsesImplementLedger == ParseSpec => ImplementsParseLedger
<1>1. ParseInit => LedgerInv /\ Ledger!Init
  BY LedgerInitially
<1>2. LedgerInv /\ [ParseNext]_parseVars => LedgerInv' /\ [Ledger!Next]_Ledger!vars
  BY LedgerStep
<1> QED BY <1>1, <1>2, PTL DEF ParseSpec, ImplementsParseLedger, Ledger!Spec
-------------------------------------------------------------------------------
(***************************************************************************)
(* Types.  That whoever stands in the queue is a task at work is not       *)
(* inductive by itself: the task that ends must stand there once, and      *)
(* after a shutdown no handler may be left to answer its request.          *)
(***************************************************************************)
QueueInv ==
    /\ queue \in Seq(Uploads) /\ OnceEach(queue)
    /\ \A i \in DOMAIN queue : stage[queue[i]] \in Working

BoundsInv ==
    /\ junction \subseteq Books
    /\ mineru \in [Uploads -> {"none", "live", "dead"}]
    /\ life \in {"down", "up", "cancelled", "gathering", "closed"}
    /\ lives \in 0 .. MaxLives
    /\ errors \in 0 .. MaxErrors

ParseTypeInv == LedgerInv /\ QueueInv /\ BoundsInv

\* A queue that some have left is a queue of the others, in which each stands once.
LEMMA InLineIs ==
    ASSUME QueueInv, NEW T \in SUBSET Queued, NEW q \in InLine(T)
    PROVE  q \in Seq(Uploads) /\ OnceEach(q) /\ \A i \in DOMAIN q : q[i] \in T
<1>1. T \subseteq Uploads /\ IsFiniteSet(Uploads)
  BY FS_Interval, ParseBoundsAssumption DEF QueueInv, Queued, Uploads
<1>2. Cardinality(T) \in Nat
  BY <1>1, FS_Subset, FS_CardinalityType
<1>3. /\ q \in [1 .. Cardinality(T) -> T]
      /\ \A i, j \in DOMAIN q : i < j =>
            \E k, l \in DOMAIN queue : k < l /\ queue[k] = q[i] /\ queue[l] = q[j]
  BY DEF InLine
<1> DEFINE n == Cardinality(T)
<1> HIDE DEF n
<1>4. q \in Seq(Uploads) /\ DOMAIN q = 1 .. n /\ \A i \in 1 .. n : q[i] \in T
  BY <1>1, <1>2, <1>3 DEF n
<1>5. ASSUME NEW i \in 1 .. n, NEW j \in 1 .. n, i < j PROVE q[i] # q[j]
  <2>1. PICK k \in DOMAIN queue, l \in DOMAIN queue :
            k < l /\ queue[k] = q[i] /\ queue[l] = q[j]
    BY <1>3, <1>4, <1>5
  <2>2. k # l
    BY <2>1 DEF QueueInv
  <2> QED BY <2>1, <2>2 DEF QueueInv, OnceEach
<1>6. OnceEach(q)
  <2> SUFFICES ASSUME NEW i \in 1 .. n, NEW j \in 1 .. n, q[i] = q[j] PROVE i = j
    BY <1>4 DEF OnceEach
  <2>1. ~(i < j) /\ ~(j < i)
    BY <1>5
  <2> QED BY <1>2, <2>1 DEF n
<1> QED BY <1>4, <1>6

LEMMA QueueKeeps ==
    ASSUME LedgerInv, QueueInv, LedgerInv', [ParseNext]_parseVars
    PROVE  QueueInv'
<1>1. CASE life' = "up"
  BY <1>1 DEF LedgerInv, ParseInv, UpInv, QueueInv
<1>2. CASE life' = "down"
  <2>1. queue' = << >>
    BY <1>2 DEF LedgerInv, ParseInv, DownInv
  <2> QED BY <2>1 DEF QueueInv, OnceEach
<1>3. CASE UNCHANGED <<stage, queue>>
  BY <1>3 DEF QueueInv
<1>4. ASSUME NEW u \in Uploads, ParseStep(u) PROVE QueueInv'
  <2>0. stage \in [Uploads -> Stages]
    BY DEF LedgerInv, ParseInv, ParseTyped
  <2>1. CASE AcquirePermit(u) \/ MineruReturned(u) \/ Rendered(u)
    <3>1. /\ queue' = queue
          /\ \E s \in Working : stage' = [stage EXCEPT ![u] = s]
      BY <2>1 DEF AcquirePermit, MineruReturned, Rendered, StageTo, Working, Permitted
    <3> QED BY <2>0, <3>1 DEF QueueInv
  <2>2. CASE WriteOutcome(u) \/ WriteRaises(u)
    <3>1. stage' = [stage EXCEPT ![u] = "done"] /\ queue' = RemoveFirst(queue, u)
      BY <2>2 DEF WriteOutcome, WriteRaises, ParseDone, StageTo, Others
    <3> DEFINE q == RemoveFirst(queue, u)
    <3>2. /\ q \in Seq(Uploads) /\ OnceEach(q)
          /\ \A v : Has(q, v) <=> v # u /\ Has(queue, v)
      BY LeavesIt DEF QueueInv
    <3> HIDE DEF q
    <3>3. ASSUME NEW i \in DOMAIN q PROVE stage'[q[i]] \in Working
      <4>1. q[i] # u /\ Has(queue, q[i]) /\ q[i] \in Uploads
        BY <3>2 DEF Has
      <4> QED BY <2>0, <3>1, <4>1 DEF QueueInv, Has
    <3>4. queue' = q
      BY <3>1 DEF q
    <3> QED BY <3>2, <3>3, <3>4 DEF QueueInv
  <2> QED BY <1>4, <2>1, <2>2 DEF ParseStep
<1>5. CASE CancelParses
  <2>1. PICK T \in SUBSET Queued : queue' \in InLine(T) /\ \A v \in T : stage'[v] \in Working
    BY <1>5 DEF CancelParses
  <2> QED BY <2>1, InLineIs DEF QueueInv
<1>6. CASE Gathered
  <2>1. /\ queue' \in InLine(Queued \ Registered)
        /\ stage' = [u \in Uploads |-> IF u \in Registered THEN "done" ELSE stage[u]]
    BY <1>6 DEF Gathered
  <2>2. \A v \in Queued \ Registered : stage'[v] \in Working
    BY <2>1 DEF QueueInv, Queued
  <2> QED BY <2>1, <2>2, InLineIs DEF QueueInv
<1>7. ASSUME NEW u \in Uploads, HandlerStep(u), life' # "up" PROVE FALSE
  <2>1. stage[u] \in Handling /\ life' = life
    BY <1>7 DEF HandlerStep, InsertPaper, CheckTracker, HasRunningParse, MarkRunning, StartParse,
                Handling
  <2> QED BY <1>7, <2>1 DEF LedgerInv, AnsweredInv
<1>8. ASSUME NEW u \in Uploads, Upload(u) PROVE life' = "up"
  BY <1>8 DEF Upload
<1>9. ASSUME NEW u \in Uploads, ThreadStep(u) \/ OrphanEnds(u)
      PROVE  UNCHANGED <<stage, queue>>
  BY <1>9 DEF ThreadStep, SpawnMineru, RegisterMineru, Communicated, OrphanEnds, ThreadRest
<1>10. ASSUME NEW b \in Books, RemovePaper(b) PROVE UNCHANGED <<stage, queue>>
  BY <1>10 DEF RemovePaper
<1>11. TerminateMineru => UNCHANGED <<stage, queue>>
  BY DEF TerminateMineru
<1>12. (BootParses => life' = "up") /\ (ProcessEnds => life' = "down")
  BY DEF BootParses, ProcessEnds
<1>13. UNCHANGED parseVars => UNCHANGED <<stage, queue>>
  BY DEF parseVars
<1> QED BY <1>1, <1>2, <1>3, <1>4, <1>5, <1>6, <1>7, <1>8, <1>9, <1>10, <1>11, <1>12, <1>13
        DEF ParseNext

LEMMA BoundsKeep ==
    ASSUME LedgerInv, BoundsInv, [ParseNext]_parseVars
    PROVE  BoundsInv'
<1> USE ParseBoundsAssumption DEF BoundsInv
<1>1. ASSUME NEW u \in Uploads, Upload(u) \/ HandlerStep(u) PROVE BoundsInv'
  <2>1. bookOf[u] \in Books
    BY DEF LedgerInv, ParseInv, ParseTyped
  <2>2. UNCHANGED <<mineru, life, lives>>
    BY <1>1 DEF Upload, HandlerStep, InsertPaper, CheckTracker, HasRunningParse, MarkRunning,
                StartParse, parseBounds
  <2>3. junction' \subseteq Books
    BY <1>1, <2>1 DEF Upload, HandlerStep, InsertPaper, CheckTracker, HasRunningParse,
                      MarkRunning, StartParse
  <2>4. errors' = errors \/ (errors < MaxErrors /\ errors' = errors + 1)
    BY <1>1 DEF Upload, HandlerStep, InsertPaper, CheckTracker, HasRunningParse, MarkRunning,
                StartParse, parseBounds, Raises
  <2> QED BY <2>2, <2>3, <2>4
<1>2. ASSUME NEW u \in Uploads, ParseStep(u) PROVE BoundsInv'
  <2>1. UNCHANGED <<junction, mineru, life, lives>>
    BY <1>2 DEF ParseStep, AcquirePermit, MineruReturned, Rendered, WriteOutcome, WriteRaises,
                parseBounds
  <2>2. errors' = errors \/ (errors < MaxErrors /\ errors' = errors + 1)
    BY <1>2 DEF ParseStep, AcquirePermit, MineruReturned, Rendered, WriteOutcome, WriteRaises,
                parseBounds, Raises
  <2> QED BY <2>1, <2>2
<1>3. ASSUME NEW u \in Uploads, ThreadStep(u) \/ OrphanEnds(u) PROVE BoundsInv'
  <2>1. UNCHANGED <<junction, life, lives, errors>>
    BY <1>3 DEF ThreadStep, SpawnMineru, RegisterMineru, Communicated, OrphanEnds, ThreadRest,
                parseBounds
  <2>2. mineru' = mineru \/ \E m \in {"live", "dead"} : mineru' = [mineru EXCEPT ![u] = m]
    BY <1>3 DEF ThreadStep, SpawnMineru, RegisterMineru, Communicated, OrphanEnds
  <2> QED BY <2>1, <2>2
<1>4. CASE \E b \in Books : RemovePaper(b)
  BY <1>4 DEF RemovePaper, parseBounds
<1>5. CASE BootParses
  BY <1>5 DEF BootParses
<1>6. CASE CancelParses \/ TerminateMineru \/ Gathered \/ ProcessEnds
  <2>1. UNCHANGED <<junction, lives, errors>>
    BY <1>6 DEF CancelParses, TerminateMineru, Gathered, ProcessEnds, parseBounds
  <2>2. life' \in {"down", "cancelled", "gathering", "closed"}
    BY <1>6 DEF CancelParses, TerminateMineru, Gathered, ProcessEnds
  <2>3. mineru' = mineru \/ mineru' = [u \in Uploads |-> IF thread[u] = "registered" THEN "dead"
                                                         ELSE mineru[u]]
    BY <1>6 DEF CancelParses, TerminateMineru, Gathered, ProcessEnds
  <2> QED BY <2>1, <2>2, <2>3
<1>7. CASE UNCHANGED parseVars
  BY <1>7 DEF parseVars
<1> QED BY <1>1, <1>2, <1>3, <1>4, <1>5, <1>6, <1>7 DEF ParseNext

\* upload_paper, ParseTaskTracker and run_mineru_sandboxed: every variable of the
\* parses keeps its type, and whoever queues for the permit is a task at work,
\* while the daemon is up and on its way down.
THEOREM ParseTypeCorrect == ParseSpec => []ParseTypeOK
<1>1. ParseInit => ParseTypeInv
  <2> SUFFICES ASSUME ParseInit PROVE ParseTypeInv
    OBVIOUS
  <2>1. QueueInv
    BY DEF ParseInit, QueueInv, OnceEach
  <2>2. BoundsInv
    BY ParseBoundsAssumption DEF ParseInit, BoundsInv
  <2> QED BY <2>1, <2>2, LedgerInitially DEF ParseTypeInv
<1>2. ParseTypeInv /\ [ParseNext]_parseVars => ParseTypeInv'
  BY LedgerStep, QueueKeeps, BoundsKeep DEF ParseTypeInv
<1>3. ParseTypeInv => ParseTypeOK
  BY DEF ParseTypeInv, LedgerInv, ParseInv, ParseTyped, TrackerInv, QueueInv, BoundsInv,
         ParseTypeOK, Statuses, ThreadStates, AtWork
<1> QED BY <1>1, <1>2, <1>3, PTL DEF ParseSpec

\* The refresher and the orders keep the types of the sentinel.
LEMMA SentStep == SentTypeOK /\ [SentNext]_sentVars => SentTypeOK'
<1> SUFFICES ASSUME SentTypeOK, [SentNext]_sentVars PROVE SentTypeOK'
  OBVIOUS
<1> USE SentinelBoundsAssumption DEF SentTypeOK
<1>1. CASE Tick
  <2>1. /\ tick' \in {"sleep", "usage", "write", "exists", "read", "unlink"}
        /\ sentinel' \in Reasons /\ failures' \in 0 .. MaxTicks
    BY <1>1 DEF Tick, Wake, DiskUsage, WritePause, TickFails, SentinelExists, ReadReason, Unlink,
                TickTo, Levels, Reasons
  <2>2. TickRest
    BY <1>1 DEF Tick, Wake, DiskUsage, WritePause, TickFails, SentinelExists, ReadReason, Unlink
  <2> QED BY <2>1, <2>2 DEF TickRest
<1>2. CASE DiskMoves \/ StopDaemon \/ DeltaStarts \/ DeltaEnds
  BY <1>2 DEF DiskMoves, StopDaemon, DeltaStarts, DeltaEnds
<1>3. CASE \E write \in BOOLEAN : Order(write)
  BY <1>3 DEF Order, Reasons
<1>4. CASE UNCHANGED sentVars
  BY <1>4 DEF sentVars
<1> QED BY <1>1, <1>2, <1>3, <1>4 DEF SentNext

\* refresh_disk_free_metric, the operator's orders and the delta loop: every
\* variable of the sentinel keeps its type.
THEOREM SentTypeCorrect == SentSpec => []SentTypeOK
<1>1. SentInit => SentTypeOK
  <2>1. 0 \in 0 .. MaxOrders /\ 0 \in 0 .. MaxTicks
    BY SentinelBoundsAssumption
  <2> QED BY <2>1 DEF SentInit, SentTypeOK, Reasons
<1> QED BY <1>1, SentStep, PTL DEF SentSpec

\* The three components that MCUpkeep adds up, binding, parses and sentinel: every
\* variable keeps its type while one of them runs and the others rest.
THEOREM UpkeepTypeCorrect == UpkeepSpec => []UpkeepTypeOK
<1>1. UpkeepSpec => BindSpec
  <2>1. UpkeepInit => BindInit
    BY DEF UpkeepInit
  <2>2. [UpkeepNext]_<<bindVars, parseVars, sentVars, focus>> => [BindNext]_bindVars
    BY DEF UpkeepNext
  <2> QED BY <2>1, <2>2, PTL DEF UpkeepSpec, BindSpec
<1>2. UpkeepSpec => ParseSpec
  <2>1. UpkeepInit => ParseInit
    BY DEF UpkeepInit
  <2>2. [UpkeepNext]_<<bindVars, parseVars, sentVars, focus>> => [ParseNext]_parseVars
    BY DEF UpkeepNext
  <2> QED BY <2>1, <2>2, PTL DEF UpkeepSpec, ParseSpec
<1>3. UpkeepSpec => SentSpec
  <2>1. UpkeepInit => SentInit
    BY DEF UpkeepInit
  <2>2. [UpkeepNext]_<<bindVars, parseVars, sentVars, focus>> => [SentNext]_sentVars
    BY DEF UpkeepNext
  <2> QED BY <2>1, <2>2, PTL DEF UpkeepSpec, SentSpec
<1> QED BY <1>1, <1>2, <1>3, BindingTypeCorrect, ParseTypeCorrect, SentTypeCorrect, PTL
        DEF UpkeepTypeOK
===============================================================================
