----------------------------- MODULE RerankFlight -----------------------------
(***************************************************************************)
(* RerankPhase.rerank (server/retrieval/rerank.py) over the generic        *)
(* Singleflight of server/resources.py.  A search that misses the rerank   *)
(* cache takes one of a few permits, then joins the forward pass in flight *)
(* for its key or starts one.  Passes are tasks of their own, shielded     *)
(* from the cancellation of the searches that wait for them.               *)
(***************************************************************************)
EXTENDS Integers, SequencesExt, FiniteSets

CONSTANTS
    Callers,       \* searches
    Keys,          \* (query vector, candidate set) pairs
    None,          \* no caller, no key
    MaxReranks,    \* max_concurrent_reranks
    MaxTasks       \* bound: forward passes

ASSUME FlightConstants ==
    /\ None \notin Callers \cup Keys
    /\ MaxReranks \in Nat \ {0}
    /\ MaxTasks \in Nat

VARIABLES
    pc,         \* where each search is
    key,        \* the key it asks for
    task,       \* the pass it waits for
    permits,    \* rerank_semaphore
    holder,     \* who holds Singleflight._lock
    queue,      \* the lock's waiters, first come first served
    inflight,   \* Singleflight._inflight
    passes,     \* every forward pass so far: its key and its state
    due,        \* passes that have ended, their done callbacks yet to run
    tier3,      \* keys whose ranking is cached
    told,       \* what the latest step told a search of its pass
    sawFlight   \* a pass for its key was in flight when the search called run

flightVars == <<pc, key, task, permits, holder, queue, inflight, passes, due,
                tier3, told, sawFlight>>

Tasks == 1..MaxTasks
NoTask == 0
Underway == {t \in DOMAIN passes : passes[t].st = "running"}
Named == Underway \cup due

NoNews == [c \in Callers |-> "none"]
Untold == told' = NoNews

FlightInit ==
    /\ pc = [c \in Callers |-> "idle"]
    /\ key = [c \in Callers |-> None]
    /\ task = [c \in Callers |-> NoTask]
    /\ permits = MaxReranks
    /\ holder = None
    /\ queue = << >>
    /\ inflight = [k \in Keys |-> NoTask]
    /\ passes = << >>
    /\ due = {}
    /\ tier3 = {}
    /\ told = NoNews
    /\ sawFlight = [c \in Callers |-> FALSE]

-----------------------------------------------------------------------------
(* Singleflight.run *)

\* Fast path: await the pass in flight, inside the lock.
Join(c, k) ==
    /\ inflight[k] \in Underway
    /\ task' = [task EXCEPT ![c] = inflight[k]]
    /\ pc' = [pc EXCEPT ![c] = "joined"]
    /\ holder' = c
    /\ UNCHANGED <<inflight, passes>>

\* Register a pass of one's own, leave the lock and await it.
Launch(c, k) ==
    /\ Len(passes) < MaxTasks
    /\ passes' = Append(passes, [key |-> k, st |-> "running"])
    /\ inflight' = [inflight EXCEPT ![k] = Len(passes) + 1]
    /\ task' = [task EXCEPT ![c] = Len(passes) + 1]
    /\ pc' = [pc EXCEPT ![c] = "started"]
    /\ holder' = None

\* Slow path.
Start(c, k) ==
    /\ inflight[k] = NoTask
    /\ Launch(c, k)

\* The search gets its permit and calls run: a free lock that nobody waits for
\* is taken at once.
Acquire(c) ==
    /\ pc[c] = "permit"
    /\ permits > 0
    /\ permits' = permits - 1
    /\ sawFlight' = [sawFlight EXCEPT ![c] = inflight[key[c]] # NoTask]
    /\ \/ /\ holder = None /\ queue = << >>
          /\ Join(c, key[c]) \/ Start(c, key[c])
          /\ UNCHANGED queue
       \/ /\ holder # None \/ queue # << >>
          /\ queue' = Append(queue, c)
          /\ pc' = [pc EXCEPT ![c] = "queued"]
          /\ UNCHANGED <<task, holder, inflight, passes>>
    /\ Untold
    /\ UNCHANGED <<key, due, tier3>>

\* Mutant: the waiter acts on what it saw before it waited.
ResumeBlind(c) ==
    /\ pc[c] = "queued"
    /\ holder = None
    /\ Head(queue) = c
    /\ queue' = Tail(queue)
    /\ IF sawFlight[c] THEN Join(c, key[c]) \/ Start(c, key[c]) ELSE Launch(c, key[c])
    /\ Untold
    /\ UNCHANGED <<key, permits, due, tier3, sawFlight>>

\* The lock has been released: its first waiter has it and looks again.
Resume(c) ==
    /\ pc[c] = "queued"
    /\ holder = None
    /\ Head(queue) = c
    /\ queue' = Tail(queue)
    /\ Join(c, key[c]) \/ Start(c, key[c])
    /\ Untold
    /\ UNCHANGED <<key, permits, due, tier3, sawFlight>>

\* A pass ends, well or not: its done callbacks are due (call_soon).
Finish(t) ==
    /\ t \in Underway
    /\ \E end \in {"done", "failed"} : passes' = [passes EXCEPT ![t].st = end]
    /\ due' = due \cup {t}
    /\ Untold
    /\ UNCHANGED <<pc, key, task, permits, holder, queue, inflight, tier3,
                   sawFlight>>

\* Mutant: only a pass that succeeded is evicted.
EvictDone(t) ==
    /\ t \in due
    /\ due' = due \ {t}
    /\ inflight' = IF passes[t].st = "done" THEN [inflight EXCEPT ![passes[t].key] = NoTask]
                   ELSE inflight
    /\ Untold
    /\ UNCHANGED <<pc, key, task, permits, holder, queue, passes, tier3,
                   sawFlight>>

\* The callbacks run, the eviction first, then those that wake the searches
\* which wait for the pass.
Evict(t) ==
    /\ t \in due
    /\ due' = due \ {t}
    /\ inflight' = [inflight EXCEPT ![passes[t].key] = NoTask]
    /\ Untold
    /\ UNCHANGED <<pc, key, task, permits, holder, queue, passes, tier3,
                   sawFlight>>

-----------------------------------------------------------------------------
(* RerankPhase.rerank *)

\* A search looks its key up; on a miss it waits for a permit.
Ask(c, k) ==
    /\ pc[c] = "idle"
    /\ k \notin tier3
    /\ pc' = [pc EXCEPT ![c] = "permit"]
    /\ key' = [key EXCEPT ![c] = k]
    /\ Untold
    /\ UNCHANGED <<task, permits, holder, queue, inflight, passes, due, tier3,
                   sawFlight>>

\* The search goes back up its stack and lets go of all it holds.
Unwind(c) ==
    /\ pc' = [pc EXCEPT ![c] = "idle"]
    /\ key' = [key EXCEPT ![c] = None]
    /\ task' = [task EXCEPT ![c] = NoTask]
    /\ sawFlight' = [sawFlight EXCEPT ![c] = FALSE]
    /\ holder' = IF holder = c THEN None ELSE holder
    /\ queue' = RemoveFirst(queue, c)
    /\ permits' = IF pc[c] = "permit" THEN permits ELSE permits + 1

\* A search goes back with what became of pass t: a ranking is cached, an
\* exception passed on.
Return(c, t) ==
    /\ Unwind(c)
    /\ told' = [NoNews EXCEPT ![c] = passes[t].st]
    /\ tier3' = IF passes[t].st = "done" THEN tier3 \cup {key[c]} ELSE tier3
    /\ UNCHANGED <<inflight, passes, due>>

\* The pass it waited for is over and has woken it.
Answer(c) ==
    /\ pc[c] \in {"joined", "started"}
    /\ task[c] \notin Named
    /\ Return(c, task[c])

\* A search whose turn falls between the end of a pass and its done callbacks
\* finds it in the map.  The shield of a task that is over is that task: its
\* result is there without a wait.
Late(c) ==
    /\ \/ pc[c] = "permit" /\ permits > 0 /\ queue = << >>
       \/ pc[c] = "queued" /\ Head(queue) = c
    /\ holder = None
    /\ inflight[key[c]] \in DOMAIN passes \ Underway
    /\ Return(c, inflight[key[c]])

\* Mutant: a cancelled search leaves the lock taken.
CancelLocked(c) ==
    /\ pc[c] # "idle"
    /\ pc' = [pc EXCEPT ![c] = "idle"]
    /\ key' = [key EXCEPT ![c] = None]
    /\ task' = [task EXCEPT ![c] = NoTask]
    /\ queue' = RemoveFirst(queue, c)
    /\ permits' = IF pc[c] = "permit" THEN permits ELSE permits + 1
    /\ Untold
    /\ UNCHANGED <<holder, inflight, passes, due, tier3, sawFlight>>

\* The client goes away.  The pass runs on, with whoever else waits for it.
Cancel(c) ==
    /\ pc[c] # "idle"
    /\ Unwind(c)
    /\ Untold
    /\ UNCHANGED <<inflight, passes, due, tier3>>

\* The cache forgets a ranking (TTL or capacity).
Expire(k) ==
    /\ k \in tier3
    /\ tier3' = tier3 \ {k}
    /\ Untold
    /\ UNCHANGED <<pc, key, task, permits, holder, queue, inflight, passes, due,
                   sawFlight>>

FlightNext ==
    \/ \E c \in Callers :
         \/ \E k \in Keys : Ask(c, k)
         \/ Acquire(c) \/ Resume(c) \/ Answer(c) \/ Late(c) \/ Cancel(c)
    \/ \E t \in Tasks : Finish(t) \/ Evict(t)
    \/ \E k \in Keys : Expire(k)

FlightSpec == FlightInit /\ [][FlightNext]_flightVars

-----------------------------------------------------------------------------
(* Properties *)

\* Types; the semaphore's value and those past it add up, and the lock is with
\* whoever joined a pass and nobody else, also after a cancellation.
FlightTypeOK ==
    /\ pc \in [Callers -> {"idle", "permit", "queued", "joined", "started"}]
    /\ key \in [Callers -> Keys \cup {None}]
    /\ task \in [Callers -> 0..MaxTasks]
    /\ permits \in 0..MaxReranks
    /\ holder \in Callers \cup {None}
    /\ queue \in Seq(Callers)
    /\ inflight \in [Keys -> 0..MaxTasks]
    /\ passes \in Seq([key : Keys, st : {"running", "done", "failed"}])
    /\ due \subseteq Tasks
    /\ tier3 \subseteq Keys
    /\ told \in [Callers -> {"none", "done", "failed"}]
    /\ sawFlight \in [Callers -> BOOLEAN]
    /\ permits + Cardinality({c \in Callers : pc[c] \notin {"idle", "permit"}}) = MaxReranks
    /\ \A c \in Callers : holder = c <=> pc[c] = "joined"
    /\ \A c \in Callers : pc[c] = "queued" <=> \E i \in DOMAIN queue : queue[i] = c

\* No ranking is computed twice at once, whoever is cancelled in between.
OneFlightPerKey ==
    \A t, u \in Underway : passes[t].key = passes[u].key => t = u

\* The map names a pass of the key it stands under, from the start of the pass
\* until its done callbacks have run and no longer: no pass underway is
\* overlooked, and no end of one answers for its key any later.
FlightIsNamed ==
    /\ \A k \in Keys : inflight[k] # NoTask =>
           inflight[k] \in Named /\ passes[inflight[k]].key = k
    /\ \A t \in Named : inflight[passes[t].key] = t

\* Who waits for a pass wants the work of its key, and has of it what the pass
\* has come to.
Waiting(c) == pc[c] \in {"joined", "started"}
underway == {passes[t].key : t \in Underway}
wants == [c \in Callers |-> IF Waiting(c) THEN key[c] ELSE None]
outcome == [c \in Callers |-> IF Waiting(c) THEN passes[task[c]].st ELSE "none"]
just == [k \in Keys |-> IF inflight[k] \in due THEN passes[inflight[k]].st ELSE "none"]

Sharing == INSTANCE SharedWork
    WITH Clients <- Callers, Works <- Keys, Nothing <- None, Seats <- MaxReranks,
         underway <- underway, just <- just, wants <- wants, outcome <- outcome,
         known <- tier3, told <- told

\* Behind the lock, its line, the semaphore and the shielded tasks there is work
\* that is done once at a time and shared by those who want it meanwhile: one
\* pass ends for all who wait for it and for nobody else, a cancelled search
\* takes nobody's pass with it, what a search is told is the end of a pass that
\* ran while it asked or has ended this moment, and only a pass that went well
\* fills the cache.
ImplementsSharedWork == Sharing!Spec
=============================================================================
