----------------------------- MODULE SessionCaps -----------------------------
(***************************************************************************)
(* The retrieval caps of server/session.py as SessionCapMiddleware applies *)
(* them: a bounded LRU registry of sessions, a budget of units per capped  *)
(* tool and a sliding window over all tools.  The locks of the code are    *)
(* never held across an await, so a request's bookkeeping is one step.     *)
(***************************************************************************)
EXTENDS Integers, SequencesExt, FiniteSets

CONSTANTS
    Sessions,      \* well-formed session ids
    Capped,        \* TOOLS_WITH_CAPS
    Batched,       \* those of them that take several units at once: get_chunk
    Uncapped,      \* tools only the hourly cap counts
    Limit,         \* MAX_SEARCH_PAPERS_CALLS, MAX_GET_CHUNK_CALLS
    MaxUnits,      \* MAX_BATCH_CHUNK_IDS
    MaxCalls,      \* MAX_CALLS_PER_HOUR
    Window,        \* HOURLY_WINDOW_SECONDS
    MaxRegistry,   \* MAX_REGISTRY_SIZE
    MaxTime        \* bound: the last instant

ASSUME CapConstants ==
    /\ Limit \in [Capped -> Nat]
    /\ {MaxUnits, MaxCalls, Window, MaxTime} \subseteq Nat
    /\ MaxRegistry \in Nat \ {0}

VARIABLES
    clock,      \* time.time()
    registry,   \* the keys of _SESSIONS, least recently used first
    count,      \* search_count and chunk_count of each session
    stamps,     \* call_timestamps of each session
    served,     \* units the tools really served since the session's creation
    calls       \* instants of all calls let through since then

capVars == <<clock, registry, count, stamps, served, calls>>

Tools == Capped \cup Uncapped
Units == 0..MaxUnits
Unused == [t \in Capped |-> 0]
Times(q) == {q[i] : i \in DOMAIN q}

CapInit ==
    /\ clock = 0
    /\ registry = << >>
    /\ count = [s \in Sessions |-> Unused]
    /\ stamps = [s \in Sessions |-> << >>]
    /\ served = [s \in Sessions |-> Unused]
    /\ calls = [s \in Sessions |-> << >>]

-----------------------------------------------------------------------------
(* get_or_create_session *)

Known(s) == s \in Times(registry)

\* Room for one more: the heads that popitem(last=False) leaves.
Evicted ==
    LET over == IF Len(registry) < MaxRegistry THEN 0
                ELSE Len(registry) - MaxRegistry + 1
    IN  SubSeq(registry, over + 1, Len(registry))

\* The registry as the middleware leaves it: a known session moves to the
\* end, a new one is appended behind those that stay.
Touched(s) ==
    IF Known(s) THEN Append(RemoveFirst(registry, s), s)
    ELSE Append(Evicted, s)

CountOf(s) == IF Known(s) THEN count[s] ELSE Unused
StampsOf(s) == IF Known(s) THEN stamps[s] ELSE << >>
ServedOf(s) == IF Known(s) THEN served[s] ELSE Unused
CallsOf(s) == IF Known(s) THEN calls[s] ELSE << >>

-----------------------------------------------------------------------------
(* check_both_caps *)

OverBudget(s, t, n) == t \in Capped /\ CountOf(s)[t] + n > Limit[t]

\* Mutant: an instant exactly one window old is dropped.
FreshClosed(x) == x > clock - Window

Fresh(x) == x >= clock - Window

\* Instants leave on the left, up to the first that is fresh.
Stale(q) == CHOOSE k \in 0..Len(q) :
    /\ \A i \in 1..k : ~Fresh(q[i])
    /\ k < Len(q) => Fresh(q[k + 1])

Pruned(s) == LET q == StampsOf(s) IN SubSeq(q, Stale(q) + 1, Len(q))

Charge(c, t, n) == IF t \in Capped THEN [c EXCEPT ![t] = @ + n] ELSE c

\* The per-tool budget is spent: nothing changes but the session's age.
RejectTool(s, t, n) ==
    /\ OverBudget(s, t, n)
    /\ count' = [count EXCEPT ![s] = CountOf(s)]
    /\ stamps' = [stamps EXCEPT ![s] = StampsOf(s)]
    /\ served' = [served EXCEPT ![s] = ServedOf(s)]
    /\ calls' = [calls EXCEPT ![s] = CallsOf(s)]

\* Mutant: the two checks run one after the other, and the first has charged.
RejectHourlyCharged(s, t, n) ==
    /\ ~OverBudget(s, t, n)
    /\ Len(Pruned(s)) >= MaxCalls
    /\ count' = [count EXCEPT ![s] = Charge(CountOf(s), t, n)]
    /\ stamps' = [stamps EXCEPT ![s] = Pruned(s)]
    /\ served' = [served EXCEPT ![s] = ServedOf(s)]
    /\ calls' = [calls EXCEPT ![s] = CallsOf(s)]

\* The window is full: the pruned instants stay pruned, no unit is charged.
RejectHourly(s, t, n) ==
    /\ ~OverBudget(s, t, n)
    /\ Len(Pruned(s)) >= MaxCalls
    /\ count' = [count EXCEPT ![s] = CountOf(s)]
    /\ stamps' = [stamps EXCEPT ![s] = Pruned(s)]
    /\ served' = [served EXCEPT ![s] = ServedOf(s)]
    /\ calls' = [calls EXCEPT ![s] = CallsOf(s)]

\* Both caps pass: they are charged together and the request is replayed.
Allow(s, t, n) ==
    /\ ~OverBudget(s, t, n)
    /\ Len(Pruned(s)) < MaxCalls
    /\ count' = [count EXCEPT ![s] = Charge(CountOf(s), t, n)]
    /\ stamps' = [stamps EXCEPT ![s] = Append(Pruned(s), clock)]
    /\ served' = [served EXCEPT ![s] = Charge(ServedOf(s), t, n)]
    /\ calls' = [calls EXCEPT ![s] = Append(CallsOf(s), clock)]

\* A tools/call request.  A batch the handler will refuse costs no unit; any
\* other call costs as many as it fetches.  Requests without a well-formed
\* session id or a tool name are forwarded and leave no trace.
Request(s, t, n) ==
    /\ t \notin Batched => n = 1
    /\ registry' = Touched(s)
    /\ RejectTool(s, t, n) \/ RejectHourly(s, t, n) \/ Allow(s, t, n)
    /\ UNCHANGED clock

Tick ==
    /\ clock < MaxTime
    /\ clock' = clock + 1
    /\ UNCHANGED <<registry, count, stamps, served, calls>>

CapNext == Tick \/ \E s \in Sessions, t \in Tools, n \in Units : Request(s, t, n)

CapSpec == CapInit /\ [][CapNext]_capVars

-----------------------------------------------------------------------------
(* Properties *)

\* Types: the registry holds a known session once.
CapTypeOK ==
    /\ clock \in 0..MaxTime
    /\ registry \in Seq(Sessions)
    /\ count \in [Sessions -> [Capped -> Nat]]
    /\ stamps \in [Sessions -> Seq(0..MaxTime)]
    /\ served \in [Sessions -> [Capped -> Nat]]
    /\ calls \in [Sessions -> Seq(0..MaxTime)]
    /\ Len(registry) <= MaxRegistry
    /\ Cardinality(Times(registry)) = Len(registry)

\* However its batches are cut, a session is served at most its limit of each
\* capped tool for as long as the registry remembers it, and is charged for
\* what it was served: a call the hourly cap refuses does not cost a unit of
\* its tool (the two-cap commit of check_both_caps).
BudgetHolds ==
    \A s \in Sessions :
        /\ count[s] = served[s]
        /\ \A t \in Capped : served[s][t] <= Limit[t]

\* No stretch of one window, both ends included, sees more calls of a session
\* than the hourly cap, although old instants are forgotten on the way; and what
\* a request is judged by is exactly the calls in the window, so that no call is
\* refused on account of one that has left it.
HourlyWindow ==
    LET Inside(c) == {i \in DOMAIN c : c[i] >= clock - Window}
    IN  \A s \in Sessions :
            /\ Cardinality(Inside(calls[s])) <= MaxCalls
            /\ Len(Pruned(s)) = Cardinality(Inside(CallsOf(s)))
=============================================================================
