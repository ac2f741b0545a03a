---------------------------- MODULE CorpusBinding ----------------------------
(***************************************************************************)
(* What corpus the server is bound to, and what its answers and its cache  *)
(* say about it.                                                           *)
(*                                                                         *)
(* Resources (server/resources.py) binds the process to the version that   *)
(* corpus-version.json names, at startup, when a bootstrap stub sees its   *)
(* first ingest (late_bind), and whenever a FreshnessGate                  *)
(* (server/corpus_freshness.py) lets a tool call or a finished ingest      *)
(* re-read the marker.  search_papers (server/handlers/search.py) takes    *)
(* the table and the cache before its awaits and stamps the version after  *)
(* them; RetrievalCache (server/cache.py, server/cache_sqlite.py) keeps    *)
(* payloads under the version it was opened for, in memory and on disk.    *)
(*                                                                         *)
(* One action per stretch between two awaits.  One query stands for all of *)
(* them, so each version has at most one row.  Expiry and eviction only    *)
(* drop entries and are left out, as are notebook-routed queries, which    *)
(* name their own version.                                                 *)
(***************************************************************************)
EXTENDS Naturals, FiniteSets

CONSTANTS Requests,    \* concurrent search_papers calls
          Ingest,      \* the one on_ingest_complete callback that can run
          NoProc,      \* nobody holds the gate
          MaxVersion,  \* bound: corpus versions
          MaxCaches,   \* bound: RetrievalCache objects alive at once
          MaxMoves,    \* bound: marker moves, damage and repair on disk
          MaxStarts,   \* bound: server starts
          MaxBindFaults \* bound: steps of a bind that raise

ASSUME ProcsAssumption == Ingest \notin Requests /\ NoProc \notin Requests
                          /\ NoProc # Ingest
ASSUME BindBoundsAssumption ==
    /\ MaxVersion \in Nat /\ MaxCaches \in Nat /\ MaxMoves \in Nat
    /\ MaxStarts \in Nat /\ MaxBindFaults \in Nat

Procs    == Requests \cup {Ingest}
Versions == 1 .. MaxVersion
CacheIds == 1 .. MaxCaches
None     == 0              \* no version, no table, no cache

\* a cached payload: the version its rows were read from, the version it says
Entries == [from : 0 .. MaxVersion, stamp : 0 .. MaxVersion]
NoEntry == [from |-> None, stamp |-> None]

VARIABLES
    marker,    \* corpus-version.json, None when absent
    damaged,   \* versions whose dataset fails the open or the smoke read
    rows,      \* rows[v]: the tier-1 SQLite row stored for corpus version v
    up,        \* the server runs
    boot,      \* bootstrap_mode_active
    bound,     \* corpus_info.version, the version of chunks_table, cache
    cacheVer,  \* cacheVer[c]: the version cache c was opened for
    mem,       \* mem[c]: cache c's mirror and semantic index
    open,      \* caches whose SQLite connection is open
    gate,      \* the holder of the FreshnessGate's lock
    checked,   \* ~is_due(): the marker was probed within the interval
    handler,   \* handler[p]: where a handler is, and its locals
    moves, starts, bindFaults

diskVars == <<marker, damaged, rows>>
bindSysVars == <<up, boot>>
cntVars  == <<moves, starts, bindFaults>>
bindVars == <<marker, damaged, rows, up, boot, bound, cacheVer, mem, open, gate,
              checked, handler, moves, starts, bindFaults>>

BindPcs   == {"open", "cache", "load", "stores", "close"}
SearchPcs == {"search", "lookup", "relookup", "enrich", "store", "reply"}
ProcStates ==
    [pc    : {"idle", "gate", "probe"} \cup BindPcs \cup SearchPcs,
     info  : 0 .. MaxVersion,   \* binding: the version to bind
     table : 0 .. MaxVersion,   \* binding, searching: the open table's version
     cache : 0 .. MaxCaches,    \* binding, searching: the cache in hand
     prev  : 0 .. MaxCaches,    \* binding: the cache to close
     got   : Entries,           \* searching: the payload
     flag  : BOOLEAN]           \* searching: r.degraded as captured
Place(pc) == [pc |-> pc, info |-> None, table |-> None, cache |-> None,
              prev |-> None, got |-> NoEntry, flag |-> FALSE]
AtIdle == Place("idle")
Unbound == [info |-> None, table |-> None, cache |-> None]

BindTypeOK ==
    /\ marker \in 0 .. MaxVersion
    /\ damaged \subseteq Versions
    /\ rows \in [Versions -> Entries]
    /\ up \in BOOLEAN
    /\ boot \in BOOLEAN
    /\ bound \in [info : 0 .. MaxVersion, table : 0 .. MaxVersion,
                  cache : 0 .. MaxCaches]
    /\ cacheVer \in [CacheIds -> 0 .. MaxVersion]
    /\ mem \in [CacheIds -> Entries]
    /\ open \subseteq CacheIds
    /\ gate \in Procs \cup {NoProc}
    /\ \A p \in Procs : gate = p => handler[p].pc \in {"probe"} \cup BindPcs
    /\ checked \in BOOLEAN
    /\ handler \in [Procs -> ProcStates]
    /\ moves \in 0 .. MaxMoves
    /\ starts \in 0 .. MaxStarts
    /\ bindFaults \in 0 .. MaxBindFaults

BindInit ==
    /\ marker \in 0 .. MaxVersion
    /\ damaged = {}
    /\ rows = [v \in Versions |-> NoEntry]
    /\ up = FALSE
    /\ boot = FALSE
    /\ bound = Unbound
    /\ cacheVer = [c \in CacheIds |-> None]
    /\ mem = [c \in CacheIds |-> NoEntry]
    /\ open = {}
    /\ gate = NoProc
    /\ checked = FALSE
    /\ handler = [p \in Procs |-> AtIdle]
    /\ moves = 0
    /\ starts = 0
    /\ bindFaults = 0
-------------------------------------------------------------------------------
(***************************************************************************)
(* The disk, changed by ingests, restores and damage outside this process. *)
(***************************************************************************)
OnDisk ==
    /\ moves < MaxMoves
    /\ moves' = moves + 1
    /\ UNCHANGED <<rows, up, boot, bound, cacheVer, mem, open, gate, checked,
                   handler, starts, bindFaults>>

\* an ingest raises the marker, a restore lowers it
MarkerMoves(v) == OnDisk /\ v # marker /\ marker' = v /\ UNCHANGED damaged
Damage(v)  == OnDisk /\ v \notin damaged /\ damaged' = damaged \cup {v}
              /\ UNCHANGED marker
Repair(v)  == OnDisk /\ v \in damaged /\ damaged' = damaged \ {v}
              /\ UNCHANGED marker

\* open_chunks_table_with_fallback: v, else v - 1, else nothing
OpenAt(v) == IF v \notin damaged THEN v
             ELSE IF v >= 2 /\ v - 1 \notin damaged THEN v - 1 ELSE None
-------------------------------------------------------------------------------
(***************************************************************************)
(* Starting and dying.  startup does not purge other versions' rows.       *)
(***************************************************************************)
InUse == open \cup {bound.cache} \cup {handler[p].cache : p \in Procs}
              \cup {handler[p].prev : p \in Procs}

Boot ==
    /\ ~up
    /\ starts < MaxStarts
    /\ up' = TRUE
    /\ starts' = starts + 1
    /\ UNCHANGED <<diskVars, gate, checked, handler, moves, bindFaults>>

StartStub ==
    /\ marker = None
    /\ Boot
    /\ boot' = TRUE
    /\ UNCHANGED <<bound, cacheVer, mem, open>>

Startup(c) ==
    /\ marker # None
    /\ OpenAt(marker) # None
    /\ Boot
    /\ boot' = FALSE
    /\ bound' = [info |-> marker, table |-> OpenAt(marker), cache |-> c]
    /\ IF c = None THEN UNCHANGED <<cacheVer, mem, open>>
       ELSE /\ cacheVer' = [cacheVer EXCEPT ![c] = marker]
            /\ mem' = [mem EXCEPT ![c] = rows[marker]]
            /\ open' = {c}

ServerCrash ==
    /\ up
    /\ up' = FALSE
    /\ boot' = FALSE
    /\ bound' = Unbound
    /\ cacheVer' = [c \in CacheIds |-> None]
    /\ mem' = [c \in CacheIds |-> NoEntry]
    /\ open' = {}
    /\ gate' = NoProc
    /\ checked' = FALSE
    /\ handler' = [p \in Procs |-> AtIdle]
    /\ UNCHANGED <<diskVars, cntVars>>
-------------------------------------------------------------------------------
(***************************************************************************)
(* The freshness gate.                                                     *)
(***************************************************************************)
Put(p, l) == handler' = [handler EXCEPT ![p] = l]
\* where a refresh returns to: the tool handler, or the end of the callback
Resume(p) == IF p = Ingest THEN AtIdle ELSE Place("search")

\* a tool call (the bootstrap stub answers without coming here)
Arrive(q) ==
    /\ up /\ ~boot
    /\ handler[q].pc = "idle"
    /\ Put(q, Place("gate"))
    /\ UNCHANGED <<diskVars, bindSysVars, bound, cacheVer, mem, open, gate,
                   checked, cntVars>>

\* on_ingest_complete: late_bind for a stub, a forced refresh otherwise
IngestComplete ==
    /\ up
    /\ handler[Ingest].pc = "idle"
    /\ boot => marker # None
    /\ Put(Ingest, IF boot THEN [Place("open") EXCEPT !.info = marker]
                           ELSE Place("gate"))
    /\ UNCHANGED <<diskVars, bindSysVars, bound, cacheVer, mem, open, gate,
                   checked, cntVars>>

\* run_if_due under its lock; force skips the due check
Due(p) == p = Ingest \/ ~checked
EnterGate(p) ==
    /\ handler[p].pc = "gate"
    /\ gate = NoProc
    /\ IF Due(p) THEN gate' = p /\ Put(p, Place("probe"))
                 ELSE gate' = gate /\ Put(p, Resume(p))
    /\ UNCHANGED <<diskVars, bindSysVars, bound, cacheVer, mem, open, checked,
                   cntVars>>

\* the probe is over: unlock and stamp the clock
Release(p) ==
    /\ gate' = IF gate = p THEN NoProc ELSE gate
    /\ checked' = (checked \/ gate = p)

\* Mutant: the marker is taken as news without comparing versions.
ProbeBlind(p) ==
    /\ handler[p].pc = "probe"
    /\ marker # None
    /\ Put(p, [Place("open") EXCEPT !.info = marker])
    /\ UNCHANGED <<gate, checked>>
    /\ UNCHANGED <<diskVars, bindSysVars, bound, cacheVer, mem, open, cntVars>>

\* _probe_and_rebind reads the marker and compares it with the binding
Probe(p) ==
    /\ handler[p].pc = "probe"
    /\ IF marker \in {None, bound.info}
       THEN Release(p) /\ Put(p, Resume(p))
       ELSE /\ Put(p, [Place("open") EXCEPT !.info = marker])
            /\ UNCHANGED <<gate, checked>>
    /\ UNCHANGED <<diskVars, bindSysVars, bound, cacheVer, mem, open, cntVars>>

\* the freshness interval passes
Elapse ==
    /\ checked
    /\ checked' = FALSE
    /\ UNCHANGED <<diskVars, bindSysVars, bound, cacheVer, mem, open, gate, handler,
                   cntVars>>
-------------------------------------------------------------------------------
(***************************************************************************)
(* _bind_corpus: build every handle, then publish, then close the old.     *)
(***************************************************************************)
\* Mutant: a failed bind returns with the gate's lock still held.
BindFailsLocked(p) ==
    /\ Put(p, Resume(p))
    /\ UNCHANGED <<diskVars, bindSysVars, bound, cacheVer, mem, open, gate,
                   checked>>

\* any exception: the binding stays, and a cache already opened stays open;
\* a stub stays a stub, and its refresh is then a no-op
BindFails(p) ==
    /\ Release(p)
    /\ Put(p, Resume(p))
    /\ UNCHANGED <<diskVars, bindSysVars, bound, cacheVer, mem, open>>

BindFaults(p) ==
    /\ handler[p].pc \in {"open", "cache", "stores"}
    /\ bindFaults < MaxBindFaults
    /\ bindFaults' = bindFaults + 1
    /\ BindFails(p)
    /\ UNCHANGED <<moves, starts>>

OpenUnrecoverable(p) ==
    /\ handler[p].pc = "open"
    /\ OpenAt(handler[p].info) = None
    /\ BindFails(p)
    /\ UNCHANGED cntVars

OpenTable(p) ==
    /\ handler[p].pc = "open"
    /\ OpenAt(handler[p].info) # None
    /\ Put(p, [handler[p] EXCEPT !.table = OpenAt(handler[p].info), !.pc = "cache"])
    /\ UNCHANGED <<diskVars, bindSysVars, bound, cacheVer, mem, open, gate,
                   checked, cntVars>>

\* RetrievalCache.open(purge_other_versions=True)
OpenCache(p, c) ==
    /\ handler[p].pc = "cache"
    /\ c \notin InUse
    /\ cacheVer' = [cacheVer EXCEPT ![c] = handler[p].info]
    /\ mem' = [mem EXCEPT ![c] = NoEntry]
    /\ open' = open \cup {c}
    /\ rows' = [v \in Versions |-> IF v = handler[p].info THEN rows[v]
                                   ELSE NoEntry]
    /\ Put(p, [handler[p] EXCEPT !.cache = c, !.pc = "load"])
    /\ UNCHANGED <<marker, damaged, bindSysVars, bound, gate, checked, cntVars>>

\* _rehydrate_tier1_from_sqlite
LoadCache(p) ==
    /\ handler[p].pc = "load"
    /\ mem' = [mem EXCEPT ![handler[p].cache] = rows[handler[p].info]]
    /\ Put(p, [handler[p] EXCEPT !.pc = "stores"])
    /\ UNCHANGED <<diskVars, bindSysVars, bound, cacheVer, open, gate, checked,
                   cntVars>>

\* a cache that does not open must not stop the bind: go on without one
CacheUnavailable(p) ==
    /\ handler[p].pc = "cache"
    /\ bindFaults < MaxBindFaults
    /\ bindFaults' = bindFaults + 1
    /\ Put(p, [handler[p] EXCEPT !.pc = "stores"])
    /\ UNCHANGED <<diskVars, bindSysVars, bound, cacheVer, mem, open, gate,
                   checked, moves, starts>>

\* the publish: no await between the first assignment and the last
Swap(p) ==
    /\ handler[p].pc = "stores"
    /\ bound' = [info |-> handler[p].info, table |-> handler[p].table,
                 cache |-> handler[p].cache]
    /\ Put(p, [handler[p] EXCEPT !.prev = bound.cache, !.pc = "close"])
    /\ UNCHANGED <<diskVars, bindSysVars, cacheVer, mem, open, gate, checked,
                   cntVars>>

\* Mutant: the cache to close is looked up after the publish.
CloseOldLate(p) ==
    /\ handler[p].pc = "close"
    /\ open' = open \ {bound.cache}
    /\ checked' = TRUE
    /\ IF gate = p THEN /\ gate' = NoProc
                        /\ Put(p, Resume(p))
                        /\ UNCHANGED boot
       ELSE /\ boot' = FALSE
            /\ Put(p, Place("gate"))
            /\ UNCHANGED gate
    /\ UNCHANGED <<diskVars, up, bound, cacheVer, mem, cntVars>>

\* close the old cache; a late_bind then ends the bootstrap and asks for a
\* refresh, a refresh releases the gate.  mark_checked precedes either
CloseOld(p) ==
    /\ handler[p].pc = "close"
    /\ open' = open \ {handler[p].prev}
    /\ checked' = TRUE
    /\ IF gate = p THEN /\ gate' = NoProc
                        /\ Put(p, Resume(p))
                        /\ UNCHANGED boot
       ELSE /\ boot' = FALSE
            /\ Put(p, Place("gate"))
            /\ UNCHANGED gate
    /\ UNCHANGED <<diskVars, up, bound, cacheVer, mem, cntVars>>
-------------------------------------------------------------------------------
(***************************************************************************)
(* handle_search_papers on the process corpus.                             *)
(***************************************************************************)
\* chunks_table, degraded and get_cache(), all before the first await
Capture(q) ==
    /\ handler[q].pc = "search"
    /\ Put(q, [Place("lookup") EXCEPT !.table = bound.table,
                           !.cache = bound.cache,
                           !.flag = (bound.table # bound.info)])
    /\ UNCHANGED <<diskVars, bindSysVars, bound, cacheVer, mem, open, gate,
                   checked, cntVars>>

\* the mirror, then the SQLite row unless the connection is closed
Found(q) ==
    LET c == handler[q].cache IN
    IF c = None THEN NoEntry
    ELSE IF mem[c] # NoEntry THEN mem[c]
    ELSE IF c \in open THEN rows[cacheVer[c]] ELSE NoEntry

\* a hit is re-stamped with the captured degraded state, its version is not
Hit(q) ==
    /\ handler[q].pc \in {"lookup", "relookup"}
    /\ Found(q) # NoEntry
    /\ mem' = [mem EXCEPT ![handler[q].cache] = Found(q)]
    /\ Put(q, [Place("reply") EXCEPT !.got = Found(q), !.flag = handler[q].flag])
    /\ UNCHANGED <<diskVars, bindSysVars, bound, cacheVer, open, gate, checked,
                   cntVars>>

\* tier 1 missed: encode, under the semaphore, then try both tiers
Miss(q) ==
    /\ handler[q].pc = "lookup"
    /\ Found(q) = NoEntry
    /\ Put(q, [handler[q] EXCEPT !.pc = "relookup"])
    /\ UNCHANGED <<diskVars, bindSysVars, bound, cacheVer, mem, open, gate,
                   checked, cntVars>>

\* both tiers missed: the ANN query on the captured table, then enrich
Rank(q) ==
    /\ handler[q].pc = "relookup"
    /\ Found(q) = NoEntry
    /\ Put(q, [handler[q] EXCEPT !.got.from = handler[q].table,
                              !.table = None, !.pc = "enrich"])
    /\ UNCHANGED <<diskVars, bindSysVars, bound, cacheVer, mem, open, gate,
                   checked, cntVars>>

\* envelope: the version is the one bound NOW
Stamp(q) ==
    /\ handler[q].pc = "enrich"
    /\ Put(q, [handler[q] EXCEPT !.got.stamp = bound.info,
                 !.pc = IF handler[q].cache = None THEN "reply" ELSE "store"])
    /\ UNCHANGED <<diskVars, bindSysVars, bound, cacheVer, mem, open, gate,
                   checked, cntVars>>

\* Mutant: the payload goes to the cache bound now, not the captured one.
StoreCurrent(q) ==
    /\ handler[q].pc = "store"
    /\ LET c == bound.cache IN
       /\ c # None
       /\ mem' = [mem EXCEPT ![c] = handler[q].got]
       /\ rows' = [rows EXCEPT ![cacheVer[c]] =
                       IF c \in open THEN handler[q].got ELSE @]
    /\ Put(q, [handler[q] EXCEPT !.cache = None, !.pc = "reply"])
    /\ UNCHANGED <<marker, damaged, bindSysVars, bound, cacheVer, open, gate,
                   checked, cntVars>>

\* store_search on the captured cache; a closed connection fails quietly
Store(q) ==
    /\ handler[q].pc = "store"
    /\ LET c == handler[q].cache IN
       /\ mem' = [mem EXCEPT ![c] = handler[q].got]
       /\ rows' = [rows EXCEPT ![cacheVer[c]] =
                       IF c \in open THEN handler[q].got ELSE @]
    /\ Put(q, [handler[q] EXCEPT !.cache = None, !.pc = "reply"])
    /\ UNCHANGED <<marker, damaged, bindSysVars, bound, cacheVer, open, gate,
                   checked, cntVars>>

Reply(q) ==
    /\ handler[q].pc = "reply"
    /\ Put(q, AtIdle)
    /\ UNCHANGED <<diskVars, bindSysVars, bound, cacheVer, mem, open, gate,
                   checked, cntVars>>
-------------------------------------------------------------------------------
Refresh(p) ==
    \/ EnterGate(p) \/ Probe(p) \/ BindFaults(p) \/ OpenUnrecoverable(p)
    \/ OpenTable(p) \/ LoadCache(p) \/ CacheUnavailable(p) \/ Swap(p)
    \/ CloseOld(p) \/ \E c \in CacheIds : OpenCache(p, c)

Search(q) == \/ Capture(q) \/ Hit(q) \/ Miss(q) \/ Rank(q) \/ Stamp(q)
             \/ Store(q) \/ Reply(q)

External ==
    \/ \E v \in Versions : MarkerMoves(v) \/ Damage(v) \/ Repair(v)
    \/ ServerCrash \/ Elapse

StartServer == StartStub \/ \E c \in CacheIds \cup {None} : Startup(c)

BindNext ==
    \/ External
    \/ StartServer
    \/ IngestComplete
    \/ \E q \in Requests : Arrive(q) \/ Search(q)
    \/ \E p \in Procs : Refresh(p)

BindSpec == BindInit /\ [][BindNext]_bindVars

\* the event loop runs what is ready, the interval elapses, and calls keep
\* arriving; nothing is assumed of ingests, of the disk or of restarts
BindFairness ==
    /\ WF_bindVars(Elapse)
    /\ \A q \in Requests : WF_bindVars(Arrive(q)) /\ WF_bindVars(Search(q))
    /\ \A p \in Procs : WF_bindVars(Refresh(p)) /\ SF_bindVars(EnterGate(p))
-------------------------------------------------------------------------------
(***************************************************************************)
(* Properties.                                                             *)
(***************************************************************************)
\* A payload kept under version v was read from v, or from the version just
\* below while v could not be opened, however many rebinds raced the search
\* that stored it: table and cache are captured together and the store goes
\* to the captured cache (search.py:653-945, cache.py:631-697).
Under(e, v) == e.from \in {None, v, v - 1}
KeyedByContent ==
    /\ \A v \in Versions : Under(rows[v], v)
    /\ \A c \in CacheIds : Under(mem[c], cacheVer[c])

\* What makes KeyedByContent inductive: the cache in a handler's hand, and the
\* one published, belong to the table and the payload that go with it.
Coherent(l) ==
    /\ l.pc \in BindPcs => l.info \in Versions
    /\ l.pc \in {"cache", "load", "stores"} => l.table \in {l.info, l.info - 1}
    /\ l.pc \in {"load", "store"} => l.cache # None
    /\ l.pc = "idle" => l.cache = None
    /\ l.cache # None =>
          /\ cacheVer[l.cache] \in Versions
          /\ l.pc \in BindPcs => cacheVer[l.cache] = l.info
          /\ l.pc \in {"lookup", "relookup"} =>
                l.table \in {cacheVer[l.cache], cacheVer[l.cache] - 1}
          /\ l.pc \in {"enrich", "store"} => Under(l.got, cacheVer[l.cache])
BindInv ==
    /\ BindTypeOK
    /\ KeyedByContent
    /\ bound.cache # None =>
          /\ bound.info \in Versions
          /\ bound.table \in {bound.info, bound.info - 1}
          /\ cacheVer[bound.cache] = bound.info
    /\ \A p \in Procs : Coherent(handler[p])
    /\ \A p \in Procs : handler[p].pc # "idle" => up

\* The cache a search can pick up is open: no bind closes the cache another
\* bind has published (resources.py:1446-1479).
BoundCacheOpen == bound.cache # None => bound.cache \in open

\* "a version bump triggers exactly ONE rebind even when N requests observe it
\* concurrently" (corpus_freshness.py:81-84): every publish changes the version.
OneRebindPerBump ==
    [][bound' # bound /\ up' => bound'.info # bound.info]_bindVars

\* Once the disk is left alone, tool calls bring the server to the version on
\* it, unless that version cannot be opened or the server is still a stub.
Converges ==
    <>[](\/ ~up \/ boot \/ marker = None \/ OpenAt(marker) = None
         \/ bound.info = marker)

\* docs/api.md:18: corpus_version is "the corpus the answer came from" --
\* unless the answer says it is degraded.
\* (violated when a rebind lands between a search's first await and its stamp)
Answering == {q \in Requests : handler[q].pc \in {"store", "reply"}}
StampIsSource ==
    \A q \in Answering :
        handler[q].got.from = handler[q].got.stamp \/ handler[q].flag

=============================================================================
