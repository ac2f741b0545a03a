------------------------- MODULE CorpusBindingProofs -------------------------
(***************************************************************************)
(* Theorems about CorpusBinding, for every number of concurrent searches   *)
(* and every value of the bounds: what is cached under a version was read  *)
(* from it, the cache in use is open, and a bump rebinds once.             *)
(***************************************************************************)
EXTENDS CorpusBinding, TLAPS

USE DEF Versions, CacheIds, None, Procs
USE BindBoundsAssumption, ProcsAssumption

\* The handlers, and the lock with its holder, as BindTypeOK and BindInv see them.
HandlersOK ==
    /\ handler \in [Procs -> ProcStates]
    /\ gate \in Procs \cup {NoProc}
    /\ \A x \in Procs : gate = x => handler[x].pc \in {"probe"} \cup BindPcs
    /\ \A x \in Procs : Coherent(handler[x])
    /\ \A x \in Procs : handler[x].pc # "idle" => up

\* A handler that moves to a coherent place, while no cache is opened, leaves
\* every handler coherent and the lock with a holder inside the gate.
LEMMA PutKeeps ==
    ASSUME BindInv, NEW p \in Procs, NEW l \in ProcStates, Put(p, l),
           Coherent(l), UNCHANGED <<cacheVer, up>>, up, gate' \in {gate, p, NoProc},
           gate' = p => l.pc \in {"probe"} \cup BindPcs
    PROVE  HandlersOK'
<1>1. handler' = [handler EXCEPT ![p] = l] /\ handler \in [Procs -> ProcStates]
  BY DEF Put, BindInv, BindTypeOK
<1>2. handler' \in [Procs -> ProcStates]
  BY <1>1
<1>3. \A x \in Procs : handler'[x] = IF x = p THEN l ELSE handler[x]
  BY <1>1
<1>4. \A x \in Procs : Coherent(handler[x])'
  BY <1>3 DEF BindInv, Coherent, Under
<1>5. gate' \in Procs \cup {NoProc}
  BY DEF BindInv, BindTypeOK
<1>6. \A x \in Procs : gate' = x => handler'[x].pc \in {"probe"} \cup BindPcs
  BY <1>3 DEF BindInv, BindTypeOK
<1> QED
  BY <1>2, <1>4, <1>5, <1>6 DEF HandlersOK

\* The rest of BindInv, when the handlers are settled by the lemma above.
LEMMA Reassemble ==
    ASSUME BindInv, HandlersOK',
           UNCHANGED <<marker, damaged, rows, bound, cacheVer, mem>>,
           open' \subseteq open, checked' \in BOOLEAN, up' = up,
           boot' \in BOOLEAN, moves' = moves, starts' = starts,
           bindFaults' \in 0 .. MaxBindFaults
    PROVE  BindInv'
  BY DEF BindInv, BindTypeOK, KeyedByContent, Under, HandlersOK

\* The same for the many steps that touch nothing but a handler and the lock.
LEMMA Quiet ==
    ASSUME BindInv, HandlersOK',
           UNCHANGED <<diskVars, bindSysVars, bound, cacheVer, mem, open, checked,
                       cntVars>>
    PROVE  BindInv'
<1>1. /\ UNCHANGED <<marker, damaged, rows, bound, cacheVer, mem>>
      /\ open' = open /\ up' = up /\ moves' = moves /\ starts' = starts
      /\ checked' = checked /\ boot' = boot /\ bindFaults' = bindFaults
  BY DEF diskVars, bindSysVars, cntVars
<1>2. checked' \in BOOLEAN /\ boot' \in BOOLEAN /\ bindFaults' \in 0 .. MaxBindFaults
  BY <1>1 DEF BindInv, BindTypeOK
<1> QED
  BY <1>1, <1>2, Reassemble

\* Every place a handler can be at with nothing in hand is well typed.
LEMMA AtOK ==
    ASSUME NEW pc \in {"idle", "gate", "probe"} \cup BindPcs \cup SearchPcs
    PROVE  Place(pc) \in ProcStates
<1>1. NoEntry \in Entries
  BY DEF NoEntry, Entries
<1> QED
  BY <1>1 DEF Place, ProcStates

\* An idle handler is coherent.
LEMMA IdleOK == AtIdle \in ProcStates /\ Coherent(AtIdle) /\ NoEntry \in Entries
  BY AtOK DEF AtIdle, Place, NoEntry, Entries, Coherent, BindPcs

\* What a handler's record is, and that Resume leads to a coherent one.
LEMMA LocalsOK ==
    ASSUME BindInv, NEW p \in Procs
    PROVE  /\ handler[p] \in ProcStates
           /\ Coherent(handler[p])
           /\ Resume(p) \in ProcStates /\ Coherent(Resume(p))
           /\ Resume(p).pc \notin BindPcs \cup {"probe"}
<1>1. handler[p] \in ProcStates /\ Coherent(handler[p])
  BY DEF BindInv, BindTypeOK
<1>2. CASE p = Ingest
  BY <1>1, <1>2, IdleOK DEF Resume, BindPcs, AtIdle, Place
<1>3. CASE p # Ingest
  <2>1. Resume(p) = Place("search") /\ Place("search").pc = "search"
        /\ Place("search").cache = None
    BY <1>3 DEF Resume, Place
  <2>2. Coherent(Place("search")) /\ Place("search").pc \notin BindPcs \cup {"probe"}
    BY <2>1 DEF Coherent, BindPcs
  <2> QED
    BY <1>1, <2>1, <2>2, AtOK DEF SearchPcs
<1> QED
  BY <1>2, <1>3

-------------------------------------------------------------------------------
\* The initial states satisfy the invariant.
LEMMA InitBindInv == BindInit => BindInv
<1> SUFFICES ASSUME BindInit PROVE BindInv
  OBVIOUS
<1>1. \A p \in Procs : handler[p] = AtIdle
  BY DEF BindInit
<1>2. BindTypeOK
  <2>1. handler \in [Procs -> ProcStates] /\ rows \in [Versions -> Entries]
        /\ mem \in [CacheIds -> Entries]
    BY IdleOK DEF BindInit
  <2>2. bound \in [info : 0 .. MaxVersion, table : 0 .. MaxVersion,
                   cache : 0 .. MaxCaches]
    BY DEF BindInit, Unbound
  <2>3. gate \in Procs \cup {NoProc} /\ \A p \in Procs : gate # p
    BY DEF BindInit
  <2>4. /\ marker \in 0 .. MaxVersion /\ damaged \subseteq Versions
        /\ open \subseteq CacheIds
    BY DEF BindInit
  <2>6. cacheVer \in [CacheIds -> 0 .. MaxVersion]
    BY DEF BindInit
  <2>7. up \in BOOLEAN /\ boot \in BOOLEAN /\ checked \in BOOLEAN
    BY DEF BindInit
  <2>5. /\ moves \in 0 .. MaxMoves /\ starts \in 0 .. MaxStarts
        /\ bindFaults \in 0 .. MaxBindFaults
    BY DEF BindInit
  <2> QED
    BY <2>1, <2>2, <2>3, <2>4, <2>5, <2>6, <2>7 DEF BindTypeOK
<1>3. KeyedByContent
  BY DEF BindInit, KeyedByContent, Under, NoEntry
<1>4. AtIdle.pc = "idle" /\ Unbound.cache = None
  BY DEF AtIdle, Place, Unbound
<1> QED
  BY <1>1, <1>2, <1>3, <1>4, IdleOK DEF BindInit, BindInv

\* The disk, starts and crashes.
LEMMA OutsideKeeps ==
    ASSUME BindInv, External \/ StartServer
    PROVE  BindInv'
<1>1. CASE \E v \in Versions : MarkerMoves(v) \/ Damage(v) \/ Repair(v)
  <2>1. /\ UNCHANGED <<rows, up, boot, bound, cacheVer, mem, open, gate,
                       checked, handler, starts, bindFaults>>
        /\ moves' \in 0 .. MaxMoves
        /\ marker' \in 0 .. MaxVersion
        /\ damaged' \subseteq Versions
    <3>1. CASE \E v \in Versions : MarkerMoves(v)
      BY <3>1 DEF MarkerMoves, OnDisk, BindInv, BindTypeOK
    <3>2. CASE \E v \in Versions : Damage(v)
      BY <3>2 DEF Damage, OnDisk, BindInv, BindTypeOK
    <3>3. CASE \E v \in Versions : Repair(v)
      BY <3>3 DEF Repair, OnDisk, BindInv, BindTypeOK
    <3> QED
      BY <1>1, <3>1, <3>2, <3>3
  <2> QED
    BY <2>1 DEF BindInv, BindTypeOK, KeyedByContent, Under, Coherent
<1>2. CASE Elapse
  BY <1>2 DEF Elapse, BindInv, BindTypeOK, KeyedByContent, Under, Coherent,
              diskVars, bindSysVars, cntVars
<1>3. CASE ServerCrash
  <2>1. \A p \in Procs : handler'[p] = AtIdle
    BY <1>3 DEF ServerCrash
  <2>2. BindTypeOK'
    <3>1. handler' \in [Procs -> ProcStates] /\ mem' \in [CacheIds -> Entries]
          /\ cacheVer' \in [CacheIds -> 0 .. MaxVersion]
      BY <1>3, IdleOK DEF ServerCrash
    <3>2. bound' \in [info : 0 .. MaxVersion, table : 0 .. MaxVersion,
                      cache : 0 .. MaxCaches]
      BY <1>3 DEF ServerCrash, Unbound
    <3>3. gate' = NoProc /\ \A p \in Procs : gate' # p
      BY <1>3 DEF ServerCrash
    <3> QED
      BY <1>3, <3>1, <3>2, <3>3
      DEF ServerCrash, BindInv, BindTypeOK, diskVars, cntVars
  <2>3. KeyedByContent'
    BY <1>3 DEF ServerCrash, BindInv, KeyedByContent, Under, NoEntry, diskVars
  <2>4. AtIdle.pc = "idle" /\ AtIdle.cache = None /\ bound'.cache = None
    BY <1>3 DEF AtIdle, Place, Unbound, ServerCrash
  <2>5. \A p \in Procs : Coherent(handler[p])'
    BY <2>1, <2>4 DEF Coherent, BindPcs
  <2> QED
    BY <2>1, <2>2, <2>3, <2>4, <2>5 DEF BindInv
<1>4. CASE StartStub
  BY <1>4 DEF StartStub, Boot, BindInv, BindTypeOK, KeyedByContent, Under,
              Coherent, diskVars
<1>5. ASSUME NEW c \in CacheIds \cup {None}, Startup(c)
      PROVE  BindInv'
  <2>1. OpenAt(marker) \in {marker, marker - 1} /\ marker \in Versions
        /\ OpenAt(marker) \in 0 .. MaxVersion
    BY <1>5 DEF Startup, OpenAt, BindInv, BindTypeOK
  <2>2. \A x \in Procs : handler[x].pc = "idle" /\ handler[x].cache = None
    BY <1>5 DEF Startup, Boot, BindInv, Coherent
  <2>3. \A x \in Procs : Coherent(handler[x])'
    BY <1>5, <2>2 DEF Startup, Boot, Coherent, BindPcs
  <2>4. KeyedByContent'
    BY <1>5, <2>1 DEF Startup, Boot, KeyedByContent, Under, BindInv, BindTypeOK,
                      diskVars
  <2>5. /\ bound'.cache = c /\ bound'.info = marker
        /\ bound'.table = OpenAt(marker)
        /\ c # None => cacheVer'[c] = marker
    BY <1>5 DEF Startup, BindInv, BindTypeOK
  <2>6. BindTypeOK'
    <3>1. /\ bound' \in [info : 0 .. MaxVersion, table : 0 .. MaxVersion,
                         cache : 0 .. MaxCaches]
          /\ cacheVer' \in [CacheIds -> 0 .. MaxVersion]
          /\ mem' \in [CacheIds -> Entries]
          /\ open' \subseteq CacheIds
      <4>1. bound' = [info |-> marker, table |-> OpenAt(marker), cache |-> c]
        BY <1>5 DEF Startup
      <4>2. bound' \in [info : 0 .. MaxVersion, table : 0 .. MaxVersion,
                        cache : 0 .. MaxCaches]
        BY <2>1, <4>1
      <4>3. CASE c = None
        BY <1>5, <4>2, <4>3 DEF Startup, BindInv, BindTypeOK
      <4>4. CASE c # None
        <5>1. rows[marker] \in Entries /\ c \in CacheIds
          BY <2>1, <4>4 DEF BindInv, BindTypeOK
        <5>2. /\ cacheVer' = [cacheVer EXCEPT ![c] = marker]
              /\ mem' = [mem EXCEPT ![c] = rows[marker]]
              /\ open' = {c}
          BY <1>5, <4>4 DEF Startup
        <5> QED
          BY <2>1, <4>2, <5>1, <5>2 DEF BindInv, BindTypeOK
      <4> QED
        BY <4>3, <4>4
    <3>2. /\ UNCHANGED <<marker, damaged, rows, gate, checked, handler, moves,
                         bindFaults>>
          /\ up' \in BOOLEAN /\ boot' \in BOOLEAN /\ starts' \in 0 .. MaxStarts
      <4>1. starts \in Nat /\ starts < MaxStarts /\ starts' = starts + 1
        BY <1>5 DEF Startup, Boot, BindInv, BindTypeOK
      <4>2. starts' \in 0 .. MaxStarts
        BY <4>1
      <4> QED
        BY <1>5, <4>2 DEF Startup, Boot, diskVars
    <3> QED
      BY <3>1, <3>2 DEF BindInv, BindTypeOK
  <2> QED
    BY <1>5, <2>1, <2>2, <2>3, <2>4, <2>5, <2>6 DEF BindInv, Startup, Boot
<1> QED
  BY <1>1, <1>2, <1>3, <1>4, <1>5 DEF External, StartServer
-------------------------------------------------------------------------------
\* The way through the gate.
LEMMA GateKeeps ==
    ASSUME BindInv, NEW p \in Procs,
           Arrive(p) \/ (p = Ingest /\ IngestComplete) \/ EnterGate(p) \/ Probe(p)
    PROVE  BindInv'
<1>0. /\ Place("gate") \in ProcStates /\ Coherent(Place("gate"))
      /\ Place("probe") \in ProcStates /\ Coherent(Place("probe"))
      /\ Place("probe").pc = "probe" /\ Place("gate").pc = "gate"
  BY AtOK DEF Coherent, Place, BindPcs
<1>00. ASSUME marker # None
       PROVE  LET l == [Place("open") EXCEPT !.info = marker] IN
                 l \in ProcStates /\ Coherent(l) /\ l.pc \in BindPcs
  <2> DEFINE l == [Place("open") EXCEPT !.info = marker]
  <2>1. Place("open") \in ProcStates /\ marker \in Versions
    BY <1>00, AtOK DEF BindPcs, BindInv, BindTypeOK
  <2>2. l \in ProcStates
    BY <2>1 DEF ProcStates
  <2>3. l.pc = "open" /\ l.info = marker /\ l.cache = None
    BY DEF Place
  <2>4. Coherent(l) /\ l.pc \in BindPcs
    BY <2>1, <2>3 DEF Coherent, BindPcs
  <2> QED
    BY <2>2, <2>4
<1>1. CASE Arrive(p)
  <2>1. HandlersOK'
    <3>1. up /\ Put(p, Place("gate")) /\ UNCHANGED <<cacheVer, up>> /\ gate' = gate
      BY <1>1 DEF Arrive, bindSysVars
    <3>2. gate # p
      BY <1>1 DEF Arrive, BindInv, BindTypeOK, BindPcs
    <3> QED
      BY <1>0, <3>1, <3>2, PutKeeps
  <2> QED
    BY <1>1, <2>1, Quiet DEF Arrive
<1>2. CASE p = Ingest /\ IngestComplete
  <2>1. HandlersOK'
    <3>1. CASE boot
      BY <1>00, <1>2, <3>1, PutKeeps DEF IngestComplete, bindSysVars
    <3>2. CASE ~boot
      <4>1. up /\ Put(p, Place("gate")) /\ UNCHANGED <<cacheVer, up>> /\ gate' = gate
        BY <1>2, <3>2 DEF IngestComplete, bindSysVars
      <4>2. gate # p
        BY <1>2 DEF IngestComplete, BindInv, BindTypeOK, BindPcs
      <4> QED
        BY <1>0, <4>1, <4>2, PutKeeps
    <3> QED
      BY <3>1, <3>2
  <2> QED
    BY <1>2, <2>1, Quiet DEF IngestComplete
<1>3. CASE EnterGate(p)
  <2>0. up
    BY <1>3 DEF EnterGate, BindInv
  <2>1. HandlersOK'
    BY <1>0, <1>3, <2>0, PutKeeps, LocalsOK DEF EnterGate, bindSysVars
  <2> QED
    BY <1>3, <2>1, Quiet DEF EnterGate
<1>4. CASE Probe(p)
  <2>0. up
    BY <1>4 DEF Probe, BindInv
  <2>1. HandlersOK'
    <3>1. CASE marker \in {None, bound.info}
      BY <1>4, <2>0, <3>1, PutKeeps, LocalsOK DEF Probe, Release, bindSysVars
    <3>2. CASE marker \notin {None, bound.info}
      BY <1>00, <1>4, <2>0, <3>2, PutKeeps DEF Probe, bindSysVars
    <3> QED
      BY <3>1, <3>2
  <2>2. checked' \in BOOLEAN
    BY <1>4 DEF Probe, Release, BindInv, BindTypeOK
  <2>3. /\ UNCHANGED <<marker, damaged, rows, bound, cacheVer, mem>>
        /\ open' = open /\ up' = up /\ moves' = moves /\ starts' = starts
        /\ boot' = boot /\ bindFaults' = bindFaults
    BY <1>4 DEF Probe, diskVars, bindSysVars, cntVars
  <2> QED
    BY <2>1, <2>2, <2>3, Reassemble DEF BindInv, BindTypeOK
<1> QED
  BY <1>1, <1>2, <1>3, <1>4
-------------------------------------------------------------------------------
\* A bind that fails, at any of its steps.
LEMMA FailureKeeps ==
    ASSUME BindInv, NEW p \in Procs, BindFaults(p) \/ OpenUnrecoverable(p)
    PROVE  BindInv'
<1>1. BindFails(p) /\ up /\ moves' = moves /\ starts' = starts
      /\ bindFaults' \in 0 .. MaxBindFaults
  <2>1. CASE BindFaults(p)
    BY <2>1 DEF BindFaults, BindInv, BindTypeOK
  <2>2. CASE OpenUnrecoverable(p)
    BY <2>2 DEF OpenUnrecoverable, BindInv, BindTypeOK, cntVars
  <2> QED
    BY <2>1, <2>2
<1>2. HandlersOK'
  BY <1>1, PutKeeps, LocalsOK DEF BindFails, Release, bindSysVars
<1>3. checked' \in BOOLEAN
  BY <1>1 DEF BindFails, Release, BindInv, BindTypeOK
<1>4. /\ UNCHANGED <<marker, damaged, rows, bound, cacheVer, mem>>
      /\ open' = open /\ up' = up /\ boot' = boot
  BY <1>1 DEF BindFails, diskVars, bindSysVars
<1> QED
  BY <1>1, <1>2, <1>3, <1>4, Reassemble DEF BindInv, BindTypeOK

\* open_chunks_table_with_fallback gives the version asked for or the one below.
LEMMA OpenAtNear ==
    ASSUME NEW v \in Versions, OpenAt(v) # None
    PROVE  OpenAt(v) \in {v, v - 1} /\ OpenAt(v) \in 0 .. MaxVersion
  BY DEF OpenAt

\* Opening the table, going on without a cache, publishing, closing.
LEMMA BindKeeps ==
    ASSUME BindInv, NEW p \in Procs,
           OpenTable(p) \/ CacheUnavailable(p) \/ Swap(p) \/ CloseOld(p)
    PROVE  BindInv'
<1>0. handler[p] \in ProcStates /\ Coherent(handler[p])
  BY LocalsOK
<1>1. CASE OpenTable(p)
  <2> DEFINE l == [handler[p] EXCEPT !.table = OpenAt(handler[p].info), !.pc = "cache"]
  <2>1. handler[p].info \in Versions /\ handler[p].pc = "open" /\ up
    BY <1>0, <1>1 DEF OpenTable, Coherent, BindPcs, BindInv
  <2>2. OpenAt(handler[p].info) \in {handler[p].info, handler[p].info - 1}
        /\ OpenAt(handler[p].info) \in 0 .. MaxVersion
    BY <1>1, <2>1, OpenAtNear DEF OpenTable
  <2>3. l \in ProcStates
    BY <1>0, <2>2 DEF ProcStates, BindPcs
  <2>4. /\ l.pc = "cache" /\ l.info = handler[p].info /\ l.cache = handler[p].cache
        /\ l.table = OpenAt(handler[p].info)
    BY <1>0 DEF ProcStates
  <2>5. Coherent(l)
    BY <1>0, <2>1, <2>2, <2>4 DEF Coherent, BindPcs
  <2>6. HandlersOK'
    BY <1>1, <2>1, <2>3, <2>4, <2>5, PutKeeps DEF OpenTable, bindSysVars, BindPcs
  <2> QED
    BY <1>1, <2>6, Quiet DEF OpenTable
<1>2. CASE CacheUnavailable(p)
  <2> DEFINE l == [handler[p] EXCEPT !.pc = "stores"]
  <2>1. handler[p].pc = "cache" /\ up
    BY <1>2 DEF CacheUnavailable, BindInv
  <2>2. l \in ProcStates
    BY <1>0 DEF ProcStates, BindPcs
  <2>3. /\ l.pc = "stores" /\ l.info = handler[p].info /\ l.cache = handler[p].cache
        /\ l.table = handler[p].table
    BY <1>0 DEF ProcStates
  <2>4. Coherent(l)
    BY <1>0, <2>1, <2>3 DEF Coherent, BindPcs
  <2>5. HandlersOK'
    BY <1>2, <2>1, <2>2, <2>3, <2>4, PutKeeps
    DEF CacheUnavailable, bindSysVars, BindPcs
  <2>6. bindFaults' \in 0 .. MaxBindFaults
    BY <1>2 DEF CacheUnavailable, BindInv, BindTypeOK
  <2>7. /\ UNCHANGED <<marker, damaged, rows, bound, cacheVer, mem>>
        /\ open' = open /\ up' = up /\ boot' = boot /\ moves' = moves
        /\ starts' = starts /\ checked' = checked
    BY <1>2 DEF CacheUnavailable, diskVars, bindSysVars
  <2> QED
    BY <2>5, <2>6, <2>7, Reassemble DEF BindInv, BindTypeOK
<1>3. CASE Swap(p)
  <2> DEFINE l == [handler[p] EXCEPT !.prev = bound.cache, !.pc = "close"]
  <2>1. handler[p].pc = "stores" /\ up
    BY <1>3 DEF Swap, BindInv
  <2>2. l \in ProcStates
    BY <1>0 DEF ProcStates, BindPcs, BindInv, BindTypeOK
  <2>3. /\ l.pc = "close" /\ l.info = handler[p].info /\ l.cache = handler[p].cache
    BY <1>0 DEF ProcStates
  <2>4. Coherent(l)
    BY <1>0, <2>1, <2>3 DEF Coherent, BindPcs
  <2>5. HandlersOK'
    BY <1>3, <2>1, <2>2, <2>3, <2>4, PutKeeps DEF Swap, bindSysVars, BindPcs
  <2>6. bound' = [info |-> handler[p].info, table |-> handler[p].table,
                  cache |-> handler[p].cache]
    BY <1>3 DEF Swap
  <2>7. bound' \in [info : 0 .. MaxVersion, table : 0 .. MaxVersion,
                    cache : 0 .. MaxCaches]
    BY <1>0, <2>6 DEF ProcStates
  <2>8. UNCHANGED <<marker, damaged, rows, up, boot, cacheVer, mem, open,
                    checked, moves, starts, bindFaults>>
    BY <1>3 DEF Swap, diskVars, bindSysVars, cntVars
  <2>9. BindTypeOK' /\ KeyedByContent'
    BY <2>5, <2>7, <2>8
    DEF BindInv, BindTypeOK, KeyedByContent, Under, HandlersOK
  <2>10. bound'.cache # None =>
           /\ bound'.info \in Versions
           /\ bound'.table \in {bound'.info, bound'.info - 1}
           /\ cacheVer'[bound'.cache] = bound'.info
    BY <1>0, <2>1, <2>6, <2>8 DEF Coherent, BindPcs
  <2> QED
    BY <2>5, <2>9, <2>10 DEF BindInv, HandlersOK
<1>4. CASE CloseOld(p)
  <2>1. up /\ handler[p].pc = "close"
    BY <1>4 DEF CloseOld, BindInv
  <2>2. Place("gate") \in ProcStates /\ Coherent(Place("gate")) /\ Place("gate").pc = "gate"
    BY AtOK DEF Coherent, Place, BindPcs
  <2>3. HandlersOK'
    <3>1. CASE gate = p
      BY <1>4, <2>1, <3>1, PutKeeps, LocalsOK DEF CloseOld
    <3>2. CASE gate # p
      BY <1>4, <2>1, <2>2, <3>2, PutKeeps DEF CloseOld
    <3> QED
      BY <3>1, <3>2
  <2>4. /\ UNCHANGED <<marker, damaged, rows, bound, cacheVer, mem>>
        /\ up' = up /\ moves' = moves /\ starts' = starts
        /\ checked' = TRUE /\ bindFaults' = bindFaults
    BY <1>4 DEF CloseOld, diskVars, cntVars
  <2>5. open' \subseteq open /\ boot' \in BOOLEAN
    BY <1>4 DEF CloseOld, BindInv, BindTypeOK
  <2> QED
    BY <2>3, <2>4, <2>5, Reassemble DEF BindInv, BindTypeOK
<1> QED
  BY <1>1, <1>2, <1>3, <1>4

-------------------------------------------------------------------------------
\* Opening a cache for the version being bound: the identity taken is in
\* nobody's hand, so nobody's coherence depends on it.
LEMMA OpenCacheKeeps ==
    ASSUME BindInv, NEW p \in Procs, NEW c \in CacheIds, OpenCache(p, c)
    PROVE  BindInv'
<1> DEFINE v == handler[p].info
           l == [handler[p] EXCEPT !.cache = c, !.pc = "load"]
<1>0. handler[p] \in ProcStates /\ Coherent(handler[p]) /\ handler[p].pc = "cache" /\ up
  BY LocalsOK DEF OpenCache, BindInv
<1>1. v \in Versions /\ handler[p].table \in {v, v - 1}
  BY <1>0 DEF Coherent, BindPcs
<1>2. l \in ProcStates
  <2>1. c \in 0 .. MaxCaches
    OBVIOUS
  <2> QED
    BY <1>0, <2>1 DEF ProcStates, BindPcs
<1>3. l.pc = "load" /\ l.info = v /\ l.cache = c /\ l.table = handler[p].table
  BY <1>0 DEF ProcStates
<1>4. cacheVer' = [cacheVer EXCEPT ![c] = v] /\ cacheVer \in [CacheIds -> 0 .. MaxVersion]
  BY DEF OpenCache, BindInv, BindTypeOK
<1>5. /\ handler' = [handler EXCEPT ![p] = l] /\ handler \in [Procs -> ProcStates]
      /\ gate' = gate /\ up' = up /\ bound' = bound
  BY DEF OpenCache, Put, BindInv, BindTypeOK, bindSysVars
<1>6. \A x \in Procs : handler'[x] = IF x = p THEN l ELSE handler[x]
  BY <1>5
<1>7. c # bound.cache /\ \A x \in Procs : c # handler[x].cache
  BY DEF OpenCache, InUse
<1>8. Coherent(handler[p])'
  <2>1. handler'[p] = l /\ cacheVer'[c] = v
    BY <1>4, <1>6
  <2>2. /\ handler'[p].pc = "load" /\ handler'[p].info = v /\ handler'[p].cache = c
        /\ handler'[p].table \in {v, v - 1}
    BY <1>1, <1>3, <2>1
  <2> QED
    BY <1>1, <2>1, <2>2 DEF Coherent, BindPcs
<1>9. ASSUME NEW x \in Procs, x # p
      PROVE  Coherent(handler[x])'
  <2>1. Coherent(handler[x]) /\ handler'[x] = handler[x] /\ handler[x].cache # c
        /\ handler[x].cache \in 0 .. MaxCaches
    BY <1>6, <1>7, <1>9 DEF BindInv, BindTypeOK, ProcStates
  <2>2. handler[x].cache # None => cacheVer'[handler[x].cache] = cacheVer[handler[x].cache]
    BY <1>4, <2>1
  <2> QED
    BY <2>1, <2>2 DEF Coherent, Under
<1>10. \A x \in Procs : Coherent(handler[x])'
  BY <1>6, <1>8, <1>9
<1>11. HandlersOK'
  <2>1. handler' \in [Procs -> ProcStates]
    BY <1>2, <1>5
  <2>2. gate \in Procs \cup {NoProc}
        /\ \A x \in Procs : gate' = x => handler'[x].pc \in {"probe"} \cup BindPcs
    BY <1>3, <1>5, <1>6 DEF BindInv, BindTypeOK, BindPcs
  <2> QED
    BY <1>0, <1>5, <1>10, <2>1, <2>2 DEF HandlersOK
<1>12. /\ mem' = [mem EXCEPT ![c] = NoEntry] /\ open' = open \cup {c}
       /\ rows' = [x \in Versions |-> IF x = v THEN rows[x] ELSE NoEntry]
       /\ UNCHANGED <<marker, damaged, boot, checked, moves, starts, bindFaults>>
  BY DEF OpenCache, bindSysVars, cntVars
<1>13. KeyedByContent'
  BY <1>4, <1>12 DEF BindInv, BindTypeOK, KeyedByContent, Under, NoEntry
<1>14. BindTypeOK'
  <2>1. rows' \in [Versions -> Entries] /\ mem' \in [CacheIds -> Entries]
        /\ cacheVer' \in [CacheIds -> 0 .. MaxVersion] /\ open' \subseteq CacheIds
    BY <1>1, <1>4, <1>12, IdleOK DEF BindInv, BindTypeOK
  <2> QED
    BY <1>5, <1>11, <1>12, <2>1 DEF BindInv, BindTypeOK, HandlersOK
<1>15. bound.cache # None => cacheVer'[bound.cache] = cacheVer[bound.cache]
  BY <1>4, <1>7 DEF BindInv, BindTypeOK
<1> QED
  BY <1>5, <1>11, <1>13, <1>14, <1>15 DEF BindInv, HandlersOK

\* Steps that write entries of the right version and nothing else shared.
LEMMA WriteKeeps ==
    ASSUME BindInv, HandlersOK', KeyedByContent',
           rows' \in [Versions -> Entries], mem' \in [CacheIds -> Entries],
           UNCHANGED <<marker, damaged, up, boot, bound, cacheVer, open, checked,
                       moves, starts, bindFaults>>
    PROVE  BindInv'
  BY DEF BindInv, BindTypeOK, HandlersOK

\* The rows of the version, loaded into its new cache.
LEMMA LoadCacheKeeps ==
    ASSUME BindInv, NEW p \in Procs, LoadCache(p)
    PROVE  BindInv'
<1> DEFINE l == [handler[p] EXCEPT !.pc = "stores"]
<1>0. handler[p] \in ProcStates /\ Coherent(handler[p]) /\ handler[p].pc = "load" /\ up
  BY LocalsOK DEF LoadCache, BindInv
<1>1. /\ handler[p].info \in Versions /\ handler[p].cache \in CacheIds
      /\ cacheVer[handler[p].cache] = handler[p].info
  BY <1>0 DEF Coherent, BindPcs, ProcStates
<1>2. l \in ProcStates
  BY <1>0 DEF ProcStates, BindPcs
<1>3. /\ l.pc = "stores" /\ l.info = handler[p].info /\ l.cache = handler[p].cache
      /\ l.table = handler[p].table
  BY <1>0 DEF ProcStates
<1>4. Coherent(l)
  BY <1>0, <1>3 DEF Coherent, BindPcs
<1>5. HandlersOK'
  BY <1>0, <1>2, <1>3, <1>4, PutKeeps DEF LoadCache, bindSysVars, BindPcs
<1>6. /\ mem' = [mem EXCEPT ![handler[p].cache] = rows[handler[p].info]]
      /\ UNCHANGED <<marker, damaged, rows, up, boot, bound, cacheVer, open,
                     checked, moves, starts, bindFaults>>
  BY DEF LoadCache, diskVars, bindSysVars, cntVars
<1>7. mem' \in [CacheIds -> Entries] /\ rows' \in [Versions -> Entries]
  BY <1>1, <1>6 DEF BindInv, BindTypeOK
<1>8. KeyedByContent'
  BY <1>1, <1>6 DEF BindInv, BindTypeOK, KeyedByContent
<1> QED
  BY <1>5, <1>6, <1>7, <1>8, WriteKeeps

-------------------------------------------------------------------------------
\* A search, up to its answer.
LEMMA SearchKeeps ==
    ASSUME BindInv, NEW p \in Procs, Search(p)
    PROVE  BindInv'
<1>0. handler[p] \in ProcStates /\ Coherent(handler[p])
  BY LocalsOK
<1>1. CASE Capture(p)
  <2> DEFINE l == [Place("lookup") EXCEPT !.table = bound.table,
                      !.cache = bound.cache,
                      !.flag = (bound.table # bound.info)]
  <2>1. up /\ handler[p].pc = "search"
    BY <1>1 DEF Capture, BindInv
  <2>2. Place("lookup") \in ProcStates
    BY AtOK DEF SearchPcs
  <2>3. bound.table \in 0 .. MaxVersion /\ bound.cache \in 0 .. MaxCaches
        /\ (bound.table # bound.info) \in BOOLEAN
    BY DEF BindInv, BindTypeOK
  <2>4. l \in ProcStates
    BY <2>2, <2>3 DEF ProcStates
  <2>5. l.pc = "lookup" /\ l.table = bound.table /\ l.cache = bound.cache
    BY DEF Place
  <2>6. Coherent(l)
    BY <2>5 DEF BindInv, Coherent, BindPcs
  <2>7. gate # p
    BY <2>1 DEF BindInv, BindTypeOK, BindPcs
  <2>8. HandlersOK'
    BY <1>1, <2>1, <2>4, <2>6, <2>7, PutKeeps DEF Capture, bindSysVars
  <2> QED
    BY <1>1, <2>8, Quiet DEF Capture
<1>2. CASE Miss(p)
  <2> DEFINE l == [handler[p] EXCEPT !.pc = "relookup"]
  <2>1. up /\ handler[p].pc = "lookup"
    BY <1>2 DEF Miss, BindInv
  <2>2. l \in ProcStates
    BY <1>0 DEF ProcStates, SearchPcs
  <2>3. l.pc = "relookup" /\ l.table = handler[p].table /\ l.cache = handler[p].cache
    BY <1>0 DEF ProcStates
  <2>4. Coherent(l) /\ gate # p
    BY <1>0, <2>1, <2>3 DEF BindInv, BindTypeOK, Coherent, BindPcs
  <2>5. HandlersOK'
    BY <1>2, <2>1, <2>2, <2>4, PutKeeps DEF Miss, bindSysVars
  <2> QED
    BY <1>2, <2>5, Quiet DEF Miss
<1>3. CASE Rank(p)
  <2> DEFINE l == [handler[p] EXCEPT !.got.from = handler[p].table,
                      !.table = None, !.pc = "enrich"]
  <2>1. up /\ handler[p].pc = "relookup"
    BY <1>3 DEF Rank, BindInv
  <2>2. handler[p].got \in Entries /\ handler[p].table \in 0 .. MaxVersion
    BY <1>0 DEF ProcStates
  <2>3. [handler[p].got EXCEPT !.from = handler[p].table] \in Entries
        /\ [handler[p].got EXCEPT !.from = handler[p].table].from = handler[p].table
    BY <2>2 DEF Entries
  <2>4. l \in ProcStates
    <3>1. 0 \in 0 .. MaxVersion /\ "enrich" \in SearchPcs
      BY DEF SearchPcs
    <3> QED
      BY <1>0, <2>3, <3>1 DEF ProcStates
  <2>5. l.pc = "enrich" /\ l.got.from = handler[p].table /\ l.cache = handler[p].cache
    BY <1>0, <2>3 DEF ProcStates
  <2>6. Coherent(l) /\ gate # p
    BY <1>0, <2>1, <2>5 DEF BindInv, BindTypeOK, Coherent, BindPcs, Under
  <2>7. HandlersOK'
    BY <1>3, <2>1, <2>4, <2>6, PutKeeps DEF Rank, bindSysVars
  <2> QED
    BY <1>3, <2>7, Quiet DEF Rank
<1>4. CASE Stamp(p)
  <2> DEFINE to == IF handler[p].cache = None THEN "reply" ELSE "store"
             l == [handler[p] EXCEPT !.got.stamp = bound.info, !.pc = to]
  <2>1. up /\ handler[p].pc = "enrich"
    BY <1>4 DEF Stamp, BindInv
  <2>2. handler[p].got \in Entries /\ bound.info \in 0 .. MaxVersion
    BY <1>0 DEF ProcStates, BindInv, BindTypeOK
  <2>3. [handler[p].got EXCEPT !.stamp = bound.info] \in Entries
        /\ [handler[p].got EXCEPT !.stamp = bound.info].from = handler[p].got.from
    BY <2>2 DEF Entries
  <2>4. to \in {"reply", "store"} /\ (to = "store" => handler[p].cache # None)
    OBVIOUS
  <2>5. l \in ProcStates
    <3>1. to \in SearchPcs
      BY <2>4 DEF SearchPcs
    <3> HIDE DEF to
    <3> QED
      BY <1>0, <2>3, <3>1 DEF ProcStates
  <2>6. l.pc = to /\ l.got.from = handler[p].got.from /\ l.cache = handler[p].cache
    BY <1>0, <2>3 DEF ProcStates
  <2>7. Coherent(l) /\ gate # p
    BY <1>0, <2>1, <2>4, <2>6 DEF BindInv, BindTypeOK, Coherent, BindPcs, Under
  <2>8. HandlersOK'
    BY <1>4, <2>1, <2>5, <2>7, PutKeeps DEF Stamp, bindSysVars
  <2> QED
    BY <1>4, <2>8, Quiet DEF Stamp
<1>5. CASE Reply(p)
  <2>1. up /\ gate # p
    BY <1>5 DEF Reply, BindInv, BindTypeOK, BindPcs
  <2>2. HandlersOK'
    BY <1>5, <2>1, IdleOK, PutKeeps DEF Reply, bindSysVars
  <2> QED
    BY <1>5, <2>2, Quiet DEF Reply
<1>6. CASE Hit(p)
  <2> DEFINE l == [Place("reply") EXCEPT !.got = Found(p), !.flag = handler[p].flag]
  <2>1. up /\ gate # p /\ handler[p].pc \in {"lookup", "relookup"}
    BY <1>6 DEF Hit, BindInv, BindTypeOK, BindPcs
  <2>2. handler[p].cache \in CacheIds /\ cacheVer[handler[p].cache] \in Versions
    BY <1>0, <1>6 DEF Hit, Found, Coherent, ProcStates
  <2>3. Found(p) \in Entries /\ Under(Found(p), cacheVer[handler[p].cache])
    BY <2>2, IdleOK DEF Found, BindInv, BindTypeOK, KeyedByContent, Under, NoEntry
  <2>4. Place("reply") \in ProcStates
    BY AtOK DEF SearchPcs
  <2>5. l \in ProcStates
    BY <1>0, <2>3, <2>4 DEF ProcStates
  <2>6. l.pc = "reply" /\ l.cache = None
    BY DEF Place
  <2>7. Coherent(l)
    BY <2>6 DEF Coherent, BindPcs
  <2>8. HandlersOK'
    BY <1>6, <2>1, <2>5, <2>7, PutKeeps DEF Hit, bindSysVars
  <2>9. /\ mem' = [mem EXCEPT ![handler[p].cache] = Found(p)]
        /\ UNCHANGED <<marker, damaged, rows, up, boot, bound, cacheVer, open,
                       checked, moves, starts, bindFaults>>
    BY <1>6 DEF Hit, diskVars, bindSysVars, cntVars
  <2>10. rows' \in [Versions -> Entries] /\ mem' \in [CacheIds -> Entries]
    BY <2>2, <2>3, <2>9 DEF BindInv, BindTypeOK
  <2>11. KeyedByContent'
    BY <2>2, <2>3, <2>9 DEF BindInv, BindTypeOK, KeyedByContent, Under
  <2> QED
    BY <2>8, <2>9, <2>10, <2>11, WriteKeeps
<1>7. CASE Store(p)
  <2> DEFINE l == [handler[p] EXCEPT !.cache = None, !.pc = "reply"]
             c == handler[p].cache
  <2>1. up /\ gate # p /\ handler[p].pc = "store"
    BY <1>7 DEF Store, BindInv, BindTypeOK, BindPcs
  <2>2. c \in CacheIds /\ cacheVer[c] \in Versions
        /\ handler[p].got \in Entries /\ Under(handler[p].got, cacheVer[c])
    BY <1>0, <2>1 DEF Coherent, ProcStates
  <2>3. l \in ProcStates
    <3>1. 0 \in 0 .. MaxCaches /\ "reply" \in SearchPcs
      BY DEF SearchPcs
    <3> QED
      BY <1>0, <3>1 DEF ProcStates
  <2>4. l.pc = "reply" /\ l.cache = None
    BY <1>0 DEF ProcStates
  <2>5. Coherent(l)
    BY <2>4 DEF Coherent, BindPcs
  <2>6. HandlersOK'
    BY <1>7, <2>1, <2>3, <2>5, PutKeeps DEF Store, bindSysVars
  <2>7. /\ mem' = [mem EXCEPT ![c] = handler[p].got]
        /\ \/ rows' = [rows EXCEPT ![cacheVer[c]] = handler[p].got]
           \/ rows' = [rows EXCEPT ![cacheVer[c]] = rows[cacheVer[c]]]
        /\ UNCHANGED <<marker, damaged, up, boot, bound, cacheVer, open, checked,
                       moves, starts, bindFaults>>
    BY <1>7 DEF Store, bindSysVars, cntVars
  <2>8. rows' \in [Versions -> Entries] /\ mem' \in [CacheIds -> Entries]
    BY <2>2, <2>7 DEF BindInv, BindTypeOK
  <2>9. KeyedByContent'
    BY <2>2, <2>7 DEF BindInv, BindTypeOK, KeyedByContent, Under
  <2> QED
    BY <2>6, <2>7, <2>8, <2>9, WriteKeeps
<1> QED
  BY <1>1, <1>2, <1>3, <1>4, <1>5, <1>6, <1>7 DEF Search

-------------------------------------------------------------------------------
\* Every step preserves the invariant.
LEMMA NextBindInv == BindInv /\ [BindNext]_bindVars => BindInv'
<1> SUFFICES ASSUME BindInv, [BindNext]_bindVars PROVE BindInv'
  OBVIOUS
<1>1. CASE External \/ StartServer
  BY <1>1, OutsideKeeps
<1>2. CASE IngestComplete
  BY <1>2, GateKeeps
<1>3. ASSUME NEW q \in Requests, Arrive(q) \/ Search(q)
      PROVE  BindInv'
  BY <1>3, GateKeeps, SearchKeeps
<1>4. ASSUME NEW p \in Procs, Refresh(p)
      PROVE  BindInv'
  BY <1>4, GateKeeps, FailureKeeps, BindKeeps, OpenCacheKeeps, LoadCacheKeeps
  DEF Refresh
<1>5. CASE UNCHANGED bindVars
  BY <1>5 DEF bindVars, BindInv, BindTypeOK, KeyedByContent, Under, Coherent
<1> QED
  BY <1>1, <1>2, <1>3, <1>4, <1>5 DEF BindNext

\* Every variable keeps its type, and a taken lock has a holder at work.
THEOREM BindingTypeCorrect == BindSpec => []BindTypeOK
<1>1. BindInv => BindTypeOK
  BY DEF BindInv
<1> QED
  BY <1>1, InitBindInv, NextBindInv, PTL DEF BindSpec

\* Whatever rebinds, failures, crashes and disk changes race the searches, a
\* payload kept under a version was read from it or from its fallback.
THEOREM KeyedByContentHolds == BindSpec => []KeyedByContent
<1>1. BindInv => KeyedByContent
  BY DEF BindInv
<1> QED
  BY <1>1, InitBindInv, NextBindInv, PTL DEF BindSpec
-------------------------------------------------------------------------------
(***************************************************************************)
(* One bind at a time.  Neither BoundCacheOpen nor OneRebindPerBump is     *)
(* inductive: a bind acts, several awaits later, on what it compared and   *)
(* on what it opened.  RebindInv says that nobody else publishes or closes *)
(* in between.  The lock alone does not give that, for late_bind takes no  *)
(* lock: what keeps the two apart is that a stub answers without coming to *)
(* the gate, and stays a stub until late_bind is over.                     *)
(***************************************************************************)
Binding(l) == l.pc \in {"probe"} \cup BindPcs

OneBinder ==
    /\ \A x \in Procs : Binding(handler[x]) => gate = x \/ (boot /\ x = Ingest)
    /\ boot => /\ gate = NoProc
               /\ handler[Ingest].pc \notin {"gate", "probe"}
               /\ \A q \in Requests : handler[q].pc = "idle"

\* of the caches opened, the one to publish is among them and is not the one
\* to be replaced; the one to close is not the one published
Apart(l, opened, published) ==
    /\ l.pc \in {"open", "cache"} => l.cache = None
    /\ l.pc \in {"load", "stores"} /\ l.cache # None =>
           l.cache \in opened /\ l.cache # published
    /\ l.pc = "close" => l.prev = None \/ l.prev # published

\* a version on its way to being published is still another than the bound one
News(l) == l.pc \in BindPcs \ {"close"} => l.info # bound.info

Unpublished ==
    /\ ~up => bound = Unbound /\ ~boot
    /\ boot /\ handler[Ingest].pc # "close" => bound.info = None

RebindInv ==
    /\ OneBinder
    /\ \A x \in Procs : Apart(handler[x], open, bound.cache) /\ News(handler[x])
    /\ Unpublished
    /\ BoundCacheOpen

\* While one handler binds, no other one does.
LEMMA Alone ==
    ASSUME RebindInv, NEW p \in Procs, Binding(handler[p]),
           NEW x \in Procs, Binding(handler[x])
    PROVE  x = p
  BY DEF RebindInv, OneBinder

\* A handler that moves while nothing is published and nothing closed.
LEMMA MoveKeeps ==
    ASSUME BindInv, RebindInv, NEW p \in Procs, NEW l, Put(p, l),
           UNCHANGED <<bound, up, boot>>, open \subseteq open',
           \A x \in Procs \ {p} : gate = x => gate' = x,
           boot => p = Ingest /\ gate' = NoProc /\ l.pc \notin {"gate", "probe"},
           Binding(l) => gate' = p \/ (boot /\ p = Ingest),
           handler[p].pc # "close", Apart(l, open', bound'.cache), News(l)
    PROVE  RebindInv'
<1>1. \A x \in Procs : handler'[x] = IF x = p THEN l ELSE handler[x]
  BY DEF Put, BindInv, BindTypeOK
<1>2. OneBinder'
  BY <1>1 DEF RebindInv, OneBinder, Binding
<1>3. ASSUME NEW x \in Procs
      PROVE  Apart(handler'[x], open', bound'.cache) /\ News(handler[x])'
  <2>1. CASE x = p
    BY <1>1, <2>1 DEF Apart, News
  <2>2. CASE x # p
    <3>1. handler'[x] = handler[x] /\ Apart(handler[x], open, bound.cache) /\ News(handler[x])
      BY <1>1, <2>2 DEF RebindInv
    <3> QED
      BY <3>1 DEF Apart, News
  <2> QED
    BY <2>1, <2>2
<1>4. Unpublished'
  <2>1. boot => bound.info = None
    BY DEF RebindInv, Unpublished
  <2> QED
    BY <2>1 DEF RebindInv, Unpublished
<1>5. BoundCacheOpen'
  BY DEF RebindInv, BoundCacheOpen
<1> QED
  BY <1>2, <1>3, <1>4, <1>5 DEF RebindInv

\* The initial states satisfy the invariant.
LEMMA InitRebindInv == BindInit => RebindInv
<1> SUFFICES ASSUME BindInit PROVE RebindInv
  OBVIOUS
<1>1. \A x \in Procs : handler[x].pc = "idle"
  BY DEF BindInit, AtIdle, Place
<1>2. bound = Unbound /\ bound.info = None /\ bound.cache = None /\ ~boot
  BY DEF BindInit, Unbound
<1> QED
  BY <1>1, <1>2 DEF RebindInv, OneBinder, Binding, BindPcs, Apart, News,
                    Unpublished, BoundCacheOpen

\* The disk and the clock say nothing about the handlers; a start finds none at
\* work and a crash leaves none.
LEMMA OutsideRebind ==
    ASSUME BindInv, RebindInv, External \/ StartServer
    PROVE  RebindInv'
<1> DEFINE Still == UNCHANGED <<up, boot, bound, open, gate, handler>>
<1>1. ASSUME Still PROVE RebindInv'
  BY <1>1 DEF RebindInv, OneBinder, Binding, Apart, News, Unpublished, BoundCacheOpen
<1>2. CASE \E v \in Versions : MarkerMoves(v) \/ Damage(v) \/ Repair(v)
  BY <1>1, <1>2 DEF MarkerMoves, Damage, Repair, OnDisk
<1>3. CASE Elapse
  BY <1>1, <1>3 DEF Elapse, bindSysVars
<1>4. CASE ServerCrash
  <2>1. \A x \in Procs : handler'[x].pc = "idle"
    BY <1>4 DEF ServerCrash, AtIdle, Place
  <2>2. bound' = Unbound /\ bound'.info = None /\ bound'.cache = None /\ ~boot'
    BY <1>4 DEF ServerCrash, Unbound
  <2> QED
    BY <2>1, <2>2 DEF RebindInv, OneBinder, Binding, BindPcs, Apart, News,
                      Unpublished, BoundCacheOpen
<1>5. ASSUME Boot PROVE /\ \A x \in Procs : handler'[x].pc = "idle"
                        /\ gate' = NoProc /\ up' /\ bound = Unbound
                        /\ bound.info = None /\ bound.cache = None
  <2>1. \A x \in Procs : handler[x].pc = "idle"
    BY <1>5 DEF Boot, BindInv
  <2>2. gate = NoProc
    BY <2>1 DEF BindInv, BindTypeOK, BindPcs
  <2>3. bound = Unbound /\ bound.info = None /\ bound.cache = None
    BY <1>5 DEF Boot, RebindInv, Unpublished, Unbound
  <2> QED
    BY <1>5, <2>1, <2>2, <2>3 DEF Boot
<1>6. CASE StartStub
  <2>1. Boot /\ bound' = bound
    BY <1>6 DEF StartStub
  <2>2. bound'.info = None /\ bound'.cache = None
    BY <1>5, <2>1
  <2> QED
    BY <1>5, <2>1, <2>2 DEF RebindInv, OneBinder, Binding, BindPcs, Apart, News,
                            Unpublished, BoundCacheOpen
<1>7. ASSUME NEW c \in CacheIds \cup {None}, Startup(c) PROVE RebindInv'
  <2>1. Boot /\ ~boot' /\ bound'.cache = c /\ (c # None => c \in open')
    BY <1>7 DEF Startup
  <2> QED
    BY <1>5, <2>1 DEF RebindInv, OneBinder, Binding, BindPcs, Apart, News,
                      Unpublished, BoundCacheOpen
<1> QED
  BY <1>2, <1>3, <1>4, <1>6, <1>7 DEF External, StartServer

\* Where a stub is, and where its refresh is not.
LEMMA StubAlone ==
    ASSUME BindInv, RebindInv, NEW p \in Procs, boot,
           handler[p].pc # "idle" \/ p = Ingest
    PROVE  /\ p = Ingest /\ gate = NoProc /\ gate # p
           /\ handler[p].pc \notin {"gate", "probe"}
           /\ Resume(p) = AtIdle /\ AtIdle.pc = "idle"
  BY DEF RebindInv, OneBinder, Resume, AtIdle, Place

\* A handler with nothing in hand, and one that is not binding, is apart.
LEMMA AwayOK ==
    ASSUME NEW p \in Procs
    PROVE  /\ ~Binding(Resume(p)) /\ ~Binding(Place("gate"))
           /\ Apart(Resume(p), open', bound'.cache)
           /\ Apart(Place("gate"), open', bound'.cache)
           /\ Apart(Place("probe"), open', bound'.cache)
           /\ News(Resume(p)) /\ News(Place("gate")) /\ News(Place("probe"))
           /\ Place("gate").pc = "gate" /\ Place("probe").pc = "probe"
<1>1. Resume(p).pc \in {"idle", "search"}
  BY DEF Resume, AtIdle, Place
<1>2. Place("gate").pc = "gate" /\ Place("probe").pc = "probe"
  BY DEF Place
<1> QED
  BY <1>1, <1>2 DEF Binding, BindPcs, Apart, News

\* Through the gate, and away from it when there is nothing new.  The version
\* taken as news differs from the bound one: Probe compares them, and a stub is
\* bound to nothing.
LEMMA GateRebind ==
    ASSUME BindInv, RebindInv, NEW p \in Procs,
           (p \in Requests /\ Arrive(p)) \/ (p = Ingest /\ IngestComplete)
           \/ EnterGate(p) \/ Probe(p)
    PROVE  RebindInv'
<1> DEFINE l == [Place("open") EXCEPT !.info = marker]
<1>0. l.pc = "open" /\ l.info = marker /\ l.cache = None
  BY DEF Place
<1>00. ASSUME marker # bound.info
       PROVE  Apart(l, open', bound'.cache) /\ News(l) /\ Binding(l)
  BY <1>0, <1>00 DEF Apart, News, Binding, BindPcs
<1> HIDE DEF l
<1>1. CASE p \in Requests /\ Arrive(p)
  <2>1. /\ Put(p, Place("gate")) /\ ~boot /\ handler[p].pc = "idle"
        /\ UNCHANGED <<bound, up, boot, open, gate>>
    BY <1>1 DEF Arrive, bindSysVars
  <2> QED
    BY <2>1, AwayOK, MoveKeeps
<1>2. CASE p = Ingest /\ IngestComplete
  <2>1. /\ handler[p].pc = "idle"
        /\ UNCHANGED <<bound, up, boot, open, gate>>
    BY <1>2 DEF IngestComplete, bindSysVars
  <2>2. CASE boot
    <3>1. Put(p, l) /\ marker # None /\ bound.info = None /\ gate = NoProc
      BY <1>2, <2>1, <2>2 DEF IngestComplete, l, RebindInv, Unpublished, OneBinder
    <3>2. l.pc \notin {"gate", "probe"}
      BY <1>0
    <3> QED
      BY <1>2, <2>1, <2>2, <3>1, <3>2, <1>00, MoveKeeps
  <2>3. CASE ~boot
    <3>1. Put(p, Place("gate"))
      BY <1>2, <2>3 DEF IngestComplete
    <3> QED
      BY <2>1, <2>3, <3>1, AwayOK, MoveKeeps
  <2> QED
    BY <2>2, <2>3
<1>3. CASE EnterGate(p)
  <2>1. /\ handler[p].pc = "gate" /\ gate = NoProc /\ ~boot
        /\ UNCHANGED <<bound, up, boot, open>>
    BY <1>3, StubAlone DEF EnterGate, bindSysVars
  <2>2. CASE Due(p)
    <3>1. gate' = p /\ Put(p, Place("probe"))
      BY <1>3, <2>2 DEF EnterGate
    <3> QED
      BY <2>1, <3>1, AwayOK, MoveKeeps
  <2>3. CASE ~Due(p)
    <3>1. gate' = gate /\ Put(p, Resume(p))
      BY <1>3, <2>3 DEF EnterGate
    <3> QED
      BY <2>1, <3>1, AwayOK, MoveKeeps
  <2> QED
    BY <2>2, <2>3
<1>4. CASE Probe(p)
  <2>1. /\ handler[p].pc = "probe" /\ ~boot
        /\ UNCHANGED <<bound, up, boot, open>>
    BY <1>4, StubAlone DEF Probe, bindSysVars
  <2>2. gate = p
    BY <2>1 DEF RebindInv, OneBinder, Binding
  <2>3. CASE marker \in {None, bound.info}
    <3>1. gate' = NoProc /\ Put(p, Resume(p))
      BY <1>4, <2>2, <2>3 DEF Probe, Release
    <3> QED
      BY <2>1, <2>2, <3>1, AwayOK, MoveKeeps
  <2>4. CASE marker \notin {None, bound.info}
    <3>1. gate' = gate /\ Put(p, l)
      BY <1>4, <2>4 DEF Probe, l
    <3> QED
      BY <2>1, <2>2, <2>4, <3>1, <1>00, MoveKeeps
  <2> QED
    BY <2>3, <2>4
<1> QED
  BY <1>1, <1>2, <1>3, <1>4

\* A bind that fails gives up what it had, and nothing that is bound.
LEMMA FailureRebind ==
    ASSUME BindInv, RebindInv, NEW p \in Procs, BindFaults(p) \/ OpenUnrecoverable(p)
    PROVE  RebindInv'
<1>1. /\ Release(p) /\ Put(p, Resume(p))
      /\ UNCHANGED <<bound, up, boot, open>>
      /\ handler[p].pc \in {"open", "cache", "stores"}
  BY DEF BindFaults, OpenUnrecoverable, BindFails, bindSysVars
<1>2. \A x \in Procs \ {p} : gate = x => gate' = x
  BY <1>1 DEF Release
<1>3. boot => p = Ingest /\ gate' = NoProc /\ Resume(p).pc \notin {"gate", "probe"}
  BY <1>1, StubAlone DEF Release
<1> QED
  BY <1>1, <1>2, <1>3, AwayOK, MoveKeeps

\* The steps of a bind before it publishes.  A cache being opened is no other
\* handler's, nor the bound one.
LEMMA BuildRebind ==
    ASSUME BindInv, RebindInv, NEW p \in Procs,
           OpenTable(p) \/ LoadCache(p) \/ CacheUnavailable(p)
           \/ \E c \in CacheIds : OpenCache(p, c)
    PROVE  RebindInv'
<1> DEFINE here == handler[p]
<1>0. here \in ProcStates /\ Apart(here, open, bound.cache) /\ News(here)
  BY LocalsOK DEF RebindInv
<1>1. /\ here.pc \in {"open", "cache", "load"}
      /\ UNCHANGED <<bound, up, boot, gate>> /\ open \subseteq open'
  BY DEF OpenTable, LoadCache, CacheUnavailable, OpenCache, bindSysVars
<1>2. here.info # bound.info
  BY <1>0, <1>1 DEF News, BindPcs
<1>3. Binding(here)
  BY <1>1 DEF Binding, BindPcs
<1>4. gate = p \/ (boot /\ p = Ingest)
  BY <1>3 DEF RebindInv, OneBinder
<1>5. boot => p = Ingest /\ gate' = NoProc
  BY <1>1, StubAlone
<1>6. ASSUME NEW l, Put(p, l), l.info = here.info,
             l.pc \in {"cache", "load", "stores"}, Apart(l, open', bound'.cache)
      PROVE  RebindInv'
  <2>1. News(l) /\ Binding(l)
    BY <1>2, <1>6 DEF News, Binding, BindPcs
  <2>2. l.pc \notin {"gate", "probe"} /\ here.pc # "close"
    BY <1>1, <1>6
  <2> QED
    BY <1>1, <1>4, <1>5, <1>6, <2>1, <2>2, MoveKeeps
<1>7. CASE OpenTable(p)
  <2> DEFINE l == [here EXCEPT !.table = OpenAt(here.info), !.pc = "cache"]
  <2>1. Put(p, l) /\ here.pc = "open"
    BY <1>7 DEF OpenTable
  <2>2. l.pc = "cache" /\ l.info = here.info /\ l.cache = here.cache
    BY <1>0 DEF ProcStates
  <2>3. l.cache = None
    BY <1>0, <2>1, <2>2 DEF Apart
  <2>4. Apart(l, open', bound'.cache)
    BY <2>2, <2>3 DEF Apart
  <2> QED
    BY <1>6, <2>1, <2>2, <2>4
<1>8. CASE LoadCache(p)
  <2> DEFINE l == [here EXCEPT !.pc = "stores"]
  <2>1. Put(p, l) /\ here.pc = "load" /\ open' = open
    BY <1>8 DEF LoadCache
  <2>2. l.pc = "stores" /\ l.info = here.info /\ l.cache = here.cache
    BY <1>0 DEF ProcStates
  <2>3. Apart(l, open', bound'.cache)
    BY <1>0, <1>1, <2>1, <2>2 DEF Apart
  <2> QED
    BY <1>6, <2>1, <2>2, <2>3
<1>9. CASE CacheUnavailable(p)
  <2> DEFINE l == [here EXCEPT !.pc = "stores"]
  <2>1. Put(p, l) /\ here.pc = "cache"
    BY <1>9 DEF CacheUnavailable
  <2>2. l.pc = "stores" /\ l.info = here.info /\ l.cache = here.cache
    BY <1>0 DEF ProcStates
  <2>3. l.cache = None
    BY <1>0, <2>1, <2>2 DEF Apart
  <2>4. Apart(l, open', bound'.cache)
    BY <2>2, <2>3 DEF Apart
  <2> QED
    BY <1>6, <2>1, <2>2, <2>4
<1>10. ASSUME NEW c \in CacheIds, OpenCache(p, c)
       PROVE  RebindInv'
  <2> DEFINE l == [here EXCEPT !.cache = c, !.pc = "load"]
  <2>1. Put(p, l) /\ open' = open \cup {c} /\ c # bound.cache
    BY <1>10 DEF OpenCache, InUse
  <2>2. l.pc = "load" /\ l.info = here.info /\ l.cache = c
    BY <1>0 DEF ProcStates
  <2>3. Apart(l, open', bound'.cache)
    BY <1>1, <2>1, <2>2 DEF Apart
  <2> QED
    BY <1>6, <2>1, <2>2, <2>3
<1> QED
  BY <1>7, <1>8, <1>9, <1>10

\* The publish, by the only handler that binds: the cache it replaces is the one
\* it will close, and that one is no longer bound.
LEMMA SwapRebind ==
    ASSUME BindInv, RebindInv, NEW p \in Procs, Swap(p)
    PROVE  RebindInv'
<1> DEFINE here == handler[p]
<1> DEFINE l == [here EXCEPT !.prev = bound.cache, !.pc = "close"]
<1>0. here \in ProcStates /\ Apart(here, open, bound.cache)
  BY LocalsOK DEF RebindInv
<1>1. /\ here.pc = "stores" /\ Put(p, l) /\ UNCHANGED <<up, boot, open, gate>>
      /\ bound'.info = here.info /\ bound'.cache = here.cache
  BY DEF Swap, bindSysVars
<1>2. l.pc = "close" /\ l.prev = bound.cache
  BY <1>0 DEF ProcStates
<1>3. \A x \in Procs : handler'[x] = IF x = p THEN l ELSE handler[x]
  BY <1>1 DEF Put, BindInv, BindTypeOK
<1>4. here.cache # None => here.cache \in open /\ here.cache # bound.cache
  BY <1>0, <1>1 DEF Apart
<1>5. \A x \in Procs \ {p} : ~Binding(handler'[x])
  BY <1>1, <1>3, Alone DEF Binding, BindPcs
<1>6. gate = p \/ (boot /\ p = Ingest)
  BY <1>1 DEF RebindInv, OneBinder, Binding, BindPcs
<1>7. up
  BY <1>1 DEF BindInv
<1> HIDE DEF l
<1>8. OneBinder'
  <2>1. \A x \in Procs : Binding(handler'[x]) => gate' = x \/ (boot' /\ x = Ingest)
    BY <1>1, <1>5, <1>6
  <2>2. boot => p = Ingest /\ gate = NoProc
    BY <1>1, StubAlone
  <2>3. boot => handler'[Ingest].pc = "close"
    BY <1>2, <1>3, <2>2
  <2>4. boot => \A q \in Requests : handler'[q] = handler[q]
    BY <1>3, <2>2
  <2> QED
    BY <1>1, <2>1, <2>2, <2>3, <2>4 DEF OneBinder, RebindInv
<1>9. ASSUME NEW x \in Procs
      PROVE  Apart(handler'[x], open', bound'.cache) /\ News(handler[x])'
  <2>1. CASE x = p
    <3>1. handler'[x] = l
      BY <1>3, <2>1
    <3>2. l.prev = None \/ l.prev # here.cache
      BY <1>2, <1>4
    <3> QED
      BY <1>1, <1>2, <3>1, <3>2 DEF Apart, News
  <2>2. CASE x # p
    BY <1>5, <2>2 DEF Apart, News, Binding, BindPcs
  <2> QED
    BY <2>1, <2>2
<1>10. Unpublished'
  <2>1. boot => p = Ingest
    BY <1>1, StubAlone
  <2> QED
    BY <1>1, <1>2, <1>3, <1>7, <2>1 DEF Unpublished
<1>11. BoundCacheOpen'
  BY <1>1, <1>4 DEF BoundCacheOpen
<1> QED
  BY <1>8, <1>9, <1>10, <1>11 DEF RebindInv

\* The old cache is closed, and with it a stub's bootstrap ends.
LEMMA CloseRebind ==
    ASSUME BindInv, RebindInv, NEW p \in Procs, CloseOld(p)
    PROVE  RebindInv'
<1> DEFINE here == handler[p]
<1>0. here \in ProcStates /\ Apart(here, open, bound.cache)
  BY LocalsOK DEF RebindInv
<1>1. /\ here.pc = "close" /\ open' = open \ {here.prev}
      /\ UNCHANGED <<up, bound>>
  BY DEF CloseOld
<1>2. here.prev = None \/ here.prev # bound.cache
  BY <1>0, <1>1 DEF Apart
<1>3. gate = p \/ (boot /\ p = Ingest)
  BY <1>1 DEF RebindInv, OneBinder, Binding, BindPcs
<1>4. boot => gate = NoProc /\ gate # p
  BY <1>1, StubAlone
<1>5. \E l \in {Resume(p), Place("gate")} : Put(p, l)
  BY DEF CloseOld
<1>6. \A x \in Procs : ~Binding(handler'[x])
  <2>1. PICK l \in {Resume(p), Place("gate")} : Put(p, l)
    BY <1>5
  <2>2. \A x \in Procs : handler'[x] = IF x = p THEN l ELSE handler[x]
    BY <2>1 DEF Put, BindInv, BindTypeOK
  <2> QED
    BY <1>1, <2>1, <2>2, Alone, AwayOK DEF Binding, BindPcs
<1>7. ~boot'
  BY <1>3, <1>4 DEF CloseOld
<1>8. up
  BY <1>1 DEF BindInv
<1>9. BoundCacheOpen'
  BY <1>1, <1>2 DEF BoundCacheOpen, RebindInv
<1>10. OneBinder' /\ Unpublished'
  BY <1>1, <1>6, <1>7, <1>8 DEF OneBinder, Unpublished
<1>11. \A x \in Procs : Apart(handler'[x], open', bound'.cache) /\ News(handler[x])'
  BY <1>6 DEF Apart, News, Binding, BindPcs
<1> QED
  BY <1>9, <1>10, <1>11 DEF RebindInv

\* A search opens, closes and binds nothing.
LEMMA SearchRebind ==
    ASSUME BindInv, RebindInv, NEW q \in Requests, Search(q)
    PROVE  RebindInv'
<1>0. handler[q] \in ProcStates
  BY LocalsOK
<1>1. /\ handler[q].pc \in SearchPcs
      /\ UNCHANGED <<bound, up, boot, open, gate>>
  BY DEF Search, Capture, Hit, Miss, Rank, Stamp, Store, Reply, SearchPcs, bindSysVars
<1>2. ~boot
  BY <1>1, StubAlone DEF SearchPcs, RebindInv, OneBinder
<1>3. ASSUME NEW l, Put(q, l), l.pc \in {"idle"} \cup SearchPcs
      PROVE  RebindInv'
  <2>1. ~Binding(l) /\ Apart(l, open', bound'.cache) /\ News(l)
    BY <1>3 DEF Binding, BindPcs, SearchPcs, Apart, News
  <2>2. handler[q].pc # "close"
    BY <1>1 DEF SearchPcs
  <2> QED
    BY <1>1, <1>2, <1>3, <2>1, <2>2, MoveKeeps
<1>4. CASE Capture(q)
  <2> DEFINE l == [Place("lookup") EXCEPT !.table = bound.table, !.cache = bound.cache,
                                          !.flag = (bound.table # bound.info)]
  <2>1. Put(q, l)
    BY <1>4 DEF Capture
  <2>2. l.pc \in SearchPcs
    BY DEF Place, SearchPcs
  <2> QED
    BY <1>3, <2>1, <2>2
<1>5. CASE Hit(q)
  <2> DEFINE l == [Place("reply") EXCEPT !.got = Found(q), !.flag = handler[q].flag]
  <2>1. Put(q, l)
    BY <1>5 DEF Hit
  <2>2. l.pc \in SearchPcs
    BY DEF Place, SearchPcs
  <2> QED
    BY <1>3, <2>1, <2>2
<1>6. CASE Miss(q)
  <2> DEFINE l == [handler[q] EXCEPT !.pc = "relookup"]
  <2>1. Put(q, l)
    BY <1>6 DEF Miss
  <2>2. l.pc \in SearchPcs
    BY <1>0 DEF ProcStates, SearchPcs
  <2> QED
    BY <1>3, <2>1, <2>2
<1>7. CASE Rank(q)
  <2> DEFINE l == [handler[q] EXCEPT !.got.from = handler[q].table,
                                     !.table = None, !.pc = "enrich"]
  <2>1. Put(q, l)
    BY <1>7 DEF Rank
  <2>2. l.pc \in SearchPcs
    BY <1>0 DEF ProcStates, SearchPcs
  <2> QED
    BY <1>3, <2>1, <2>2
<1>8. CASE Stamp(q)
  <2> DEFINE l == [handler[q] EXCEPT !.got.stamp = bound.info,
                 !.pc = IF handler[q].cache = None THEN "reply" ELSE "store"]
  <2>1. Put(q, l)
    BY <1>8 DEF Stamp
  <2>2. l.pc \in SearchPcs
    BY <1>0 DEF ProcStates, SearchPcs
  <2> QED
    BY <1>3, <2>1, <2>2
<1>9. CASE Store(q)
  <2> DEFINE l == [handler[q] EXCEPT !.cache = None, !.pc = "reply"]
  <2>1. Put(q, l)
    BY <1>9 DEF Store
  <2>2. l.pc \in SearchPcs
    BY <1>0 DEF ProcStates, SearchPcs
  <2> QED
    BY <1>3, <2>1, <2>2
<1>10. CASE Reply(q)
  <2>1. Put(q, AtIdle) /\ AtIdle.pc = "idle"
    BY <1>10 DEF Reply, AtIdle, Place
  <2> QED
    BY <1>3, <2>1
<1> QED
  BY <1>4, <1>5, <1>6, <1>7, <1>8, <1>9, <1>10 DEF Search

-------------------------------------------------------------------------------
\* Every step preserves the invariant.
LEMMA NextRebindInv == BindInv /\ RebindInv /\ [BindNext]_bindVars => RebindInv'
<1> SUFFICES ASSUME BindInv, RebindInv, [BindNext]_bindVars PROVE RebindInv'
  OBVIOUS
<1>1. CASE External \/ StartServer
  BY <1>1, OutsideRebind
<1>2. CASE IngestComplete
  BY <1>2, GateRebind
<1>3. ASSUME NEW q \in Requests, Arrive(q) \/ Search(q)
      PROVE  RebindInv'
  BY <1>3, GateRebind, SearchRebind
<1>4. ASSUME NEW p \in Procs, Refresh(p)
      PROVE  RebindInv'
  BY <1>4, GateRebind, FailureRebind, BuildRebind, SwapRebind, CloseRebind DEF Refresh
<1>5. CASE UNCHANGED bindVars
  BY <1>5 DEF bindVars, RebindInv, OneBinder, Binding, Apart, News, Unpublished,
              BoundCacheOpen
<1> QED
  BY <1>1, <1>2, <1>3, <1>4, <1>5 DEF BindNext

\* Whatever binds race the searches, fail or restart, the cache that a search
\* can pick up has its connection open.
THEOREM BoundCacheOpenHolds == BindSpec => []BoundCacheOpen
<1>1. RebindInv => BoundCacheOpen
  BY DEF RebindInv
<1> QED
  BY <1>1, InitBindInv, NextBindInv, InitRebindInv, NextRebindInv, PTL DEF BindSpec

\* However many calls see a version bump, and whatever the late bind of a stub
\* does meanwhile, no publish repeats the version already bound.
THEOREM OneRebindPerBumpHolds == BindSpec => OneRebindPerBump
<1> DEFINE Changes == bound' # bound /\ up' => bound'.info # bound.info
<1>1. ASSUME BindInv, RebindInv, BindNext PROVE Changes
  <2>1. ASSUME NEW p \in Procs, Swap(p) PROVE Changes
    <3>1. News(handler[p]) /\ handler[p].pc = "stores" /\ bound'.info = handler[p].info
      BY <1>1, <2>1 DEF Swap, RebindInv
    <3> QED
      BY <3>1 DEF News, BindPcs
  <2>2. ASSUME NEW c \in CacheIds \cup {None}, Startup(c) PROVE Changes
    <3>1. bound.info = None /\ marker # None /\ bound'.info = marker
      BY <1>1, <2>2 DEF Startup, Boot, RebindInv, Unpublished, Unbound
    <3> QED
      BY <3>1
  <2>3. CASE ServerCrash
    BY <2>3 DEF ServerCrash
  <2>4. CASE StartStub \/ IngestComplete \/ Elapse
             \/ \E v \in Versions : MarkerMoves(v) \/ Damage(v) \/ Repair(v)
    BY <2>4 DEF StartStub, IngestComplete, Elapse, MarkerMoves, Damage, Repair, OnDisk
  <2>5. ASSUME NEW q \in Requests, Arrive(q) \/ Search(q) PROVE Changes
    BY <2>5 DEF Arrive, Search, Capture, Hit, Miss, Rank, Stamp, Store, Reply
  <2>6. ASSUME NEW p \in Procs, Refresh(p), ~Swap(p) PROVE Changes
    BY <2>6 DEF Refresh, EnterGate, Probe, BindFaults, OpenUnrecoverable, BindFails,
                OpenTable, LoadCache, CacheUnavailable, CloseOld, OpenCache
  <2> QED
    BY <1>1, <2>1, <2>2, <2>3, <2>4, <2>5, <2>6 DEF BindNext, External, StartServer
<1>2. BindInv /\ RebindInv /\ [BindNext]_bindVars => [Changes]_bindVars
  BY <1>1
<1> QED
  BY <1>2, InitBindInv, NextBindInv, InitRebindInv, NextRebindInv, PTL
  DEF BindSpec, OneRebindPerBump
=============================================================================
