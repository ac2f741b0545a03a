---------------------------- MODULE NotebookTables ----------------------------
(***************************************************************************)
(* The tables of notebooks that a search names (server/resources.py,       *)
(* notebook_table): an LRU of open handles, each with a throttled probe of *)
(* its marker, under one lock that is held across the probe and the open.  *)
(*                                                                         *)
(* Ingests, deletions and new creations move the disk at any moment.  A    *)
(* directory's versions count from one, so a version number means          *)
(* something only within its directory; an ingest of the daemon itself     *)
(* drops the handle when it is done (on_ingest_complete).                  *)
(***************************************************************************)
EXTENDS Naturals, SequencesExt

CONSTANTS Slugbooks,   \* notebooks a search may name
          Searchers,   \* concurrent calls of notebook_table
          Slots,       \* MAX_NOTEBOOK_TABLE_SLOTS
          MaxDirs,     \* bound: directories of one notebook, one after another
          MaxNumber    \* bound: versions of a directory

Free == "free"       \* the lock is nobody's

ASSUME TablesAssumption ==
    /\ Slugbooks # {}
    /\ Free \notin Searchers
    /\ Slots \in Nat \ {0}
    /\ MaxDirs \in Nat /\ MaxNumber \in Nat

Editions == [dir : 0 .. MaxDirs, number : 0 .. MaxNumber]
Nothing  == [dir |-> 0, number |-> 0]
AtLeast(e, f) == e.dir > f.dir \/ (e.dir = f.dir /\ e.number >= f.number)

VARIABLES
    disk,      \* disk[s]: the edition the marker names; number 0: no marker
    lru,       \* keys of _notebook_tables, the least recently used first
    memo,      \* memo[s]: the edition the open handle was opened as
    gate,      \* gate[s]: "none", "checked" within the interval, or "due"
    lookup,      \* lookup[c]: [pc, slug, told]
    tableLock,    \* _notebook_tables_lock
    notice,    \* notice[s]: the edition an ingest callback will announce
    promised   \* history: promised[s]: the newest edition announced

tabVars == <<disk, lru, memo, gate, lookup, tableLock, notice, promised>>
registryVars == <<lru, memo, gate>>

Cached(s) == \E i \in DOMAIN lru : lru[i] = s

TabTypeOK ==
    /\ disk \in [Slugbooks -> Editions]
    /\ Len(lru) <= Slots
    /\ \A i, j \in DOMAIN lru : lru[i] = lru[j] => i = j
    /\ memo \in [Slugbooks -> Editions]
    /\ gate \in [Slugbooks -> {"none", "checked", "due"}]
    /\ lookup \in [Searchers -> [pc : {"idle", "probe", "marker", "open"}, slug : Slugbooks,
                               told : 0 .. MaxNumber]]
    /\ tableLock \in Searchers \cup {Free}
    /\ notice \in [Slugbooks -> Editions]
    /\ promised \in [Slugbooks -> Editions]

TabInit ==
    /\ disk = [s \in Slugbooks |-> Nothing]
    /\ lru = <<>>
    /\ memo = [s \in Slugbooks |-> Nothing]
    /\ gate = [s \in Slugbooks |-> "none"]
    /\ lookup = [c \in Searchers |-> [pc |-> "idle", told |-> 0,
                                    slug |-> CHOOSE s \in Slugbooks : TRUE]]
    /\ tableLock = Free
    /\ notice = [s \in Slugbooks |-> Nothing]
    /\ promised = [s \in Slugbooks |-> Nothing]
-------------------------------------------------------------------------------
(***************************************************************************)
(* The disk.                                                               *)
(***************************************************************************)
\* A version is written: by an ingest of the daemon, which will announce it,
\* or by a program of the operator's.
IngestNotebook(s, ours) ==
    /\ disk[s].number < MaxNumber
    /\ disk[s].number > 0 \/ disk[s].dir < MaxDirs
    /\ ours => notice[s] = Nothing
    /\ disk' = [disk EXCEPT ![s] =
          [dir |-> IF @.number = 0 THEN @.dir + 1 ELSE @.dir, number |-> @.number + 1]]
    /\ notice' = IF ours THEN [notice EXCEPT ![s] = disk'[s]] ELSE notice
    /\ UNCHANGED <<registryVars, lookup, tableLock, promised>>

\* the notebook goes; the registry is not told
DeleteTables(s) ==
    /\ disk[s].number > 0
    /\ disk' = [disk EXCEPT ![s].number = 0]
    /\ UNCHANGED <<registryVars, lookup, tableLock, notice, promised>>
-------------------------------------------------------------------------------
(***************************************************************************)
(* notebook_table.                                                         *)
(***************************************************************************)
\* A key stands in the order once: what is left without it, and with it last.
Dropped(s) == RemoveFirst(lru, s)
Touch(s) == Append(Dropped(s), s)

CallTo(c, pc, s, told) ==
    lookup' = [lookup EXCEPT ![c] = [pc |-> pc, slug |-> s, told |-> told]]

\* the marker is read; without one the lookup raises
ReadMarker(c, s) ==
    IF disk[s].number = 0
    THEN CallTo(c, "idle", s, 0) /\ tableLock' = Free
    ELSE CallTo(c, "open", s, disk[s].number) /\ tableLock' = c

\* a handle within its interval, one that has to be probed, or none
FindTable(c, s) ==
    /\ lookup[c].pc = "idle"
    /\ tableLock = Free
    /\ IF Cached(s)
       THEN IF gate[s] = "checked"
            THEN lru' = Touch(s) /\ UNCHANGED <<lookup, tableLock>>
            ELSE CallTo(c, "probe", s, 0) /\ tableLock' = c /\ UNCHANGED lru
       ELSE ReadMarker(c, s) /\ UNCHANGED lru
    /\ UNCHANGED <<disk, memo, gate, notice, promised>>

\* _notebook_entry_is_stale: version numbers only, and no marker is no news
ProbeTable(c) ==
    LET s == lookup[c].slug
    IN /\ lookup[c].pc = "probe"
       /\ \/ /\ disk[s].number \in {0, memo[s].number}
             /\ gate' = [gate EXCEPT ![s] = "checked"]
             /\ lru' = Touch(s)
             /\ CallTo(c, "idle", s, 0)
             /\ tableLock' = Free
          \/ /\ disk[s].number \notin {0, memo[s].number}
             /\ gate' = [gate EXCEPT ![s] = "due"]
             /\ lru' = Dropped(s)
             /\ CallTo(c, "marker", s, 0)
             /\ UNCHANGED tableLock
       /\ UNCHANGED <<disk, memo, notice, promised>>

\* after the cache tiers were cleared for the dropped handle
ReadAgain(c) ==
    /\ lookup[c].pc = "marker"
    /\ ReadMarker(c, lookup[c].slug)
    /\ UNCHANGED <<disk, registryVars, notice, promised>>

\* In a thread: the version that was read, in whatever directory is there by
\* now, or the rows of the one before it under the same number; the oldest
\* handle makes room.
OpenTable(c) ==
    LET s == lookup[c].slug
        n == lookup[c].told
        keys == Touch(s)
    IN /\ lookup[c].pc = "open"
       /\ n <= disk[s].number
       /\ memo' = [memo EXCEPT ![s] = [dir |-> disk[s].dir, number |-> n]]
       /\ lru' = IF Len(keys) > Slots THEN Tail(keys) ELSE keys
       /\ gate' = [t \in Slugbooks |->
             IF t = s THEN "checked"
             ELSE IF Len(keys) > Slots /\ t = Head(keys) THEN "none" ELSE gate[t]]
       /\ CallTo(c, "idle", s, 0)
       /\ tableLock' = Free
       /\ UNCHANGED <<disk, notice, promised>>

\* nothing there to open, or both versions unreadable: the lookup raises
OpenFails(c) ==
    /\ lookup[c].pc = "open"
    /\ CallTo(c, "idle", lookup[c].slug, 0)
    /\ tableLock' = Free
    /\ UNCHANGED <<disk, registryVars, notice, promised>>

\* the interval is over
IntervalPasses(s) ==
    /\ gate[s] = "checked"
    /\ gate' = [gate EXCEPT ![s] = "due"]
    /\ UNCHANGED <<disk, lru, memo, lookup, tableLock, notice, promised>>

\* Mutant: the handle is dropped without the lock.
InvalidateUnlocked(s) ==
    /\ notice[s] # Nothing
    /\ lru' = Dropped(s)
    /\ gate' = [gate EXCEPT ![s] = "none"]
    /\ notice' = [notice EXCEPT ![s] = Nothing]
    /\ promised' = [promised EXCEPT ![s] = notice[s]]
    /\ UNCHANGED <<disk, memo, lookup, tableLock>>

\* on_ingest_complete: invalidate_notebook_table
Invalidate(s) ==
    /\ notice[s] # Nothing
    /\ tableLock = Free
    /\ lru' = Dropped(s)
    /\ gate' = [gate EXCEPT ![s] = "none"]
    /\ notice' = [notice EXCEPT ![s] = Nothing]
    /\ promised' = [promised EXCEPT ![s] = notice[s]]
    /\ UNCHANGED <<disk, memo, lookup, tableLock>>
-------------------------------------------------------------------------------
TabNext ==
    \/ \E s \in Slugbooks :
          \/ \E ours \in BOOLEAN : IngestNotebook(s, ours)
          \/ DeleteTables(s) \/ IntervalPasses(s) \/ Invalidate(s)
    \/ \E c \in Searchers :
          \/ \E s \in Slugbooks : FindTable(c, s)
          \/ ProbeTable(c) \/ ReadAgain(c) \/ OpenTable(c) \/ OpenFails(c)

TabSpec == TabInit /\ [][TabNext]_tabVars
-------------------------------------------------------------------------------
\* Once the daemon has announced an ingest of a notebook, no handle it gives
\* out is older than that ingest, whichever lookup was in the middle of a probe
\* or an open (notebook_table, invalidate_notebook_table).
FreshAfterIngest ==
    \A s \in Slugbooks : Cached(s) => AtLeast(memo[s], promised[s])
===============================================================================
