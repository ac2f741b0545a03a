----------------------------- MODULE CorpusWriter -----------------------------
(***************************************************************************)
(* write_chunks (ingest/store.py) and the marker it leaves behind:         *)
(* corpus-version.json names the version of the dataset that the server    *)
(* opens and counts its rows.  The marker is written last and best-effort; *)
(* a gate reads it back.  make reconcile, and the button in the notebook   *)
(* page, recount the rows and rewrite it                                   *)
(* (tools/notebook_reconcile_marker.py, server/routes/notebooks.py).       *)
(*                                                                         *)
(* A dataset has one writer at a time.  Every commit makes a version, and  *)
(* versions stay readable.  The paper count goes with the chunk count.     *)
(***************************************************************************)
EXTENDS Naturals, Sequences, FiniteSets

CONSTANTS RowIds,         \* chunk ids
          MaxVersions,    \* bound: versions of the dataset
          MaxFailures,    \* bound: failing steps and kills of a writer
          MaxReconciles   \* bound: recounts

ASSUME WriterAssumption == /\ IsFiniteSet(RowIds) /\ MaxVersions \in Nat
                           /\ MaxFailures \in Nat /\ MaxReconciles \in Nat

VARIABLES
    commits,    \* commits[v]: the rows of version v
    mark,       \* corpus-version.json: a version and a count
    write,      \* the write in progress
    recount,    \* the reconcile in progress
    damaged,    \* somebody else has written the count
    failures, reconciles

writerVars == <<commits, mark, write, recount, damaged, failures, reconciles>>

NoMark  == [version |-> 0, count |-> 0]
Quiet   == [at |-> "rest", batch |-> {}, version |-> 0]
NoCount == [at |-> "rest", old |-> NoMark, count |-> 0]

HeadRows == IF commits = <<>> THEN {} ELSE commits[Len(commits)]

Fault == failures < MaxFailures /\ failures' = failures + 1

--------------------------------------------------------------------------------
\* merge_insert: known ids are updated, the others inserted, in one commit.
\* The callers stop before this when a paper has no chunks.
Merge(batch) ==
    /\ write.at = "rest" /\ Len(commits) + 2 <= MaxVersions
    /\ commits' = Append(commits, HeadRows \cup batch)
    /\ write' = [Quiet EXCEPT !.at = "merged", !.batch = batch]
    /\ UNCHANGED <<mark, recount, failures, reconciles, damaged>>

\* _create_indices commits too; the version a reader should open is the last.
CreateIndices ==
    /\ write.at = "merged"
    /\ commits' = Append(commits, HeadRows)
    /\ write' = [write EXCEPT !.at = "indexed", !.version = Len(commits) + 1]
    /\ UNCHANGED <<mark, recount, failures, reconciles, damaged>>

\* Mutant: the marker counts the batch, as it did before counts were cumulative.
MarkerCountOfBatch == Cardinality(write.batch)

\* The counts are those of the committed table, whatever the batch was.
MarkerCount == Cardinality(HeadRows)

WriteMarker ==
    /\ write.at = "indexed"
    /\ mark' = [version |-> write.version, count |-> MarkerCount]
    /\ damaged' = FALSE
    /\ write' = [write EXCEPT !.at = "marked"]
    /\ UNCHANGED <<commits, recount, failures, reconciles>>

\* Counting or writing the marker raises; the exception is logged.
SwallowMarker ==
    /\ write.at = "indexed" /\ Fault
    /\ write' = [write EXCEPT !.at = "marked"]
    /\ UNCHANGED <<commits, mark, recount, reconciles, damaged>>

\* The gate reads the marker back and compares its count with the table's; it
\* returns the version or raises, and what is on disk stays either way.
Gate ==
    /\ write.at = "marked"
    /\ write' = Quiet
    /\ UNCHANGED <<commits, mark, recount, failures, reconciles, damaged>>

\* An index that cannot be built, or a kill: what is committed stays.
WriterFails ==
    /\ write.at # "rest" /\ Fault
    /\ write' = Quiet
    /\ UNCHANGED <<commits, mark, recount, reconciles, damaged>>

--------------------------------------------------------------------------------
\* A reconcile reads the marker; without one it exits with an error.
RecountReads ==
    /\ recount.at = "rest" /\ reconciles < MaxReconciles /\ mark # NoMark
    /\ reconciles' = reconciles + 1
    /\ recount' = [NoCount EXCEPT !.at = "count", !.old = mark]
    /\ UNCHANGED <<commits, mark, write, failures, damaged>>

\* It counts the rows of the version that the marker names.
RecountCounts ==
    /\ recount.at = "count"
    /\ recount' = [recount EXCEPT !.at = "write", !.count = Cardinality(commits[recount.old.version])]
    /\ UNCHANGED <<commits, mark, write, failures, reconciles, damaged>>

\* It writes the marker it has read, with that count.
RecountWrites ==
    /\ recount.at = "write"
    /\ mark' = [recount.old EXCEPT !.count = recount.count]
    /\ damaged' = FALSE
    /\ recount' = NoCount
    /\ UNCHANGED <<commits, write, failures, reconciles>>

\* Somebody edits the count in the marker, or an old program has written it.
DamageCount ==
    /\ mark # NoMark /\ Fault
    /\ \E n \in 0 .. Cardinality(RowIds) : mark' = [mark EXCEPT !.count = n]
    /\ damaged' = TRUE
    /\ UNCHANGED <<commits, write, recount, reconciles>>

--------------------------------------------------------------------------------
WriterInit ==
    /\ commits = <<>> /\ mark = NoMark /\ write = Quiet
    /\ recount = NoCount /\ damaged = FALSE /\ failures = 0 /\ reconciles = 0

WriterNext == \/ \E batch \in SUBSET RowIds \ {{}} : Merge(batch)
              \/ CreateIndices \/ WriteMarker \/ SwallowMarker \/ Gate \/ WriterFails
              \/ RecountReads \/ RecountCounts \/ RecountWrites \/ DamageCount

WriterSpec == WriterInit /\ [][WriterNext]_writerVars

WriterTypeOK ==
    /\ commits \in Seq(SUBSET RowIds) /\ Len(commits) <= MaxVersions
    /\ mark \in [version : 0 .. Len(commits), count : Nat]
    /\ write.at \in {"rest", "merged", "indexed", "marked"} /\ write.batch \subseteq RowIds
    /\ write.version \in 0 .. Len(commits)
    /\ recount.at \in {"rest", "count", "write"}
    /\ recount.at # "rest" => recount.old.version \in 1 .. Len(commits)
    /\ damaged \in BOOLEAN

\* Unless somebody else has touched it, the marker counts the rows of the very
\* version it names: for a batch that is one of many, after a swallowed or
\* killed write, and when a reconcile puts back the marker of a version that a
\* write has meanwhile left behind.
CountsItsVersion ==
    mark # NoMark /\ ~damaged => mark.count = Cardinality(commits[mark.version])
===============================================================================
