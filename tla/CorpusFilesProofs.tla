-------------------------- MODULE CorpusFilesProofs --------------------------
(***************************************************************************)
(* Theorems about the files of the corpus and what goes into them:         *)
(* CorpusWriter, whose marker counts the version it names, ReEmbed, whose  *)
(* rows state the space their vectors are in, Cutover, whose two renames   *)
(* are a critical section without a lock, and OaiDelta, whose windows      *)
(* leave no gap.  Last the types of all that MCBookkeeping adds up.        *)
(***************************************************************************)
EXTENDS MCBookkeeping, ToolCallProofs, NotebookProofs, FiniteSetTheorems, TLAPS

--------------------------------------------------------------------------------
(* CorpusWriter *)

Counts == {Cardinality(S) : S \in SUBSET RowIds} \cup 0 .. Cardinality(RowIds) \cup {0}
Marks  == [version : Nat, count : Counts]

CommitsInv == commits \in Seq(SUBSET RowIds)

MarkInv == /\ mark \in Marks
           /\ mark # NoMark => mark.version \in 1 .. Len(commits)

\* between the index commit and the marker, nobody else commits
WriteInv == /\ write \in [at : {"rest", "merged", "indexed", "marked"}, batch : SUBSET RowIds,
                          version : Nat]
            /\ write.at = "indexed" => write.version = Len(commits) /\ Len(commits) > 0

\* a recount holds a marker that was there, and later the count of its version
RecountInv == /\ recount \in [at : {"rest", "count", "write"}, old : Marks, count : Counts]
              /\ recount.at # "rest" => recount.old.version \in 1 .. Len(commits)
              /\ recount.at = "write" =>
                     recount.count = Cardinality(commits[recount.old.version])

WriterInv == CommitsInv /\ MarkInv /\ WriteInv /\ RecountInv /\ CountsItsVersion

\* The head of the dataset is a set of rows, and its count is a count.
LEMMA HeadIsRows ==
    ASSUME CommitsInv
    PROVE  HeadRows \in SUBSET RowIds /\ MarkerCount \in Counts
<1>1. HeadRows \in SUBSET RowIds
  BY DEF CommitsInv, HeadRows
<1> QED BY <1>1 DEF MarkerCount, Counts

\* A commit keeps the versions there are.
LEMMA VersionKeeps ==
    ASSUME CommitsInv, NEW rows \in SUBSET RowIds, commits' = Append(commits, rows)
    PROVE  /\ CommitsInv'
           /\ Len(commits') = Len(commits) + 1
           /\ \A v \in 1 .. Len(commits) : v \in 1 .. Len(commits') /\ commits'[v] = commits[v]
  BY DEF CommitsInv

LEMMA WriterInitially == ASSUME WriterInit PROVE WriterInv
  BY DEF WriterInit, WriterInv, CommitsInv, MarkInv, Marks, WriteInv, RecountInv, CountsItsVersion,
         NoMark, Quiet, NoCount, Counts

LEMMA WriterKeeps == ASSUME WriterInv, [WriterNext]_writerVars PROVE WriterInv'
<1> USE DEF WriterInv
<1>1. ASSUME NEW batch \in SUBSET RowIds, Merge(batch) PROVE WriterInv'
  <2>1. HeadRows \cup batch \in SUBSET RowIds  BY HeadIsRows
  <2>2. /\ CommitsInv' /\ Len(commits') = Len(commits) + 1
        /\ \A v \in 1 .. Len(commits) : v \in 1 .. Len(commits') /\ commits'[v] = commits[v]
    BY <1>1, <2>1, VersionKeeps DEF Merge
  <2>3. MarkInv' /\ CountsItsVersion'
    BY <1>1, <2>2 DEF Merge, MarkInv, CountsItsVersion
  <2>4. RecountInv'  BY <1>1, <2>2 DEF Merge, RecountInv
  <2>5. WriteInv'  BY <1>1 DEF Merge, WriteInv, Quiet
  <2> QED BY <2>2, <2>3, <2>4, <2>5
<1>2. ASSUME CreateIndices PROVE WriterInv'
  <2>2. /\ CommitsInv' /\ Len(commits') = Len(commits) + 1
        /\ \A v \in 1 .. Len(commits) : v \in 1 .. Len(commits') /\ commits'[v] = commits[v]
    BY <1>2, HeadIsRows, VersionKeeps DEF CreateIndices
  <2>3. MarkInv' /\ CountsItsVersion'
    BY <1>2, <2>2 DEF CreateIndices, MarkInv, CountsItsVersion
  <2>4. RecountInv'  BY <1>2, <2>2 DEF CreateIndices, RecountInv
  <2>6. Len(commits) \in Nat  BY DEF CommitsInv
  <2>7. write' = [at |-> "indexed", batch |-> write.batch, version |-> Len(commits) + 1]
    BY <1>2 DEF CreateIndices, WriteInv
  <2>8. write.batch \in SUBSET RowIds  BY DEF WriteInv
  <2>5. WriteInv'  BY <2>2, <2>6, <2>7, <2>8 DEF WriteInv
  <2> QED BY <2>2, <2>3, <2>4, <2>5
<1>3. ASSUME WriteMarker PROVE WriterInv'
  <2>1. mark' = [version |-> Len(commits), count |-> MarkerCount] /\ Len(commits) > 0
    BY <1>3 DEF WriteMarker, WriteInv
  <2>2. Len(commits) \in Nat  BY DEF CommitsInv
  <2>3. HeadRows = commits[Len(commits)]  BY <2>1 DEF HeadRows, CommitsInv
  <2>4. MarkInv'  BY <1>3, <2>1, <2>2, HeadIsRows DEF WriteMarker, MarkInv, Marks
  <2>5. CountsItsVersion'
    BY <1>3, <2>1, <2>3 DEF WriteMarker, CountsItsVersion, MarkerCount
  <2> QED BY <1>3, <2>4, <2>5 DEF WriteMarker, CommitsInv, WriteInv, RecountInv
<1>4. ASSUME SwallowMarker \/ Gate \/ WriterFails PROVE WriterInv'
  BY <1>4 DEF SwallowMarker, Gate, WriterFails, Quiet, CommitsInv, MarkInv, WriteInv, RecountInv,
              CountsItsVersion
<1>5. ASSUME RecountReads PROVE WriterInv'
  BY <1>5 DEF RecountReads, NoCount, CommitsInv, MarkInv, WriteInv, RecountInv, CountsItsVersion,
              Counts
<1>6. ASSUME RecountCounts PROVE WriterInv'
  <2>1. commits[recount.old.version] \in SUBSET RowIds
    BY <1>6 DEF RecountCounts, CommitsInv, RecountInv
  <2>2. Cardinality(commits[recount.old.version]) \in Counts  BY <2>1 DEF Counts
  <2> QED BY <1>6, <2>2
          DEF RecountCounts, CommitsInv, MarkInv, WriteInv, RecountInv, CountsItsVersion
<1>7. ASSUME RecountWrites PROVE WriterInv'
  <2>1. /\ mark' \in Marks /\ mark'.version = recount.old.version
        /\ mark'.count = Cardinality(commits[recount.old.version])
    BY <1>7 DEF RecountWrites, RecountInv, Marks
  <2>2. recount' = NoCount  BY <1>7 DEF RecountWrites
  <2>3. RecountInv'  BY <2>2 DEF RecountInv, NoCount, NoMark, Marks, Counts
  <2> QED BY <1>7, <2>1, <2>3
          DEF RecountWrites, CommitsInv, MarkInv, WriteInv, RecountInv, CountsItsVersion
<1>8. ASSUME DamageCount PROVE WriterInv'
  <2>1. PICK n \in 0 .. Cardinality(RowIds) : mark' = [mark EXCEPT !.count = n]
    BY <1>8 DEF DamageCount
  <2>2. mark' \in Marks /\ mark'.version = mark.version
    BY <2>1 DEF MarkInv, Marks, Counts
  <2> QED BY <1>8, <2>2
          DEF DamageCount, CommitsInv, MarkInv, WriteInv, RecountInv, CountsItsVersion
<1>9. ASSUME UNCHANGED writerVars PROVE WriterInv'
  BY <1>9 DEF writerVars, CommitsInv, MarkInv, WriteInv, RecountInv, CountsItsVersion
<1> QED BY <1>1, <1>2, <1>3, <1>4, <1>5, <1>6, <1>7, <1>8, <1>9 DEF WriterNext

\* For any rows, bounds, failures and recounts, the marker of a corpus counts
\* the rows of the version it names, unless somebody else has edited it.
THEOREM CountsItsVersionHolds == WriterSpec => []CountsItsVersion
<1>1. WriterInit => WriterInv  BY WriterInitially
<1>2. WriterInv /\ [WriterNext]_writerVars => WriterInv'  BY WriterKeeps
<1>3. WriterInv => CountsItsVersion  BY DEF WriterInv
<1> QED BY <1>1, <1>2, <1>3, PTL DEF WriterSpec

\* The version a writer is going to name is there, and there is room for the one
\* that its indices still make.
RoomInv == /\ Len(commits) <= MaxVersions
           /\ write.at = "merged" => Len(commits) + 1 <= MaxVersions
           /\ write.version <= Len(commits)
           /\ damaged \in BOOLEAN

LEMMA RoomKeeps == ASSUME WriterInv, RoomInv, [WriterNext]_writerVars PROVE RoomInv'
<1> USE WriterAssumption DEF RoomInv
<1>0. Len(commits) \in Nat /\ write.version \in Nat /\ commits \in Seq(SUBSET RowIds)
  BY DEF WriterInv, CommitsInv, WriteInv
<1>1. ASSUME NEW batch \in SUBSET RowIds, Merge(batch) PROVE RoomInv'
  <2>1. HeadRows \cup batch \in SUBSET RowIds  BY HeadIsRows DEF WriterInv
  <2>2. Len(commits') = Len(commits) + 1
    BY <1>1, <2>1, VersionKeeps DEF Merge, WriterInv
  <2>3. write'.at = "merged" /\ write'.version = 0  BY <1>1 DEF Merge, Quiet
  <2> QED BY <1>0, <1>1, <2>2, <2>3 DEF Merge
<1>2. ASSUME CreateIndices PROVE RoomInv'
  <2>1. Len(commits') = Len(commits) + 1
    BY <1>2, HeadIsRows, VersionKeeps DEF CreateIndices, WriterInv
  <2>2. write'.at = "indexed" /\ write'.version = Len(commits) + 1
    BY <1>2 DEF CreateIndices, WriterInv, WriteInv
  <2> QED BY <1>0, <1>2, <2>1, <2>2 DEF CreateIndices
<1>3. ASSUME WriteMarker \/ SwallowMarker PROVE RoomInv'
  <2>1. write'.at = "marked" /\ write'.version = write.version /\ commits' = commits
    BY <1>3 DEF WriteMarker, SwallowMarker, WriterInv, WriteInv
  <2> QED BY <1>3, <2>1 DEF WriteMarker, SwallowMarker
<1>4. ASSUME Gate \/ WriterFails PROVE RoomInv'
  BY <1>0, <1>4 DEF Gate, WriterFails, Quiet
<1>5. ASSUME RecountReads \/ RecountCounts \/ RecountWrites \/ DamageCount PROVE RoomInv'
  BY <1>5 DEF RecountReads, RecountCounts, RecountWrites, DamageCount
<1>6. ASSUME UNCHANGED writerVars PROVE RoomInv'
  BY <1>6 DEF writerVars
<1> QED BY <1>1, <1>2, <1>3, <1>4, <1>5, <1>6 DEF WriterNext

\* write_chunks and the reconcile: every variable keeps its type, and the version
\* that a marker or a writer names is one the dataset has.
THEOREM WriterTypeCorrect == WriterSpec => []WriterTypeOK
<1>1. WriterInit => WriterInv /\ RoomInv
  <2> SUFFICES ASSUME WriterInit PROVE RoomInv
    BY WriterInitially
  <2>1. commits = <<>> /\ write.at = "rest" /\ write.version = 0 /\ damaged = FALSE
    BY DEF WriterInit, Quiet
  <2>2. Len(commits) = 0
    BY <2>1
  <2>3. Len(commits) <= MaxVersions /\ write.version <= Len(commits)
    <3>1. MaxVersions \in Nat /\ 0 <= MaxVersions
      BY WriterAssumption
    <3> QED BY <2>1, <2>2, <3>1
  <2>4. write.at # "merged" /\ damaged \in BOOLEAN
    BY <2>1
  <2> QED BY <2>3, <2>4 DEF RoomInv
<1>2. WriterInv /\ RoomInv /\ [WriterNext]_writerVars => WriterInv' /\ RoomInv'
  BY WriterKeeps, RoomKeeps
<1>3. WriterInv /\ RoomInv => WriterTypeOK
  <2> SUFFICES ASSUME WriterInv, RoomInv PROVE WriterTypeOK
    OBVIOUS
  <2>1. Counts \subseteq Nat
    <3>1. \A S \in SUBSET RowIds : Cardinality(S) \in Nat
      BY WriterAssumption, FS_Subset, FS_CardinalityType
    <3>2. Cardinality(RowIds) \in Nat
      BY <3>1
    <3> QED BY <3>1, <3>2 DEF Counts
  <2>2. Len(commits) \in Nat /\ write.version \in Nat /\ mark \in Marks
    BY DEF WriterInv, CommitsInv, WriteInv, MarkInv
  <2>3. mark \in [version : 0 .. Len(commits), count : Nat]
    <3>1. mark.version \in 0 .. Len(commits)
      BY <2>2 DEF WriterInv, MarkInv, NoMark
    <3> QED BY <2>1, <2>2, <3>1 DEF Marks
  <2>4. write.version \in 0 .. Len(commits)
    BY <2>2 DEF RoomInv
  <2> QED BY <2>3, <2>4 DEF WriterInv, CommitsInv, WriteInv, RecountInv, RoomInv, WriterTypeOK
<1> QED BY <1>1, <1>2, <1>3, PTL DEF WriterSpec

--------------------------------------------------------------------------------
(* ReEmbed *)

Ids      == Works \X Nat
WorkRecs == [job : {"none", "ingest", "re-embed"}, build : [chunker : Nat, embedder : Nat], target : Nat,
             todo : SUBSET Works, at : {"next", "copy", "embed", "sidecar", "write"},
             paper : Works \cup {Unset}, old : Nat, papers : SUBSET Works,
             failed : SUBSET (Works \cup {Unset}), already : SUBSET Ids]

\* rows that are typed, and rows that state the space of their vector
RowsTyped(d) == DOMAIN d \subseteq Ids /\ \A i \in DOMAIN d : d[i] \in [space : Nat, stamp : Nat]
RowsTell(d)  == AcrossEmbedders \/ \A i \in DOMAIN d : d[i].stamp = d[i].space
Truthful(d)  == RowsTyped(d) /\ RowsTell(d)

ReTypes == /\ build \in [chunker : Nat, embedder : Nat]
           /\ marker \in [active : Nat, staging : Nat]
           /\ npz \in [Works -> [ids : SUBSET Ids, space : Nat]]
           /\ sidecar \in [Works -> [ids : SUBSET Ids, chunker : Nat, embedder : Nat]]
           /\ work \in WorkRecs
           /\ RowsTyped(active) /\ RowsTyped(staging)

\* where a process with a paper can be
AtInv == /\ work.job = "none" => work.at = "next"
         /\ work.at # "next" => work.paper \in Works
         /\ work.at = "copy" => work.job = "re-embed"
         /\ work.job # "none" => work.build.embedder <= build.embedder

\* The builds only go up: an NPZ is never older than its sidecar, nor newer
\* than the process that could have written it.
Newest == IF work.job = "none" THEN build.embedder ELSE work.build.embedder

SpaceInv == /\ \A w \in Works : sidecar[w].embedder <= npz[w].space /\ npz[w].space <= Newest
            /\ work.at = "sidecar" => npz[work.paper].space = work.build.embedder
            /\ work.at = "write" => /\ npz[work.paper].space = work.build.embedder
                                    /\ sidecar[work.paper].embedder = work.build.embedder

\* a re-embed of the embedder that made the active rows
SameEmbedder == work.job = "re-embed" => AcrossEmbedders \/ work.old = work.target

Stamped  == RowsTell(active) /\ RowsTell(staging)
StampInv == ReTypes /\ AtInv /\ SpaceInv /\ SameEmbedder /\ Stamped

LEMMA IdsOfTyped == ASSUME NEW w \in Works, NEW c \in Nat PROVE IdsOf(w, c) \subseteq Ids
  BY DEF IdsOf, Ids

\* Rows that are typed and truthful stay so when truthful ones come in.
LEMMA UpsertTruthful ==
    ASSUME NEW d, NEW rows, Truthful(d), Truthful(rows)
    PROVE  Truthful(Upsert(d, rows))
<1>1. /\ DOMAIN Upsert(d, rows) = DOMAIN d \cup DOMAIN rows
      /\ \A i \in DOMAIN Upsert(d, rows) :
             \/ i \in DOMAIN rows /\ Upsert(d, rows)[i] = rows[i]
             \/ i \in DOMAIN d /\ Upsert(d, rows)[i] = d[i]
  BY DEF Upsert
<1>2. RowsTyped(Upsert(d, rows))  BY <1>1 DEF Truthful, RowsTyped
<1>3. RowsTell(Upsert(d, rows))
  <2>1. CASE AcrossEmbedders  BY <2>1 DEF RowsTell
  <2>2. CASE ~AcrossEmbedders  BY <1>1, <2>2 DEF Truthful, RowsTell
  <2> QED BY <2>1, <2>2
<1> QED BY <1>2, <1>3 DEF Truthful

\* Leaving a paper, by success or failure, keeps the place well formed.
LEMMA LeavesWell ==
    ASSUME ReTypes, AtInv, work.job # "none", work' \in {Onward, Failed}
    PROVE  /\ work' \in WorkRecs
           /\ work'.at = "next"
           /\ \/ work' = AtRest
              \/ work.job = "re-embed" /\ work'.job = work.job /\ work'.build = work.build
                 /\ work'.old = work.old /\ work'.target = work.target
<1>1. AtRest \in WorkRecs /\ AtRest.at = "next"  BY DEF AtRest, WorkRecs, Unset, Ids
<1>2. CASE work.job = "re-embed" /\ work' = Onward
  BY <1>2 DEF Onward, ReTypes, WorkRecs, Unset
<1>3. CASE work.job = "re-embed" /\ work' = Failed
  BY <1>3 DEF Failed, ReTypes, WorkRecs, Unset
<1>4. CASE work.job # "re-embed"
  BY <1>1, <1>4 DEF Onward, Failed
<1> QED BY <1>2, <1>3, <1>4

LEMMA CopiesTruthful ==
    ASSUME StampInv, work.at = "copy", CopyAllowed
    PROVE  Truthful(CopyRows)
<1>1. work.job = "re-embed" /\ (AcrossEmbedders \/ work.old = work.target)
  BY DEF StampInv, AtInv, SameEmbedder
<1>2. work.target \in Nat  BY DEF StampInv, ReTypes, WorkRecs
<1>3. DOMAIN CopyRows = CopyPending /\ CopyPending \subseteq DOMAIN active
  BY DEF CopyRows, CopyPending, IdsIn
<1>4. ASSUME NEW i \in CopyPending
      PROVE  /\ CopyRows[i] \in [space : Nat, stamp : Nat]
             /\ AcrossEmbedders \/ CopyRows[i].stamp = CopyRows[i].space
  <2>1. /\ active[i] \in [space : Nat, stamp : Nat]
        /\ AcrossEmbedders \/ active[i].stamp = active[i].space
    BY <1>3, <1>4 DEF StampInv, Stamped, ReTypes, RowsTyped, RowsTell
  <2>2. active[i].stamp = work.old  BY <1>4 DEF CopyAllowed
  <2>3. CopyRows[i] = [space |-> active[i].space, stamp |-> work.target]
    BY <1>4 DEF CopyRows, CopyRow
  <2> QED BY <1>1, <1>2, <2>1, <2>2, <2>3
<1>5. DOMAIN active \subseteq Ids  BY DEF StampInv, ReTypes, RowsTyped
<1>6. RowsTyped(CopyRows)  BY <1>3, <1>4, <1>5 DEF RowsTyped
<1>7. RowsTell(CopyRows)  BY <1>3, <1>4 DEF RowsTell
<1> QED BY <1>6, <1>7 DEF Truthful

LEMMA WritesTruthful ==
    ASSUME StampInv, work.at = "write", WriteAllowed
    PROVE  Truthful(NewRows)
<1>1. work.paper \in Works  BY DEF StampInv, AtInv
<1>2. DOMAIN NewRows = ToWrite /\ ToWrite \subseteq npz[work.paper].ids  BY DEF NewRows, WriteAllowed
<1>3. npz[work.paper].ids \subseteq Ids  BY <1>1 DEF StampInv, ReTypes
<1>4. npz[work.paper].space = work.build.embedder /\ sidecar[work.paper].embedder = work.build.embedder
  BY DEF StampInv, SpaceInv
<1>5. work.build.embedder \in Nat  BY DEF StampInv, ReTypes, WorkRecs
<1>6. \A i \in ToWrite : NewRows[i] = [space |-> work.build.embedder, stamp |-> work.build.embedder]
  BY <1>4 DEF NewRows, NewRow
<1> QED BY <1>2, <1>3, <1>5, <1>6 DEF Truthful, RowsTyped, RowsTell

LEMMA StagingTruthful == StampInv => Truthful(staging) /\ Truthful(active)
  BY DEF StampInv, ReTypes, Stamped, Truthful

\* A step that leaves a paper for good and changes nothing but staging, marker
\* and the count of mishaps.
LEMMA LeavesStamp ==
    ASSUME StampInv, work.job # "none", work' \in {Onward, Failed}, Truthful(staging'),
           marker' \in [active : Nat, staging : Nat], UNCHANGED <<build, active, npz, sidecar>>
    PROVE  StampInv'
<1>1. /\ work' \in WorkRecs /\ work'.at = "next"
      /\ \/ work' = AtRest
         \/ work.job = "re-embed" /\ work'.job = work.job /\ work'.build = work.build
            /\ work'.old = work.old /\ work'.target = work.target
  BY LeavesWell DEF StampInv
<1>2. ReTypes'  BY <1>1 DEF StampInv, ReTypes, Truthful
<1>3. AtRest.job = "none"  BY DEF AtRest
<1>4. AtInv'  BY <1>1, <1>3 DEF StampInv, AtInv
<1>5. SameEmbedder'  BY <1>1, <1>3 DEF StampInv, SameEmbedder
<1>6. Newest <= Newest'
  BY <1>1, <1>3 DEF StampInv, ReTypes, AtInv, Newest, WorkRecs
<1>7. Newest \in Nat /\ Newest' \in Nat
  BY <1>1, <1>2 DEF StampInv, ReTypes, Newest, WorkRecs
<1>8. \A w \in Works : sidecar[w].embedder \in Nat /\ npz[w].space \in Nat
  BY DEF StampInv, ReTypes
<1>9. SpaceInv'
  BY <1>1, <1>6, <1>7, <1>8 DEF StampInv, SpaceInv
<1>10. Stamped'  BY DEF StampInv, Stamped, Truthful, IdsIn
<1> QED BY <1>2, <1>4, <1>5, <1>9, <1>10 DEF StampInv

LEMMA StampInitially == ASSUME ReInit PROVE StampInv
<1>1. AtRest \in WorkRecs  BY DEF AtRest, WorkRecs, Unset, Ids
<1>2. AtRest.job = "none" /\ AtRest.at = "next"  BY DEF AtRest
<1>3. DOMAIN NoRows = {}  BY DEF NoRows
<1>4. ReTypes  BY <1>1, <1>3 DEF ReInit, ReTypes, RowsTyped, NoNpz, NoSidecar, Unset, Ids
<1> QED BY <1>2, <1>3, <1>4
        DEF ReInit, StampInv, AtInv, SpaceInv, SameEmbedder, Stamped, RowsTell, Newest, NoNpz,
            NoSidecar, Unset, IdsIn

LEMMA StampKeeps ==
    ASSUME StampInv, [ReNext]_reVars
    PROVE  StampInv'
<1>0. /\ Truthful(staging) /\ Truthful(active) /\ AtRest \in WorkRecs
      /\ AtRest.job = "none" /\ AtRest.at = "next"
  BY StagingTruthful DEF AtRest, WorkRecs, Unset, Ids
<1>1. ASSUME NEW w \in Works, IngestPaper(w) PROVE StampInv'
  <2>1. work' = [job |-> "ingest", build |-> build, target |-> 1, todo |-> {}, at |-> "embed", paper |-> w,
                 old |-> Unset, papers |-> {}, failed |-> {}, already |-> {}]
    BY <1>1 DEF IngestPaper, AtRest
  <2>2. ReTypes'  BY <1>1, <2>1 DEF IngestPaper, StampInv, ReTypes, WorkRecs, Unset
  <2> QED BY <1>1, <2>1, <2>2
          DEF IngestPaper, StampInv, ReTypes, AtInv, SpaceInv, SameEmbedder, Stamped, Newest
<1>2. ASSUME NEW papers \in SUBSET Works, NEW resume \in BOOLEAN,
             NEW target \in 1 .. build.embedder, StartReEmbed(papers, resume, target)
      PROVE  StampInv'
  <2>1. work' = [job |-> "re-embed", build |-> build, target |-> target, todo |-> papers,
                 at |-> "next", paper |-> Unset, old |-> marker.active, papers |-> papers, failed |-> {},
                 already |-> IF resume THEN IdsIn(staging) ELSE {}]
    BY <1>2 DEF StartReEmbed, AtRest
  <2>2. AcrossEmbedders \/ marker.active = target  BY <1>2 DEF StartReEmbed
  <2>3. (IF resume THEN IdsIn(staging) ELSE {}) \in SUBSET Ids
    BY DEF StampInv, ReTypes, RowsTyped, IdsIn
  <2>4. build \in [chunker : Nat, embedder : Nat] /\ marker.active \in Nat
    BY DEF StampInv, ReTypes
  <2>5. work' \in WorkRecs  BY <2>1, <2>3, <2>4 DEF WorkRecs, Unset
  <2>6. UNCHANGED <<build, active, staging, marker, npz, sidecar>>  BY <1>2 DEF StartReEmbed
  <2>7. ReTypes'  BY <2>5, <2>6 DEF StampInv, ReTypes
  <2>8. /\ work'.job = "re-embed" /\ work'.at = "next" /\ work'.build = build
        /\ AcrossEmbedders \/ work'.old = work'.target
    BY <2>1, <2>2
  <2>9. work.job = "none"  BY <1>2 DEF StartReEmbed
  <2>10. AtInv' /\ SameEmbedder'  BY <2>4, <2>6, <2>8 DEF AtInv, SameEmbedder
  <2>11. SpaceInv'  BY <2>6, <2>8, <2>9 DEF StampInv, SpaceInv, Newest
  <2> QED BY <2>6, <2>7, <2>10, <2>11 DEF StampInv, Stamped, IdsIn
<1>3. ASSUME NextPaper PROVE StampInv'
  <2>1. PICK w \in work.todo :
            work' = [work EXCEPT !.todo = work.todo \ {w}, !.paper = w, !.at = "copy"]
    BY <1>3 DEF NextPaper
  <2>2. /\ work' \in WorkRecs /\ work'.paper \in Works /\ work'.at = "copy"
        /\ work'.job = work.job /\ work'.build = work.build /\ work'.old = work.old
        /\ work'.target = work.target
    BY <2>1 DEF StampInv, ReTypes, WorkRecs
  <2>3. ReTypes'  BY <1>3, <2>2 DEF NextPaper, StampInv, ReTypes
  <2> QED BY <1>3, <2>2, <2>3
          DEF NextPaper, StampInv, AtInv, SpaceInv, SameEmbedder, Stamped, Newest
<1>4. ASSUME Copy PROVE StampInv'
  <2>1. work.job = "re-embed" /\ work.paper \in Works  BY <1>4 DEF Copy, StampInv, AtInv
  <2>2. Truthful(staging')
    BY <1>0, <1>4, CopiesTruthful, UpsertTruthful DEF Copy
  <2>3. marker' \in [active : Nat, staging : Nat]
    BY <1>4 DEF Copy, StampInv, ReTypes, WorkRecs
  <2>4. CASE work' \in {Onward, Failed}
    BY <1>4, <2>1, <2>2, <2>3, <2>4, LeavesStamp DEF Copy
  <2>5. CASE work' = [work EXCEPT !.at = "embed"]
    <3>1. /\ work' \in WorkRecs /\ work'.paper = work.paper /\ work'.at = "embed"
          /\ work'.job = work.job /\ work'.build = work.build /\ work'.old = work.old
          /\ work'.target = work.target
      BY <2>5 DEF StampInv, ReTypes, WorkRecs
    <3>2. ReTypes'  BY <1>4, <2>2, <2>3, <3>1 DEF Copy, StampInv, ReTypes, Truthful
    <3>3. Stamped'
      BY <1>4, <2>2 DEF Copy, StampInv, Stamped, Truthful, IdsIn
    <3> QED BY <1>4, <2>1, <3>1, <3>2, <3>3
            DEF Copy, StampInv, AtInv, SpaceInv, SameEmbedder, Newest
  <2> QED BY <1>4, <2>4, <2>5 DEF Copy
<1>5. ASSUME EmbedSkips PROVE StampInv'
  <2>1. /\ work' \in WorkRecs /\ work'.paper = work.paper /\ work'.at = "write"
        /\ work'.job = work.job /\ work'.build = work.build /\ work'.old = work.old
        /\ work'.target = work.target
    BY <1>5 DEF EmbedSkips, StampInv, ReTypes, WorkRecs
  <2>2. work.paper \in Works /\ work.job # "none"  BY <1>5 DEF EmbedSkips, StampInv, AtInv
  <2>3. sidecar[work.paper].embedder = work.build.embedder  BY <1>5 DEF EmbedSkips, UpToDate
  <2>4. npz[work.paper].space = work.build.embedder
    <3>1. /\ sidecar[work.paper].embedder <= npz[work.paper].space
          /\ npz[work.paper].space <= work.build.embedder
      BY <2>2 DEF StampInv, SpaceInv, Newest
    <3>2. npz[work.paper].space \in Nat /\ work.build.embedder \in Nat
      BY <2>2 DEF StampInv, ReTypes, WorkRecs
    <3> QED BY <2>3, <3>1, <3>2
  <2>5. ReTypes'  BY <1>5, <2>1 DEF EmbedSkips, StampInv, ReTypes
  <2> QED BY <1>5, <2>1, <2>2, <2>3, <2>4, <2>5
          DEF EmbedSkips, StampInv, AtInv, SpaceInv, SameEmbedder, Stamped, Newest
<1>6. ASSUME WriteNpz PROVE StampInv'
  <2>1. /\ work' \in WorkRecs /\ work'.paper = work.paper /\ work'.at = "sidecar"
        /\ work'.job = work.job /\ work'.build = work.build /\ work'.old = work.old
        /\ work'.target = work.target
    BY <1>6 DEF WriteNpz, StampInv, ReTypes, WorkRecs
  <2>2. work.paper \in Works /\ work.job # "none"  BY <1>6 DEF WriteNpz, StampInv, AtInv
  <2>3. PaperIds \subseteq Ids /\ work.build.embedder \in Nat
    BY <2>2, IdsOfTyped DEF PaperIds, StampInv, ReTypes, WorkRecs
  <2>4. npz' = [npz EXCEPT ![work.paper] = [ids |-> PaperIds, space |-> work.build.embedder]]
    BY <1>6 DEF WriteNpz
  <2>9. [ids |-> PaperIds, space |-> work.build.embedder] \in [ids : SUBSET Ids, space : Nat]
    BY <2>3
  <2>10. npz' \in [Works -> [ids : SUBSET Ids, space : Nat]]
    BY <2>4, <2>9 DEF StampInv, ReTypes
  <2>5. ReTypes'  BY <1>6, <2>1, <2>10 DEF WriteNpz, StampInv, ReTypes
  <2>6. /\ npz'[work.paper].space = work.build.embedder
        /\ \A w \in Works \ {work.paper} : npz'[w] = npz[w]
    BY <2>2, <2>4 DEF StampInv, ReTypes
  <2>7. sidecar[work.paper].embedder <= work.build.embedder
    <3>1. /\ sidecar[work.paper].embedder <= npz[work.paper].space
          /\ npz[work.paper].space <= work.build.embedder
      BY <2>2 DEF StampInv, SpaceInv, Newest
    <3> QED BY <2>2, <2>3, <3>1 DEF StampInv, ReTypes
  <2>8. SpaceInv'
    <3>1. ASSUME NEW w \in Works PROVE sidecar'[w].embedder <= npz'[w].space /\ npz'[w].space <= Newest'
      BY <1>6, <2>1, <2>2, <2>3, <2>6, <2>7 DEF WriteNpz, StampInv, SpaceInv, Newest
    <3> QED BY <2>1, <2>6, <3>1 DEF SpaceInv
  <2> QED BY <1>6, <2>1, <2>2, <2>5, <2>8
          DEF WriteNpz, StampInv, AtInv, SameEmbedder, Stamped
<1>7. ASSUME WriteSidecar PROVE StampInv'
  <2>1. /\ work' \in WorkRecs /\ work'.paper = work.paper /\ work'.at = "write"
        /\ work'.job = work.job /\ work'.build = work.build /\ work'.old = work.old
        /\ work'.target = work.target
    BY <1>7 DEF WriteSidecar, StampInv, ReTypes, WorkRecs
  <2>2. work.paper \in Works /\ work.job # "none"  BY <1>7 DEF WriteSidecar, StampInv, AtInv
  <2>3. PaperIds \subseteq Ids /\ work.build \in [chunker : Nat, embedder : Nat]
    BY <2>2, IdsOfTyped DEF PaperIds, StampInv, ReTypes, WorkRecs
  <2>4. sidecar' = [sidecar EXCEPT ![work.paper] =
            [ids |-> PaperIds, chunker |-> work.build.chunker, embedder |-> work.build.embedder]]
    BY <1>7 DEF WriteSidecar
  <2>9. [ids |-> PaperIds, chunker |-> work.build.chunker, embedder |-> work.build.embedder]
            \in [ids : SUBSET Ids, chunker : Nat, embedder : Nat]
    BY <2>3
  <2>10. sidecar' \in [Works -> [ids : SUBSET Ids, chunker : Nat, embedder : Nat]]
    BY <2>4, <2>9 DEF StampInv, ReTypes
  <2>5. ReTypes'  BY <1>7, <2>1, <2>10 DEF WriteSidecar, StampInv, ReTypes
  <2>6. /\ sidecar'[work.paper].embedder = work.build.embedder
        /\ \A w \in Works \ {work.paper} : sidecar'[w] = sidecar[w]
    BY <2>2, <2>4 DEF StampInv, ReTypes
  <2>7. npz[work.paper].space = work.build.embedder  BY <1>7 DEF WriteSidecar, StampInv, SpaceInv
  <2>8. SpaceInv'
    <3>1. ASSUME NEW w \in Works PROVE sidecar'[w].embedder <= npz'[w].space /\ npz'[w].space <= Newest'
      BY <1>7, <2>1, <2>2, <2>3, <2>6, <2>7 DEF WriteSidecar, StampInv, SpaceInv, Newest
    <3> QED BY <1>7, <2>1, <2>6, <2>7, <3>1 DEF WriteSidecar, SpaceInv
  <2> QED BY <1>7, <2>1, <2>2, <2>5, <2>8
          DEF WriteSidecar, StampInv, AtInv, SameEmbedder, Stamped
<1>8. ASSUME Write PROVE StampInv'
  <2>1. work.job # "none" /\ work.paper \in Works  BY <1>8 DEF Write, StampInv, AtInv
  <2>2. Truthful(staging')  BY <1>0, <1>8, WritesTruthful, UpsertTruthful DEF Write
  <2>3. marker' \in [active : Nat, staging : Nat]
    BY <1>8, <2>1 DEF Write, StampInv, ReTypes
  <2> QED BY <1>8, <2>1, <2>2, <2>3, LeavesStamp DEF Write
<1>9. ASSUME StepRaises PROVE StampInv'
  <2>1. CASE work.job = "none"
    <3>1. work.at = "next" /\ work' = AtRest /\ staging' = staging
      BY <1>9, <2>1 DEF StepRaises, Failed, StampInv, AtInv
    <3> QED BY <1>0, <1>9, <2>1, <3>1
            DEF StepRaises, StampInv, ReTypes, AtInv, SpaceInv, SameEmbedder, Stamped, Newest
  <2>2. CASE work.job # "none"
    <3>1. Truthful(staging')
      BY <1>0, <1>9, CopiesTruthful, WritesTruthful, UpsertTruthful DEF StepRaises
    <3> QED BY <1>9, <2>2, <3>1, LeavesStamp DEF StepRaises, StampInv, ReTypes
  <2> QED BY <2>1, <2>2
<1>10. ASSUME EndReEmbed \/ Kill PROVE StampInv'
  <2>1. work.job # "none" /\ work' = AtRest
    BY <1>10 DEF EndReEmbed, Kill
  <2>2. UNCHANGED <<build, active, staging, marker, npz, sidecar>>  BY <1>10 DEF EndReEmbed, Kill
  <2>3. ReTypes'  BY <1>0, <2>1, <2>2 DEF StampInv, ReTypes
  <2>4. \A w \in Works : npz[w].space <= build.embedder
    BY <2>1 DEF StampInv, ReTypes, AtInv, SpaceInv, Newest, WorkRecs
  <2> QED BY <1>0, <2>1, <2>2, <2>3, <2>4
          DEF StampInv, AtInv, SpaceInv, SameEmbedder, Stamped, Newest
<1>11. ASSUME Deploy PROVE StampInv'
  <2>1. build' \in [chunker : Nat, embedder : Nat] /\ build'.embedder >= build.embedder
    BY <1>11 DEF Deploy, StampInv, ReTypes
  <2>2. ReTypes'  BY <1>11, <2>1 DEF Deploy, StampInv, ReTypes
  <2> QED BY <1>11, <2>1, <2>2
          DEF Deploy, StampInv, ReTypes, AtInv, SpaceInv, SameEmbedder, Stamped, Newest, WorkRecs
<1>12. ASSUME Activate PROVE StampInv'
  <2>1. Truthful(active') /\ Truthful(staging')  BY <1>0, <1>12 DEF Activate, NoRows, Truthful, RowsTyped, RowsTell
  <2>2. ReTypes'  BY <1>12, <2>1 DEF Activate, StampInv, ReTypes, Truthful, Unset
  <2>3. Stamped'  BY <2>1 DEF Stamped, Truthful, IdsIn
  <2> QED BY <1>12, <2>2, <2>3 DEF Activate, StampInv, AtInv, SpaceInv, SameEmbedder, Newest
<1>13. ASSUME UNCHANGED reVars PROVE StampInv'
  BY <1>13 DEF reVars, StampInv, ReTypes, AtInv, SpaceInv, SameEmbedder, Stamped, Newest, IdsIn
<1> QED BY <1>1, <1>2, <1>3, <1>4, <1>5, <1>6, <1>7, <1>8, <1>9, <1>10, <1>11, <1>12, <1>13
        DEF ReNext

\* For any papers, bounds, kills and failures: while the target of a re-embed is
\* the embedder the active marker names, as it is when only the chunker has
\* been bumped, every row of both datasets states the space its vector is in.
THEOREM StampTellsSpaceHolds ==
    ASSUME ~AcrossEmbedders
    PROVE  ReSpec => []StampTellsSpace
<1>1. ReInit => StampInv  BY StampInitially
<1>2. StampInv /\ [ReNext]_reVars => StampInv'  BY StampKeeps
<1>3. StampInv => StampTellsSpace  BY DEF StampInv, Stamped, RowsTell, StampTellsSpace, IdsIn
<1> QED BY <1>1, <1>2, <1>3, PTL DEF ReSpec

\* Where a paper of a re-embed is: to come, given up, at work, or in staging.
Covered(w) == \/ w \in work.todo
              \/ w \in work.failed
              \/ work.at # "next" /\ w = work.paper
              \/ IdsOf(w, work.build.chunker) \subseteq IdsIn(staging)

\* The sentinel of a re-embed at work is that run's own, its papers are
\* covered, and past the copy only what is pending can be missing.
RunInv == work.job = "re-embed" =>
              /\ sentinel.status = "in_progress"
              /\ sentinel.papers = work.papers /\ sentinel.chunker = work.build.chunker
              /\ work.already \subseteq IdsIn(staging)
              /\ \A w \in work.papers : Covered(w)
              /\ work.at \in {"embed", "sidecar", "write"} =>
                     PaperIds \ ReEmbedPending \subseteq IdsIn(staging)

ReEmbedInv == StampInv /\ RunInv /\ CompleteIsWhole

\* A step that only adds rows and leaves sentinel alone keeps what is complete.
LEMMA CompleteStays ==
    ASSUME CompleteIsWhole, IdsIn(staging) \subseteq IdsIn(staging)', sentinel' = sentinel
    PROVE  CompleteIsWhole'
  BY DEF CompleteIsWhole

\* A paper that is left is in staging or given up.
LEMMA LeavesWhole ==
    ASSUME ReEmbedInv, work.job # "none", IdsIn(staging) \subseteq IdsIn(staging)',
           sentinel' = sentinel,
           \/ work' = Failed
           \/ work' = Onward /\ (work.job = "re-embed" => PaperIds \subseteq IdsIn(staging)')
    PROVE  RunInv' /\ CompleteIsWhole'
<1>1. CompleteIsWhole'  BY CompleteStays DEF ReEmbedInv
<1>2. CASE work.job # "re-embed"
  <2>1. work' = AtRest  BY <1>2 DEF Failed, Onward
  <2> QED BY <1>1, <2>1 DEF AtRest, RunInv
<1>3. CASE work.job = "re-embed"
  <2>1. /\ work'.job = "re-embed" /\ work'.at = "next" /\ work'.build = work.build
        /\ work'.papers = work.papers /\ work'.todo = work.todo /\ work'.already = work.already
        /\ work.failed \subseteq work'.failed
        /\ work.paper \in work'.failed \/ PaperIds \subseteq IdsIn(staging)'
    <3>1. work \in WorkRecs  BY DEF ReEmbedInv, StampInv, ReTypes
    <3>2. CASE work' = Failed  BY <1>3, <3>1, <3>2 DEF Failed, WorkRecs
    <3>3. CASE work' = Onward /\ PaperIds \subseteq IdsIn(staging)'
      BY <1>3, <3>1, <3>3 DEF Onward, WorkRecs
    <3> QED BY <1>3, <3>2, <3>3
  <2>2. ASSUME NEW w \in work'.papers PROVE Covered(w)'
    <3>1. Covered(w)  BY <1>3, <2>1, <2>2 DEF ReEmbedInv, RunInv
    <3> QED BY <2>1, <3>1 DEF Covered, PaperIds
  <2> QED BY <1>1, <1>3, <2>1, <2>2 DEF ReEmbedInv, RunInv
<1> QED BY <1>1, <1>2, <1>3

LEMMA WholeKeeps ==
    ASSUME ReEmbedInv, [ReNext]_reVars
    PROVE  RunInv' /\ CompleteIsWhole'
<1>1. ASSUME NEW w \in Works, IngestPaper(w) PROVE RunInv' /\ CompleteIsWhole'
  BY <1>1 DEF IngestPaper, AtRest, ReEmbedInv, RunInv, CompleteIsWhole, IdsIn
<1>2. ASSUME NEW papers \in SUBSET Works, NEW resume \in BOOLEAN,
             NEW target \in 1 .. build.embedder, StartReEmbed(papers, resume, target)
      PROVE  RunInv' /\ CompleteIsWhole'
  <2>1. /\ work'.job = "re-embed" /\ work'.at = "next" /\ work'.build = build
        /\ work'.papers = papers /\ work'.todo = papers
        /\ work'.already \subseteq IdsIn(staging)
    BY <1>2 DEF StartReEmbed, AtRest
  <2>2. \A w \in work'.papers : Covered(w)'  BY <2>1 DEF Covered
  <2> QED BY <1>2, <2>1, <2>2 DEF StartReEmbed, RunInv, CompleteIsWhole, IdsIn
<1>3. ASSUME NextPaper PROVE RunInv' /\ CompleteIsWhole'
  <2>1. PICK w \in work.todo :
            work' = [work EXCEPT !.todo = work.todo \ {w}, !.paper = w, !.at = "copy"]
    BY <1>3 DEF NextPaper
  <2>2. /\ work'.job = work.job /\ work'.at = "copy" /\ work'.build = work.build
        /\ work'.papers = work.papers /\ work'.todo = work.todo \ {w} /\ work'.paper = w
        /\ work'.already = work.already /\ work'.failed = work.failed
    BY <2>1 DEF ReEmbedInv, StampInv, ReTypes, WorkRecs
  <2>3. work.job = "re-embed" /\ work.at = "next"  BY <1>3 DEF NextPaper
  <2>4. ASSUME NEW u \in work'.papers PROVE Covered(u)'
    <3>1. Covered(u)  BY <2>2, <2>3, <2>4 DEF ReEmbedInv, RunInv
    <3> QED BY <1>3, <2>2, <2>3, <3>1 DEF NextPaper, Covered, IdsIn
  <2> QED BY <1>3, <2>2, <2>3, <2>4 DEF NextPaper, ReEmbedInv, RunInv, CompleteIsWhole, IdsIn
<1>0. /\ DOMAIN Upsert(staging, CopyRows) = IdsIn(staging) \cup CopyPending
      /\ DOMAIN Upsert(staging, NewRows) = IdsIn(staging) \cup ToWrite
  BY DEF Upsert, CopyRows, NewRows, IdsIn
<1>4. ASSUME Copy PROVE RunInv' /\ CompleteIsWhole'
  <2>1. work.job = "re-embed"  BY <1>4 DEF Copy, ReEmbedInv, StampInv, AtInv
  <2>2. IdsIn(staging) \subseteq IdsIn(staging)' /\ sentinel' = sentinel
    BY <1>0, <1>4 DEF Copy, IdsIn
  <2>3. CASE ~CopyAllowed
    BY <1>4, <2>1, <2>2, <2>3, LeavesWhole DEF Copy
  <2>4. CASE CopyAllowed
    <3>1. IdsIn(staging)' = IdsIn(staging) \cup CopyPending
      BY <1>0, <1>4, <2>4 DEF Copy, IdsIn
    <3>2. PaperIds \ ReEmbedPending \subseteq IdsIn(staging)'
      BY <2>1, <3>1 DEF ReEmbedPending, CopyPending, ReEmbedInv, RunInv
    <3>3. CASE ReEmbedPending = {}
      BY <1>4, <2>1, <2>2, <2>4, <3>2, <3>3, LeavesWhole DEF Copy
    <3>4. CASE ReEmbedPending # {}
      <4>1. work' = [work EXCEPT !.at = "embed"]  BY <1>4, <2>4, <3>4 DEF Copy
      <4>2. /\ work'.job = work.job /\ work'.at = "embed" /\ work'.build = work.build
            /\ work'.papers = work.papers /\ work'.todo = work.todo
            /\ work'.paper = work.paper /\ work'.already = work.already
            /\ work'.failed = work.failed /\ active' = active
        BY <1>4, <4>1 DEF Copy, ReEmbedInv, StampInv, ReTypes, WorkRecs
      <4>3. ASSUME NEW u \in work'.papers PROVE Covered(u)'
        <5>1. Covered(u)  BY <2>1, <4>2, <4>3 DEF ReEmbedInv, RunInv
        <5> QED BY <2>2, <4>2, <5>1 DEF Covered
      <4>4. (PaperIds \ ReEmbedPending)' = PaperIds \ ReEmbedPending
        BY <4>2 DEF PaperIds, ReEmbedPending, IdsIn
      <4>5. CompleteIsWhole'  BY <2>2, CompleteStays DEF ReEmbedInv
      <4> QED BY <2>1, <2>2, <3>2, <4>2, <4>3, <4>4, <4>5 DEF ReEmbedInv, RunInv
    <3> QED BY <3>3, <3>4
  <2> QED BY <2>3, <2>4
<1>5. ASSUME EmbedSkips \/ WriteNpz \/ WriteSidecar PROVE RunInv' /\ CompleteIsWhole'
  <2>1. /\ work.at \in {"embed", "sidecar"}
        /\ \E at \in {"sidecar", "write"} : work' = [work EXCEPT !.at = at]
    BY <1>5 DEF EmbedSkips, WriteNpz, WriteSidecar
  <2>2. /\ work'.job = work.job /\ work'.at \in {"sidecar", "write"} /\ work'.build = work.build
        /\ work'.papers = work.papers /\ work'.todo = work.todo
        /\ work'.paper = work.paper /\ work'.already = work.already /\ work'.failed = work.failed
    BY <2>1 DEF ReEmbedInv, StampInv, ReTypes, WorkRecs
  <2>3. UNCHANGED <<active, staging, sentinel>>  BY <1>5 DEF EmbedSkips, WriteNpz, WriteSidecar
  <2>4. CompleteIsWhole'  BY <2>3, CompleteStays DEF ReEmbedInv, IdsIn
  <2>5. ASSUME work.job = "re-embed", NEW u \in work'.papers PROVE Covered(u)'
    <3>1. Covered(u)  BY <2>2, <2>5 DEF ReEmbedInv, RunInv
    <3> QED BY <2>1, <2>2, <2>3, <3>1 DEF Covered, IdsIn
  <2>6. (PaperIds \ ReEmbedPending)' = PaperIds \ ReEmbedPending
    BY <2>2, <2>3 DEF PaperIds, ReEmbedPending, IdsIn
  <2> QED BY <2>1, <2>2, <2>3, <2>4, <2>5, <2>6 DEF ReEmbedInv, RunInv, IdsIn
<1>6. ASSUME Write PROVE RunInv' /\ CompleteIsWhole'
  <2>1. work.job # "none" /\ work.at = "write"  BY <1>6 DEF Write, ReEmbedInv, StampInv, AtInv
  <2>2. IdsIn(staging) \subseteq IdsIn(staging)' /\ sentinel' = sentinel
    BY <1>0, <1>6 DEF Write, IdsIn
  <2>3. CASE ~WriteAllowed
    BY <1>6, <2>1, <2>2, <2>3, LeavesWhole DEF Write
  <2>4. CASE WriteAllowed
    <3>1. IdsIn(staging)' = IdsIn(staging) \cup ToWrite
      BY <1>0, <1>6, <2>4 DEF Write, IdsIn
    <3>2. work.job = "re-embed" => PaperIds \subseteq IdsIn(staging)'
      BY <2>1, <3>1 DEF ToWrite, ReEmbedInv, RunInv
    <3> QED BY <1>6, <2>1, <2>2, <2>4, <3>2, LeavesWhole DEF Write
  <2> QED BY <2>3, <2>4
<1>7. ASSUME StepRaises PROVE RunInv' /\ CompleteIsWhole'
  <2>1. IdsIn(staging) \subseteq IdsIn(staging)' /\ sentinel' = sentinel /\ work' = Failed
    BY <1>0, <1>7 DEF StepRaises, IdsIn
  <2>2. CASE work.job = "none"
    <3>1. work' = AtRest  BY <2>1, <2>2 DEF Failed
    <3>2. CompleteIsWhole'  BY <2>1, CompleteStays DEF ReEmbedInv
    <3> QED BY <3>1, <3>2 DEF AtRest, RunInv
  <2>3. CASE work.job # "none"  BY <2>1, <2>3, LeavesWhole
  <2> QED BY <2>2, <2>3
<1>8. ASSUME EndReEmbed PROVE RunInv' /\ CompleteIsWhole'
  <2>1. /\ work.job = "re-embed" /\ work.at = "next" /\ work.todo = {}
        /\ sentinel' = [sentinel EXCEPT !.status = FinalStatus]
        /\ work' = AtRest /\ staging' = staging
    BY <1>8 DEF EndReEmbed
  <2>2. RunInv'  BY <2>1 DEF AtRest, RunInv
  <2>3. ASSUME sentinel'.status = "complete", NEW w \in sentinel'.papers
        PROVE  IdsOf(w, sentinel'.chunker) \subseteq IdsIn(staging)'
    <3>1. sentinel'.papers = work.papers /\ sentinel'.chunker = work.build.chunker
      BY <2>1 DEF ReEmbedInv, RunInv
    <3>2. work.failed = {}  BY <2>1, <2>3 DEF ReEmbedInv, RunInv, FinalStatus
    <3>3. Covered(w)  BY <2>1, <2>3, <3>1 DEF ReEmbedInv, RunInv
    <3> QED BY <2>1, <3>1, <3>2, <3>3 DEF Covered, IdsIn
  <2> QED BY <2>2, <2>3 DEF CompleteIsWhole
<1>9. ASSUME Kill PROVE RunInv' /\ CompleteIsWhole'
  BY <1>9 DEF Kill, AtRest, ReEmbedInv, RunInv, CompleteIsWhole, IdsIn
<1>10. ASSUME Deploy PROVE RunInv' /\ CompleteIsWhole'
  <2>1. UNCHANGED <<active, staging, sentinel, work>>  BY <1>10 DEF Deploy
  <2> QED BY <2>1 DEF ReEmbedInv, RunInv, CompleteIsWhole, Covered, PaperIds, ReEmbedPending, IdsIn
<1>11. ASSUME Activate PROVE RunInv' /\ CompleteIsWhole'
  BY <1>11 DEF Activate, NoSentinel, ReEmbedInv, RunInv, CompleteIsWhole
<1>12. ASSUME UNCHANGED reVars PROVE RunInv' /\ CompleteIsWhole'
  <2>1. UNCHANGED <<active, staging, sentinel, work>>  BY <1>12 DEF reVars
  <2> QED BY <2>1 DEF ReEmbedInv, RunInv, CompleteIsWhole, Covered, PaperIds, ReEmbedPending, IdsIn
<1> QED BY <1>1, <1>2, <1>3, <1>4, <1>5, <1>6, <1>7, <1>8, <1>9, <1>10, <1>11, <1>12 DEF ReNext

\* For any papers, bounds, kills, failures and resumed runs, and whatever the
\* re-embed is used for: staging whose sentinel says complete holds every chunk
\* of the papers of that run.
THEOREM CompleteIsWholeHolds == ReSpec => []CompleteIsWhole
<1>1. ReInit => ReEmbedInv
  BY StampInitially DEF ReInit, ReEmbedInv, RunInv, CompleteIsWhole, AtRest, NoSentinel
<1>2. ReEmbedInv /\ [ReNext]_reVars => ReEmbedInv'  BY StampKeeps, WholeKeeps DEF ReEmbedInv
<1>3. ReEmbedInv => CompleteIsWhole  BY DEF ReEmbedInv
<1> QED BY <1>1, <1>2, <1>3, PTL DEF ReSpec

\* what re-embed-progress.json can hold
Sentinels == [status : {"absent", "in_progress", "complete", "complete_with_failures"},
              papers : SUBSET Works, chunker : Nat, embedder : Nat]

\* what can be under a build: nothing of a version that comes after it
IdsUpTo(b)    == Works \X (0 .. b.chunker)
RowsUpTo(b)   == [space : 1 .. b.embedder, stamp : 1 .. b.embedder]
BuildsUpTo(b) == [chunker : 1 .. b.chunker, embedder : 1 .. b.embedder]

RowsBounded(d, b) == DOMAIN d \subseteq IdsUpTo(b) /\ \A i \in DOMAIN d : d[i] \in RowsUpTo(b)

NpzBounded(b) == \A w \in Works : npz[w].ids \subseteq IdsUpTo(b) /\ npz[w].space \in 0 .. b.embedder

\* Versions are those that were deployed: of the builds, and with them of the
\* processes, the chunks, the vectors and what the files say of them.
VersionsInv ==
    /\ bumps \in 0 .. MaxBumps
    /\ build.chunker \in 1 .. bumps + 1 /\ build.embedder \in 1 .. bumps + 1
    /\ work.build \in BuildsUpTo(build) /\ work.target \in 1 .. build.embedder
    /\ NpzBounded(build)
    /\ sentinel \in Sentinels

BoundedInv == VersionsInv /\ RowsBounded(active, build) /\ RowsBounded(staging, build)

LEMMA UpsertBounded ==
    ASSUME NEW d, NEW new, NEW b, RowsBounded(d, b), RowsBounded(new, b)
    PROVE  RowsBounded(Upsert(d, new), b)
<1>1. /\ DOMAIN Upsert(d, new) = DOMAIN d \cup DOMAIN new
      /\ \A i \in DOMAIN Upsert(d, new) :
             \/ i \in DOMAIN new /\ Upsert(d, new)[i] = new[i]
             \/ i \in DOMAIN d /\ Upsert(d, new)[i] = d[i]
  BY DEF Upsert
<1> QED BY <1>1 DEF RowsBounded

LEMMA CopiesBounded ==
    ASSUME StampInv, BoundedInv PROVE RowsBounded(CopyRows, build)
<1>1. DOMAIN CopyRows = CopyPending /\ CopyPending \subseteq DOMAIN active
  BY DEF CopyRows, CopyPending, IdsIn
<1>2. work.target \in 1 .. build.embedder
  BY DEF BoundedInv, VersionsInv
<1>3. ASSUME NEW i \in CopyPending PROVE CopyRows[i] \in RowsUpTo(build)
  <2>1. active[i] \in RowsUpTo(build)
    BY <1>1 DEF BoundedInv, RowsBounded
  <2>2. CopyRows[i] = [space |-> active[i].space, stamp |-> work.target]
    BY DEF CopyRows, CopyRow
  <2> QED BY <1>2, <2>1, <2>2 DEF RowsUpTo
<1> QED BY <1>1, <1>3 DEF BoundedInv, RowsBounded

LEMMA WritesBounded ==
    ASSUME StampInv, BoundedInv, work.at = "write", WriteAllowed
    PROVE  RowsBounded(NewRows, build)
<1>1. work.paper \in Works  BY DEF StampInv, AtInv
<1>2. DOMAIN NewRows = ToWrite /\ ToWrite \subseteq npz[work.paper].ids
  BY DEF NewRows, WriteAllowed
<1>3. npz[work.paper].ids \subseteq IdsUpTo(build)  BY <1>1 DEF BoundedInv, VersionsInv, NpzBounded
<1>4. work.build.embedder \in 1 .. build.embedder  BY DEF BoundedInv, VersionsInv, BuildsUpTo
<1>5. \A i \in ToWrite : NewRows[i] = [space |-> work.build.embedder, stamp |-> work.build.embedder]
  BY DEF StampInv, SpaceInv, NewRows, NewRow
<1> QED BY <1>2, <1>3, <1>4, <1>5 DEF RowsBounded, RowsUpTo

\* What was deployed before a deployment was deployed after it.
LEMMA UpToGrows ==
    ASSUME NEW b \in [chunker : Nat, embedder : Nat], NEW c \in [chunker : Nat, embedder : Nat],
           b.chunker <= c.chunker, b.embedder <= c.embedder
    PROVE  /\ IdsUpTo(b) \subseteq IdsUpTo(c) /\ RowsUpTo(b) \subseteq RowsUpTo(c)
           /\ BuildsUpTo(b) \subseteq BuildsUpTo(c)
<1>1. /\ 0 .. b.chunker \subseteq 0 .. c.chunker /\ 1 .. b.chunker \subseteq 1 .. c.chunker
      /\ 1 .. b.embedder \subseteq 1 .. c.embedder
  OBVIOUS
<1>2. IdsUpTo(b) \subseteq IdsUpTo(c)
  BY <1>1 DEF IdsUpTo
<1> QED BY <1>1, <1>2 DEF RowsUpTo, BuildsUpTo

LEMMA BoundedKeeps == ASSUME StampInv, BoundedInv, [ReNext]_reVars PROVE BoundedInv'
<1>0. /\ build \in [chunker : Nat, embedder : Nat] /\ build.chunker >= 1 /\ build.embedder >= 1
      /\ build \in BuildsUpTo(build) /\ AtRest.build \in BuildsUpTo(build)
      /\ AtRest.target \in 1 .. build.embedder
      /\ RowsBounded(NoRows, build)
  <2>1. build \in [chunker : Nat, embedder : Nat]
    BY DEF StampInv, ReTypes
  <2>2. build.chunker >= 1 /\ build.embedder >= 1 /\ 1 \in Nat
    BY ReEmbedAssumption DEF BoundedInv, VersionsInv
  <2>3. build.chunker \in 1 .. build.chunker /\ build.embedder \in 1 .. build.embedder
    BY <2>1, <2>2
  <2>4. 1 \in 1 .. build.chunker /\ 1 \in 1 .. build.embedder
    BY <2>1, <2>2
  <2>5. build \in BuildsUpTo(build) /\ AtRest.build \in BuildsUpTo(build)
    BY <2>1, <2>3, <2>4 DEF BuildsUpTo, AtRest
  <2>6. RowsBounded(NoRows, build)
    BY DEF RowsBounded, NoRows
  <2> QED BY <2>1, <2>2, <2>4, <2>5, <2>6 DEF AtRest
<1>1. ASSUME UNCHANGED <<build, npz, bumps>>, work'.build \in {work.build, build, AtRest.build},
             work'.target \in {work.target, AtRest.target} \cup (1 .. build.embedder),
             sentinel' \in Sentinels
      PROVE  VersionsInv'
  BY <1>0, <1>1 DEF BoundedInv, VersionsInv, NpzBounded
<1>2. work \in WorkRecs
  BY DEF StampInv, ReTypes
<1>3. /\ Onward.build \in {work.build, AtRest.build} /\ Failed.build \in {work.build, AtRest.build}
      /\ Onward.target \in {work.target, AtRest.target}
      /\ Failed.target \in {work.target, AtRest.target}
  BY <1>2 DEF Onward, Failed, WorkRecs
<1>4. sentinel \in Sentinels
  BY DEF BoundedInv, VersionsInv
<1>5. CASE \E w \in Works : IngestPaper(w)
  <2>1. /\ work'.build = build /\ work'.target = AtRest.target
        /\ UNCHANGED <<build, npz, bumps, sentinel, active, staging>>
    BY <1>5 DEF IngestPaper, AtRest
  <2> QED BY <1>1, <1>4, <2>1 DEF BoundedInv
<1>6. CASE \E papers \in SUBSET Works, resume \in BOOLEAN, target \in 1 .. build.embedder :
               StartReEmbed(papers, resume, target)
  <2>1. PICK papers \in SUBSET Works, target \in 1 .. build.embedder :
            \E resume \in BOOLEAN : StartReEmbed(papers, resume, target)
    BY <1>6
  <2>2. sentinel' = [status |-> "in_progress", papers |-> papers,
                     chunker |-> build.chunker, embedder |-> target]
    BY <2>1 DEF StartReEmbed
  <2>3. sentinel' \in Sentinels
    <3>1. build.chunker \in Nat /\ target \in Nat
      BY <1>0
    <3> QED BY <2>1, <2>2, <3>1 DEF Sentinels
  <2>4. /\ work'.build = build /\ work'.target = target
        /\ UNCHANGED <<build, npz, bumps, active, staging>>
    BY <2>1 DEF StartReEmbed, AtRest
  <2>5. UNCHANGED <<build, npz, bumps>> /\ work'.build \in {work.build, build, AtRest.build}
    BY <2>4
  <2>6. work'.target \in {work.target, AtRest.target} \cup (1 .. build.embedder)
    BY <2>4
  <2>7. VersionsInv'
    BY <1>1, <2>3, <2>5, <2>6
  <2> QED BY <2>4, <2>7 DEF BoundedInv
<1>7. CASE NextPaper \/ EmbedSkips \/ WriteSidecar
  <2>1. /\ work'.build = work.build /\ work'.target = work.target
        /\ UNCHANGED <<build, npz, bumps, sentinel, active, staging>>
    BY <1>2, <1>7 DEF NextPaper, EmbedSkips, WriteSidecar, WorkRecs
  <2> QED BY <1>1, <1>4, <2>1 DEF BoundedInv
<1>8. CASE Copy \/ Write \/ StepRaises
  <2>1. UNCHANGED <<build, npz, bumps, sentinel, active>>
    BY <1>8 DEF Copy, Write, StepRaises
  <2>2. work' \in {Onward, Failed, [work EXCEPT !.at = "embed"]}
    BY <1>8 DEF Copy, Write, StepRaises
  <2>3. /\ work'.build \in {work.build, AtRest.build}
        /\ work'.target \in {work.target, AtRest.target}
    BY <1>2, <1>3, <2>2 DEF WorkRecs
  <2>4. \/ staging' = staging
        \/ staging' = Upsert(staging, CopyRows)
        \/ work.at = "write" /\ WriteAllowed /\ staging' = Upsert(staging, NewRows)
    BY <1>8 DEF Copy, Write, StepRaises
  <2>5. RowsBounded(staging', build)
    BY <2>4, UpsertBounded, CopiesBounded, WritesBounded DEF BoundedInv
  <2>6. VersionsInv'
    BY <1>1, <1>4, <2>1, <2>3
  <2> QED BY <2>1, <2>5, <2>6 DEF BoundedInv
<1>9. CASE WriteNpz
  <2>1. /\ npz' = [npz EXCEPT ![work.paper] = [ids |-> PaperIds, space |-> work.build.embedder]]
        /\ UNCHANGED <<build, bumps, sentinel, active, staging>>
        /\ work'.build = work.build /\ work'.target = work.target /\ work.paper \in Works
    BY <1>2, <1>9 DEF WriteNpz, WorkRecs, StampInv, AtInv
  <2>2. PaperIds \subseteq IdsUpTo(build) /\ work.build.embedder \in 0 .. build.embedder
    <3>1. /\ work.build.chunker \in 1 .. build.chunker
          /\ work.build.embedder \in 1 .. build.embedder
      BY DEF BoundedInv, VersionsInv, BuildsUpTo
    <3>2. 0 \in 0 .. build.chunker /\ work.build.chunker \in 0 .. build.chunker
      BY <1>0, <3>1
    <3>3. PaperIds \subseteq IdsUpTo(build)
      BY <2>1, <3>2 DEF PaperIds, IdsOf, IdsUpTo
    <3> QED BY <1>0, <3>1, <3>3
  <2>3. npz \in [Works -> [ids : SUBSET Ids, space : Nat]]
    BY DEF StampInv, ReTypes
  <2>4. \A w \in Works : npz'[w].ids \subseteq IdsUpTo(build) /\ npz'[w].space \in 0 .. build.embedder
    BY <2>1, <2>2, <2>3 DEF BoundedInv, VersionsInv, NpzBounded
  <2>5. NpzBounded(build)'
    BY <2>1, <2>4 DEF NpzBounded
  <2> QED BY <2>1, <2>5 DEF BoundedInv, VersionsInv
<1>10. CASE EndReEmbed \/ Kill
  <2>1. work' = AtRest /\ UNCHANGED <<build, npz, bumps, active, staging>>
    BY <1>10 DEF EndReEmbed, Kill
  <2>2. sentinel' = sentinel \/ sentinel' = [sentinel EXCEPT !.status = FinalStatus]
    BY <1>10 DEF EndReEmbed, Kill
  <2>3. sentinel' \in Sentinels
    <3>1. FinalStatus \in {"complete", "complete_with_failures"}
      BY DEF FinalStatus
    <3> QED BY <1>4, <2>2, <3>1 DEF Sentinels
  <2>4. VersionsInv'
    <3>1. UNCHANGED <<build, npz, bumps>> /\ work'.build \in {work.build, build, AtRest.build}
      BY <2>1
    <3>2. work'.target \in {work.target, AtRest.target} \cup (1 .. build.embedder)
      BY <2>1
    <3> QED BY <1>1, <2>3, <3>1, <3>2
  <2> QED BY <2>1, <2>4 DEF BoundedInv
<1>11. CASE Deploy
  <2>1. /\ bumps < MaxBumps /\ bumps' = bumps + 1
        /\ build'.chunker \in {build.chunker, build.chunker + 1}
        /\ build'.embedder \in {build.embedder, build.embedder + 1}
        /\ UNCHANGED <<active, staging, npz, sentinel, work>>
        /\ build' \in [chunker : Nat, embedder : Nat]
    BY <1>11 DEF Deploy, StampInv, ReTypes
  <2>2. /\ bumps' \in 0 .. MaxBumps /\ build'.chunker \in 1 .. bumps' + 1
        /\ build'.embedder \in 1 .. bumps' + 1
    BY <2>1, ReEmbedAssumption DEF BoundedInv, VersionsInv
  <2>3. build.chunker <= build'.chunker /\ build.embedder <= build'.embedder
    BY <1>0, <2>1
  <2>4. /\ IdsUpTo(build) \subseteq IdsUpTo(build') /\ RowsUpTo(build) \subseteq RowsUpTo(build')
        /\ BuildsUpTo(build) \subseteq BuildsUpTo(build')
    BY <1>0, <2>1, <2>3, UpToGrows
  <2>5. 0 .. build.embedder \subseteq 0 .. build'.embedder /\ 1 .. build.embedder \subseteq 1 .. build'.embedder
    BY <1>0, <2>1, <2>3
  <2>6. RowsBounded(active, build)' /\ RowsBounded(staging, build)'
    BY <2>1, <2>4 DEF BoundedInv, RowsBounded
  <2>7. NpzBounded(build)'
    BY <2>1, <2>4, <2>5 DEF BoundedInv, VersionsInv, NpzBounded
  <2>8. /\ work'.build \in BuildsUpTo(build') /\ work'.target \in 1 .. build'.embedder
        /\ sentinel' \in Sentinels
    BY <2>1, <2>4, <2>5 DEF BoundedInv, VersionsInv
  <2> QED BY <2>2, <2>6, <2>7, <2>8 DEF BoundedInv, VersionsInv
<1>12. CASE Activate
  <2>1. /\ active' = staging /\ staging' = NoRows /\ sentinel' = NoSentinel
        /\ UNCHANGED <<build, npz, bumps, work>>
    BY <1>12 DEF Activate
  <2>2. sentinel' \in Sentinels
    BY <2>1 DEF NoSentinel, Sentinels, Unset
  <2>3. VersionsInv'
    BY <1>1, <2>1, <2>2
  <2>4. RowsBounded(active', build) /\ RowsBounded(staging', build)
    BY <1>0, <2>1 DEF BoundedInv
  <2> QED BY <2>1, <2>3, <2>4 DEF BoundedInv
<1>13. CASE UNCHANGED reVars
  BY <1>13 DEF reVars, BoundedInv, VersionsInv, NpzBounded
<1> QED BY <1>5, <1>6, <1>7, <1>8, <1>9, <1>10, <1>11, <1>12, <1>13 DEF ReNext

\* embed_paper, ingest_one_paper and run_re_embed: every variable keeps its type,
\* and no row, vector or target is of an embedder, and no chunk of a chunker,
\* above those of the deployed build.
THEOREM ReEmbedTypeCorrect == ReSpec => []ReTypeOK
<1>1. ReInit => StampInv /\ BoundedInv
  <2> SUFFICES ASSUME ReInit PROVE StampInv /\ BoundedInv
    OBVIOUS
  <2>1. VersionsInv
    BY ReEmbedAssumption
       DEF ReInit, VersionsInv, NpzBounded, AtRest, BuildsUpTo, NoNpz, NoSentinel, Sentinels, Unset
  <2>2. RowsBounded(active, build) /\ RowsBounded(staging, build)
    BY DEF ReInit, RowsBounded, NoRows
  <2> QED BY <2>1, <2>2, StampInitially DEF BoundedInv
<1>2. StampInv /\ BoundedInv /\ [ReNext]_reVars => StampInv' /\ BoundedInv'
  BY StampKeeps, BoundedKeeps
<1>3. StampInv /\ BoundedInv => ReTypeOK
  <2> SUFFICES ASSUME StampInv, BoundedInv PROVE ReTypeOK
    OBVIOUS
  <2>1. build \in Builds
    <3>1. build \in [chunker : Nat, embedder : Nat] /\ 1 .. bumps + 1 \subseteq Generations
      BY ReEmbedAssumption DEF StampInv, ReTypes, BoundedInv, VersionsInv, Generations
    <3> QED BY <3>1 DEF BoundedInv, VersionsInv, Builds
  <2>2. ChunkIds = IdsUpTo(build) /\ Vectors = RowsUpTo(build)
    BY DEF ChunkIds, IdsUpTo, Vectors, RowsUpTo
  <2> QED BY <2>1, <2>2 DEF StampInv, ReTypes, WorkRecs, BoundedInv, VersionsInv, NpzBounded,
               Sentinels, RowsBounded, IdsIn, ReTypeOK
<1> QED BY <1>1, <1>2, <1>3, PTL DEF ReSpec

--------------------------------------------------------------------------------
(* Cutover *)

Places == Corpora \cup {Empty}

\* What the operator has removed, or never was, waits nowhere.
Gone(c) == c \in removed \cup {Empty}

CutTyped ==
    /\ dir \in [Dirs -> Places] /\ aside \in [Operations -> Places]
    /\ prior \in [Corpora -> Places] /\ tool \in [Operations -> ToolStates]
    /\ built \in Corpora
    /\ \A d \in Dirs : dir[d] <= built
    /\ \A p \in Operations : aside[p] <= built

\* The empty active path is a lock: whoever has emptied it is alone between two
\* renames, and what it put aside is where it put it.
AloneInv == \A p \in Operations :
    /\ tool[p] \in Between =>
         /\ dir["active"] = Empty /\ aside[p] # Empty
         /\ \A q \in Operations \ {p} : tool[q] \notin Between
    /\ tool[p] \in {"promote", "unswap"} => dir["rollback"] = aside[p]

\* A staging corpus stands nowhere else.
FreshInv == dir["staging"] # Empty =>
    /\ dir["staging"] \notin {dir["active"], dir["rollback"]}
    /\ \A p \in Operations : tool[p] \in Between => aside[p] # dir["staging"]

\* What waits at the rollback path has no lifeline of its own left, and what is
\* being discarded leaves its own there.
SpentInv ==
    /\ dir["rollback"] # Empty => Gone(prior[dir["rollback"]])
    /\ \A p \in Operations : tool[p] \in {"reinstate", "unback"} =>
          Gone(prior[aside[p]]) \/ dir["rollback"] = prior[aside[p]]

CutInv == CutTyped /\ AloneInv /\ FreshInv /\ SpentInv /\ ActiveServed /\ LifelineKept

LEMMA CutInitially == ASSUME CutInit PROVE CutInv
<1>1. /\ dir = [d \in Dirs |-> IF d = "active" THEN 1 ELSE Empty] /\ built = 1
      /\ aside = [p \in Operations |-> Empty] /\ prior = [c \in Corpora |-> Empty]
      /\ tool = [p \in Operations |-> "idle"]
  BY DEF CutInit
<1>2. "idle" \in ToolStates /\ "idle" \notin Between /\ 1 \in Corpora
  BY CutBoundsAssumption DEF ToolStates, Between, Corpora
<1>3. \A p \in Operations : tool[p] \notin Between
                            /\ tool[p] \notin {"promote", "unswap", "reinstate", "unback"}
  BY <1>1, <1>2
<1>4. CutTyped
  BY <1>1, <1>2 DEF CutTyped, Places, Empty
<1>5. AloneInv
  BY <1>3 DEF AloneInv
<1>6. dir["staging"] = Empty /\ dir["rollback"] = Empty /\ dir["active"] = 1
  BY <1>1 DEF Dirs
<1>7. prior[1] = Empty
  BY <1>1, <1>2
<1> QED BY <1>3, <1>4, <1>5, <1>6, <1>7 DEF CutInv, FreshInv, SpentInv, Gone, ActiveServed,
           LifelineKept, Empty

\* A step of one operation that neither enters nor leaves the gap of two
\* renames, and renames nothing.
LEMMA QuietStep ==
    ASSUME CutInv, NEW p \in Operations, tool[p] \notin Between,
           NEW s \in ToolStates \ Between, ToolTo(p, s),
           UNCHANGED <<dir, aside, prior, built, torn, removed>>
    PROVE  CutInv'
<1> USE DEF CutInv
<1>1. tool' = [tool EXCEPT ![p] = s] /\ tool \in [Operations -> ToolStates]
  BY DEF ToolTo, CutTyped
<1>2. \A q \in Operations : tool'[q] \in Between <=> tool[q] \in Between
  BY <1>1
<1>3. \A q \in Operations : tool'[q] \in Between => tool'[q] = tool[q]
  BY <1>1
<1>4. {"promote", "unswap"} \subseteq Between /\ {"reinstate", "unback"} \subseteq Between
  BY DEF Between
<1>5. CutTyped'
  BY <1>1 DEF CutTyped
<1>6. AloneInv'
  BY <1>2, <1>3, <1>4 DEF AloneInv
<1>7. FreshInv'
  BY <1>2 DEF FreshInv
<1>8. SpentInv'
  BY <1>3, <1>4 DEF SpentInv, Gone
<1>9. ActiveServed' /\ LifelineKept'
  BY <1>2 DEF ActiveServed, LifelineKept
<1> QED BY <1>5, <1>6, <1>7, <1>8, <1>9

\* What goes on around the tool, but for what the operator removes.
LEMMA AroundKeeps ==
    ASSUME CutInv, StartStaging \/ FinishStaging \/ Watchdog \/ ClearQuarantine
    PROVE  CutInv'
<1> USE DEF CutInv
<1>1. UNCHANGED <<aside, tool, torn, prior, removed>>
  BY DEF StartStaging, FinishStaging, Watchdog, ClearQuarantine, Around
<1>2. CASE StartStaging
  <2> DEFINE new == built + 1
  <2>1. /\ built' = new /\ dir' = [dir EXCEPT !["staging"] = new] /\ built < MaxCorpora
    BY <1>2 DEF StartStaging
  <2>2. /\ new \in Corpora /\ new # Empty /\ built < new /\ built \in Nat
        /\ \A c \in Places : c <= built => c # new /\ c <= new
    BY <2>1, CutBoundsAssumption DEF CutTyped, Corpora, Places, Empty
  <2>3. /\ dir'["active"] = dir["active"] /\ dir'["rollback"] = dir["rollback"]
        /\ dir'["staging"] = new
    BY <2>1 DEF CutTyped, Dirs
  <2> HIDE DEF new
  <2>4. CutTyped'
    <3>1. dir' \in [Dirs -> Places]
      BY <2>1, <2>2 DEF CutTyped, Places
    <3>2. \A d \in Dirs : dir'[d] = new \/ dir'[d] = dir[d]
      BY <2>1 DEF CutTyped
    <3>3. new <= new
      BY <2>2 DEF Corpora
    <3>4. \A d \in Dirs : dir'[d] <= new
      BY <2>2, <3>2, <3>3 DEF CutTyped
    <3>5. \A p \in Operations : aside[p] <= new
      BY <2>2 DEF CutTyped
    <3> QED BY <1>1, <2>1, <2>2, <3>1, <3>4, <3>5 DEF CutTyped
  <2>5. FreshInv'
    <3>1. dir["active"] # new /\ dir["rollback"] # new /\ \A p \in Operations : aside[p] # new
      BY <2>2 DEF CutTyped, Dirs
    <3> QED BY <1>1, <2>3, <3>1 DEF FreshInv
  <2> QED BY <1>1, <2>3, <2>4, <2>5 DEF AloneInv, SpentInv, Gone, ActiveServed, LifelineKept
<1>3. CASE FinishStaging \/ Watchdog \/ ClearQuarantine
  <2>1. UNCHANGED <<dir, built>>
    BY <1>3 DEF FinishStaging, Watchdog, ClearQuarantine
  <2> QED BY <1>1, <2>1 DEF CutTyped, AloneInv, FreshInv, SpentInv, Gone, ActiveServed, LifelineKept
<1> QED BY <1>2, <1>3

\* The operator removes a lifeline: what it was one for can no more be undone.
LEMMA RemoveKeeps == ASSUME CutInv, RemoveRollback PROVE CutInv'
<1> USE DEF CutInv
<1>1. /\ dir["rollback"] # Empty /\ \A p \in Operations : tool[p] \notin Between
      /\ dir' = [dir EXCEPT !["rollback"] = Empty]
      /\ removed' = removed \cup {dir["rollback"]}
      /\ UNCHANGED <<aside, tool, torn, prior, built>>
  BY DEF RemoveRollback, Around, files, Between
<1>2. /\ dir'["active"] = dir["active"] /\ dir'["rollback"] = Empty
      /\ dir'["staging"] = dir["staging"]
  BY <1>1 DEF CutTyped, Dirs
<1>3. Empty <= built /\ Empty \in Places
  BY DEF CutTyped, Empty, Places, Corpora
<1>4. CutTyped'
  BY <1>1, <1>3 DEF CutTyped
<1>5. LifelineKept'
  BY <1>1, <1>2 DEF LifelineKept
<1>6. \A p \in Operations : tool[p] \notin {"promote", "unswap", "reinstate", "unback"}
  BY <1>1 DEF Between
<1>7. AloneInv' /\ FreshInv' /\ SpentInv' /\ ActiveServed'
  BY <1>1, <1>2, <1>6 DEF AloneInv, FreshInv, SpentInv, Gone, ActiveServed
<1> QED BY <1>4, <1>5, <1>7

\* The first rename of a swap: the active corpus goes to the empty rollback
\* path, so its own lifeline had gone before.
LEMMA RetireKeeps == ASSUME CutInv, NEW p \in Operations, Retire(p) PROVE CutInv'
<1> USE DEF CutInv
<1>1. /\ tool[p] = "retire" /\ "retire" \notin Between
      /\ UNCHANGED <<built, torn, prior, removed>>
  BY DEF Retire, files, history, Between
<1>2. CASE CanRename("active", "rollback")
  <2> DEFINE x == dir["active"]
  <2>1. /\ x # Empty /\ dir["rollback"] = Empty
        /\ dir' = [dir EXCEPT !["active"] = Empty, !["rollback"] = x]
        /\ aside' = [aside EXCEPT ![p] = x] /\ tool' = [tool EXCEPT ![p] = "promote"]
    BY <1>2 DEF Retire, CanRename, Rename, ToolTo
  <2>2. x \in Corpora /\ x <= built /\ Empty <= built /\ Empty \in Places
    BY <2>1 DEF CutTyped, Dirs, Places, Empty, Corpora
  <2>3. /\ dir'["active"] = Empty /\ dir'["rollback"] = x /\ dir'["staging"] = dir["staging"]
    BY <2>1 DEF CutTyped, Dirs
  <2>4. x # dir["staging"] /\ Gone(prior[x])
    BY <2>1 DEF FreshInv, LifelineKept, Gone
  <2> HIDE DEF x
  <2>5. \A q \in Operations : tool[q] \notin Between
    BY <2>1 DEF AloneInv, x
  <2>6. "promote" \in Between /\ "promote" \in ToolStates
    BY DEF Between, ToolStates
  <2>7. /\ \A q \in Operations : tool'[q] = IF q = p THEN "promote" ELSE tool[q]
        /\ \A q \in Operations : aside'[q] = IF q = p THEN x ELSE aside[q]
    BY <2>1 DEF CutTyped
  <2>8. CutTyped'
    BY <1>1, <2>1, <2>2, <2>6 DEF CutTyped, Places
  <2>9. AloneInv'
    BY <2>1, <2>3, <2>5, <2>6, <2>7 DEF AloneInv, Between
  <2>10. FreshInv'
    BY <2>3, <2>4, <2>5, <2>7 DEF FreshInv
  <2>11. SpentInv'
    BY <1>1, <2>3, <2>4, <2>5, <2>7 DEF SpentInv, Gone, Between
  <2>12. ActiveServed' /\ LifelineKept'
    BY <2>3, <2>6, <2>7 DEF ActiveServed, LifelineKept
  <2> QED BY <2>8, <2>9, <2>10, <2>11, <2>12
<1>3. CASE ~CanRename("active", "rollback")
  <2>1. ToolTo(p, "refuse") /\ UNCHANGED <<dir, aside>>
    BY <1>3 DEF Retire
  <2>2. "refuse" \in ToolStates \ Between
    BY DEF ToolStates, Between
  <2> QED BY <1>1, <2>1, <2>2, QuietStep
<1> QED BY <1>2, <1>3

\* Whoever is between two renames moves on to another such place.
LEMMA GapGoesOn ==
    ASSUME CutInv, NEW p \in Operations, NEW s \in {"unswap", "unback"},
           tool[p] = IF s = "unswap" THEN "promote" ELSE "reinstate", ToolTo(p, s),
           UNCHANGED <<dir, aside, prior, built, torn, removed>>
    PROVE  CutInv'
<1> USE DEF CutInv
<1>1. \/ tool[p] = "promote" /\ tool' = [tool EXCEPT ![p] = "unswap"]
      \/ tool[p] = "reinstate" /\ tool' = [tool EXCEPT ![p] = "unback"]
  BY DEF ToolTo
<1>2. {"promote", "unswap", "reinstate", "unback"} = Between /\ Between \subseteq ToolStates
  BY DEF Between, ToolStates
<1>3. CutTyped'
  BY <1>1, <1>2 DEF CutTyped
<1>4. \A q \in Operations : /\ tool'[q] \in Between <=> tool[q] \in Between
                            /\ tool'[q] \in {"promote", "unswap"} => tool[q] \in {"promote", "unswap"}
                            /\ tool'[q] \in {"reinstate", "unback"} => tool[q] \in {"reinstate", "unback"}
  BY <1>1, <1>2 DEF CutTyped
<1>5. AloneInv' /\ FreshInv' /\ SpentInv' /\ ActiveServed' /\ LifelineKept'
  BY <1>4 DEF AloneInv, FreshInv, SpentInv, Gone, ActiveServed, LifelineKept
<1> QED BY <1>3, <1>5

\* Somebody fills the active path and leaves the gap: nobody is left in it.
LEMMA GapLeft ==
    ASSUME CutInv, NEW p \in Operations, tool[p] \in Between,
           NEW s \in ToolStates \ Between, tool' = [tool EXCEPT ![p] = s]
    PROVE  /\ \A q \in Operations : tool'[q] \notin Between
           /\ tool' \in [Operations -> ToolStates]
<1>1. \A q \in Operations \ {p} : tool[q] \notin Between
  BY DEF CutInv, AloneInv
<1> QED BY <1>1 DEF CutInv, CutTyped

\* When nobody is in the gap, what is left to see is what is where.
LEMMA Settled ==
    ASSUME CutTyped', \A q \in Operations : tool'[q] \notin Between,
           dir'["active"] # Empty,
           dir'["staging"] # Empty => dir'["staging"] \notin {dir'["active"], dir'["rollback"]},
           dir'["rollback"] # Empty => Gone(prior[dir["rollback"]])',
           Gone(prior[dir["active"]])' \/ dir'["rollback"] = prior'[dir'["active"]]
    PROVE  CutInv'
<1>1. \A q \in Operations : tool'[q] \notin {"promote", "unswap", "reinstate", "unback"}
  BY DEF Between
<1> QED BY <1>1 DEF CutInv, AloneInv, FreshInv, SpentInv, ActiveServed, LifelineKept, Gone

LEMMA PromoteKeeps == ASSUME CutInv, NEW p \in Operations, Promote(p) PROVE CutInv'
<1> USE DEF CutInv
<1>1. tool[p] = "promote" /\ UNCHANGED <<aside, built, torn, removed>>
  BY DEF Promote, files
<1>2. CASE /\ CanRename("staging", "active") /\ Rename("staging", "active")
           /\ ToolTo(p, "poll") /\ prior' = [prior EXCEPT ![dir["staging"]] = aside[p]]
  <2> DEFINE x == dir["staging"]
  <2>1. /\ x # Empty /\ dir["active"] = Empty
        /\ dir' = [dir EXCEPT !["staging"] = Empty, !["active"] = x]
        /\ tool' = [tool EXCEPT ![p] = "poll"] /\ prior' = [prior EXCEPT ![x] = aside[p]]
    BY <1>2 DEF CanRename, Rename, ToolTo
  <2>2. x \in Corpora /\ x <= built /\ Empty <= built /\ Empty \in Places
    BY <2>1 DEF CutTyped, Dirs, Places, Empty, Corpora
  <2>3. /\ dir'["active"] = x /\ dir'["rollback"] = dir["rollback"] /\ dir'["staging"] = Empty
    BY <2>1 DEF CutTyped, Dirs
  <2>4. x # dir["rollback"] /\ dir["rollback"] = aside[p] /\ aside[p] # Empty
    BY <1>1, <2>1 DEF FreshInv, AloneInv, Between
  <2>5. dir["rollback"] \in Corpora
    BY <2>4 DEF CutTyped, Places, Dirs
  <2> HIDE DEF x
  <2>6. "poll" \in ToolStates \ Between /\ tool[p] \in Between
    BY <1>1 DEF ToolStates, Between
  <2>7. (\A q \in Operations : tool'[q] \notin Between) /\ tool' \in [Operations -> ToolStates]
    BY <2>1, <2>6, GapLeft
  <2>8. CutTyped'
    BY <1>1, <2>1, <2>2, <2>7 DEF CutTyped, Places
  <2>9. prior'[x] = aside[p] /\ prior'[dir["rollback"]] = prior[dir["rollback"]]
    BY <2>1, <2>2, <2>4, <2>5 DEF CutTyped
  <2>10. Gone(prior[dir["rollback"]])'
    BY <1>1, <2>3, <2>4, <2>9 DEF SpentInv, Gone
  <2> QED BY <2>1, <2>3, <2>4, <2>7, <2>8, <2>9, <2>10, Settled
<1>3. CASE ToolTo(p, "unswap") /\ UNCHANGED <<dir, prior>>
  BY <1>1, <1>3, GapGoesOn
<1> QED BY <1>2, <1>3 DEF Promote

\* The corpus that was put aside comes back from the rollback path.
LEMMA Returned ==
    ASSUME CutInv, NEW p \in Operations, tool[p] \in Between, NEW s \in ToolStates \ Between,
           dir["rollback"] # Empty, dir["active"] = Empty, Rename("rollback", "active"),
           ToolTo(p, s), UNCHANGED <<aside, prior, built, removed>>
    PROVE  CutInv'
<1> USE DEF CutInv
<1> DEFINE x == dir["rollback"]
<1>1. x \in Corpora /\ x <= built /\ Empty <= built /\ Empty \in Places
  BY DEF CutTyped, Dirs, Places, Empty, Corpora
<1>2. /\ dir' = [dir EXCEPT !["rollback"] = Empty, !["active"] = x]
      /\ tool' = [tool EXCEPT ![p] = s]
  BY DEF Rename, ToolTo
<1>3. /\ dir'["active"] = x /\ dir'["rollback"] = Empty /\ dir'["staging"] = dir["staging"]
  BY <1>2 DEF CutTyped, Dirs
<1>4. (\A q \in Operations : tool'[q] \notin Between) /\ tool' \in [Operations -> ToolStates]
  BY <1>2, GapLeft
<1>5. CutTyped'
  BY <1>1, <1>2, <1>4 DEF CutTyped, Places
<1>6. Gone(prior[x]) /\ (dir["staging"] # Empty => dir["staging"] # x)
  BY DEF SpentInv, FreshInv
<1>7. Gone(prior[dir["active"]])'
  BY <1>3, <1>6 DEF Gone
<1> QED BY <1>1, <1>3, <1>4, <1>5, <1>6, <1>7, Settled DEF Empty, Corpora

LEMMA UnswapKeeps == ASSUME CutInv, NEW p \in Operations, Unswap(p) PROVE CutInv'
<1>1. /\ tool[p] = "unswap" /\ ToolTo(p, "refuse")
      /\ UNCHANGED <<aside, prior, built, removed>>
  BY DEF Unswap, files, history
<1>2. "refuse" \in ToolStates \ Between /\ tool[p] \in Between
  BY <1>1 DEF ToolStates, Between
<1>3. dir["active"] = Empty /\ dir["rollback"] # Empty
  BY <1>1, <1>2 DEF CutInv, AloneInv
<1>4. Rename("rollback", "active")
  BY <1>3 DEF Unswap, CanRename
<1> QED BY <1>1, <1>2, <1>3, <1>4, Returned

\* The first step of a rollback: the active corpus is put aside.
LEMMA DiscardKeeps == ASSUME CutInv, NEW p \in Operations, Discard(p) PROVE CutInv'
<1> USE DEF CutInv
<1>1. /\ tool[p] = "discard" /\ "discard" \notin Between
      /\ UNCHANGED <<built, torn, prior, removed>>
  BY DEF Discard, files, history, Between
<1>2. CASE dir["active"] # Empty
  <2> DEFINE x == dir["active"]
  <2>1. /\ dir' = [dir EXCEPT !["active"] = Empty]
        /\ aside' = [aside EXCEPT ![p] = x] /\ tool' = [tool EXCEPT ![p] = "reinstate"]
    BY <1>2 DEF Discard, ToolTo
  <2>2. x \in Corpora /\ x <= built /\ Empty <= built /\ Empty \in Places
    BY <1>2 DEF CutTyped, Dirs, Places, Empty, Corpora
  <2>3. /\ dir'["active"] = Empty /\ dir'["rollback"] = dir["rollback"]
        /\ dir'["staging"] = dir["staging"]
    BY <2>1 DEF CutTyped, Dirs
  <2>4. /\ dir["staging"] # Empty => dir["staging"] \notin {x, dir["rollback"], Empty}
        /\ Gone(prior[x]) \/ dir["rollback"] = prior[x]
        /\ x # Empty
    BY <1>2 DEF FreshInv, LifelineKept, Gone
  <2>5. \A q \in Operations : tool[q] \notin Between
    BY <1>2 DEF AloneInv
  <2> HIDE DEF x
  <2>6. "reinstate" \in Between /\ "reinstate" \in ToolStates
    BY DEF Between, ToolStates
  <2>7. /\ \A q \in Operations : tool'[q] = IF q = p THEN "reinstate" ELSE tool[q]
        /\ \A q \in Operations : aside'[q] = IF q = p THEN x ELSE aside[q]
    BY <2>1 DEF CutTyped
  <2>8. CutTyped'
    BY <1>1, <2>1, <2>2, <2>6 DEF CutTyped, Places
  <2>9. AloneInv'
    BY <2>3, <2>4, <2>5, <2>6, <2>7 DEF AloneInv, Between
  <2>10. FreshInv'
    BY <2>3, <2>4, <2>5, <2>7 DEF FreshInv
  <2>11. SpentInv'
    BY <1>1, <2>3, <2>4, <2>5, <2>7 DEF SpentInv, Gone, Between
  <2>12. ActiveServed' /\ LifelineKept'
    BY <2>3, <2>6, <2>7 DEF ActiveServed, LifelineKept
  <2> QED BY <2>8, <2>9, <2>10, <2>11, <2>12
<1>3. CASE dir["active"] = Empty
  <2>1. ToolTo(p, "refuse") /\ UNCHANGED <<dir, aside>>
    BY <1>3 DEF Discard
  <2>2. "refuse" \in ToolStates \ Between
    BY DEF ToolStates, Between
  <2> QED BY <1>1, <2>1, <2>2, QuietStep
<1> QED BY <1>2, <1>3

LEMMA ReinstateKeeps == ASSUME CutInv, NEW p \in Operations, Reinstate(p) PROVE CutInv'
<1>1. tool[p] = "reinstate" /\ UNCHANGED <<aside, built, torn, prior, removed>>
  BY DEF Reinstate, files, history
<1>2. CASE CanRename("rollback", "active") /\ Rename("rollback", "active") /\ ToolTo(p, "ok")
  <2>1. "ok" \in ToolStates \ Between /\ tool[p] \in Between
    BY <1>1 DEF ToolStates, Between
  <2> QED BY <1>1, <1>2, <2>1, Returned DEF CanRename
<1>3. CASE ToolTo(p, "unback") /\ UNCHANGED dir
  BY <1>1, <1>3, GapGoesOn
<1> QED BY <1>2, <1>3 DEF Reinstate

\* The rollback that failed puts back what it had put aside.
LEMMA UnbackKeeps == ASSUME CutInv, NEW p \in Operations, Unback(p) PROVE CutInv'
<1> USE DEF CutInv
<1> DEFINE x == aside[p]
<1>1. /\ tool[p] = "unback" /\ tool' = [tool EXCEPT ![p] = "refuse"]
      /\ UNCHANGED <<aside, built, torn, prior, removed>>
  BY DEF Unback, ToolTo, files, history
<1>2. "refuse" \in ToolStates \ Between /\ tool[p] \in Between
  BY <1>1 DEF ToolStates, Between
<1>3. dir["active"] = Empty /\ x # Empty
  BY <1>2 DEF AloneInv
<1>4. dir' = [dir EXCEPT !["active"] = x]
  BY <1>3 DEF Unback
<1>5. x \in Corpora /\ x <= built
  BY <1>3 DEF CutTyped, Places
<1>6. /\ Gone(prior[x]) \/ dir["rollback"] = prior[x]
      /\ dir["staging"] # Empty => dir["staging"] # x
      /\ dir["staging"] # Empty => dir["staging"] # dir["rollback"]
      /\ dir["rollback"] # Empty => Gone(prior[dir["rollback"]])
  BY <1>1, <1>2 DEF SpentInv, FreshInv
<1> HIDE DEF x
<1>7. /\ dir'["active"] = x /\ dir'["rollback"] = dir["rollback"]
      /\ dir'["staging"] = dir["staging"]
  BY <1>4 DEF CutTyped, Dirs
<1>8. (\A q \in Operations : tool'[q] \notin Between) /\ tool' \in [Operations -> ToolStates]
  BY <1>1, <1>2, GapLeft
<1>9. CutTyped'
  BY <1>1, <1>4, <1>5, <1>8 DEF CutTyped, Places
<1>10. /\ dir'["rollback"] # Empty => Gone(prior[dir["rollback"]])'
       /\ Gone(prior[dir["active"]])' \/ dir'["rollback"] = prior'[dir'["active"]]
  BY <1>1, <1>6, <1>7 DEF Gone
<1> QED BY <1>3, <1>6, <1>7, <1>8, <1>9, <1>10, Settled

\* A kill between two renames leaves the gap behind, and the history says so.
LEMMA KillKeeps == ASSUME CutInv, NEW p \in Operations, KillTool(p) PROVE CutInv'
<1> USE DEF CutInv
<1>1. /\ tool' = [tool EXCEPT ![p] = "killed"] /\ torn' = (torn \/ tool[p] \in Between)
      /\ UNCHANGED <<dir, aside, prior, built, removed>>
  BY DEF KillTool, ToolTo, files
<1>2. "killed" \in ToolStates \ Between
  BY DEF ToolStates, Between
<1>3. \A q \in Operations : q # p => tool'[q] = tool[q]
  BY <1>1 DEF CutTyped
<1>4. tool'[p] = "killed" /\ tool'[p] \notin {"promote", "unswap", "reinstate", "unback"}
  BY <1>1 DEF CutTyped
<1>5. CutTyped'
  BY <1>1, <1>2 DEF CutTyped
<1>6. ActiveServed'
  BY <1>1, <1>3 DEF ActiveServed
<1>7. AloneInv' /\ FreshInv' /\ SpentInv' /\ LifelineKept'
  BY <1>1, <1>2, <1>3, <1>4 DEF AloneInv, FreshInv, SpentInv, Gone, LifelineKept
<1> QED BY <1>5, <1>6, <1>7

\* The steps that read, decide and end.
LEMMA DecideKeeps ==
    ASSUME CutInv, NEW p \in Operations,
           \/ \E command \in {"embed", "back"} : StartTool(p, command)
           \/ CheckReEmbed(p) \/ CheckWatchdog(p) \/ Refuse(p) \/ SwapChecks(p)
           \/ PollReadyz(p) \/ PostWatchdog(p) \/ Verdict(p) \/ BackChecks(p)
    PROVE  CutInv'
<1>1. UNCHANGED <<dir, aside, prior, built, torn, removed>>
  BY DEF StartTool, CheckReEmbed, CheckWatchdog, Refuse, SwapChecks, PollReadyz, PostWatchdog,
         Verdict, BackChecks, ToolRest, files, history
<1>2. /\ tool[p] \notin Between
      /\ \E s \in {"embed", "back", "refuse", "watchdog", "swap", "failed", "retire",
                   "evaluate", "ok", "verdict", "discard"} : ToolTo(p, s)
  BY DEF StartTool, CheckReEmbed, CheckWatchdog, Refuse, SwapChecks, PollReadyz, PostWatchdog,
         Verdict, BackChecks, Between
<1>3. {"embed", "back", "refuse", "watchdog", "swap", "failed", "retire", "evaluate", "ok",
       "verdict", "discard"} \subseteq ToolStates \ Between
  BY DEF ToolStates, Between
<1> QED BY <1>1, <1>2, <1>3, QuietStep

LEMMA CutStep == ASSUME CutInv, [CutNext]_cutVars PROVE CutInv'
<1>1. CASE UNCHANGED cutVars
  BY <1>1 DEF cutVars, CutInv, CutTyped, AloneInv, FreshInv, SpentInv, Gone, ActiveServed,
     LifelineKept
<1>2. ASSUME NEW p \in Operations, ToolStep(p) PROVE CutInv'
  BY <1>2, DecideKeeps, RetireKeeps, PromoteKeeps, UnswapKeeps, DiscardKeeps, ReinstateKeeps,
     UnbackKeeps, KillKeeps DEF ToolStep
<1> QED BY <1>1, <1>2, AroundKeeps, RemoveKeeps DEF CutNext

\* perform_directory_swap and perform_rollback: the daemon always finds a corpus
\* at the active path but between two renames or after a kill there, for any
\* number of cutovers and rollbacks that run into one another.
THEOREM ActiveServedHolds == CutSpec => []ActiveServed
<1>1. CutInit => CutInv
  BY CutInitially
<1>2. CutInv /\ [CutNext]_cutVars => CutInv'
  BY CutStep
<1>3. CutInv => ActiveServed
  BY DEF CutInv
<1> QED BY <1>1, <1>2, <1>3, PTL DEF CutSpec

\* perform_directory_swap: what a promoted corpus replaced waits at the rollback
\* path until the operator removes it.
THEOREM LifelineKeptHolds == CutSpec => []LifelineKept
<1>1. CutInit => CutInv
  BY CutInitially
<1>2. CutInv /\ [CutNext]_cutVars => CutInv'
  BY CutStep
<1>3. CutInv => LifelineKept
  BY DEF CutInv
<1> QED BY <1>1, <1>2, <1>3, PTL DEF CutSpec

\* The two renames of a swap or a rollback are a critical section without a
\* lock: whoever has emptied the active path is the only one between two renames.
THEOREM AloneInTheGap == CutSpec => []AloneInv
<1>1. CutInit => CutInv
  BY CutInitially
<1>2. CutInv /\ [CutNext]_cutVars => CutInv'
  BY CutStep
<1>3. CutInv => AloneInv
  BY DEF CutInv
<1> QED BY <1>1, <1>2, <1>3, PTL DEF CutSpec

--------------------------------------------------------------------------------
(* The files that the tools and the watchdog read and write. *)

Scores == [version : 1 .. MaxNumbers, floor : BOOLEAN, alert : BOOLEAN]

FilesTyped ==
    /\ version \in [Corpora -> 1 .. MaxNumbers] /\ good \subseteq Corpora
    /\ embedding \in BOOLEAN /\ flag \in BOOLEAN /\ torn \in BOOLEAN
    /\ reports \in Seq(Scores) /\ Len(reports) <= MaxReports
    /\ slips \in 0 .. MaxSlips /\ removed \subseteq Corpora

\* A run of the watchdog adds a report, and at most raises the flag.
LEMMA ScoreTyped ==
    ASSUME CutInv, FilesTyped, NEW d \in Dirs, Score(d)
    PROVE  /\ reports' \in Seq(Scores) /\ Len(reports') <= MaxReports
           /\ flag' \in BOOLEAN
<1> DEFINE c == dir[d]
<1>1. PICK alert \in BOOLEAN :
        /\ reports' = Append(reports, [version |-> version[c], floor |-> c \in good, alert |-> alert])
        /\ flag' = (flag \/ alert)
  BY DEF Score
<1>2. c \in Corpora /\ Len(reports) < MaxReports
  BY DEF Score, CutInv, CutTyped, Places
<1>3. [version |-> version[c], floor |-> c \in good, alert |-> alert] \in Scores
  <2>1. version[c] \in 1 .. MaxNumbers /\ (c \in good) \in BOOLEAN
    BY <1>2 DEF FilesTyped
  <2> HIDE DEF c
  <2> QED BY <2>1 DEF Scores
<1>4. reports \in Seq(Scores) /\ Len(reports) \in Nat /\ MaxReports \in Nat
  BY CutBoundsAssumption DEF FilesTyped
<1> HIDE DEF Scores, c
<1>5. reports' \in Seq(Scores) /\ Len(reports') = Len(reports) + 1
  BY <1>1, <1>3, <1>4
<1>6. flag' \in BOOLEAN
  BY <1>1 DEF FilesTyped
<1> QED BY <1>2, <1>4, <1>5, <1>6

LEMMA FilesInitially == ASSUME CutInit PROVE FilesTyped
<1>1. /\ version \in [Corpora -> 1 .. MaxNumbers] /\ good \subseteq Corpora
      /\ embedding = FALSE /\ flag = FALSE /\ torn = FALSE /\ reports = <<>>
      /\ slips = 0 /\ removed = {}
  BY DEF CutInit
<1>2. reports \in Seq(Scores) /\ Len(reports) <= MaxReports /\ slips \in 0 .. MaxSlips
  BY <1>1, CutBoundsAssumption
<1> QED BY <1>1, <1>2 DEF FilesTyped

LEMMA FilesStep == ASSUME CutInv, FilesTyped, [CutNext]_cutVars PROVE FilesTyped'
<1> DEFINE Same == UNCHANGED <<version, good, embedding, reports, flag, torn, slips, removed>>
<1>1. ASSUME Same PROVE FilesTyped'
  BY <1>1 DEF FilesTyped
<1>2. ASSUME NEW d \in Dirs, Score(d), UNCHANGED <<version, good, embedding, torn, slips, removed>>
      PROVE  FilesTyped'
  BY <1>2, ScoreTyped DEF FilesTyped
<1>3. ASSUME slips < MaxSlips, slips' = slips + 1,
             UNCHANGED <<version, good, embedding, reports, flag, torn, removed>>
      PROVE  FilesTyped'
  BY <1>3, CutBoundsAssumption DEF FilesTyped
<1>4. CASE UNCHANGED cutVars
  BY <1>1, <1>4 DEF cutVars
<1>5. CASE StartStaging \/ FinishStaging \/ ClearQuarantine
  BY <1>5 DEF StartStaging, FinishStaging, ClearQuarantine, Around, FilesTyped
<1>6. CASE Watchdog
  BY <1>2, <1>6 DEF Watchdog, Around, Dirs
<1>7. CASE RemoveRollback
  <2>1. dir["rollback"] \in Corpora
    BY <1>7 DEF RemoveRollback, CutInv, CutTyped, Dirs, Places
  <2> QED BY <1>7, <2>1 DEF RemoveRollback, Around, files, FilesTyped
<1>8. ASSUME NEW p \in Operations, ToolStep(p) PROVE FilesTyped'
  <2>1. CASE PostWatchdog(p)
    <3>1. CASE Score("active")
      BY <1>2, <2>1, <3>1 DEF PostWatchdog, Dirs
    <3>2. CASE UNCHANGED <<reports, flag>>
      BY <1>1, <2>1, <3>2 DEF PostWatchdog
    <3> QED BY <2>1, <3>1, <3>2 DEF PostWatchdog
  <2>2. CASE Promote(p) \/ Reinstate(p)
    BY <1>1, <1>3, <2>2 DEF Promote, Reinstate, Slips, files, history
  <2>3. CASE KillTool(p)
    BY <2>3 DEF KillTool, files, FilesTyped
  <2>4. CASE \/ \E command \in {"embed", "back"} : StartTool(p, command)
             \/ CheckReEmbed(p) \/ CheckWatchdog(p) \/ Refuse(p) \/ SwapChecks(p) \/ Retire(p)
             \/ Unswap(p) \/ PollReadyz(p) \/ Verdict(p) \/ BackChecks(p) \/ Discard(p) \/ Unback(p)
    BY <1>1, <2>4 DEF StartTool, CheckReEmbed, CheckWatchdog, Refuse, SwapChecks, Retire, Unswap,
       PollReadyz, Verdict, BackChecks, Discard, Unback, ToolRest, files, history
  <2> QED BY <1>8, <2>1, <2>2, <2>3, <2>4 DEF ToolStep
<1> QED BY <1>4, <1>5, <1>6, <1>7, <1>8 DEF CutNext

\* What is at the three paths, in the reports and in the history stays what it
\* should be; that a removed corpus was one rests on the paths' being typed.
THEOREM CutTypeCorrect == CutSpec => []CutTypeOK
<1>1. CutInit => CutInv /\ FilesTyped
  BY CutInitially, FilesInitially
<1>2. CutInv /\ FilesTyped /\ [CutNext]_cutVars => (CutInv /\ FilesTyped)'
  BY CutStep, FilesStep
<1>3. CutInv /\ FilesTyped => CutTypeOK
  BY DEF CutInv, CutTyped, FilesTyped, CutTypeOK, Places
<1> QED BY <1>1, <1>2, <1>3, PTL DEF CutSpec

--------------------------------------------------------------------------------
(* Cutover implements CorpusSwitch *)

\* Who is not built yet has not been served, nor has what is being staged.
OnceInv ==
    /\ \A c \in Corpora : c > built => prior[c] = Empty
    /\ dir["staging"] # Empty => dir["staging"] \notin used

\* The corpus that is served or put aside is not the one that waits.
ApartInv ==
    /\ dir["active"] # Empty => dir["active"] # dir["rollback"]
    /\ \A p \in Operations : tool[p] \in {"reinstate", "unback"} => aside[p] # dir["rollback"]

SwitchInv == CutInv /\ FilesTyped /\ OnceInv /\ ApartInv

LEMMA SwitchInitially == ASSUME CutInit PROVE SwitchInv /\ Switch!Init
<1>1. /\ dir = [d \in Dirs |-> IF d = "active" THEN 1 ELSE Empty] /\ built = 1
      /\ prior = [c \in Corpora |-> Empty] /\ tool = [p \in Operations |-> "idle"]
      /\ torn = FALSE /\ removed = {}
  BY DEF CutInit
<1>2. dir["active"] = 1 /\ dir["staging"] = Empty /\ dir["rollback"] = Empty
  BY <1>1 DEF Dirs
<1>3. \A p \in Operations : tool[p] \notin Between
  BY <1>1 DEF Between
<1>4. used = {1} /\ taken = [p \in Operations |-> Empty]
  BY <1>1, <1>3 DEF used, taken
<1>5. OnceInv /\ ApartInv
  BY <1>1, <1>2, <1>3 DEF OnceInv, ApartInv, Between, Empty
<1> QED BY <1>1, <1>2, <1>4, <1>5, CutInitially, FilesInitially DEF SwitchInv, Switch!Init

\* A step that concerns at most p moves what p holds, and no other.
LEMMA HoldsNow ==
    ASSUME NEW p \in Operations,
           \A q \in Operations \ {p} : /\ tool'[q] \in Between <=> tool[q] \in Between
                                       /\ aside'[q] = aside[q]
    PROVE  taken' = [taken EXCEPT ![p] = IF tool'[p] \in Between THEN aside'[p] ELSE Empty]
<1> DEFINE v == IF tool'[p] \in Between THEN aside'[p] ELSE Empty
<1>1. DOMAIN taken = Operations /\ taken' = [q \in Operations |-> taken'[q]]
  BY DEF taken
<1>2. taken'[p] = v
  BY DEF taken
<1>3. \A q \in Operations \ {p} : taken'[q] = taken[q]
  BY DEF taken
<1> HIDE DEF v
<1> QED BY <1>1, <1>2, <1>3 DEF v

\* What p holds while it is between its renames, and that nobody else holds any.
LEMMA Holds ==
    ASSUME CutInv, NEW p \in Operations, tool[p] \in Between
    PROVE  taken[p] = aside[p] /\ taken[p] # Empty /\ dir["active"] = Empty
BY DEF CutInv, AloneInv, taken

LEMMA NobodyHolds ==
    ASSUME \A p \in Operations : tool[p] \notin Between PROVE Switch!Idle
BY DEF Switch!Idle, taken

\* A step that takes and gives nothing is none of the switch.
LEMMA QuietOnes ==
    ASSUME SwitchInv, UNCHANGED <<aside, prior, torn, removed>>,
           \A q \in Operations : /\ tool'[q] \in Between <=> tool[q] \in Between
                                 /\ tool'[q] \in {"reinstate", "unback"}
                                       => tool[q] \in {"reinstate", "unback"},
           dir'["active"] = dir["active"], dir'["rollback"] = dir["rollback"],
           \/ UNCHANGED <<dir, built>>
           \/ /\ built' = built + 1 /\ built \in Nat \ {0} /\ built' \in Corpora
              /\ dir'["staging"] = built'
    PROVE  UNCHANGED Switch!vars /\ OnceInv' /\ ApartInv'
<1>1. UNCHANGED <<taken, used>>
  BY DEF taken, used
<1>2. ApartInv'
  BY DEF SwitchInv, ApartInv
<1>3. OnceInv'
  <2>1. CASE UNCHANGED <<dir, built>>
    BY <1>1, <2>1 DEF SwitchInv, OnceInv
  <2>2. CASE /\ built' = built + 1 /\ built \in Nat \ {0} /\ built' \in Corpora
             /\ dir'["staging"] = built'
    <3>1. prior[built'] = Empty /\ built' # 1
      BY <2>2 DEF SwitchInv, OnceInv, Corpora
    <3>2. built' \notin used
      BY <3>1 DEF used
    <3>3. \A c \in Corpora : c > built' => prior[c] = Empty
      BY <2>2 DEF SwitchInv, OnceInv, Corpora
    <3> QED BY <1>1, <2>2, <3>2, <3>3 DEF OnceInv
  <2> QED BY <2>1, <2>2
<1> QED BY <1>1, <1>2, <1>3 DEF Switch!vars

LEMMA RetireMaps ==
    ASSUME SwitchInv, NEW p \in Operations, Retire(p)
    PROVE  [Switch!Next]_(Switch!vars) /\ OnceInv' /\ ApartInv'
<1> USE DEF SwitchInv
<1>1. /\ tool[p] = "retire" /\ "retire" \notin Between
      /\ UNCHANGED <<built, torn, prior, removed>> /\ tool \in [Operations -> ToolStates]
  BY DEF Retire, files, history, Between, CutInv, CutTyped
<1>2. CASE CanRename("active", "rollback")
  <2> DEFINE x == dir["active"]
  <2>1. /\ x # Empty /\ dir["rollback"] = Empty
        /\ dir' = [dir EXCEPT !["active"] = Empty, !["rollback"] = x]
        /\ aside' = [aside EXCEPT ![p] = x] /\ tool' = [tool EXCEPT ![p] = "promote"]
    BY <1>2 DEF Retire, CanRename, Rename, ToolTo
  <2>2. /\ dir'["active"] = Empty /\ dir'["rollback"] = x /\ dir'["staging"] = dir["staging"]
        /\ aside \in [Operations -> Places]
    BY <2>1 DEF CutInv, CutTyped, Dirs
  <2>3. \A q \in Operations : tool[q] \notin Between
    BY <2>1 DEF CutInv, AloneInv
  <2> HIDE DEF x
  <2>4. /\ tool'[p] = "promote" /\ aside'[p] = x
        /\ \A q \in Operations \ {p} : tool'[q] = tool[q] /\ aside'[q] = aside[q]
    BY <1>1, <2>1, <2>2
  <2>5. taken' = [taken EXCEPT ![p] = x]
    <3>1. "promote" \in Between
      BY DEF Between
    <3> QED BY <2>4, <3>1, HoldsNow
  <2>6. UNCHANGED used
    BY <1>1 DEF used
  <2>7. Switch!Retire(p)
    BY <1>1, <2>1, <2>2, <2>3, <2>5, <2>6, NobodyHolds DEF Switch!Retire, Switch!Take, x
  <2>8. OnceInv' /\ ApartInv'
    BY <1>1, <2>2, <2>3, <2>4, <2>6 DEF OnceInv, ApartInv, Between
  <2> QED BY <2>7, <2>8 DEF Switch!Next
<1>3. CASE ~CanRename("active", "rollback")
  <2>1. tool' = [tool EXCEPT ![p] = "refuse"] /\ UNCHANGED <<dir, aside>>
    BY <1>3 DEF Retire, ToolTo
  <2> QED BY <1>1, <2>1, QuietOnes DEF Between
<1> QED BY <1>2, <1>3

LEMMA DiscardMaps ==
    ASSUME SwitchInv, NEW p \in Operations, Discard(p)
    PROVE  [Switch!Next]_(Switch!vars) /\ OnceInv' /\ ApartInv'
<1> USE DEF SwitchInv
<1>1. /\ tool[p] = "discard" /\ "discard" \notin Between
      /\ UNCHANGED <<built, torn, prior, removed>> /\ tool \in [Operations -> ToolStates]
  BY DEF Discard, files, history, Between, CutInv, CutTyped
<1>2. CASE dir["active"] # Empty
  <2> DEFINE x == dir["active"]
  <2>1. /\ dir' = [dir EXCEPT !["active"] = Empty]
        /\ aside' = [aside EXCEPT ![p] = x] /\ tool' = [tool EXCEPT ![p] = "reinstate"]
    BY <1>2 DEF Discard, ToolTo
  <2>2. /\ dir'["active"] = Empty /\ dir'["rollback"] = dir["rollback"]
        /\ dir'["staging"] = dir["staging"] /\ aside \in [Operations -> Places]
    BY <2>1 DEF CutInv, CutTyped, Dirs
  <2>3. \A q \in Operations : tool[q] \notin Between
    BY <1>2 DEF CutInv, AloneInv
  <2>4. x # Empty /\ x # dir["rollback"]
    BY <1>2 DEF ApartInv
  <2> HIDE DEF x
  <2>5. /\ tool'[p] = "reinstate" /\ aside'[p] = x
        /\ \A q \in Operations \ {p} : tool'[q] = tool[q] /\ aside'[q] = aside[q]
    BY <1>1, <2>1, <2>2
  <2>6. taken' = [taken EXCEPT ![p] = x]
    <3>1. "reinstate" \in Between
      BY DEF Between
    <3> QED BY <2>5, <3>1, HoldsNow
  <2>7. UNCHANGED used
    BY <1>1 DEF used
  <2>8. Switch!Discard(p)
    BY <1>1, <1>2, <2>2, <2>3, <2>6, <2>7, NobodyHolds DEF Switch!Discard, Switch!Take, x
  <2>9. OnceInv' /\ ApartInv'
    BY <1>1, <2>2, <2>3, <2>4, <2>5, <2>7 DEF OnceInv, ApartInv, Between
  <2> QED BY <2>8, <2>9 DEF Switch!Next
<1>3. CASE dir["active"] = Empty
  <2>1. tool' = [tool EXCEPT ![p] = "refuse"] /\ UNCHANGED <<dir, aside>>
    BY <1>3 DEF Discard, ToolTo
  <2> QED BY <1>1, <2>1, QuietOnes DEF Between
<1> QED BY <1>2, <1>3

\* Who leaves the gap holds nothing any more, and what is served is another
\* corpus than the one that waits.
LEMMA LetsGo ==
    ASSUME SwitchInv, NEW p \in Operations, tool[p] \in Between,
           NEW s \in ToolStates \ Between, tool' = [tool EXCEPT ![p] = s], UNCHANGED aside
    PROVE  /\ taken' = [taken EXCEPT ![p] = Empty]
           /\ \A q \in Operations : tool'[q] \notin {"reinstate", "unback"}
<1>1. tool \in [Operations -> ToolStates]
  BY DEF SwitchInv, CutInv, CutTyped
<1>2. \A q \in Operations \ {p} : tool'[q] = tool[q]
  BY <1>1
<1>3. tool'[p] = s
  BY <1>1
<1>4. taken' = [taken EXCEPT ![p] = IF tool'[p] \in Between THEN aside'[p] ELSE Empty]
  BY <1>2, HoldsNow
<1>5. \A q \in Operations : tool'[q] \notin Between
  BY GapLeft DEF SwitchInv
<1> QED BY <1>3, <1>4, <1>5 DEF Between

LEMMA PromoteMaps ==
    ASSUME SwitchInv, NEW p \in Operations, Promote(p)
    PROVE  [Switch!Next]_(Switch!vars) /\ OnceInv' /\ ApartInv'
<1> USE DEF SwitchInv
<1>1. tool[p] = "promote" /\ tool[p] \in Between /\ UNCHANGED <<aside, built, torn, removed>>
  BY DEF Promote, files, Between
<1>2. CASE /\ CanRename("staging", "active") /\ Rename("staging", "active")
           /\ ToolTo(p, "poll") /\ prior' = [prior EXCEPT ![dir["staging"]] = aside[p]]
  <2> DEFINE x == dir["staging"]
  <2>1. /\ x # Empty /\ dir["active"] = Empty
        /\ dir' = [dir EXCEPT !["staging"] = Empty, !["active"] = x]
        /\ tool' = [tool EXCEPT ![p] = "poll"] /\ prior' = [prior EXCEPT ![x] = aside[p]]
    BY <1>2 DEF CanRename, Rename, ToolTo
  <2>2. x \in Corpora /\ x <= built /\ x \notin used
    BY <2>1 DEF CutInv, CutTyped, Dirs, Places, Empty, Corpora, OnceInv
  <2>3. /\ dir'["active"] = x /\ dir'["rollback"] = dir["rollback"] /\ dir'["staging"] = Empty
    BY <2>1 DEF CutInv, CutTyped, Dirs
  <2>4. x # dir["rollback"] /\ dir["rollback"] = aside[p] /\ aside[p] # Empty
    BY <1>1, <2>1 DEF CutInv, FreshInv, AloneInv
  <2>5. prior \in [Corpora -> Places] /\ taken[p] = aside[p]
    BY <1>1, Holds DEF CutInv, CutTyped
  <2> HIDE DEF x
  <2>6. /\ taken' = [taken EXCEPT ![p] = Empty]
        /\ \A q \in Operations : tool'[q] \notin {"reinstate", "unback"}
    <3>1. "poll" \in ToolStates \ Between
      BY DEF ToolStates, Between
    <3> QED BY <1>1, <2>1, <3>1, LetsGo
  <2>7. used' = used \cup {x}
    BY <2>1, <2>2, <2>4, <2>5 DEF used
  <2>8. Switch!Promote(p, x)
    BY <1>1, <2>1, <2>2, <2>3, <2>4, <2>5, <2>6, <2>7 DEF Switch!Promote, Switch!Serve
  <2>9. \A c \in Corpora : c > built' => prior'[c] = Empty
    <3>1. built \in Nat /\ x \in Nat
      BY <2>2 DEF CutInv, CutTyped, Corpora
    <3>2. ASSUME NEW c \in Corpora, c > built PROVE c # x /\ prior[c] = Empty
      BY <2>2, <3>1, <3>2 DEF OnceInv, Corpora
    <3> QED BY <1>1, <2>1, <2>5, <3>2
  <2>10. OnceInv' /\ ApartInv'
    BY <2>3, <2>4, <2>6, <2>9 DEF OnceInv, ApartInv
  <2> QED BY <2>2, <2>8, <2>10 DEF Switch!Next
<1>3. CASE ToolTo(p, "unswap") /\ UNCHANGED <<dir, prior>>
  <2>1. tool' = [tool EXCEPT ![p] = "unswap"] /\ tool \in [Operations -> ToolStates]
    BY <1>3 DEF ToolTo, CutInv, CutTyped
  <2>2. \A q \in Operations : /\ tool'[q] \in Between <=> tool[q] \in Between
                              /\ tool'[q] \in {"reinstate", "unback"}
                                    => tool[q] \in {"reinstate", "unback"}
    BY <1>1, <2>1 DEF Between
  <2> QED BY <1>1, <1>3, <2>2, QuietOnes
<1> QED BY <1>2, <1>3 DEF Promote

\* The corpus that waits is served.
LEMMA RestoreMaps ==
    ASSUME SwitchInv, NEW p \in Operations, tool[p] \in Between, NEW s \in ToolStates \ Between,
           dir["rollback"] # Empty, dir["active"] = Empty, Rename("rollback", "active"),
           ToolTo(p, s), UNCHANGED <<aside, prior, built, torn, removed>>
    PROVE  Switch!Next /\ OnceInv' /\ ApartInv'
<1> USE DEF SwitchInv
<1> DEFINE x == dir["rollback"]
<1>1. /\ dir' = [dir EXCEPT !["rollback"] = Empty, !["active"] = x]
      /\ tool' = [tool EXCEPT ![p] = s]
  BY DEF Rename, ToolTo
<1>2. /\ dir'["active"] = x /\ dir'["rollback"] = Empty /\ dir'["staging"] = dir["staging"]
  BY <1>1 DEF CutInv, CutTyped, Dirs
<1>3. /\ taken' = [taken EXCEPT ![p] = Empty]
      /\ \A q \in Operations : tool'[q] \notin {"reinstate", "unback"}
  BY <1>1, LetsGo
<1>4. UNCHANGED used
  BY DEF used
<1>5. Switch!Restore(p)
  BY <1>2, <1>3, <1>4, Holds DEF Switch!Restore, Switch!Serve
<1>6. OnceInv' /\ ApartInv'
  BY <1>2, <1>3, <1>4 DEF OnceInv, ApartInv
<1> QED BY <1>5, <1>6 DEF Switch!Next

LEMMA UnswapMaps ==
    ASSUME SwitchInv, NEW p \in Operations, Unswap(p)
    PROVE  Switch!Next /\ OnceInv' /\ ApartInv'
<1>1. /\ tool[p] = "unswap" /\ ToolTo(p, "refuse")
      /\ UNCHANGED <<aside, prior, built, torn, removed>>
  BY DEF Unswap, files, history
<1>2. "refuse" \in ToolStates \ Between /\ tool[p] \in Between
  BY <1>1 DEF ToolStates, Between
<1>3. dir["active"] = Empty /\ dir["rollback"] # Empty
  BY <1>1, <1>2 DEF SwitchInv, CutInv, AloneInv
<1>4. Rename("rollback", "active")
  BY <1>3 DEF Unswap, CanRename
<1> QED BY <1>1, <1>2, <1>3, <1>4, RestoreMaps

LEMMA ReinstateMaps ==
    ASSUME SwitchInv, NEW p \in Operations, Reinstate(p)
    PROVE  [Switch!Next]_(Switch!vars) /\ OnceInv' /\ ApartInv'
<1>1. /\ tool[p] = "reinstate" /\ tool[p] \in Between
      /\ UNCHANGED <<aside, built, torn, prior, removed>>
  BY DEF Reinstate, files, history, Between
<1>2. CASE CanRename("rollback", "active") /\ Rename("rollback", "active") /\ ToolTo(p, "ok")
  <2>1. "ok" \in ToolStates \ Between
    BY DEF ToolStates, Between
  <2> QED BY <1>1, <1>2, <2>1, RestoreMaps DEF CanRename
<1>3. CASE ToolTo(p, "unback") /\ UNCHANGED dir
  <2>1. tool' = [tool EXCEPT ![p] = "unback"] /\ tool \in [Operations -> ToolStates]
    BY <1>3 DEF ToolTo, SwitchInv, CutInv, CutTyped
  <2>2. \A q \in Operations : /\ tool'[q] \in Between <=> tool[q] \in Between
                              /\ tool'[q] \in {"reinstate", "unback"}
                                    => tool[q] \in {"reinstate", "unback"}
    BY <1>1, <2>1 DEF Between
  <2> QED BY <1>1, <1>3, <2>2, QuietOnes
<1> QED BY <1>2, <1>3 DEF Reinstate

LEMMA UnbackMaps ==
    ASSUME SwitchInv, NEW p \in Operations, Unback(p)
    PROVE  Switch!Next /\ OnceInv' /\ ApartInv'
<1> USE DEF SwitchInv
<1> DEFINE x == aside[p]
<1>1. /\ tool[p] = "unback" /\ tool' = [tool EXCEPT ![p] = "refuse"]
      /\ UNCHANGED <<aside, built, torn, prior, removed>>
  BY DEF Unback, ToolTo, files, history
<1>2. "refuse" \in ToolStates \ Between /\ tool[p] \in Between
  BY <1>1 DEF ToolStates, Between
<1>3. dir["active"] = Empty /\ x # Empty /\ taken[p] = x /\ x # dir["rollback"]
  BY <1>1, <1>2, Holds DEF ApartInv
<1>4. dir' = [dir EXCEPT !["active"] = x]
  BY <1>3 DEF Unback
<1> HIDE DEF x
<1>5. /\ dir'["active"] = x /\ dir'["rollback"] = dir["rollback"]
      /\ dir'["staging"] = dir["staging"]
  BY <1>4 DEF CutInv, CutTyped, Dirs
<1>6. /\ taken' = [taken EXCEPT ![p] = Empty]
      /\ \A q \in Operations : tool'[q] \notin {"reinstate", "unback"}
  BY <1>1, <1>2, LetsGo
<1>7. UNCHANGED used
  BY <1>1 DEF used
<1>8. Switch!PutBack(p)
  BY <1>1, <1>3, <1>5, <1>6, <1>7 DEF Switch!PutBack, Switch!Serve
<1>9. OnceInv' /\ ApartInv'
  BY <1>1, <1>3, <1>5, <1>6, <1>7 DEF OnceInv, ApartInv
<1> QED BY <1>8, <1>9 DEF Switch!Next

LEMMA KillMaps ==
    ASSUME SwitchInv, NEW p \in Operations, KillTool(p)
    PROVE  [Switch!Next]_(Switch!vars) /\ OnceInv' /\ ApartInv'
<1> USE DEF SwitchInv
<1>1. /\ tool' = [tool EXCEPT ![p] = "killed"] /\ torn' = (torn \/ tool[p] \in Between)
      /\ UNCHANGED <<dir, aside, prior, built, removed>> /\ tool \in [Operations -> ToolStates]
  BY DEF KillTool, ToolTo, files, CutInv, CutTyped
<1>2. "killed" \in ToolStates \ Between
  BY DEF ToolStates, Between
<1>3. UNCHANGED used
  BY <1>1 DEF used
<1>4. CASE tool[p] \in Between
  <2>1. /\ taken' = [taken EXCEPT ![p] = Empty]
        /\ \A q \in Operations : tool'[q] \notin {"reinstate", "unback"}
    BY <1>1, <1>2, <1>4, LetsGo
  <2>2. taken[p] # Empty
    BY <1>4, Holds
  <2>3. Switch!Die(p)
    BY <1>1, <1>3, <1>4, <2>1, <2>2 DEF Switch!Die
  <2>4. OnceInv' /\ ApartInv'
    BY <1>1, <1>3, <2>1 DEF OnceInv, ApartInv
  <2> QED BY <2>3, <2>4 DEF Switch!Next
<1>5. CASE tool[p] \notin Between
  <2>1. tool'[p] = "killed" /\ \A q \in Operations \ {p} : tool'[q] = tool[q]
    BY <1>1
  <2>2. \A q \in Operations : /\ tool'[q] \in Between <=> tool[q] \in Between
                              /\ tool'[q] \in {"reinstate", "unback"}
                                    => tool[q] \in {"reinstate", "unback"}
    BY <1>2, <1>5, <2>1
  <2>3. torn' = torn
    BY <1>1, <1>5 DEF SwitchInv, FilesTyped
  <2> QED BY <1>1, <2>2, <2>3, QuietOnes
<1> QED BY <1>4, <1>5

LEMMA RemoveMaps == ASSUME SwitchInv, RemoveRollback PROVE Switch!Next /\ OnceInv' /\ ApartInv'
<1> USE DEF SwitchInv
<1>1. /\ dir["rollback"] # Empty /\ \A p \in Operations : tool[p] \notin Between
      /\ dir' = [dir EXCEPT !["rollback"] = Empty]
      /\ removed' = removed \cup {dir["rollback"]}
      /\ UNCHANGED <<aside, tool, torn, prior, built>>
  BY DEF RemoveRollback, Around, files, Between
<1>2. /\ dir'["active"] = dir["active"] /\ dir'["rollback"] = Empty
      /\ dir'["staging"] = dir["staging"]
  BY <1>1 DEF CutInv, CutTyped, Dirs
<1>3. UNCHANGED <<taken, used>>
  BY <1>1 DEF taken, used
<1>4. Switch!Remove
  BY <1>1, <1>2, <1>3, NobodyHolds DEF Switch!Remove
<1>5. OnceInv' /\ ApartInv'
  BY <1>1, <1>2, <1>3 DEF OnceInv, ApartInv, Between
<1> QED BY <1>4, <1>5 DEF Switch!Next

\* The steps that read, decide and end, and what goes on around the tool.
LEMMA OthersMap ==
    ASSUME SwitchInv,
           \/ \E p \in Operations :
                 \/ \E command \in {"embed", "back"} : StartTool(p, command)
                 \/ CheckReEmbed(p) \/ CheckWatchdog(p) \/ Refuse(p) \/ SwapChecks(p)
                 \/ PollReadyz(p) \/ PostWatchdog(p) \/ Verdict(p) \/ BackChecks(p)
           \/ StartStaging \/ FinishStaging \/ Watchdog \/ ClearQuarantine
    PROVE  UNCHANGED Switch!vars /\ OnceInv' /\ ApartInv'
<1>1. ASSUME NEW p \in Operations,
             \/ \E command \in {"embed", "back"} : StartTool(p, command)
             \/ CheckReEmbed(p) \/ CheckWatchdog(p) \/ Refuse(p) \/ SwapChecks(p)
             \/ PollReadyz(p) \/ PostWatchdog(p) \/ Verdict(p) \/ BackChecks(p)
      PROVE  UNCHANGED Switch!vars /\ OnceInv' /\ ApartInv'
  <2>1. UNCHANGED <<dir, aside, prior, built, torn, removed>>
    BY <1>1 DEF StartTool, CheckReEmbed, CheckWatchdog, Refuse, SwapChecks, PollReadyz,
       PostWatchdog, Verdict, BackChecks, ToolRest, files, history
  <2>2. /\ tool[p] \notin Between
        /\ \E s \in {"embed", "back", "refuse", "watchdog", "swap", "failed", "retire",
                     "evaluate", "ok", "verdict", "discard"} : ToolTo(p, s)
    BY <1>1 DEF StartTool, CheckReEmbed, CheckWatchdog, Refuse, SwapChecks, PollReadyz,
       PostWatchdog, Verdict, BackChecks, Between
  <2>3. PICK s \in {"embed", "back", "refuse", "watchdog", "swap", "failed", "retire",
                    "evaluate", "ok", "verdict", "discard"} : tool' = [tool EXCEPT ![p] = s]
    BY <2>2 DEF ToolTo
  <2>4. s \notin Between /\ tool \in [Operations -> ToolStates]
    BY DEF Between, SwitchInv, CutInv, CutTyped
  <2>5. \A q \in Operations : /\ tool'[q] \in Between <=> tool[q] \in Between
                              /\ tool'[q] \in {"reinstate", "unback"}
                                    => tool[q] \in {"reinstate", "unback"}
    BY <2>2, <2>3, <2>4 DEF Between
  <2> QED BY <2>1, <2>5, QuietOnes
<1>2. ASSUME StartStaging \/ FinishStaging \/ Watchdog \/ ClearQuarantine
      PROVE  UNCHANGED Switch!vars /\ OnceInv' /\ ApartInv'
  <2>1. UNCHANGED <<aside, tool, torn, prior, removed>>
    BY <1>2 DEF StartStaging, FinishStaging, Watchdog, ClearQuarantine, Around
  <2>2. CASE StartStaging
    <3>1. /\ built' = built + 1 /\ dir' = [dir EXCEPT !["staging"] = built + 1]
          /\ built < MaxCorpora
      BY <2>2 DEF StartStaging
    <3>2. built \in Nat \ {0} /\ built' \in Corpora
      BY <3>1, CutBoundsAssumption DEF SwitchInv, CutInv, CutTyped, Corpora
    <3>3. /\ dir'["active"] = dir["active"] /\ dir'["rollback"] = dir["rollback"]
          /\ dir'["staging"] = built'
      BY <3>1 DEF SwitchInv, CutInv, CutTyped, Dirs
    <3> QED BY <2>1, <3>1, <3>2, <3>3, QuietOnes
  <2>3. CASE FinishStaging \/ Watchdog \/ ClearQuarantine
    <3>1. UNCHANGED <<dir, built>>
      BY <2>3 DEF FinishStaging, Watchdog, ClearQuarantine
    <3> QED BY <2>1, <3>1, QuietOnes
  <2> QED BY <1>2, <2>2, <2>3
<1> QED BY <1>1, <1>2

LEMMA SwitchStep ==
    ASSUME SwitchInv, [CutNext]_cutVars
    PROVE  SwitchInv' /\ [Switch!Next]_(Switch!vars)
<1>1. CutInv' /\ FilesTyped'
  <2>1. CutInv /\ FilesTyped
    BY DEF SwitchInv
  <2> QED BY <2>1, CutStep, FilesStep
<1>2. CASE UNCHANGED cutVars
  <2>1. UNCHANGED <<dir, aside, prior, built, torn, removed, tool>>
    BY <1>2 DEF cutVars
  <2> QED BY <1>1, <2>1, QuietOnes DEF SwitchInv
<1>3. ASSUME NEW p \in Operations, ToolStep(p)
      PROVE  [Switch!Next]_(Switch!vars) /\ OnceInv' /\ ApartInv'
  BY <1>3, OthersMap, RetireMaps, PromoteMaps, UnswapMaps, DiscardMaps, ReinstateMaps,
     UnbackMaps, KillMaps DEF ToolStep
<1>4. ASSUME StartStaging \/ FinishStaging \/ Watchdog \/ ClearQuarantine
      PROVE  [Switch!Next]_(Switch!vars) /\ OnceInv' /\ ApartInv'
  BY <1>4, OthersMap
<1>5. ASSUME RemoveRollback PROVE [Switch!Next]_(Switch!vars) /\ OnceInv' /\ ApartInv'
  BY <1>5, RemoveMaps
<1> QED BY <1>1, <1>2, <1>3, <1>4, <1>5 DEF CutNext, SwitchInv

\* perform_directory_swap and perform_rollback are a switch, however many runs of
\* them collide, slip and die: one hand at a time holds the served corpus, a new
\* one replaces it only with the old one kept, and no corpus is promoted twice.
THEOREM CutoverImplementsSwitch == CutSpec => ImplementsSwitch
<1>1. CutInit => SwitchInv /\ Switch!Init
  BY SwitchInitially
<1>2. SwitchInv /\ [CutNext]_cutVars => SwitchInv' /\ [Switch!Next]_(Switch!vars)
  BY SwitchStep
<1> QED BY <1>1, <1>2, PTL DEF CutSpec, ImplementsSwitch, Switch!Spec

--------------------------------------------------------------------------------
(* OaiDelta *)

TokensOrNone   == ResumptionTokens \cup {NoResumption}
Harvests == [at : {"rest", "list", "feed", "shown"}, from : Days, until : Days, dry : BOOLEAN,
             set : 0 .. MaxSets, token : TokensOrNone, resume : TokensOrNone, records : Seq(Records)]

DeltaTyped ==
    /\ today \in Days \ {0}
    /\ onDisk \in [date : 0 .. today + 1 \cup {NoDate}, token : TokensOrNone]
    /\ harvest \in Harvests
    /\ harvest.at = "list" => harvest.set \in DeltaSets
    /\ since \in Days \cup {NoDate}

\* A record that nobody has to list any more.
Excused(r) == r \in fed \cup forfeit

\* A record of the window that the run has not listed yet.
ToList(r) ==
    /\ harvest.at = "list"
    /\ \/ r.set > harvest.set
       \/ /\ r.set = harvest.set
          /\ \/ r.day > Listing.day
             \/ r.day = Listing.day /\ r.page >= Listing.page

\* Nothing is owed to the past: a run that resumes a listing begins so.
Gapless == \A r \in Span(since, MaxDay) : r.day < today => Excused(r)

\* Outside the window of the run nothing is owed, and within it what is owed has
\* been listed or is going to be.
HarvestInv == harvest.at # "rest" =>
    \A r \in Span(since, MaxDay) :
        /\ r.day < harvest.from => Excused(r)
        /\ r.day > harvest.until /\ r.day < today => Excused(r)
        /\ r.day > harvest.until /\ onDisk.date # NoDate /\ r.day < onDisk.date => Excused(r)
        /\ r.day \in harvest.from .. harvest.until /\ r.day < today =>
               \/ Excused(r) \/ ToList(r)
               \/ \E i \in DOMAIN harvest.records : harvest.records[i] = r

\* A listing that does not begin with the window only continues one whose
\* records are not owed.
TokenInv == harvest.at = "list" =>
    \/ Gapless
    \/ /\ harvest.resume = NoResumption
       /\ \/ harvest.token = NoResumption
          \/ harvest.token.set = harvest.set /\ harvest.token.until = harvest.until

DeltaInv == DeltaTyped /\ HarvestInv /\ TokenInv /\ FedOrForfeit

LEMMA TokensThere == /\ NoResumption \in TokensOrNone
                     /\ \A t \in ResumptionTokens : t # NoResumption /\ t.set \in DeltaSets
                     /\ \A t \in TokensOrNone : t # NoResumption => t \in ResumptionTokens
                     /\ NoResumption.set = 0
  BY DeltaAssumption DEF TokensOrNone, ResumptionTokens, NoResumption, DeltaSets

LEMMA DeltaInitially == ASSUME DeltaInit PROVE DeltaInv
<1> USE DeltaAssumption, TokensThere DEF DeltaInit
<1>1. Resting \in Harvests
  BY DEF Resting, Harvests, Days
<1>2. DeltaTyped
  <2>1. onDisk \in [date : 0 .. today + 1 \cup {NoDate}, token : TokensOrNone]
    OBVIOUS
  <2> QED BY <1>1, <2>1 DEF DeltaTyped, Resting, Days
<1> QED BY <1>2 DEF DeltaInv, HarvestInv, TokenInv, FedOrForfeit, Resting

\* What the state file says is in the past of the run that reads it.
LEMMA ResumeIsPast ==
    ASSUME DeltaTyped
    PROVE  /\ ResumeDate \in 0 .. today /\ Yesterday \in 0 .. today /\ 0 .. today \subseteq Days
           /\ ResumeToken \in TokensOrNone /\ (ResumeToken # NoResumption => onDisk.date = today)
           /\ onDisk.date # NoDate => ResumeDate <= onDisk.date
           /\ onDisk.date = NoDate => ResumeDate = Yesterday
           /\ Yesterday + 1 = today
<1> USE DeltaAssumption DEF DeltaTyped, Days
<1>1. Yesterday \in 0 .. today /\ 0 .. today \subseteq Days /\ Yesterday + 1 = today
  BY DEF Yesterday
<1>2. ResumeToken \in TokensOrNone
  BY TokensThere DEF ResumeToken
<1>3. ResumeToken # NoResumption => onDisk.date = today
  BY DEF ResumeToken
<1>4. ResumeDate \in 0 .. today
  BY <1>1 DEF ResumeDate
<1>5. onDisk.date # NoDate => ResumeDate <= onDisk.date
  BY <1>1 DEF ResumeDate, Yesterday
<1>6. onDisk.date = NoDate => ResumeDate = Yesterday
  BY DEF ResumeDate, NoDate
<1> QED BY <1>1, <1>2, <1>3, <1>4, <1>5, <1>6

LEMMA StartKeeps ==
    ASSUME DeltaInv, NEW asked \in BOOLEAN, NEW from \in {ResumeDate, Yesterday},
           NEW until \in {Yesterday, today}, NEW dry \in BOOLEAN,
           asked \/ (from = ResumeDate /\ until = Yesterday),
           StartRun(asked, from, until, dry)
    PROVE  DeltaInv'
<1> USE DeltaAssumption DEF DeltaInv
<1>1. /\ harvest.at = "rest" /\ from <= until /\ UNCHANGED <<today, onDisk, fed>>
      /\ since' = IF onDisk.date = NoDate THEN from ELSE since
      /\ forfeit' = IF asked THEN forfeit \cup (Span(0, Yesterday) \ Span(from, until))
                    ELSE forfeit
  BY DEF StartRun
<1>2. /\ harvest'.at = "list" /\ harvest'.from = from /\ harvest'.until = until
      /\ harvest'.dry = dry /\ harvest'.set = 1 /\ harvest'.records = <<>>
      /\ harvest'.token = TokenFor(1, ResumeToken) /\ harvest'.resume = Without(1, ResumeToken)
  BY DEF StartRun, Resting
<1>3. /\ ResumeDate \in 0 .. today /\ Yesterday \in 0 .. today /\ 0 .. today \subseteq Days
      /\ ResumeToken \in TokensOrNone /\ (ResumeToken # NoResumption => onDisk.date = today)
      /\ onDisk.date # NoDate => ResumeDate <= onDisk.date
      /\ onDisk.date = NoDate => ResumeDate = Yesterday
      /\ Yesterday + 1 = today
  BY ResumeIsPast
<1>4. TokenFor(1, ResumeToken) \in TokensOrNone /\ Without(1, ResumeToken) \in TokensOrNone
  BY <1>3, TokensThere DEF TokenFor, Without
<1>5. from \in Days /\ until \in Days /\ from \in 0 .. today /\ today \in Nat
  BY <1>3 DEF DeltaTyped, Days
<1>6. harvest' \in Harvests
  <2>1. harvest' = [at |-> "list", from |-> from, until |-> until, dry |-> dry, set |-> 1,
                    token |-> TokenFor(1, ResumeToken), resume |-> Without(1, ResumeToken),
                    records |-> <<>>]
    BY DEF StartRun, Resting
  <2>2. 1 \in 0 .. MaxSets /\ <<>> \in Seq(Records)
    OBVIOUS
  <2> QED BY <1>4, <1>5, <2>1, <2>2 DEF Harvests
<1>7. DeltaTyped'
  BY <1>1, <1>2, <1>5, <1>6 DEF DeltaTyped, DeltaSets
<1>8. \A r \in Records : Excused(r) => Excused(r)'
  BY <1>1 DEF Excused
<1>9. \A r \in Span(since', MaxDay) :
         /\ r \in Records /\ r.day \in Nat
         /\ onDisk.date # NoDate => r \in Span(since, MaxDay)
         /\ onDisk.date # NoDate /\ r.day < onDisk.date => Excused(r)'
         /\ onDisk.date = NoDate => r.day >= from
         /\ asked /\ r.day \in 0 .. Yesterday /\ r.day \notin from .. until => Excused(r)'
  BY <1>1, <1>5, <1>8 DEF Span, FedOrForfeit, Excused, Records, Days
<1>10. ResumeToken # NoResumption => Gapless'
  <2> HAVE ResumeToken # NoResumption
  <2>1. onDisk.date = today /\ onDisk.date # NoDate
    BY <1>3 DEF DeltaTyped, NoDate, Days
  <2> QED BY <1>1, <1>9, <2>1 DEF Gapless
<1>11. ResumeToken = NoResumption =>
          harvest'.token = NoResumption /\ harvest'.resume = NoResumption
  BY <1>2 DEF TokenFor, Without
<1>12. TokenInv'
  BY <1>10, <1>11 DEF TokenInv
<1>13. ASSUME NEW r \in Span(since', MaxDay) PROVE
          /\ r.day < from => Excused(r)'
          /\ r.day > until /\ r.day < today => Excused(r)'
          /\ r.day > until /\ onDisk.date # NoDate /\ r.day < onDisk.date => Excused(r)'
  <2>1. r.day < from => Excused(r)'
    <3> SUFFICES ASSUME r.day < from PROVE Excused(r)'  OBVIOUS
    <3>1. CASE asked
      BY <1>3, <1>5, <1>9, <3>1
    <3>2. CASE ~asked
      BY <1>3, <1>5, <1>9, <3>2 DEF DeltaTyped, Days
    <3> QED BY <3>1, <3>2
  <2>2. ~(r.day > until /\ r.day < today)
    BY <1>3, <1>5, <1>9
  <2> QED BY <1>9, <2>1, <2>2
<1>14. ASSUME NEW r \in Span(since', MaxDay), r.day \in from .. until, r.day < today
       PROVE  Excused(r)' \/ ToList(r)'
  <2>1. CASE ResumeToken # NoResumption
    BY <1>1, <1>10, <1>14, <2>1 DEF Gapless
  <2>2. CASE ResumeToken = NoResumption
    <3>1. Listing'.day = from /\ Listing'.page = 1
      BY <1>2, <1>11, <2>2 DEF Listing
    <3>2. r.page >= 1 /\ r.set >= 1 /\ r.day >= from /\ r.day \in Nat /\ r.set \in Nat
      BY <1>9, <1>14, <1>5 DEF Records, DeltaSets, Span, Days
    <3> QED BY <1>2, <1>5, <3>1, <3>2 DEF ToList
  <2> QED BY <2>1, <2>2
<1>15. HarvestInv'
  BY <1>1, <1>2, <1>13, <1>14 DEF HarvestInv
<1> QED BY <1>2, <1>7, <1>12, <1>15 DEF FedOrForfeit

\* A run that ends without its end forfeits what its state file passed over.
LEMMA DiesKeeps ==
    ASSUME DeltaInv, harvest.at # "rest", Dies, UNCHANGED <<today, onDisk, fed, since>>
    PROVE  DeltaInv'
<1> USE DeltaAssumption DEF DeltaInv
<1>1. /\ harvest' = Resting /\ Resting.at = "rest"
      /\ forfeit' = forfeit \cup {r \in Span(harvest.from, harvest.until) : r.day < onDisk.date}
  BY DEF Dies, Resting
<1>2. Resting \in Harvests
  BY TokensThere DEF Resting, Harvests, Days
<1>3. DeltaTyped'
  BY <1>1, <1>2 DEF DeltaTyped
<1>4. FedOrForfeit'
  <2> SUFFICES ASSUME onDisk.date # NoDate, NEW r \in Span(since, MaxDay), r.day < onDisk.date
               PROVE  r \in fed \cup forfeit'
    BY DEF FedOrForfeit
  <2>1. /\ r \in Records /\ r.day \in Nat /\ harvest.from \in Nat /\ harvest.until \in Nat
    BY DEF Span, Records, Days, DeltaTyped, Harvests
  <2>2. CASE r.day < harvest.from
    BY <1>1, <2>2 DEF HarvestInv, Excused
  <2>3. CASE r.day > harvest.until
    BY <1>1, <2>3 DEF HarvestInv, Excused
  <2>4. CASE r.day \in harvest.from .. harvest.until
    BY <1>1, <2>1, <2>4 DEF Span
  <2> QED BY <2>1, <2>2, <2>3, <2>4
<1> QED BY <1>1, <1>3, <1>4 DEF HarvestInv, TokenInv

LEMMA NextSetIs ==
    ASSUME NEW h \in Harvests, h.at = "list", h.set \in DeltaSets
    PROVE  /\ NextSet(h) \in Harvests
           /\ NextSet(h).from = h.from /\ NextSet(h).until = h.until
           /\ NextSet(h).records = h.records
           /\ h.set < MaxSets => /\ NextSet(h).at = "list" /\ NextSet(h).set = h.set + 1
                                 /\ NextSet(h).token = TokenFor(h.set + 1, h.resume)
                                 /\ NextSet(h).resume = Without(h.set + 1, h.resume)
           /\ h.set >= MaxSets => NextSet(h).at \in {"shown", "feed"}
<1> USE DeltaAssumption
<1>1. CASE h.set < MaxSets
  <2>1. NextSet(h) = [h EXCEPT !.set = h.set + 1, !.token = TokenFor(h.set + 1, h.resume),
                               !.resume = Without(h.set + 1, h.resume)]
    BY <1>1 DEF NextSet
  <2>2. h.set + 1 \in 0 .. MaxSets
    BY <1>1 DEF DeltaSets
  <2>3. TokenFor(h.set + 1, h.resume) \in TokensOrNone /\ Without(h.set + 1, h.resume) \in TokensOrNone
    BY TokensThere DEF TokenFor, Without, Harvests
  <2>4. NextSet(h) \in Harvests
    BY <2>1, <2>2, <2>3 DEF Harvests
  <2> QED BY <1>1, <2>1, <2>4 DEF Harvests, DeltaSets
<1>2. CASE h.set >= MaxSets
  <2> DEFINE end == IF h.dry THEN "shown" ELSE "feed"
  <2>1. NextSet(h) = [h EXCEPT !.at = end, !.token = NoResumption]
    BY <1>2 DEF NextSet, DeltaSets
  <2>2. end \in {"shown", "feed"} /\ NoResumption \in TokensOrNone
    BY TokensThere
  <2> HIDE DEF end
  <2>3. NextSet(h) \in Harvests
    BY <2>1, <2>2 DEF Harvests
  <2> QED BY <1>2, <2>1, <2>2, <2>3 DEF Harvests, DeltaSets
<1> QED BY <1>1, <1>2 DEF DeltaSets

\* What is done with comes under another heading, and nothing is lost with it.
LEMMA LeavesSet ==
    ASSUME DeltaInv, harvest.at = "list", UNCHANGED <<today, since, fed>>,
           forfeit \subseteq forfeit', onDisk' \in [date : {onDisk.date, today}, token : TokensOrNone],
           NEW h \in Harvests, h.at = "list", h.set = harvest.set, h.from = harvest.from,
           h.until = harvest.until, h.resume = harvest.resume,
           \A r \in Span(since, MaxDay) :
               r.day \in harvest.from .. harvest.until /\ r.day < today =>
                  \/ Excused(r)' \/ (ToList(r) /\ r.set > harvest.set)
                  \/ \E i \in DOMAIN h.records : h.records[i] = r,
           harvest' = NextSet(h)
    PROVE  DeltaInv'
<1> USE DeltaAssumption DEF DeltaInv
<1>1. h.set \in DeltaSets
  BY DEF DeltaTyped
<1> DEFINE n == NextSet(h)
<1>2. /\ harvest' \in Harvests
      /\ harvest'.from = harvest.from /\ harvest'.until = harvest.until
      /\ harvest'.records = h.records
      /\ h.set < MaxSets => /\ harvest'.at = "list" /\ harvest'.set = h.set + 1
                            /\ harvest'.token = TokenFor(h.set + 1, h.resume)
                            /\ harvest'.resume = Without(h.set + 1, h.resume)
      /\ h.set >= MaxSets => harvest'.at \in {"shown", "feed"}
  BY <1>1, NextSetIs
<1>3. /\ today \in Nat /\ onDisk'.date \in {onDisk.date, today} /\ onDisk'.token \in TokensOrNone
      /\ h.set \in 1 .. MaxSets
  BY <1>1 DEF DeltaTyped, Days, DeltaSets
<1>4. DeltaTyped'
  <2>1. harvest'.at = "list" => harvest'.set \in DeltaSets
    BY <1>2, <1>3 DEF DeltaSets
  <2>2. onDisk' \in [date : 0 .. today' + 1 \cup {NoDate}, token : TokensOrNone]
    BY <1>3 DEF DeltaTyped
  <2> QED BY <1>2, <2>1, <2>2 DEF DeltaTyped
<1>5. \A r \in Span(since', MaxDay) :
         r \in Span(since, MaxDay) /\ r \in Records /\ (Excused(r) => Excused(r)')
  BY DEF Excused, Span
<1>6. harvest'.at = "list" =>
         Gapless \/ (harvest'.resume = NoResumption /\ harvest'.token = NoResumption)
  BY <1>2, <1>3 DEF TokenInv, TokenFor, Without
<1>7. Gapless => Gapless'
  BY <1>5 DEF Gapless
<1>8. TokenInv'
  BY <1>6, <1>7 DEF TokenInv
<1>9. ASSUME NEW r \in Span(since', MaxDay), r.day \in harvest.from .. harvest.until,
             r.day < today, ~Excused(r)', ~\E i \in DOMAIN h.records : h.records[i] = r
      PROVE  ToList(r)'
  <2>1. r \in Span(since, MaxDay) /\ r.day \in Nat /\ r.set \in 1 .. MaxSets
        /\ r.page \in Nat /\ r.page >= 1
    BY <1>5, <1>9 DEF Span, Records, Days, DeltaSets
  <2>2. r.set > harvest.set
    BY <1>3, <1>9, <2>1
  <2>3. harvest'.at = "list" /\ harvest'.set = h.set + 1
    BY <1>2, <1>3, <2>1, <2>2
  <2>4. ~Gapless
    BY <1>5, <1>9 DEF Gapless
  <2>5. harvest'.token = NoResumption
    BY <1>6, <2>3, <2>4
  <2>6. Listing'.day = harvest.from /\ Listing'.page = 1
    BY <1>2, <2>5 DEF Listing
  <2>7. r.set > harvest'.set \/ (r.set = harvest'.set /\ r.day >= harvest.from)
    BY <1>3, <1>9, <2>1, <2>2, <2>3
  <2>8. harvest.from \in Nat
    BY DEF DeltaTyped, Harvests, Days
  <2> QED BY <2>1, <2>3, <2>6, <2>7, <2>8 DEF ToList
<1>10. ASSUME NEW r \in Span(since', MaxDay)
       PROVE  /\ r.day < harvest.from => Excused(r)'
              /\ r.day > harvest.until /\ r.day < today => Excused(r)'
              /\ r.day > harvest.until /\ onDisk'.date # NoDate /\ r.day < onDisk'.date => Excused(r)'
  BY <1>3, <1>5 DEF HarvestInv
<1>11. HarvestInv'
  BY <1>2, <1>9, <1>10 DEF HarvestInv
<1>12. FedOrForfeit'
  BY <1>2, <1>3 DEF FedOrForfeit
<1> QED BY <1>4, <1>8, <1>11, <1>12

LEMMA GiveUpKeeps == ASSUME DeltaInv, GiveUp PROVE DeltaInv'
<1> USE DeltaAssumption DEF DeltaInv
<1> DEFINE h == [harvest EXCEPT !.token = NoResumption]
<1>1. /\ harvest.at = "list" /\ UNCHANGED <<today, since, fed, onDisk>>
      /\ harvest' = NextSet(h)
      /\ forfeit' = forfeit \cup ({r \in Span(harvest.from, harvest.until) : r.set = harvest.set}
                                   \ {harvest.records[i] : i \in DOMAIN harvest.records})
  BY DEF GiveUp
<1>2. /\ h \in Harvests /\ h.at = harvest.at /\ h.set = harvest.set /\ h.from = harvest.from
      /\ h.until = harvest.until /\ h.resume = harvest.resume /\ h.records = harvest.records
  BY TokensThere DEF DeltaTyped, Harvests
<1>3. onDisk' \in [date : {onDisk.date, today}, token : TokensOrNone]
  BY <1>1 DEF DeltaTyped
<1> HIDE DEF h
<1>4. ASSUME NEW r \in Span(since, MaxDay),
             r.day \in harvest.from .. harvest.until, r.day < today
      PROVE  \/ Excused(r)' \/ (ToList(r) /\ r.set > harvest.set)
             \/ \E i \in DOMAIN h.records : h.records[i] = r
  <2>1. Excused(r) \/ ToList(r) \/ \E i \in DOMAIN harvest.records : harvest.records[i] = r
    BY <1>1, <1>4 DEF HarvestInv
  <2>2. CASE r.set = harvest.set
    <3>1. r \in Span(harvest.from, harvest.until)
      BY <1>4 DEF Span
    <3> QED BY <1>1, <1>2, <2>2, <3>1 DEF Excused
  <2>3. CASE r.set # harvest.set
    <3>1. ToList(r) => r.set > harvest.set
      BY <2>3 DEF ToList
    <3> QED BY <1>1, <1>2, <2>1, <3>1 DEF Excused
  <2> QED BY <2>2, <2>3
<1> QED BY <1>1, <1>2, <1>3, <1>4, LeavesSet

\* The listing is a place in the window, or in one that a token names.
LEMMA ListingIs ==
    ASSUME DeltaTyped, harvest.at = "list"
    PROVE  Listing \in ResumptionTokens
<1>1. CASE harvest.token # NoResumption
  BY <1>1, TokensThere DEF Listing, DeltaTyped, Harvests
<1>2. CASE harvest.token = NoResumption
  <2>1. Listing = [set |-> harvest.set, day |-> harvest.from, page |-> 1,
                   until |-> harvest.until, issued |-> today]
    BY <1>2 DEF Listing
  <2>2. /\ harvest.set \in DeltaSets /\ harvest.from \in Days /\ harvest.until \in Days
        /\ 1 \in 1 .. Pages /\ today \in Days
    BY DeltaAssumption DEF DeltaTyped, Harvests
  <2> QED BY <2>1, <2>2 DEF ResumptionTokens
<1> QED BY <1>1, <1>2

\* A listing goes on to the next page, then to the next day, then ends.
LEMMA FollowingIs ==
    ASSUME NEW l \in ResumptionTokens, today \in Days
    PROVE  /\ Following(l) \in TokensOrNone
           /\ l.page < Pages => /\ Following(l).set = l.set /\ Following(l).until = l.until
                                /\ Following(l).day = l.day /\ Following(l).page = l.page + 1
                                /\ Following(l) # NoResumption
           /\ l.page = Pages /\ l.day < l.until =>
                 /\ Following(l).set = l.set /\ Following(l).until = l.until
                 /\ Following(l).day = l.day + 1 /\ Following(l).page = 1
                 /\ Following(l) # NoResumption
           /\ l.page = Pages /\ l.day >= l.until => Following(l) = NoResumption
<1> USE DeltaAssumption
<1>1. l.page \in 1 .. Pages /\ l.day \in Days /\ l.until \in Days
  BY DEF ResumptionTokens
<1>2. CASE l.page < Pages
  <2>1. Following(l) = [l EXCEPT !.page = l.page + 1, !.issued = today]
    BY <1>2 DEF Following
  <2>2. l.page + 1 \in 1 .. Pages
    BY <1>1, <1>2
  <2>3. Following(l) \in ResumptionTokens
    BY <2>1, <2>2 DEF ResumptionTokens
  <2>4. Following(l).set = l.set /\ Following(l).until = l.until /\ Following(l).day = l.day
        /\ Following(l).page = l.page + 1
    BY <2>1 DEF ResumptionTokens
  <2>5. Following(l) # NoResumption /\ Following(l) \in TokensOrNone
    BY <2>3, TokensThere DEF TokensOrNone
  <2> QED BY <1>1, <1>2, <2>4, <2>5
<1>3. CASE l.page = Pages /\ l.day < l.until
  <2>1. Following(l) = [l EXCEPT !.day = l.day + 1, !.page = 1, !.issued = today]
    BY <1>3 DEF Following
  <2>2. l.day + 1 \in Days /\ 1 \in 1 .. Pages
    BY <1>1, <1>3 DEF Days
  <2>3. Following(l) \in ResumptionTokens
    BY <2>1, <2>2 DEF ResumptionTokens
  <2>4. Following(l).set = l.set /\ Following(l).until = l.until
        /\ Following(l).day = l.day + 1 /\ Following(l).page = 1
    BY <2>1 DEF ResumptionTokens
  <2>5. Following(l) # NoResumption /\ Following(l) \in TokensOrNone
    BY <2>3, TokensThere DEF TokensOrNone
  <2> QED BY <1>1, <1>3, <2>4, <2>5 DEF Days
<1>4. CASE l.page = Pages /\ l.day >= l.until
  <2>1. Following(l) = NoResumption
    BY <1>1, <1>4 DEF Following, Days
  <2> QED BY <1>4, <2>1, <1>1, TokensThere DEF Days
<1> QED BY <1>1, <1>2, <1>3, <1>4 DEF Days

LEMMA PageKeeps == ASSUME DeltaInv, Page PROVE DeltaInv'
<1> USE DeltaAssumption DEF DeltaInv
<1> DEFINE l    == Listing
           next == Following(l)
           kept == IF l.day < today THEN Append(harvest.records, Listed(l)) ELSE harvest.records
           h    == [harvest EXCEPT !.records = kept, !.token = next]
<1>1. /\ harvest.at = "list" /\ UNCHANGED <<today, since, fed, forfeit>>
      /\ onDisk' = [date |-> today, token |-> next]
      /\ harvest' = IF next = NoResumption THEN NextSet(h) ELSE h
  BY DEF Page
<1>2. l \in ResumptionTokens /\ today \in Days /\ today \in Nat
  BY <1>1, ListingIs DEF DeltaTyped, Days
<1>3. Listed(l) \in Records
  BY <1>2 DEF Listed, Records, ResumptionTokens
<1>4. /\ kept \in Seq(Records)
      /\ \A i \in DOMAIN harvest.records : i \in DOMAIN kept /\ kept[i] = harvest.records[i]
      /\ l.day < today => \E i \in DOMAIN kept : kept[i] = Listed(l)
  <2>1. harvest.records \in Seq(Records)
    BY DEF DeltaTyped, Harvests
  <2> DEFINE x == Listed(l)
             q == harvest.records
  <2>2. x \in Records
    BY <1>3
  <2> HIDE DEF x, q
  <2>3. q \in Seq(Records)
    BY <2>1 DEF q
  <2>4. /\ Append(q, x) \in Seq(Records)
        /\ \A i \in DOMAIN q : i \in DOMAIN Append(q, x) /\ Append(q, x)[i] = q[i]
        /\ Len(q) + 1 \in DOMAIN Append(q, x) /\ Append(q, x)[Len(q) + 1] = x
    BY <2>2, <2>3
  <2> QED BY <2>3, <2>4 DEF q, x
<1>5. /\ next \in TokensOrNone
      /\ l.page < Pages => /\ next.set = l.set /\ next.until = l.until
                           /\ next.day = l.day /\ next.page = l.page + 1 /\ next # NoResumption
      /\ l.page = Pages /\ l.day < l.until => /\ next.set = l.set /\ next.until = l.until
                           /\ next.day = l.day + 1 /\ next.page = 1 /\ next # NoResumption
      /\ l.page = Pages /\ l.day >= l.until => next = NoResumption
  BY <1>2, FollowingIs
<1> HIDE DEF next, kept
<1>6. /\ h \in Harvests /\ h.at = "list" /\ h.set = harvest.set /\ h.from = harvest.from
      /\ h.until = harvest.until /\ h.resume = harvest.resume /\ h.records = kept
      /\ h.token = next
  BY <1>1, <1>4, <1>5 DEF DeltaTyped, Harvests
<1> HIDE DEF h
\* what was owed is owed further on, or has been listed
<1>7. ASSUME NEW r \in Span(since, MaxDay),
             r.day \in harvest.from .. harvest.until, r.day < today,
             ~Excused(r), ~\E i \in DOMAIN kept : kept[i] = r
      PROVE  /\ harvest.resume = NoResumption
             /\ l.set = harvest.set /\ l.until = harvest.until
             /\ \/ r.set > harvest.set
                \/ /\ r.set = harvest.set
                   /\ next # NoResumption
                   /\ r.day > next.day \/ (r.day = next.day /\ r.page >= next.page)
  <2>1. ~Gapless
    BY <1>7 DEF Gapless
  <2>2. harvest.resume = NoResumption /\ l.set = harvest.set /\ l.until = harvest.until
    BY <1>1, <2>1 DEF TokenInv, Listing
  <2>3. ToList(r)
    BY <1>1, <1>4, <1>7 DEF HarvestInv
  <2>4. /\ r \in Records /\ r.day \in Nat /\ r.page \in 1 .. Pages /\ r.set \in Nat
        /\ l.page \in 1 .. Pages /\ l.day \in Nat /\ harvest.set \in Nat /\ l.until \in Nat
    BY <1>2 DEF Span, Records, ResumptionTokens, DeltaTyped, Harvests, Days, DeltaSets
  <2>5. CASE r.set = harvest.set
    <3>1. r.day > l.day \/ (r.day = l.day /\ r.page >= l.page)
      BY <2>3, <2>4, <2>5 DEF ToList
    <3>2. ~(r.day = l.day /\ r.page = l.page)
      <4> SUFFICES ASSUME r.day = l.day, r.page = l.page PROVE FALSE
        OBVIOUS
      <4>1. Listed(l) = r
        BY <1>3, <2>2, <2>4, <2>5 DEF Listed, Records
      <4> QED BY <1>4, <1>7, <4>1
    <3>3. r.day <= l.until
      BY <1>7, <2>2
    <3>4. CASE l.page < Pages
      BY <1>5, <2>2, <2>4, <2>5, <3>1, <3>2, <3>4
    <3>5. CASE l.page = Pages
      <4>1. r.day > l.day /\ l.day < l.until
        BY <2>4, <3>1, <3>2, <3>3, <3>5
      <4>2. next.day = l.day + 1 /\ next.page = 1 /\ next # NoResumption
        BY <1>5, <3>5, <4>1
      <4>3. r.day > next.day \/ (r.day = next.day /\ r.page >= next.page)
        BY <2>4, <4>1, <4>2
      <4> QED BY <2>2, <2>5, <4>2, <4>3
    <3> QED BY <2>4, <3>4, <3>5
  <2>6. CASE r.set # harvest.set
    BY <2>2, <2>3, <2>6 DEF ToList
  <2> QED BY <2>5, <2>6
<1>8. onDisk' \in [date : {onDisk.date, today}, token : TokensOrNone]
  BY <1>1, <1>5
<1>9. CASE next = NoResumption
  <2>1. \A r \in Span(since, MaxDay) :
           r.day \in harvest.from .. harvest.until /\ r.day < today =>
              \/ Excused(r)' \/ (ToList(r) /\ r.set > harvest.set)
              \/ \E i \in DOMAIN h.records : h.records[i] = r
    BY <1>1, <1>6, <1>7, <1>9 DEF Excused, ToList
  <2> QED BY <1>1, <1>6, <1>8, <1>9, <2>1, LeavesSet
<1>10. CASE next # NoResumption
  <2>1. harvest' = h
    BY <1>1, <1>10
  <2>2. DeltaTyped'
    BY <1>1, <1>2, <1>6, <1>8, <2>1 DEF DeltaTyped
  <2>3. \A r \in Span(since, MaxDay) : Excused(r)' <=> Excused(r)
    BY <1>1 DEF Excused
  <2>4. Gapless => Gapless'
    BY <1>1, <2>3 DEF Gapless
  <2>5. ~Gapless => /\ harvest'.resume = NoResumption
                  /\ harvest'.token.set = harvest'.set /\ harvest'.token.until = harvest'.until
    <3> HAVE ~Gapless
    <3>1. harvest.resume = NoResumption /\ l.set = harvest.set /\ l.until = harvest.until
      BY <1>1 DEF TokenInv, Listing
    <3>2. next.set = l.set /\ next.until = l.until
      BY <1>2, <1>5, <1>10 DEF ResumptionTokens, Days
    <3> QED BY <1>6, <2>1, <3>1, <3>2
  <2>6. TokenInv'
    BY <2>4, <2>5 DEF TokenInv
  <2>7. Listing' = next
    BY <1>6, <1>10, <2>1 DEF Listing
  <2>8. ASSUME NEW r \in Span(since, MaxDay),
               r.day \in harvest.from .. harvest.until, r.day < today
        PROVE  \/ Excused(r)' \/ ToList(r)'
               \/ \E i \in DOMAIN harvest'.records : harvest'.records[i] = r
    BY <1>6, <1>7, <2>1, <2>3, <2>7, <2>8 DEF ToList
  <2>9. \A r \in Span(since, MaxDay) :
           /\ r.day < harvest.from => Excused(r)'
           /\ r.day > harvest.until /\ r.day < today => Excused(r)'
    BY <1>1, <2>3 DEF HarvestInv
  <2>10. onDisk'.date = today
    BY <1>1
  <2>11. HarvestInv'
    BY <1>1, <1>6, <2>1, <2>8, <2>9, <2>10 DEF HarvestInv
  <2> QED BY <1>6, <2>1, <2>2, <2>6, <2>11 DEF FedOrForfeit
<1> QED BY <1>9, <1>10

LEMMA FeedKeeps == ASSUME DeltaInv, Feed PROVE DeltaInv'
<1> USE DEF DeltaInv
<1> DEFINE q == harvest.records
<1>1. /\ harvest.at = "feed" /\ q # <<>> /\ UNCHANGED <<today, onDisk, forfeit, since>>
      /\ fed' = fed \cup {Head(q)} /\ harvest' = [harvest EXCEPT !.records = Tail(q)]
  BY DEF Feed
<1>2. q \in Seq(Records)
  BY DEF DeltaTyped, Harvests
<1> HIDE DEF q
<1>3. /\ Tail(q) \in Seq(Records)
      /\ \A i \in DOMAIN q : q[i] = Head(q) \/ \E j \in DOMAIN Tail(q) : Tail(q)[j] = q[i]
  <2>1. Tail(q) \in Seq(Records) /\ Len(Tail(q)) = Len(q) - 1 /\ Len(q) >= 1
    BY <1>1, <1>2
  <2>2. ASSUME NEW i \in DOMAIN q, i # 1 PROVE i - 1 \in DOMAIN Tail(q) /\ Tail(q)[i - 1] = q[i]
    BY <1>1, <1>2, <2>1, <2>2
  <2>3. q[1] = Head(q)
    BY <1>1, <1>2
  <2> QED BY <2>1, <2>2, <2>3
<1>4. /\ harvest' \in Harvests /\ harvest'.at = "feed" /\ harvest'.records = Tail(q)
      /\ harvest'.from = harvest.from /\ harvest'.until = harvest.until
  BY <1>1, <1>3 DEF DeltaTyped, Harvests
<1>5. DeltaTyped'
  BY <1>1, <1>4 DEF DeltaTyped
<1>6. \A r \in Records : Excused(r) => Excused(r)'
  BY <1>1 DEF Excused
<1>7. ASSUME NEW r \in Span(since, MaxDay), r.day \in harvest.from .. harvest.until, r.day < today
      PROVE  Excused(r)' \/ \E i \in DOMAIN Tail(q) : Tail(q)[i] = r
  <2>1. Excused(r) \/ \E i \in DOMAIN q : q[i] = r
    BY <1>1, <1>7 DEF HarvestInv, ToList, q
  <2> QED BY <1>1, <1>3, <1>6, <2>1 DEF Excused, Span
<1>8. HarvestInv'
  BY <1>1, <1>4, <1>6, <1>7 DEF HarvestInv, Span
<1> QED BY <1>1, <1>4, <1>5, <1>8 DEF TokenInv, FedOrForfeit

\* The end of the run makes its date good: what is before it has been fed.
LEMMA CompleteKeeps == ASSUME DeltaInv, Complete PROVE DeltaInv'
<1> USE DeltaAssumption DEF DeltaInv
<1>1. /\ harvest.at = "feed" /\ harvest.records = <<>> /\ UNCHANGED <<today, fed, forfeit, since>>
      /\ onDisk' = [date |-> today, token |-> NoResumption]
      /\ harvest' = Resting /\ Resting.at = "rest"
  BY DEF Complete, Resting
<1>2. Resting \in Harvests
  BY TokensThere DEF Resting, Harvests, Days
<1>3. today \in Nat /\ today \in 0 .. today + 1
  BY DEF DeltaTyped, Days
<1>4. DeltaTyped'
  BY <1>1, <1>2, <1>3, TokensThere DEF DeltaTyped
<1>5. ASSUME NEW r \in Span(since, MaxDay), r.day < today PROVE r \in fed \cup forfeit
  <2>1. r.day \in Nat /\ harvest.from \in Nat /\ harvest.until \in Nat
    BY DEF Span, Records, Days, DeltaTyped, Harvests
  <2>2. CASE r.day \in harvest.from .. harvest.until
    BY <1>1, <1>5, <2>2 DEF HarvestInv, Excused, ToList
  <2>3. CASE r.day < harvest.from \/ r.day > harvest.until
    BY <1>1, <1>5, <2>3 DEF HarvestInv, Excused
  <2> QED BY <2>1, <2>2, <2>3
<1>6. FedOrForfeit'
  BY <1>1, <1>5 DEF FedOrForfeit
<1> QED BY <1>1, <1>4, <1>6 DEF HarvestInv, TokenInv

LEMMA MidnightKeeps == ASSUME DeltaInv, Midnight PROVE DeltaInv'
<1> USE DeltaAssumption DEF DeltaInv
<1>1. /\ today < MaxDay /\ today' = today + 1 /\ UNCHANGED <<onDisk, harvest, fed, since>>
      /\ forfeit \subseteq forfeit'
      /\ harvest.at # "rest" => Span(today, today) \subseteq forfeit'
  BY DEF Midnight
<1>2. today' \in Days \ {0} /\ today \in Nat /\ 0 .. today + 1 \subseteq 0 .. today' + 1
  BY <1>1 DEF DeltaTyped, Days
<1>3. DeltaTyped'
  <2>1. onDisk' \in [date : 0 .. today' + 1 \cup {NoDate}, token : TokensOrNone]
    BY <1>1, <1>2 DEF DeltaTyped
  <2> QED BY <1>1, <1>2, <2>1 DEF DeltaTyped
<1>4. ASSUME NEW r \in Span(since, MaxDay)
      PROVE  /\ r.day \in Nat /\ (Excused(r) => Excused(r)') /\ (ToList(r) => ToList(r)')
             /\ harvest.at # "rest" /\ r.day = today => Excused(r)'
  <2>1. r \in Records /\ r.day \in Nat
    BY DEF Span, Records, Days
  <2>2. r.day = today => r \in Span(today, today)
    BY <1>2, <2>1 DEF Span
  <2>3. ToList(r) => ToList(r)'
    <3>1. Listing'.day = Listing.day /\ Listing'.page = Listing.page
      BY <1>1 DEF Listing
    <3> QED BY <1>1, <3>1 DEF ToList
  <2> QED BY <1>1, <2>1, <2>2, <2>3 DEF Excused
<1>5. \A r \in Span(since, MaxDay) : r.day < today' => r.day < today \/ r.day = today
  BY <1>1, <1>2, <1>4
<1>6. harvest.at # "rest" /\ Gapless => Gapless'
  BY <1>1, <1>4, <1>5 DEF Gapless
<1>7. TokenInv'
  BY <1>1, <1>6 DEF TokenInv
<1>8. HarvestInv'
  <2> SUFFICES ASSUME harvest.at # "rest", NEW r \in Span(since, MaxDay)
               PROVE  /\ r.day < harvest.from => Excused(r)'
                      /\ r.day > harvest.until /\ r.day < today' => Excused(r)'
                      /\ r.day > harvest.until /\ onDisk.date # NoDate /\ r.day < onDisk.date
                            => Excused(r)'
                      /\ r.day \in harvest.from .. harvest.until /\ r.day < today' =>
                            \/ Excused(r)' \/ ToList(r)'
                            \/ \E i \in DOMAIN harvest.records : harvest.records[i] = r
    BY <1>1 DEF HarvestInv
  <2>1. r.day < today' => r.day < today \/ Excused(r)'
    BY <1>4, <1>5
  <2> QED BY <1>4, <2>1 DEF HarvestInv
<1>9. FedOrForfeit'
  BY <1>1, <1>4 DEF FedOrForfeit
<1> QED BY <1>3, <1>7, <1>8, <1>9

LEMMA MisDateKeeps == ASSUME DeltaInv, MisDate PROVE DeltaInv'
<1> USE DeltaAssumption DEF DeltaInv
<1>1. /\ harvest.at = "rest" /\ onDisk.date <= today /\ UNCHANGED <<today, harvest, fed, since>>
      /\ onDisk' = [onDisk EXCEPT !.date = today + 1]
      /\ forfeit' = forfeit \cup Span(onDisk.date, today)
  BY DEF MisDate
<1>2. today \in Nat /\ today <= MaxDay
  BY DEF DeltaTyped, Days
<1>3. onDisk.date \in 0 .. today /\ onDisk.date # NoDate
  BY <1>1, <1>2 DEF DeltaTyped, NoDate
<1>4. onDisk' \in [date : 0 .. today + 1 \cup {NoDate}, token : TokensOrNone] /\ onDisk'.date = today + 1
  BY <1>1, <1>2 DEF DeltaTyped
<1>5. DeltaTyped'
  BY <1>1, <1>4 DEF DeltaTyped
<1>6. ASSUME NEW r \in Span(since, MaxDay), r.day < today + 1 PROVE r \in fed \cup forfeit'
  <2>1. r \in Records /\ r.day \in Nat
    BY DEF Span, Records, Days
  <2>2. CASE r.day < onDisk.date
    BY <1>1, <1>3, <2>2 DEF FedOrForfeit
  <2>3. CASE r.day >= onDisk.date
    BY <1>1, <1>2, <1>3, <1>6, <2>1, <2>3 DEF Span
  <2> QED BY <1>3, <2>1, <2>2, <2>3
<1>7. FedOrForfeit'
  BY <1>1, <1>4, <1>6 DEF FedOrForfeit
<1> QED BY <1>1, <1>5, <1>7 DEF HarvestInv, TokenInv

LEMMA DeltaStep == ASSUME DeltaInv, [DeltaNext]_deltaVars PROVE DeltaInv'
<1>1. CASE Nightly
  <2>1. StartRun(FALSE, ResumeDate, Yesterday, FALSE)
    BY <1>1 DEF Nightly
  <2>2. \A asked \in BOOLEAN, from \in {ResumeDate, Yesterday}, until \in {Yesterday, today},
           dry \in BOOLEAN :
             (asked \/ (from = ResumeDate /\ until = Yesterday))
             /\ StartRun(asked, from, until, dry) => DeltaInv'
    BY StartKeeps
  <2> QED BY <2>1, <2>2
<1>2. CASE Asked
  <2>1. PICK from \in {ResumeDate, Yesterday}, until \in {Yesterday, today}, dry \in BOOLEAN :
          StartRun(TRUE, from, until, dry)
    BY <1>2 DEF Asked
  <2> QED BY <2>1, StartKeeps
<1>3. CASE Crash \/ Expired \/ Show
  <2>1. harvest.at # "rest" /\ Dies /\ UNCHANGED <<today, onDisk, fed, since>>
    BY <1>3 DEF Crash, Expired, Show
  <2> QED BY <2>1, DiesKeeps
<1>4. CASE UNCHANGED deltaVars
  BY <1>4 DEF deltaVars, DeltaInv, DeltaTyped, HarvestInv, TokenInv, FedOrForfeit, Gapless, Excused,
              ToList, Listing
<1> QED BY <1>1, <1>2, <1>3, <1>4, MisDateKeeps, PageKeeps, GiveUpKeeps, FeedKeeps, CompleteKeeps,
           MidnightKeeps DEF DeltaNext

\* run_delta, harvest_set and _resolve_resume agree on what the date in the
\* state file means: whatever nights a run dies, lapses or is asked for, every
\* record before the date has been handed over or a named mishap excuses it.
THEOREM FedOrForfeitHolds == DeltaSpec => []FedOrForfeit
<1>1. DeltaInit => DeltaInv
  BY DeltaInitially
<1>2. DeltaInv /\ [DeltaNext]_deltaVars => DeltaInv'
  BY DeltaStep
<1>3. DeltaInv => FedOrForfeit
  BY DEF DeltaInv
<1> QED BY <1>1, <1>2, <1>3, PTL DEF DeltaSpec

\* What is handed over or excused is a record.
LEMMA OwnRecords ==
    ASSUME DeltaInv, fed \subseteq Records /\ forfeit \subseteq Records, [DeltaNext]_deltaVars
    PROVE  (fed \subseteq Records /\ forfeit \subseteq Records)'
<1>1. \A from, until : Span(from, until) \subseteq Records
  BY DEF Span
<1>2. CASE Nightly \/ Asked
  <2>1. PICK asked \in BOOLEAN, from \in {ResumeDate, Yesterday}, until \in {Yesterday, today},
             dry \in BOOLEAN : StartRun(asked, from, until, dry)
    BY <1>2 DEF Nightly, Asked
  <2> QED BY <1>1, <2>1 DEF StartRun
<1>3. CASE MisDate \/ Page \/ GiveUp \/ Midnight
  BY <1>1, <1>3 DEF MisDate, Page, GiveUp, Midnight
<1>4. CASE Crash \/ Expired \/ Show
  BY <1>1, <1>4 DEF Crash, Expired, Show, Dies
<1>5. CASE Feed
  <2>1. harvest.records \in Seq(Records) /\ harvest.records # <<>>
    BY <1>5 DEF Feed, DeltaInv, DeltaTyped, Harvests
  <2>2. Head(harvest.records) \in Records
    BY <2>1
  <2> QED BY <1>5, <2>2 DEF Feed
<1>6. CASE Complete \/ UNCHANGED deltaVars
  BY <1>6 DEF Complete, deltaVars
<1> QED BY <1>2, <1>3, <1>4, <1>5, <1>6 DEF DeltaNext

\* run_delta and its state file: every variable keeps its type, and the date in
\* the file is at most a day ahead.
THEOREM DeltaTypeCorrect == DeltaSpec => []DeltaTypeOK
<1>1. DeltaInit => DeltaInv /\ fed \subseteq Records /\ forfeit \subseteq Records
  BY DeltaInitially DEF DeltaInit
<1>2. DeltaInv /\ (fed \subseteq Records /\ forfeit \subseteq Records) /\ [DeltaNext]_deltaVars
        => DeltaInv' /\ (fed \subseteq Records /\ forfeit \subseteq Records)'
  BY DeltaStep, OwnRecords
<1>3. DeltaInv /\ fed \subseteq Records /\ forfeit \subseteq Records => DeltaTypeOK
  <2> SUFFICES ASSUME DeltaInv, fed \subseteq Records, forfeit \subseteq Records PROVE DeltaTypeOK
    OBVIOUS
  <2> QED BY DEF DeltaInv, DeltaTyped, Harvests, TokensOrNone, DeltaTypeOK
<1> QED BY <1>1, <1>2, <1>3, PTL DEF DeltaSpec

--------------------------------------------------------------------------------
(* The nine components that MCBookkeeping adds up. *)

\* Every variable of the daemon's registries and of the files of the notebooks and
\* of the corpus keeps its type, while one component runs and the others rest.
THEOREM BookkeepingTypeCorrect == Spec => []TypeOK
<1> DEFINE all == <<serverVars, corpusVars, focus>>
<1>1. Init => /\ CapInit /\ MigInit /\ FlightInit /\ LeanInit /\ TabInit
              /\ CutInit /\ DeltaInit /\ ReInit /\ WriterInit
  BY DEF Init
<1>2. [Next]_all => /\ [CapNext]_capVars /\ [MigNext]_migVars /\ [FlightNext]_flightVars
                    /\ [LeanNext]_leanVars /\ [TabNext]_tabVars
  BY DEF Next, serverVars
<1>3. [Next]_all => /\ [CutNext]_cutVars /\ [DeltaNext]_deltaVars
                    /\ [ReNext]_reVars /\ [WriterNext]_writerVars
  BY DEF Next, corpusVars
<1>4. Spec => /\ CapSpec /\ MigSpec /\ FlightSpec /\ LeanSpec /\ TabSpec
              /\ CutSpec /\ DeltaSpec /\ ReSpec /\ WriterSpec
  BY <1>1, <1>2, <1>3, PTL
     DEF Spec, CapSpec, MigSpec, FlightSpec, LeanSpec, TabSpec, CutSpec, DeltaSpec, ReSpec, WriterSpec
<1> QED BY <1>4, RegistryHolds, MigTypeCorrect, PermitsHold, LeanTypeCorrect, TablesTyped,
           CutTypeCorrect, DeltaTypeCorrect, ReEmbedTypeCorrect, WriterTypeCorrect, PTL
        DEF TypeOK
===============================================================================
