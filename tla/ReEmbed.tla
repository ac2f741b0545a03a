------------------------------- MODULE ReEmbed -------------------------------
(***************************************************************************)
(* Vectors and the embedding space they belong to: embed_paper             *)
(* (ingest/embedder.py) keeps a paper's vectors in an NPZ file and says in *)
(* a sidecar what made them; ingest_one_paper (ingest/bulk_ingest.py)      *)
(* writes them to the staging dataset; run_re_embed (ingest/re_embed.py)   *)
(* copies the vectors of unchanged chunks from the active dataset and      *)
(* embeds the rest.                                                        *)
(*                                                                         *)
(* A build of the program is a pair of versions.  A chunk's id names its   *)
(* text: of every paper one chunk stays the same under each chunker and    *)
(* one is new.  One process works at a time.  The marker of a dataset      *)
(* names the embedder of its last write.                                   *)
(***************************************************************************)
EXTENDS Naturals, FiniteSets

CONSTANTS Works,            \* papers
          MaxBumps,         \* bound: deployments of a new version
          MaxActivations,   \* bound: cutovers
          MaxMishaps,       \* bound: failing steps and kills
          AcrossEmbedders   \* a re-embed's target may not be the active marker's embedder

ASSUME ReEmbedAssumption == /\ MaxBumps \in Nat /\ MaxActivations \in Nat
                            /\ MaxMishaps \in Nat /\ AcrossEmbedders \in BOOLEAN

Generations == 1 .. MaxBumps + 1
Unset     == 0
Builds      == [chunker : Generations, embedder : Generations]

\* chunk_paper: the ids of a paper's chunks. Generation 0 stands for the text
\* that no chunker cuts differently.
IdsOf(w, chunker) == {<<w, 0>>, <<w, chunker>>}

VARIABLES
    build,     \* the deployed versions
    active,    \* active[i]: the row of chunk i in the active dataset, a partial function;
               \* a row has the space its vector is in and the version it states
    staging,   \* staging[i]: likewise
    marker,    \* the embedder version in each dataset's corpus-version.json
    npz,       \* npz[w]: the ids and the space of the vectors in the NPZ
    sidecar,   \* sidecar[w]: what the sidecar says: ids, chunker, embedder
    sentinel,  \* re-embed-progress.json in the staging dataset
    work,      \* the process at work: a bulk ingest of one paper, or a re-embed
    bumps, activations, mishaps

reVars == <<build, active, staging, marker, npz, sidecar, sentinel, work,
            bumps, activations, mishaps>>

NoNpz      == [ids |-> {}, space |-> Unset]
NoSidecar  == [ids |-> {}, chunker |-> Unset, embedder |-> Unset]
NoSentinel == [status |-> "absent", papers |-> {}, chunker |-> Unset, embedder |-> Unset]
AtRest     == [job |-> "none", build |-> [chunker |-> 1, embedder |-> 1], target |-> 1, todo |-> {}, at |-> "next",
               paper |-> Unset, old |-> Unset, papers |-> {}, failed |-> {}, already |-> {}]

NoRows == [i \in {} |-> Unset]
IdsIn(d) == DOMAIN d

\* merge_insert on chunk_id: matched rows are updated, the others inserted.
Upsert(d, rows) == [i \in DOMAIN d \cup DOMAIN rows |-> IF i \in DOMAIN rows THEN rows[i] ELSE d[i]]

--------------------------------------------------------------------------------
\* _paper_is_up_to_date: the sidecar is of this build and knows every chunk,
\* and there is an NPZ.
UpToDate(w, ids) == /\ sidecar[w] # NoSidecar /\ npz[w] # NoNpz
                    /\ sidecar[w].chunker = work.build.chunker
                    /\ sidecar[w].embedder = work.build.embedder
                    /\ ids \subseteq sidecar[w].ids

PaperIds == IdsOf(work.paper, work.build.chunker)

\* The paper is through: a re-embed takes the next one, an ingest has ended.
Onward == IF work.job = "re-embed" THEN [work EXCEPT !.at = "next", !.paper = Unset]
          ELSE AtRest

\* What a step that raises makes of the paper: the loop goes on without it.
Failed == IF work.job = "re-embed"
          THEN [work EXCEPT !.at = "next", !.paper = Unset, !.failed = work.failed \cup {work.paper}]
          ELSE AtRest

Mishap == mishaps < MaxMishaps /\ mishaps' = mishaps + 1

\* _diff: unchanged ids, and those that need the embedder, less what staging
\* already held when a resumed run began.
CopyPending    == (PaperIds \cap IdsIn(active)) \ work.already
ReEmbedPending == (PaperIds \ IdsIn(active)) \ work.already

--------------------------------------------------------------------------------
\* ingest_one_paper, from chunk_paper on.
IngestPaper(w) ==
    /\ work.job = "none"
    /\ work' = [AtRest EXCEPT !.job = "ingest", !.build = build, !.paper = w, !.at = "embed"]
    /\ UNCHANGED <<build, active, staging, marker, npz, sidecar, sentinel, bumps, activations, mishaps>>

\* run_re_embed up to its first sentinel. The active marker, without which it
\* refuses, gives the version the old rows must carry; rows in staging of
\* another version than the target refuse the run. The target is the build's
\* embedder, or an older one that --target-embedder-version names.
StartReEmbed(papers, resume, target) ==
    /\ work.job = "none"
    /\ IdsIn(active) # {} /\ marker.active # Unset
    /\ AcrossEmbedders \/ marker.active = target
    /\ \A i \in IdsIn(staging) : staging[i].stamp = target
    /\ work' = [AtRest EXCEPT !.job = "re-embed", !.build = build, !.target = target, !.todo = papers,
                              !.papers = papers, !.old = marker.active,
                              !.already = IF resume THEN IdsIn(staging) ELSE {}]
    /\ sentinel' = [status |-> "in_progress", papers |-> papers,
                    chunker |-> build.chunker, embedder |-> target]
    /\ UNCHANGED <<build, active, staging, marker, npz, sidecar, bumps, activations, mishaps>>

\* The loop takes a paper; _plan_paper cuts it anew.
NextPaper ==
    /\ work.job = "re-embed" /\ work.at = "next"
    /\ \E w \in work.todo :
           work' = [work EXCEPT !.todo = work.todo \ {w}, !.paper = w, !.at = "copy"]
    /\ UNCHANGED <<build, active, staging, marker, npz, sidecar, sentinel, bumps, activations, mishaps>>

\* The copy path of _process_paper. A row that does not carry the old version
\* fails the paper; a copied row is stamped with the target version.
CopyRow(i)  == [space |-> active[i].space, stamp |-> work.target]

\* Mutant: old rows are taken as they come.
CopyUnchecked == TRUE

CopyAllowed == \A i \in CopyPending : active[i].stamp = work.old
CopyRows    == [i \in CopyPending |-> CopyRow(i)]

Copy ==
    /\ work.at = "copy"
    /\ IF CopyAllowed
       THEN /\ staging' = Upsert(staging, CopyRows)
            /\ marker' = IF CopyPending = {} THEN marker
                         ELSE [marker EXCEPT !.staging = work.target]
            /\ work' = IF ReEmbedPending = {} THEN Onward ELSE [work EXCEPT !.at = "embed"]
       ELSE work' = Failed /\ UNCHANGED <<staging, marker>>
    /\ UNCHANGED <<build, active, npz, sidecar, sentinel, bumps, activations, mishaps>>

\* embed_paper: nothing to do, or the NPZ first and the sidecar after it.
EmbedSkips ==
    /\ work.at = "embed" /\ UpToDate(work.paper, PaperIds)
    /\ work' = [work EXCEPT !.at = "write"]
    /\ UNCHANGED <<build, active, staging, marker, npz, sidecar, sentinel, bumps, activations, mishaps>>

WriteNpz ==
    /\ work.at = "embed" /\ ~UpToDate(work.paper, PaperIds)
    /\ npz' = [npz EXCEPT ![work.paper] = [ids |-> PaperIds, space |-> work.build.embedder]]
    /\ work' = [work EXCEPT !.at = "sidecar"]
    /\ UNCHANGED <<build, active, staging, marker, sidecar, sentinel, bumps, activations, mishaps>>

WriteSidecar ==
    /\ work.at = "sidecar"
    /\ sidecar' = [sidecar EXCEPT ![work.paper] =
           [ids |-> PaperIds, chunker |-> work.build.chunker, embedder |-> work.build.embedder]]
    /\ work' = [work EXCEPT !.at = "write"]
    /\ UNCHANGED <<build, active, staging, marker, npz, sentinel, bumps, activations, mishaps>>

\* load_embed_record and write_chunks: the vectors are the NPZ's, the version
\* is the sidecar's. A re-embed refuses another version than its target and
\* keeps the pending ids; an id without a vector refuses the write.
ToWrite == IF work.job = "re-embed" THEN ReEmbedPending ELSE PaperIds

WriteAllowed == /\ ToWrite \subseteq npz[work.paper].ids
                /\ work.job = "re-embed" => sidecar[work.paper].embedder = work.target

NewRow  == [space |-> npz[work.paper].space, stamp |-> sidecar[work.paper].embedder]
NewRows == [i \in ToWrite |-> NewRow]

Write ==
    /\ work.at = "write"
    /\ IF WriteAllowed
       THEN /\ staging' = Upsert(staging, NewRows)
            /\ marker' = [marker EXCEPT !.staging = sidecar[work.paper].embedder]
            /\ work' = Onward
       ELSE work' = Failed /\ UNCHANGED <<staging, marker>>
    /\ UNCHANGED <<build, active, npz, sidecar, sentinel, bumps, activations, mishaps>>

\* A step of a paper raises: the chunker, the embedder, or a write, which may
\* have committed its rows (the gate behind the marker raises after them).
StepRaises ==
    /\ work.paper # Unset /\ Mishap
    /\ work' = Failed
    /\ \/ staging' = staging
       \/ work.at = "copy" /\ CopyAllowed /\ staging' = Upsert(staging, CopyRows)
       \/ work.at = "write" /\ WriteAllowed /\ staging' = Upsert(staging, NewRows)
    /\ UNCHANGED <<build, active, marker, npz, sidecar, sentinel, bumps, activations>>

\* Mutant: failed papers are logged and forgotten.
FinalStatusForgets == "complete"

\* The terminal sentinel.
FinalStatus == IF work.failed = {} THEN "complete" ELSE "complete_with_failures"

EndReEmbed ==
    /\ work.job = "re-embed" /\ work.at = "next" /\ work.todo = {}
    /\ sentinel' = [sentinel EXCEPT !.status = FinalStatus]
    /\ work' = AtRest
    /\ UNCHANGED <<build, active, staging, marker, npz, sidecar, bumps, activations, mishaps>>

--------------------------------------------------------------------------------
\* The process at work is killed.
Kill == /\ work.job # "none" /\ Mishap
        /\ work' = AtRest
        /\ UNCHANGED <<build, active, staging, marker, npz, sidecar, sentinel, bumps, activations>>

\* A new version is deployed; a process that runs keeps the one it has.
Deploy == /\ bumps < MaxBumps
        /\ bumps' = bumps + 1
        /\ build' \in {[build EXCEPT !.chunker = build.chunker + 1],
                       [build EXCEPT !.embedder = build.embedder + 1]}
        /\ UNCHANGED <<active, staging, marker, npz, sidecar, sentinel, work, activations, mishaps>>

\* A cutover moves the staging directory, sentinel and all, to the active path.
Activate == /\ work.job = "none" /\ IdsIn(staging) # {} /\ activations < MaxActivations
            /\ activations' = activations + 1
            /\ active' = staging /\ staging' = NoRows
            /\ marker' = [active |-> marker.staging, staging |-> Unset]
            /\ sentinel' = NoSentinel
            /\ UNCHANGED <<build, npz, sidecar, work, bumps, mishaps>>

--------------------------------------------------------------------------------
ReInit ==
    /\ build = [chunker |-> 1, embedder |-> 1]
    /\ active = NoRows /\ staging = NoRows
    /\ marker = [active |-> Unset, staging |-> Unset]
    /\ npz = [w \in Works |-> NoNpz]
    /\ sidecar = [w \in Works |-> NoSidecar]
    /\ sentinel = NoSentinel
    /\ work = AtRest
    /\ bumps = 0 /\ activations = 0 /\ mishaps = 0

ReNext == \/ \E w \in Works : IngestPaper(w)
          \/ \E papers \in SUBSET Works \ {{}}, resume \in BOOLEAN, target \in 1 .. build.embedder :
                 StartReEmbed(papers, resume, target)
          \/ NextPaper \/ Copy \/ EmbedSkips \/ WriteNpz \/ WriteSidecar \/ Write
          \/ StepRaises \/ EndReEmbed \/ Kill \/ Deploy \/ Activate

ReSpec == ReInit /\ [][ReNext]_reVars

\* Only what has been deployed: ids of chunkers, and versions of embedders, up
\* to the build's.
ChunkIds == Works \X (0 .. build.chunker)
Vectors  == [space : 1 .. build.embedder, stamp : 1 .. build.embedder]

ReTypeOK ==
    /\ build \in Builds
    /\ IdsIn(active) \subseteq ChunkIds /\ IdsIn(staging) \subseteq ChunkIds
    /\ \A i \in IdsIn(active) : active[i] \in Vectors
    /\ \A i \in IdsIn(staging) : staging[i] \in Vectors
    /\ \A w \in Works : npz[w].ids \subseteq ChunkIds /\ npz[w].space \in 0 .. build.embedder
    /\ sentinel.status \in {"absent", "in_progress", "complete", "complete_with_failures"}
    /\ work.job \in {"none", "ingest", "re-embed"} /\ work.target \in 1 .. build.embedder
    /\ work.at \in {"next", "copy", "embed", "sidecar", "write"}

\* Every row states the space its vector is in, whatever was killed between an
\* NPZ and its sidecar, copied, resumed or skipped as up to date; a retriever
\* tells the spaces apart by nothing else (re_embed.py:10-16, "NOT across
\* embedder bumps"; docs/ops/re-embed-runbook.md:61-63, "every chunk takes the
\* GPU path" when the embedder has changed).
StampTellsSpace ==
    /\ \A i \in IdsIn(active) : active[i].stamp = active[i].space
    /\ \A i \in IdsIn(staging) : staging[i].stamp = staging[i].space

\* Staging that a re-embed calls complete holds every chunk of the papers the
\* run was for, also after kills, failed papers and resumed runs.
CompleteIsWhole ==
    sentinel.status = "complete" =>
        \A w \in sentinel.papers : IdsOf(w, sentinel.chunker) \subseteq IdsIn(staging)
=============================================================================
