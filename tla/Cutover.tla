-------------------------------- MODULE Cutover --------------------------------
(***************************************************************************)
(* The activation of a staging corpus and its way back (ops/cutover.py),   *)
(* beside the drift watchdog that scores corpora (ops/watchdog_eval.py).   *)
(*                                                                         *)
(* Both are command-line programs without a lock: several may run at once  *)
(* and each may be killed between any two steps.  A criterion is read at   *)
(* its own moment; the swap and the rollback are two renames each, and a   *)
(* rename fails on a missing source and on an existing target.  The seed   *)
(* eval, the restore drill and the integrity probe pass or refuse, and the  *)
(* evaluation set is never too small to score a corpus.                    *)
(***************************************************************************)
EXTENDS Naturals, Sequences

CONSTANTS Operations,       \* runs of ops.cutover
          MaxCorpora,  \* bound: corpora ever built
          MaxReports,  \* bound: watchdog reports
          MaxNumbers,  \* bound: version numbers
          MaxSlips     \* bound: second renames that fail of themselves

ASSUME CutBoundsAssumption ==
    /\ MaxCorpora \in Nat \ {0}
    /\ MaxReports \in Nat
    /\ MaxNumbers \in Nat \ {0}
    /\ MaxSlips \in Nat

Corpora == 1 .. MaxCorpora
Empty   == 0
Dirs    == {"active", "staging", "rollback"}

\* between the two renames of a swap, of a rollback
Between == {"promote", "unswap", "reinstate", "unback"}
ToolStates == {"idle", "embed", "watchdog", "refuse", "swap", "retire", "poll",
               "evaluate", "verdict", "back", "discard", "ok", "failed", "killed"}
              \cup Between

VARIABLES
    dir,       \* dir[d]: the corpus at the path
    aside,     \* aside[p]: what p moved away from the active path
    version,   \* version[c]: what c's corpus-version.json says
    good,      \* corpora that score 0.80 and more
    built,     \* corpora so far
    embedding, \* re-embed-state.json says in_progress
    reports,   \* watchdog reports, the newest last
    flag,      \* eval-quarantine.flag
    tool,      \* tool[p]: where p stands
    slips,
    torn,      \* history: somebody was killed between two renames
    prior,     \* history: prior[c]: what c replaced when it was promoted
    removed    \* history: corpora the operator removed from the rollback path

cutVars == <<dir, aside, version, good, built, embedding, reports, flag, tool,
             slips, torn, prior, removed>>
files   == <<version, good, built, embedding, reports, flag>>
history == <<torn, prior, removed>>

CutTypeOK ==
    /\ dir \in [Dirs -> Corpora \cup {Empty}]
    /\ aside \in [Operations -> Corpora \cup {Empty}]
    /\ version \in [Corpora -> 1 .. MaxNumbers]
    /\ good \subseteq Corpora
    /\ built \in Corpora
    /\ embedding \in BOOLEAN /\ flag \in BOOLEAN /\ torn \in BOOLEAN
    /\ Len(reports) <= MaxReports
    /\ tool \in [Operations -> ToolStates]
    /\ slips \in 0 .. MaxSlips
    /\ prior \in [Corpora -> Corpora \cup {Empty}]
    /\ removed \subseteq Corpora

CutInit ==
    /\ dir = [d \in Dirs |-> IF d = "active" THEN 1 ELSE Empty]
    /\ aside = [p \in Operations |-> Empty]
    /\ version \in [Corpora -> 1 .. MaxNumbers]
    /\ good \in SUBSET Corpora
    /\ built = 1
    /\ embedding = FALSE
    /\ reports = <<>>
    /\ flag = FALSE
    /\ tool = [p \in Operations |-> "idle"]
    /\ slips = 0
    /\ torn = FALSE
    /\ prior = [c \in Corpora |-> Empty]
    /\ removed = {}
-------------------------------------------------------------------------------
(***************************************************************************)
(* What goes on around the tool.                                           *)
(***************************************************************************)
Around == UNCHANGED <<aside, tool, slips, torn, prior>>

\* A re-embed writes a staging corpus from scratch, over whatever is there.
StartStaging ==
    /\ built < MaxCorpora
    /\ ~embedding
    /\ built' = built + 1
    /\ dir' = [dir EXCEPT !["staging"] = built + 1]
    /\ embedding' = TRUE
    /\ UNCHANGED <<version, good, reports, flag, removed>>
    /\ Around

FinishStaging ==
    /\ embedding
    /\ embedding' = FALSE
    /\ UNCHANGED <<dir, version, good, built, reports, flag, removed>>
    /\ Around

\* run_watchdog on the corpus at d: no run during a re-embed; a decline
\* against a lower version's report alerts, however good the score
Score(d) ==
    /\ ~embedding
    /\ dir[d] # Empty
    /\ Len(reports) < MaxReports
    /\ \E alert \in BOOLEAN :
         LET c == dir[d]
             report == [version |-> version[c], floor |-> c \in good, alert |-> alert]
         IN /\ alert => \E i \in DOMAIN reports : reports[i].version < version[c]
            /\ reports' = Append(reports, report)
            /\ flag' = (flag \/ alert)

\* the nightly timer, or the operator
Watchdog ==
    /\ Score("staging")
    /\ UNCHANGED <<dir, version, good, built, embedding, removed>>
    /\ Around

ClearQuarantine ==
    /\ flag
    /\ flag' = FALSE
    /\ UNCHANGED <<dir, version, good, built, embedding, reports, removed>>
    /\ Around

\* "Inspect, then move or remove the directory", with no tool at work
RemoveRollback ==
    /\ dir["rollback"] # Empty
    /\ \A p \in Operations : tool[p] \in {"idle", "ok", "failed", "killed"}
    /\ dir' = [dir EXCEPT !["rollback"] = Empty]
    /\ removed' = removed \cup {dir["rollback"]}
    /\ UNCHANGED files
    /\ Around
-------------------------------------------------------------------------------
(***************************************************************************)
(* run_cutover: the criteria.                                              *)
(***************************************************************************)
ToolTo(p, s) == tool' = [tool EXCEPT ![p] = s]
ToolRest == UNCHANGED <<dir, aside, files, slips, history>>

StartTool(p, command) ==
    /\ tool[p] = "idle"
    /\ ToolTo(p, command)
    /\ ToolRest

\* C3, and on its way whatever of C4, C1 and the integrity probe fails
CheckReEmbed(p) ==
    /\ tool[p] = "embed"
    /\ \/ ToolTo(p, "refuse")
       \/ ~embedding /\ ToolTo(p, "watchdog")
    /\ ToolRest

\* C2: no flag, and the newest report under the staging version's number
NewestFor(v) == {i \in DOMAIN reports :
                    /\ reports[i].version = v
                    /\ \A j \in DOMAIN reports : reports[j].version = v => j <= i}
WatchdogPasses ==
    /\ ~flag
    /\ dir["staging"] # Empty
    /\ \E i \in NewestFor(version[dir["staging"]]) :
          reports[i].floor /\ ~reports[i].alert

CheckWatchdog(p) ==
    /\ tool[p] = "watchdog"
    /\ ToolTo(p, IF WatchdogPasses THEN "swap" ELSE "refuse")
    /\ ToolRest

\* exit code 1
Refuse(p) ==
    /\ tool[p] = "refuse"
    /\ ToolTo(p, "failed")
    /\ ToolRest
-------------------------------------------------------------------------------
(***************************************************************************)
(* perform_directory_swap.                                                 *)
(***************************************************************************)
CanRename(from, to) == dir[from] # Empty /\ dir[to] = Empty
Rename(from, to) == dir' = [dir EXCEPT ![from] = Empty, ![to] = dir[from]]

\* Mutant: a lifeline in the way is removed.
SwapChecksClears(p) ==
    /\ tool[p] = "swap"
    /\ ToolTo(p, IF dir["active"] # Empty /\ dir["staging"] # Empty
                 THEN "retire" ELSE "refuse")
    /\ dir' = [dir EXCEPT !["rollback"] = Empty]
    /\ UNCHANGED <<aside, files, slips, history>>

SwapChecks(p) ==
    /\ tool[p] = "swap"
    /\ ToolTo(p, IF dir["rollback"] = Empty /\ dir["active"] # Empty
                      /\ dir["staging"] # Empty
                 THEN "retire" ELSE "refuse")
    /\ ToolRest

Retire(p) ==
    /\ tool[p] = "retire"
    /\ IF CanRename("active", "rollback")
       THEN /\ Rename("active", "rollback")
            /\ aside' = [aside EXCEPT ![p] = dir["active"]]
            /\ ToolTo(p, "promote")
       ELSE ToolTo(p, "refuse") /\ UNCHANGED <<dir, aside>>
    /\ UNCHANGED <<files, slips, history>>

\* why a second rename may fail: its paths, or anything else
Slips(from, to) ==
    \/ ~CanRename(from, to) /\ UNCHANGED slips
    \/ slips < MaxSlips /\ slips' = slips + 1

Promote(p) ==
    /\ tool[p] = "promote"
    /\ \/ /\ CanRename("staging", "active")
          /\ Rename("staging", "active")
          /\ ToolTo(p, "poll")
          /\ prior' = [prior EXCEPT ![dir["staging"]] = aside[p]]
          /\ UNCHANGED slips
       \/ /\ Slips("staging", "active")
          /\ ToolTo(p, "unswap")
          /\ UNCHANGED <<dir, prior>>
    /\ UNCHANGED <<aside, files, torn, removed>>

\* Mutant: the failure is reported and nothing restored.
UnswapReportsOnly(p) ==
    /\ tool[p] = "unswap"
    /\ ToolTo(p, "refuse")
    /\ UNCHANGED <<dir, aside, files, slips, history>>

Unswap(p) ==
    /\ tool[p] = "unswap"
    /\ IF CanRename("rollback", "active") THEN Rename("rollback", "active")
                                          ELSE UNCHANGED dir
    /\ ToolTo(p, "refuse")
    /\ UNCHANGED <<aside, files, slips, history>>
-------------------------------------------------------------------------------
(***************************************************************************)
(* After the swap: /readyz, then the watchdog on the active corpus, then   *)
(* the newest report there is.                                             *)
(***************************************************************************)
PollReadyz(p) ==
    /\ tool[p] = "poll"
    /\ \E s \in {"evaluate", "ok", "refuse"} : ToolTo(p, s)
    /\ ToolRest

\* exit 0 without a report during a re-embed, exit 1 on an alert
PostWatchdog(p) ==
    /\ tool[p] = "evaluate"
    /\ \/ /\ Score("active")
          /\ ToolTo(p, IF reports'[Len(reports')].alert THEN "refuse" ELSE "verdict")
       \/ /\ embedding
          /\ ToolTo(p, "verdict")
          /\ UNCHANGED <<reports, flag>>
       \/ /\ dir["active"] = Empty
          /\ ToolTo(p, "refuse")
          /\ UNCHANGED <<reports, flag>>
    /\ UNCHANGED <<dir, aside, version, good, built, embedding, slips, torn, prior,
                   removed>>

Verdict(p) ==
    /\ tool[p] = "verdict"
    /\ ToolTo(p, IF reports # <<>> /\ reports[Len(reports)].floor THEN "ok"
                                                                 ELSE "refuse")
    /\ ToolRest
-------------------------------------------------------------------------------
(***************************************************************************)
(* perform_rollback.                                                       *)
(***************************************************************************)
BackChecks(p) ==
    /\ tool[p] = "back"
    /\ ToolTo(p, IF dir["rollback"] # Empty /\ dir["active"] # Empty
                 THEN "discard" ELSE "refuse")
    /\ ToolRest

Discard(p) ==
    /\ tool[p] = "discard"
    /\ IF dir["active"] # Empty
       THEN /\ aside' = [aside EXCEPT ![p] = dir["active"]]
            /\ dir' = [dir EXCEPT !["active"] = Empty]
            /\ ToolTo(p, "reinstate")
       ELSE ToolTo(p, "refuse") /\ UNCHANGED <<dir, aside>>
    /\ UNCHANGED <<files, slips, history>>

Reinstate(p) ==
    /\ tool[p] = "reinstate"
    /\ \/ CanRename("rollback", "active") /\ Rename("rollback", "active")
          /\ ToolTo(p, "ok") /\ UNCHANGED slips
       \/ Slips("rollback", "active") /\ ToolTo(p, "unback") /\ UNCHANGED dir
    /\ UNCHANGED <<aside, files, history>>

Unback(p) ==
    /\ tool[p] = "unback"
    /\ IF dir["active"] = Empty
       THEN dir' = [dir EXCEPT !["active"] = aside[p]]
       ELSE UNCHANGED dir
    /\ ToolTo(p, "refuse")
    /\ UNCHANGED <<aside, files, slips, history>>

\* The process is killed, or it ends with the exception of a restoring rename
\* that fails of itself: the paths stay as they are.
KillTool(p) ==
    /\ tool[p] \notin {"idle", "ok", "failed", "killed"}
    /\ ToolTo(p, "killed")
    /\ torn' = (torn \/ tool[p] \in Between)
    /\ UNCHANGED <<dir, aside, files, slips, prior, removed>>
-------------------------------------------------------------------------------
ToolStep(p) ==
    \/ \E command \in {"embed", "back"} : StartTool(p, command)
    \/ CheckReEmbed(p) \/ CheckWatchdog(p) \/ Refuse(p)
    \/ SwapChecks(p) \/ Retire(p) \/ Promote(p) \/ Unswap(p)
    \/ PollReadyz(p) \/ PostWatchdog(p) \/ Verdict(p)
    \/ BackChecks(p) \/ Discard(p) \/ Reinstate(p) \/ Unback(p)
    \/ KillTool(p)

CutNext ==
    \/ \E p \in Operations : ToolStep(p)
    \/ StartStaging \/ FinishStaging \/ Watchdog \/ ClearQuarantine
    \/ RemoveRollback

CutSpec == CutInit /\ [][CutNext]_cutVars
-------------------------------------------------------------------------------
\* The daemon always finds a corpus to open: whatever cutovers and rollbacks
\* run into one another and whichever second rename fails, the active path is
\* empty only between two renames or after a kill there ("must not leave the
\* active path missing", perform_directory_swap).
ActiveServed ==
    dir["active"] = Empty =>
        torn \/ \E p \in Operations : tool[p] \in Between

\* A promotion can be undone: as long as the operator does not remove it,
\* what a promoted corpus replaced waits at the rollback path ("the
\* operator's rollback lifeline", perform_directory_swap).
LifelineKept ==
    LET c == dir["active"]
    IN c # Empty /\ prior[c] \notin removed \cup {Empty} => dir["rollback"] = prior[c]

\* What p holds between its two renames, and who has been served so far.
taken == [p \in Operations |-> IF tool[p] \in Between THEN aside[p] ELSE Empty]
used == {1} \cup {c \in Corpora : prior[c] # Empty}

Switch == INSTANCE CorpusSwitch
    WITH Hands <- Operations, First <- 1, Nothing <- Empty, served <- dir["active"],
         undo <- dir["rollback"], taken <- taken, used <- used, removed <- removed,
         broken <- torn

\* Behind the paths, the criteria and the slips there is a switch: the served
\* corpus is in the hands of one operation at a time, it comes back unless a new
\* one takes its place with the old one kept, no corpus is promoted twice, and
\* what is kept is lost to nobody but the operator who removes it.
ImplementsSwitch == Switch!Spec
===============================================================================
