----------------------------- MODULE IngestLedger -----------------------------
(***************************************************************************)
(* What the ingest of notebooks promises, with no requests, queues, tasks  *)
(* or daemon phases: a ledger of runs that settle at most once and tell    *)
(* the truth, and one worker that drives one subprocess at a time.         *)
(* IngestRuns implements it (Ledger!Spec there).                           *)
(***************************************************************************)
EXTENDS Naturals

CONSTANT MaxRun

Runs  == 1 .. MaxRun
NoRun == 0
Settled == {"success", "failed", "nospawn", "cancelled", "orphaned"}

VARIABLES row,     \* row[r]: "unborn", "running", a settled state or "gone"
          proc,    \* proc[r]: "none", "live", "ok", "err" or "killed"
          worker   \* the run whose subprocess the daemon drives, or NoRun

vars == <<row, proc, worker>>

Init == /\ row = [r \in Runs |-> "unborn"]
        /\ proc = [r \in Runs |-> "none"]
        /\ worker = NoRun

\* a trigger is accepted
Open(r) ==
    /\ row[r] = "unborn"
    /\ row' = [row EXCEPT ![r] = "running"]
    /\ UNCHANGED <<proc, worker>>

\* the worker takes a run nobody drives; each run is driven at most once
Drive(r) ==
    /\ worker = NoRun
    /\ proc[r] = "none"
    /\ row[r] \in {"running", "gone"}
    /\ proc' = [proc EXCEPT ![r] = "live"]
    /\ worker' = r
    /\ UNCHANGED row

\* subprocesses end; the worker kills only what it drives
Ends(r, out) ==
    /\ proc[r] = "live"
    /\ proc' = [proc EXCEPT ![r] = out]
    /\ out = "killed" => worker = r
    /\ worker' \in {worker} \cup (IF worker = r THEN {NoRun} ELSE {})
    /\ UNCHANGED row

\* the worker turns away: done with its run, or its daemon died
Leave ==
    /\ worker' = NoRun
    /\ UNCHANGED <<row, proc>>

\* a running row settles, truthfully
Settle(r, how) ==
    /\ row[r] = "running"
    /\ how = "success" => proc[r] = "ok"
    /\ how = "failed"  => proc[r] = "err"
    /\ how = "nospawn" => proc[r] = "none"
    /\ row' = [row EXCEPT ![r] = how]
    /\ UNCHANGED <<proc, worker>>

\* a restart gives up on running rows, a deletion removes rows
GiveUp(S) ==
    /\ \A r \in S : row[r] = "running"
    /\ row' = [r \in Runs |-> IF r \in S THEN "orphaned" ELSE row[r]]
    /\ UNCHANGED <<proc, worker>>

Remove(S) ==
    /\ \A r \in S : row[r] # "unborn"
    /\ row' = [r \in Runs |-> IF r \in S THEN "gone" ELSE row[r]]
    /\ UNCHANGED <<proc, worker>>

Next ==
    \/ \E r \in Runs : Open(r) \/ Drive(r)
    \/ \E r \in Runs, out \in {"ok", "err", "killed"} : Ends(r, out)
    \/ Leave
    \/ \E r \in Runs, how \in Settled : Settle(r, how)
    \/ \E S \in SUBSET Runs : GiveUp(S) \/ Remove(S)

Spec == Init /\ [][Next]_vars
===============================================================================
