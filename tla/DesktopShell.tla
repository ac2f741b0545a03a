----------------------------- MODULE DesktopShell -----------------------------
(***************************************************************************)
(* The desktop application: supervisors of one data root and their server  *)
(* children (apps/desktop/crates/supervisor, server/desktop_child.py).     *)
(*                                                                         *)
(* A supervisor process takes the data root's lock, collects the tree a    *)
(* dead supervisor left, spawns one child and hands it to whoever ends it: *)
(* the window's exit, the signal watcher or the failed boot itself.  Each  *)
(* of them runs the same ladder of shutdown frame, TERM, KILL and sweeps.  *)
(* A child has descendants in its process group (an ingest) and detached   *)
(* ones (a parse, after setsid).  Every wait may end by its deadline.      *)
(***************************************************************************)
EXTENDS Naturals

CONSTANTS MaxSups,   \* bound: supervisors, each with at most one child
          MaxKills,  \* bound: supervisors that die by SIGKILL
          MaxStuck   \* bound: children that stop or wedge

ASSUME ShellBoundsAssumption ==
    MaxSups \in Nat /\ MaxKills \in Nat /\ MaxStuck \in Nat

Sups  == 1 .. MaxSups  \* in the order they are started
NoSup == 0

Kinds == {"child", "group", "detached"}

\* where main and the cycle thread stand; Running are the living ones
Collecting == {"term", "down", "sweep"}
Armed   == {"spawn", "record", "launch", "await", "serve", "ending", "failed"}
Running == {"locking", "read"} \cup Collecting \cup Armed
Ended   == {"closed", "signalled", "killed"}
Rungs   == {"idle", "frame", "check", "grace", "term", "reap", "group",
            "detached", "done"}

VARIABLES
    sup,      \* sup[u]: "off", Running or Ended
    lock,     \* holder of supervisor.lock
    rec,      \* owned-child.json: whose child it names
    target,   \* target[u]: whose tree u collects
    ctl,      \* ctl[u]: who has the ChildControl
    rung,     \* rung[u]: the ladder's next step
    seen,     \* seen[u]: the snapshot has the detached descendant
    proc,     \* proc[u]: the processes of u's child tree
    input,    \* input[u]: what the child has been told
    bound,    \* children that wrote the bound frame
    stuck,    \* stuck[u]: "no", "halted" by SIGSTOP, "wedged" in a call
    lost,     \* history: children whose record was never written, was taken
              \* by a supervisor that died with it, or whose probe failed
    kills, stucks

supVars  == <<sup, lock, rec, target>>
ladVars  == <<ctl, rung, seen>>
shellBounds   == <<kills, stucks>>
procVars == <<proc, input, bound, stuck>>
shellVars == <<supVars, ladVars, procVars, lost, shellBounds>>

ShellTypeOK ==
    /\ sup \in [Sups -> {"off"} \cup Ended \cup Running]
    /\ lock \in Sups \cup {NoSup}
    /\ rec \in Sups \cup {NoSup}
    /\ target \in [Sups -> Sups \cup {NoSup}]
    /\ ctl \in [Sups -> {"none", "cycle", "slot", "signal", "window"}]
    /\ rung \in [Sups -> Rungs]
    /\ seen \in [Sups -> BOOLEAN]
    /\ proc \in [Sups -> [Kinds -> {"none", "live", "dying", "gone"}]]
    /\ input \in [Sups -> {"empty", "launched", "stop"}]
    /\ bound \subseteq Sups
    /\ stuck \in [Sups -> {"no", "halted", "wedged"}]
    /\ lost \subseteq Sups
    /\ kills \in 0 .. MaxKills
    /\ stucks \in 0 .. MaxStuck
    /\ \A u \in Sups : rung[u] # "idle" => ctl[u] \in {"cycle", "signal", "window"}

ShellInit ==
    /\ sup = [u \in Sups |-> "off"]
    /\ lock = NoSup
    /\ rec = NoSup
    /\ target = [u \in Sups |-> NoSup]
    /\ ctl = [u \in Sups |-> "none"]
    /\ rung = [u \in Sups |-> "idle"]
    /\ seen = [u \in Sups |-> FALSE]
    /\ proc = [u \in Sups |-> [k \in Kinds |-> "none"]]
    /\ input = [u \in Sups |-> "empty"]
    /\ bound = {}
    /\ stuck = [u \in Sups |-> "no"]
    /\ lost = {}
    /\ kills = 0
    /\ stucks = 0
-------------------------------------------------------------------------------
(***************************************************************************)
(* Processes and signals.                                                  *)
(***************************************************************************)
Alive(u, k)   == proc[u][k] \in {"live", "dying"}

\* p after SIGKILL to those of u's tree that are in ks.  The child may take
\* its time to die; nobody waits for a descendant to.
Killed(p, u, ks) ==
    [p EXCEPT ![u] = [k \in Kinds |->
        IF k \in ks /\ @[k] = "live"
        THEN IF k = "child" THEN "dying" ELSE "none"
        ELSE @[k]]]
KillGroup(u) == proc' = Killed(proc, u, {"child", "group"})

\* SIGTERM to the group: uvicorn's handler sets should_exit, as EOF does; a
\* descendant may end on it.
TermGroup(u) == input' = [input EXCEPT ![u] = "stop"]

\* What the PPID walk can tell of the detached descendant: it finds it while
\* the child still lives, and nothing when ps fails or is late.
Walk(u) == {FALSE, Alive(u, "child") /\ Alive(u, "detached")}

\* What process_identity can tell of child u: a ps that fails or outlasts
\* PS_BUDGET reads as "gone".
Probes(u) == {"gone"} \cup (IF Alive(u, "child") THEN {"up"} ELSE {})

\* Who is forgotten when child u is taken for gone.
Misread(u) == IF Alive(u, "child") THEN {u} ELSE {}

\* sweep_detached: TERM, DESCENDANT_SWEEP_GRACE, KILL, each signal after a
\* probe; a descendant that is sent TERM has ended by the time the sweep
\* returns, one way or the other, and one whose probe fails is left alone.
Swept(u, found) == {proc} \cup (IF found THEN {Killed(proc, u, {"detached"})} ELSE {})

Goto(u, to)  == sup' = [sup EXCEPT ![u] = to]
Climb(u, to) == rung' = [rung EXCEPT ![u] = to]

\* Whose record dies with u: its own child's before it is written, and the
\* one it has read, removed and not acted on.
Forgotten(u) ==
    CASE sup[u] = "record" -> {u}
      [] sup[u] \in {"term", "down"} -> {target[u]}
      [] OTHER -> {}

\* The process ends, which frees the lock and closes the child's stdin.
End(u, how) ==
    /\ sup' = [sup EXCEPT ![u] = how]
    /\ lock' = IF lock = u THEN NoSup ELSE lock
    /\ ctl' = [ctl EXCEPT ![u] = "none"]
    /\ rung' = [rung EXCEPT ![u] = "idle"]
    /\ seen' = [seen EXCEPT ![u] = FALSE]
    /\ input' = [input EXCEPT ![u] = "stop"]
    /\ lost' = lost \cup Forgotten(u)
-------------------------------------------------------------------------------
(***************************************************************************)
(* main: the lock, then the tree of a dead supervisor.                     *)
(***************************************************************************)
Launch(u) ==
    /\ sup[u] = "off"
    /\ \A w \in Sups : w < u => sup[w] # "off"
    /\ Goto(u, "locking")
    /\ UNCHANGED <<lock, rec, target, ladVars, procVars, lost, shellBounds>>

\* the loser activates the winner's window and exits
AcquireLock(u) ==
    /\ sup[u] = "locking"
    /\ IF lock = NoSup
       THEN Goto(u, "read") /\ lock' = u
       ELSE Goto(u, "closed") /\ UNCHANGED lock
    /\ UNCHANGED <<rec, target, ladVars, procVars, lost, shellBounds>>

\* Mutant: the record is read and the child taken for gone.
ReadRecordIgnores(u) ==
    /\ sup[u] = "read"
    /\ rec' = NoSup
    /\ Goto(u, "spawn")
    /\ UNCHANGED <<lock, target, ladVars, procVars, lost, shellBounds>>

\* Read and removed before anything is signalled; what the probe takes for
\* gone is not collected.
ReadRecord(u) ==
    /\ sup[u] = "read"
    /\ rec' = NoSup
    /\ \/ /\ rec = NoSup
          /\ Goto(u, "spawn")
          /\ UNCHANGED <<target, lost>>
       \/ /\ rec # NoSup
          /\ \E told \in Probes(rec) :
                IF told = "up"
                THEN /\ Goto(u, "term")
                     /\ target' = [target EXCEPT ![u] = rec]
                     /\ UNCHANGED lost
                ELSE /\ Goto(u, "spawn")
                     /\ lost' = lost \cup Misread(rec)
                     /\ UNCHANGED target
    /\ UNCHANGED <<lock, ladVars, procVars, shellBounds>>

CollectTerm(u) ==
    /\ sup[u] = "term"
    /\ \E found \in Walk(target[u]) : seen' = [seen EXCEPT ![u] = found]
    /\ TermGroup(target[u])
    /\ Goto(u, "down")
    /\ UNCHANGED <<lock, rec, target, ctl, rung, proc, bound, stuck, lost,
                   shellBounds>>

\* told gone within ORPHAN_COLLECT_GRACE, or KILL to the group
CollectDown(u) ==
    /\ sup[u] = "down"
    /\ \E told \in Probes(target[u]) :
          IF told = "up"
          THEN KillGroup(target[u]) /\ UNCHANGED lost
          ELSE lost' = lost \cup Misread(target[u]) /\ UNCHANGED proc
    /\ Goto(u, "sweep")
    /\ UNCHANGED <<lock, rec, target, ladVars, input, bound, stuck,
                   shellBounds>>

CollectSweep(u) ==
    /\ sup[u] = "sweep"
    /\ proc' \in Swept(target[u], seen[u])
    /\ Goto(u, "spawn")
    /\ UNCHANGED <<lock, rec, target, ladVars, input, bound, stuck, lost,
                   shellBounds>>
-------------------------------------------------------------------------------
(***************************************************************************)
(* run_cycle: spawn, launch frame, bound frame, probes, hand-over.         *)
(***************************************************************************)
\* The digest, the log or the signature check refuses the launch, or the
\* child leads a new process group.
SpawnChild(u) ==
    /\ sup[u] = "spawn"
    /\ \/ Goto(u, "failed") /\ UNCHANGED proc
       \/ /\ Goto(u, "record")
          /\ proc' = [proc EXCEPT ![u]["child"] = "live"]
    /\ seen' = [seen EXCEPT ![u] = FALSE]
    /\ UNCHANGED <<lock, rec, target, ctl, rung, input, bound, stuck, lost,
                   shellBounds>>

\* Best effort: a child that is gone has no identity to record, and a
\* record that cannot be written does not stop the launch.
RecordChild(u) ==
    /\ sup[u] = "record"
    /\ Goto(u, "launch")
    /\ \/ Alive(u, "child") /\ rec' = u /\ UNCHANGED lost
       \/ UNCHANGED rec /\ lost' = lost \cup {u}
    /\ UNCHANGED <<lock, target, ladVars, procVars, shellBounds>>

\* A failed write leaves no ChildControl: the pipe closes and nobody waits.
SendLaunch(u) ==
    /\ sup[u] = "launch"
    /\ IF Alive(u, "child")
       THEN /\ Goto(u, "await")
            /\ input' = [input EXCEPT ![u] = IF @ = "empty" THEN "launched"
                                             ELSE @]
            /\ ctl' = [ctl EXCEPT ![u] = "cycle"]
       ELSE /\ Goto(u, "failed")
            /\ input' = [input EXCEPT ![u] = "stop"]
            /\ UNCHANGED ctl
    /\ UNCHANGED <<lock, rec, target, rung, seen, proc, bound, stuck, lost,
                   shellBounds>>

\* bound, health, readiness and the MCP probe in time: the slot gets it
CycleOk(u) ==
    /\ sup[u] = "await"
    /\ u \in bound
    /\ Goto(u, "serve")
    /\ ctl' = [ctl EXCEPT ![u] = "slot"]
    /\ UNCHANGED <<lock, rec, target, rung, seen, procVars, lost, shellBounds>>

\* a deadline, a closed stdout or a wrong answer: the failure page, then
\* the ladder
CycleFails(u) ==
    /\ sup[u] = "await"
    /\ Goto(u, "ending")
    /\ Climb(u, "frame")
    /\ UNCHANGED <<lock, rec, target, ctl, seen, procVars, lost, shellBounds>>

\* Mutant: the watchdog does not look whether the slot still has it.
WatchdogTakes(u) ==
    /\ sup[u] = "serve"
    /\ proc[u]["child"] = "gone"
    /\ ctl' = [ctl EXCEPT ![u] = "none"]
    /\ Goto(u, "failed")
    /\ UNCHANGED <<lock, rec, target, rung, seen, procVars, lost, shellBounds>>

\* spawn_child_watchdog: reaps, shows the page, restarts and sweeps nothing
Watchdog(u) ==
    /\ sup[u] = "serve"
    /\ ctl[u] = "slot"
    /\ proc[u]["child"] = "gone"
    /\ ctl' = [ctl EXCEPT ![u] = "none"]
    /\ Goto(u, "failed")
    /\ UNCHANGED <<lock, rec, target, rung, seen, procVars, lost, shellBounds>>
-------------------------------------------------------------------------------
(***************************************************************************)
(* The two ways out.  Each takes the ChildControl from the slot or, when   *)
(* the slot is empty, ends the process at once.                            *)
(***************************************************************************)
TakeSlot(u, who) ==
    /\ ctl' = [ctl EXCEPT ![u] = who]
    /\ Climb(u, "frame")
    /\ UNCHANGED <<sup, lock, seen, input, lost>>

LeaveBy(u, who, as) ==
    /\ sup[u] \in Armed
    /\ ctl[u] # who
    /\ IF ctl[u] = "slot" THEN TakeSlot(u, who) ELSE End(u, as)
    /\ UNCHANGED <<rec, target, proc, bound, stuck, shellBounds>>

\* SIGTERM or SIGINT, seen by the thread of install_termination_handler
Signal(u) == LeaveBy(u, "signal", "signalled")

\* RunEvent::Exit: the window is closed
CloseWindow(u) == LeaveBy(u, "window", "closed")

\* Force Quit, kill -9, out of memory
Kill(u) ==
    /\ sup[u] \in Running
    /\ kills < MaxKills
    /\ kills' = kills + 1
    /\ End(u, "killed")
    /\ UNCHANGED <<rec, target, proc, bound, stuck, stucks>>
-------------------------------------------------------------------------------
(***************************************************************************)
(* shutdown_child: frame and EOF, ladder, sweep_descendants,               *)
(* sweep_detached.                                                         *)
(***************************************************************************)
LadderRest(u) == UNCHANGED <<supVars, ctl, bound, stuck, lost, shellBounds>>
SeeMore(u) ==
    \E found \in Walk(u) : seen' = [seen EXCEPT ![u] = @ \/ found]

SendShutdown(u) ==
    /\ rung[u] = "frame"
    /\ input' = [input EXCEPT ![u] = "stop"]
    /\ SeeMore(u)
    /\ Climb(u, "check")
    /\ UNCHANGED proc
    /\ LadderRest(u)

\* a stopped child is killed at once; ps may fail to tell
LadderCheck(u) ==
    /\ rung[u] = "check"
    /\ \/ /\ stuck[u] = "halted"
          /\ Alive(u, "child")
          /\ SeeMore(u)
          /\ KillGroup(u)
          /\ Climb(u, "reap")
       \/ /\ UNCHANGED <<seen, proc>>
          /\ Climb(u, "grace")
    /\ UNCHANGED input
    /\ LadderRest(u)

LadderGrace(u) ==
    /\ rung[u] = "grace"
    /\ IF proc[u]["child"] = "gone"
       THEN Climb(u, "group") /\ UNCHANGED <<seen, input>>
       ELSE Climb(u, "term") /\ SeeMore(u) /\ TermGroup(u)
    /\ UNCHANGED proc
    /\ LadderRest(u)

LadderTerm(u) ==
    /\ rung[u] = "term"
    /\ IF proc[u]["child"] = "gone"
       THEN Climb(u, "group") /\ UNCHANGED <<seen, proc>>
       ELSE Climb(u, "reap") /\ SeeMore(u) /\ KillGroup(u)
    /\ UNCHANGED input
    /\ LadderRest(u)

\* Mutant: the reaping has no budget.
LadderReapWaits(u) ==
    /\ rung[u] = "reap"
    /\ proc[u]["child"] = "gone"
    /\ Climb(u, "group")
    /\ UNCHANGED <<seen, proc, input>>
    /\ LadderRest(u)

\* reaped, or -1 after REAP_BUDGET_MS
LadderReap(u) ==
    /\ rung[u] = "reap"
    /\ Climb(u, "group")
    /\ UNCHANGED <<seen, proc, input>>
    /\ LadderRest(u)

\* Mutant: a group whose leader is reaped is taken for empty.
SweepGroupByLeader(u) ==
    /\ rung[u] = "group"
    /\ proc' = IF proc[u]["child"] = "gone" THEN proc
               ELSE Killed(proc, u, {"child", "group"})
    /\ Climb(u, "detached")
    /\ UNCHANGED <<seen, input>>
    /\ LadderRest(u)

\* TERM to whoever is left of the group, half a second, KILL
SweepGroup(u) ==
    /\ rung[u] = "group"
    /\ KillGroup(u)
    /\ Climb(u, "detached")
    /\ UNCHANGED <<seen, input>>
    /\ LadderRest(u)

SweepDetached(u) ==
    /\ rung[u] = "detached"
    /\ proc' \in Swept(u, seen[u])
    /\ Climb(u, "done")
    /\ UNCHANGED <<seen, input>>
    /\ LadderRest(u)

\* The cycle keeps the process up for its page; the two exits end it.
LadderDone(u) ==
    /\ rung[u] = "done"
    /\ IF ctl[u] = "cycle"
       THEN /\ Goto(u, "failed")
            /\ ctl' = [ctl EXCEPT ![u] = "none"]
            /\ Climb(u, "idle")
            /\ UNCHANGED <<lock, seen, input, lost>>
       ELSE End(u, IF ctl[u] = "signal" THEN "signalled" ELSE "closed")
    /\ UNCHANGED <<rec, target, proc, bound, stuck, shellBounds>>
-------------------------------------------------------------------------------
(***************************************************************************)
(* server/desktop_child.py and what it starts.                             *)
(***************************************************************************)
ChildRest == UNCHANGED <<supVars, ladVars, lost, kills>>

\* the warm-up ends before anyone asked it to stop: one bound frame
ChildBinds(u) ==
    /\ proc[u]["child"] = "live"
    /\ stuck[u] = "no"
    /\ input[u] = "launched"
    /\ u \notin bound
    /\ bound' = bound \cup {u}
    /\ UNCHANGED <<proc, input, stuck, stucks>>
    /\ ChildRest

\* should_exit: the drain ends the descendants it knows, then the process
ChildObeys(u) ==
    /\ proc[u]["child"] = "live"
    /\ stuck[u] = "no"
    /\ input[u] = "stop"
    /\ proc' = [Killed(proc, u, {"group", "detached"})
                  EXCEPT ![u]["child"] = "gone"]
    /\ bound' = bound \ {u}
    /\ UNCHANGED <<input, stuck, stucks>>
    /\ ChildRest

\* The end of a process; what a dead child had written or was stuck in is of
\* no use to anyone, and a descendant's place is free for another.
Over(u, k) ==
    /\ proc' = [proc EXCEPT ![u][k] = IF k = "child" THEN "gone" ELSE "none"]
    /\ IF k = "child"
       THEN bound' = bound \ {u} /\ stuck' = [stuck EXCEPT ![u] = "no"]
       ELSE UNCHANGED <<bound, stuck>>

\* an ingest in the group, a parse in a session of its own
ChildSpawns(u, k) ==
    /\ proc[u]["child"] = "live"
    /\ stuck[u] = "no"
    /\ u \in bound
    /\ proc[u][k] = "none"
    /\ proc' = [proc EXCEPT ![u][k] = "live"]
    /\ UNCHANGED <<input, bound, stuck, stucks>>
    /\ ChildRest

\* a crash of the child, the natural end of a descendant
Ends(u, k) ==
    /\ proc[u][k] = "live"
    /\ Over(u, k)
    /\ UNCHANGED <<input, stucks>>
    /\ ChildRest

\* SIGKILL takes effect
Dies(u) ==
    /\ proc[u]["child"] = "dying"
    /\ Over(u, "child")
    /\ UNCHANGED <<input, stucks>>
    /\ ChildRest

\* SIGSTOP, or a call that never returns
GetsStuck(u, how) ==
    /\ proc[u]["child"] = "live"
    /\ stuck[u] = "no"
    /\ stucks < MaxStuck
    /\ stucks' = stucks + 1
    /\ stuck' = [stuck EXCEPT ![u] = how]
    /\ UNCHANGED <<proc, input, bound>>
    /\ ChildRest

-------------------------------------------------------------------------------
MainStep(u) ==
    \/ AcquireLock(u) \/ ReadRecord(u) \/ CollectTerm(u) \/ CollectDown(u)
    \/ CollectSweep(u)
CycleStep(u) ==
    \/ SpawnChild(u) \/ RecordChild(u) \/ SendLaunch(u) \/ CycleOk(u)
    \/ CycleFails(u) \/ Watchdog(u)
LadderStep(u) ==
    \/ SendShutdown(u) \/ LadderCheck(u) \/ LadderGrace(u) \/ LadderTerm(u)
    \/ LadderReap(u) \/ SweepGroup(u) \/ SweepDetached(u) \/ LadderDone(u)

ShellNext ==
    \E u \in Sups :
        \/ Launch(u) \/ MainStep(u) \/ CycleStep(u) \/ LadderStep(u)
        \/ Signal(u) \/ CloseWindow(u) \/ Kill(u)
        \/ ChildBinds(u) \/ ChildObeys(u) \/ Dies(u)
        \/ \E k \in {"group", "detached"} : ChildSpawns(u, k)
        \/ \E k \in Kinds : Ends(u, k)
        \/ \E how \in {"halted", "wedged"} : GetsStuck(u, how)

ShellSpec == ShellInit /\ [][ShellNext]_shellVars

\* Every living supervisor goes on with what it is at: one of its threads at
\* a time has something to do and every wait has its deadline.  Nobody has to
\* start, close or kill the application, and no child has to do anything.
SupStep(u) == MainStep(u) \/ CycleStep(u) \/ LadderStep(u)
ShellFairness == \A u \in Sups : WF_shellVars(SupStep(u))

FairShellSpec == ShellSpec /\ ShellFairness

-------------------------------------------------------------------------------
\* A launch never meets the child of an earlier one: whatever killed the
\* supervisor before, whoever is in the middle of which ladder, at most one
\* child runs that was not lost (collect_orphan_tree under the lock, before
\* the spawn).  A child is lost in three ways only: its record was never
\* written, whoever collected it died over it, or a probe that failed or was
\* late took it for gone.
SpawnsAlone ==
    \A u, w \in Sups :
        proc[u]["child"] = "live" /\ proc[w]["child"] = "live" =>
            u = w \/ u \in lost \/ w \in lost

\* A ladder that runs to its end leaves nothing of the child's group: neither
\* a child that stopped or wedged nor an ingest it started in between.
LadderClears ==
    [][\A u \in Sups : LadderDone(u) =>
           proc[u]["child"] # "live" /\ proc[u]["group"] # "live"]_shellVars

\* A boot and a shutdown both come to an end, whatever the child does: the
\* window shows the console or the reason, or the process is gone.
Settles ==
    \A u \in Sups :
        sup[u] \in Running \ {"serve", "failed"} \/ rung[u] # "idle"
            ~> sup[u] \in Ended \cup {"serve", "failed"} /\ rung[u] = "idle"
===============================================================================
