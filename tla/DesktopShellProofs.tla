-------------------------- MODULE DesktopShellProofs --------------------------
(***************************************************************************)
(* Theorems about DesktopShell, for every number of supervisors, kills and *)
(* stuck children.                                                         *)
(***************************************************************************)
EXTENDS DesktopShell, TLAPS

USE DEF Sups, NoSup, Kinds

States == {"none", "live", "dying", "gone"}

-------------------------------------------------------------------------------
(***************************************************************************)
(* Types.  They take along who has the control when, and that whoever      *)
(* collects a tree knows whose.                                            *)
(***************************************************************************)
PlaceInv ==
    \A u \in Sups :
        /\ ctl[u] # "none" => sup[u] \in {"await", "serve", "ending"}
        /\ sup[u] = "await" => ctl[u] = "cycle" /\ rung[u] = "idle"
        /\ sup[u] \in Collecting => target[u] \in Sups

\* SIGKILL keeps types and revives nobody.
LEMMA KilledType ==
    ASSUME NEW p \in [Sups -> [Kinds -> States]], NEW u \in Sups, NEW ks \in SUBSET Kinds
    PROVE  /\ Killed(p, u, ks) \in [Sups -> [Kinds -> States]]
           /\ \A w \in Sups, k \in Kinds :
                /\ Killed(p, u, ks)[w][k] = "live" <=>
                       p[w][k] = "live" /\ ~(w = u /\ k \in ks)
                /\ p[w][k] = "none" => Killed(p, u, ks)[w][k] = "none"
<1>1. [k \in Kinds |-> IF k \in ks /\ p[u][k] = "live"
                       THEN IF k = "child" THEN "dying" ELSE "none"
                       ELSE p[u][k]] \in [Kinds -> States]
  BY DEF States
<1>2. Killed(p, u, ks) = [p EXCEPT ![u] =
         [k \in Kinds |-> IF k \in ks /\ p[u][k] = "live"
                          THEN IF k = "child" THEN "dying" ELSE "none"
                          ELSE p[u][k]]]
  BY DEF Killed
<1> QED
  BY <1>1, <1>2 DEF States

\* The initial state is well typed.
LEMMA InitTypes == ShellInit => ShellTypeOK /\ PlaceInv
  BY ShellBoundsAssumption
  DEF ShellInit, ShellTypeOK, PlaceInv, Rungs, Collecting

\* The end of a supervisor's process.
LEMMA EndTypes ==
    ASSUME ShellTypeOK, PlaceInv, NEW u \in Sups, NEW how \in Ended, End(u, how),
           UNCHANGED <<rec, target, proc, bound, stuck, stucks>>,
           kills' \in 0 .. MaxKills
    PROVE  ShellTypeOK' /\ PlaceInv'
<1>1. Forgotten(u) \subseteq Sups
  <2>1. CASE sup[u] = "record"
    BY <2>1 DEF Forgotten
  <2>2. CASE sup[u] \in {"term", "down"}
    BY <2>2 DEF Forgotten, PlaceInv, Collecting
  <2>3. CASE sup[u] \notin {"record", "term", "down"}
    BY <2>3 DEF Forgotten
  <2> QED
    BY <2>1, <2>2, <2>3
<1> QED
  BY <1>1 DEF ShellTypeOK, PlaceInv, End, Ended, Rungs, Collecting

\* A step of main or the cycle that only moves u to another place.
LEMMA GotoTypes ==
    ASSUME ShellTypeOK, PlaceInv, NEW u \in Sups, NEW to \in Running \cup Ended, Goto(u, to),
           to \in Collecting => target'[u] \in Sups,
           to # "await", ctl[u] # "none" => to \in {"serve", "ending"},
           UNCHANGED <<ctl, rung>>,
           target' \in [Sups -> Sups \cup {NoSup}],
           \A w \in Sups : w # u => target'[w] = target[w]
    PROVE  /\ sup' \in [Sups -> {"off"} \cup Ended \cup Running]
           /\ PlaceInv'
<1>1. \A w \in Sups : sup'[w] = IF w = u THEN to ELSE sup[w]
  BY DEF Goto, ShellTypeOK
<1>2. sup' \in [Sups -> {"off"} \cup Ended \cup Running]
  BY DEF Goto, ShellTypeOK
<1> QED
  BY <1>1, <1>2 DEF PlaceInv

\* The launch is written and the cycle has the control.
LEMMA AwaitTypes ==
    ASSUME ShellTypeOK, PlaceInv, NEW u \in Sups, rung[u] = "idle",
           sup' = [sup EXCEPT ![u] = "await"], ctl' = [ctl EXCEPT ![u] = "cycle"],
           input' \in [Sups -> {"empty", "launched", "stop"}],
           UNCHANGED <<lock, rec, target, rung, seen, proc, bound, stuck, lost, kills, stucks>>
    PROVE  ShellTypeOK' /\ PlaceInv'
<1>1. sup' \in [Sups -> {"off"} \cup Ended \cup Running]
  BY DEF ShellTypeOK, Running, Armed
<1>2. ctl' \in [Sups -> {"none", "cycle", "slot", "signal", "window"}]
      /\ \A w \in Sups : rung'[w] # "idle" => ctl'[w] \in {"cycle", "signal", "window"}
  BY DEF ShellTypeOK
<1>3. PlaceInv'
  BY DEF ShellTypeOK, PlaceInv, Collecting
<1> QED
  BY <1>1, <1>2, <1>3 DEF ShellTypeOK

\* Every step keeps them.
LEMMA NextTypes == ShellTypeOK /\ PlaceInv /\ [ShellNext]_shellVars => ShellTypeOK' /\ PlaceInv'
<1> SUFFICES ASSUME ShellTypeOK, PlaceInv, [ShellNext]_shellVars
             PROVE  ShellTypeOK' /\ PlaceInv'
  OBVIOUS
<1> USE DEF supVars, ladVars, procVars, shellBounds
<1>0. proc \in [Sups -> [Kinds -> States]]
  BY DEF ShellTypeOK, States
\* main and the cycle, as far as nobody has the control
<1>1. ASSUME NEW u \in Sups, NEW to \in Running \cup Ended, Goto(u, to),
             ctl[u] = "none", to # "await",
             to \in Collecting => target'[u] \in Sups,
             UNCHANGED <<ctl, rung, stuck, shellBounds>>,
             \A w \in Sups : w # u => target'[w] = target[w],
             target' \in [Sups -> Sups \cup {NoSup}],
             lock' \in Sups \cup {NoSup}, rec' \in Sups \cup {NoSup},
             seen' \in [Sups -> BOOLEAN], proc' \in [Sups -> [Kinds -> States]],
             input' \in [Sups -> {"empty", "launched", "stop"}],
             bound' \subseteq Sups, lost' \subseteq Sups
      PROVE  ShellTypeOK' /\ PlaceInv'
  <2>1. sup' \in [Sups -> {"off"} \cup Ended \cup Running] /\ PlaceInv'
    BY <1>1, GotoTypes
  <2> QED
    BY <1>1, <2>1 DEF ShellTypeOK, States
<1>2. /\ sup \in [Sups -> {"off"} \cup Ended \cup Running]
      /\ target \in [Sups -> Sups \cup {NoSup}]
      /\ lock \in Sups \cup {NoSup} /\ rec \in Sups \cup {NoSup}
      /\ seen \in [Sups -> BOOLEAN]
      /\ input \in [Sups -> {"empty", "launched", "stop"}]
      /\ bound \subseteq Sups /\ lost \subseteq Sups
      /\ \A u \in Sups : sup[u] \notin {"await", "serve", "ending"} => ctl[u] = "none"
      /\ \A u \in Sups : sup[u] \in Collecting => target[u] \in Sups
  BY DEF ShellTypeOK, PlaceInv
<1>3. /\ {"locking", "read", "term", "down", "sweep", "spawn", "record", "launch",
          "await", "serve", "ending", "failed", "closed"} \subseteq Running \cup Ended
      /\ Collecting = {"term", "down", "sweep"}
  BY DEF Running, Ended, Collecting, Armed
<1>4. ASSUME NEW u \in Sups, MainStep(u) \/ Launch(u)
      PROVE  ShellTypeOK' /\ PlaceInv'
  <2>1. CASE Launch(u)
    <3>1. ctl[u] = "none" /\ Goto(u, "locking")
      BY <1>2, <2>1 DEF Launch
    <3> QED
      BY <1>0, <1>1, <1>2, <1>3, <2>1, <3>1 DEF Launch
  <2>2. CASE AcquireLock(u)
    <3>1. PICK to \in {"read", "closed"} : Goto(u, to) /\ lock' \in {lock, u}
      BY <2>2 DEF AcquireLock
    <3>2. ctl[u] = "none"
      BY <1>2, <2>2 DEF AcquireLock
    <3> QED
      BY <1>0, <1>1, <1>2, <1>3, <2>2, <3>1, <3>2 DEF AcquireLock
  <2>3. CASE ReadRecord(u)
    <3>1. PICK to \in {"term", "spawn"} :
             /\ Goto(u, to)
             /\ to = "spawn" => target' = target
             /\ to = "term" => rec # NoSup /\ target' = [target EXCEPT ![u] = rec]
      BY <2>3 DEF ReadRecord
    <3>2. ctl[u] = "none" /\ rec' = NoSup /\ lost' \subseteq Sups
      BY <1>2, <2>3 DEF ReadRecord, Misread
    <3>3. /\ to \in Collecting => target'[u] \in Sups
          /\ \A w \in Sups : w # u => target'[w] = target[w]
          /\ target' \in [Sups -> Sups \cup {NoSup}]
      <4>1. CASE to = "spawn"
        BY <1>2, <1>3, <3>1, <4>1
      <4>2. CASE to = "term"
        <5>1. rec \in Sups /\ target' = [target EXCEPT ![u] = rec]
          BY <1>2, <3>1, <4>2
        <5> QED
          BY <1>2, <5>1
      <4> QED
        BY <3>1, <4>1, <4>2
    <3> QED
      BY <1>0, <1>1, <1>2, <1>3, <2>3, <3>1, <3>2, <3>3 DEF ReadRecord
  <2>4. CASE CollectTerm(u)
    <3>1. /\ Goto(u, "down") /\ ctl[u] = "none" /\ target[u] \in Sups
          /\ seen' \in [Sups -> BOOLEAN]
          /\ input' \in [Sups -> {"empty", "launched", "stop"}]
      BY <1>2, <1>3, <2>4 DEF CollectTerm, TermGroup, Walk, Alive
    <3> QED
      BY <1>0, <1>1, <1>2, <1>3, <2>4, <3>1 DEF CollectTerm
  <2>5. CASE CollectDown(u) \/ CollectSweep(u)
    <3>1. PICK to \in {"sweep", "spawn"} : Goto(u, to)
      BY <2>5 DEF CollectDown, CollectSweep
    <3>2. ctl[u] = "none" /\ target[u] \in Sups
      BY <1>2, <1>3, <2>5 DEF CollectDown, CollectSweep
    <3>3. proc' \in [Sups -> [Kinds -> States]]
      BY <1>0, <2>5, <3>2, KilledType DEF CollectDown, CollectSweep, KillGroup, Swept
    <3>4. lost' \subseteq Sups
      BY <1>2, <2>5, <3>2 DEF CollectDown, CollectSweep, Misread
    <3> QED
      BY <1>1, <1>2, <1>3, <2>5, <3>1, <3>2, <3>3, <3>4 DEF CollectDown, CollectSweep
  <2> QED
    BY <1>4, <2>1, <2>2, <2>3, <2>4, <2>5 DEF MainStep
<1>5. ASSUME NEW u \in Sups, CycleStep(u)
      PROVE  ShellTypeOK' /\ PlaceInv'
  <2>1. CASE SpawnChild(u)
    <3>1. PICK to \in {"failed", "record"} : Goto(u, to)
      BY <2>1 DEF SpawnChild
    <3>2. proc' \in [Sups -> [Kinds -> States]]
      BY <1>0, <2>1 DEF SpawnChild, States
    <3>3. ctl[u] = "none"
      BY <1>2, <2>1 DEF SpawnChild
    <3> QED
      BY <1>1, <1>2, <1>3, <2>1, <3>1, <3>2, <3>3 DEF SpawnChild
  <2>2. CASE RecordChild(u)
    <3>1. ctl[u] = "none" /\ Goto(u, "launch") /\ rec' \in Sups \cup {NoSup} /\ lost' \subseteq Sups
      BY <1>2, <2>2 DEF RecordChild
    <3> QED
      BY <1>0, <1>1, <1>2, <1>3, <2>2, <3>1 DEF RecordChild
  <2>3. CASE SendLaunch(u)
    <3>1. ctl[u] = "none" /\ rung[u] = "idle"
      BY <1>2, <2>3 DEF SendLaunch, ShellTypeOK
    <3>2. input' \in [Sups -> {"empty", "launched", "stop"}]
      BY <1>2, <2>3 DEF SendLaunch
    <3>3. CASE Alive(u, "child")
      <4>1. /\ sup' = [sup EXCEPT ![u] = "await"] /\ ctl' = [ctl EXCEPT ![u] = "cycle"]
            /\ UNCHANGED <<lock, rec, target, rung, seen, proc, bound, stuck, lost, kills, stucks>>
        BY <2>3, <3>3 DEF SendLaunch, Goto
      <4> QED
        BY <3>1, <3>2, <4>1, AwaitTypes
    <3>4. CASE ~Alive(u, "child")
      BY <1>0, <1>1, <1>2, <1>3, <2>3, <3>1, <3>2, <3>4 DEF SendLaunch
    <3> QED
      BY <3>3, <3>4
  <2>4. CASE CycleOk(u)
    BY <1>2, <1>3, <2>4 DEF CycleOk, Goto, ShellTypeOK, PlaceInv
  <2>5. CASE CycleFails(u)
    BY <1>2, <1>3, <2>5 DEF CycleFails, Goto, Climb, Rungs, ShellTypeOK, PlaceInv
  <2>6. CASE Watchdog(u)
    BY <1>2, <1>3, <2>6 DEF Watchdog, Goto, ShellTypeOK, PlaceInv
  <2> QED
    BY <1>5, <2>1, <2>2, <2>3, <2>4, <2>5, <2>6 DEF CycleStep
<1>6. ASSUME NEW u \in Sups, Signal(u) \/ CloseWindow(u) \/ Kill(u)
      PROVE  ShellTypeOK' /\ PlaceInv'
  <2>1. CASE Kill(u)
    BY <2>1, EndTypes, ShellBoundsAssumption DEF Kill, Ended, ShellTypeOK
  <2>2. ASSUME NEW who \in {"signal", "window"}, NEW as \in {"signalled", "closed"},
               LeaveBy(u, who, as)
        PROVE  ShellTypeOK' /\ PlaceInv'
    <3>1. CASE ctl[u] = "slot"
      <4>1. /\ ctl' = [ctl EXCEPT ![u] = who] /\ rung' = [rung EXCEPT ![u] = "frame"]
            /\ UNCHANGED <<supVars, seen, procVars, lost, shellBounds>>
        BY <2>2, <3>1 DEF LeaveBy, TakeSlot, Climb
      <4>2. sup[u] = "serve" \/ sup[u] = "ending"
        BY <3>1 DEF PlaceInv
      <4>3. PlaceInv'
        BY <4>1, <4>2 DEF PlaceInv, ShellTypeOK
      <4>4. ctl' \in [Sups -> {"none", "cycle", "slot", "signal", "window"}]
            /\ rung' \in [Sups -> Rungs]
            /\ \A w \in Sups : rung'[w] # "idle" => ctl'[w] \in {"cycle", "signal", "window"}
        BY <4>1 DEF ShellTypeOK, Rungs
      <4> QED
        BY <4>1, <4>3, <4>4 DEF ShellTypeOK
    <3>2. CASE ctl[u] # "slot"
      BY <2>2, <3>2, EndTypes DEF LeaveBy, Ended, ShellTypeOK
    <3> QED
      BY <3>1, <3>2
  <2> QED
    BY <1>6, <2>1, <2>2 DEF Signal, CloseWindow
<1>7. ASSUME NEW u \in Sups, LadderStep(u)
      PROVE  ShellTypeOK' /\ PlaceInv'
  <2>1. rung[u] # "idle" /\ ctl[u] \in {"cycle", "signal", "window"} /\ sup[u] \in {"serve", "ending"}
    BY <1>7 DEF LadderStep, SendShutdown, LadderCheck, LadderGrace, LadderTerm, LadderReap,
                SweepGroup, SweepDetached, LadderDone, ShellTypeOK, PlaceInv
  <2>2. CASE ~LadderDone(u)
    <3>1. PICK to \in Rungs : Climb(u, to) /\ LadderRest(u)
      BY <1>7, <2>2 DEF LadderStep, SendShutdown, LadderCheck, LadderGrace, LadderTerm,
                        LadderReap, SweepGroup, SweepDetached, Rungs
    <3>2. seen' \in [Sups -> BOOLEAN]
      BY <1>2, <1>7, <2>2 DEF LadderStep, SendShutdown, LadderCheck, LadderGrace, LadderTerm,
                              LadderReap, SweepGroup, SweepDetached, SeeMore, Walk, Alive
    <3>3. input' \in [Sups -> {"empty", "launched", "stop"}]
      BY <1>2, <1>7, <2>2 DEF LadderStep, SendShutdown, LadderCheck, LadderGrace, LadderTerm,
                              LadderReap, SweepGroup, SweepDetached, TermGroup
    <3>4. proc' = proc \/ proc' \in {Killed(proc, u, ks) : ks \in SUBSET Kinds}
      BY <1>7, <2>2 DEF LadderStep, SendShutdown, LadderCheck, LadderGrace, LadderTerm,
                        LadderReap, SweepGroup, SweepDetached, KillGroup, Swept
    <3>5. proc' \in [Sups -> [Kinds -> States]]
      <4>1. CASE proc' = proc
        BY <1>0, <4>1
      <4>2. ASSUME NEW ks \in SUBSET Kinds, proc' = Killed(proc, u, ks)
            PROVE  proc' \in [Sups -> [Kinds -> States]]
        BY <1>0, <4>2, KilledType
      <4> QED
        BY <3>4, <4>1, <4>2
    <3>6. PlaceInv'
      BY <2>1, <3>1 DEF Climb, LadderRest, ShellTypeOK, PlaceInv
    <3> QED
      BY <2>1, <3>1, <3>2, <3>3, <3>5, <3>6 DEF Climb, LadderRest, ShellTypeOK, States
  <2>3. CASE LadderDone(u)
    <3>1. CASE ctl[u] = "cycle"
      <4>1. /\ sup' = [sup EXCEPT ![u] = "failed"] /\ ctl' = [ctl EXCEPT ![u] = "none"]
            /\ rung' = [rung EXCEPT ![u] = "idle"]
            /\ UNCHANGED <<lock, rec, target, seen, procVars, lost, shellBounds>>
        BY <2>3, <3>1 DEF LadderDone, Goto, Climb
      <4>2. PlaceInv'
        BY <1>3, <4>1 DEF PlaceInv, ShellTypeOK
      <4>3. ctl' \in [Sups -> {"none", "cycle", "slot", "signal", "window"}]
            /\ rung' \in [Sups -> Rungs]
            /\ \A w \in Sups : rung'[w] # "idle" => ctl'[w] \in {"cycle", "signal", "window"}
        BY <4>1 DEF ShellTypeOK, Rungs
      <4>4. sup' \in [Sups -> {"off"} \cup Ended \cup Running]
        BY <1>2, <1>3, <4>1
      <4> QED
        BY <4>1, <4>2, <4>3, <4>4 DEF ShellTypeOK
    <3>2. CASE ctl[u] # "cycle"
      <4>1. PICK how \in Ended : End(u, how)
        BY <2>3, <3>2 DEF LadderDone, Ended
      <4> QED
        BY <2>3, <4>1, EndTypes DEF LadderDone, ShellTypeOK
    <3> QED
      BY <3>1, <3>2
  <2> QED
    BY <2>2, <2>3
<1>8. ASSUME ChildRest, proc' \in [Sups -> [Kinds -> States]],
             input' = input, bound' \subseteq Sups,
             stuck' \in [Sups -> {"no", "halted", "wedged"}], stucks' \in 0 .. MaxStuck
      PROVE  ShellTypeOK' /\ PlaceInv'
  BY <1>8 DEF ChildRest, ShellTypeOK, PlaceInv, States
<1>9. ASSUME NEW u \in Sups,
             \/ ChildBinds(u) \/ ChildObeys(u) \/ Dies(u)
             \/ \E k \in {"group", "detached"} : ChildSpawns(u, k)
             \/ \E k \in Kinds : Ends(u, k)
             \/ \E how \in {"halted", "wedged"} : GetsStuck(u, how)
      PROVE  ShellTypeOK' /\ PlaceInv'
  <2>0. stuck \in [Sups -> {"no", "halted", "wedged"}] /\ stucks \in 0 .. MaxStuck
    BY DEF ShellTypeOK
  <2>1. CASE ChildBinds(u)
    BY <1>0, <1>2, <1>8, <2>0, <2>1 DEF ChildBinds
  <2>2. CASE ChildObeys(u)
    <3>1. proc' \in [Sups -> [Kinds -> States]]
      <4>1. PICK p : p = Killed(proc, u, {"group", "detached"})
        OBVIOUS
      <4>2. p \in [Sups -> [Kinds -> States]]
        BY <1>0, <4>1, KilledType
      <4>3. proc' = [p EXCEPT ![u]["child"] = "gone"]
        BY <2>2, <4>1 DEF ChildObeys
      <4> QED
        BY <4>2, <4>3 DEF States
    <3> QED
      BY <1>2, <1>8, <2>0, <2>2, <3>1 DEF ChildObeys
  <2>3. ASSUME NEW k \in Kinds, Over(u, k)
        PROVE  /\ proc' \in [Sups -> [Kinds -> States]] /\ bound' \subseteq Sups
               /\ stuck' \in [Sups -> {"no", "halted", "wedged"}]
    BY <1>0, <1>2, <2>0, <2>3 DEF Over, States
  <2>4. CASE Dies(u) \/ \E k \in Kinds : Ends(u, k)
    <3>1. PICK k \in Kinds : Over(u, k)
      BY <2>4 DEF Dies, Ends
    <3> QED
      BY <1>8, <2>0, <2>3, <2>4, <3>1 DEF Dies, Ends
  <2>5. CASE \E k \in {"group", "detached"} : ChildSpawns(u, k)
    <3>1. proc' \in [Sups -> [Kinds -> States]]
      BY <1>0, <2>5 DEF ChildSpawns, States
    <3> QED
      BY <1>2, <1>8, <2>0, <2>5, <3>1 DEF ChildSpawns
  <2>6. CASE \E how \in {"halted", "wedged"} : GetsStuck(u, how)
    <3>1. stuck' \in [Sups -> {"no", "halted", "wedged"}] /\ stucks' \in 0 .. MaxStuck
      BY <2>0, <2>6, ShellBoundsAssumption DEF GetsStuck
    <3> QED
      BY <1>0, <1>2, <1>8, <2>6, <3>1 DEF GetsStuck
  <2> QED
    BY <1>9, <2>1, <2>2, <2>4, <2>5, <2>6
<1>10. CASE UNCHANGED shellVars
  BY <1>10 DEF shellVars, ShellTypeOK, PlaceInv
<1> QED
  BY <1>4, <1>5, <1>6, <1>7, <1>9, <1>10 DEF ShellNext

\* Types hold in every instance.
THEOREM ShellTypeCorrect == ShellSpec => []ShellTypeOK
  BY InitTypes, NextTypes, PTL DEF ShellSpec
-------------------------------------------------------------------------------
(***************************************************************************)
(* Who knows of a child.  A supervisor past the lock holds it and has no   *)
(* child before it spawns one; while it collects or runs a child the       *)
(* record is its own or nobody's; and a child that lives and was not lost  *)
(* is the present supervisor's own, named by the record, or about to be    *)
(* collected.                                                              *)
(***************************************************************************)
Unborn == {"off", "locking", "read", "spawn"} \cup Collecting

LockInv   == \A u \in Sups : sup[u] \in Running \ {"locking"} => lock = u
UnbornInv == \A u \in Sups : sup[u] \in Unborn => proc[u]["child"] = "none"
RecordInv == \A u \in Sups : sup[u] \in Collecting \cup Armed => rec \in {NoSup, u}
OwnInv    == \A u \in Sups :
    sup[u] \in Armed \ {"spawn", "record"} /\ proc[u]["child"] = "live"
        => rec = u \/ u \in lost
KnownInv  == \A w \in Sups :
    proc[w]["child"] = "live" =>
        \/ w \in lost
        \/ sup[w] \in Armed
        \/ rec = w
        \/ \E u \in Sups : sup[u] \in {"term", "down"} /\ target[u] = w

KeepInv == LockInv /\ UnbornInv /\ RecordInv /\ OwnInv /\ KnownInv

\* What it is for.
LEMMA KeepSpawnsAlone == ShellTypeOK /\ PlaceInv /\ KeepInv => SpawnsAlone
<1> SUFFICES ASSUME ShellTypeOK, PlaceInv, KeepInv, NEW u \in Sups, NEW w \in Sups,
                    proc[u]["child"] = "live", proc[w]["child"] = "live",
                    u \notin lost, w \notin lost
             PROVE  u = w
  BY DEF SpawnsAlone
<1>1. \A x, y \in Sups : sup[x] \in Collecting \cup Armed /\ sup[y] \in Collecting \cup Armed
                           => x = y
  BY DEF KeepInv, LockInv, Running, Collecting, Armed
<1>2. ASSUME NEW x \in Sups, NEW y \in Sups, x # y, sup[x] \in Armed,
             y \notin lost, proc[y]["child"] = "live"
      PROVE  FALSE
  <2>1. rec # y
    BY <1>2 DEF KeepInv, RecordInv
  <2>2. sup[y] \notin Armed
    BY <1>1, <1>2
  <2>3. \A z \in Sups : sup[z] \notin {"term", "down"}
    <3>1. sup[x] \notin {"term", "down"}
      BY <1>2 DEF Armed
    <3> QED
      BY <1>1, <1>2, <3>1 DEF Collecting
  <2> QED
    BY <1>2, <2>1, <2>2, <2>3 DEF KeepInv, KnownInv
<1>3. CASE sup[u] \in Armed \/ sup[w] \in Armed
  BY <1>2, <1>3
<1>4. ASSUME NEW x \in Sups, NEW y \in Sups, proc[x]["child"] = "live", rec = x,
             sup[y] \in {"term", "down"}
      PROVE  FALSE
  <2>1. y = x
    BY <1>4 DEF KeepInv, RecordInv, Collecting
  <2> QED
    BY <1>4, <2>1 DEF KeepInv, UnbornInv, Unborn, Collecting
<1>5. CASE sup[u] \notin Armed /\ sup[w] \notin Armed
  <2>1. rec = u \/ \E x \in Sups : sup[x] \in {"term", "down"} /\ target[x] = u
    BY <1>5 DEF KeepInv, KnownInv
  <2>2. rec = w \/ \E x \in Sups : sup[x] \in {"term", "down"} /\ target[x] = w
    BY <1>5 DEF KeepInv, KnownInv
  <2> QED
    BY <1>1, <1>4, <2>1, <2>2 DEF Collecting
<1> QED
  BY <1>3, <1>5

\* Nothing is known and nothing lives in the initial state.
LEMMA InitKeep == ShellInit => KeepInv
  BY DEF ShellInit, KeepInv, LockInv, UnbornInv, RecordInv, OwnInv, KnownInv, Running,
         Collecting, Armed

\* No child is born.
NoBirth == \A w \in Sups : /\ proc'[w]["child"] = "live" => proc[w]["child"] = "live"
                           /\ proc[w]["child"] = "none" => proc'[w]["child"] = "none"

\* Steps of ladders and children.
LEMMA QuietKeeps ==
    ASSUME KeepInv, NoBirth, UNCHANGED <<supVars, lost>>
    PROVE  KeepInv'
  BY DEF KeepInv, LockInv, UnbornInv, RecordInv, OwnInv, KnownInv, NoBirth, supVars

\* A supervisor moves on while it has its child.
LEMMA ArmedKeeps ==
    ASSUME ShellTypeOK, KeepInv, NEW u \in Sups, NEW to \in Armed \ {"spawn", "record"},
           sup[u] \in Armed \ {"spawn", "record"}, sup' = [sup EXCEPT ![u] = to],
           UNCHANGED <<lock, rec, target, proc, lost>>
    PROVE  KeepInv'
<1>1. \A w \in Sups : sup'[w] = IF w = u THEN to ELSE sup[w]
  BY DEF ShellTypeOK
<1>2. /\ Armed \cap Collecting = {} /\ Armed \subseteq Running \ {"locking"}
      /\ (Armed \ {"spawn"}) \cap Unborn = {} /\ "record" \in Armed
  BY DEF Armed, Collecting, Running, Unborn
<1> QED
  BY <1>1, <1>2 DEF KeepInv, LockInv, UnbornInv, RecordInv, OwnInv, KnownInv, Collecting

\* Whatever ends a supervisor, what it knew of is in the record or lost.
LEMMA EndKeeps ==
    ASSUME ShellTypeOK, PlaceInv, KeepInv, NEW u \in Sups, NEW how \in Ended, End(u, how),
           sup[u] \in Running, UNCHANGED <<rec, target, proc>>
    PROVE  KeepInv'
<1>1. /\ \A w \in Sups : sup'[w] = IF w = u THEN how ELSE sup[w]
      /\ lost' = lost \cup Forgotten(u)
      /\ lock' = IF lock = u THEN NoSup ELSE lock
  BY DEF ShellTypeOK, End
<1>2. how \notin Running /\ how \notin Unborn /\ how \notin Armed /\ how \notin Collecting
  BY DEF Ended, Running, Unborn, Armed, Collecting
<1>3. /\ sup[u] = "record" => u \in lost'
      /\ sup[u] \in {"term", "down"} => target[u] \in lost'
  BY <1>1 DEF Forgotten
<1>4. LockInv' /\ UnbornInv' /\ RecordInv' /\ OwnInv'
  BY <1>1, <1>2 DEF KeepInv, LockInv, UnbornInv, RecordInv, OwnInv
<1>5. KnownInv'
  <2> SUFFICES ASSUME NEW w \in Sups, proc[w]["child"] = "live", w \notin lost',
                      sup'[w] \notin Armed, rec # w
               PROVE  \E x \in Sups : sup'[x] \in {"term", "down"} /\ target'[x] = w
    BY DEF KnownInv
  <2>1. w \notin lost
    BY <1>1
  <2>2. sup[w] \notin Armed
    <3> SUFFICES ASSUME sup[w] \in Armed PROVE FALSE
      OBVIOUS
    <3>1. w = u
      BY <1>1
    <3>2. sup[u] = "spawn" \/ sup[u] = "record" \/ sup[u] \in Armed \ {"spawn", "record"}
      BY <3>1
    <3>3. sup[u] # "spawn"
      BY <3>1 DEF KeepInv, UnbornInv, Unborn
    <3>4. sup[u] # "record"
      BY <1>3, <3>1
    <3> QED
      BY <2>1, <3>1, <3>2, <3>3, <3>4 DEF KeepInv, OwnInv
  <2>3. PICK x \in Sups : sup[x] \in {"term", "down"} /\ target[x] = w
    BY <2>1, <2>2 DEF KeepInv, KnownInv
  <2>4. x # u
    BY <1>3, <2>3
  <2> QED
    BY <1>1, <2>3, <2>4
<1> QED
  BY <1>4, <1>5 DEF KeepInv

\* Children and their descendants bring no child to life.
LEMMA ChildNoBirth ==
    ASSUME proc \in [Sups -> [Kinds -> States]], NEW u \in Sups,
           \/ ChildBinds(u) \/ ChildObeys(u) \/ Dies(u)
           \/ \E k \in {"group", "detached"} : ChildSpawns(u, k)
           \/ \E k \in Kinds : Ends(u, k)
           \/ \E how \in {"halted", "wedged"} : GetsStuck(u, how)
    PROVE  NoBirth
<1>1. CASE ChildObeys(u)
  <2>1. PICK p : p = Killed(proc, u, {"group", "detached"})
    OBVIOUS
  <2>2. p \in [Sups -> [Kinds -> States]]
    BY <2>1, KilledType
  <2>4. \A w \in Sups : /\ p[w]["child"] = "live" => proc[w]["child"] = "live"
                        /\ proc[w]["child"] = "none" => p[w]["child"] = "none"
    BY <2>1 DEF Killed
  <2>3. proc' = [p EXCEPT ![u]["child"] = "gone"] /\ proc[u]["child"] = "live"
    BY <1>1, <2>1 DEF ChildObeys
  <2> QED
    BY <2>2, <2>3, <2>4 DEF NoBirth
<1>2. CASE ChildBinds(u) \/ \E how \in {"halted", "wedged"} : GetsStuck(u, how)
  BY <1>2 DEF ChildBinds, GetsStuck, NoBirth
<1>3. ASSUME NEW k \in {"group", "detached"}, ChildSpawns(u, k)
      PROVE  NoBirth
  BY <1>3 DEF ChildSpawns, NoBirth
<1>4. ASSUME NEW k \in Kinds, Over(u, k), proc[u][k] \in {"live", "dying"}
      PROVE  NoBirth
  <2>1. PICK x \in {"gone", "none"} : proc' = [proc EXCEPT ![u][k] = x]
    BY <1>4 DEF Over
  <2> QED
    BY <1>4, <2>1 DEF NoBirth
<1> QED
  BY <1>1, <1>2, <1>3, <1>4 DEF Dies, Ends

\* Every step keeps what is known.
LEMMA NextKeep ==
    ShellTypeOK /\ PlaceInv /\ KeepInv /\ [ShellNext]_shellVars => KeepInv'
<1> SUFFICES ASSUME ShellTypeOK, PlaceInv, KeepInv, [ShellNext]_shellVars
             PROVE  KeepInv'
  OBVIOUS
<1> USE DEF supVars, ladVars, procVars, shellBounds
<1>0. /\ proc \in [Sups -> [Kinds -> States]]
      /\ sup \in [Sups -> {"off"} \cup Ended \cup Running]
      /\ target \in [Sups -> Sups \cup {NoSup}]
  BY DEF ShellTypeOK, States
<1>1. /\ Armed \cap Collecting = {}
      /\ (Armed \cup Collecting) \subseteq Running \ {"locking"}
      /\ (Armed \ {"spawn"}) \cap Unborn = {}
      /\ \A a \in {"spawn", "record", "launch", "await", "serve", "ending", "failed"} : a \in Armed
      /\ \A a \in {"term", "down", "sweep"} : a \in Collecting /\ a \in Unborn
      /\ \A a \in {"off", "locking", "read"} : a \in Unborn /\ a \notin Armed /\ a \notin Collecting
      /\ "closed" \notin Running /\ "closed" \notin Unborn
      /\ "read" \in Running
  BY DEF Armed, Collecting, Running, Unborn
<1>2. \A u, w \in Sups : sup[u] \in Running \ {"locking"} /\ sup[w] \in Running \ {"locking"}
                           => u = w
  BY DEF KeepInv, LockInv
<1>3. ASSUME NEW u \in Sups, NEW to, Goto(u, to)
      PROVE  \A w \in Sups : sup'[w] = IF w = u THEN to ELSE sup[w]
  BY <1>0, <1>3 DEF Goto
<1>4. ASSUME NEW u \in Sups, Launch(u) \/ AcquireLock(u)
      PROVE  KeepInv'
  <2>1. CASE Launch(u)
    <3>1. \A w \in Sups : sup'[w] = IF w = u THEN "locking" ELSE sup[w]
      BY <1>3, <2>1 DEF Launch
    <3>2. sup[u] = "off" /\ UNCHANGED <<lock, rec, target, proc, lost>>
      BY <2>1 DEF Launch
    <3> QED
      BY <1>1, <3>1, <3>2 DEF KeepInv, LockInv, UnbornInv, RecordInv, OwnInv, KnownInv
  <2>2. CASE AcquireLock(u)
    <3>1. PICK to \in {"read", "closed"} :
             /\ Goto(u, to)
             /\ to = "read" => lock = NoSup /\ lock' = u
             /\ to = "closed" => lock' = lock
      BY <2>2 DEF AcquireLock
    <3>2. \A w \in Sups : sup'[w] = IF w = u THEN to ELSE sup[w]
      BY <1>3, <3>1
    <3>3. sup[u] = "locking" /\ UNCHANGED <<rec, target, proc, lost>>
      BY <2>2 DEF AcquireLock
    <3>4. LockInv'
      BY <1>1, <3>1, <3>2, <3>3 DEF KeepInv, LockInv
    <3>5. UnbornInv' /\ RecordInv' /\ OwnInv' /\ KnownInv'
      <4>1. to \notin Armed /\ to \notin Collecting
        BY <1>1 DEF Running
      <4> QED
        BY <1>1, <3>1, <3>2, <3>3, <4>1 DEF KeepInv, UnbornInv, RecordInv, OwnInv, KnownInv
    <3> QED
      BY <3>4, <3>5 DEF KeepInv
  <2> QED
    BY <1>4, <2>1, <2>2
<1>5. ASSUME NEW u \in Sups, ReadRecord(u)
      PROVE  KeepInv'
  <2>1. PICK to \in {"term", "spawn"} :
           /\ Goto(u, to)
           /\ to = "spawn" => /\ target' = target
                              /\ rec = NoSup \/ proc[rec]["child"] # "live" \/ rec \in lost'
           /\ to = "term" => rec # NoSup /\ target' = [target EXCEPT ![u] = rec]
    BY <1>5 DEF ReadRecord, Misread, Alive
  <2>2. /\ sup[u] = "read" /\ rec' = NoSup /\ lost \subseteq lost'
        /\ UNCHANGED <<lock, proc>>
    BY <1>5 DEF ReadRecord
  <2>3. \A w \in Sups : sup'[w] = IF w = u THEN to ELSE sup[w]
    BY <1>3, <2>1
  <2>4. \A w \in Sups : w # u => sup[w] \notin Armed \cup Collecting
    BY <1>1, <1>2, <2>2
  <2>5. LockInv' /\ UnbornInv' /\ RecordInv' /\ OwnInv'
    BY <1>1, <2>1, <2>2, <2>3, <2>4 DEF KeepInv, LockInv, UnbornInv, RecordInv, OwnInv
  <2>6. KnownInv'
    <3> SUFFICES ASSUME NEW w \in Sups, proc[w]["child"] = "live", w \notin lost'
                 PROVE  \E x \in Sups : sup'[x] \in {"term", "down"} /\ target'[x] = w
      BY <2>2 DEF KnownInv
    <3>0. w \notin lost
      BY <2>2
    <3>1. w # u
      BY <1>1, <2>2 DEF KeepInv, UnbornInv
    <3>2. rec = w
      BY <1>1, <2>2, <2>4, <3>0, <3>1 DEF KeepInv, KnownInv
    <3>3. to = "term"
      BY <2>1, <3>2
    <3>4. target'[u] = w
      BY <1>0, <2>1, <3>2, <3>3
    <3> QED
      BY <2>3, <3>3, <3>4
  <2> QED
    BY <2>5, <2>6 DEF KeepInv
<1>6. ASSUME NEW u \in Sups, CollectTerm(u)
      PROVE  KeepInv'
  <2>1. /\ \A w \in Sups : sup'[w] = IF w = u THEN "down" ELSE sup[w]
        /\ sup[u] = "term" /\ UNCHANGED <<lock, rec, target, proc, lost>>
    BY <1>3, <1>6 DEF CollectTerm
  <2> QED
    BY <1>1, <2>1 DEF KeepInv, LockInv, UnbornInv, RecordInv, OwnInv, KnownInv
<1>7. ASSUME NEW u \in Sups, CollectDown(u)
      PROVE  KeepInv'
  <2>1. /\ \A w \in Sups : sup'[w] = IF w = u THEN "sweep" ELSE sup[w]
        /\ sup[u] = "down" /\ UNCHANGED <<lock, rec, target>> /\ lost \subseteq lost'
    BY <1>3, <1>7 DEF CollectDown
  <2>2. target[u] \in Sups
    BY <1>1, <2>1 DEF PlaceInv
  <2>3. NoBirth /\ (proc'[target[u]]["child"] # "live" \/ target[u] \in lost')
    <3>1. CASE KillGroup(target[u])
      <4>1. proc' = Killed(proc, target[u], {"child", "group"})
        BY <3>1 DEF KillGroup
      <4>2. NoBirth
        BY <1>0, <2>2, <4>1 DEF Killed, NoBirth
      <4>3. proc'[target[u]]["child"] # "live"
        BY <1>0, <2>2, <4>1 DEF Killed
      <4> QED
        BY <4>2, <4>3
    <3>2. CASE lost' = lost \cup Misread(target[u]) /\ proc' = proc
      BY <3>2 DEF Misread, Alive, NoBirth
    <3> QED
      BY <1>7, <3>1, <3>2 DEF CollectDown
  <2>4. LockInv' /\ UnbornInv' /\ RecordInv' /\ OwnInv'
    BY <1>1, <2>1, <2>3 DEF NoBirth, KeepInv, LockInv, UnbornInv, RecordInv, OwnInv
  <2>5. KnownInv'
    <3> SUFFICES ASSUME NEW w \in Sups, proc'[w]["child"] = "live", w \notin lost'
                 PROVE  \/ sup'[w] \in Armed
                        \/ rec' = w
                        \/ \E x \in Sups : sup'[x] \in {"term", "down"} /\ target'[x] = w
      BY <2>1 DEF KnownInv
    <3>1. proc[w]["child"] = "live" /\ w # target[u] /\ w \notin lost
      BY <2>1, <2>3 DEF NoBirth
    <3>2. \/ sup[w] \in Armed
          \/ rec = w
          \/ \E x \in Sups : sup[x] \in {"term", "down"} /\ target[x] = w
      BY <3>1 DEF KeepInv, KnownInv
    <3>3. u # w \/ sup[w] \notin Armed
      BY <1>1, <2>1
    <3> QED
      BY <2>1, <3>1, <3>2, <3>3
  <2> QED
    BY <2>4, <2>5 DEF KeepInv
<1>8. ASSUME NEW u \in Sups, CollectSweep(u)
      PROVE  KeepInv'
  <2>1. /\ \A w \in Sups : sup'[w] = IF w = u THEN "spawn" ELSE sup[w]
        /\ sup[u] = "sweep" /\ UNCHANGED <<lock, rec, target, lost>>
    BY <1>3, <1>8 DEF CollectSweep
  <2>2. target[u] \in Sups
    BY <1>1, <2>1 DEF PlaceInv
  <2>3. NoBirth
    <3>1. proc' = proc \/ proc' = Killed(proc, target[u], {"detached"})
      BY <1>8 DEF CollectSweep, Swept
    <3>2. proc' = Killed(proc, target[u], {"detached"}) => NoBirth
      BY <1>0, <2>2 DEF Killed, NoBirth
    <3>3. proc' = proc => NoBirth
      BY DEF NoBirth
    <3> QED
      BY <3>1, <3>2, <3>3
  <2> QED
    BY <1>1, <2>1, <2>3
    DEF NoBirth, KeepInv, LockInv, UnbornInv, RecordInv, OwnInv, KnownInv
<1>9. ASSUME NEW u \in Sups, SpawnChild(u)
      PROVE  KeepInv'
  <2>1. PICK to \in {"failed", "record"} :
           /\ Goto(u, to)
           /\ to = "failed" => proc' = proc
           /\ to = "record" => proc' = [proc EXCEPT ![u]["child"] = "live"]
    BY <1>9 DEF SpawnChild
  <2>2. \A w \in Sups : sup'[w] = IF w = u THEN to ELSE sup[w]
    BY <1>3, <2>1
  <2>3. sup[u] = "spawn" /\ UNCHANGED <<lock, rec, target, lost>>
    BY <1>9 DEF SpawnChild
  <2>4. \A w \in Sups : w # u => proc'[w] = proc[w]
    BY <1>0, <2>1
  <2>5. to = "failed" => proc'[u]["child"] = "none"
    BY <1>1, <2>1, <2>3 DEF KeepInv, UnbornInv, Unborn
  <2> QED
    BY <1>1, <2>2, <2>3, <2>4, <2>5
    DEF KeepInv, LockInv, UnbornInv, RecordInv, OwnInv, KnownInv
<1>10. ASSUME NEW u \in Sups, RecordChild(u)
       PROVE  KeepInv'
  <2>1. /\ \A w \in Sups : sup'[w] = IF w = u THEN "launch" ELSE sup[w]
        /\ sup[u] = "record" /\ UNCHANGED <<lock, target, proc>>
        /\ \/ rec' = u /\ lost' = lost
           \/ rec' = rec /\ lost' = lost \cup {u}
    BY <1>3, <1>10 DEF RecordChild
  <2>2. rec \in {NoSup, u}
    BY <1>1, <2>1 DEF KeepInv, RecordInv
  <2>3. \A w \in Sups : w # u => sup[w] \notin Armed \cup Collecting
    BY <1>1, <1>2, <2>1
  <2>4. LockInv' /\ UnbornInv'
    BY <1>1, <2>1 DEF KeepInv, LockInv, UnbornInv
  <2>5. RecordInv' /\ OwnInv'
    BY <1>1, <2>1, <2>2, <2>3 DEF KeepInv, RecordInv, OwnInv
  <2>6. KnownInv'
    BY <1>1, <2>1, <2>2 DEF KeepInv, KnownInv
  <2> QED
    BY <2>4, <2>5, <2>6 DEF KeepInv
<1>11. ASSUME NEW u \in Sups, SendLaunch(u) \/ CycleOk(u) \/ CycleFails(u) \/ Watchdog(u)
       PROVE  KeepInv'
  <2>1. PICK to \in {"await", "failed", "serve", "ending"} : Goto(u, to)
    BY <1>11 DEF SendLaunch, CycleOk, CycleFails, Watchdog
  <2>2. sup[u] \in {"launch", "await", "serve"} /\ UNCHANGED <<lock, rec, target, proc, lost>>
    BY <1>11 DEF SendLaunch, CycleOk, CycleFails, Watchdog
  <2>3. to \in Armed \ {"spawn", "record"} /\ sup[u] \in Armed \ {"spawn", "record"}
    BY <1>1, <2>2
  <2> QED
    BY <2>1, <2>2, <2>3, ArmedKeeps DEF Goto
<1>12. ASSUME NEW u \in Sups, Signal(u) \/ CloseWindow(u) \/ Kill(u)
       PROVE  KeepInv'
  <2>1. UNCHANGED <<rec, target, proc>> /\ sup[u] \in Running
    BY <1>12 DEF Signal, CloseWindow, Kill, LeaveBy, Running
  <2>2. ASSUME NEW how \in Ended, End(u, how)
        PROVE  KeepInv'
    BY <2>1, <2>2, EndKeeps
  <2>3. ASSUME NEW who, TakeSlot(u, who)
        PROVE  KeepInv'
    <3>1. NoBirth
      BY <2>1 DEF NoBirth
    <3> QED
      BY <2>1, <2>3, <3>1, QuietKeeps DEF TakeSlot
  <2> QED
    BY <1>12, <2>2, <2>3 DEF Signal, CloseWindow, Kill, LeaveBy, Ended
<1>13. ASSUME NEW u \in Sups, LadderStep(u)
       PROVE  KeepInv'
  <2>1. CASE ~LadderDone(u)
    <3>1. LadderRest(u)
      BY <1>13, <2>1 DEF LadderStep, SendShutdown, LadderCheck, LadderGrace, LadderTerm,
                         LadderReap, SweepGroup, SweepDetached
    <3>2. proc' = proc \/ proc' \in {Killed(proc, u, ks) : ks \in SUBSET Kinds}
      BY <1>13, <2>1 DEF LadderStep, SendShutdown, LadderCheck, LadderGrace, LadderTerm,
                         LadderReap, SweepGroup, SweepDetached, KillGroup, Swept
    <3>3. NoBirth
      <4>1. CASE proc' = proc
        BY <4>1 DEF NoBirth
      <4>2. ASSUME NEW ks \in SUBSET Kinds, proc' = Killed(proc, u, ks)
            PROVE  NoBirth
        BY <1>0, <4>2 DEF Killed, NoBirth
      <4> QED
        BY <3>2, <4>1, <4>2
    <3> QED
      BY <3>1, <3>3, QuietKeeps DEF LadderRest
  <2>2. CASE LadderDone(u)
    <3>1. /\ sup[u] \in {"await", "serve", "ending"}
          /\ UNCHANGED <<rec, target, proc>>
      BY <2>2 DEF LadderDone, ShellTypeOK, PlaceInv
    <3>2. CASE ctl[u] = "cycle"
      <4>1. sup' = [sup EXCEPT ![u] = "failed"] /\ UNCHANGED <<lock, lost>>
        BY <2>2, <3>2 DEF LadderDone, Goto
      <4>2. "failed" \in Armed \ {"spawn", "record"} /\ sup[u] \in Armed \ {"spawn", "record"}
        BY <1>1, <3>1
      <4> QED
        BY <3>1, <4>1, <4>2, ArmedKeeps
    <3>3. CASE ctl[u] # "cycle"
      <4>1. PICK how \in Ended : End(u, how)
        BY <2>2, <3>3 DEF LadderDone, Ended
      <4>2. sup[u] \in Running
        BY <1>1, <3>1
      <4> QED
        BY <3>1, <4>1, <4>2, EndKeeps
    <3> QED
      BY <3>2, <3>3
  <2> QED
    BY <2>1, <2>2
<1>14. ASSUME NEW u \in Sups,
              \/ ChildBinds(u) \/ ChildObeys(u) \/ Dies(u)
              \/ \E k \in {"group", "detached"} : ChildSpawns(u, k)
              \/ \E k \in Kinds : Ends(u, k)
              \/ \E how \in {"halted", "wedged"} : GetsStuck(u, how)
       PROVE  KeepInv'
  <2>1. ChildRest
    BY <1>14 DEF ChildBinds, ChildObeys, Dies, ChildSpawns, Ends, GetsStuck
  <2>2. NoBirth
    BY <1>0, <1>14, ChildNoBirth
  <2> QED
    BY <2>1, <2>2, QuietKeeps DEF ChildRest
<1>15. CASE UNCHANGED shellVars
  BY <1>15, QuietKeeps DEF shellVars, NoBirth
<1> QED
  BY <1>4, <1>5, <1>6, <1>7, <1>8, <1>9, <1>10, <1>11, <1>12, <1>13, <1>14, <1>15
  DEF ShellNext, MainStep, CycleStep

\* A launch meets no child that was not lost, for every number of
\* supervisors, kills and stuck children.
THEOREM SpawnsAloneHolds == ShellSpec => []SpawnsAlone
  BY InitTypes, NextTypes, InitKeep, NextKeep, KeepSpawnsAlone, PTL DEF ShellSpec
-------------------------------------------------------------------------------
(***************************************************************************)
(* Behind the sweep of the group there is nothing left of it: a child that *)
(* could start another is dead by then.                                    *)
(***************************************************************************)
SweptInv ==
    \A u \in Sups : rung[u] \in {"detached", "done"} =>
        proc[u]["child"] # "live" /\ proc[u]["group"] # "live"

\* No ladder has started in the initial state.
LEMMA InitSwept == ShellInit => SweptInv
  BY DEF ShellInit, SweptInv

\* Every step keeps what a finished ladder found.
LEMMA NextSwept ==
    ShellTypeOK /\ PlaceInv /\ SweptInv /\ [ShellNext]_shellVars => SweptInv'
<1> SUFFICES ASSUME ShellTypeOK, PlaceInv, SweptInv, [ShellNext]_shellVars,
                    NEW w \in Sups, rung'[w] \in {"detached", "done"}
             PROVE  proc'[w]["child"] # "live" /\ proc'[w]["group"] # "live"
  BY DEF SweptInv
<1> USE DEF supVars, ladVars, procVars, shellBounds
<1>0. /\ proc \in [Sups -> [Kinds -> States]] /\ rung \in [Sups -> Rungs]
      /\ rung[w] # "idle" => sup[w] \in {"await", "serve", "ending"}
  BY DEF ShellTypeOK, PlaceInv, States
\* whoever was swept stays so unless it is spawned or spawns
<1>1. ASSUME rung[w] \in {"detached", "done"},
             \A k \in {"child", "group"} : proc'[w][k] = "live" => proc[w][k] = "live"
      PROVE  proc'[w]["child"] # "live" /\ proc'[w]["group"] # "live"
  BY <1>1 DEF SweptInv
<1>2. CASE \/ \E u \in Sups : SpawnChild(u)
           \/ \E u \in Sups : \E k \in {"group", "detached"} : ChildSpawns(u, k)
  <2>1. rung[w] \in {"detached", "done"}
    BY <1>2 DEF SpawnChild, ChildSpawns, ChildRest
  <2>2. CASE \E u \in Sups : SpawnChild(u)
    <3>1. PICK u \in Sups : SpawnChild(u)
      BY <2>2
    <3>2. u # w
      BY <1>0, <2>1, <3>1 DEF SpawnChild
    <3> QED
      BY <1>0, <1>1, <2>1, <3>1, <3>2 DEF SpawnChild
  <2>3. CASE \E u \in Sups : \E k \in {"group", "detached"} : ChildSpawns(u, k)
    <3>1. PICK u \in Sups, k \in {"group", "detached"} : ChildSpawns(u, k)
      BY <2>3
    <3>2. u # w
      BY <2>1, <3>1 DEF ChildSpawns, SweptInv
    <3> QED
      BY <1>0, <1>1, <2>1, <3>1, <3>2 DEF ChildSpawns
  <2> QED
    BY <1>2, <2>2, <2>3
<1>3. ASSUME NEW u \in Sups, LadderStep(u)
      PROVE  proc'[w]["child"] # "live" /\ proc'[w]["group"] # "live"
  <2>1. CASE SweepGroup(u)
    <3>1. proc' = Killed(proc, u, {"child", "group"}) /\ \A x \in Sups : x # u => rung'[x] = rung[x]
      BY <1>0, <2>1 DEF SweepGroup, KillGroup, Climb
    <3>2. \A x \in Sups, k \in Kinds :
             proc'[x][k] = "live" <=> proc[x][k] = "live" /\ ~(x = u /\ k \in {"child", "group"})
      BY <1>0, <3>1 DEF Killed
    <3> QED
      BY <1>1, <3>1, <3>2
  <2>2. CASE ~SweepGroup(u)
    <3>1. rung[w] \in {"detached", "done"}
      BY <1>0, <1>3, <2>2 DEF LadderStep, SendShutdown, LadderCheck, LadderGrace, LadderTerm,
                  LadderReap, SweepDetached, LadderDone, Climb, End
    <3>2. proc' = proc \/ proc' \in {Killed(proc, u, ks) : ks \in SUBSET Kinds}
      BY <1>3, <2>2 DEF LadderStep, SendShutdown, LadderCheck, LadderGrace, LadderTerm,
                        LadderReap, SweepDetached, LadderDone, KillGroup, Swept
    <3>3. ASSUME NEW ks \in SUBSET Kinds, proc' = Killed(proc, u, ks)
          PROVE  \A k \in Kinds : proc'[w][k] = "live" => proc[w][k] = "live"
      BY <1>0, <3>3 DEF Killed
    <3> QED
      BY <1>1, <3>1, <3>2, <3>3
  <2> QED
    BY <2>1, <2>2
<1>4. ASSUME NEW u \in Sups, CollectDown(u) \/ CollectSweep(u)
      PROVE  proc'[w]["child"] # "live" /\ proc'[w]["group"] # "live"
  <2>1. rung' = rung /\ target[u] \in Sups
    BY <1>4 DEF CollectDown, CollectSweep, PlaceInv, Collecting
  <2>2. proc' = proc \/ proc' \in {Killed(proc, target[u], ks) : ks \in SUBSET Kinds}
    BY <1>4 DEF CollectDown, CollectSweep, KillGroup, Swept
  <2>3. ASSUME NEW ks \in SUBSET Kinds, proc' = Killed(proc, target[u], ks)
        PROVE  \A k \in Kinds : proc'[w][k] = "live" => proc[w][k] = "live"
    BY <1>0, <2>1, <2>3 DEF Killed
  <2> QED
    BY <1>1, <2>1, <2>2, <2>3
<1>5. ASSUME NEW u \in Sups,
             \/ ChildBinds(u) \/ ChildObeys(u) \/ Dies(u)
             \/ \E k \in Kinds : Ends(u, k)
             \/ \E how \in {"halted", "wedged"} : GetsStuck(u, how)
      PROVE  proc'[w]["child"] # "live" /\ proc'[w]["group"] # "live"
  <2>1. rung' = rung
    BY <1>5 DEF ChildBinds, ChildObeys, Dies, Ends, GetsStuck, ChildRest
  <2>2. \A k \in Kinds : proc'[w][k] = "live" => proc[w][k] = "live"
    <3>1. CASE ChildObeys(u)
      <4>1. PICK p : p = Killed(proc, u, {"group", "detached"})
        OBVIOUS
      <4>2. p \in [Sups -> [Kinds -> States]]
        BY <1>0, <4>1, KilledType
      <4>3. \A k \in Kinds : p[w][k] = "live" => proc[w][k] = "live"
        BY <1>0, <4>1 DEF Killed
      <4>4. proc' = [p EXCEPT ![u]["child"] = "gone"]
        BY <3>1, <4>1 DEF ChildObeys
      <4> QED
        BY <4>2, <4>3, <4>4
    <3>2. CASE ChildBinds(u) \/ \E how \in {"halted", "wedged"} : GetsStuck(u, how)
      BY <3>2 DEF ChildBinds, GetsStuck
    <3>3. ASSUME NEW k \in Kinds, Over(u, k)
          PROVE  \A j \in Kinds : proc'[w][j] = "live" => proc[w][j] = "live"
      <4>1. PICK x \in {"gone", "none"} : proc' = [proc EXCEPT ![u][k] = x]
        BY <3>3 DEF Over
      <4> QED
        BY <1>0, <4>1
    <3> QED
      BY <1>5, <3>1, <3>2, <3>3 DEF Dies, Ends
  <2> QED
    BY <1>1, <2>1, <2>2
<1>6. CASE \E u \in Sups : \/ Launch(u) \/ AcquireLock(u) \/ ReadRecord(u) \/ CollectTerm(u)
                           \/ RecordChild(u) \/ SendLaunch(u) \/ CycleOk(u) \/ CycleFails(u)
                           \/ Watchdog(u) \/ Signal(u) \/ CloseWindow(u) \/ Kill(u)
  <2>1. proc' = proc
    BY <1>6 DEF Launch, AcquireLock, ReadRecord, CollectTerm, RecordChild, SendLaunch, CycleOk,
                CycleFails, Watchdog, Signal, CloseWindow, LeaveBy, Kill
  <2>2. rung[w] \in {"detached", "done"}
    BY <1>0, <1>6 DEF Launch, AcquireLock, ReadRecord, CollectTerm, RecordChild, SendLaunch,
                CycleOk, CycleFails, Watchdog, Signal, CloseWindow, LeaveBy, TakeSlot, Kill, End,
                Climb
  <2> QED
    BY <1>1, <2>1, <2>2
<1>7. CASE UNCHANGED shellVars
  BY <1>1, <1>7 DEF shellVars
<1> QED
  BY <1>2, <1>3, <1>4, <1>5, <1>6, <1>7 DEF ShellNext, MainStep, CycleStep

\* A ladder that ran to its end left nothing of the child's group.
THEOREM LadderClearsHolds == ShellSpec => LadderClears
<1>1. SweptInv /\ [ShellNext]_shellVars =>
        [\A u \in Sups : LadderDone(u) =>
            proc[u]["child"] # "live" /\ proc[u]["group"] # "live"]_shellVars
  BY DEF SweptInv, LadderDone
<1> QED
  BY <1>1, InitTypes, NextTypes, InitSwept, NextSwept, PTL DEF ShellSpec, LadderClears
===============================================================================
