---------------------------- MODULE IngestSentinel ----------------------------
(***************************************************************************)
(* The file that pauses ingestion (tools/ingest_sentinel.py): the daemon's *)
(* refresher writes it when the disk runs low and removes it when the disk *)
(* has recovered (server/health.py, server/metrics_refresh.py), the        *)
(* operator writes and removes it by hand, and the delta loop looks for it *)
(* before it starts (ingest/oai_delta.py).  Each look at the disk and the  *)
(* file is a step of its own: the three share no lock.                     *)
(***************************************************************************)
EXTENDS Naturals

CONSTANTS MaxOrders,  \* bound: commands of the operator
          MaxTicks    \* bound: ticks that find a file they cannot handle

ASSUME SentinelBoundsAssumption == MaxOrders \in Nat /\ MaxTicks \in Nat

\* free bytes: below DISK_PAUSE_THRESHOLD, above DISK_CLEAR_THRESHOLD
Levels  == {"low", "between", "high"}
\* the file: its reason field
Reasons == {"absent", "disk_low", "maintenance"}

VARIABLES
    free,      \* shutil.disk_usage
    sentinel,  \* Reasons
    tick,      \* where the refresher's tick stands
    daemon,    \* the refresher runs
    delta,     \* ingest.oai_delta
    ordered,   \* history: the operator's pause, not yet taken back
    orders, failures

sentVars == <<free, sentinel, tick, daemon, delta, ordered, orders, failures>>

SentTypeOK ==
    /\ free \in Levels
    /\ sentinel \in Reasons
    /\ tick \in {"sleep", "usage", "write", "exists", "read", "unlink"}
    /\ daemon \in BOOLEAN /\ ordered \in BOOLEAN
    /\ delta \in {"idle", "running"}
    /\ orders \in 0 .. MaxOrders
    /\ failures \in 0 .. MaxTicks

SentInit ==
    /\ free \in Levels
    /\ sentinel = "absent"
    /\ tick = "sleep"
    /\ daemon = TRUE
    /\ delta = "idle"
    /\ ordered = FALSE
    /\ orders = 0
    /\ failures = 0
-------------------------------------------------------------------------------
\* others fill the disk and clear it
DiskMoves ==
    /\ \E level \in Levels \ {free} : free' = level
    /\ UNCHANGED <<sentinel, tick, daemon, delta, ordered, orders, failures>>

TickRest == UNCHANGED <<free, daemon, delta, ordered, orders>>
TickTo(s) == tick' = s

\* Mutant: a tick that raises ends the loop.
WakeUntilFailure ==
    /\ daemon
    /\ tick = "sleep"
    /\ failures = 0
    /\ TickTo("usage")
    /\ UNCHANGED <<sentinel, failures>>
    /\ TickRest

\* run_metrics_refresh_loop, the first tick at once
Wake ==
    /\ daemon
    /\ tick = "sleep"
    /\ TickTo("usage")
    /\ UNCHANGED <<sentinel, failures>>
    /\ TickRest

\* refresh_disk_free_metric
DiskUsage ==
    /\ tick = "usage"
    /\ TickTo(CASE free = "low"     -> "write"
                [] free = "between" -> "sleep"
                [] free = "high"    -> "exists")
    /\ UNCHANGED <<sentinel, failures>>
    /\ TickRest

\* write_pause: whatever is there is replaced
WritePause ==
    /\ tick = "write"
    /\ TickTo("sleep")
    /\ sentinel' = "disk_low"
    /\ UNCHANGED failures
    /\ TickRest

\* disk_usage and any step that meets the file may raise an OSError: fail soft
TickFails ==
    /\ tick \in {"usage", "write", "read", "unlink"}
    /\ failures < MaxTicks
    /\ failures' = failures + 1
    /\ TickTo("sleep")
    /\ UNCHANGED sentinel
    /\ TickRest

SentinelExists ==
    /\ tick = "exists"
    /\ TickTo(IF sentinel = "absent" THEN "sleep" ELSE "read")
    /\ UNCHANGED <<sentinel, failures>>
    /\ TickRest

\* is_paused: the reason decides
ReadReason ==
    /\ tick = "read"
    /\ TickTo(IF sentinel = "disk_low" THEN "unlink" ELSE "sleep")
    /\ UNCHANGED <<sentinel, failures>>
    /\ TickRest

\* clear_pause: whatever is there by now
Unlink ==
    /\ tick = "unlink"
    /\ TickTo("sleep")
    /\ sentinel' = "absent"
    /\ UNCHANGED failures
    /\ TickRest

\* The daemon stops: the task is cancelled, a tick in its thread goes on.
StopDaemon ==
    /\ daemon' = ~daemon
    /\ UNCHANGED <<free, sentinel, tick, delta, ordered, orders, failures>>
-------------------------------------------------------------------------------
\* python -m tools.ingest_sentinel write --reason=maintenance / clear
Order(write) ==
    /\ orders < MaxOrders
    /\ orders' = orders + 1
    /\ ordered' = write
    /\ sentinel' = IF write THEN "maintenance" ELSE "absent"
    /\ UNCHANGED <<free, tick, daemon, delta, failures>>

DeltaStarts ==
    /\ delta = "idle"
    /\ sentinel = "absent"
    /\ delta' = "running"
    /\ UNCHANGED <<free, sentinel, tick, daemon, ordered, orders, failures>>

DeltaEnds ==
    /\ delta = "running"
    /\ delta' = "idle"
    /\ UNCHANGED <<free, sentinel, tick, daemon, ordered, orders, failures>>
-------------------------------------------------------------------------------
Tick == \/ Wake \/ DiskUsage \/ WritePause \/ TickFails \/ SentinelExists
        \/ ReadReason \/ Unlink

SentNext ==
    \/ Tick \/ DiskMoves \/ StopDaemon
    \/ \E write \in BOOLEAN : Order(write)
    \/ DeltaStarts \/ DeltaEnds

SentSpec == SentInit /\ [][SentNext]_sentVars

\* a tick every thirty seconds, and none of them blocks
SentFairness == WF_sentVars(Tick)
-------------------------------------------------------------------------------
\* Failure mode 7: a disk that stays low pauses ingestion, whoever wrote or
\* removed the file before and whichever tick failed, as long as a daemon
\* refreshes (refresh_disk_free_metric).
LowDiskPauses ==
    <>[](free = "low" /\ daemon) => <>[](sentinel # "absent")

\* "An operator-written maintenance sentinel must survive auto-recovery - the
\* operator clears it manually" (refresh_disk_free_metric).
OperatorPauseSurvives == ordered => sentinel # "absent"
===============================================================================
