------------------------------ MODULE ParseLedger ------------------------------
(***************************************************************************)
(* What parse_status promises the readers of a notebook, with no handlers, *)
(* queue, tracker or processes: a status is the mark or the word of an     *)
(* upload that has claimed its notebook, which it settles at most once;    *)
(* "complete" is earned by a parser that ended well on a book of that very *)
(* notebook; while the daemon takes uploads one parser is at work at a     *)
(* time; and a daemon that starts finds nothing running.  ParseRuns        *)
(* implements it (Ledger!Spec there).                                      *)
(***************************************************************************)
CONSTANTS Notebooks, Jobs

VARIABLES home,    \* home[j]: the notebook of job j
          status,  \* status[n]: what the notebook says
          claim,   \* claim[j]: "none", "held" once j may speak for its notebook, "over"
          work,    \* work[j]: "none", "busy", or how the parser ended: "ok", "raised"
          open     \* the daemon takes uploads

vars == <<home, status, claim, work, open>>

Init == /\ home \in [Jobs -> Notebooks]
        /\ status = [n \in Notebooks |-> "pending"]
        /\ claim = [j \in Jobs |-> "none"]
        /\ work = [j \in Jobs |-> "none"]
        /\ open = FALSE

Busy == {j \in Jobs : work[j] = "busy"}
Held == {j \in Jobs : claim[j] = "held"}

\* a job that will not speak for its notebook
Refuse(j) ==
    /\ claim[j] = "none"
    /\ claim' = [claim EXCEPT ![j] = "over"]
    /\ UNCHANGED <<home, status, work, open>>

Mark(j) ==
    /\ open
    /\ claim[j] = "none"
    /\ claim' = [claim EXCEPT ![j] = "held"]
    /\ status' = [status EXCEPT ![home[j]] = "running"]
    /\ UNCHANGED <<home, work, open>>

\* the parser of a job is started: alone, while the daemon takes uploads
Begin(j) ==
    /\ claim[j] = "held"
    /\ work[j] = "none"
    /\ open => Busy = {}
    /\ work' = [work EXCEPT ![j] = "busy"]
    /\ UNCHANGED <<home, status, claim, open>>

End(j, how) ==
    /\ work[j] = "busy"
    /\ work' = [work EXCEPT ![j] = how]
    /\ UNCHANGED <<home, status, claim, open>>

\* What job j may say of its notebook.
Word(j, s) == s = "failed" \/ (s = "complete" /\ work[j] = "ok")

\* The jobs of L let go of their claims.  Each may leave a last word, or none.
Settle(L) ==
    /\ L \subseteq Held
    /\ claim' = [j \in Jobs |-> IF j \in L THEN "over" ELSE claim[j]]
    /\ status' \in [Notebooks -> {"pending", "running", "complete", "failed"}]
    /\ \A n \in Notebooks :
          status'[n] # status[n] => \E j \in L : home[j] = n /\ Word(j, status'[n])
    /\ UNCHANGED <<home, work>>

\* The daemon takes no more uploads, or is gone with all that it held.
Close(L) == open /\ open' = FALSE /\ Settle(L)
Die ==
    /\ open' = FALSE
    /\ claim' \in [Jobs -> {"none", "over"}]
    /\ \A j \in Jobs : claim[j] = "over" => claim'[j] = "over"
    /\ work' = [j \in Jobs |-> "none"]
    /\ UNCHANGED <<home, status>>

\* A daemon starts: nobody is at work on what says running.
Recover ==
    /\ ~open
    /\ Held = {}
    /\ Busy = {}
    /\ open' = TRUE
    /\ status' = [n \in Notebooks |-> IF status[n] = "running" THEN "failed"
                                      ELSE status[n]]
    /\ UNCHANGED <<home, claim, work>>

Next ==
    \/ \E j \in Jobs : Refuse(j) \/ Mark(j) \/ Begin(j)
    \/ \E j \in Jobs, how \in {"ok", "raised"} : End(j, how)
    \/ \E L \in SUBSET Jobs : (Settle(L) /\ UNCHANGED open) \/ Close(L)
    \/ Die \/ Recover

Spec == Init /\ [][Next]_vars
===============================================================================
