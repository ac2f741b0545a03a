------------------------------- MODULE MCUpkeep -------------------------------
(***************************************************************************)
(* Three components for TLC that have promises to keep in the end: the     *)
(* binding of the corpus over faults and restarts, the textbook parses,    *)
(* and the refresher with its sentinel.  They share no state: one run      *)
(* takes each of them through all of its behaviours while the others rest: *)
(* their sum, not their product.                                           *)
(***************************************************************************)
EXTENDS CorpusBinding, ParseRuns, IngestSentinel, TLC

CONSTANTS b1, b2, b3

VARIABLE focus  \* the component that runs

\* two textbooks of one notebook and one of another
MCShelf == (b1 :> "n1") @@ (b2 :> "n1") @@ (b3 :> "n2")

UpkeepInit ==
    /\ BindInit
    /\ ParseInit
    /\ SentInit
    /\ focus \in {"binding", "parses", "sentinel"}
    /\ focus # "binding" => marker = None
    /\ focus # "parses" => bookOf = [u \in Uploads |-> b1]
    /\ focus # "sentinel" => free = "high"

UpkeepNext ==
    /\ UNCHANGED focus
    /\ \/ focus = "binding" /\ BindNext /\ UNCHANGED <<parseVars, sentVars>>
       \/ focus = "parses" /\ ParseNext /\ UNCHANGED <<bindVars, sentVars>>
       \/ focus = "sentinel" /\ SentNext /\ UNCHANGED <<bindVars, parseVars>>

\* a component that rests owes nothing; a parse or a server that is down has
\* no step to take
UpkeepFairness ==
    BindFairness /\ ParseFairness /\ WF_sentVars(focus = "sentinel" /\ Tick)

UpkeepSpec ==
    /\ UpkeepInit
    /\ [][UpkeepNext]_<<bindVars, parseVars, sentVars, focus>>
    /\ UpkeepFairness

\* Types of the three components.
UpkeepTypeOK == BindTypeOK /\ ParseTypeOK /\ SentTypeOK
===============================================================================
