------------------------------ MODULE SharedWork ------------------------------
(***************************************************************************)
(* What the rerank phase promises its searches, with no lock, no line of   *)
(* waiters, no map of tasks and no semaphore: work on a key is done once   *)
(* at a time, whoever wants it meanwhile shares it and its outcome, the    *)
(* seats are limited, and only work that went well leaves its result       *)
(* behind.  RerankFlight implements it (Sharing!Spec there).               *)
(***************************************************************************)
EXTENDS Naturals, FiniteSets

CONSTANTS Clients, Works, Nothing, Seats

VARIABLES underway,  \* what is being worked on
          just,      \* just[k]: how work on k went that has ended this moment
          wants,     \* wants[c]: the work c waits for, or Nothing
          outcome,   \* outcome[c]: "none", "running", or how that work ended
          known,     \* the work whose result is kept
          told       \* what the latest step told a client

vars == <<underway, just, wants, outcome, known, told>>

NoNews == [c \in Clients |-> "none"]
Untold == told' = NoNews
Seated == {c \in Clients : wants[c] # Nothing}

Init == /\ underway = {}
        /\ just = [k \in Works |-> "none"]
        /\ wants = [c \in Clients |-> Nothing]
        /\ outcome = [c \in Clients |-> "none"]
        /\ known = {}
        /\ told = NoNews

\* a client takes a free seat
Board(c, k) ==
    /\ wants[c] = Nothing
    /\ Cardinality(Seated) < Seats
    /\ wants' = [wants EXCEPT ![c] = k]
    /\ outcome' = [outcome EXCEPT ![c] = "running"]
    /\ Untold
    /\ UNCHANGED <<just, known>>

\* nobody does this work and none has ended this moment: it begins
Launch(c, k) ==
    /\ k \notin underway
    /\ just[k] = "none"
    /\ underway' = underway \cup {k}
    /\ Board(c, k)

\* it is underway: it is shared
Join(c, k) == k \in underway /\ UNCHANGED underway /\ Board(c, k)

\* the work ends, for all who share it at once, and for nobody else
Land(k, end) ==
    /\ k \in underway
    /\ underway' = underway \ {k}
    /\ just' = [just EXCEPT ![k] = end]
    /\ outcome' = [c \in Clients |-> IF wants[c] = k /\ outcome[c] = "running"
                                      THEN end ELSE outcome[c]]
    /\ Untold
    /\ UNCHANGED <<wants, known>>

\* the moment has passed
Clear(k) ==
    /\ just[k] # "none"
    /\ just' = [just EXCEPT ![k] = "none"]
    /\ Untold
    /\ UNCHANGED <<underway, wants, outcome, known>>

\* a client hears how work on k went, and a good result is kept
Hear(c, k, end) ==
    /\ told' = [NoNews EXCEPT ![c] = end]
    /\ known' = IF end = "done" THEN known \cup {k} ELSE known

\* one that comes in this very moment hears it at once
Late(c, k) ==
    /\ wants[c] = Nothing
    /\ Cardinality(Seated) < Seats
    /\ just[k] # "none"
    /\ Hear(c, k, just[k])
    /\ UNCHANGED <<underway, just, wants, outcome>>

Rise(c) ==
    /\ wants[c] # Nothing
    /\ wants' = [wants EXCEPT ![c] = Nothing]
    /\ outcome' = [outcome EXCEPT ![c] = "none"]
    /\ UNCHANGED <<underway, just>>

\* one that has shared it hears it
Answer(c) ==
    /\ outcome[c] \in {"done", "failed"}
    /\ Hear(c, wants[c], outcome[c])
    /\ Rise(c)

\* a client goes away; the work goes on
Leave(c) == Rise(c) /\ Untold /\ UNCHANGED known

Forget(k) ==
    known' = known \ {k} /\ Untold /\ UNCHANGED <<underway, just, wants, outcome>>

\* a step that is none of the above
Hush == Untold /\ UNCHANGED <<underway, just, wants, outcome, known>>

Next ==
    \/ \E c \in Clients, k \in Works : Launch(c, k) \/ Join(c, k) \/ Late(c, k)
    \/ \E k \in Works, end \in {"done", "failed"} : Land(k, end)
    \/ \E c \in Clients : Answer(c) \/ Leave(c)
    \/ \E k \in Works : Clear(k) \/ Forget(k)
    \/ Hush

Spec == Init /\ [][Next]_vars
===============================================================================
