----------------------------- MODULE CorpusSwitch -----------------------------
(***************************************************************************)
(* What cutovers and rollbacks promise, with no paths, criteria, reports   *)
(* or program states: one corpus is served, one waits as the undo, and     *)
(* whoever has taken the served one away is alone until a corpus is served *)
(* again.  Cutover implements it (Switch!Spec there).                      *)
(***************************************************************************)
CONSTANTS Hands, Corpora, First, Nothing

VARIABLES served,   \* the corpus the daemon finds, or Nothing
          undo,     \* the corpus that waits behind it, or Nothing
          taken,    \* taken[h]: what h has taken away and not replaced yet
          used,     \* the corpora that have been served
          removed,  \* those an operator has removed while they waited
          broken    \* somebody died with the served corpus in hand

vars == <<served, undo, taken, used, removed, broken>>

Init == /\ served = First
        /\ undo = Nothing
        /\ taken = [h \in Hands |-> Nothing]
        /\ used = {First}
        /\ removed = {}
        /\ broken = FALSE

Idle == \A h \in Hands : taken[h] = Nothing

Take(h) ==
    /\ Idle
    /\ served # Nothing
    /\ served' = Nothing
    /\ taken' = [taken EXCEPT ![h] = served]
    /\ UNCHANGED <<used, removed, broken>>

\* the served corpus goes where a free undo is
Retire(h) == Take(h) /\ undo = Nothing /\ undo' = served

\* the served corpus is put aside for the undo
Discard(h) == Take(h) /\ UNCHANGED undo

Serve(h, c) ==
    /\ taken[h] # Nothing
    /\ served = Nothing
    /\ served' = c
    /\ taken' = [taken EXCEPT ![h] = Nothing]
    /\ UNCHANGED <<removed, broken>>

\* a corpus that was never served replaces one that can come back
Promote(h, c) ==
    /\ Serve(h, c)
    /\ undo = taken[h]
    /\ c \notin used
    /\ used' = used \cup {c}
    /\ UNCHANGED undo

\* the undo is served: of a promotion that failed, or of an earlier one
Restore(h) ==
    /\ undo # Nothing
    /\ Serve(h, undo)
    /\ undo' = Nothing
    /\ UNCHANGED used

\* an undo that failed: as it was before
PutBack(h) ==
    /\ taken[h] # undo
    /\ Serve(h, taken[h])
    /\ UNCHANGED <<undo, used>>

Die(h) ==
    /\ taken[h] # Nothing
    /\ taken' = [taken EXCEPT ![h] = Nothing]
    /\ broken' = TRUE
    /\ UNCHANGED <<served, undo, used, removed>>

Remove ==
    /\ Idle
    /\ undo # Nothing
    /\ undo' = Nothing
    /\ removed' = removed \cup {undo}
    /\ UNCHANGED <<served, taken, used, broken>>

Next ==
    \/ \E h \in Hands : Retire(h) \/ Discard(h) \/ Restore(h) \/ PutBack(h) \/ Die(h)
    \/ \E h \in Hands, c \in Corpora : Promote(h, c)
    \/ Remove

Spec == Init /\ [][Next]_vars
===============================================================================
