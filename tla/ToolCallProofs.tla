---------------------------- MODULE ToolCallProofs ----------------------------
(***************************************************************************)
(* What stands before the tools and what one of them drives.               *)
(*                                                                         *)
(* The caps, for any sessions and tools and every value of the limits:     *)
(* what a session is charged is what it is served, and it is served at     *)
(* most its budget, which follows from the counters alone; no window sees  *)
(* more calls than the hourly cap, which follows from what the instants    *)
(* are to the calls: their end, with nothing fresh before it; and the      *)
(* registry stays within its maximum.                                      *)
(*                                                                         *)
(* The rerank phase, for any searches and keys: Singleflight's map and the *)
(* passes underway name each other, so no key has two of them.  The map's  *)
(* typing alone is not inductive: that a launched pass is alone rests on   *)
(* every pass underway being registered, and that an eviction takes the    *)
(* right entry on every entry naming the pass that put it there.  And the  *)
(* account of the permits and the lock: a permit is free or with a search  *)
(* past the semaphore, the lock's line is those who wait for it.           *)
(*                                                                         *)
(* The Lean REPL, for any calls and any number of processes: environment   *)
(* numbers never mislead, no process is left behind, the wire's account    *)
(* balances, and replies are the caller's own until a call is lost.        *)
(***************************************************************************)
EXTENDS SessionCaps, RerankFlight, LeanRepl, SequenceLemmas, WellFoundedInduction, NaturalsInduction

(* The budgets *)

\* The inductive invariant: typed counters within their limits, which the
\* units served agree with.
CapInv ==
    /\ count \in [Sessions -> [Capped -> Nat]]
    /\ served \in [Sessions -> [Capped -> Nat]]
    /\ \A s \in Sessions : count[s] = served[s]
    /\ \A s \in Sessions, t \in Capped : count[s][t] <= Limit[t]

\* A counter vector that any session may have.
Affordable(c) == c \in [Capped -> Nat] /\ \A t \in Capped : c[t] <= Limit[t]

\* What a session brings to a request, be it known or new, is affordable and
\* has been served.
LEMMA CarriedOver ==
    ASSUME CapInv, NEW s \in Sessions
    PROVE  Affordable(CountOf(s)) /\ CountOf(s) = ServedOf(s)
<1>1. CASE Known(s)
  BY <1>1 DEF CapInv, Affordable, CountOf, ServedOf
<1>2. CASE ~Known(s)
  <2>1. CountOf(s) = Unused /\ ServedOf(s) = Unused
    BY <1>2 DEF CountOf, ServedOf
  <2>2. Affordable(Unused)
    BY CapConstants DEF Affordable, Unused
  <2> QED BY <2>1, <2>2
<1> QED BY <1>1, <1>2

\* Charging n units that the budget check let through keeps a vector affordable.
LEMMA ChargeAffordable ==
    ASSUME NEW c, Affordable(c), NEW t, NEW n \in Nat,
           t \in Capped => c[t] + n <= Limit[t]
    PROVE  Affordable(Charge(c, t, n))
<1>1. CASE t \in Capped
  <2>1. Charge(c, t, n) = [c EXCEPT ![t] = @ + n]
    BY <1>1 DEF Charge
  <2>2. [c EXCEPT ![t] = @ + n] \in [Capped -> Nat]
    BY <1>1 DEF Affordable
  <2>3. ASSUME NEW u \in Capped
        PROVE  [c EXCEPT ![t] = @ + n][u] <= Limit[u]
    BY <1>1 DEF Affordable
  <2> QED BY <2>1, <2>2, <2>3 DEF Affordable
<1>2. CASE t \notin Capped
  BY <1>2 DEF Charge
<1> QED BY <1>1, <1>2

\* Giving one session an affordable vector, as charge and as service alike,
\* keeps the invariant.
LEMMA PutKeeps ==
    ASSUME CapInv, NEW s \in Sessions, NEW c, Affordable(c),
           count' = [count EXCEPT ![s] = c],
           served' = [served EXCEPT ![s] = c]
    PROVE  CapInv'
<1>1. count' \in [Sessions -> [Capped -> Nat]] /\ served' \in [Sessions -> [Capped -> Nat]]
  BY DEF CapInv, Affordable
<1>2. ASSUME NEW r \in Sessions
      PROVE  count'[r] = served'[r] /\ \A t \in Capped : count'[r][t] <= Limit[t]
  <2>1. CASE r = s
    BY <2>1 DEF CapInv, Affordable
  <2>2. CASE r # s
    BY <2>2 DEF CapInv
  <2> QED BY <2>1, <2>2
<1> QED BY <1>1, <1>2 DEF CapInv

\* The invariant holds of the empty registry.
LEMMA CapInvInit == CapInit => CapInv
BY CapConstants DEF CapInit, CapInv, Unused

\* Every request and every tick of the clock keeps it.
LEMMA CapInvStep == CapInv /\ [CapNext]_capVars => CapInv'
<1> SUFFICES ASSUME CapInv, [CapNext]_capVars PROVE CapInv'
  OBVIOUS
<1>1. CASE Tick
  BY <1>1 DEF Tick, CapInv
<1>2. ASSUME NEW s \in Sessions, NEW t \in Tools, NEW n \in Units, Request(s, t, n)
      PROVE  CapInv'
  <2>1. Affordable(CountOf(s)) /\ CountOf(s) = ServedOf(s)
    BY CarriedOver
  <2>2. n \in Nat
    BY CapConstants DEF Units
  <2>3. CASE RejectTool(s, t, n)
    <3>1. count' = [count EXCEPT ![s] = CountOf(s)] /\ served' = [served EXCEPT ![s] = CountOf(s)]
      BY <2>1, <2>3 DEF RejectTool
    <3> QED BY <2>1, <3>1, PutKeeps
  <2>4. CASE RejectHourly(s, t, n)
    <3>1. count' = [count EXCEPT ![s] = CountOf(s)] /\ served' = [served EXCEPT ![s] = CountOf(s)]
      BY <2>1, <2>4 DEF RejectHourly
    <3> QED BY <2>1, <3>1, PutKeeps
  <2>5. CASE Allow(s, t, n)
    <3> DEFINE c == Charge(CountOf(s), t, n)
    <3>1. count' = [count EXCEPT ![s] = c] /\ served' = [served EXCEPT ![s] = c]
      BY <2>1, <2>5 DEF Allow
    <3>2. t \in Capped => CountOf(s)[t] + n <= Limit[t]
      <4>1. ~OverBudget(s, t, n)
        BY <2>5 DEF Allow
      <4>2. t \in Capped => CountOf(s)[t] \in Nat /\ Limit[t] \in Nat
        BY <2>1, CapConstants DEF Affordable
      <4> QED BY <2>2, <4>1, <4>2 DEF OverBudget
    <3>3. Affordable(c)
      BY <2>1, <2>2, <3>2, ChargeAffordable
    <3> HIDE DEF c
    <3> QED BY <3>1, <3>3, PutKeeps
  <2> QED BY <1>2, <2>3, <2>4, <2>5 DEF Request
<1>3. CASE UNCHANGED capVars
  BY <1>3 DEF capVars, CapInv
<1> QED BY <1>1, <1>2, <1>3 DEF CapNext

\* A session is served at most its limit of each capped tool while the
\* registry remembers it, whatever batches it sends, and no call that either
\* cap refuses costs a unit of its tool (check_both_caps).
THEOREM BudgetAlwaysHolds == CapSpec => []BudgetHolds
<1>1. CapInv => BudgetHolds
  BY DEF CapInv, BudgetHolds
<1> QED BY CapInvInit, CapInvStep, <1>1, PTL DEF CapSpec

-----------------------------------------------------------------------------
(* The window *)

Instants == 0..MaxTime

\* What is forgotten: the calls before those that the instants still name.
Forgotten(s) == Len(calls[s]) - Len(stamps[s])

\* The instants are the end of the session's calls, never more of them than the
\* cap, and what has been forgotten is out of the window for good.
WindowInv ==
    /\ clock \in Instants
    /\ stamps \in [Sessions -> Seq(Instants)]
    /\ calls \in [Sessions -> Seq(Instants)]
    /\ \A s \in Sessions :
          /\ Len(stamps[s]) <= MaxCalls
          /\ Forgotten(s) \in Nat
          /\ \A i \in 1..Forgotten(s) : ~Fresh(calls[s][i])
          /\ \A j \in 1..Len(stamps[s]) : stamps[s][j] = calls[s][Forgotten(s) + j]

\* Every set of numbers has its least.
LEMMA Least ==
    ASSUME NEW T, T \subseteq Nat, T # {}
    PROVE  \E n \in T : \A m \in T : n <= m
<1>1. \E n \in T : \A m \in T : ~(<<m, n>> \in OpToRel(<, Nat))
  BY WFMin, NatLessThanWellFounded, Zenon
<1>2. PICK n \in T : \A m \in T : ~(m < n)
  BY <1>1, Zenon DEF OpToRel
<1> QED BY <1>2

\* The loop stops at the first fresh instant, or with none left.
LEMMA StaleIs ==
    ASSUME NEW q \in Seq(Instants)
    PROVE  /\ Stale(q) \in 0..Len(q)
           /\ \A i \in 1..Stale(q) : ~Fresh(q[i])
           /\ Stale(q) < Len(q) => Fresh(q[Stale(q) + 1])
<1> DEFINE Stops(k) == /\ \A i \in 1..k : ~Fresh(q[i])
                       /\ k < Len(q) => Fresh(q[k + 1])
           T == {k \in 0..Len(q) : k < Len(q) => Fresh(q[k + 1])}
<1>1. T \subseteq Nat /\ Len(q) \in T
  OBVIOUS
<1>2. PICK k \in T : \A m \in T : k <= m
  BY <1>1, Least
<1>3. \A i \in 1..k : ~Fresh(q[i])
  <2> SUFFICES ASSUME NEW i \in 1..k, Fresh(q[i]) PROVE FALSE
    OBVIOUS
  <2>1. i - 1 \in 0..Len(q) /\ (i - 1) + 1 = i
    OBVIOUS
  <2>2. i - 1 \in T
    BY <2>1, Fresh(q[(i - 1) + 1])
  <2>3. i - 1 \in Nat /\ k \in Nat /\ i - 1 < k
    BY <1>1
  <2> HIDE DEF T
  <2>4. k <= i - 1
    BY <1>2, <2>2
  <2> QED BY <2>3, <2>4
<1>4. Stops(k) /\ k \in 0..Len(q)
  BY <1>3
<1>5. Stale(q) = CHOOSE n \in 0..Len(q) : Stops(n)
  BY DEF Stale
<1> HIDE DEF Stops
<1>6. Stale(q) \in 0..Len(q) /\ Stops(Stale(q))
  BY <1>4, <1>5
<1> QED BY <1>6 DEF Stops

\* What a request goes by: the instants and the calls of a session, known or new.
LEMMA BroughtIn ==
    ASSUME WindowInv, NEW s \in Sessions
    PROVE  /\ StampsOf(s) \in Seq(Instants) /\ CallsOf(s) \in Seq(Instants)
           /\ Len(StampsOf(s)) <= MaxCalls
           /\ Len(CallsOf(s)) - Len(StampsOf(s)) \in Nat
           /\ \A i \in 1..Len(CallsOf(s)) - Len(StampsOf(s)) : ~Fresh(CallsOf(s)[i])
           /\ \A j \in 1..Len(StampsOf(s)) :
                  StampsOf(s)[j] = CallsOf(s)[Len(CallsOf(s)) - Len(StampsOf(s)) + j]
<1>1. CASE Known(s)
  BY <1>1 DEF WindowInv, StampsOf, CallsOf, Forgotten
<1>2. CASE ~Known(s)
  BY <1>2, CapConstants DEF StampsOf, CallsOf
<1> QED BY <1>1, <1>2

\* Pruning only forgets what is out of the window.
LEMMA PrunedIs ==
    ASSUME WindowInv, NEW s \in Sessions
    PROVE  /\ Pruned(s) \in Seq(Instants)
           /\ Len(Pruned(s)) <= Len(StampsOf(s))
           /\ \A i \in 1..Len(CallsOf(s)) - Len(Pruned(s)) : ~Fresh(CallsOf(s)[i])
           /\ \A j \in 1..Len(Pruned(s)) :
                  Pruned(s)[j] = CallsOf(s)[Len(CallsOf(s)) - Len(Pruned(s)) + j]
           /\ Len(Pruned(s)) > 0 => Fresh(Pruned(s)[1])
<1> DEFINE q == StampsOf(s)
           c == CallsOf(s)
           k == Stale(q)
           p == Pruned(s)
<1>1. /\ q \in Seq(Instants) /\ c \in Seq(Instants) /\ Len(c) - Len(q) \in Nat
      /\ \A i \in 1..Len(c) - Len(q) : ~Fresh(c[i])
      /\ \A j \in 1..Len(q) : q[j] = c[Len(c) - Len(q) + j]
  BY BroughtIn
<1>2. /\ k \in 0..Len(q) /\ \A i \in 1..k : ~Fresh(q[i])
      /\ k < Len(q) => Fresh(q[k + 1])
  BY <1>1, StaleIs
<1>3. p = SubSeq(q, k + 1, Len(q))
  BY DEF Pruned
<1> HIDE DEF q, c, k, p
<1>4. k + 1 \in Int /\ Len(q) \in Int /\ Len(q) \in Nat /\ Len(c) \in Nat
      /\ \A i \in k + 1..Len(q) : q[i] \in Instants
  BY <1>1, <1>2
<1>5. /\ p \in Seq(Instants) /\ Len(p) = Len(q) - k
      /\ \A j \in 1..Len(p) : p[j] = q[k + j]
  <2>1. /\ p \in Seq(Instants)
        /\ Len(p) = IF k + 1 <= Len(q) THEN Len(q) - (k + 1) + 1 ELSE 0
        /\ \A i \in 1..Len(q) - (k + 1) + 1 : p[i] = q[(k + 1) + i - 1]
    BY <1>3, <1>4, SubSeqProperties
  <2>2. Len(p) = Len(q) - k
    BY <1>2, <1>4, <2>1
  <2>3. ASSUME NEW j \in 1..Len(p) PROVE p[j] = q[k + j]
    <3>1. j \in 1..Len(q) - (k + 1) + 1 /\ (k + 1) + j - 1 = k + j
      BY <1>2, <1>4, <2>2
    <3> QED BY <2>1, <3>1
  <2> QED BY <2>1, <2>2, <2>3
<1>6. Len(p) <= Len(q)
  BY <1>2, <1>4, <1>5
<1>7. ASSUME NEW i \in 1..Len(c) - Len(p) PROVE ~Fresh(c[i])
  <2>1. CASE i \in 1..Len(c) - Len(q)
    BY <1>1, <2>1
  <2>2. CASE i \notin 1..Len(c) - Len(q)
    <3> DEFINE j == i - (Len(c) - Len(q))
    <3>1. j \in 1..k /\ j \in 1..Len(q) /\ Len(c) - Len(q) + j = i
      BY <1>1, <1>2, <1>4, <1>5, <1>7, <2>2
    <3> HIDE DEF j
    <3> QED BY <1>1, <1>2, <3>1
  <2> QED BY <2>1, <2>2
<1>8. ASSUME NEW j \in 1..Len(p) PROVE p[j] = c[Len(c) - Len(p) + j]
  <2>1. k + j \in 1..Len(q) /\ Len(c) - Len(q) + (k + j) = Len(c) - Len(p) + j
    BY <1>1, <1>2, <1>4, <1>5, <1>8
  <2> QED BY <1>1, <1>5, <2>1
<1>9. Len(p) > 0 => Fresh(p[1])
  BY <1>2, <1>4, <1>5
<1> QED BY <1>5, <1>6, <1>7, <1>8, <1>9 DEF q, c, p

\* A session's new instants and calls, the other sessions' as they are.
LEMMA WindowPut ==
    ASSUME WindowInv, NEW s \in Sessions, NEW p \in Seq(Instants), NEW c \in Seq(Instants),
           Len(p) <= MaxCalls, Len(p) <= Len(c),
           \A i \in 1..Len(c) - Len(p) : ~Fresh(c[i]),
           \A j \in 1..Len(p) : p[j] = c[Len(c) - Len(p) + j],
           stamps' = [stamps EXCEPT ![s] = p], calls' = [calls EXCEPT ![s] = c],
           UNCHANGED clock
    PROVE  WindowInv'
<1>1. stamps' \in [Sessions -> Seq(Instants)] /\ calls' \in [Sessions -> Seq(Instants)]
  BY DEF WindowInv
<1>2. ASSUME NEW r \in Sessions
      PROVE  /\ Len(stamps'[r]) <= MaxCalls
             /\ Forgotten(r)' \in Nat
             /\ \A i \in 1..Forgotten(r)' : ~Fresh(calls'[r][i])
             /\ \A j \in 1..Len(stamps'[r]) : stamps'[r][j] = calls'[r][Forgotten(r)' + j]
  <2>1. CASE r = s
    <3>1. stamps'[s] = p /\ calls'[s] = c
      BY DEF WindowInv
    <3>2. Len(c) - Len(p) \in Nat
      OBVIOUS
    <3> QED BY <2>1, <3>1, <3>2 DEF Forgotten
  <2>2. CASE r # s
    <3>1. stamps'[r] = stamps[r] /\ calls'[r] = calls[r]
      BY <2>2 DEF WindowInv
    <3> QED BY <3>1 DEF WindowInv, Forgotten
  <2> QED BY <2>1, <2>2
<1>3. \A x : Fresh(x)' <=> Fresh(x)
  BY DEF Fresh
<1>4. clock' \in Instants
  BY DEF WindowInv
<1> QED BY <1>1, <1>2, <1>3, <1>4 DEF WindowInv, Fresh

LEMMA WindowInit == CapInit => WindowInv
  BY CapConstants DEF CapInit, WindowInv, Forgotten, Instants

LEMMA WindowStep == WindowInv /\ [CapNext]_capVars => WindowInv'
<1> SUFFICES ASSUME WindowInv, [CapNext]_capVars PROVE WindowInv'
  OBVIOUS
<1>1. CASE Tick
  <2>1. clock' = clock + 1 /\ UNCHANGED <<stamps, calls>> /\ clock \in Instants /\ clock' \in Instants
    BY <1>1, CapConstants DEF Tick, WindowInv, Instants
  <2>2. \A x \in Instants : ~Fresh(x) => ~Fresh(x)'
    BY <2>1, CapConstants DEF Fresh, Instants
  <2>3. \A s \in Sessions : Forgotten(s)' = Forgotten(s)
    BY <2>1 DEF Forgotten
  <2>4. ASSUME NEW s \in Sessions, NEW i \in 1..Forgotten(s) PROVE ~Fresh(calls[s][i])'
    <3>1. ~Fresh(calls[s][i])
      BY DEF WindowInv
    <3>2. calls[s] \in Seq(Instants) /\ i \in 1..Len(calls[s])
      BY DEF WindowInv, Forgotten
    <3>3. calls[s][i] \in Instants
      BY <3>2
    <3> QED BY <2>1, <2>2, <3>1, <3>3 DEF Fresh
  <2> QED BY <2>1, <2>3, <2>4 DEF WindowInv
<1>2. ASSUME NEW s \in Sessions, NEW t \in Tools, NEW n \in Units, Request(s, t, n)
      PROVE  WindowInv'
  <2> DEFINE p == Pruned(s)
             q == StampsOf(s)
             c == CallsOf(s)
  <2>1. /\ q \in Seq(Instants) /\ c \in Seq(Instants) /\ Len(q) <= MaxCalls
        /\ Len(c) - Len(q) \in Nat
        /\ \A i \in 1..Len(c) - Len(q) : ~Fresh(c[i])
        /\ \A j \in 1..Len(q) : q[j] = c[Len(c) - Len(q) + j]
    BY BroughtIn
  <2>2. /\ p \in Seq(Instants) /\ Len(p) <= Len(q)
        /\ \A i \in 1..Len(c) - Len(p) : ~Fresh(c[i])
        /\ \A j \in 1..Len(p) : p[j] = c[Len(c) - Len(p) + j]
    BY PrunedIs
  <2>3. UNCHANGED clock /\ clock \in Instants /\ MaxCalls \in Nat
    BY <1>2, CapConstants DEF Request, WindowInv
  <2>4. CASE RejectTool(s, t, n)
    <3>1. stamps' = [stamps EXCEPT ![s] = q] /\ calls' = [calls EXCEPT ![s] = c]
      BY <2>4 DEF RejectTool
    <3> HIDE DEF p, q, c
    <3>2. Len(q) <= Len(c)
      BY <2>1
    <3> QED BY <2>1, <2>3, <3>1, <3>2, WindowPut
  <2>5. CASE RejectHourly(s, t, n)
    <3>1. stamps' = [stamps EXCEPT ![s] = p] /\ calls' = [calls EXCEPT ![s] = c]
      BY <2>5 DEF RejectHourly
    <3> HIDE DEF p, q, c
    <3>2. Len(p) <= MaxCalls /\ Len(p) <= Len(c)
      BY <2>1, <2>2, <2>3
    <3> QED BY <2>1, <2>2, <2>3, <3>1, <3>2, WindowPut
  <2>6. CASE Allow(s, t, n)
    <3>1. /\ stamps' = [stamps EXCEPT ![s] = Append(p, clock)] /\ Len(p) < MaxCalls
          /\ calls' = [calls EXCEPT ![s] = Append(c, clock)]
      BY <2>6 DEF Allow
    <3> HIDE DEF p, q, c
    <3> DEFINE x == Append(p, clock)
               y == Append(c, clock)
    <3>2. /\ x \in Seq(Instants) /\ Len(x) = Len(p) + 1
          /\ x[Len(p) + 1] = clock /\ \A j \in 1..Len(p) : x[j] = p[j]
      BY <2>2, <2>3
    <3>3. /\ y \in Seq(Instants) /\ Len(y) = Len(c) + 1
          /\ y[Len(c) + 1] = clock /\ \A j \in 1..Len(c) : y[j] = c[j]
      BY <2>1, <2>3
    <3> HIDE DEF x, y
    <3>4. Len(p) \in Nat /\ Len(c) \in Nat /\ Len(p) <= Len(c)
      BY <2>1, <2>2
    <3>5. Len(x) <= MaxCalls /\ Len(x) <= Len(y) /\ Len(y) - Len(x) = Len(c) - Len(p)
      BY <2>3, <3>1, <3>2, <3>3, <3>4
    <3>6. ASSUME NEW i \in 1..Len(y) - Len(x) PROVE ~Fresh(y[i])
      <4>1. i \in 1..Len(c) - Len(p) /\ i \in 1..Len(c)
        BY <3>4, <3>5
      <4>2. y[i] = c[i]
        BY <3>3, <4>1
      <4> QED BY <2>2, <4>1, <4>2
    <3>7. ASSUME NEW j \in 1..Len(x) PROVE x[j] = y[Len(y) - Len(x) + j]
      <4>1. CASE j = Len(p) + 1
        <5>1. Len(y) - Len(x) + j = Len(c) + 1
          BY <3>4, <3>5, <4>1
        <5> QED BY <3>2, <3>3, <4>1, <5>1
      <4>2. CASE j # Len(p) + 1
        <5>1. j \in 1..Len(p) /\ Len(c) - Len(p) + j \in 1..Len(c)
          BY <3>2, <3>4, <4>2
        <5> QED BY <2>2, <3>2, <3>3, <3>5, <5>1
      <4> QED BY <4>1, <4>2
    <3>8. stamps' = [stamps EXCEPT ![s] = x] /\ calls' = [calls EXCEPT ![s] = y]
      BY <3>1 DEF x, y
    <3> QED BY <2>3, <3>2, <3>3, <3>5, <3>6, <3>7, <3>8, WindowPut
  <2> QED BY <1>2, <2>4, <2>5, <2>6 DEF Request
<1>3. CASE UNCHANGED capVars
  BY <1>3 DEF capVars, WindowInv, Forgotten, Fresh
<1> QED BY <1>1, <1>2, <1>3 DEF CapNext

\* The calls of a session stand in the order of their instants, and none of
\* them is still to come.
OrderInv ==
    /\ clock \in Instants
    /\ calls \in [Sessions -> Seq(Instants)]
    /\ \A s \in Sessions : \A i, j \in 1..Len(calls[s]) : i <= j => calls[s][i] <= calls[s][j]
    /\ \A s \in Sessions : \A i \in 1..Len(calls[s]) : calls[s][i] <= clock

LEMMA OrderInit == CapInit => OrderInv
  BY CapConstants DEF CapInit, OrderInv, Instants

\* What a request goes by is in order too, and so is what one more call makes of it.
LEMMA InOrder ==
    ASSUME OrderInv, NEW s \in Sessions
    PROVE  LET c == CallsOf(s)
               y == Append(c, clock)
           IN  /\ c \in Seq(Instants) /\ y \in Seq(Instants)
               /\ \A i, j \in 1..Len(c) : i <= j => c[i] <= c[j]
               /\ \A i \in 1..Len(c) : c[i] <= clock
               /\ \A i, j \in 1..Len(y) : i <= j => y[i] <= y[j]
               /\ \A i \in 1..Len(y) : y[i] <= clock
<1> DEFINE c == CallsOf(s)
           y == Append(c, clock)
<1>1. /\ c \in Seq(Instants)
      /\ \A i, j \in 1..Len(c) : i <= j => c[i] <= c[j]
      /\ \A i \in 1..Len(c) : c[i] <= clock
  <2>1. CASE Known(s)
    BY <2>1 DEF OrderInv, CallsOf
  <2>2. CASE ~Known(s)
    BY <2>2 DEF CallsOf
  <2> QED BY <2>1, <2>2
<1> HIDE DEF c
<1>2. clock \in Instants /\ clock <= clock
  BY CapConstants DEF OrderInv, Instants
<1>3. /\ y \in Seq(Instants) /\ Len(y) = Len(c) + 1 /\ Len(c) \in Nat
      /\ y[Len(c) + 1] = clock /\ \A j \in 1..Len(c) : y[j] = c[j]
  BY <1>1, <1>2
<1> HIDE DEF y
<1>4. \A i \in 1..Len(y) : i \in 1..Len(c) \/ i = Len(c) + 1
  BY <1>3
<1>5. \A i \in 1..Len(y) : y[i] <= clock
  BY <1>1, <1>2, <1>3, <1>4
<1>6. ASSUME NEW i \in 1..Len(y), NEW j \in 1..Len(y), i <= j PROVE y[i] <= y[j]
  <2>1. CASE j = Len(c) + 1
    BY <1>3, <1>5, <2>1
  <2>2. CASE j \in 1..Len(c)
    <3>1. i \in 1..Len(c)
      BY <1>3, <1>6, <2>2
    <3> QED BY <1>1, <1>3, <1>6, <2>2, <3>1
  <2> QED BY <1>4, <2>1, <2>2
<1> QED BY <1>1, <1>3, <1>5, <1>6 DEF c, y

LEMMA OrderStep == OrderInv /\ [CapNext]_capVars => OrderInv'
<1> SUFFICES ASSUME OrderInv, [CapNext]_capVars PROVE OrderInv'
  OBVIOUS
<1>1. CASE Tick
  <2>1. clock' = clock + 1 /\ UNCHANGED calls /\ clock \in Instants /\ clock' \in Instants
    BY <1>1, CapConstants DEF Tick, OrderInv, Instants
  <2>2. \A x \in Instants : x <= clock => x <= clock'
    BY <2>1, CapConstants DEF Instants
  <2>3. \A s \in Sessions : \A i \in 1..Len(calls[s]) : calls[s][i] \in Instants
    BY DEF OrderInv
  <2> QED BY <2>1, <2>2, <2>3 DEF OrderInv
<1>2. ASSUME NEW s \in Sessions, NEW t \in Tools, NEW n \in Units, Request(s, t, n)
      PROVE  OrderInv'
  <2> DEFINE c == CallsOf(s)
             y == Append(c, clock)
  <2>1. PICK d \in {c, y} : calls' = [calls EXCEPT ![s] = d] /\ UNCHANGED clock
    BY <1>2 DEF Request, RejectTool, RejectHourly, Allow
  <2>2. /\ d \in Seq(Instants)
        /\ \A i, j \in 1..Len(d) : i <= j => d[i] <= d[j]
        /\ \A i \in 1..Len(d) : d[i] <= clock
    BY <2>1, InOrder
  <2> HIDE DEF c, y
  <2>3. \A r \in Sessions : calls'[r] = IF r = s THEN d ELSE calls[r]
    BY <2>1 DEF OrderInv
  <2>4. calls' \in [Sessions -> Seq(Instants)] /\ clock' = clock
    BY <2>1, <2>2 DEF OrderInv
  <2> QED BY <2>2, <2>3, <2>4 DEF OrderInv
<1>3. CASE UNCHANGED capVars
  BY <1>3 DEF capVars, OrderInv
<1> QED BY <1>1, <1>2, <1>3 DEF CapNext

\* The positions after the first f are as many as are left of b, and a set of
\* them has no more.
LEMMA LastOnes ==
    ASSUME NEW f \in Nat, NEW b \in Nat, NEW n \in Nat, f = b - n
    PROVE  /\ Cardinality((f + 1)..b) = n
           /\ \A F \in SUBSET ((f + 1)..b) : Cardinality(F) \in Nat /\ Cardinality(F) <= n
<1> DEFINE a == f + 1
<1>1. a \in Int /\ b \in Int /\ (IF a > b THEN 0 ELSE b - a + 1) = n
  OBVIOUS
<1> HIDE DEF a
<1>2. IsFiniteSet(a..b) /\ Cardinality(a..b) = n
  BY <1>1, FS_Interval
<1>3. ASSUME NEW F \in SUBSET (a..b) PROVE Cardinality(F) \in Nat /\ Cardinality(F) <= n
  <2>1. IsFiniteSet(F) /\ Cardinality(F) <= Cardinality(a..b)
    BY <1>2, FS_Subset
  <2> QED BY <1>2, <2>1, FS_CardinalityType
<1> QED BY <1>2, <1>3 DEF a

\* The calls of a session that stand in the window are within the cap.
LEMMA WithinCap ==
    ASSUME WindowInv, NEW s \in Sessions
    PROVE  Cardinality({i \in DOMAIN calls[s] : calls[s][i] >= clock - Window}) <= MaxCalls
<1> DEFINE F == {i \in DOMAIN calls[s] : calls[s][i] >= clock - Window}
           b == Len(calls[s])
           m == Cardinality(F)
<1>1. /\ Len(stamps[s]) \in Nat /\ b \in Nat /\ Forgotten(s) \in Nat
      /\ Forgotten(s) = b - Len(stamps[s]) /\ DOMAIN calls[s] = 1..b
      /\ Len(stamps[s]) <= MaxCalls /\ MaxCalls \in Nat
  BY CapConstants DEF WindowInv, Forgotten
<1>2. F \in SUBSET ((Forgotten(s) + 1)..b)
  <2> SUFFICES ASSUME NEW i \in 1..b, Fresh(calls[s][i]) PROVE i \in (Forgotten(s) + 1)..b
    BY <1>1 DEF Fresh
  <2>1. i \notin 1..Forgotten(s)
    BY DEF WindowInv
  <2>2. Forgotten(s) \in Nat /\ b \in Nat
    BY <1>1
  <2> HIDE DEF b, F
  <2> QED BY <2>1, <2>2
<1> HIDE DEF F
<1>3. m \in Nat /\ m <= Len(stamps[s])
  BY <1>1, <1>2, LastOnes
<1> HIDE DEF m, b
<1>4. m <= MaxCalls
  BY <1>1, <1>3
<1> QED BY <1>4 DEF m, F

\* What the pruning leaves are the calls in the window: the first left is fresh,
\* and those behind it are no older.
LEMMA PrunedCounts ==
    ASSUME WindowInv, OrderInv, NEW s \in Sessions
    PROVE  Len(Pruned(s)) = Cardinality({i \in DOMAIN CallsOf(s) : CallsOf(s)[i] >= clock - Window})
<1> DEFINE c == CallsOf(s)
           p == Pruned(s)
           F == {i \in DOMAIN c : c[i] >= clock - Window}
           f == Len(c) - Len(p)
<1>1. /\ c \in Seq(Instants) /\ \A i, j \in 1..Len(c) : i <= j => c[i] <= c[j]
  BY InOrder
<1>2. /\ p \in Seq(Instants) /\ Len(p) <= Len(StampsOf(s))
      /\ \A i \in 1..f : ~Fresh(c[i])
      /\ \A j \in 1..Len(p) : p[j] = c[f + j]
      /\ Len(p) > 0 => Fresh(p[1])
  BY PrunedIs
<1>3. StampsOf(s) \in Seq(Instants) /\ Len(c) - Len(StampsOf(s)) \in Nat
  BY BroughtIn
<1>4. DOMAIN c = 1..Len(c) /\ Len(c) \in Nat /\ Len(p) \in Nat /\ Len(StampsOf(s)) \in Nat
  BY <1>1, <1>2, <1>3
<1> HIDE DEF p
<1>5. f \in Nat /\ f = Len(c) - Len(p)
  BY <1>2, <1>3, <1>4
<1> HIDE DEF c, f
<1>6. ASSUME NEW i \in 1..Len(c) PROVE Fresh(c[i]) <=> i \in (f + 1)..Len(c)
  <2>1. CASE i \in 1..f
    BY <1>2, <1>5, <2>1
  <2>2. CASE i \notin 1..f
    <3>1. i \in (f + 1)..Len(c) /\ 1 \in 1..Len(p) /\ f + 1 \in 1..Len(c) /\ f + 1 <= i
      BY <1>4, <1>5, <2>2
    <3>2. Fresh(c[f + 1]) /\ c[f + 1] <= c[i] /\ c[i] \in Instants /\ c[f + 1] \in Instants
      BY <1>1, <1>2, <1>4, <3>1
    <3>3. Fresh(c[i])
      BY <3>2, CapConstants DEF Fresh, Instants, WindowInv
    <3> QED BY <3>1, <3>3
  <2> QED BY <2>1, <2>2
<1>7. F = (f + 1)..Len(c)
  <2>1. F \subseteq (f + 1)..Len(c)
    BY <1>4, <1>6 DEF Fresh
  <2>2. ASSUME NEW i \in (f + 1)..Len(c) PROVE i \in F
    <3>1. i \in 1..Len(c)
      BY <1>4, <1>5
    <3> QED BY <1>4, <1>6, <3>1 DEF Fresh
  <2> QED BY <2>1, <2>2
<1> HIDE DEF F
<1>8. Cardinality(F) = Len(p)
  BY <1>4, <1>5, <1>7, LastOnes
<1> QED BY <1>8 DEF F, c, p

\* No stretch of one window, both ends included, sees more calls of a session
\* than the hourly cap, and a request is judged by exactly the calls in the
\* window, whatever the window, the cap and the pruning that check_both_caps
\* does on the way.
THEOREM HourlyWindowHolds == CapSpec => []HourlyWindow
<1>1. WindowInv /\ OrderInv => HourlyWindow
  BY WithinCap, PrunedCounts DEF HourlyWindow
<1> QED BY WindowInit, WindowStep, OrderInit, OrderStep, <1>1, PTL DEF CapSpec

-----------------------------------------------------------------------------
(* The registry *)

\* The registry holds a session once and never more of them than it may.
RegistryInv ==
    /\ registry \in Seq(Sessions) /\ OnceEach(registry)
    /\ Len(registry) <= MaxRegistry

\* Who has a place in the registry is known.
LEMMA KnownHas ==
    ASSUME NEW s PROVE Known(s) <=> Has(registry, s)
BY DEF Known, Times, Has

\* popitem makes room for one, and only the oldest leave.
LEMMA EvictedIs ==
    ASSUME RegistryInv
    PROVE  /\ Evicted \in Seq(Sessions) /\ OnceEach(Evicted)
           /\ Len(Evicted) + 1 <= MaxRegistry
           /\ \A s : Has(Evicted, s) => Has(registry, s)
<1> DEFINE over == IF Len(registry) < MaxRegistry THEN 0
                   ELSE Len(registry) - MaxRegistry + 1
           k == over + 1
<1>1. /\ Evicted = SubSeq(registry, k, Len(registry))
      /\ registry \in Seq(Sessions) /\ OnceEach(registry)
  BY DEF Evicted, RegistryInv
<1>2. /\ Len(registry) \in Nat /\ MaxRegistry \in Nat \ {0}
      /\ k \in 1..(Len(registry) + 1) /\ Len(registry) - k + 2 <= MaxRegistry
  BY <1>1, CapConstants DEF RegistryInv
<1> HIDE DEF k
<1>3. /\ Evicted \in Seq(Sessions) /\ OnceEach(Evicted)
      /\ Len(Evicted) = Len(registry) - k + 1
      /\ \A s : Has(Evicted, s) => Has(registry, s)
  BY <1>1, <1>2, CutOff
<1> QED BY <1>2, <1>3

\* A request leaves its session in the registry, last and once.
LEMMA TouchedIs ==
    ASSUME RegistryInv, NEW s \in Sessions
    PROVE  /\ Touched(s) \in Seq(Sessions) /\ OnceEach(Touched(s))
           /\ Len(Touched(s)) <= MaxRegistry
<1> DEFINE q == IF Known(s) THEN RemoveFirst(registry, s) ELSE Evicted
<1>1. q \in Seq(Sessions) /\ OnceEach(q) /\ ~Has(q, s) /\ Len(q) + 1 <= MaxRegistry
  <2>1. CASE Known(s)
    <3> DEFINE r == RemoveFirst(registry, s)
    <3>1. /\ r \in Seq(Sessions) /\ OnceEach(r) /\ Len(r) = Len(registry) - 1
          /\ ~Has(r, s)
      BY <2>1, KnownHas, LeavesIt DEF RegistryInv
    <3>2. Len(registry) \in Nat /\ Len(registry) <= MaxRegistry /\ MaxRegistry \in Nat
      BY CapConstants DEF RegistryInv
    <3> HIDE DEF r
    <3>3. Len(r) + 1 <= MaxRegistry
      BY <3>1, <3>2
    <3>4. q = r
      BY <2>1 DEF r
    <3> HIDE DEF q
    <3> QED BY <3>1, <3>3, <3>4
  <2>2. CASE ~Known(s)
    BY <2>2, KnownHas, EvictedIs
  <2> QED BY <2>1, <2>2
<1>2. Touched(s) = Append(q, s)
  BY DEF Touched
<1> HIDE DEF q
<1>3. /\ Append(q, s) \in Seq(Sessions) /\ OnceEach(Append(q, s))
      /\ Len(Append(q, s)) = Len(q) + 1
  BY <1>1, PutBehind
<1> QED BY <1>1, <1>2, <1>3

\* Every step keeps the registry so.
LEMMA RegistryStep == RegistryInv /\ [CapNext]_capVars => RegistryInv'
<1> SUFFICES ASSUME RegistryInv, [CapNext]_capVars PROVE RegistryInv'
  OBVIOUS
<1>1. CASE UNCHANGED registry
  BY <1>1 DEF RegistryInv
<1>2. ASSUME NEW s \in Sessions, registry' = Touched(s) PROVE RegistryInv'
  BY <1>2, TouchedIs DEF RegistryInv
<1>3. CASE Tick \/ UNCHANGED capVars
  BY <1>1, <1>3 DEF Tick, capVars
<1> QED BY <1>2, <1>3 DEF CapNext, Request

\* Whatever sessions come, come back and are forgotten, the registry is no longer
\* than its maximum and names each session once, and counters and instants are
\* within their types.
THEOREM RegistryHolds == CapSpec => []CapTypeOK
<1>1. CapInit => RegistryInv
  BY CapConstants DEF CapInit, RegistryInv, OnceEach
<1>2. CapInv /\ WindowInv /\ RegistryInv => CapTypeOK
  <2> SUFFICES ASSUME CapInv, WindowInv, RegistryInv PROVE CapTypeOK
    OBVIOUS
  <2>1. Cardinality(Times(registry)) = Len(registry)
    BY AsManyAsLong DEF RegistryInv, Times
  <2> QED BY <2>1 DEF CapInv, WindowInv, RegistryInv, Instants, CapTypeOK
<1> QED BY CapInvInit, CapInvStep, WindowInit, WindowStep, RegistryStep, <1>1, <1>2,
           PTL DEF CapSpec

-----------------------------------------------------------------------------
(* The Lean REPL *)

\* What a call has at hand where it stands.
Fit(r) ==
    /\ r \in CallRecords
    /\ r.pc \in {"queued", "reading", "audit", "timedout", "closing"} => r.gen \in Gens
    /\ r.pc = "new" => r.got = << >>
    /\ r.pc = "queued" => Len(r.cmd) = 1
    /\ r.got # << >> => r.gen \in Gens
    /\ r.pc = "audit" => r.got # << >>

LeanTyped == LeanTypeOK /\ \A c \in Calls : Fit(call[c])

-----------------------------------------------------------------------------
\* What a call's replies mint is a token.
LEMMA MintedTyped ==
    ASSUME NEW g \in Gens, NEW got \in Seq(Replies)
    PROVE  Minted(g, got) \subseteq Tokens
<1>1. CASE got = << >>
  BY <1>1 DEF Minted
<1>2. CASE got # << >>
  <2>1. got[1] \in Replies
    BY <1>2
  <2> QED BY <2>1 DEF Minted, Tokens, Replies
<1> QED BY <1>1, <1>2

\* A call's new record, the others staying as they are.
LEMMA CallTyped ==
    ASSUME LeanTyped, NEW c \in Calls, NEW r, Fit(r), call' = [call EXCEPT ![c] = r]
    PROVE  call' \in [Calls -> CallRecords] /\ (\A d \in Calls : Fit(call[d]))'
<1>1. call' \in [Calls -> CallRecords]
  BY DEF LeanTyped, LeanTypeOK, Fit
<1>2. ASSUME NEW d \in Calls PROVE Fit(call'[d])
  <2>1. call'[d] = IF d = c THEN r ELSE call[d]
    BY DEF LeanTyped, LeanTypeOK
  <2> QED BY <2>1 DEF LeanTyped
<1> QED BY <1>1, <1>2

\* A call that ends, waits for the lock or has it is fit.
LEMMA RecordFit ==
    ASSUME NEW r, Fit(r), NEW g \in Gens, r.got # << >> => r.gen = g
    PROVE  /\ Fit([r EXCEPT !.pc = "done"])
           /\ Fit([r EXCEPT !.pc = "done", !.gen = g])
           /\ Fit([r EXCEPT !.pc = "reading", !.gen = g, !.cmd = << >>])
           /\ \A cmd \in Commands :
                Fit([r EXCEPT !.pc = "queued", !.gen = g, !.cmd = <<cmd>>])
<1>1. /\ r \in CallRecords
      /\ g \in 0..MaxGen
  BY DEF Fit, Gens
<1>2. << >> \in Seq(Commands)
      /\ \A cmd \in Commands : <<cmd>> \in Seq(Commands) /\ Len(<<cmd>>) = 1
  OBVIOUS
<1>3. Fit([r EXCEPT !.pc = "done"])
  <2>1. [r EXCEPT !.pc = "done"] \in CallRecords
    BY <1>1 DEF CallRecords
  <2> QED BY <1>1, <2>1 DEF Fit, CallRecords
<1>4. Fit([r EXCEPT !.pc = "done", !.gen = g])
  <2>1. [r EXCEPT !.pc = "done", !.gen = g] \in CallRecords
    BY <1>1 DEF CallRecords
  <2> QED BY <1>1, <2>1 DEF Fit, CallRecords
<1>5. Fit([r EXCEPT !.pc = "reading", !.gen = g, !.cmd = << >>])
  <2>1. [r EXCEPT !.pc = "reading", !.gen = g, !.cmd = << >>] \in CallRecords
    BY <1>1, <1>2 DEF CallRecords
  <2> QED BY <1>1, <2>1 DEF Fit, CallRecords
<1>6. ASSUME NEW cmd \in Commands
      PROVE  Fit([r EXCEPT !.pc = "queued", !.gen = g, !.cmd = <<cmd>>])
  <2>1. [r EXCEPT !.pc = "queued", !.gen = g, !.cmd = <<cmd>>] \in CallRecords
    BY <1>1, <1>2 DEF CallRecords
  <2> QED BY <1>1, <1>2, <2>1 DEF Fit, CallRecords
<1> QED BY <1>3, <1>4, <1>5, <1>6

\* Writing a command, or finding the process gone, keeps the types.
LEMMA SendTyped ==
    ASSUME LeanTyped, NEW c \in Calls, NEW g \in Gens, NEW cmd \in Commands,
           call[c].got # << >> => call[c].gen = g,
           Send(c, g, cmd), UNCHANGED <<repl, spawned, process, stdout, log, lost>>
    PROVE  LeanTyped'
<1>0. Fit(call[c]) /\ call[c].got \in Seq(Replies)
  BY DEF LeanTyped, Fit, CallRecords
<1>1. CASE process[g] = "dead" /\ call' = [call EXCEPT ![c].pc = "done", ![c].gen = g]
           /\ tokens' = tokens \cup Minted(g, call[c].got) /\ UNCHANGED <<owner, stdin>>
  <2> DEFINE r == [call[c] EXCEPT !.pc = "done", !.gen = g]
  <2>1. Fit(r)
    BY <1>0, RecordFit
  <2>2. call' = [call EXCEPT ![c] = r]
    BY <1>1 DEF LeanTyped, LeanTypeOK, CallRecords
  <2>3. tokens' \subseteq Tokens
    BY <1>0, <1>1, MintedTyped DEF LeanTyped, LeanTypeOK
  <2> HIDE DEF r
  <2>4. call' \in [Calls -> CallRecords] /\ (\A d \in Calls : Fit(call[d]))'
    BY <2>1, <2>2, CallTyped
  <2> QED BY <1>1, <2>3, <2>4 DEF LeanTyped, LeanTypeOK
<1>2. CASE /\ call' = [call EXCEPT ![c] = [@ EXCEPT !.pc = "reading", !.gen = g, !.cmd = << >>]]
           /\ owner' = [owner EXCEPT ![g] = c]
           /\ stdin' = [stdin EXCEPT ![g] = Append(@, cmd)]
           /\ UNCHANGED tokens
  <2> DEFINE r == [call[c] EXCEPT !.pc = "reading", !.gen = g, !.cmd = << >>]
  <2>1. Fit(r)
    BY <1>0, RecordFit
  <2>2. call' = [call EXCEPT ![c] = r]
    BY <1>2
  <2>3. stdin' \in [Gens -> Seq(Commands)]
    <3>1. Append(stdin[g], cmd) \in Seq(Commands)
      BY DEF LeanTyped, LeanTypeOK
    <3> QED BY <1>2, <3>1 DEF LeanTyped, LeanTypeOK
  <2> HIDE DEF r
  <2>4. call' \in [Calls -> CallRecords] /\ (\A d \in Calls : Fit(call[d]))'
    BY <2>1, <2>2, CallTyped
  <2> QED BY <1>2, <2>3, <2>4 DEF LeanTyped, LeanTypeOK
<1> QED BY <1>1, <1>2 DEF Send

\* Asking for the lock keeps the types.
LEMMA QueryTyped ==
    ASSUME LeanTyped, NEW c \in Calls, NEW g \in Gens, NEW cmd \in Commands,
           call[c].got # << >> => call[c].gen = g,
           Query(c, g, cmd), UNCHANGED <<repl, spawned, process, stdout, log, lost>>
    PROVE  LeanTyped'
<1>1. CASE owner[g] = Nil /\ Waiters(g) = {}
  BY <1>1, SendTyped DEF Query
<1>2. CASE ~(owner[g] = Nil /\ Waiters(g) = {})
  <2> DEFINE r == [call[c] EXCEPT !.pc = "queued", !.gen = g, !.cmd = <<cmd>>]
  <2>1. /\ call' = [call EXCEPT ![c] = r]
        /\ UNCHANGED <<owner, stdin, tokens>>
    BY <1>2 DEF Query
  <2>2. Fit(r)
    BY RecordFit DEF LeanTyped
  <2> HIDE DEF r
  <2>3. call' \in [Calls -> CallRecords] /\ (\A d \in Calls : Fit(call[d]))'
    BY <2>1, <2>2, CallTyped
  <2> QED BY <2>1, <2>3 DEF LeanTyped, LeanTypeOK
<1> QED BY <1>1, <1>2

\* The initial types.
LEMMA TypedInit == LeanInit => LeanTyped
<1> SUFFICES ASSUME LeanInit PROVE LeanTyped
  OBVIOUS
<1> DEFINE r == [pc |-> "new", gen |-> 0, cmd |-> << >>, got |-> << >>]
<1>1. << >> \in Seq(Commands) /\ << >> \in Seq(Replies) /\ << >> \in Seq(Calls)
  OBVIOUS
<1>2. MaxGen \in Nat \ {0} /\ repl \in {0, 1}
  BY LeanConstants DEF LeanInit
<1>3. Fit(r)
  BY <1>1, <1>2 DEF Fit, CallRecords
<1>4. call = [c \in Calls |-> r]
  BY DEF LeanInit
<1>5. r \in CallRecords
  BY <1>3 DEF Fit
<1> HIDE DEF r
<1>6. call \in [Calls -> CallRecords] /\ \A c \in Calls : Fit(call[c])
  BY <1>3, <1>4, <1>5
<1> QED BY <1>1, <1>2, <1>6 DEF LeanInit, LeanTyped, LeanTypeOK, Gens

\* A step that changes one call's record, and the rest as typed.
LEMMA TypedNext == LeanTyped /\ [LeanNext]_leanVars => LeanTyped'
<1> SUFFICES ASSUME LeanTyped, [LeanNext]_leanVars PROVE LeanTyped'
  OBVIOUS
<1>0. ASSUME NEW c \in Calls
      PROVE  /\ Fit(call[c])
             /\ call[c] \in CallRecords
             /\ call[c].got \in Seq(Replies)
             /\ call[c].pc \notin {"new", "done"} => call[c].gen \in Gens
             /\ call[c].got # << >> => call[c].gen \in Gens
  BY DEF LeanTyped, Fit, CallRecords
<1>1. ASSUME NEW c \in Calls, Verify(c) PROVE LeanTyped'
  <2>1. PICK t \in tokens \cup {NoToken} :
          IF repl # 0 /\ (t = NoToken \/ Resumes(t))
          THEN Query(c, repl, [by |-> c, stage |-> 1, env |-> t.env, of |-> t.of])
          ELSE /\ call' = [call EXCEPT ![c].pc = "done"]
               /\ UNCHANGED <<owner, stdin, tokens>>
    BY <1>1 DEF Verify
  <2>2. UNCHANGED <<repl, spawned, process, stdout, log, lost>>
    BY <1>1 DEF Verify
  <2>3. CASE repl # 0 /\ (t = NoToken \/ Resumes(t))
    <3>1. [by |-> c, stage |-> 1, env |-> t.env, of |-> t.of] \in Commands
      BY DEF LeanTyped, LeanTypeOK, Tokens, NoToken, Commands
    <3>2. repl \in Gens /\ call[c].got = << >>
      BY <1>1, <2>3 DEF LeanTyped, LeanTypeOK, Gens, Fit, Verify
    <3> QED BY <2>1, <2>2, <2>3, <3>1, <3>2, QueryTyped
  <2>4. CASE ~(repl # 0 /\ (t = NoToken \/ Resumes(t)))
    <3>1. Fit([call[c] EXCEPT !.pc = "done"])
      BY <1>0 DEF Fit, CallRecords
    <3>2. call' = [call EXCEPT ![c] = [call[c] EXCEPT !.pc = "done"]]
      BY <2>1, <2>4
    <3>3. call' \in [Calls -> CallRecords] /\ (\A d \in Calls : Fit(call[d]))'
      BY <3>1, <3>2, CallTyped
    <3> QED BY <2>1, <2>2, <2>4, <3>3 DEF LeanTyped, LeanTypeOK
  <2> QED BY <2>3, <2>4
<1>2. ASSUME NEW c \in Calls, Turn(c) PROVE LeanTyped'
  <2>1. call[c].cmd[1] \in Commands /\ call[c].gen \in Gens
    BY <1>0, <1>2 DEF Turn, Fit, CallRecords
  <2> QED BY <1>2, <2>1, SendTyped DEF Turn
<1>3. ASSUME NEW c \in Calls, Audit(c) PROVE LeanTyped'
  <2>1. call[c].got[1] \in Replies /\ call[c].gen \in Gens
    BY <1>0, <1>3 DEF Audit, Fit, CallRecords
  <2>2. [by |-> c, stage |-> 2, env |-> call[c].got[1].env, of |-> call[c].got[1].by] \in Commands
    BY <2>1 DEF Replies, Commands
  <2> QED BY <1>3, <2>1, <2>2, QueryTyped DEF Audit
<1>4. ASSUME NEW c \in Calls, Read(c) PROVE LeanTyped'
  <2> DEFINE g == call[c].gen
             got == Append(call[c].got, Head(stdout[g]))
  <2>1. g \in Gens
    BY <1>0, <1>4 DEF Read
  <2>2. /\ stdout[g] \in Seq(Replies) /\ stdout[g] # << >>
        /\ call[c].got \in Seq(Replies)
    BY <1>0, <1>4, <2>1 DEF Read, LeanTyped, LeanTypeOK
  <2>3. /\ got \in Seq(Replies) /\ got # << >>
        /\ Tail(stdout[g]) \in Seq(Replies)
    <3>1. Head(stdout[g]) \in Replies /\ Tail(stdout[g]) \in Seq(Replies)
      BY <2>2
    <3>2. /\ Append(call[c].got, Head(stdout[g])) \in Seq(Replies)
          /\ Len(Append(call[c].got, Head(stdout[g]))) = Len(call[c].got) + 1
      BY <2>2, <3>1
    <3> QED BY <2>2, <3>1, <3>2
  <2>4. /\ owner' \in [Gens -> Calls \cup {Nil}]
        /\ stdout' \in [Gens -> Seq(Replies)]
    BY <1>4, <2>1, <2>3 DEF Read, LeanTyped, LeanTypeOK
  <2>5. UNCHANGED <<repl, spawned, process, stdin, log, lost>>
    BY <1>4 DEF Read
  <2>6. \/ /\ call' = [call EXCEPT ![c].pc = "audit", ![c].got = got]
           /\ UNCHANGED tokens
        \/ /\ call' = [call EXCEPT ![c].pc = "done", ![c].got = got]
           /\ tokens' = tokens \cup Minted(g, got)
    BY <1>4 DEF Read
  <2>7. Minted(g, got) \subseteq Tokens
    BY <2>1, <2>3, MintedTyped
  <2> DEFINE a == [call[c] EXCEPT !.pc = "audit", !.got = got]
             d == [call[c] EXCEPT !.pc = "done", !.got = got]
  <2>8. Fit(a) /\ Fit(d)
    <3> HIDE DEF got
    <3>1. a \in CallRecords /\ d \in CallRecords
      BY <1>0, <2>3 DEF CallRecords
    <3> QED BY <1>0, <2>1, <2>3, <3>1 DEF Fit, CallRecords
  <2>9. \/ call' = [call EXCEPT ![c] = a] /\ UNCHANGED tokens
        \/ call' = [call EXCEPT ![c] = d] /\ tokens' = tokens \cup Minted(g, got)
    <3> HIDE DEF got, g
    <3> QED BY <2>6 DEF LeanTyped, LeanTypeOK, CallRecords
  <2> HIDE DEF a, d, got, g
  <2>10. call' \in [Calls -> CallRecords] /\ (\A e \in Calls : Fit(call[e]))'
    BY <2>8, <2>9, CallTyped
  <2> QED BY <2>4, <2>5, <2>7, <2>9, <2>10 DEF LeanTyped, LeanTypeOK
<1>5. ASSUME NEW c \in Calls, Eof(c) PROVE LeanTyped'
  <2>1. call[c].gen \in Gens
    BY <1>0, <1>5 DEF Eof
  <2>2. Minted(call[c].gen, call[c].got) \subseteq Tokens
    BY <1>0, <2>1, MintedTyped
  <2>3. Fit([call[c] EXCEPT !.pc = "done"])
    BY <1>0, <2>1, RecordFit
  <2>4. call' = [call EXCEPT ![c] = [call[c] EXCEPT !.pc = "done"]]
    BY <1>5 DEF Eof
  <2>5. call' \in [Calls -> CallRecords] /\ (\A d \in Calls : Fit(call[d]))'
    BY <2>3, <2>4, CallTyped
  <2> QED BY <1>5, <2>1, <2>2, <2>5 DEF Eof, LeanTyped, LeanTypeOK
<1>6. ASSUME NEW c \in Calls, TimeOut(c) PROVE LeanTyped'
  <2>1. call[c].gen \in Gens
    BY <1>0, <1>6 DEF TimeOut
  <2> DEFINE t == [call[c] EXCEPT !.pc = "timedout"]
             k == [call[c] EXCEPT !.pc = "closing"]
  <2>2. Fit(t) /\ Fit(k)
    <3>1. t \in CallRecords /\ k \in CallRecords
      BY <1>0 DEF CallRecords
    <3> QED BY <1>0, <2>1, <3>1 DEF Fit, CallRecords
  <2>3. call' = [call EXCEPT ![c] = t] \/ call' = [call EXCEPT ![c] = k]
    BY <1>6 DEF TimeOut
  <2> HIDE DEF t, k
  <2>4. call' \in [Calls -> CallRecords] /\ (\A d \in Calls : Fit(call[d]))'
    BY <2>2, <2>3, CallTyped
  <2>5. lost' \in [Gens -> Nat]
    BY <1>6, <2>1 DEF TimeOut, LeanTyped, LeanTypeOK
  <2>6. process' \in [Gens -> {"none", "up", "dying", "dead"}]
    BY <1>6, <2>1 DEF TimeOut, LeanTyped, LeanTypeOK
  <2> QED BY <1>6, <2>1, <2>4, <2>5, <2>6 DEF TimeOut, LeanTyped, LeanTypeOK
<1>7. ASSUME NEW c \in Calls, Terminate(c) PROVE LeanTyped'
  <2>1. call[c].gen \in Gens
    BY <1>0, <1>7 DEF Terminate
  <2>2. Fit([call[c] EXCEPT !.pc = "closing"])
    <3>1. [call[c] EXCEPT !.pc = "closing"] \in CallRecords
      BY <1>0 DEF CallRecords
    <3> QED BY <1>0, <2>1, <3>1 DEF Fit, CallRecords
  <2>3. call' = [call EXCEPT ![c] = [call[c] EXCEPT !.pc = "closing"]]
    BY <1>7 DEF Terminate
  <2>4. call' \in [Calls -> CallRecords] /\ (\A d \in Calls : Fit(call[d]))'
    BY <2>2, <2>3, CallTyped
  <2> QED BY <1>7, <2>1, <2>4 DEF Terminate, LeanTyped, LeanTypeOK
<1>8. ASSUME NEW c \in Calls, Respawn(c) PROVE LeanTyped'
  <2>1. call[c].gen \in Gens
    BY <1>0, <1>8 DEF Respawn
  <2>2. Fit([call[c] EXCEPT !.pc = "done"])
    BY <1>0, <2>1, RecordFit
  <2>3. call' = [call EXCEPT ![c] = [call[c] EXCEPT !.pc = "done"]]
    BY <1>8 DEF Respawn
  <2>4. call' \in [Calls -> CallRecords] /\ (\A d \in Calls : Fit(call[d]))'
    BY <2>2, <2>3, CallTyped
  <2>5. repl' \in 0..MaxGen /\ spawned' \in 0..MaxGen
    BY <1>8, LeanConstants DEF Respawn, LeanTyped, LeanTypeOK
  <2>6. process' \in [Gens -> {"none", "up", "dying", "dead"}]
    BY <1>8, LeanConstants DEF Respawn, LeanTyped, LeanTypeOK, Gens
  <2> QED BY <1>8, <2>4, <2>5, <2>6 DEF Respawn, LeanTyped, LeanTypeOK
<1>9. ASSUME NEW c \in Calls, Abandon(c) PROVE LeanTyped'
  <2>1. call[c].gen \in Gens
    BY <1>0, <1>9 DEF Abandon
  <2>2. Fit([call[c] EXCEPT !.pc = "done"])
    BY <1>0, <2>1, RecordFit
  <2>3. call' = [call EXCEPT ![c] = [call[c] EXCEPT !.pc = "done"]]
    BY <1>9 DEF Abandon
  <2>4. call' \in [Calls -> CallRecords] /\ (\A d \in Calls : Fit(call[d]))'
    BY <2>2, <2>3, CallTyped
  <2>5. owner' \in [Gens -> Calls \cup {Nil}] /\ lost' \in [Gens -> Nat]
    <3>1. CASE call[c].pc = "reading"
      <4>1. /\ owner' = [owner EXCEPT ![call[c].gen] = Nil]
            /\ lost' = [lost EXCEPT ![call[c].gen] = @ + 1]
        BY <1>9, <3>1 DEF Abandon
      <4> QED BY <2>1, <4>1 DEF LeanTyped, LeanTypeOK
    <3>2. CASE call[c].pc # "reading"
      BY <1>9, <3>2 DEF Abandon, LeanTyped, LeanTypeOK
    <3> QED BY <3>1, <3>2
  <2> QED BY <1>9, <2>4, <2>5 DEF Abandon, LeanTyped, LeanTypeOK
<1>10. ASSUME NEW g \in Gens, Reply(g) PROVE LeanTyped'
  <2> DEFINE cmd == Head(stdin[g])
             n == Len(log[g]) + 1
             r == [cmd EXCEPT !.env = n, !.of = cmd.by]
  <2>1. /\ stdin[g] \in Seq(Commands) /\ stdin[g] # << >>
        /\ log[g] \in Seq(Calls) /\ stdout[g] \in Seq(Replies)
    BY <1>10 DEF Reply, LeanTyped, LeanTypeOK
  <2>2. cmd \in Commands /\ Tail(stdin[g]) \in Seq(Commands) /\ n \in Nat \ {0}
    BY <2>1
  <2>3. r \in Replies
    <3> HIDE DEF cmd, n
    <3> QED BY <2>2 DEF Commands, Replies
  <2>4. /\ stdin' = [stdin EXCEPT ![g] = Tail(@)]
        /\ log' = [log EXCEPT ![g] = Append(@, cmd.by)]
        /\ stdout' = [stdout EXCEPT ![g] = Append(@, r)]
        /\ UNCHANGED <<repl, spawned, process, owner, call, tokens, lost>>
    BY <1>10 DEF Reply
  <2>5. cmd.by \in Calls
    BY <2>2 DEF Commands
  <2> HIDE DEF cmd, n, r
  <2>6. Append(log[g], cmd.by) \in Seq(Calls) /\ Append(stdout[g], r) \in Seq(Replies)
    BY <2>1, <2>3, <2>5
  <2> QED BY <2>2, <2>4, <2>6 DEF LeanTyped, LeanTypeOK
<1>11. ASSUME NEW g \in Gens, Exit(g) PROVE LeanTyped'
  <2>1. << >> \in Seq(Commands)
    OBVIOUS
  <2> QED BY <1>11, <2>1 DEF Exit, LeanTyped, LeanTypeOK
<1>12. CASE UNCHANGED leanVars
  BY <1>12 DEF leanVars, LeanTyped, LeanTypeOK
<1> QED
  BY <1>1, <1>2, <1>3, <1>4, <1>5, <1>6, <1>7, <1>8, <1>9, <1>10, <1>11, <1>12
  DEF LeanNext

\* Type correctness, for all constants.
THEOREM LeanTypeCorrect == LeanSpec => []LeanTypeOK
<1>1. LeanTyped => LeanTypeOK
  BY DEF LeanTyped
<1> QED BY <1>1, TypedInit, TypedNext, PTL DEF LeanSpec

-----------------------------------------------------------------------------
(* Environments *)

\* Whoever goes by a number in a command, a reply or a token means the call that
\* made the environment.
Meant(made, r) == r.env # 0 => r.env \in DOMAIN made /\ made[r.env] = r.of
Told(made, r) == Meant(made, r) /\ r.of = r.by

\* The inductive form of EnvBinds follows a number on its way: out of the
\* process, through the reply, the call and the token, and back in.
EnvInv ==
    /\ \A g \in Gens : \A i \in DOMAIN stdin[g] : Meant(log[g], stdin[g][i])
    /\ \A g \in Gens : \A i \in DOMAIN stdout[g] : Told(log[g], stdout[g][i])
    /\ \A c \in Calls : \A i \in DOMAIN call[c].got : Told(log[call[c].gen], call[c].got[i])
    /\ \A c \in Calls : call[c].pc = "queued" => Meant(log[call[c].gen], call[c].cmd[1])
    /\ \A t \in tokens : Meant(log[t.gen], t)

\* Minted tokens mean what the first reply told.
LEMMA MintedMeant ==
    ASSUME NEW g \in Gens, NEW got \in Seq(Replies),
           \A i \in DOMAIN got : Told(log[g], got[i])
    PROVE  \A t \in Minted(g, got) : t.gen = g /\ Meant(log[g], t)
<1>1. CASE got = << >>
  BY <1>1 DEF Minted
<1>2. CASE got # << >>
  <2>1. 1 \in DOMAIN got
    BY <1>2
  <2> QED BY <2>1 DEF Minted, Meant, Told
<1> QED BY <1>1, <1>2

\* Writing a command whose environment is meant keeps EnvInv.
LEMMA SendMeant ==
    ASSUME LeanTyped, EnvInv, NEW c \in Calls, NEW g \in Gens, NEW cmd \in Commands,
           call[c].got # << >> => call[c].gen = g, Meant(log[g], cmd),
           Send(c, g, cmd), UNCHANGED <<stdout, log>>
    PROVE  EnvInv'
<1>0. /\ call \in [Calls -> CallRecords]
      /\ stdin \in [Gens -> Seq(Commands)]
      /\ call[c].got \in Seq(Replies)
      /\ \A d \in Calls : DOMAIN call[d].got # {} => call[d].got # << >>
  BY DEF LeanTyped, LeanTypeOK, Fit, CallRecords
<1>2. ASSUME NEW d \in Calls
      PROVE  /\ call'[d].got = call[d].got
             /\ call[d].got # << >> => call'[d].gen = call[d].gen
             /\ call'[d].pc = "queued" => call'[d] = call[d]
  <2>1. CASE call' = [call EXCEPT ![c].pc = "done", ![c].gen = g]
    <3>1. call'[d] = IF d = c THEN [call[d] EXCEPT !.pc = "done", !.gen = g] ELSE call[d]
      BY <1>0, <2>1 DEF CallRecords
    <3> QED BY <1>0, <3>1 DEF CallRecords
  <2>2. CASE call' = [call EXCEPT ![c] = [@ EXCEPT !.pc = "reading", !.gen = g, !.cmd = << >>]]
    BY <1>0, <2>2 DEF CallRecords
  <2> QED BY <2>1, <2>2 DEF Send
<1>3. \A h \in Gens : \A i \in DOMAIN stdin'[h] : Meant(log[h], stdin'[h][i])
  <2>1. CASE UNCHANGED stdin
    BY <2>1 DEF EnvInv
  <2>2. CASE stdin' = [stdin EXCEPT ![g] = Append(@, cmd)]
    <3>1. \A i \in DOMAIN Append(stdin[g], cmd) :
            \/ i \in DOMAIN stdin[g] /\ Append(stdin[g], cmd)[i] = stdin[g][i]
            \/ Append(stdin[g], cmd)[i] = cmd
      BY <1>0
    <3> QED BY <1>0, <2>2, <3>1 DEF EnvInv
  <2> QED BY <2>1, <2>2 DEF Send
<1>4. \A t \in tokens' : Meant(log[t.gen], t)
  <2>1. CASE UNCHANGED tokens
    BY <2>1 DEF EnvInv
  <2>2. CASE tokens' = tokens \cup Minted(g, call[c].got)
    <3>1. \A i \in DOMAIN call[c].got : Told(log[g], call[c].got[i])
      BY <1>0 DEF EnvInv
    <3> QED BY <1>0, <2>2, <3>1, MintedMeant DEF EnvInv
  <2> QED BY <2>1, <2>2 DEF Send
<1>5. \A d \in Calls : \A i \in DOMAIN call'[d].got : Told(log[call'[d].gen], call'[d].got[i])
  BY <1>0, <1>2 DEF EnvInv
<1>6. \A d \in Calls : call'[d].pc = "queued" => Meant(log[call'[d].gen], call'[d].cmd[1])
  BY <1>2 DEF EnvInv
<1> QED BY <1>3, <1>4, <1>5, <1>6 DEF EnvInv

\* So does asking for the lock with it.
LEMMA QueryMeant ==
    ASSUME LeanTyped, EnvInv, NEW c \in Calls, NEW g \in Gens, NEW cmd \in Commands,
           call[c].got # << >> => call[c].gen = g, Meant(log[g], cmd),
           Query(c, g, cmd), UNCHANGED <<stdout, log>>
    PROVE  EnvInv'
<1>1. CASE owner[g] = Nil /\ Waiters(g) = {}
  BY <1>1, SendMeant DEF Query
<1>2. CASE ~(owner[g] = Nil /\ Waiters(g) = {})
  <2>1. /\ call' = [call EXCEPT ![c] = [@ EXCEPT !.pc = "queued", !.gen = g, !.cmd = <<cmd>>]]
        /\ UNCHANGED <<stdin, stdout, log, tokens>>
    BY <1>2 DEF Query
  <2>2. /\ call \in [Calls -> CallRecords]
        /\ call[c].got \in Seq(Replies)
        /\ \A d \in Calls : DOMAIN call[d].got # {} => call[d].got # << >>
    BY DEF LeanTyped, LeanTypeOK, Fit, CallRecords
  <2>3. ASSUME NEW d \in Calls
        PROVE  /\ call'[d].got = call[d].got
               /\ call[d].got # << >> => call'[d].gen = call[d].gen
               /\ call'[d].pc = "queued" =>
                    \/ call'[d] = call[d]
                    \/ call'[d].gen = g /\ call'[d].cmd[1] = cmd
    BY <2>1, <2>2 DEF CallRecords
  <2>4. \A d \in Calls : \A i \in DOMAIN call'[d].got : Told(log[call'[d].gen], call'[d].got[i])
    BY <2>2, <2>3 DEF EnvInv
  <2>5. \A d \in Calls : call'[d].pc = "queued" => Meant(log[call'[d].gen], call'[d].cmd[1])
    BY <2>3 DEF EnvInv
  <2>6. \A h \in Gens : \A i \in DOMAIN stdin'[h] : Meant(log'[h], stdin'[h][i])
    BY <2>1 DEF EnvInv
  <2>7. \A h \in Gens : \A i \in DOMAIN stdout'[h] : Told(log'[h], stdout'[h][i])
    BY DEF EnvInv
  <2>8. \A t \in tokens' : Meant(log'[t.gen], t)
    BY <2>1 DEF EnvInv
  <2> QED BY <2>1, <2>4, <2>5, <2>6, <2>7, <2>8 DEF EnvInv
<1> QED BY <1>1, <1>2

\* EnvInv at first.
LEMMA EnvInit == LeanInit => EnvInv
BY DEF LeanInit, EnvInv

\* Every step keeps EnvInv.
LEMMA EnvNext == LeanTyped /\ EnvInv /\ [LeanNext]_leanVars => EnvInv'
<1> SUFFICES ASSUME LeanTyped, EnvInv, [LeanNext]_leanVars PROVE EnvInv'
  OBVIOUS
<1>0. ASSUME NEW c \in Calls
      PROVE  /\ Fit(call[c])
             /\ call[c] \in CallRecords
             /\ call[c].got \in Seq(Replies)
             /\ call[c].pc \notin {"new", "done"} => call[c].gen \in Gens
             /\ call[c].got # << >> => call[c].gen \in Gens
             /\ DOMAIN call[c].got # {} => call[c].got # << >>
  BY DEF LeanTyped, Fit, CallRecords
\* A call that only moves on changes nothing.
<1>a. ASSUME NEW c \in Calls, NEW p, call' = [call EXCEPT ![c].pc = p], p # "queued",
             UNCHANGED <<stdout, log>>,
             \A g \in Gens : stdin'[g] = stdin[g] \/ stdin'[g] = << >>,
             \A t \in tokens' : t \in tokens \/ Meant(log[t.gen], t)
      PROVE  EnvInv'
  <2>1. ASSUME NEW d \in Calls
        PROVE  /\ call'[d].got = call[d].got /\ call'[d].gen = call[d].gen
               /\ call'[d].cmd = call[d].cmd
               /\ call'[d].pc = "queued" => call[d].pc = "queued"
    BY <1>0, <1>a DEF CallRecords, LeanTyped, LeanTypeOK
  <2>2. \A h \in Gens : \A i \in DOMAIN stdin'[h] : Meant(log'[h], stdin'[h][i])
    BY <1>a DEF EnvInv
  <2>3. \A h \in Gens : \A i \in DOMAIN stdout'[h] : Told(log'[h], stdout'[h][i])
    BY <1>a DEF EnvInv
  <2>4. \A d \in Calls : \A i \in DOMAIN call'[d].got : Told(log'[call'[d].gen], call'[d].got[i])
    BY <1>a, <2>1 DEF EnvInv
  <2>5. \A d \in Calls : call'[d].pc = "queued" => Meant(log'[call'[d].gen], call'[d].cmd[1])
    BY <1>a, <2>1 DEF EnvInv
  <2>6. \A t \in tokens' : Meant(log'[t.gen], t)
    BY <1>a DEF EnvInv
  <2> QED BY <2>2, <2>3, <2>4, <2>5, <2>6 DEF EnvInv
<1>1. ASSUME NEW c \in Calls, Verify(c) PROVE EnvInv'
  <2>1. PICK t \in tokens \cup {NoToken} :
          IF repl # 0 /\ (t = NoToken \/ Resumes(t))
          THEN Query(c, repl, [by |-> c, stage |-> 1, env |-> t.env, of |-> t.of])
          ELSE /\ call' = [call EXCEPT ![c].pc = "done"]
               /\ UNCHANGED <<owner, stdin, tokens>>
    BY <1>1 DEF Verify
  <2>2. UNCHANGED <<stdout, log>>
    BY <1>1 DEF Verify
  <2>3. CASE repl # 0 /\ (t = NoToken \/ Resumes(t))
    <3> DEFINE cmd == [by |-> c, stage |-> 1, env |-> t.env, of |-> t.of]
    <3>1. cmd \in Commands
      BY DEF LeanTyped, LeanTypeOK, Tokens, NoToken, Commands
    <3>2. repl \in Gens /\ call[c].got = << >>
      BY <1>1, <2>3 DEF LeanTyped, LeanTypeOK, Gens, Fit, Verify
    <3>3. Meant(log[repl], cmd)
      BY <2>3 DEF EnvInv, Meant, Resumes, NoToken
    <3> QED BY <2>1, <2>2, <2>3, <3>1, <3>2, <3>3, QueryMeant
  <2>4. CASE ~(repl # 0 /\ (t = NoToken \/ Resumes(t)))
    BY <1>a, <2>1, <2>2, <2>4
  <2> QED BY <2>3, <2>4
<1>2. ASSUME NEW c \in Calls, Turn(c) PROVE EnvInv'
  <2>1. call[c].cmd[1] \in Commands /\ call[c].gen \in Gens
    BY <1>0, <1>2 DEF Turn, Fit, CallRecords
  <2>2. Meant(log[call[c].gen], call[c].cmd[1])
    BY <1>2 DEF Turn, EnvInv
  <2> QED BY <1>2, <2>1, <2>2, SendMeant DEF Turn
<1>3. ASSUME NEW c \in Calls, Audit(c) PROVE EnvInv'
  <2> DEFINE g == call[c].gen
             r == call[c].got[1]
             cmd == [by |-> c, stage |-> 2, env |-> r.env, of |-> r.by]
  <2>1. r \in Replies /\ g \in Gens /\ 1 \in DOMAIN call[c].got
    BY <1>0, <1>3 DEF Audit, Fit, CallRecords
  <2>2. cmd \in Commands
    BY <2>1 DEF Replies, Commands
  <2>3. Told(log[g], r)
    BY <2>1 DEF EnvInv
  <2>4. Meant(log[g], cmd)
    BY <2>3 DEF Told, Meant
  <2> QED BY <1>3, <2>1, <2>2, <2>4, QueryMeant DEF Audit
<1>4. ASSUME NEW c \in Calls, Read(c) PROVE EnvInv'
  <2> DEFINE g == call[c].gen
             r == Head(stdout[g])
             got == Append(call[c].got, r)
  <2>1. g \in Gens
    BY <1>0, <1>4 DEF Read
  <2>2. /\ stdout[g] \in Seq(Replies) /\ stdout[g] # << >>
        /\ call[c].got \in Seq(Replies)
    BY <1>0, <1>4, <2>1 DEF Read, LeanTyped, LeanTypeOK
  <2>3. r \in Replies /\ r = stdout[g][1] /\ 1 \in DOMAIN stdout[g]
    BY <2>2
  <2>4. Told(log[g], r)
    BY <2>1, <2>3 DEF EnvInv
  <2>5. got \in Seq(Replies) /\ \A i \in DOMAIN got : Told(log[g], got[i])
    <3> HIDE DEF r
    <3>1. \A i \in DOMAIN got : (i \in DOMAIN call[c].got /\ got[i] = call[c].got[i]) \/ got[i] = r
      BY <2>2, <2>3
    <3>2. got \in Seq(Replies)
      BY <2>2, <2>3
    <3> QED BY <2>4, <3>1, <3>2 DEF EnvInv
  <2>6. \A h \in Gens : \A i \in DOMAIN stdout'[h] : Told(log[h], stdout'[h][i])
    <3>1. stdout' = [stdout EXCEPT ![g] = Tail(stdout[g])]
      BY <1>4 DEF Read
    <3>2. \A i \in DOMAIN Tail(stdout[g]) :
            i + 1 \in DOMAIN stdout[g] /\ Tail(stdout[g])[i] = stdout[g][i + 1]
      BY <2>2
    <3> HIDE DEF g
    <3> QED BY <2>1, <3>1, <3>2 DEF EnvInv, LeanTyped, LeanTypeOK
  <2>7. UNCHANGED <<stdin, log>>
    BY <1>4 DEF Read
  <2>8. \E p \in {"audit", "done"} : call' = [call EXCEPT ![c].pc = p, ![c].got = got]
    BY <1>4 DEF Read
  <2>9. \A t \in tokens' : t \in tokens \/ t \in Minted(g, got)
    BY <1>4 DEF Read
  <2>10. \A t \in tokens' : Meant(log[t.gen], t)
    <3> HIDE DEF g, got
    <3> QED BY <2>1, <2>5, <2>9, MintedMeant DEF EnvInv
  <2> HIDE DEF got, r
  <2>11. ASSUME NEW d \in Calls
         PROVE  /\ call'[d].gen = call[d].gen /\ call'[d].cmd = call[d].cmd
                /\ call'[d].pc = "queued" => call[d].pc = "queued"
                /\ call'[d].got = IF d = c THEN got ELSE call[d].got
    BY <1>0, <2>8 DEF CallRecords, LeanTyped, LeanTypeOK
  <2>12. \A d \in Calls : \A i \in DOMAIN call'[d].got : Told(log[call'[d].gen], call'[d].got[i])
    BY <2>5, <2>11 DEF EnvInv
  <2>13. \A h \in Gens : \A i \in DOMAIN stdin'[h] : Meant(log'[h], stdin'[h][i])
    BY <2>7 DEF EnvInv
  <2>14. \A d \in Calls : call'[d].pc = "queued" => Meant(log'[call'[d].gen], call'[d].cmd[1])
    BY <2>7, <2>11 DEF EnvInv
  <2> QED BY <2>6, <2>7, <2>10, <2>12, <2>13, <2>14 DEF EnvInv
<1>5. ASSUME NEW c \in Calls, Eof(c) PROVE EnvInv'
  <2>1. call[c].gen \in Gens
    BY <1>0, <1>5 DEF Eof
  <2>2. \A i \in DOMAIN call[c].got : Told(log[call[c].gen], call[c].got[i])
    BY DEF EnvInv
  <2>3. \A t \in Minted(call[c].gen, call[c].got) : Meant(log[t.gen], t)
    BY <1>0, <2>1, <2>2, MintedMeant
  <2> QED BY <1>5, <1>a, <2>3 DEF Eof
<1>6. ASSUME NEW c \in Calls, TimeOut(c) PROVE EnvInv'
  BY <1>6, <1>a DEF TimeOut
<1>7. ASSUME NEW c \in Calls, Terminate(c) PROVE EnvInv'
  BY <1>7, <1>a DEF Terminate
<1>8. ASSUME NEW c \in Calls, Respawn(c) PROVE EnvInv'
  BY <1>8, <1>a DEF Respawn
<1>9. ASSUME NEW c \in Calls, Abandon(c) PROVE EnvInv'
  BY <1>9, <1>a DEF Abandon
<1>10. ASSUME NEW g \in Gens, Reply(g) PROVE EnvInv'
  <2> DEFINE cmd == Head(stdin[g])
             n == Len(log[g]) + 1
             r == [cmd EXCEPT !.env = n, !.of = cmd.by]
  <2>1. /\ stdin[g] \in Seq(Commands) /\ stdin[g] # << >>
        /\ log[g] \in Seq(Calls) /\ stdout[g] \in Seq(Replies)
    BY <1>10 DEF Reply, LeanTyped, LeanTypeOK
  <2>2. cmd \in Commands /\ n \in Nat \ {0}
    BY <2>1
  <2>3. r.env = n /\ r.of = cmd.by /\ r.by = cmd.by
    <3> HIDE DEF cmd, n
    <3> QED BY <2>2 DEF Commands
  <2>4. /\ stdin' = [stdin EXCEPT ![g] = Tail(stdin[g])]
        /\ log' = [log EXCEPT ![g] = Append(log[g], cmd.by)]
        /\ stdout' = [stdout EXCEPT ![g] = Append(stdout[g], r)]
        /\ UNCHANGED <<call, tokens>>
    BY <1>10 DEF Reply
  <2> HIDE DEF cmd, r
  <2>5. /\ \A i \in DOMAIN log[g] :
             i \in DOMAIN Append(log[g], cmd.by) /\ Append(log[g], cmd.by)[i] = log[g][i]
        /\ n \in DOMAIN Append(log[g], cmd.by) /\ Append(log[g], cmd.by)[n] = cmd.by
    BY <2>1
  <2>6. \A h, q : Meant(log[h], q) => Meant(log'[h], q)
    <3> SUFFICES ASSUME NEW h, NEW q, Meant(log[h], q), q.env # 0
                 PROVE  q.env \in DOMAIN log'[h] /\ log'[h][q.env] = q.of
      BY DEF Meant
    <3>1. q.env \in DOMAIN log[h] /\ log[h][q.env] = q.of
      BY DEF Meant
    <3>2. CASE h = g
      BY <2>4, <2>5, <3>1, <3>2 DEF LeanTyped, LeanTypeOK
    <3>3. CASE h # g
      BY <2>4, <3>1, <3>3
    <3> QED BY <3>2, <3>3
  <2>7. Told(log'[g], r)
    <3>1. log'[g] = Append(log[g], cmd.by)
      BY <2>4 DEF LeanTyped, LeanTypeOK
    <3> HIDE DEF n
    <3> QED BY <2>3, <2>5, <3>1 DEF Told, Meant
  <2>8. \A h \in Gens : \A i \in DOMAIN stdin'[h] : Meant(log'[h], stdin'[h][i])
    <3>1. \A i \in DOMAIN Tail(stdin[g]) :
            i + 1 \in DOMAIN stdin[g] /\ Tail(stdin[g])[i] = stdin[g][i + 1]
      BY <2>1
    <3>2. \A h \in Gens : \A i \in DOMAIN stdin'[h] : Meant(log[h], stdin'[h][i])
      BY <2>4, <3>1 DEF EnvInv, LeanTyped, LeanTypeOK
    <3> QED BY <2>6, <3>2
  <2>9. \A h \in Gens : \A i \in DOMAIN stdout'[h] : Told(log'[h], stdout'[h][i])
    <3>1. \A i \in DOMAIN Append(stdout[g], r) :
            \/ i \in DOMAIN stdout[g] /\ Append(stdout[g], r)[i] = stdout[g][i]
            \/ Append(stdout[g], r)[i] = r
      BY <2>1
    <3>2. \A h \in Gens : \A i \in DOMAIN stdout'[h] :
            Told(log[h], stdout'[h][i]) \/ (h = g /\ stdout'[h][i] = r)
      BY <2>4, <3>1 DEF EnvInv, LeanTyped, LeanTypeOK
    <3> QED BY <2>6, <2>7, <3>2 DEF Told
  <2>10. \A d \in Calls :
            /\ \A i \in DOMAIN call[d].got : Told(log'[call[d].gen], call[d].got[i])
            /\ call[d].pc = "queued" => Meant(log'[call[d].gen], call[d].cmd[1])
    BY <2>6 DEF EnvInv, Told
  <2>11. \A t \in tokens : Meant(log'[t.gen], t)
    BY <2>6 DEF EnvInv
  <2> QED BY <2>4, <2>8, <2>9, <2>10, <2>11 DEF EnvInv
<1>11. ASSUME NEW g \in Gens, Exit(g) PROVE EnvInv'
  <2>1. \A h \in Gens : stdin'[h] = stdin[h] \/ stdin'[h] = << >>
    BY <1>11 DEF Exit, LeanTyped, LeanTypeOK
  <2>2. UNCHANGED <<stdout, log, call, tokens>>
    BY <1>11 DEF Exit
  <2> QED BY <2>1, <2>2 DEF EnvInv, Told, Meant
<1>12. CASE UNCHANGED leanVars
  BY <1>12 DEF leanVars, EnvInv, Told, Meant
<1> QED
  BY <1>1, <1>2, <1>3, <1>4, <1>5, <1>6, <1>7, <1>8, <1>9, <1>10, <1>11, <1>12
  DEF LeanNext

\* For any calls and processes: an environment number, carried in a token or
\* from a verdict to its audit, never means another environment to the process
\* that receives it.
THEOREM EnvBindsHolds == LeanSpec => []EnvBinds
<1>1. EnvInv => EnvBinds
  BY DEF EnvInv, EnvBinds, Meant
<1> QED BY <1>1, TypedInit, TypedNext, EnvInit, EnvNext, PTL DEF LeanSpec

-----------------------------------------------------------------------------
(* Processes *)

Replacing(c) == call[c].pc \in {"timedout", "closing"}

\* The inductive form of LiveIsCurrent: only one call replaces a process, and
\* the one it replaces is the current one.
LiveInv ==
    /\ LiveIsCurrent
    /\ \A c \in Calls : Replacing(c) => call[c].gen = repl
    /\ \A c, d \in Calls : Replacing(c) /\ Replacing(d) => c = d

\* LiveInv at first.
LEMMA LiveInit == LeanInit => LiveInv
BY DEF LeanInit, LiveInv, LiveIsCurrent, Replacing

\* Every step keeps LiveInv.
LEMMA LiveNext == LeanTyped /\ LiveInv /\ [LeanNext]_leanVars => LiveInv'
<1> SUFFICES ASSUME LeanTyped, LiveInv, [LeanNext]_leanVars PROVE LiveInv'
  OBVIOUS
<1>0. /\ call \in [Calls -> CallRecords]
      /\ process \in [Gens -> {"none", "up", "dying", "dead"}]
      /\ \A c \in Calls : call[c].pc \notin {"new", "done"} => call[c].gen \in Gens
  BY DEF LeanTyped, LeanTypeOK, Fit, CallRecords
\* A step in which no call begins to replace the process.
<1>a. ASSUME UNCHANGED <<repl, process>>,
             \A d \in Calls : Replacing(d)' => Replacing(d) /\ call'[d].gen = call[d].gen
      PROVE  LiveInv'
  BY <1>a DEF LiveInv, LiveIsCurrent
<1>b. ASSUME NEW c \in Calls, NEW g, NEW cmd, Query(c, g, cmd) \/ Send(c, g, cmd)
      PROVE  \A d \in Calls : Replacing(d)' => Replacing(d) /\ call'[d].gen = call[d].gen
  <2>1. ASSUME NEW d \in Calls, d # c PROVE call'[d] = call[d]
    BY <1>0, <1>b, <2>1 DEF Query, Send
  <2>2. call'[c].pc \in {"done", "reading", "queued"}
    BY ZenonT(30), <1>0, <1>b DEF Query, Send, CallRecords
  <2> QED BY <2>1, <2>2 DEF Replacing
<1>c. ASSUME NEW c \in Calls, call' = [call EXCEPT ![c].pc = "done"]
      PROVE  \A d \in Calls : Replacing(d)' =>
               d # c /\ Replacing(d) /\ call'[d].gen = call[d].gen
  BY <1>0, <1>c DEF Replacing, CallRecords
<1>1. ASSUME NEW c \in Calls, Verify(c) PROVE LiveInv'
  <2>1. CASE call' = [call EXCEPT ![c].pc = "done"]
    <3>1. UNCHANGED <<repl, process>>
      BY <1>1 DEF Verify
    <3>2. \A d \in Calls : Replacing(d)' => Replacing(d) /\ call'[d].gen = call[d].gen
      BY <1>c, <2>1
    <3> QED BY <1>a, <3>1, <3>2
  <2>2. CASE \E cmd : Query(c, repl, cmd)
    BY <1>1, <1>a, <1>b, <2>2 DEF Verify
  <2> QED BY <1>1, <2>1, <2>2 DEF Verify
<1>2. ASSUME NEW c \in Calls, Turn(c) PROVE LiveInv'
  BY <1>2, <1>a, <1>b DEF Turn
<1>3. ASSUME NEW c \in Calls, Audit(c) PROVE LiveInv'
  BY <1>3, <1>a, <1>b DEF Audit
<1>4. ASSUME NEW c \in Calls, Read(c) PROVE LiveInv'
  <2>1. UNCHANGED <<repl, process>>
    BY <1>4 DEF Read
  <2>2. \E got : \E p \in {"audit", "done"} : call' = [call EXCEPT ![c].pc = p, ![c].got = got]
    BY <1>4 DEF Read
  <2>3. \A d \in Calls : Replacing(d)' => Replacing(d) /\ call'[d].gen = call[d].gen
    BY <1>0, <2>2 DEF Replacing, CallRecords
  <2> QED BY <1>a, <2>1, <2>3
<1>5. ASSUME NEW c \in Calls, Eof(c) PROVE LiveInv'
  <2>1. call' = [call EXCEPT ![c].pc = "done"] /\ UNCHANGED <<repl, process>>
    BY <1>5 DEF Eof
  <2>2. \A d \in Calls : Replacing(d)' => Replacing(d) /\ call'[d].gen = call[d].gen
    BY <1>c, <2>1
  <2> QED BY <1>a, <2>1, <2>2
<1>6. ASSUME NEW c \in Calls, TimeOut(c) PROVE LiveInv'
  <2> DEFINE g == call[c].gen
  <2>1. g \in Gens /\ process[g] \in {"up", "dying"} /\ g = repl
    BY <1>0, <1>6 DEF TimeOut, LiveInv, LiveIsCurrent
  <2>2. \A d \in Calls : ~Replacing(d)
    BY <1>6, <2>1 DEF TimeOut, LiveInv, Replacing
  <2>3. /\ \A d \in Calls : d # c => call'[d] = call[d]
        /\ call'[c].gen = g
    BY <1>0, <1>6 DEF TimeOut, CallRecords
  <2>4. repl' = repl /\ \A h \in Gens : process'[h] \in {"up", "dying"} => process[h] \in {"up", "dying"}
    BY <1>0, <1>6, <2>1 DEF TimeOut
  <2> QED BY <2>1, <2>2, <2>3, <2>4 DEF LiveInv, LiveIsCurrent, Replacing
<1>7. ASSUME NEW c \in Calls, Terminate(c) PROVE LiveInv'
  <2>1. call[c].gen \in Gens /\ Replacing(c)
    BY <1>0, <1>7 DEF Terminate, Replacing
  <2>2. \A d \in Calls : Replacing(d)' => Replacing(d) /\ call'[d].gen = call[d].gen
    BY <1>0, <1>7, <2>1 DEF Terminate, Replacing, CallRecords
  <2>3. repl' = repl /\ \A h \in Gens : process'[h] \in {"up", "dying"} => process[h] \in {"up", "dying"}
    BY <1>0, <1>7, <2>1 DEF Terminate
  <2> QED BY <2>2, <2>3 DEF LiveInv, LiveIsCurrent
<1>8. ASSUME NEW c \in Calls, Respawn(c) PROVE LiveInv'
  <2>1. call[c].gen = repl /\ call[c].gen \in Gens /\ process[repl] = "dead"
    BY <1>0, <1>8 DEF Respawn, LiveInv, Replacing
  <2>2. \A d \in Calls : ~Replacing(d)'
    <3>1. call' = [call EXCEPT ![c].pc = "done"] /\ Replacing(c)
      BY <1>8 DEF Respawn, Replacing
    <3>2. \A d \in Calls : Replacing(d)' => d # c /\ Replacing(d)
      BY <1>c, <3>1
    <3> QED BY <3>1, <3>2 DEF LiveInv
  <2>3. \A g \in Gens : process[g] \notin {"up", "dying"}
    BY <2>1 DEF LiveInv, LiveIsCurrent
  <2>4. \A g \in Gens : process'[g] \in {"up", "dying"} => g = repl'
    BY <1>0, <1>8, <2>3 DEF Respawn
  <2> QED BY <2>2, <2>4 DEF LiveInv, LiveIsCurrent
<1>9. ASSUME NEW c \in Calls, Abandon(c) PROVE LiveInv'
  <2>1. call' = [call EXCEPT ![c].pc = "done"] /\ UNCHANGED <<repl, process>>
    BY <1>9 DEF Abandon
  <2>2. \A d \in Calls : Replacing(d)' => Replacing(d) /\ call'[d].gen = call[d].gen
    BY <1>c, <2>1
  <2> QED BY <1>a, <2>1, <2>2
<1>10. ASSUME NEW g \in Gens, Reply(g) PROVE LiveInv'
  BY <1>10, <1>a DEF Reply, Replacing
<1>11. ASSUME NEW g \in Gens, Exit(g) PROVE LiveInv'
  BY <1>0, <1>11 DEF Exit, LiveInv, LiveIsCurrent, Replacing
<1>12. CASE UNCHANGED leanVars
  BY <1>12, <1>a DEF leanVars, Replacing
<1> QED
  BY <1>1, <1>2, <1>3, <1>4, <1>5, <1>6, <1>7, <1>8, <1>9, <1>10, <1>11, <1>12
  DEF LeanNext

\* For any calls and processes: timeouts replace one process at a time, and a
\* process that runs is the one calls are sent to.
THEOREM LiveIsCurrentHolds == LeanSpec => []LiveIsCurrent
<1>1. LiveInv => LiveIsCurrent
  BY DEF LiveInv
<1> QED BY <1>1, TypedInit, TypedNext, LiveInit, LiveNext, PTL DEF LeanSpec

-----------------------------------------------------------------------------
(* The wire *)

Alive(g) == process[g] \in {"up", "dying"}

\* Who holds a lock reads.
Held == \A g \in Gens, c \in Calls :
    owner[g] = c <=> call[c].pc = "reading" /\ call[c].gen = g

\* Calls go to processes there have been.
Spawned == repl <= spawned /\ \A c \in Calls : call[c].gen <= spawned

\* A process yet to be spawned has a clean wire.
Clean == \A g \in Gens : g > spawned =>
    ~Alive(g) /\ stdin[g] = << >> /\ stdout[g] = << >> /\ lost[g] = 0 /\ owner[g] = Nil

Holding == Held /\ Spawned /\ Clean

\* What is on the wire, and what the account says.
Total(g) == Len(stdin[g]) + Len(stdout[g])
Due(g) == lost[g] + (IF owner[g] = Nil THEN 0 ELSE 1)
Balanced(g) == Alive(g) => Total(g) = Due(g)

WireInv == Holding /\ \A g \in Gens : Balanced(g)

\* Writing adds one, reading takes one, a reply takes its command's place.
LEMMA Totals ==
    ASSUME NEW s \in Seq(Commands), NEW t \in Seq(Replies),
           NEW cmd \in Commands, NEW r \in Replies
    PROVE  /\ Len(Append(s, cmd)) + Len(t) = Len(s) + Len(t) + 1
           /\ t # << >> => Len(s) + Len(Tail(t)) + 1 = Len(s) + Len(t)
           /\ s # << >> => Len(Tail(s)) + Len(Append(t, r)) = Len(s) + Len(t)
<1>1. /\ Len(s) \in Nat /\ Len(t) \in Nat
      /\ Len(Append(s, cmd)) = Len(s) + 1 /\ Len(Append(t, r)) = Len(t) + 1
      /\ s # << >> => Len(Tail(s)) = Len(s) - 1
      /\ t # << >> => Len(Tail(t)) = Len(t) - 1
  OBVIOUS
<1> DEFINE a == Len(s)
           b == Len(t)
           m == Len(Append(s, cmd))
           n == Len(Append(t, r))
           u == Len(Tail(s))
           v == Len(Tail(t))
<1>2. /\ a \in Nat /\ b \in Nat /\ m = a + 1 /\ n = b + 1
      /\ s # << >> => u = a - 1
      /\ t # << >> => v = b - 1
  BY <1>1
<1> HIDE DEF a, b, m, n, u, v
<1>3. /\ m + b = a + b + 1
      /\ t # << >> => a + v + 1 = a + b
      /\ s # << >> => u + n = a + b
  BY <1>2
<1> QED BY <1>3 DEF a, b, m, n, u, v

\* Sums of counts are counts.
LEMMA Sums == \A a, b \in Nat : a + b \in Nat
OBVIOUS

\* The account balances at first.
LEMMA WireInit == LeanInit => WireInv
<1> SUFFICES ASSUME LeanInit PROVE WireInv
  OBVIOUS
<1>1. Holding
  BY LeanConstants DEF LeanInit, Holding, Held, Spawned, Clean, Alive, Gens
<1>2. \A g \in Gens : Balanced(g)
  BY DEF LeanInit, Balanced, Total, Due
<1> QED BY <1>1, <1>2 DEF WireInv

\* A call's record does not matter but for what it reads.
LEMMA SendWire ==
    ASSUME LeanTyped, WireInv, NEW c \in Calls, NEW g \in Gens, NEW cmd \in Commands,
           g <= spawned, call[c].pc # "reading", owner[g] = Nil,
           Send(c, g, cmd), UNCHANGED <<repl, spawned, process, stdout, lost>>
    PROVE  WireInv'
<1>0. /\ call \in [Calls -> CallRecords]
      /\ stdin \in [Gens -> Seq(Commands)]
      /\ stdout \in [Gens -> Seq(Replies)]
      /\ owner \in [Gens -> Calls \cup {Nil}]
      /\ lost \in [Gens -> Nat] /\ spawned \in Nat
  BY LeanConstants DEF LeanTyped, LeanTypeOK
<1>1. CASE call' = [call EXCEPT ![c].pc = "done", ![c].gen = g] /\ UNCHANGED <<owner, stdin>>
  <2>1. \A d \in Calls : /\ d # c => call'[d] = call[d]
                         /\ call'[c].pc = "done" /\ call'[c].gen = g
    BY <1>0, <1>1 DEF CallRecords
  <2>2. Holding'
    BY <1>0, <1>1, <2>1 DEF WireInv, Holding, Held, Spawned, Clean, Alive
  <2> QED BY <1>1, <2>2 DEF WireInv, Balanced, Alive, Total, Due
<1>2. CASE /\ call' = [call EXCEPT ![c] = [@ EXCEPT !.pc = "reading", !.gen = g, !.cmd = << >>]]
           /\ owner' = [owner EXCEPT ![g] = c]
           /\ stdin' = [stdin EXCEPT ![g] = Append(@, cmd)]
  <2>1. \A d \in Calls : /\ d # c => call'[d] = call[d]
                         /\ call'[c].pc = "reading" /\ call'[c].gen = g
    BY <1>0, <1>2 DEF CallRecords
  <2>2. \A h \in Gens : /\ h # g => owner'[h] = owner[h] /\ stdin'[h] = stdin[h]
                        /\ owner'[g] = c /\ stdin'[g] = Append(stdin[g], cmd)
    BY <1>0, <1>2
  <2>3. Held'
    <3> SUFFICES ASSUME NEW h \in Gens, NEW d \in Calls
                 PROVE  owner'[h] = d <=> call'[d].pc = "reading" /\ call'[d].gen = h
      BY DEF Held
    <3>1. owner[h] = d <=> call[d].pc = "reading" /\ call[d].gen = h
      BY DEF WireInv, Holding, Held
    <3> QED BY <2>1, <2>2, <3>1, LeanConstants
  <2>6. Spawned' /\ Clean'
    <3>1. Spawned'
      BY <2>1 DEF WireInv, Holding, Spawned
    <3>2. Clean'
      BY <1>0, <2>2 DEF WireInv, Holding, Clean, Alive, Gens
    <3> QED BY <3>1, <3>2
  <2>4. Total(g)' = Total(g) + 1
    <3>1. [by |-> c, stage |-> 1, env |-> 1, of |-> c] \in Replies
      BY DEF Replies
    <3>2. Len(Append(stdin[g], cmd)) + Len(stdout[g]) = Len(stdin[g]) + Len(stdout[g]) + 1
      BY <1>0, <3>1, Totals
    <3>3. Total(g)' = Len(Append(stdin[g], cmd)) + Len(stdout[g])
      BY <2>2 DEF Total
    <3>4. Total(g) = Len(stdin[g]) + Len(stdout[g])
      BY DEF Total
    <3> QED BY <3>2, <3>3, <3>4
  <2>7. Due(g) = lost[g] /\ Due(g)' = Due(g) + 1
    <3>1. lost[g] \in Nat /\ lost' = lost /\ owner'[g] # Nil
      BY <1>0, <2>2, LeanConstants
    <3> QED BY <3>1 DEF Due
  <2>5. \A h \in Gens : Balanced(h)'
    <3> SUFFICES ASSUME NEW h \in Gens, Alive(h)' PROVE Total(h)' = Due(h)'
      BY DEF Balanced
    <3>1. Total(h) = Due(h)
      BY DEF WireInv, Balanced, Alive
    <3>2. CASE h = g
      BY <2>4, <2>7, <3>1, <3>2
    <3>3. CASE h # g
      <4>1. Total(h)' = Total(h) /\ Due(h)' = Due(h)
        BY <2>2, <3>3 DEF Total, Due
      <4> QED BY <3>1, <4>1
    <3> QED BY <3>2, <3>3
  <2> QED BY <2>3, <2>5, <2>6 DEF WireInv, Holding
<1> QED BY <1>1, <1>2 DEF Send

\* Asking for the lock keeps the account.
LEMMA QueryWire ==
    ASSUME LeanTyped, WireInv, NEW c \in Calls, NEW g \in Gens, NEW cmd \in Commands,
           g <= spawned, call[c].pc # "reading",
           Query(c, g, cmd), UNCHANGED <<repl, spawned, process, stdout, lost>>
    PROVE  WireInv'
<1>1. CASE owner[g] = Nil /\ Waiters(g) = {}
  BY <1>1, SendWire DEF Query
<1>2. CASE ~(owner[g] = Nil /\ Waiters(g) = {})
  <2>1. /\ call' = [call EXCEPT ![c] = [@ EXCEPT !.pc = "queued", !.gen = g, !.cmd = <<cmd>>]]
        /\ UNCHANGED <<owner, stdin, tokens>>
    BY <1>2 DEF Query
  <2>2. \A d \in Calls : /\ d # c => call'[d] = call[d]
                         /\ call'[c].pc = "queued" /\ call'[c].gen = g
    BY <2>1 DEF LeanTyped, LeanTypeOK, CallRecords
  <2>3. Holding'
    BY <2>1, <2>2 DEF WireInv, Holding, Held, Spawned, Clean, Alive
  <2> QED BY <2>1, <2>3 DEF WireInv, Balanced, Alive, Total, Due
<1> QED BY <1>1, <1>2

\* Every step keeps the account.
LEMMA WireNext == LeanTyped /\ WireInv /\ [LeanNext]_leanVars => WireInv'
<1> SUFFICES ASSUME LeanTyped, WireInv, [LeanNext]_leanVars PROVE WireInv'
  OBVIOUS
<1>0. /\ call \in [Calls -> CallRecords]
      /\ stdin \in [Gens -> Seq(Commands)]
      /\ stdout \in [Gens -> Seq(Replies)]
      /\ owner \in [Gens -> Calls \cup {Nil}]
      /\ process \in [Gens -> {"none", "up", "dying", "dead"}]
      /\ lost \in [Gens -> Nat] /\ spawned \in Nat
      /\ \A c \in Calls : call[c].pc \notin {"new", "done"} => call[c].gen \in Gens
  BY LeanConstants DEF LeanTyped, LeanTypeOK, Fit, CallRecords
\* The step of a call that does not read, nor begins to.
<1>a. ASSUME NEW c \in Calls, NEW p \in {"timedout", "closing", "done", "audit"},
             call' = [call EXCEPT ![c] = [call[c] EXCEPT !.pc = p]],
             call[c].pc # "reading",
             UNCHANGED <<repl, spawned, owner, stdin, stdout, lost>>,
             \A g \in Gens : Alive(g)' => Alive(g)
      PROVE  WireInv'
  <2>1. \A d \in Calls : /\ d # c => call'[d] = call[d]
                         /\ call'[c].pc = p /\ call'[c].gen = call[c].gen
    BY <1>0, <1>a DEF CallRecords
  <2>2. Holding'
    BY <1>0, <1>a, <2>1 DEF WireInv, Holding, Held, Spawned, Clean
  <2> QED BY <1>a, <2>2 DEF WireInv, Balanced, Total, Due
\* A call that reads lets go of the lock, with or without its reply.
<1>b. ASSUME NEW c \in Calls, NEW g, g = call[c].gen, call[c].pc = "reading",
             call'[c].pc # "reading", call'[c].gen = g,
             \A d \in Calls : d # c => call'[d] = call[d],
             owner' = [owner EXCEPT ![g] = Nil],
             UNCHANGED <<repl, spawned, stdin>>,
             \A h \in Gens : Alive(h)' => Alive(h),
             \A h \in Gens : h # g => stdout'[h] = stdout[h] /\ lost'[h] = lost[h],
             Total(g)' \in Nat,
             Alive(g) => (\/ Total(g) = Total(g)' + 1 /\ lost'[g] = lost[g]
                          \/ Total(g)' = Total(g) /\ lost'[g] = lost[g] + 1)
      PROVE  WireInv'
  <2>1. g \in Gens /\ owner[g] = c /\ g <= spawned
    <3>1. g \in Gens
      BY <1>0, <1>b
    <3> QED BY <1>b, <3>1 DEF WireInv, Holding, Held, Spawned
  <2>2. \A h \in Gens : owner'[h] = IF h = g THEN Nil ELSE owner[h]
    BY <1>0, <1>b, <2>1
  <2>3. Holding'
    <3>1. Held'
      <4> SUFFICES ASSUME NEW h \in Gens, NEW d \in Calls
                   PROVE  owner'[h] = d <=> call'[d].pc = "reading" /\ call'[d].gen = h
        BY DEF Held
      <4>1. owner[h] = d <=> call[d].pc = "reading" /\ call[d].gen = h
        BY DEF WireInv, Holding, Held
      <4> QED BY <1>b, <2>1, <2>2, <4>1, LeanConstants
    <3>2. Spawned'
      <4>1. \A d \in Calls : call'[d].gen = call[d].gen
        BY <1>b
      <4> QED BY <1>b, <4>1 DEF WireInv, Holding, Spawned
    <3>3. Clean'
      <4> SUFFICES ASSUME NEW h \in Gens, h > spawned'
                   PROVE  ~Alive(h)' /\ stdin'[h] = << >> /\ stdout'[h] = << >>
                          /\ lost'[h] = 0 /\ owner'[h] = Nil
        BY DEF Clean
      <4>1. h # g
        BY <1>0, <1>b, <2>1 DEF Gens
      <4>2. ~Alive(h) /\ stdin[h] = << >> /\ stdout[h] = << >> /\ lost[h] = 0 /\ owner[h] = Nil
        BY <1>b DEF WireInv, Holding, Clean
      <4> QED BY <1>b, <2>2, <4>1, <4>2
    <3> QED BY <3>1, <3>2, <3>3 DEF Holding
  <2>4. \A h \in Gens : Balanced(h)'
    <3> SUFFICES ASSUME NEW h \in Gens, Alive(h)' PROVE Total(h)' = Due(h)'
      BY DEF Balanced
    <3>1. Total(h) = Due(h) /\ Alive(h)
      BY <1>b DEF WireInv, Balanced
    <3>2. CASE h = g
      <4>1. lost[g] \in Nat /\ owner[g] # Nil /\ owner'[g] = Nil
        BY <1>0, <2>1, <2>2, LeanConstants
      <4>2. Due(g) = lost[g] + 1 /\ Due(g)' = lost'[g] + 0
        BY <4>1 DEF Due
      <4>3. Total(g)' \in Nat /\ (\/ Total(g) = Total(g)' + 1 /\ lost'[g] = lost[g]
                                  \/ Total(g)' = Total(g) /\ lost'[g] = lost[g] + 1)
        BY <1>b, <3>1, <3>2
      <4> QED BY <3>1, <3>2, <4>1, <4>2, <4>3
    <3>3. CASE h # g
      <4>1. Total(h)' = Total(h) /\ Due(h)' = Due(h)
        BY <1>b, <2>2, <3>3 DEF Total, Due
      <4> QED BY <3>1, <4>1
    <3> QED BY <3>2, <3>3
  <2> QED BY <2>3, <2>4 DEF WireInv
<1>1. ASSUME NEW c \in Calls, Verify(c) PROVE WireInv'
  <2>1. CASE call' = [call EXCEPT ![c].pc = "done"] /\ UNCHANGED <<owner, stdin>>
    <3>1. call' = [call EXCEPT ![c] = [call[c] EXCEPT !.pc = "done"]]
      BY <2>1
    <3> QED BY <1>1, <1>a, <2>1, <3>1 DEF Verify, Alive
  <2>2. CASE repl # 0 /\ \E cmd \in Commands : Query(c, repl, cmd)
    <3>1. PICK cmd \in Commands : Query(c, repl, cmd)
      BY <2>2
    <3>2. repl \in Gens /\ repl <= spawned
      BY <2>2 DEF LeanTyped, LeanTypeOK, Gens, WireInv, Holding, Spawned
    <3>3. call[c].pc # "reading" /\ UNCHANGED <<repl, spawned, process, stdout, lost>>
      BY <1>1 DEF Verify
    <3>4. PICK g \in Gens : g = repl
      BY <3>2
    <3>5. g <= spawned /\ Query(c, g, cmd)
      BY <3>1, <3>2, <3>4
    <3> QED BY <3>3, <3>5, QueryWire
  <2>3. \A t \in tokens \cup {NoToken} :
          [by |-> c, stage |-> 1, env |-> t.env, of |-> t.of] \in Commands
    BY DEF LeanTyped, LeanTypeOK, Tokens, NoToken, Commands
  <2> QED BY <1>1, <2>1, <2>2, <2>3 DEF Verify
<1>2. ASSUME NEW c \in Calls, Turn(c) PROVE WireInv'
  <2>1. call[c].cmd[1] \in Commands /\ call[c].gen \in Gens
    BY <1>0, <1>2 DEF Turn, Fit, CallRecords, LeanTyped
  <2>2. call[c].gen <= spawned
    BY DEF WireInv, Holding, Spawned
  <2> QED BY <1>2, <2>1, <2>2, SendWire DEF Turn
<1>3. ASSUME NEW c \in Calls, Audit(c) PROVE WireInv'
  <2>1. call[c].got[1] \in Replies /\ call[c].gen \in Gens
    BY <1>0, <1>3 DEF Audit, Fit, CallRecords, LeanTyped
  <2>2. [by |-> c, stage |-> 2, env |-> call[c].got[1].env, of |-> call[c].got[1].by] \in Commands
    BY <2>1 DEF Replies, Commands
  <2>3. call[c].gen <= spawned
    BY DEF WireInv, Holding, Spawned
  <2> QED BY <1>3, <2>1, <2>2, <2>3, QueryWire DEF Audit
<1>4. ASSUME NEW c \in Calls, Read(c) PROVE WireInv'
  <2>0. PICK g \in Gens : g = call[c].gen
    BY <1>0, <1>4 DEF Read
  <2>1. g \in Gens /\ call[c].pc = "reading" /\ stdout[g] # << >>
    BY <1>0, <2>0, <1>4 DEF Read
  <2>2. /\ owner' = [owner EXCEPT ![g] = Nil]
        /\ stdout' = [stdout EXCEPT ![g] = Tail(@)]
        /\ UNCHANGED <<repl, spawned, process, stdin, lost>>
        /\ \E got : \E p \in {"audit", "done"} : call' = [call EXCEPT ![c].pc = p, ![c].got = got]
    BY <2>0, <1>4 DEF Read
  <2>3. /\ call'[c].pc # "reading" /\ call'[c].gen = g
        /\ \A d \in Calls : d # c => call'[d] = call[d]
    BY <1>0, <2>0, <2>2 DEF CallRecords
  <2>5. /\ stdout'[g] = Tail(stdout[g])
        /\ \A h \in Gens : h # g => stdout'[h] = stdout[h]
    BY <1>0, <2>0, <2>1, <2>2
  <2>6. Total(g) = Total(g)' + 1 /\ Total(g)' \in Nat
    <3>1. [by |-> c, stage |-> 1, env |-> 1, of |-> c] \in Replies
          /\ [by |-> c, stage |-> 1, env |-> 1, of |-> c] \in Commands
      BY DEF Replies, Commands
    <3>2. Len(stdin[g]) + Len(Tail(stdout[g])) + 1 = Len(stdin[g]) + Len(stdout[g])
      BY ZenonT(30), <1>0, <2>0, <2>1, <3>1, Totals
    <3>3. Len(stdin[g]) \in Nat /\ Len(Tail(stdout[g])) \in Nat
      BY <1>0, <2>0, <2>1
    <3>4. Total(g)' = Len(stdin[g]) + Len(Tail(stdout[g]))
      BY <2>2, <2>5 DEF Total
    <3>5. Total(g)' \in Nat
      BY <3>3, <3>4, Sums, Zenon
    <3> QED BY <3>2, <3>4, <3>5 DEF Total
  <2>7. /\ \A h \in Gens : Alive(h)' => Alive(h)
        /\ \A h \in Gens : h # g => stdout'[h] = stdout[h] /\ lost'[h] = lost[h]
        /\ lost'[g] = lost[g]
    BY <2>2, <2>5 DEF Alive
  <2>8. g = call[c].gen /\ UNCHANGED <<repl, spawned, stdin>> /\ owner' = [owner EXCEPT ![g] = Nil]
    BY <2>0, <2>2
  <2> QED BY <1>b, <2>1, <2>3, <2>6, <2>7, <2>8
<1>5. ASSUME NEW c \in Calls, Eof(c) PROVE WireInv'
  <2>0. PICK g \in Gens : g = call[c].gen
    BY <1>0, <1>5 DEF Eof
  <2>1. g \in Gens /\ call[c].pc = "reading" /\ ~Alive(g)
    BY <1>0, <2>0, <1>5 DEF Eof, Alive
  <2>2. /\ owner' = [owner EXCEPT ![g] = Nil]
        /\ UNCHANGED <<repl, spawned, process, stdin, stdout, lost>>
        /\ call' = [call EXCEPT ![c].pc = "done"]
    BY <2>0, <1>5 DEF Eof
  <2>3. /\ call'[c].pc # "reading" /\ call'[c].gen = g
        /\ \A d \in Calls : d # c => call'[d] = call[d]
    BY <1>0, <2>0, <2>2 DEF CallRecords
  <2>4. /\ \A h \in Gens : Alive(h)' => Alive(h)
        /\ \A h \in Gens : h # g => stdout'[h] = stdout[h] /\ lost'[h] = lost[h]
    BY <2>2 DEF Alive
  <2>6. Total(g)' \in Nat
    <3>1. Len(stdin[g]) \in Nat /\ Len(stdout[g]) \in Nat
      BY <1>0, <2>0, <2>1
    <3>2. Total(g)' = Len(stdin[g]) + Len(stdout[g])
      BY <2>2 DEF Total
    <3> QED BY <3>1, <3>2, Sums, Zenon
  <2>5. g = call[c].gen /\ UNCHANGED <<repl, spawned, stdin>> /\ owner' = [owner EXCEPT ![g] = Nil]
    BY <2>0, <2>2
  <2> QED BY ZenonT(30), <1>b, <2>1, <2>3, <2>4, <2>5, <2>6
<1>6. ASSUME NEW c \in Calls, TimeOut(c) PROVE WireInv'
  <2>0. PICK g \in Gens : g = call[c].gen
    BY <1>0, <1>6 DEF TimeOut
  <2>1. g \in Gens /\ call[c].pc = "reading"
    BY <1>0, <2>0, <1>6 DEF TimeOut
  <2>2. /\ owner' = [owner EXCEPT ![g] = Nil] /\ lost' = [lost EXCEPT ![g] = @ + 1]
        /\ UNCHANGED <<repl, spawned, stdin, stdout>>
        /\ \E p \in {"timedout", "closing"} : call' = [call EXCEPT ![c].pc = p]
    BY <2>0, <1>6 DEF TimeOut
  <2>3. /\ call'[c].pc # "reading" /\ call'[c].gen = g
        /\ \A d \in Calls : d # c => call'[d] = call[d]
    BY <1>0, <2>0, <2>2 DEF CallRecords
  <2>4. \A h \in Gens : Alive(h)' => Alive(h)
    BY <1>0, <2>0, <1>6, <2>1 DEF TimeOut, Alive
  <2>5. lost'[g] = lost[g] + 1 /\ \A h \in Gens : h # g => lost'[h] = lost[h]
    BY <1>0, <2>0, <2>1, <2>2
  <2>7. Total(g)' = Total(g) /\ Total(g)' \in Nat
    <3>1. Len(stdin[g]) \in Nat /\ Len(stdout[g]) \in Nat
      BY <1>0, <2>0, <2>1
    <3>2. Total(g)' = Len(stdin[g]) + Len(stdout[g])
      BY <2>2 DEF Total
    <3>3. Total(g) = Len(stdin[g]) + Len(stdout[g])
      BY DEF Total
    <3> QED BY <3>1, <3>2, <3>3, Sums, Zenon
  <2>8. \A h \in Gens : h # g => stdout'[h] = stdout[h] /\ lost'[h] = lost[h]
    BY <2>2, <2>5
  <2>9. g = call[c].gen /\ UNCHANGED <<repl, spawned, stdin>> /\ owner' = [owner EXCEPT ![g] = Nil]
    BY <2>0, <2>2
  <2>10. \/ Total(g) = Total(g)' + 1 /\ lost'[g] = lost[g]
         \/ Total(g)' = Total(g) /\ lost'[g] = lost[g] + 1
    BY <2>5, <2>7
  <2> QED BY <1>b, <2>1, <2>3, <2>4, <2>7, <2>8, <2>9, <2>10, ZenonT(60)
<1>7. ASSUME NEW c \in Calls, Terminate(c) PROVE WireInv'
  <2>1. call' = [call EXCEPT ![c] = [call[c] EXCEPT !.pc = "closing"]]
    BY <1>7 DEF Terminate
  <2>2. \A g \in Gens : Alive(g)' => Alive(g)
    BY <1>0, <1>7 DEF Terminate, Alive
  <2> QED BY <1>7, <1>a, <2>1, <2>2 DEF Terminate
<1>8. ASSUME NEW c \in Calls, Respawn(c) PROVE WireInv'
  <2>1. \A d \in Calls : /\ call'[d].pc = "reading" <=> call[d].pc = "reading"
                         /\ call'[d].gen = call[d].gen
    BY <1>0, <1>8 DEF Respawn, CallRecords
  <2>2. UNCHANGED <<owner, stdin, stdout, lost>>
    BY <1>8 DEF Respawn
  <2>3. CASE repl' = 0 /\ UNCHANGED <<spawned, process>>
    <3>1. Held'
      BY <2>1, <2>2 DEF WireInv, Holding, Held
    <3>2. Spawned'
      <4>1. \A d \in Calls : call'[d].gen <= spawned
        BY <2>1 DEF WireInv, Holding, Spawned
      <4>2. repl' <= spawned
        BY <1>0, <2>3
      <4> QED BY <2>3, <4>1, <4>2 DEF Spawned
    <3>3. Clean'
      BY <2>2, <2>3 DEF WireInv, Holding, Clean, Alive
    <3>4. \A g \in Gens : Balanced(g)'
      BY <2>2, <2>3 DEF WireInv, Balanced, Total, Due, Alive
    <3> QED BY <3>1, <3>2, <3>3, <3>4 DEF WireInv, Holding
  <2>4. CASE /\ spawned < MaxGen /\ repl' = spawned + 1 /\ spawned' = spawned + 1
             /\ process' = [process EXCEPT ![spawned + 1] = "up"]
    <3> DEFINE n == spawned + 1
    <3>1. n \in Gens /\ n > spawned
      BY <1>0, <2>4, LeanConstants DEF Gens
    <3>2. stdin[n] = << >> /\ stdout[n] = << >> /\ lost[n] = 0 /\ owner[n] = Nil
      BY <3>1 DEF WireInv, Holding, Clean
    <3>3. \A g \in Gens : g # n => process'[g] = process[g]
      BY <1>0, <2>4, <3>1
    <3>4. Held'
      BY <2>1, <2>2 DEF WireInv, Holding, Held
    <3>5. Spawned'
      <4>1. repl' <= spawned'
        BY <1>0, <2>4
      <4>2. ASSUME NEW d \in Calls PROVE call'[d].gen <= spawned'
        <5>1. call'[d].gen = call[d].gen /\ call[d].gen <= spawned
          BY <2>1 DEF WireInv, Holding, Spawned
        <5>2. call[d].gen \in 0..MaxGen
          BY <1>0 DEF CallRecords
        <5> QED BY <1>0, <2>4, <5>1, <5>2
      <4> QED BY <4>1, <4>2 DEF Spawned
    <3>6. Clean'
      <4> SUFFICES ASSUME NEW h \in Gens, h > spawned'
                   PROVE  ~Alive(h)' /\ stdin'[h] = << >> /\ stdout'[h] = << >>
                          /\ lost'[h] = 0 /\ owner'[h] = Nil
        BY DEF Clean
      <4>1. h # n /\ h > spawned
        BY <1>0, <2>4 DEF Gens
      <4>2. process'[h] = process[h]
        BY <3>3, <4>1
      <4> QED BY <2>2, <4>1, <4>2 DEF WireInv, Holding, Clean, Alive
    <3>7. ASSUME NEW h \in Gens PROVE Balanced(h)'
      <4>1. Total(h)' = Total(h) /\ Due(h)' = Due(h)
        BY <2>2 DEF Total, Due
      <4>2. CASE h = n
        <5>1. Len(stdin[h]) = 0 /\ Len(stdout[h]) = 0
          BY <3>2, <4>2
        <5>2. Total(h) = Len(stdin[h]) + Len(stdout[h])
          BY DEF Total
        <5>3. Total(h) = 0 + 0
          BY <5>1, <5>2, Zenon
        <5>4. Due(h) = 0 + 0
          BY <3>2, <4>2 DEF Due
        <5> QED BY <4>1, <5>3, <5>4 DEF Balanced
      <4>3. CASE h # n
        BY <3>3, <4>1, <4>3 DEF WireInv, Balanced, Alive
      <4> QED BY <4>2, <4>3
    <3> QED BY <3>4, <3>5, <3>6, <3>7 DEF WireInv, Holding
  <2> QED BY <1>8, <2>3, <2>4 DEF Respawn
<1>9. ASSUME NEW c \in Calls, Abandon(c) PROVE WireInv'
  <2>0. PICK g \in Gens : g = call[c].gen
    BY <1>0, <1>9 DEF Abandon
  <2>1. /\ call' = [call EXCEPT ![c] = [call[c] EXCEPT !.pc = "done"]]
        /\ UNCHANGED <<repl, spawned, process, stdin, stdout>> /\ g \in Gens
    BY <2>0, <1>9 DEF Abandon
  <2>2. CASE call[c].pc # "reading"
    BY <1>9, <1>a, <2>1, <2>2 DEF Abandon, Alive
  <2>3. CASE call[c].pc = "reading"
    <3>1. owner' = [owner EXCEPT ![g] = Nil] /\ lost' = [lost EXCEPT ![g] = @ + 1]
      BY <2>0, <1>9, <2>3 DEF Abandon
    <3>2. /\ call'[c].pc # "reading" /\ call'[c].gen = g
          /\ \A d \in Calls : d # c => call'[d] = call[d]
      BY <1>0, <2>0, <2>1 DEF CallRecords
    <3>3. lost'[g] = lost[g] + 1 /\ \A h \in Gens : h # g => lost'[h] = lost[h]
      BY <1>0, <2>1, <3>1
    <3>5. Total(g)' = Total(g) /\ Total(g)' \in Nat
      <4>1. Len(stdin[g]) \in Nat /\ Len(stdout[g]) \in Nat
        BY <1>0, <2>1
      <4>2. Total(g)' = Len(stdin[g]) + Len(stdout[g])
        BY <2>1 DEF Total
      <4>3. Total(g) = Len(stdin[g]) + Len(stdout[g])
        BY DEF Total
      <4> QED BY <4>1, <4>2, <4>3, Sums, Zenon
    <3>6. /\ \A h \in Gens : h # g => stdout'[h] = stdout[h] /\ lost'[h] = lost[h]
          /\ \A h \in Gens : Alive(h)' => Alive(h)
      BY <2>1, <3>3 DEF Alive
    <3>7. /\ g = call[c].gen /\ owner' = [owner EXCEPT ![g] = Nil]
          /\ UNCHANGED <<repl, spawned, stdin>>
      BY <2>0, <2>1, <3>1
    <3>8. \/ Total(g) = Total(g)' + 1 /\ lost'[g] = lost[g]
          \/ Total(g)' = Total(g) /\ lost'[g] = lost[g] + 1
      BY <3>3, <3>5
    <3>9. Total(g)' \in Nat /\ call[c].pc = "reading"
      BY <2>3, <3>5
    <3> QED BY <1>b, <3>2, <3>6, <3>7, <3>8, <3>9, ZenonT(60)
  <2> QED BY <2>2, <2>3
<1>10. ASSUME NEW g \in Gens, Reply(g) PROVE WireInv'
  <2> DEFINE r == [Head(stdin[g]) EXCEPT !.env = Len(log[g]) + 1, !.of = Head(stdin[g]).by]
  <2>1. /\ stdin[g] # << >>
        /\ stdin' = [stdin EXCEPT ![g] = Tail(@)]
        /\ stdout' = [stdout EXCEPT ![g] = Append(@, r)]
        /\ UNCHANGED <<repl, spawned, process, owner, call, lost>>
        /\ Alive(g)
    BY <1>10 DEF Reply, Alive
  <2> HIDE DEF r
  <2>2. Len(Tail(stdin[g])) + Len(Append(stdout[g], r)) = Len(stdin[g]) + Len(stdout[g])
    <3>1. r \in Replies
      <4>1. stdin[g] \in Seq(Commands) /\ log[g] \in Seq(Calls)
        BY DEF LeanTyped, LeanTypeOK
      <4>2. Head(stdin[g]) \in Commands /\ Len(log[g]) + 1 \in Nat \ {0}
        BY <2>1, <4>1
      <4> DEFINE cmd == Head(stdin[g])
                 n == Len(log[g]) + 1
      <4>3. r = [cmd EXCEPT !.env = n, !.of = cmd.by]
        BY DEF r
      <4> HIDE DEF cmd, n
      <4>4. cmd \in Commands /\ n \in Nat \ {0}
        BY <4>2 DEF cmd, n
      <4> QED BY <4>3, <4>4 DEF Commands, Replies
    <3>2. Head(stdin[g]) \in Commands
      BY <1>0, <2>1
    <3> QED BY <1>0, <2>1, <3>1, <3>2, Totals
  <2>3. /\ stdin'[g] = Tail(stdin[g]) /\ stdout'[g] = Append(stdout[g], r)
        /\ \A h \in Gens : h # g => stdin'[h] = stdin[h] /\ stdout'[h] = stdout[h]
    BY <1>0, <2>1
  <2>4. Holding'
    BY <2>1, <2>3 DEF WireInv, Holding, Held, Spawned, Clean, Alive
  <2>5. ASSUME NEW h \in Gens PROVE Balanced(h)'
    <3>1. Due(h)' = Due(h)
      BY <2>1 DEF Due
    <3>2. CASE h = g
      BY <2>1, <2>2, <2>3, <3>1, <3>2 DEF WireInv, Balanced, Total, Alive
    <3>3. CASE h # g
      BY <2>1, <2>3, <3>1, <3>3 DEF WireInv, Balanced, Total, Alive
    <3> QED BY <3>2, <3>3
  <2> QED BY <2>4, <2>5 DEF WireInv
<1>11. ASSUME NEW g \in Gens, Exit(g) PROVE WireInv'
  <2>1. /\ process' = [process EXCEPT ![g] = "dead"]
        /\ stdin' = [stdin EXCEPT ![g] = << >>]
        /\ UNCHANGED <<repl, spawned, owner, stdout, lost, call>>
    BY <1>11 DEF Exit
  <2>2. /\ \A h \in Gens : h # g => process'[h] = process[h] /\ stdin'[h] = stdin[h]
        /\ process'[g] = "dead" /\ stdin'[g] = << >>
    BY <1>0, <2>1
  <2>3. Holding'
    BY <2>1, <2>2 DEF WireInv, Holding, Held, Spawned, Clean, Alive
  <2>4. ASSUME NEW h \in Gens PROVE Balanced(h)'
    <3>1. CASE h = g
      BY <2>2, <3>1 DEF Balanced, Alive
    <3>2. CASE h # g
      BY <2>1, <2>2, <3>2 DEF WireInv, Balanced, Total, Due, Alive
    <3> QED BY <3>1, <3>2
  <2> QED BY <2>3, <2>4 DEF WireInv
<1>12. CASE UNCHANGED leanVars
  <2>1. Held' /\ Spawned' /\ Clean'
    BY <1>12 DEF leanVars, WireInv, Holding, Held, Spawned, Clean, Alive
  <2>2. \A g \in Gens : Balanced(g)'
    BY <1>12 DEF leanVars, WireInv, Balanced, Total, Due, Alive
  <2> QED BY <2>1, <2>2 DEF WireInv, Holding
<1> QED
  BY <1>1, <1>2, <1>3, <1>4, <1>5, <1>6, <1>7, <1>8, <1>9, <1>10, <1>11, <1>12
  DEF LeanNext

\* For any calls and processes: what is on the wire of a running process is
\* the command or reply of the call that holds its lock, and one more for each
\* call that left it early.
THEOREM WireAccountedHolds == LeanSpec => []WireAccounted
<1>1. WireInv => WireAccounted
  BY DEF WireInv, WireAccounted, Balanced, Alive, Total, Due
<1> QED BY <1>1, TypedInit, TypedNext, WireInit, WireNext, PTL DEF LeanSpec

-----------------------------------------------------------------------------
(* Whose replies *)

\* A command or reply is the one that its call comes to next.
IsNext(c, m) == m.by = c /\ m.stage = Len(call[c].got) + 1

\* One round trip at a time: one command or one reply, or neither.
OneTrip(g) == \/ stdin[g] = << >> /\ stdout[g] = << >>
              \/ Len(stdin[g]) = 1 /\ stdout[g] = << >>
              \/ stdin[g] = << >> /\ Len(stdout[g]) = 1

\* While no call has been lost, what is on the wire is the holder's.
WireOwn == \A g \in Gens : lost[g] = 0 =>
    /\ OneTrip(g)
    /\ \A i \in DOMAIN stdin[g] : owner[g] \in Calls /\ IsNext(owner[g], stdin[g][i])
    /\ \A i \in DOMAIN stdout[g] : owner[g] \in Calls /\ IsNext(owner[g], stdout[g][i])

CallOwn == \A c \in Calls :
    /\ call[c].pc = "queued" => IsNext(c, call[c].cmd[1])
    /\ call[c].pc = "audit" => Len(call[c].got) = 1
    /\ call[c].got # << >> /\ lost[call[c].gen] = 0 => Own(c)

\* Nobody reads the commands of a process that has gone.
DeadDeaf == \A g \in Gens : process[g] = "dead" => stdin[g] = << >>

OwnInv == WireOwn /\ CallOwn /\ DeadDeaf

\* What is first in a sequence, and what is left of a single element.
LEMMA Single ==
    ASSUME NEW S, NEW s \in Seq(S)
    PROVE  /\ s # << >> => 1 \in DOMAIN s
           /\ Len(s) = 1 => 1 \in DOMAIN s /\ Tail(s) = << >>
<1>1. DOMAIN s = 1 .. Len(s) /\ Len(s) \in Nat
  OBVIOUS
<1>2. s # << >> => Len(s) # 0
  OBVIOUS
<1>3. ASSUME Len(s) = 1 PROVE Tail(s) = << >>
  <2>1. Tail(s) \in Seq(S)
    BY <1>3
  <2>2. Len(Tail(s)) = Len(s) - 1
    BY <1>3
  <2>4. Len(Tail(s)) = 0
    BY <1>3, <2>2
  <2>3. \A t \in Seq(S) : Len(t) = 0 => t = << >>
    OBVIOUS
  <2> QED BY <2>1, <2>4, <2>3
<1> QED BY <1>1, <1>2, <1>3

LEMMA OwnInit == LeanInit => OwnInv
  BY DEF LeanInit, OwnInv, WireOwn, CallOwn, DeadDeaf, OneTrip, Gens

\* A call that does not read leaves every wire to its holder.
LEMMA OthersWire ==
    ASSUME LeanTyped, Held, WireOwn, NEW c \in Calls,
           \A d \in Calls \ {c} : call'[d] = call[d],
           call[c].pc # "reading" \/ call'[c].got = call[c].got,
           NEW g \in Gens, lost[g] = 0,
           stdin'[g] = stdin[g], stdout'[g] = stdout[g], owner'[g] = owner[g]
    PROVE  /\ OneTrip(g)'
           /\ \A i \in DOMAIN stdin'[g] : owner'[g] \in Calls /\ IsNext(owner[g], stdin[g][i])'
           /\ \A i \in DOMAIN stdout'[g] : owner'[g] \in Calls /\ IsNext(owner[g], stdout[g][i])'
<1>1. OneTrip(g)'
  BY DEF OneTrip, WireOwn
<1>2. owner[g] \in Calls => call'[owner[g]].got = call[owner[g]].got
  BY DEF Held
<1> QED BY <1>1, <1>2 DEF WireOwn, IsNext

\* Writing the command that the call comes to next.
LEMMA SendOwn ==
    ASSUME LeanTyped, Held, OwnInv, NEW c \in Calls, NEW g \in Gens, NEW cmd \in Commands,
           call[c].pc # "reading", owner[g] = Nil, IsNext(c, cmd),
           call[c].got # << >> => call[c].gen = g,
           Send(c, g, cmd), UNCHANGED <<process, stdout, lost>>
    PROVE  OwnInv'
<1> USE DEF OwnInv
<1>0. /\ call \in [Calls -> CallRecords]
      /\ stdin \in [Gens -> Seq(Commands)]
      /\ owner \in [Gens -> Calls \cup {Nil}]
  BY DEF LeanTyped, LeanTypeOK
<1>1. /\ \A d \in Calls \ {c} : call'[d] = call[d]
      /\ call'[c].got = call[c].got /\ call'[c].pc \in {"done", "reading"} /\ call'[c].gen = g
  <2>1. CASE call' = [call EXCEPT ![c].pc = "done", ![c].gen = g]
    BY <1>0, <2>1 DEF CallRecords
  <2>2. CASE call' = [call EXCEPT ![c] = [@ EXCEPT !.pc = "reading", !.gen = g, !.cmd = << >>]]
    BY <1>0, <2>2 DEF CallRecords
  <2> QED BY <2>1, <2>2 DEF Send
<1>2. CallOwn'
  <2>1. ASSUME NEW d \in Calls, call'[d].got # << >>, lost[call'[d].gen] = 0 PROVE Own(d)'
    <3>1. call'[d].got = call[d].got /\ call'[d].gen = call[d].gen
      BY <1>1, <2>1
    <3> QED BY <2>1, <3>1 DEF CallOwn, Own
  <2>2. \A d \in Calls : /\ call'[d].pc = "queued" => IsNext(d, call[d].cmd[1])'
                         /\ call'[d].pc = "audit" => Len(call'[d].got) = 1
                         /\ call'[d].pc \in {"queued", "audit"} => call'[d] = call[d]
    BY <1>1 DEF CallOwn, IsNext
  <2> QED BY <2>1, <2>2 DEF CallOwn
<1>3. WireOwn' /\ DeadDeaf'
  <2>1. CASE UNCHANGED <<owner, stdin>>
    <3>1. WireOwn'
      BY <1>1, <2>1, OthersWire DEF WireOwn
    <3> QED BY <2>1, <3>1 DEF DeadDeaf
  <2>2. CASE /\ process[g] # "dead" /\ owner' = [owner EXCEPT ![g] = c]
             /\ stdin' = [stdin EXCEPT ![g] = Append(@, cmd)]
    <3>1. \A h \in Gens \ {g} : stdin'[h] = stdin[h] /\ owner'[h] = owner[h]
      BY <1>0, <2>2
    <3>2. stdin'[g] = Append(stdin[g], cmd) /\ owner'[g] = c
      BY <1>0, <2>2
    <3>3. lost[g] = 0 => /\ OneTrip(g)'
                         /\ \A i \in DOMAIN stdin'[g] : IsNext(c, stdin[g][i])'
                         /\ stdout'[g] = << >>
      <4> HAVE lost[g] = 0
      <4>1. \A i : i \notin DOMAIN stdin[g] /\ i \notin DOMAIN stdout[g]
        BY LeanConstants DEF WireOwn
      <4>2. stdin[g] = << >> /\ stdout[g] = << >>
        <5>1. stdin[g] \in Seq(Commands) /\ stdout[g] \in Seq(Replies)
          BY DEF LeanTyped, LeanTypeOK
        <5>2. Len(stdin[g]) # 1 /\ Len(stdout[g]) # 1
          BY <4>1, <5>1, Single
        <5> QED BY <5>2 DEF OneTrip, WireOwn
      <4>3. stdin'[g] = <<cmd>> /\ stdout'[g] = << >>
        BY <3>2, <4>2
      <4>4. IsNext(c, cmd)'
        BY <1>1 DEF IsNext
      <4>5. Len(<<cmd>>) = 1 /\ \A i \in DOMAIN <<cmd>> : <<cmd>>[i] = cmd
        OBVIOUS
      <4> HIDE DEF OwnInv
      <4>6. OneTrip(g)'
        BY <4>3, <4>5 DEF OneTrip
      <4>7. \A i \in DOMAIN stdin'[g] : IsNext(c, stdin[g][i])'
        BY <4>3, <4>4, <4>5 DEF IsNext
      <4> QED BY <4>3, <4>6, <4>7
    <3>4. WireOwn'
      <4> SUFFICES ASSUME NEW h \in Gens, lost[h] = 0
                   PROVE  /\ OneTrip(h)'
                          /\ \A i \in DOMAIN stdin'[h] :
                               owner'[h] \in Calls /\ IsNext(owner[h], stdin[h][i])'
                          /\ \A i \in DOMAIN stdout'[h] :
                               owner'[h] \in Calls /\ IsNext(owner[h], stdout[h][i])'
        BY DEF WireOwn
      <4>1. CASE h = g
        BY <3>2, <3>3, <4>1
      <4>2. CASE h # g
        BY <1>1, <3>1, <4>2, OthersWire
      <4> QED BY <4>1, <4>2
    <3> QED BY <2>2, <3>1, <3>4 DEF DeadDeaf
  <2> QED BY <2>1, <2>2 DEF Send
<1> QED BY <1>2, <1>3

LEMMA QueryOwn ==
    ASSUME LeanTyped, Held, OwnInv, NEW c \in Calls, NEW g \in Gens, NEW cmd \in Commands,
           call[c].pc # "reading", IsNext(c, cmd),
           call[c].got # << >> => call[c].gen = g,
           Query(c, g, cmd), UNCHANGED <<process, stdout, lost>>
    PROVE  OwnInv'
<1>1. CASE owner[g] = Nil /\ Waiters(g) = {}
  BY <1>1, SendOwn DEF Query
<1>2. CASE ~(owner[g] = Nil /\ Waiters(g) = {})
  <2>1. /\ call' = [call EXCEPT ![c] = [@ EXCEPT !.pc = "queued", !.gen = g, !.cmd = <<cmd>>]]
        /\ UNCHANGED <<owner, stdin>>
    BY <1>2 DEF Query
  <2>2. /\ \A d \in Calls \ {c} : call'[d] = call[d]
        /\ call'[c].got = call[c].got /\ call'[c].pc = "queued" /\ call'[c].gen = g
        /\ call'[c].cmd[1] = cmd
    BY <2>1 DEF LeanTyped, LeanTypeOK, CallRecords
  <2>3. WireOwn' /\ DeadDeaf'
    <3>1. WireOwn'
      BY <2>1, <2>2, OthersWire DEF WireOwn, OwnInv
    <3> QED BY <2>1, <3>1 DEF DeadDeaf, OwnInv
  <2>4. ASSUME NEW d \in Calls, call'[d].got # << >>, lost[call'[d].gen] = 0 PROVE Own(d)'
    <3>1. call'[d].got = call[d].got /\ call'[d].gen = call[d].gen
      BY <2>2, <2>4
    <3> QED BY <2>4, <3>1 DEF OwnInv, CallOwn, Own
  <2>5. ASSUME NEW d \in Calls
        PROVE  /\ call'[d].pc = "queued" => IsNext(d, call[d].cmd[1])'
               /\ call'[d].pc = "audit" => Len(call'[d].got) = 1
    <3>1. CASE d = c
      BY <2>2, <3>1 DEF IsNext
    <3>2. CASE d # c
      BY <2>2, <3>2 DEF OwnInv, CallOwn, IsNext
    <3> QED BY <3>1, <3>2
  <2> QED BY <2>3, <2>4, <2>5 DEF OwnInv, CallOwn
<1> QED BY <1>1, <1>2

\* A call that holds a lock lets it go: what it has read was its own, and what
\* it leaves behind, if it leaves anything, counts as lost.
LEMMA LeaveOwn ==
    ASSUME LeanTyped, Held, OwnInv, NEW c \in Calls, NEW g \in Gens,
           call[c].pc = "reading", call[c].gen = g, owner' = [owner EXCEPT ![g] = Nil],
           lost' \in [Gens -> Nat], \A h \in Gens \ {g} : lost'[h] = lost[h],
           \/ lost'[g] # 0
           \/ lost'[g] = lost[g] /\ stdin'[g] = << >> /\ stdout'[g] = << >>,
           \A h \in Gens \ {g} : stdin'[h] = stdin[h] /\ stdout'[h] = stdout[h],
           \A d \in Calls \ {c} : call'[d] = call[d],
           call'[c].pc # "queued", call'[c].gen = g,
           call'[c].pc = "audit" => Len(call'[c].got) = 1,
           lost'[g] = 0 => Own(c)',
           \A h \in Gens : process'[h] = "dead" => stdin'[h] = << >>
    PROVE  OwnInv'
<1>1. WireOwn'
  <2> SUFFICES ASSUME NEW h \in Gens, lost'[h] = 0
               PROVE  /\ OneTrip(h)'
                      /\ \A i \in DOMAIN stdin'[h] :
                           owner'[h] \in Calls /\ IsNext(owner[h], stdin[h][i])'
                      /\ \A i \in DOMAIN stdout'[h] :
                           owner'[h] \in Calls /\ IsNext(owner[h], stdout[h][i])'
    BY DEF WireOwn
  <2>1. CASE h = g
    BY <2>1 DEF OneTrip
  <2>2. CASE h # g
    <3>1. /\ stdin'[h] = stdin[h] /\ stdout'[h] = stdout[h] /\ owner'[h] = owner[h] /\ lost[h] = 0
          /\ owner[h] # c
      BY <2>2 DEF Held, LeanTyped, LeanTypeOK
    <3>2. owner[h] \in Calls => call'[owner[h]] = call[owner[h]]
      BY <3>1
    <3>3. OneTrip(h)'
      BY <3>1 DEF OwnInv, WireOwn, OneTrip
    <3>4. \A m : owner[h] \in Calls /\ IsNext(owner[h], m) =>
                    m.by = owner[h] /\ m.stage = Len(call'[owner[h]].got) + 1
      BY <3>2 DEF IsNext
    <3> QED BY <3>1, <3>3, <3>4 DEF OwnInv, WireOwn, IsNext
  <2> QED BY <2>1, <2>2
<1>2. CallOwn'
  <2> SUFFICES ASSUME NEW d \in Calls
               PROVE  /\ call'[d].pc = "queued" => IsNext(d, call[d].cmd[1])'
                      /\ call'[d].pc = "audit" => Len(call'[d].got) = 1
                      /\ call'[d].got # << >> /\ lost'[call'[d].gen] = 0 => Own(d)'
    BY DEF CallOwn
  <2>1. CASE d = c
    BY <2>1
  <2>2. CASE d # c
    <3>1. call'[d] = call[d]
      BY <2>2
    <3>2. call[d].got # << >> /\ lost'[call[d].gen] = 0 => Own(d)
      <4>1. call[d].got # << >> => call[d].gen \in Gens
        BY DEF LeanTyped, Fit
      <4>2. lost'[call[d].gen] = 0 /\ call[d].gen \in Gens => lost[call[d].gen] = 0
        OBVIOUS
      <4> QED BY <4>1, <4>2 DEF OwnInv, CallOwn
    <3> QED BY <3>1, <3>2 DEF OwnInv, CallOwn, IsNext, Own
  <2> QED BY <2>1, <2>2
<1> QED BY <1>1, <1>2 DEF OwnInv, DeadDeaf

\* A call that neither reads nor is about to write goes its way.
LEMMA AwayOwn ==
    ASSUME LeanTyped, Held, OwnInv, NEW c \in Calls, call[c].pc # "reading",
           NEW p \in {"timedout", "closing", "done"},
           call' = [call EXCEPT ![c].pc = p], UNCHANGED <<owner, stdin, stdout, lost>>,
           \A h \in Gens : process'[h] = "dead" => process[h] = "dead"
    PROVE  OwnInv'
<1>1. /\ \A d \in Calls \ {c} : call'[d] = call[d]
      /\ call'[c].pc = p /\ call'[c].got = call[c].got /\ call'[c].gen = call[c].gen
  BY DEF LeanTyped, LeanTypeOK, CallRecords
<1>2. WireOwn'
  BY <1>1, OthersWire DEF WireOwn, OwnInv
<1>3. CallOwn'
  <2>1. \A d \in Calls : call'[d].got = call[d].got /\ call'[d].gen = call[d].gen
    BY <1>1
  <2>2. \A d \in Calls : call'[d].pc \in {"queued", "audit"} => call'[d] = call[d]
    BY <1>1
  <2> QED BY <2>1, <2>2 DEF CallOwn, OwnInv, Own, IsNext
<1> QED BY <1>2, <1>3 DEF OwnInv, DeadDeaf

LEMMA OwnNext == LeanTyped /\ Held /\ OwnInv /\ [LeanNext]_leanVars => OwnInv'
<1> SUFFICES ASSUME LeanTyped, Held, OwnInv, [LeanNext]_leanVars PROVE OwnInv'
  OBVIOUS
<1>0. ASSUME NEW c \in Calls
      PROVE  /\ Fit(call[c])
             /\ call[c] \in CallRecords
             /\ call[c].got \in Seq(Replies)
             /\ call[c].pc \notin {"new", "done"} => call[c].gen \in Gens
             /\ call[c].got # << >> => call[c].gen \in Gens
  BY DEF LeanTyped, Fit, CallRecords
<1>1. ASSUME NEW c \in Calls, Verify(c) PROVE OwnInv'
  <2>1. PICK t \in tokens \cup {NoToken} :
          IF repl # 0 /\ (t = NoToken \/ Resumes(t))
          THEN Query(c, repl, [by |-> c, stage |-> 1, env |-> t.env, of |-> t.of])
          ELSE /\ call' = [call EXCEPT ![c].pc = "done"]
               /\ UNCHANGED <<owner, stdin, tokens>>
    BY <1>1 DEF Verify
  <2>2. UNCHANGED <<process, stdout, lost>> /\ call[c].pc = "new"
    BY <1>1 DEF Verify
  <2>3. CASE repl # 0 /\ (t = NoToken \/ Resumes(t))
    <3> DEFINE cmd == [by |-> c, stage |-> 1, env |-> t.env, of |-> t.of]
    <3>1. cmd \in Commands
      BY DEF LeanTyped, LeanTypeOK, Tokens, NoToken, Commands
    <3>2. repl \in Gens /\ call[c].got = << >>
      BY <1>0, <2>2, <2>3 DEF LeanTyped, LeanTypeOK, Gens, Fit
    <3>3. IsNext(c, cmd)
      BY <3>2 DEF IsNext
    <3> QED BY <2>1, <2>2, <2>3, <3>1, <3>2, <3>3, QueryOwn
  <2>4. CASE ~(repl # 0 /\ (t = NoToken \/ Resumes(t)))
    BY <2>1, <2>2, <2>4, AwayOwn
  <2> QED BY <2>3, <2>4
<1>2. ASSUME NEW c \in Calls, Turn(c) PROVE OwnInv'
  <2>1. call[c].cmd[1] \in Commands /\ call[c].gen \in Gens /\ call[c].pc = "queued"
    BY <1>0, <1>2 DEF Turn, Fit, CallRecords
  <2>2. IsNext(c, call[c].cmd[1])
    BY <2>1 DEF OwnInv, CallOwn
  <2> QED BY <1>2, <2>1, <2>2, SendOwn DEF Turn
<1>3. ASSUME NEW c \in Calls, Audit(c) PROVE OwnInv'
  <2> DEFINE g == call[c].gen
             r == call[c].got[1]
             cmd == [by |-> c, stage |-> 2, env |-> r.env, of |-> r.by]
  <2>1. r \in Replies /\ g \in Gens /\ call[c].pc = "audit"
    BY <1>0, <1>3 DEF Audit, Fit
  <2>2. cmd \in Commands
    BY <2>1 DEF Replies, Commands
  <2>3. IsNext(c, cmd)
    <3>1. Len(call[c].got) = 1
      BY <2>1 DEF OwnInv, CallOwn
    <3> QED BY <3>1 DEF IsNext
  <2> QED BY <1>3, <2>1, <2>2, <2>3, QueryOwn DEF Audit
<1>4. ASSUME NEW c \in Calls, Read(c) PROVE OwnInv'
  <2> DEFINE g == call[c].gen
             r == Head(stdout[g])
             got == Append(call[c].got, r)
  <2>1. g \in Gens /\ call[c].pc = "reading" /\ owner[g] = c
    BY <1>0, <1>4 DEF Read, Held
  <2>2. /\ stdout[g] \in Seq(Replies) /\ stdout[g] # << >>
        /\ call[c].got \in Seq(Replies) /\ call \in [Calls -> CallRecords]
        /\ lost \in [Gens -> Nat] /\ stdout \in [Gens -> Seq(Replies)]
    BY <1>0, <1>4, <2>1 DEF Read, LeanTyped, LeanTypeOK
  <2>3. /\ owner' = [owner EXCEPT ![g] = Nil] /\ stdout' = [stdout EXCEPT ![g] = Tail(stdout[g])]
        /\ UNCHANGED <<process, stdin, lost>>
        /\ \E p \in {"audit", "done"} :
              /\ call' = [call EXCEPT ![c].pc = p, ![c].got = got]
              /\ p = "audit" => Len(got) = 1
    BY <1>4 DEF Read
  <2>4. r \in Replies /\ r = stdout[g][1] /\ 1 \in DOMAIN stdout[g]
    BY <2>2
  <2> HIDE DEF r
  <2>5. /\ got \in Seq(Replies) /\ Len(got) = Len(call[c].got) + 1 /\ got[Len(call[c].got) + 1] = r
        /\ \A i \in DOMAIN got : i \in DOMAIN call[c].got \/ i = Len(call[c].got) + 1
        /\ \A i \in DOMAIN call[c].got : got[i] = call[c].got[i]
    BY <2>2, <2>4
  <2> HIDE DEF g, got
  <2>6. /\ \A d \in Calls \ {c} : call'[d] = call[d]
        /\ call'[c].pc \in {"audit", "done"} /\ call'[c].got = got /\ call'[c].gen = g
        /\ call'[c].pc = "audit" => Len(got) = 1
    BY <2>2, <2>3 DEF CallRecords, g
  <2>7. lost[g] = 0 => /\ stdin[g] = << >> /\ Tail(stdout[g]) = << >> /\ IsNext(c, r)
    <3> HAVE lost[g] = 0
    <3>1. OneTrip(g) /\ IsNext(c, r)
      BY <2>1, <2>4 DEF OwnInv, WireOwn
    <3>2. stdin[g] = << >> /\ Len(stdout[g]) = 1
      BY <2>2, <3>1 DEF OneTrip
    <3>3. Tail(stdout[g]) = << >>
      BY <2>2, <3>2, Single
    <3> QED BY <3>1, <3>2, <3>3
  <2>8. lost[g] = 0 => Own(c)'
    <3> HAVE lost[g] = 0
    <3>1. \A i \in DOMAIN call[c].got : call[c].got[i].by = c /\ call[c].got[i].stage = i
      <4>1. CASE call[c].got = << >>
        BY <4>1
      <4>2. CASE call[c].got # << >>
        BY <4>2 DEF OwnInv, CallOwn, Own, g
      <4> QED BY <4>1, <4>2
    <3>2. r.by = c /\ r.stage = Len(call[c].got) + 1
      BY <2>7 DEF IsNext
    <3>3. \A i \in DOMAIN got : got[i].by = c /\ got[i].stage = i
      BY <2>5, <3>1, <3>2
    <3> QED BY <2>6, <3>3 DEF Own
  <2>9. \A h \in Gens : process'[h] = "dead" => stdin'[h] = << >>
    BY <2>3 DEF OwnInv, DeadDeaf
  <2>10. /\ \A h \in Gens \ {g} : stdin'[h] = stdin[h] /\ stdout'[h] = stdout[h] /\ lost'[h] = lost[h]
         /\ lost' \in [Gens -> Nat]
         /\ lost'[g] # 0 \/ (lost'[g] = lost[g] /\ stdin'[g] = << >> /\ stdout'[g] = << >>)
         /\ lost'[g] = 0 => Own(c)'
    <3>1. /\ stdin' = stdin /\ lost' = lost
          /\ stdout'[g] = Tail(stdout[g]) /\ \A h \in Gens \ {g} : stdout'[h] = stdout[h]
      BY <2>1, <2>2, <2>3
    <3>2. lost[g] # 0 \/ (stdin[g] = << >> /\ stdout'[g] = << >>)
      BY <2>7, <3>1
    <3> QED BY <2>2, <2>8, <3>1, <3>2
  <2>11. call[c].gen = g
    BY DEF g
  <2>12. /\ call'[c].pc # "queued" /\ call'[c].gen = g
         /\ call'[c].pc = "audit" => Len(call'[c].got) = 1
    BY <2>6
  <2>13. owner' = [owner EXCEPT ![g] = Nil] /\ \A d \in Calls \ {c} : call'[d] = call[d]
    BY <2>3, <2>6
  <2> QED BY <2>1, <2>9, <2>10, <2>11, <2>12, <2>13, LeaveOwn
<1>5. ASSUME NEW c \in Calls, Eof(c) PROVE OwnInv'
  <2> DEFINE g == call[c].gen
  <2>1. g \in Gens /\ call[c].pc = "reading" /\ process[g] = "dead" /\ stdout[g] = << >>
    BY <1>0, <1>5 DEF Eof
  <2>2. stdin[g] = << >>
    BY <2>1 DEF OwnInv, DeadDeaf
  <2>3. /\ owner' = [owner EXCEPT ![g] = Nil] /\ call' = [call EXCEPT ![c].pc = "done"]
        /\ UNCHANGED <<process, stdin, stdout, lost>> /\ lost \in [Gens -> Nat]
    BY <1>5 DEF Eof, LeanTyped, LeanTypeOK
  <2>4. /\ \A d \in Calls \ {c} : call'[d] = call[d]
        /\ call'[c].pc = "done" /\ call'[c].got = call[c].got /\ call'[c].gen = g
    BY <2>3 DEF LeanTyped, LeanTypeOK, CallRecords
  <2>5. lost'[g] = 0 => Own(c)'
    BY <2>3, <2>4 DEF OwnInv, CallOwn, Own
  <2>6. \A h \in Gens : process'[h] = "dead" => stdin'[h] = << >>
    BY <2>3 DEF OwnInv, DeadDeaf
  <2>7. call[c].gen = g
    OBVIOUS
  <2> HIDE DEF g
  <2> QED BY <2>1, <2>2, <2>3, <2>4, <2>5, <2>6, <2>7, LeaveOwn
\* a call that gives up while it reads is counted
<1>6. ASSUME NEW c \in Calls, NEW p \in {"timedout", "closing", "done"}, call[c].pc = "reading",
             call' = [call EXCEPT ![c].pc = p], owner' = [owner EXCEPT ![call[c].gen] = Nil],
             lost' = [lost EXCEPT ![call[c].gen] = @ + 1], UNCHANGED <<stdin, stdout>>,
             \A h \in Gens : process'[h] = "dead" => process[h] = "dead"
      PROVE  OwnInv'
  <2> DEFINE g == call[c].gen
  <2>1. g \in Gens /\ lost \in [Gens -> Nat]
    BY <1>0, <1>6 DEF LeanTyped, LeanTypeOK
  <2>2. /\ \A d \in Calls \ {c} : call'[d] = call[d]
        /\ call'[c].pc = p /\ call'[c].gen = g
    BY <1>6 DEF LeanTyped, LeanTypeOK, CallRecords
  <2>3. lost' \in [Gens -> Nat] /\ lost'[g] # 0 /\ \A h \in Gens \ {g} : lost'[h] = lost[h]
    BY <1>6, <2>1
  <2>4. \A h \in Gens : process'[h] = "dead" => stdin'[h] = << >>
    BY <1>6 DEF OwnInv, DeadDeaf
  <2>5. call[c].gen = g /\ owner' = [owner EXCEPT ![g] = Nil]
    BY <1>6
  <2> HIDE DEF g
  <2> QED BY <1>6, <2>1, <2>2, <2>3, <2>4, <2>5, LeaveOwn
<1>7. ASSUME NEW c \in Calls, TimeOut(c) PROVE OwnInv'
  <2>1. /\ call[c].pc = "reading" /\ owner' = [owner EXCEPT ![call[c].gen] = Nil]
        /\ lost' = [lost EXCEPT ![call[c].gen] = @ + 1] /\ UNCHANGED <<stdin, stdout>>
        /\ \E p \in {"timedout", "closing"} : call' = [call EXCEPT ![c].pc = p]
    BY <1>7 DEF TimeOut
  <2>2. \A h \in Gens : process'[h] = "dead" => process[h] = "dead"
    BY <1>7 DEF TimeOut, LeanTyped, LeanTypeOK
  <2> QED BY <1>6, <2>1, <2>2
<1>8. ASSUME NEW c \in Calls, Abandon(c) PROVE OwnInv'
  <2>1. CASE call[c].pc = "reading"
    BY <1>6, <1>8, <2>1 DEF Abandon
  <2>2. CASE call[c].pc # "reading"
    BY <1>8, <2>2, AwayOwn DEF Abandon
  <2> QED BY <2>1, <2>2
<1>9. ASSUME NEW c \in Calls, Terminate(c) PROVE OwnInv'
  <2>1. /\ call[c].pc = "timedout" /\ call' = [call EXCEPT ![c].pc = "closing"]
        /\ UNCHANGED <<owner, stdin, stdout, lost>>
    BY <1>9 DEF Terminate
  <2>2. \A h \in Gens : process'[h] = "dead" => process[h] = "dead"
    BY <1>9 DEF Terminate, LeanTyped, LeanTypeOK
  <2> QED BY <2>1, <2>2, AwayOwn
<1>10. ASSUME NEW c \in Calls, Respawn(c) PROVE OwnInv'
  <2>1. /\ call[c].pc = "closing" /\ call' = [call EXCEPT ![c].pc = "done"]
        /\ UNCHANGED <<owner, stdin, stdout, lost>>
    BY <1>10 DEF Respawn
  <2>2. \A h \in Gens : process'[h] = "dead" => process[h] = "dead"
    BY <1>10 DEF Respawn, LeanTyped, LeanTypeOK
  <2> QED BY <2>1, <2>2, AwayOwn
<1>11. ASSUME NEW g \in Gens, Reply(g) PROVE OwnInv'
  <2> DEFINE cmd == Head(stdin[g])
             r == [cmd EXCEPT !.env = Len(log[g]) + 1, !.of = cmd.by]
  <2>1. /\ stdin[g] \in Seq(Commands) /\ stdin[g] # << >> /\ stdout[g] \in Seq(Replies)
        /\ stdin \in [Gens -> Seq(Commands)] /\ stdout \in [Gens -> Seq(Replies)]
    BY <1>11 DEF Reply, LeanTyped, LeanTypeOK
  <2>2. cmd \in Commands /\ cmd = stdin[g][1] /\ 1 \in DOMAIN stdin[g]
    BY <2>1
  <2>3. r.by = cmd.by /\ r.stage = cmd.stage
    <3> HIDE DEF cmd
    <3> QED BY <2>2 DEF Commands
  <2>4. /\ stdin' = [stdin EXCEPT ![g] = Tail(stdin[g])]
        /\ stdout' = [stdout EXCEPT ![g] = Append(stdout[g], r)]
        /\ UNCHANGED <<process, owner, call, lost>> /\ process[g] # "dead"
    BY <1>11 DEF Reply
  <2> HIDE DEF cmd, r
  <2>5. WireOwn'
    <3> SUFFICES ASSUME NEW h \in Gens, lost[h] = 0
                 PROVE  /\ OneTrip(h)'
                        /\ \A i \in DOMAIN stdin'[h] :
                             owner[h] \in Calls /\ IsNext(owner[h], stdin'[h][i])
                        /\ \A i \in DOMAIN stdout'[h] :
                             owner[h] \in Calls /\ IsNext(owner[h], stdout'[h][i])
      BY <2>4 DEF WireOwn, IsNext
    <3>1. CASE h = g
      <4>1. OneTrip(g) /\ owner[g] \in Calls /\ IsNext(owner[g], cmd)
        BY <2>2, <3>1 DEF OwnInv, WireOwn
      <4>2. Len(stdin[g]) = 1 /\ stdout[g] = << >>
        BY <2>1, <4>1 DEF OneTrip
      <4>3. Tail(stdin[g]) = << >>
        BY <2>1, <4>2, Single
      <4>4. stdin'[g] = << >> /\ stdout'[g] = <<r>>
        BY <2>1, <2>4, <4>2, <4>3
      <4>5. IsNext(owner[g], r)
        BY <2>3, <4>1 DEF IsNext
      <4>6. Len(<<r>>) = 1 /\ \A i \in DOMAIN <<r>> : <<r>>[i] = r
        OBVIOUS
      <4> QED BY <3>1, <4>1, <4>4, <4>5, <4>6 DEF OneTrip
    <3>2. CASE h # g
      <4>1. stdin'[h] = stdin[h] /\ stdout'[h] = stdout[h]
        BY <2>1, <2>4, <3>2
      <4> QED BY <4>1 DEF OwnInv, WireOwn, OneTrip
    <3> QED BY <3>1, <3>2
  <2>6. DeadDeaf'
    BY <2>1, <2>4 DEF OwnInv, DeadDeaf
  <2> QED BY <2>4, <2>5, <2>6 DEF OwnInv, CallOwn, Own, IsNext
<1>12. ASSUME NEW g \in Gens, Exit(g) PROVE OwnInv'
  <2>1. /\ stdin' = [stdin EXCEPT ![g] = << >>] /\ UNCHANGED <<owner, stdout, call, lost>>
        /\ process' = [process EXCEPT ![g] = "dead"]
    BY <1>12 DEF Exit
  <2>2. \A h \in Gens : /\ stdin'[h] = IF h = g THEN << >> ELSE stdin[h]
                        /\ process'[h] = IF h = g THEN "dead" ELSE process[h]
    BY <2>1 DEF LeanTyped, LeanTypeOK
  <2>3. WireOwn'
    BY <2>1, <2>2 DEF OwnInv, WireOwn, OneTrip, IsNext
  <2>4. DeadDeaf'
    BY <2>2 DEF OwnInv, DeadDeaf
  <2> QED BY <2>1, <2>3, <2>4 DEF OwnInv, CallOwn, Own, IsNext
<1>13. CASE UNCHANGED leanVars
  BY <1>13 DEF leanVars, OwnInv, WireOwn, OneTrip, CallOwn, DeadDeaf, Own, IsNext
<1> QED
  BY <1>1, <1>2, <1>3, <1>4, <1>5, <1>7, <1>8, <1>9, <1>10, <1>11, <1>12, <1>13
  DEF LeanNext

\* For any calls and processes: concurrent lean_verify calls do not get each
\* other's verdicts from a process that no call has left before its reply.
THEOREM OwnUntilLostHolds == LeanSpec => []OwnUntilLost
<1>1. LeanTyped /\ OwnInv => OwnUntilLost
  <2> SUFFICES ASSUME LeanTyped, OwnInv, NEW c \in Calls, call[c].gen \in Gens, lost[call[c].gen] = 0
               PROVE  Own(c)
    BY DEF OwnUntilLost
  <2>1. CASE call[c].got = << >>
    BY <2>1 DEF Own
  <2>2. CASE call[c].got # << >>
    BY <2>2 DEF OwnInv, CallOwn
  <2> QED BY <2>1, <2>2
<1>2. WireInv => Held
  BY DEF WireInv, Holding
<1> QED BY <1>1, <1>2, TypedInit, TypedNext, WireInit, WireNext, OwnInit, OwnNext, PTL DEF LeanSpec

-----------------------------------------------------------------------------
(* The rerank phase *)


\* Every pass has a key and a state, every search past its lookup a key.
FlightTyped ==
    /\ passes \in Seq([key : Keys, st : {"running", "done", "failed"}])
    /\ inflight \in [Keys -> Nat]
    /\ pc \in [Callers -> {"idle", "permit", "queued", "joined", "started"}]
    /\ key \in [Callers -> Keys \cup {None}]
    /\ \A c \in Callers : pc[c] \in {"permit", "queued"} => key[c] \in Keys

\* Callbacks are due of passes that have ended.
Ended == \A t \in due : t \in DOMAIN passes /\ t \notin Underway

\* The inductive invariant: the map and the passes it must name agree.
FlightInv == FlightTyped /\ FlightIsNamed /\ Ended

-----------------------------------------------------------------------------
\* The fields of a pass.
LEMMA PassFields ==
    ASSUME passes \in Seq([key : Keys, st : {"running", "done", "failed"}]),
           NEW t \in DOMAIN passes
    PROVE  /\ passes[t] \in [key : Keys, st : {"running", "done", "failed"}]
           /\ passes[t].key \in Keys /\ passes[t].st \in {"running", "done", "failed"}
<1> DEFINE Pass == [key : Keys, st : {"running", "done", "failed"}]
<1>1. passes \in Seq(Pass)
  OBVIOUS
<1>2. passes[t] \in Pass
  <2> HIDE DEF Pass
  <2> QED BY <1>1
<1> QED BY <1>2

\* A pass that is underway, or whose callbacks are due, is typed.
LEMMA PassAt ==
    ASSUME FlightTyped, Ended, NEW t \in Named
    PROVE  /\ t \in DOMAIN passes
           /\ passes[t] \in [key : Keys, st : {"running", "done", "failed"}]
           /\ passes[t].key \in Keys
<1>1. t \in DOMAIN passes
  BY DEF Named, Underway, Ended
<1> QED BY <1>1, PassFields DEF FlightTyped

\* A pass launched for a key without one is named there, and the others stay so.
LEMMA LaunchKeeps ==
    ASSUME FlightInv, NEW c \in Callers, NEW k \in Keys,
           inflight[k] = NoTask, Launch(c, k), UNCHANGED due
    PROVE  /\ passes' \in Seq([key : Keys, st : {"running", "done", "failed"}])
           /\ inflight' \in [Keys -> Nat]
           /\ FlightIsNamed'
           /\ Ended'
<1> DEFINE n == Len(passes) + 1
           p == [key |-> k, st |-> "running"]
<1>1. /\ passes' = Append(passes, p)
      /\ inflight' = [inflight EXCEPT ![k] = n]
      /\ passes \in Seq([key : Keys, st : {"running", "done", "failed"}])
      /\ inflight \in [Keys -> Nat]
  BY DEF Launch, FlightInv, FlightTyped
<1>2. /\ passes' \in Seq([key : Keys, st : {"running", "done", "failed"}])
      /\ inflight' \in [Keys -> Nat]
  BY <1>1
<1>3. /\ DOMAIN passes = 1..Len(passes) /\ Len(passes) \in Nat
      /\ DOMAIN passes' = 1..n
      /\ passes'[n] = p
      /\ \A t \in DOMAIN passes : passes'[t] = passes[t]
  BY <1>1
<1>4. Underway' = Underway \cup {n} /\ n \notin Underway
  BY <1>3 DEF Underway
<1>5. Named' = Named \cup {n}
  BY <1>4 DEF Named
<1>6. Ended'
  BY <1>3, <1>4 DEF FlightInv, Ended
<1>7. ASSUME NEW l \in Keys, inflight'[l] # NoTask
      PROVE  inflight'[l] \in Named' /\ passes'[inflight'[l]].key = l
  <2>1. CASE l = k
    BY <1>1, <1>3, <1>5, <2>1
  <2>2. CASE l # k
    <3>1. inflight'[l] = inflight[l]
      BY <1>1, <2>2
    <3>2. inflight[l] \in Named /\ passes[inflight[l]].key = l
      BY <1>7, <3>1 DEF FlightInv, FlightIsNamed
    <3>3. inflight[l] \in DOMAIN passes
      BY <3>2, PassAt DEF FlightInv
    <3> QED BY <1>3, <1>5, <3>1, <3>2, <3>3
  <2> QED BY <2>1, <2>2
<1>8. ASSUME NEW t \in Named' PROVE inflight'[passes'[t].key] = t
  <2>1. CASE t = n
    BY <1>1, <1>3, <2>1
  <2>2. CASE t \in Named
    <3>1. t \in DOMAIN passes /\ passes'[t] = passes[t] /\ passes[t].key \in Keys
      BY <1>3, <2>2, PassAt DEF FlightInv
    <3>2. inflight[passes[t].key] = t
      BY <2>2 DEF FlightInv, FlightIsNamed
    <3>3. passes[t].key # k
      BY <1>3, <3>1, <3>2 DEF NoTask
    <3> QED BY <1>1, <3>1, <3>2, <3>3
  <2> QED BY <1>5, <2>1, <2>2
<1> QED BY <1>2, <1>6, <1>7, <1>8 DEF FlightIsNamed

\* The end of a pass, as far as the passes go.
LEMMA PassEnds ==
    ASSUME FlightTyped, Ended, NEW t \in Underway, NEW end \in {"done", "failed"},
           passes' = [passes EXCEPT ![t].st = end]
    PROVE  /\ passes' \in Seq([key : Keys, st : {"running", "done", "failed"}])
           /\ t \in DOMAIN passes /\ DOMAIN passes' = DOMAIN passes
           /\ passes'[t].key = passes[t].key /\ passes'[t].st = end
           /\ passes[t].key \in Keys
           /\ \A u \in DOMAIN passes : /\ u # t => passes'[u] = passes[u]
                                       /\ passes'[u].key = passes[u].key
           /\ Underway' = Underway \ {t}
<1>1. passes \in Seq([key : Keys, st : {"running", "done", "failed"}])
  BY DEF FlightTyped
<1>2. /\ t \in DOMAIN passes /\ passes[t].key \in Keys
      /\ passes[t] \in [key : Keys, st : {"running", "done", "failed"}]
  BY PassAt DEF Named
<1>3. /\ passes' \in Seq([key : Keys, st : {"running", "done", "failed"}])
      /\ DOMAIN passes' = DOMAIN passes
      /\ passes'[t].key = passes[t].key /\ passes'[t].st = end
      /\ \A u \in DOMAIN passes : u # t => passes'[u] = passes[u]
  BY <1>1, <1>2
<1>4. Underway' = Underway \ {t}
  BY <1>3 DEF Underway
<1> QED BY <1>2, <1>3, <1>4

\* A pass that ends keeps its entry in the map.
LEMMA FinishKeeps ==
    ASSUME FlightInv, NEW t \in Tasks, Finish(t)
    PROVE  FlightInv'
<1>1. /\ t \in Underway /\ due' = due \cup {t}
      /\ UNCHANGED <<pc, key, inflight>>
  BY DEF Finish
<1>2. PICK end \in {"done", "failed"} : passes' = [passes EXCEPT ![t].st = end]
  BY DEF Finish
<1>3. FlightTyped /\ Ended /\ FlightIsNamed
  BY DEF FlightInv
<1>4. /\ passes' \in Seq([key : Keys, st : {"running", "done", "failed"}])
      /\ t \in DOMAIN passes /\ DOMAIN passes' = DOMAIN passes
      /\ \A u \in DOMAIN passes : passes'[u].key = passes[u].key
      /\ Underway' = Underway \ {t}
  BY <1>1, <1>2, <1>3, PassEnds
<1>5. Named' = Named
  BY <1>1, <1>4 DEF Named
<1>6. FlightTyped'
  BY <1>1, <1>3, <1>4 DEF FlightTyped
<1>7. Ended'
  BY <1>1, <1>3, <1>4 DEF Ended
<1>8. \A u \in Named : u \in DOMAIN passes
  BY <1>3, PassAt
<1>9. FlightIsNamed'
  BY <1>1, <1>3, <1>4, <1>5, <1>8 DEF FlightIsNamed
<1> QED BY <1>6, <1>7, <1>9 DEF FlightInv

\* The callback takes the entry of its own pass, and no other.
LEMMA EvictKeeps ==
    ASSUME FlightInv, NEW t \in Tasks, Evict(t)
    PROVE  FlightInv'
<1>1. /\ t \in due /\ due' = due \ {t}
      /\ inflight' = [inflight EXCEPT ![passes[t].key] = NoTask]
      /\ UNCHANGED <<pc, key, passes>>
  BY DEF Evict
<1>2. FlightTyped /\ Ended /\ FlightIsNamed /\ inflight \in [Keys -> Nat]
  BY DEF FlightInv, FlightTyped
<1>3. t \in Named /\ t \notin Underway
  BY <1>1, <1>2 DEF Named, Ended
<1>4. passes[t].key \in Keys /\ inflight[passes[t].key] = t
  BY <1>2, <1>3, PassAt DEF FlightIsNamed
<1>5. Underway' = Underway /\ Named' = Named \ {t}
  BY <1>1, <1>3 DEF Underway, Named
<1>6. FlightTyped'
  BY <1>1, <1>2, <1>4 DEF FlightTyped, NoTask
<1>7. Ended'
  BY <1>1, <1>2, <1>5 DEF Ended
<1>8. ASSUME NEW l \in Keys, inflight'[l] # NoTask
      PROVE  inflight'[l] \in Named' /\ passes'[inflight'[l]].key = l
  <2>1. l # passes[t].key /\ inflight'[l] = inflight[l]
    BY <1>1, <1>2, <1>8
  <2>2. inflight[l] \in Named /\ passes[inflight[l]].key = l
    BY <1>2, <1>8, <2>1 DEF FlightIsNamed
  <2> QED BY <1>1, <1>5, <2>1, <2>2
<1>9. ASSUME NEW u \in Named' PROVE inflight'[passes'[u].key] = u
  <2>1. u \in Named /\ u # t
    BY <1>5, <1>9
  <2>2. inflight[passes[u].key] = u /\ passes[u].key \in Keys
    BY <1>2, <2>1, PassAt DEF FlightIsNamed
  <2> QED BY <1>1, <1>2, <1>4, <2>1, <2>2
<1> QED BY <1>6, <1>7, <1>8, <1>9 DEF FlightInv, FlightIsNamed

\* A step that leaves the map and the passes alone keeps them agreed.
LEMMA OthersKeep ==
    ASSUME FlightInv, UNCHANGED <<passes, inflight, due>>, FlightTyped'
    PROVE  FlightInv'
BY DEF FlightInv, FlightIsNamed, Ended, Named, Underway

\* A search that has the lock joins or starts a pass for its key.
LEMMA JoinOrStartKeeps ==
    ASSUME FlightInv, NEW c \in Callers, pc[c] \in {"permit", "queued"},
           Join(c, key[c]) \/ Start(c, key[c]), UNCHANGED key, UNCHANGED due
    PROVE  FlightInv'
<1>1. key[c] \in Keys
  BY DEF FlightInv, FlightTyped
<1>2. CASE Join(c, key[c])
  <2>1. UNCHANGED <<passes, inflight, key>> /\ pc' = [pc EXCEPT ![c] = "joined"]
    BY <1>2 DEF Join
  <2>2. FlightTyped'
    BY <2>1 DEF FlightInv, FlightTyped
  <2> QED BY <2>1, <2>2, OthersKeep
<1>3. CASE Start(c, key[c])
  <2>1. inflight[key[c]] = NoTask /\ Launch(c, key[c])
    BY <1>3 DEF Start
  <2>2. pc' = [pc EXCEPT ![c] = "started"]
    BY <2>1 DEF Launch
  <2>3. /\ passes' \in Seq([key : Keys, st : {"running", "done", "failed"}])
        /\ inflight' \in [Keys -> Nat]
        /\ FlightIsNamed'
        /\ Ended'
    BY <1>1, <2>1, LaunchKeeps
  <2>4. FlightTyped'
    BY <2>2, <2>3 DEF FlightInv, FlightTyped
  <2> QED BY <2>3, <2>4 DEF FlightInv
<1> QED BY <1>2, <1>3

\* The invariant holds before the first search.
LEMMA FlightInvInit == FlightInit => FlightInv
<1> SUFFICES ASSUME FlightInit PROVE FlightInv
  OBVIOUS
<1>1. passes = << >> /\ due = {} /\ Named = {}
  BY DEF FlightInit, Underway, Named
<1>2. FlightTyped
  BY <1>1 DEF FlightInit, FlightTyped, NoTask
<1>3. FlightIsNamed /\ Ended
  BY <1>1 DEF FlightInit, FlightIsNamed, Ended
<1> QED BY <1>2, <1>3 DEF FlightInv

\* Every step of a search, of a pass and of the cache keeps the invariant.
LEMMA FlightInvStep == FlightInv /\ [FlightNext]_flightVars => FlightInv'
<1> SUFFICES ASSUME FlightInv, [FlightNext]_flightVars PROVE FlightInv'
  OBVIOUS
<1>1. ASSUME NEW c \in Callers, NEW k \in Keys, Ask(c, k) PROVE FlightInv'
  <2>1. /\ UNCHANGED <<passes, inflight, due>>
        /\ pc' = [pc EXCEPT ![c] = "permit"] /\ key' = [key EXCEPT ![c] = k]
    BY <1>1 DEF Ask
  <2>2. FlightTyped'
    BY <2>1 DEF FlightInv, FlightTyped
  <2> QED BY <2>1, <2>2, OthersKeep
<1>2. ASSUME NEW c \in Callers, Acquire(c) PROVE FlightInv'
  <2>1. pc[c] = "permit" /\ UNCHANGED <<key, due>>
    BY <1>2 DEF Acquire
  <2>2. CASE Join(c, key[c]) \/ Start(c, key[c])
    BY <2>1, <2>2, JoinOrStartKeeps
  <2>3. CASE pc' = [pc EXCEPT ![c] = "queued"] /\ UNCHANGED <<inflight, passes, due>>
    <3>1. FlightTyped'
      BY <2>1, <2>3 DEF FlightInv, FlightTyped
    <3> QED BY <2>3, <3>1, OthersKeep
  <2> QED BY <1>2, <2>2, <2>3 DEF Acquire
<1>3. ASSUME NEW c \in Callers, Resume(c) PROVE FlightInv'
  <2>1. /\ pc[c] = "queued" /\ UNCHANGED <<key, due>>
        /\ Join(c, key[c]) \/ Start(c, key[c])
    BY <1>3 DEF Resume
  <2> QED BY <2>1, JoinOrStartKeeps
<1>4. ASSUME NEW c \in Callers, Answer(c) \/ Late(c) \/ Cancel(c) PROVE FlightInv'
  <2>1. UNCHANGED <<passes, inflight, due>> /\ Unwind(c)
    BY <1>4 DEF Answer, Late, Return, Cancel
  <2>2. pc' = [pc EXCEPT ![c] = "idle"] /\ key' = [key EXCEPT ![c] = None]
    BY <2>1 DEF Unwind
  <2>3. FlightTyped'
    BY <2>1, <2>2 DEF FlightInv, FlightTyped
  <2> QED BY <2>1, <2>3, OthersKeep
<1>5. ASSUME NEW t \in Tasks, Finish(t) \/ Evict(t) PROVE FlightInv'
  BY <1>5, FinishKeeps, EvictKeeps
<1>6. ASSUME NEW k \in Keys, Expire(k) PROVE FlightInv'
  <2>1. UNCHANGED <<passes, inflight, due, pc, key>>
    BY <1>6 DEF Expire
  <2> QED BY <2>1, OthersKeep DEF FlightInv, FlightTyped
<1>7. CASE UNCHANGED flightVars
  <2>1. UNCHANGED <<passes, inflight, due, pc, key>>
    BY <1>7 DEF flightVars
  <2> QED BY <2>1, OthersKeep DEF FlightInv, FlightTyped
<1> QED BY <1>1, <1>2, <1>3, <1>4, <1>5, <1>6, <1>7 DEF FlightNext

\* No ranking is computed twice at once, for any number of searches: not when
\* passes fail, nor when the searches that started them are cancelled.
THEOREM OneFlightPerKeyHolds == FlightSpec => []OneFlightPerKey
<1>1. FlightInv => OneFlightPerKey
  BY DEF FlightInv, FlightIsNamed, Named, OneFlightPerKey
<1> QED BY FlightInvInit, FlightInvStep, <1>1, PTL DEF FlightSpec

\* Singleflight's map names a pass from its start until its done callbacks have
\* run, however it ends and whoever is cancelled: it overlooks none that runs,
\* and keeps no result and no error of one any longer.
THEOREM FlightIsNamedHolds == FlightSpec => []FlightIsNamed
<1>1. FlightInv => FlightIsNamed
  BY DEF FlightInv
<1> QED BY FlightInvInit, FlightInvStep, <1>1, PTL DEF FlightSpec

-----------------------------------------------------------------------------
(***************************************************************************)
(* The permits, the lock and its waiters.  FlightTypeOK counts those past  *)
(* the semaphore; that the count stays right rests on nobody being in line *)
(* twice, and on the searches that the lock passes over being counted too. *)
(***************************************************************************)
Past == {c \in Callers : pc[c] \notin {"idle", "permit"}}

\* The plain types of FlightTypeOK; every search has a key until it is idle again.
FieldsTyped ==
    /\ pc \in [Callers -> {"idle", "permit", "queued", "joined", "started"}]
    /\ key \in [Callers -> Keys \cup {None}]
    /\ \A c \in Callers : pc[c] # "idle" => key[c] \in Keys
    /\ task \in [Callers -> 0..MaxTasks]
    /\ inflight \in [Keys -> 0..MaxTasks]
    /\ passes \in Seq([key : Keys, st : {"running", "done", "failed"}])
    /\ due \subseteq Tasks
    /\ tier3 \subseteq Keys
    /\ told \in [Callers -> {"none", "done", "failed"}]
    /\ sawFlight \in [Callers -> BOOLEAN]

\* The semaphore and those past it add up.
PermitsAddUp ==
    /\ permits \in Nat /\ IsFiniteSet(Past)
    /\ permits + Cardinality(Past) = MaxReranks

\* Who joined holds the lock, who is queued stands in its line, once.
LockInLine ==
    /\ holder \in Callers \cup {None}
    /\ queue \in Seq(Callers) /\ OnceEach(queue)
    /\ \A c \in Callers : holder = c <=> pc[c] = "joined"
    /\ \A c \in Callers : pc[c] = "queued" <=> Has(queue, c)

FlightAccount == FieldsTyped /\ PermitsAddUp /\ LockInLine

\* Who waits does so for a pass of its key.
Aboard == \A c \in Callers : Waiting(c) => /\ task[c] \in DOMAIN passes
                                           /\ passes[task[c]].key = key[c]

\* A search that gets past the semaphore takes a permit with it, one that goes
\* back gives it up, and one that only moves on does neither.
LEMMA PermitTaken ==
    ASSUME FlightAccount, NEW c \in Callers, pc[c] = "permit", permits > 0,
           NEW at \in {"queued", "joined", "started"},
           pc' = [pc EXCEPT ![c] = at], permits' = permits - 1
    PROVE  PermitsAddUp'
<1>1. Past' = Past \cup {c} /\ c \notin Past
  BY DEF FlightAccount, FieldsTyped, Past
<1>2. IsFiniteSet(Past') /\ Cardinality(Past') = Cardinality(Past) + 1
  BY <1>1, FS_AddElement DEF FlightAccount, PermitsAddUp
<1>3. Cardinality(Past) \in Nat /\ permits \in Nat
  BY FS_CardinalityType DEF FlightAccount, PermitsAddUp
<1> QED BY <1>2, <1>3 DEF FlightAccount, PermitsAddUp

LEMMA PermitGivenBack ==
    ASSUME FlightAccount, NEW c \in Callers, pc[c] # "idle", Unwind(c)
    PROVE  PermitsAddUp'
<1>1. pc' = [pc EXCEPT ![c] = "idle"]
  BY DEF Unwind
<1>2. CASE pc[c] = "permit"
  <2>1. Past' = Past
    BY <1>1, <1>2 DEF FlightAccount, FieldsTyped, Past
  <2>2. UNCHANGED permits
    BY <1>2 DEF Unwind
  <2> QED BY <2>1, <2>2 DEF FlightAccount, PermitsAddUp
<1>3. CASE pc[c] # "permit"
  <2>1. Past' = Past \ {c} /\ c \in Past
    BY <1>1, <1>3 DEF FlightAccount, FieldsTyped, Past
  <2>2. IsFiniteSet(Past') /\ Cardinality(Past') = Cardinality(Past) - 1
    BY <2>1, FS_RemoveElement DEF FlightAccount, PermitsAddUp
  <2>3. Cardinality(Past) \in Nat /\ permits \in Nat /\ permits' = permits + 1
    BY <1>3, FS_CardinalityType DEF FlightAccount, PermitsAddUp, Unwind
  <2>4. Cardinality(Past) + permits = MaxReranks
    BY <2>3 DEF FlightAccount, PermitsAddUp
  <2> QED BY <2>2, <2>3, <2>4 DEF PermitsAddUp
<1> QED BY <1>2, <1>3

LEMMA PermitKept ==
    ASSUME FlightAccount, Past' = Past, UNCHANGED permits
    PROVE  PermitsAddUp'
BY DEF FlightAccount, PermitsAddUp

\* What a join or a start makes of a search and of the map.
LEMMA JoinOrStartTyped ==
    ASSUME FlightAccount, NEW c \in Callers, pc[c] \in {"permit", "queued"},
           Join(c, key[c]) \/ Start(c, key[c]), UNCHANGED <<key, due, tier3>>,
           Untold, sawFlight' \in [Callers -> BOOLEAN]
    PROVE  /\ FieldsTyped'
           /\ \/ pc' = [pc EXCEPT ![c] = "joined"] /\ holder' = c
              \/ pc' = [pc EXCEPT ![c] = "started"] /\ holder' = None
<1>1. /\ key[c] \in Keys /\ pc[c] # "idle"
      /\ told' \in [Callers -> {"none", "done", "failed"}]
      /\ due' \subseteq Tasks
  BY DEF FlightAccount, FieldsTyped, Untold, NoNews
<1>2. CASE Join(c, key[c])
  <2>1. /\ UNCHANGED <<passes, inflight>> /\ holder' = c
        /\ task' = [task EXCEPT ![c] = inflight[key[c]]]
        /\ pc' = [pc EXCEPT ![c] = "joined"]
    BY <1>2 DEF Join
  <2>2. inflight[key[c]] \in 0..MaxTasks
    BY <1>1 DEF FlightAccount, FieldsTyped
  <2>3. task' \in [Callers -> 0..MaxTasks]
    BY <2>1, <2>2 DEF FlightAccount, FieldsTyped
  <2>4. /\ pc' \in [Callers -> {"idle", "permit", "queued", "joined", "started"}]
        /\ \A d \in Callers : pc'[d] # "idle" => key[d] \in Keys
    BY <1>1, <2>1 DEF FlightAccount, FieldsTyped
  <2> QED BY <1>1, <2>1, <2>3, <2>4 DEF FlightAccount, FieldsTyped
<1>3. CASE Start(c, key[c])
  <2> DEFINE n == Len(passes) + 1
             p == [key |-> key[c], st |-> "running"]
  <2>1. /\ Len(passes) < MaxTasks /\ holder' = None
        /\ passes' = Append(passes, p)
        /\ inflight' = [inflight EXCEPT ![key[c]] = n]
        /\ task' = [task EXCEPT ![c] = n]
        /\ pc' = [pc EXCEPT ![c] = "started"]
    BY <1>3 DEF Start, Launch
  <2>2. n \in 0..MaxTasks
    BY <2>1, FlightConstants DEF FlightAccount, FieldsTyped
  <2>3. p \in [key : Keys, st : {"running", "done", "failed"}]
    BY <1>1
  <2> HIDE DEF n, p
  <2>4. /\ task' \in [Callers -> 0..MaxTasks] /\ inflight' \in [Keys -> 0..MaxTasks]
        /\ passes' \in Seq([key : Keys, st : {"running", "done", "failed"}])
    BY <2>1, <2>2, <2>3 DEF FlightAccount, FieldsTyped
  <2>5. /\ pc' \in [Callers -> {"idle", "permit", "queued", "joined", "started"}]
        /\ \A d \in Callers : pc'[d] # "idle" => key[d] \in Keys
    BY <1>1, <2>1 DEF FlightAccount, FieldsTyped
  <2> QED BY <1>1, <2>1, <2>4, <2>5 DEF FlightAccount, FieldsTyped
<1> QED BY <1>2, <1>3

\* The lock and its line, when one search moves to at and the others stay.
LEMMA LineKept ==
    ASSUME FlightAccount, NEW c \in Callers,
           NEW at \in {"idle", "permit", "queued", "joined", "started"},
           pc' = [pc EXCEPT ![c] = at],
           queue' \in Seq(Callers), OnceEach(queue'),
           \A d \in Callers : d # c => (Has(queue', d) <=> Has(queue, d)),
           Has(queue', c) <=> at = "queued",
           holder' \in Callers \cup {None},
           holder' = c <=> at = "joined",
           \A d \in Callers : d # c => (holder' = d <=> holder = d)
    PROVE  LockInLine'
<1>1. ASSUME NEW d \in Callers
      PROVE  (holder' = d <=> pc'[d] = "joined") /\ (pc'[d] = "queued" <=> Has(queue', d))
  <2>1. CASE d = c
    BY <2>1 DEF FlightAccount, FieldsTyped
  <2>2. CASE d # c
    BY <2>2 DEF FlightAccount, FieldsTyped, LockInLine
  <2> QED BY <2>1, <2>2
<1> QED BY <1>1 DEF LockInLine, OnceEach, Has

\* A search that got its permit takes the lock or gets in line behind the others.
LEMMA AcquireAccount ==
    ASSUME FlightAccount, NEW c \in Callers, Acquire(c)
    PROVE  FlightAccount'
<1>1. /\ pc[c] = "permit" /\ permits > 0 /\ permits' = permits - 1
      /\ UNCHANGED <<key, due, tier3>> /\ Untold
      /\ sawFlight' = [sawFlight EXCEPT ![c] = inflight[key[c]] # NoTask]
  BY DEF Acquire
<1>2. /\ sawFlight' \in [Callers -> BOOLEAN] /\ key[c] \in Keys /\ c # None
      /\ told' \in [Callers -> {"none", "done", "failed"}]
  BY <1>1, FlightConstants DEF FlightAccount, FieldsTyped, Untold, NoNews
<1>3. ~Has(queue, c) /\ queue \in Seq(Callers) /\ OnceEach(queue) /\ holder # c
  BY <1>1 DEF FlightAccount, LockInLine
<1>4. CASE /\ holder = None /\ UNCHANGED queue
           /\ Join(c, key[c]) \/ Start(c, key[c])
  <2>1. /\ FieldsTyped'
        /\ \/ pc' = [pc EXCEPT ![c] = "joined"] /\ holder' = c
           \/ pc' = [pc EXCEPT ![c] = "started"] /\ holder' = None
    BY <1>1, <1>2, <1>4, JoinOrStartTyped
  <2>2. PermitsAddUp'
    BY <1>1, <2>1, PermitTaken
  <2>3. \A d \in Callers : d # None
    BY FlightConstants
  <2>4. /\ queue' \in Seq(Callers) /\ OnceEach(queue')
        /\ ~Has(queue', c) /\ \A d : Has(queue', d) <=> Has(queue, d)
    BY <1>3, <1>4
  <2>5. CASE pc' = [pc EXCEPT ![c] = "joined"] /\ holder' = c
    <3>1. \A d \in Callers : d # c => (holder' = d <=> holder = d)
      BY <1>4, <2>3, <2>5
    <3>2. LockInLine'
      BY <2>4, <2>5, <3>1, LineKept
    <3> QED BY <2>1, <2>2, <3>2 DEF FlightAccount
  <2>6. CASE pc' = [pc EXCEPT ![c] = "started"] /\ holder' = None
    <3>1. holder' # c /\ \A d \in Callers : holder' = d <=> holder = d
      BY <1>2, <1>4, <2>6
    <3>2. LockInLine'
      BY <2>4, <2>6, <3>1, LineKept
    <3> QED BY <2>1, <2>2, <3>2 DEF FlightAccount
  <2> QED BY <2>1, <2>5, <2>6
<1>5. CASE /\ queue' = Append(queue, c)
           /\ pc' = [pc EXCEPT ![c] = "queued"]
           /\ UNCHANGED <<task, holder, inflight, passes>>
  <2>1. /\ queue' \in Seq(Callers) /\ OnceEach(queue')
        /\ \A d : Has(queue', d) <=> d = c \/ Has(queue, d)
    BY <1>3, <1>5, PutBehind
  <2>2. LockInLine'
    BY <1>3, <1>5, <2>1, LineKept DEF FlightAccount, LockInLine
  <2>3. FieldsTyped'
    BY <1>1, <1>2, <1>5 DEF FlightAccount, FieldsTyped
  <2>4. PermitsAddUp'
    BY <1>1, <1>5, PermitTaken
  <2> QED BY <2>2, <2>3, <2>4 DEF FlightAccount
<1> QED BY <1>4, <1>5 DEF Acquire

\* The first in line gets the released lock.
LEMMA ResumeAccount ==
    ASSUME FlightAccount, NEW c \in Callers, Resume(c)
    PROVE  FlightAccount'
<1>1. /\ pc[c] = "queued" /\ holder = None /\ Head(queue) = c /\ queue' = Tail(queue)
      /\ Join(c, key[c]) \/ Start(c, key[c])
      /\ UNCHANGED <<key, permits, due, tier3, sawFlight>> /\ Untold
  BY DEF Resume
<1>2. /\ Has(queue, c) /\ queue \in Seq(Callers) /\ OnceEach(queue)
      /\ sawFlight' \in [Callers -> BOOLEAN]
  BY <1>1 DEF FlightAccount, LockInLine, FieldsTyped
<1>3. queue # << >>
  BY <1>2 DEF Has
<1>4. /\ FieldsTyped'
      /\ \/ pc' = [pc EXCEPT ![c] = "joined"] /\ holder' = c
         \/ pc' = [pc EXCEPT ![c] = "started"] /\ holder' = None
  BY <1>1, <1>2, JoinOrStartTyped
<1>5. PermitsAddUp'
  <2>1. Past' = Past
    BY <1>1, <1>4 DEF FlightAccount, FieldsTyped, Past
  <2> QED BY <1>1, <2>1, PermitKept
<1>6. /\ queue' \in Seq(Callers) /\ OnceEach(queue')
      /\ \A d : Has(queue', d) <=> d # c /\ Has(queue, d)
  BY <1>1, <1>2, <1>3, HeadLeaves
<1>7. \A d \in Callers : d # None
  BY FlightConstants
<1>8. CASE pc' = [pc EXCEPT ![c] = "joined"] /\ holder' = c
  <2>1. LockInLine'
    BY <1>1, <1>6, <1>7, <1>8, LineKept
  <2> QED BY <1>4, <1>5, <2>1 DEF FlightAccount
<1>9. CASE pc' = [pc EXCEPT ![c] = "started"] /\ holder' = None
  <2>1. LockInLine'
    BY <1>1, <1>6, <1>7, <1>9, LineKept
  <2> QED BY <1>4, <1>5, <2>1 DEF FlightAccount
<1> QED BY <1>4, <1>8, <1>9

\* A search that goes back gives up its permit, the lock and its place in line.
LEMMA UnwindAccount ==
    ASSUME FlightAccount, NEW c \in Callers, pc[c] # "idle", Unwind(c),
           UNCHANGED <<inflight, passes, due>>, tier3' \subseteq Keys,
           told' \in [Callers -> {"none", "done", "failed"}]
    PROVE  FlightAccount'
<1>1. /\ pc' = [pc EXCEPT ![c] = "idle"] /\ key' = [key EXCEPT ![c] = None]
      /\ task' = [task EXCEPT ![c] = NoTask]
      /\ sawFlight' = [sawFlight EXCEPT ![c] = FALSE]
      /\ holder' = IF holder = c THEN None ELSE holder
      /\ queue' = RemoveFirst(queue, c)
  BY DEF Unwind
<1>2. NoTask \in 0..MaxTasks /\ \A d \in Callers : d # None
  BY FlightConstants DEF NoTask
<1>3. FieldsTyped'
  BY <1>1, <1>2 DEF FlightAccount, FieldsTyped
<1>4. PermitsAddUp'
  BY PermitGivenBack
<1>5. queue \in Seq(Callers) /\ OnceEach(queue) /\ holder \in Callers \cup {None}
  BY DEF FlightAccount, LockInLine
<1>6. /\ queue' \in Seq(Callers) /\ OnceEach(queue')
      /\ \A d : Has(queue', d) <=> d # c /\ Has(queue, d)
  BY <1>1, <1>5, LeavesIt
<1>7. LockInLine'
  BY <1>1, <1>2, <1>5, <1>6, LineKept
<1> QED BY <1>3, <1>4, <1>7 DEF FlightAccount

\* The account holds before the first search.
LEMMA AccountInit == FlightInit => FlightAccount
<1> SUFFICES ASSUME FlightInit PROVE FlightAccount
  OBVIOUS
<1>1. FieldsTyped
  BY FlightConstants DEF FlightInit, FieldsTyped, NoTask, NoNews
<1>2. Past = {} /\ permits = MaxReranks
  BY DEF FlightInit, Past
<1>3. PermitsAddUp
  BY <1>2, FS_EmptySet, FlightConstants DEF PermitsAddUp
<1>4. LockInLine
  BY FlightConstants DEF FlightInit, LockInLine, OnceEach, Has
<1> QED BY <1>1, <1>3, <1>4 DEF FlightAccount

\* Every step keeps it, when those who are told of a pass have waited for one.
LEMMA AccountStep == FlightAccount /\ Aboard /\ [FlightNext]_flightVars => FlightAccount'
<1> SUFFICES ASSUME FlightAccount, Aboard, [FlightNext]_flightVars PROVE FlightAccount'
  OBVIOUS
<1>0. Untold => told' \in [Callers -> {"none", "done", "failed"}]
  BY DEF Untold, NoNews
<1>1. ASSUME NEW c \in Callers, NEW k \in Keys, Ask(c, k) PROVE FlightAccount'
  <2>1. /\ pc[c] = "idle" /\ pc' = [pc EXCEPT ![c] = "permit"]
        /\ key' = [key EXCEPT ![c] = k] /\ Untold
        /\ UNCHANGED <<task, permits, holder, queue, inflight, passes, due, tier3,
                       sawFlight>>
    BY <1>1 DEF Ask
  <2>2. FieldsTyped'
    BY <1>0, <2>1 DEF FlightAccount, FieldsTyped
  <2>3. Past' = Past
    BY <2>1 DEF FlightAccount, FieldsTyped, Past
  <2>4. LockInLine'
    BY <2>1, LineKept DEF FlightAccount, LockInLine
  <2> QED BY <2>1, <2>2, <2>3, <2>4, PermitKept DEF FlightAccount
\* a search that goes back with the end of a pass of its key
<1>2. ASSUME NEW c \in Callers, NEW t \in DOMAIN passes, t \notin Underway,
             pc[c] # "idle", Return(c, t)
      PROVE  FlightAccount'
  <2>1. /\ Unwind(c) /\ UNCHANGED <<inflight, passes, due>>
        /\ told' = [NoNews EXCEPT ![c] = passes[t].st]
        /\ tier3' = tier3 \/ tier3' = tier3 \cup {key[c]}
    BY <1>2 DEF Return
  <2>2. tier3' \subseteq Keys
    BY <1>2, <2>1 DEF FlightAccount, FieldsTyped
  <2>3. passes[t].st \in {"done", "failed"}
    BY <1>2, PassFields DEF Underway, FlightAccount, FieldsTyped
  <2>4. told' \in [Callers -> {"none", "done", "failed"}]
    BY <2>1, <2>3 DEF NoNews
  <2> QED BY <1>2, <2>1, <2>2, <2>4, UnwindAccount
<1>3. ASSUME NEW c \in Callers, Cancel(c) PROVE FlightAccount'
  <2>1. /\ pc[c] # "idle" /\ Unwind(c) /\ Untold
        /\ UNCHANGED <<inflight, passes, due, tier3>>
    BY <1>3 DEF Cancel
  <2>2. tier3' \subseteq Keys
    BY <2>1 DEF FlightAccount, FieldsTyped
  <2> QED BY <1>0, <2>1, <2>2, UnwindAccount
<1>4. ASSUME UNCHANGED <<pc, key, task, permits, holder, queue, sawFlight>>,
             inflight' \in [Keys -> 0..MaxTasks], tier3' \subseteq Keys,
             passes' \in Seq([key : Keys, st : {"running", "done", "failed"}]),
             due' \subseteq Tasks, told' \in [Callers -> {"none", "done", "failed"}]
      PROVE  FlightAccount'
  <2>1. FieldsTyped'
    BY <1>4 DEF FlightAccount, FieldsTyped
  <2>2. Past' = Past
    BY <1>4 DEF Past
  <2>3. LockInLine'
    BY <1>4 DEF FlightAccount, LockInLine
  <2> QED BY <1>4, <2>1, <2>2, <2>3, PermitKept DEF FlightAccount
<1>5. ASSUME NEW t \in Tasks, Finish(t) PROVE FlightAccount'
  <2>1. PICK end \in {"done", "failed"} : passes' = [passes EXCEPT ![t].st = end]
    BY <1>5 DEF Finish
  <2>2. /\ t \in DOMAIN passes /\ due' = due \cup {t} /\ Untold
        /\ UNCHANGED <<pc, key, task, permits, holder, queue, inflight, tier3,
                       sawFlight>>
    BY <1>5 DEF Finish, Underway
  <2>3. /\ passes \in Seq([key : Keys, st : {"running", "done", "failed"}])
        /\ passes[t] \in [key : Keys, st : {"running", "done", "failed"}]
    BY <2>2, PassFields DEF FlightAccount, FieldsTyped
  <2>4. passes' \in Seq([key : Keys, st : {"running", "done", "failed"}])
    <3>1. [passes[t] EXCEPT !.st = end] \in [key : Keys, st : {"running", "done", "failed"}]
      BY <2>1, <2>3
    <3> QED BY <2>1, <2>2, <2>3, <3>1
  <2> QED BY <1>0, <1>4, <2>2, <2>4 DEF FlightAccount, FieldsTyped
<1>6. ASSUME NEW t \in Tasks, Evict(t) PROVE FlightAccount'
  <2>1. /\ inflight' = [inflight EXCEPT ![passes[t].key] = NoTask] /\ Untold
        /\ due' \subseteq due
        /\ UNCHANGED <<pc, key, task, permits, holder, queue, passes, tier3,
                       sawFlight>>
    BY <1>6 DEF Evict
  <2>2. inflight' \in [Keys -> 0..MaxTasks]
    <3>1. inflight \in [Keys -> 0..MaxTasks] /\ NoTask \in 0..MaxTasks
      BY FlightConstants DEF FlightAccount, FieldsTyped, NoTask
    <3> QED BY <2>1, <3>1
  <2>3. /\ tier3' \subseteq Keys /\ due' \subseteq Tasks
        /\ passes' \in Seq([key : Keys, st : {"running", "done", "failed"}])
    BY <2>1 DEF FlightAccount, FieldsTyped
  <2> QED BY <1>0, <1>4, <2>1, <2>2, <2>3
<1>7. ASSUME NEW c \in Callers, Answer(c) PROVE FlightAccount'
  <2>1. pc[c] # "idle" /\ Waiting(c) /\ task[c] \notin Underway /\ Return(c, task[c])
    BY <1>7 DEF Answer, Named, Waiting
  <2> QED BY <1>2, <2>1 DEF Aboard
<1>8. ASSUME NEW c \in Callers, Late(c) PROVE FlightAccount'
  BY <1>2, <1>8 DEF Late
<1>9. ASSUME NEW k \in Keys, Expire(k) PROVE FlightAccount'
  BY <1>0, <1>4, <1>9 DEF Expire, FlightAccount, FieldsTyped
<1>10. CASE UNCHANGED flightVars
  BY <1>4, <1>10 DEF flightVars, FlightAccount, FieldsTyped
<1> QED BY <1>1, <1>3, <1>5, <1>6, <1>7, <1>8, <1>9, <1>10, AcquireAccount, ResumeAccount
        DEF FlightNext

-----------------------------------------------------------------------------
(***************************************************************************)
(* Sharing: RerankFlight implements SharedWork.  A search that waits does  *)
(* so for a pass of its own key (Aboard), which neither invariant above    *)
(* says; with it, whoever wants a key while work on it runs is aboard the  *)
(* one pass underway, and its end is theirs.                               *)
(***************************************************************************)
ShareInv == FlightInv /\ FlightAccount /\ Aboard

\* A search that has the lock comes to wait for a pass that runs for its key.
LEMMA Boards ==
    ASSUME ShareInv, NEW c \in Callers, pc[c] \in {"permit", "queued"},
           Join(c, key[c]) \/ Start(c, key[c]), UNCHANGED key
    PROVE  \E at \in {"joined", "started"}, n \in DOMAIN passes' :
              /\ pc' = [pc EXCEPT ![c] = at] /\ task' = [task EXCEPT ![c] = n]
              /\ passes'[n].key = key[c] /\ passes'[n].st = "running"
              /\ \A t \in DOMAIN passes : t \in DOMAIN passes' /\ passes'[t] = passes[t]
              /\ \/ n \in Underway /\ UNCHANGED passes
                 \/ inflight[key[c]] = NoTask /\ n \notin DOMAIN passes /\ DOMAIN passes' = DOMAIN passes \cup {n}
<1>1. key[c] \in Keys
  BY DEF ShareInv, FlightInv, FlightTyped
<1>2. CASE Join(c, key[c])
  <2> DEFINE n == inflight[key[c]]
  <2>1. /\ n \in Underway /\ UNCHANGED passes
        /\ pc' = [pc EXCEPT ![c] = "joined"] /\ task' = [task EXCEPT ![c] = n]
    BY <1>2 DEF Join
  <2>2. passes[n].key = key[c]
    <3>1. n # NoTask
      BY <2>1 DEF Underway, NoTask, ShareInv, FlightInv, FlightTyped
    <3> QED BY <1>1, <3>1 DEF ShareInv, FlightInv, FlightIsNamed
  <2>3. n \in DOMAIN passes /\ passes[n].st = "running"
    BY <2>1 DEF Underway
  <2> HIDE DEF n
  <2> QED BY <2>1, <2>2, <2>3
<1>3. CASE Start(c, key[c])
  <2> DEFINE n == Len(passes) + 1
             p == [key |-> key[c], st |-> "running"]
  <2>1. /\ inflight[key[c]] = NoTask /\ passes' = Append(passes, p)
        /\ pc' = [pc EXCEPT ![c] = "started"] /\ task' = [task EXCEPT ![c] = n]
    BY <1>3 DEF Start, Launch
  <2>2. passes \in Seq([key : Keys, st : {"running", "done", "failed"}])
    BY DEF ShareInv, FlightInv, FlightTyped
  <2>3. /\ n \in DOMAIN passes' /\ passes'[n] = p
        /\ n \notin DOMAIN passes /\ DOMAIN passes' = DOMAIN passes \cup {n}
        /\ \A t \in DOMAIN passes : t \in DOMAIN passes' /\ passes'[t] = passes[t]
    BY <2>1, <2>2
  <2>4. p.key = key[c] /\ p.st = "running"
    OBVIOUS
  <2> HIDE DEF n, p
  <2> QED BY <2>1, <2>3, <2>4
<1> QED BY <1>2, <1>3

LEMMA AboardStep == ShareInv /\ [FlightNext]_flightVars => Aboard'
<1> SUFFICES ASSUME ShareInv, [FlightNext]_flightVars PROVE Aboard'
  OBVIOUS
<1> USE DEF Aboard, Waiting
<1>1. Aboard /\ FlightTyped /\ Ended
  BY DEF ShareInv, FlightInv
<1>2. pc \in [Callers -> {"idle", "permit", "queued", "joined", "started"}]
      /\ key \in [Callers -> Keys \cup {None}] /\ task \in [Callers -> 0..MaxTasks]
  BY DEF ShareInv, FlightAccount, FieldsTyped
<1>3. ASSUME NEW c \in Callers, NEW k \in Keys, Ask(c, k) PROVE Aboard'
  BY <1>1, <1>2, <1>3 DEF Ask
<1>4. ASSUME NEW c \in Callers, pc[c] \in {"permit", "queued"},
             Join(c, key[c]) \/ Start(c, key[c]), UNCHANGED key
      PROVE  Aboard'
  <2>1. PICK at \in {"joined", "started"}, n \in DOMAIN passes' :
              /\ pc' = [pc EXCEPT ![c] = at] /\ task' = [task EXCEPT ![c] = n]
              /\ passes'[n].key = key[c]
              /\ \A t \in DOMAIN passes : t \in DOMAIN passes' /\ passes'[t] = passes[t]
    BY <1>4, Boards
  <2>2. ASSUME NEW d \in Callers, Waiting(d)'
        PROVE  task'[d] \in DOMAIN passes' /\ passes'[task'[d]].key = key'[d]
    <3>1. CASE d = c
      BY <1>2, <1>4, <2>1, <3>1
    <3>2. CASE d # c
      <4>1. Waiting(d) /\ task'[d] = task[d] /\ key'[d] = key[d]
        BY <1>2, <1>4, <2>1, <2>2, <3>2
      <4> QED BY <1>1, <2>1, <4>1
    <3> QED BY <3>1, <3>2
  <2> QED BY <2>2
<1>5. ASSUME NEW c \in Callers, Acquire(c) PROVE Aboard'
  <2>1. pc[c] = "permit" /\ UNCHANGED key
    BY <1>5 DEF Acquire
  <2>2. CASE pc' = [pc EXCEPT ![c] = "queued"] /\ UNCHANGED <<task, passes>>
    BY <1>1, <1>2, <2>1, <2>2
  <2> QED BY <1>4, <1>5, <2>1, <2>2 DEF Acquire
<1>6. ASSUME NEW c \in Callers, Resume(c) PROVE Aboard'
  BY <1>4, <1>6 DEF Resume
<1>7. ASSUME NEW c \in Callers, Answer(c) \/ Late(c) \/ Cancel(c) PROVE Aboard'
  BY <1>1, <1>2, <1>7 DEF Answer, Late, Return, Cancel, Unwind
<1>8. ASSUME NEW t \in Tasks, Finish(t) PROVE Aboard'
  <2>1. PICK end \in {"done", "failed"} : passes' = [passes EXCEPT ![t].st = end]
    BY <1>8 DEF Finish
  <2>2. UNCHANGED <<pc, key, task>> /\ t \in Underway
    BY <1>8 DEF Finish
  <2>3. DOMAIN passes' = DOMAIN passes /\ \A u \in DOMAIN passes : passes'[u].key = passes[u].key
    BY <1>1, <2>1, <2>2, PassEnds
  <2> QED BY <1>1, <2>2, <2>3
<1>11. ASSUME NEW t \in Tasks, Evict(t) PROVE Aboard'
  BY <1>1, <1>11 DEF Evict
<1>9. ASSUME NEW k \in Keys, Expire(k) PROVE Aboard'
  BY <1>1, <1>9 DEF Expire
<1>10. CASE UNCHANGED flightVars
  BY <1>1, <1>10 DEF flightVars
<1> QED BY <1>3, <1>5, <1>6, <1>7, <1>8, <1>9, <1>10, <1>11 DEF FlightNext

LEMMA ShareInit == FlightInit => ShareInv
<1> SUFFICES ASSUME FlightInit PROVE Aboard
  BY FlightInvInit, AccountInit DEF ShareInv
<1> QED BY DEF FlightInit, Aboard, Waiting

LEMMA ShareStep == ShareInv /\ [FlightNext]_flightVars => ShareInv'
BY FlightInvStep, AccountStep, AboardStep DEF ShareInv

\* However searches are cancelled, while they wait for the lock, for another's
\* pass or for their own, no permit is lost or given twice, the lock is with whoever
\* joined and its line is those who wait for it.
THEOREM PermitsHold == FlightSpec => []FlightTypeOK
<1>1. FlightAccount => FlightTypeOK
  <2> SUFFICES ASSUME FlightAccount PROVE FlightTypeOK
    OBVIOUS
  <2>1. permits \in 0..MaxReranks /\ permits + Cardinality(Past) = MaxReranks
    <3>1. Cardinality(Past) \in Nat /\ permits \in Nat
      BY FS_CardinalityType DEF FlightAccount, PermitsAddUp
    <3> QED BY <3>1, FlightConstants DEF FlightAccount, PermitsAddUp
  <2> QED BY <2>1 DEF FlightAccount, FieldsTyped, LockInLine, Has, Past, FlightTypeOK
<1>2. ShareInv => FlightTypeOK
  BY <1>1 DEF ShareInv
<1> QED BY ShareInit, ShareStep, <1>2, PTL DEF FlightSpec

\* What is seen of a search that waits, and of one that does not.
LEMMA SeenOf ==
    ASSUME ShareInv, NEW c \in Callers
    PROVE  /\ Waiting(c) => /\ wants[c] = key[c] /\ wants[c] \in Keys /\ wants[c] # None
                            /\ outcome[c] = passes[task[c]].st
                            /\ task[c] \in DOMAIN passes /\ passes[task[c]].key = key[c]
           /\ ~Waiting(c) => wants[c] = None /\ outcome[c] = "none"
<1>1. CASE Waiting(c)
  <2>1. key[c] \in Keys
    BY <1>1 DEF ShareInv, FlightAccount, FieldsTyped, Waiting
  <2> QED BY <1>1, <2>1, FlightConstants DEF ShareInv, Aboard, wants, outcome
<1>2. CASE ~Waiting(c)
  BY <1>2 DEF wants, outcome
<1> QED BY <1>1, <1>2

\* What is seen of a key: no end of a pass while one runs or none is named.
LEMMA JustOf ==
    ASSUME ShareInv, NEW k \in Keys
    PROVE  /\ inflight[k] = NoTask \/ inflight[k] \in Underway => just[k] = "none"
           /\ inflight[k] \in due => /\ just[k] = passes[inflight[k]].st
                                     /\ just[k] \in {"done", "failed"}
           /\ inflight[k] \in DOMAIN passes \ Underway => inflight[k] \in due
<1>1. \A t \in due : t \in DOMAIN passes /\ t \notin Underway
  BY DEF ShareInv, FlightInv, Ended
<1>2. \A t \in DOMAIN passes : t # NoTask
  BY DEF ShareInv, FlightInv, FlightTyped, NoTask
<1>3. \A t \in due : passes[t].st \in {"done", "failed"}
  BY <1>1, PassFields DEF Underway, ShareInv, FlightInv, FlightTyped
<1>4. inflight[k] # NoTask => inflight[k] \in Named
  BY DEF ShareInv, FlightInv, FlightIsNamed
<1> QED BY <1>1, <1>2, <1>3, <1>4 DEF just, Named

\* The instance counts as this module does.
LEMMA SameCount == \A S : Sharing!Cardinality(S) = Cardinality(S)
  BY Zenon DEF Sharing!Cardinality, Cardinality

\* While a search has its permit and no seat, or the semaphore has one left, not
\* every seat is taken.
LEMMA SeatFree ==
    ASSUME ShareInv, NEW c \in Callers,
           \/ pc[c] = "permit" /\ permits > 0
           \/ pc[c] = "queued"
    PROVE  Cardinality(Sharing!Seated) < MaxReranks
<1> DEFINE S == {d \in Callers : wants[d] # None}
<1>1. Sharing!Seated = S
  BY DEF Sharing!Seated
<1>2. S = {d \in Callers : Waiting(d)}
  BY SeenOf
<1> HIDE DEF S
<1>3. /\ permits \in Nat /\ IsFiniteSet(Past) /\ Cardinality(Past) \in Nat
      /\ permits + Cardinality(Past) = MaxReranks
  BY FS_CardinalityType DEF ShareInv, FlightAccount, PermitsAddUp
<1>4. S \subseteq Past
  BY <1>2 DEF Waiting, Past
<1>5. Cardinality(S) \in Nat /\ Cardinality(S) <= Cardinality(Past)
  <2>1. IsFiniteSet(S) /\ Cardinality(S) <= Cardinality(Past)
    BY <1>3, <1>4, FS_Subset
  <2> QED BY <2>1, FS_CardinalityType
<1>6. CASE permits > 0
  BY <1>1, <1>3, <1>5, <1>6
<1>7. CASE pc[c] = "queued"
  <2>1. c \in Past /\ c \notin S
    BY <1>2, <1>7 DEF Waiting, Past
  <2>2. Cardinality(S) # Cardinality(Past)
    BY <1>3, <1>4, <2>1, FS_Subset
  <2> QED BY <1>1, <1>3, <1>5, <2>2
<1> QED BY <1>6, <1>7

\* A search that gets the lock boards the work of its key: it begins it, or
\* shares what is underway.
LEMMA BoardsWork ==
    ASSUME ShareInv, NEW c \in Callers, pc[c] \in {"permit", "queued"},
           pc[c] = "permit" => permits > 0,
           Join(c, key[c]) \/ Start(c, key[c]), UNCHANGED <<key, due, tier3>>, Untold
    PROVE  Sharing!Launch(c, key[c]) \/ Sharing!Join(c, key[c])
<1> DEFINE k == key[c]
<1>1. PICK at \in {"joined", "started"}, n \in DOMAIN passes' :
              /\ pc' = [pc EXCEPT ![c] = at] /\ task' = [task EXCEPT ![c] = n]
              /\ passes'[n].key = key[c] /\ passes'[n].st = "running"
              /\ \A t \in DOMAIN passes : t \in DOMAIN passes' /\ passes'[t] = passes[t]
              /\ \/ n \in Underway /\ UNCHANGED passes
                 \/ inflight[key[c]] = NoTask /\ n \notin DOMAIN passes /\ DOMAIN passes' = DOMAIN passes \cup {n}
  BY Boards
<1>2. k \in Keys /\ FlightTyped /\ FlightIsNamed /\ Ended
  BY DEF ShareInv, FlightInv, FlightTyped
<1>3. /\ pc \in [Callers -> {"idle", "permit", "queued", "joined", "started"}]
      /\ task \in [Callers -> 0..MaxTasks]
  BY DEF ShareInv, FlightAccount, FieldsTyped
<1>4. ~Waiting(c) /\ Waiting(c)' /\ task'[c] = n
  BY <1>1, <1>3 DEF Waiting
<1>5. ASSUME NEW d \in Callers, d # c
      PROVE  /\ Waiting(d)' <=> Waiting(d)
             /\ wants'[d] = wants[d] /\ outcome'[d] = outcome[d]
  <2>1. (Waiting(d)' <=> Waiting(d)) /\ task'[d] = task[d] /\ key'[d] = key[d]
    BY <1>1, <1>3, <1>5 DEF Waiting
  <2>2. Waiting(d) => passes'[task[d]] = passes[task[d]]
    BY <1>1, SeenOf
  <2> QED BY <2>1, <2>2 DEF wants, outcome
<1>6. /\ wants[c] = None /\ wants'[c] = k /\ outcome'[c] = "running"
      /\ wants' = [wants EXCEPT ![c] = k] /\ outcome' = [outcome EXCEPT ![c] = "running"]
  <2>1. wants[c] = None
    BY <1>4, SeenOf
  <2>2. wants'[c] = k /\ outcome'[c] = "running"
    BY <1>1, <1>4 DEF wants, outcome
  <2>3. /\ DOMAIN wants = Callers /\ DOMAIN wants' = Callers
        /\ DOMAIN outcome = Callers /\ DOMAIN outcome' = Callers
    BY DEF wants, outcome
  <2>4. wants' = [d \in Callers |-> wants'[d]] /\ outcome' = [d \in Callers |-> outcome'[d]]
    BY DEF wants, outcome
  <2> QED BY <1>5, <2>1, <2>2, <2>3, <2>4
<1>7. Sharing!Board(c, k)
  <2>1. Sharing!Cardinality(Sharing!Seated) < MaxReranks
    BY SeatFree, SameCount
  <2>2. UNCHANGED just
    <3>1. ASSUME NEW l \in Keys PROVE just'[l] = just[l]
      <4>1. CASE UNCHANGED inflight
        <5>1. inflight[l] \in due => passes'[inflight[l]] = passes[inflight[l]]
          BY <1>1, <1>2 DEF Ended
        <5> QED BY <4>1, <5>1 DEF just
      <4>2. CASE Start(c, k)
        <5>1. /\ inflight' = [inflight EXCEPT ![k] = Len(passes) + 1] /\ inflight[k] = NoTask
              /\ Len(passes) + 1 \notin DOMAIN passes
          BY <1>2, <4>2 DEF Start, Launch, FlightTyped
        <5>2. inflight \in [Keys -> Nat]
          BY <1>2 DEF FlightTyped
        <5>3. CASE l = k
          <6>1. just[l] = "none"
            BY <5>1, <5>3, JustOf
          <6>2. inflight'[l] \notin due
            BY <1>2, <5>1, <5>2, <5>3 DEF Ended
          <6> QED BY <6>1, <6>2 DEF just
        <5>4. CASE l # k
          <6>1. inflight'[l] = inflight[l]
            BY <5>1, <5>2, <5>4
          <6>2. inflight[l] \in due => passes'[inflight[l]] = passes[inflight[l]]
            BY <1>1, <1>2 DEF Ended
          <6> QED BY <6>1, <6>2 DEF just
        <5> QED BY <5>3, <5>4
      <4> QED BY <4>1, <4>2 DEF Join
    <3>2. just = [l \in Keys |-> just[l]] /\ just' = [l \in Keys |-> just'[l]]
      BY DEF just
    <3> QED BY <3>1, <3>2
  <2>3. Sharing!Untold
    BY DEF Untold, NoNews, Sharing!Untold, Sharing!NoNews
  <2> QED BY <1>6, <2>1, <2>2, <2>3 DEF Sharing!Board
<1>8. CASE n \in Underway /\ UNCHANGED passes
  <2>1. UNCHANGED underway
    BY <1>8 DEF underway, Underway
  <2>2. k \in underway
    BY <1>1, <1>8 DEF underway
  <2> QED BY <1>7, <2>1, <2>2 DEF Sharing!Join
<1>9. CASE inflight[k] = NoTask /\ n \notin DOMAIN passes /\ DOMAIN passes' = DOMAIN passes \cup {n}
  <2>1. Underway' = Underway \cup {n}
    BY <1>1, <1>9 DEF Underway
  <2>2. \A t \in Underway : t \in DOMAIN passes /\ passes'[t] = passes[t]
    BY <1>1 DEF Underway
  <2>3. underway' = underway \cup {k}
    BY <1>1, <2>1, <2>2 DEF underway
  <2>4. k \notin underway
    <3> SUFFICES ASSUME NEW t \in Underway, passes[t].key = k PROVE FALSE
      BY DEF underway
    <3>1. inflight[k] = t
      BY <1>2 DEF FlightIsNamed, Named
    <3>2. t # NoTask
      BY <1>2, <2>2 DEF NoTask, FlightTyped
    <3> QED BY <1>9, <3>1, <3>2
  <2>5. just[k] = "none"
    BY <1>2, <1>9, JustOf
  <2> QED BY <1>7, <2>3, <2>4, <2>5 DEF Sharing!Launch
<1> QED BY <1>1, <1>8, <1>9

\* A pass that ends lands all who wait for it, and nobody else.
LEMMA Lands ==
    ASSUME ShareInv, NEW t \in Tasks, Finish(t)
    PROVE  \E k \in Keys, end \in {"done", "failed"} : Sharing!Land(k, end)
<1>1. PICK end \in {"done", "failed"} : passes' = [passes EXCEPT ![t].st = end]
  BY DEF Finish
<1>2. /\ t \in Underway /\ due' = due \cup {t} /\ Untold
      /\ UNCHANGED <<pc, key, task, inflight, tier3>>
  BY DEF Finish
<1>3. FlightTyped /\ FlightIsNamed /\ Ended
  BY DEF ShareInv, FlightInv
<1> DEFINE k == passes[t].key
<1>4. /\ t \in DOMAIN passes /\ k \in Keys /\ passes[t].st = "running"
      /\ inflight[k] = t
  BY <1>2, <1>3, PassAt DEF Underway, Named, FlightIsNamed
<1>5. /\ DOMAIN passes' = DOMAIN passes
      /\ passes'[t].key = k /\ passes'[t].st = end
      /\ \A u \in DOMAIN passes : u # t => passes'[u] = passes[u]
  BY <1>1, <1>2, <1>3, PassEnds
<1>6. Underway' = Underway \ {t}
  BY <1>1, <1>2, <1>3, PassEnds
<1>7. ASSUME NEW u \in Underway, passes[u].key = k PROVE u = t
  BY <1>2, <1>3, <1>7 DEF FlightIsNamed, Named
<1>13. just' = [just EXCEPT ![k] = end]
  <2>1. ASSUME NEW l \in Keys PROVE just'[l] = IF l = k THEN end ELSE just[l]
    <3>1. CASE l = k
      BY <1>2, <1>4, <1>5, <3>1 DEF just
    <3>2. CASE l # k
      <4>1. inflight[l] # t
        BY <1>3, <1>4, <3>2 DEF FlightIsNamed, FlightTyped, NoTask
      <4>2. inflight[l] \in due => passes'[inflight[l]] = passes[inflight[l]]
        BY <1>3, <1>5, <4>1 DEF Ended
      <4> QED BY <1>2, <3>2, <4>1, <4>2 DEF just
    <3> QED BY <3>1, <3>2
  <2>2. just = [l \in Keys |-> just[l]] /\ just' = [l \in Keys |-> just'[l]]
    BY DEF just
  <2> QED BY <2>1, <2>2
<1>14. Sharing!Untold
  BY <1>2 DEF Untold, NoNews, Sharing!Untold, Sharing!NoNews
<1> HIDE DEF k
<1>8. underway' = underway \ {k} /\ k \in underway
  <2>1. \A u \in Underway : u \in DOMAIN passes
    BY DEF Underway
  <2>2. underway' = {passes'[u].key : u \in Underway \ {t}}
    BY <1>6 DEF underway
  <2>3. {passes'[u].key : u \in Underway \ {t}} = {passes[u].key : u \in Underway \ {t}}
    BY <1>5, <2>1
  <2>4. k \in underway
    BY <1>2 DEF underway, k
  <2>5. {passes[u].key : u \in Underway \ {t}} = underway \ {k}
    BY <1>2, <1>7 DEF underway, k
  <2> QED BY <2>2, <2>3, <2>4, <2>5
<1>9. UNCHANGED wants
  BY <1>2 DEF wants, Waiting
<1>10. ASSUME NEW c \in Callers
       PROVE  outcome'[c] = IF wants[c] = k /\ outcome[c] = "running" THEN end ELSE outcome[c]
  <2>1. Waiting(c)' <=> Waiting(c)
    BY <1>2 DEF Waiting
  <2>2. CASE ~Waiting(c)
    BY <2>1, <2>2, SeenOf DEF outcome
  <2>3. CASE Waiting(c)
    <3>1. /\ wants[c] = key[c] /\ outcome[c] = passes[task[c]].st
          /\ task[c] \in DOMAIN passes /\ passes[task[c]].key = key[c]
      BY <2>3, SeenOf
    <3>2. outcome'[c] = passes'[task[c]].st
      BY <1>2, <2>1, <2>3 DEF outcome
    <3>3. CASE task[c] = t
      BY <1>4, <1>5, <3>1, <3>2, <3>3 DEF k
    <3>4. CASE task[c] # t
      <4>1. ~(wants[c] = k /\ outcome[c] = "running")
        BY <1>7, <3>1, <3>4 DEF Underway
      <4> QED BY <1>5, <3>1, <3>2, <3>4, <4>1
    <3> QED BY <3>3, <3>4
  <2> QED BY <2>2, <2>3
<1>11. outcome' = [c \in Callers |-> IF wants[c] = k /\ outcome[c] = "running" THEN end ELSE outcome[c]]
  <2>1. outcome' = [c \in Callers |-> outcome'[c]]
    BY DEF outcome
  <2> QED BY <1>10, <2>1
<1>12. Sharing!Land(k, end)
  BY <1>2, <1>8, <1>9, <1>11, <1>13, <1>14 DEF Sharing!Land
<1> QED BY <1>4, <1>12 DEF k

\* When the done callbacks of a pass have run, its moment has passed.
LEMMA Clears ==
    ASSUME ShareInv, NEW t \in Tasks, Evict(t)
    PROVE  \E k \in Keys : Sharing!Clear(k)
<1> DEFINE k == passes[t].key
<1>1. /\ t \in due /\ due' = due \ {t} /\ Untold
      /\ inflight' = [inflight EXCEPT ![k] = NoTask]
      /\ UNCHANGED <<pc, key, task, passes, tier3>>
  BY DEF Evict
<1>2. FlightTyped /\ FlightIsNamed /\ Ended /\ inflight \in [Keys -> Nat]
  BY DEF ShareInv, FlightInv, FlightTyped
<1>3. k \in Keys /\ inflight[k] = t /\ t \in DOMAIN passes
  BY <1>1, <1>2, PassAt DEF Named, FlightIsNamed
<1>4. NoTask \notin due
  BY <1>2 DEF Ended, NoTask, FlightTyped
<1>5. just[k] # "none"
  BY <1>1, <1>3, JustOf
<1>6. just' = [just EXCEPT ![k] = "none"]
  <2>1. ASSUME NEW l \in Keys PROVE just'[l] = IF l = k THEN "none" ELSE just[l]
    <3>1. CASE l = k
      BY <1>1, <1>2, <1>3, <1>4, <3>1 DEF just
    <3>2. CASE l # k
      <4>1. inflight'[l] = inflight[l]
        BY <1>1, <1>2, <3>2
      <4>2. inflight[l] # t
        BY <1>2, <1>3, <3>2 DEF FlightIsNamed, FlightTyped, NoTask
      <4> QED BY <1>1, <3>2, <4>1, <4>2 DEF just
    <3> QED BY <3>1, <3>2
  <2>2. just = [l \in Keys |-> just[l]] /\ just' = [l \in Keys |-> just'[l]]
    BY DEF just
  <2> QED BY <2>1, <2>2
<1>7. UNCHANGED <<underway, wants, outcome>>
  BY <1>1 DEF underway, Underway, wants, outcome, Waiting
<1>8. Sharing!Clear(k)
  BY <1>1, <1>5, <1>6, <1>7
     DEF Sharing!Clear, Untold, NoNews, Sharing!Untold, Sharing!NoNews
<1> QED BY <1>3, <1>8

\* A search that waited and goes back up its stack rises from its seat.
LEMMA Rises ==
    ASSUME ShareInv, NEW c \in Callers, Waiting(c), Unwind(c),
           UNCHANGED <<passes, inflight, due>>
    PROVE  Sharing!Rise(c)
<1>1. /\ pc' = [pc EXCEPT ![c] = "idle"] /\ key' = [key EXCEPT ![c] = None]
      /\ task' = [task EXCEPT ![c] = NoTask]
  BY DEF Unwind
<1>2. /\ pc \in [Callers -> {"idle", "permit", "queued", "joined", "started"}]
      /\ key \in [Callers -> Keys \cup {None}] /\ task \in [Callers -> 0..MaxTasks]
  BY DEF ShareInv, FlightAccount, FieldsTyped
<1>3. ~Waiting(c)' /\ wants[c] # None
  BY <1>1, <1>2, SeenOf DEF Waiting
<1>4. ASSUME NEW d \in Callers
      PROVE  /\ wants'[d] = IF d = c THEN None ELSE wants[d]
             /\ outcome'[d] = IF d = c THEN "none" ELSE outcome[d]
  <2>1. CASE d = c
    BY <1>3, <2>1 DEF wants, outcome
  <2>2. CASE d # c
    BY <1>1, <1>2, <2>2 DEF wants, outcome, Waiting
  <2> QED BY <2>1, <2>2
<1>5. wants' = [wants EXCEPT ![c] = None] /\ outcome' = [outcome EXCEPT ![c] = "none"]
  <2>1. wants' = [d \in Callers |-> wants'[d]] /\ outcome' = [d \in Callers |-> outcome'[d]]
    BY DEF wants, outcome
  <2>2. DOMAIN wants = Callers /\ DOMAIN outcome = Callers
    BY DEF wants, outcome
  <2> QED BY <1>4, <2>1, <2>2
<1>6. UNCHANGED <<underway, just>>
  BY DEF underway, Underway, just
<1> QED BY <1>3, <1>5, <1>6 DEF Sharing!Rise

LEMMA InitSharing == FlightInit => Sharing!Init
<1> SUFFICES ASSUME FlightInit PROVE Sharing!Init
  OBVIOUS
<1>1. Underway = {} /\ tier3 = {} /\ due = {} /\ \A c \in Callers : ~Waiting(c)
  BY DEF FlightInit, Underway, Waiting
<1>2. underway = {} /\ wants = [c \in Callers |-> None] /\ outcome = [c \in Callers |-> "none"]
  BY <1>1 DEF underway, wants, outcome
<1>3. just = [k \in Keys |-> "none"]
  BY <1>1 DEF just
<1>4. told = Sharing!NoNews
  BY DEF FlightInit, NoNews, Sharing!NoNews
<1> QED BY <1>1, <1>2, <1>3, <1>4 DEF Sharing!Init

\* A step of a search that neither waits before it nor after, and leaves the
\* passes alone, is none that is seen.
LEMMA Unseen ==
    ASSUME NEW c \in Callers, ~Waiting(c), ~Waiting(c)',
           UNCHANGED <<passes, inflight, due>>,
           \A d \in Callers : d # c => pc'[d] = pc[d] /\ key'[d] = key[d] /\ task'[d] = task[d]
    PROVE  UNCHANGED <<underway, just, wants, outcome>>
<1>1. UNCHANGED <<underway, just>>
  BY DEF underway, Underway, just
<1>2. ASSUME NEW d \in Callers PROVE wants'[d] = wants[d] /\ outcome'[d] = outcome[d]
  BY DEF wants, outcome, Waiting
<1>3. /\ wants' = [d \in Callers |-> wants'[d]] /\ outcome' = [d \in Callers |-> outcome'[d]]
      /\ wants = [d \in Callers |-> wants[d]] /\ outcome = [d \in Callers |-> outcome[d]]
  BY DEF wants, outcome
<1> QED BY <1>1, <1>2, <1>3

\* A search that finds the pass of its key over, its callbacks due, hears of it
\* what has ended this moment.
LEMMA HearsLate ==
    ASSUME ShareInv, NEW c \in Callers, Late(c)
    PROVE  Sharing!Late(c, key[c]) /\ key[c] \in Keys
<1> DEFINE k == key[c]
           t == inflight[key[c]]
<1>1. /\ (pc[c] = "permit" /\ permits > 0) \/ pc[c] = "queued"
      /\ t \in DOMAIN passes \ Underway /\ Unwind(c)
      /\ told' = [NoNews EXCEPT ![c] = passes[t].st]
      /\ tier3' = IF passes[t].st = "done" THEN tier3 \cup {k} ELSE tier3
      /\ UNCHANGED <<inflight, passes, due>>
  BY DEF Late, Return
<1>2. /\ k \in Keys
      /\ pc \in [Callers -> {"idle", "permit", "queued", "joined", "started"}]
      /\ key \in [Callers -> Keys \cup {None}] /\ task \in [Callers -> 0..MaxTasks]
  BY <1>1 DEF ShareInv, FlightAccount, FieldsTyped
<1>3. ~Waiting(c) /\ wants[c] = None
  BY <1>1, SeenOf DEF Waiting
<1>4. Sharing!Cardinality(Sharing!Seated) < MaxReranks
  BY <1>1, SeatFree, SameCount
<1>5. just[k] = passes[t].st /\ just[k] # "none"
  BY <1>1, <1>2, JustOf
<1>6. UNCHANGED <<underway, just, wants, outcome>>
  <2>1. /\ pc' = [pc EXCEPT ![c] = "idle"] /\ key' = [key EXCEPT ![c] = None]
        /\ task' = [task EXCEPT ![c] = NoTask]
    BY <1>1 DEF Unwind
  <2>2. ~Waiting(c)'
    BY <1>2, <2>1 DEF Waiting
  <2> QED BY <1>1, <1>2, <1>3, <2>1, <2>2, Unseen
<1>7. Sharing!Hear(c, k, just[k])
  BY <1>1, <1>5 DEF Sharing!Hear, NoNews, Sharing!NoNews
<1> QED BY <1>2, <1>3, <1>4, <1>5, <1>6, <1>7 DEF Sharing!Late

\* Every step of the searches, the passes and the cache is one of the shared
\* work, or one that tells nobody anything.
LEMMA StepSharing == ShareInv /\ [FlightNext]_flightVars => [Sharing!Next]_(Sharing!vars)
<1> SUFFICES ASSUME ShareInv, [FlightNext]_flightVars PROVE [Sharing!Next]_(Sharing!vars)
  OBVIOUS
<1>1. /\ pc \in [Callers -> {"idle", "permit", "queued", "joined", "started"}]
      /\ key \in [Callers -> Keys \cup {None}] /\ task \in [Callers -> 0..MaxTasks]
  BY DEF ShareInv, FlightAccount, FieldsTyped
<1>2. \A c \in Callers : pc[c] # "idle" => key[c] \in Keys
  BY DEF ShareInv, FlightAccount, FieldsTyped
<1>3. Untold => Sharing!Untold
  BY DEF Untold, NoNews, Sharing!Untold, Sharing!NoNews
<1>4. ASSUME NEW c \in Callers, NEW k \in Keys, Ask(c, k) PROVE Sharing!Next
  <2>1. /\ pc[c] = "idle" /\ pc' = [pc EXCEPT ![c] = "permit"] /\ key' = [key EXCEPT ![c] = k]
        /\ Untold /\ UNCHANGED <<task, inflight, passes, due, tier3>>
    BY <1>4 DEF Ask
  <2>2. ~Waiting(c) /\ ~Waiting(c)'
    BY <1>1, <2>1 DEF Waiting
  <2>3. UNCHANGED <<underway, just, wants, outcome>>
    BY <1>1, <2>1, <2>2, Unseen
  <2>4. Sharing!Hush
    BY <1>3, <2>1, <2>3 DEF Sharing!Hush
  <2> QED BY <2>4 DEF Sharing!Next
<1>5. ASSUME NEW c \in Callers, Acquire(c) PROVE Sharing!Next
  <2>1. pc[c] = "permit" /\ permits > 0 /\ UNCHANGED <<key, due, tier3>> /\ Untold
    BY <1>5 DEF Acquire
  <2>2. CASE Join(c, key[c]) \/ Start(c, key[c])
    <3>1. Sharing!Launch(c, key[c]) \/ Sharing!Join(c, key[c])
      BY <2>1, <2>2, BoardsWork
    <3> QED BY <1>2, <2>1, <3>1 DEF Sharing!Next
  <2>3. CASE pc' = [pc EXCEPT ![c] = "queued"] /\ UNCHANGED <<task, inflight, passes>>
    <3>1. ~Waiting(c) /\ ~Waiting(c)'
      BY <1>1, <2>1, <2>3 DEF Waiting
    <3>2. UNCHANGED <<underway, just, wants, outcome>>
      BY <1>1, <2>1, <2>3, <3>1, Unseen
    <3>3. Sharing!Hush
      BY <1>3, <2>1, <3>2 DEF Sharing!Hush
    <3> QED BY <3>3 DEF Sharing!Next
  <2> QED BY <1>5, <2>2, <2>3 DEF Acquire
<1>6. ASSUME NEW c \in Callers, Resume(c) PROVE Sharing!Next
  <2>1. /\ pc[c] = "queued" /\ UNCHANGED <<key, due, tier3>> /\ Untold
        /\ Join(c, key[c]) \/ Start(c, key[c])
    BY <1>6 DEF Resume
  <2>2. Sharing!Launch(c, key[c]) \/ Sharing!Join(c, key[c])
    BY <2>1, BoardsWork
  <2> QED BY <1>2, <2>1, <2>2 DEF Sharing!Next
<1>7. ASSUME NEW c \in Callers, Answer(c) PROVE Sharing!Next
  <2>1. /\ Waiting(c) /\ task[c] \notin Underway /\ Unwind(c)
        /\ UNCHANGED <<inflight, passes, due>>
        /\ told' = [NoNews EXCEPT ![c] = passes[task[c]].st]
        /\ tier3' = IF passes[task[c]].st = "done" THEN tier3 \cup {key[c]} ELSE tier3
    BY <1>7 DEF Answer, Return, Waiting, Named
  <2>2. /\ wants[c] = key[c] /\ outcome[c] = passes[task[c]].st /\ task[c] \in DOMAIN passes
    BY <2>1, SeenOf
  <2>3. outcome[c] \in {"done", "failed"}
    BY <2>1, <2>2, PassFields DEF ShareInv, FlightInv, FlightTyped, Underway
  <2>4. Sharing!Rise(c)
    BY <2>1, Rises
  <2>5. Sharing!Hear(c, wants[c], outcome[c])
    BY <2>1, <2>2 DEF Sharing!Hear, NoNews, Sharing!NoNews
  <2>6. Sharing!Answer(c)
    BY <2>3, <2>4, <2>5 DEF Sharing!Answer
  <2> QED BY <2>6 DEF Sharing!Next
<1>8. ASSUME NEW c \in Callers, Cancel(c) PROVE Sharing!Next
  <2>1. Unwind(c) /\ Untold /\ UNCHANGED <<inflight, passes, due, tier3>>
    BY <1>8 DEF Cancel
  <2>2. CASE Waiting(c)
    <3>1. Sharing!Rise(c)
      BY <2>1, <2>2, Rises
    <3>2. Sharing!Leave(c)
      BY <1>3, <2>1, <3>1 DEF Sharing!Leave
    <3> QED BY <3>2 DEF Sharing!Next
  <2>3. CASE ~Waiting(c)
    <3>1. /\ pc' = [pc EXCEPT ![c] = "idle"] /\ key' = [key EXCEPT ![c] = None]
          /\ task' = [task EXCEPT ![c] = NoTask]
      BY <2>1 DEF Unwind
    <3>2. ~Waiting(c)'
      BY <1>1, <3>1 DEF Waiting
    <3>3. UNCHANGED <<underway, just, wants, outcome>>
      BY <1>1, <2>1, <2>3, <3>1, <3>2, Unseen
    <3>4. Sharing!Hush
      BY <1>3, <2>1, <3>3 DEF Sharing!Hush
    <3> QED BY <3>4 DEF Sharing!Next
  <2> QED BY <2>2, <2>3
<1>9. ASSUME NEW c \in Callers, Late(c) PROVE Sharing!Next
  BY <1>9, HearsLate DEF Sharing!Next
<1>10. ASSUME NEW t \in Tasks, Finish(t) PROVE Sharing!Next
  BY <1>10, Lands DEF Sharing!Next
<1>11. ASSUME NEW t \in Tasks, Evict(t) PROVE Sharing!Next
  BY <1>11, Clears DEF Sharing!Next
<1>12. ASSUME NEW k \in Keys, Expire(k) PROVE Sharing!Next
  <2>1. tier3' = tier3 \ {k} /\ Untold /\ UNCHANGED <<pc, key, task, inflight, passes, due>>
    BY <1>12 DEF Expire
  <2>2. UNCHANGED <<underway, just, wants, outcome>>
    BY <2>1 DEF underway, Underway, just, wants, outcome, Waiting
  <2>3. Sharing!Forget(k)
    BY <1>3, <2>1, <2>2 DEF Sharing!Forget
  <2> QED BY <2>3 DEF Sharing!Next
<1>13. CASE UNCHANGED flightVars
  <2>1. UNCHANGED <<pc, key, task, inflight, passes, due, tier3, told>>
    BY <1>13 DEF flightVars
  <2>2. UNCHANGED <<underway, just, wants, outcome>>
    BY <2>1 DEF underway, Underway, just, wants, outcome, Waiting
  <2> QED BY <2>1, <2>2 DEF Sharing!vars
<1> QED BY <1>4, <1>5, <1>6, <1>7, <1>8, <1>9, <1>10, <1>11, <1>12, <1>13 DEF FlightNext

\* The rerank phase implements the shared work, for any searches, keys and bounds:
\* behind the permits, the lock and the shielded tasks, work on a key is done once
\* at a time, one outcome is that of all who waited for it, a search is told of a
\* pass that ran while it asked or has ended that moment, and only a pass that
\* went well fills the cache.
THEOREM FlightImplementsSharedWork == FlightSpec => ImplementsSharedWork
<1> USE ShareInit, ShareStep, InitSharing, StepSharing
<1> QED BY PTL DEF FlightSpec, ImplementsSharedWork, Sharing!Spec
===============================================================================
