------------------------------- MODULE LeanRepl -------------------------------
(***************************************************************************)
(* lean_verify (server/handlers/lean_verify.py) over the single Lean REPL  *)
(* subprocess of server/lean_repl.py.  Calls take the process's I/O lock,  *)
(* write one command and read one reply; nothing on the wire says which    *)
(* command a reply answers.  A call may time out, whereupon its handler    *)
(* replaces the process, or be cancelled, whereupon nobody does.  A        *)
(* verdict that elaborates is audited by a second command in the           *)
(* environment the first has made.                                         *)
(***************************************************************************)
EXTENDS Integers, Sequences, FiniteSets

CONSTANTS
    Calls,    \* lean_verify calls, each made once
    Nil,      \* no call
    MaxGen    \* bound: processes ever spawned

ASSUME LeanConstants == Nil \notin Calls /\ MaxGen \in Nat \ {0}

VARIABLES
    repl,     \* resources.lean_repl: its generation, 0 for None
    spawned,  \* how many processes there have been
    process,  \* the state of each
    owner,    \* the call that holds its io_lock
    stdin,    \* commands written and not yet processed
    stdout,   \* replies not yet read
    log,      \* whose command made each of the process's environments
    call,     \* each call: pc, generation captured, command, replies received
    tokens,   \* continuation tokens clients hold
    lost      \* calls that left the wire before their reply, per process

leanVars == <<repl, spawned, process, owner, stdin, stdout, log, call, tokens, lost>>

Gens == 1..MaxGen
\* env 0 asks for a fresh environment; "of" is whose environment the sender
\* takes env to be.
Commands == [by : Calls, stage : 1..2, env : Nat, of : Calls \cup {Nil}]
\* A reply names the environment its command has made.
Replies == [by : Calls, stage : 1..2, env : Nat \ {0}, of : Calls]
CallRecords ==
    [pc : {"new", "queued", "reading", "audit", "timedout", "closing", "done"},
     gen : 0..MaxGen, cmd : Seq(Commands), got : Seq(Replies)]
Tokens == [gen : Gens, env : Nat \ {0}, of : Calls]
NoToken == [gen |-> 0, env |-> 0, of |-> Nil]
Waiters(g) == {c \in Calls : call[c].pc = "queued" /\ call[c].gen = g}

LeanInit ==
    /\ repl \in {0, 1}
    /\ spawned = repl
    /\ process = [g \in Gens |-> IF g = repl THEN "up" ELSE "none"]
    /\ owner = [g \in Gens |-> Nil]
    /\ stdin = [g \in Gens |-> << >>]
    /\ stdout = [g \in Gens |-> << >>]
    /\ log = [g \in Gens |-> << >>]
    /\ call = [c \in Calls |-> [pc |-> "new", gen |-> 0, cmd |-> << >>, got |-> << >>]]
    /\ tokens = {}
    /\ lost = [g \in Gens |-> 0]

-----------------------------------------------------------------------------
(* LeanRepl.query *)

\* What a call that ends with these replies gives its client to continue from.
Minted(g, got) ==
    IF got = << >> THEN {} ELSE {[gen |-> g, env |-> got[1].env, of |-> got[1].by]}

\* With the lock: an exited process is an error, else the command is written.
Send(c, g, cmd) ==
    \/ /\ process[g] = "dead"
       /\ call' = [call EXCEPT ![c].pc = "done", ![c].gen = g]
       /\ tokens' = tokens \cup Minted(g, call[c].got)
       /\ UNCHANGED <<owner, stdin>>
    \/ /\ process[g] # "dead"
       /\ call' = [call EXCEPT ![c] = [@ EXCEPT !.pc = "reading", !.gen = g, !.cmd = << >>]]
       /\ owner' = [owner EXCEPT ![g] = c]
       /\ stdin' = [stdin EXCEPT ![g] = Append(@, cmd)]
       /\ UNCHANGED tokens

\* Mutant: round trips are not serialised.
QueryBarging(c, g, cmd) == Send(c, g, cmd)

\* A free lock nobody waits for is taken at once.
Query(c, g, cmd) ==
    IF owner[g] = Nil /\ Waiters(g) = {} THEN Send(c, g, cmd)
    ELSE /\ call' = [call EXCEPT ![c] = [@ EXCEPT !.pc = "queued", !.gen = g, !.cmd = <<cmd>>]]
         /\ UNCHANGED <<owner, stdin, tokens>>

\* Mutant: a waiter does not wait for the lock.
TurnEarly(c) ==
    /\ call[c].pc = "queued"
    /\ Send(c, call[c].gen, call[c].cmd[1])
    /\ UNCHANGED <<repl, spawned, process, stdout, log, lost>>

\* The lock is handed to a waiter; the order is left open.
Turn(c) ==
    /\ call[c].pc = "queued"
    /\ owner[call[c].gen] = Nil
    /\ Send(c, call[c].gen, call[c].cmd[1])
    /\ UNCHANGED <<repl, spawned, process, stdout, log, lost>>

\* The first reply on the pipe is taken for the call's own.  A first reply that
\* elaborates is audited; else the call returns it, with its token.
Read(c) == LET g == call[c].gen IN
    /\ call[c].pc = "reading"
    /\ stdout[g] # << >>
    /\ owner' = [owner EXCEPT ![g] = Nil]
    /\ stdout' = [stdout EXCEPT ![g] = Tail(@)]
    /\ LET got == Append(call[c].got, Head(stdout[g])) IN
       \/ /\ Len(got) = 1
          /\ call' = [call EXCEPT ![c].pc = "audit", ![c].got = got]
          /\ UNCHANGED tokens
       \/ /\ call' = [call EXCEPT ![c].pc = "done", ![c].got = got]
          /\ tokens' = tokens \cup Minted(g, got)
    /\ UNCHANGED <<repl, spawned, process, stdin, log, lost>>

\* The process has gone and left nothing to read: an error, and no new process.
Eof(c) == LET g == call[c].gen IN
    /\ call[c].pc = "reading"
    /\ process[g] = "dead" /\ stdout[g] = << >>
    /\ owner' = [owner EXCEPT ![g] = Nil]
    /\ call' = [call EXCEPT ![c].pc = "done"]
    /\ tokens' = tokens \cup Minted(g, call[c].got)
    /\ UNCHANGED <<repl, spawned, process, stdin, stdout, log, lost>>

\* No reply in time: the lock is free again, the command still on its way.  Only
\* a process nobody closes runs that long: one being closed is gone within ten
\* seconds, a query has thirty.  One whose closer was cancelled after its
\* SIGTERM may never go.  The audit's handler closes at once; the other may
\* first await its heartbeat task.
TimeOut(c) == LET g == call[c].gen IN
    /\ call[c].pc = "reading"
    /\ process[g] \in {"up", "dying"}
    /\ \A d \in Calls : call[d].gen = g => call[d].pc \notin {"timedout", "closing"}
    /\ owner' = [owner EXCEPT ![g] = Nil]
    /\ lost' = [lost EXCEPT ![g] = @ + 1]
    /\ \/ /\ call[c].got = << >>
          /\ call' = [call EXCEPT ![c].pc = "timedout"]
          /\ UNCHANGED process
       \/ /\ call[c].got # << >>
          /\ call' = [call EXCEPT ![c].pc = "closing"]
          /\ process' = [process EXCEPT ![g] = "dying"]
    /\ UNCHANGED <<repl, spawned, stdin, stdout, log, tokens>>

-----------------------------------------------------------------------------
(* handle_lean_verify *)

\* Mutant: the generation in a token is not looked at.
ResumesAny(t) == t # NoToken

\* _decode_token: only a token of the present process is good.
Resumes(t) == t.gen = repl

\* A call, perhaps with a token.  A server without a process says so; a token
\* of another process is refused before anything is sent.
Verify(c) ==
    /\ call[c].pc = "new"
    /\ \E t \in tokens \cup {NoToken} :
         IF repl # 0 /\ (t = NoToken \/ Resumes(t))
         THEN Query(c, repl, [by |-> c, stage |-> 1, env |-> t.env, of |-> t.of])
         ELSE /\ call' = [call EXCEPT ![c].pc = "done"]
              /\ UNCHANGED <<owner, stdin, tokens>>
    /\ UNCHANGED <<repl, spawned, process, stdout, log, lost>>

\* _attach_axiom_audit: the second command, to the process of the first and in
\* the environment its reply names.
Audit(c) == LET r == call[c].got[1] IN
    /\ call[c].pc = "audit"
    /\ Query(c, call[c].gen, [by |-> c, stage |-> 2, env |-> r.env, of |-> r.by])
    /\ UNCHANGED <<repl, spawned, process, stdout, log, lost>>

\* _respawn_after_timeout calls close, which terminates the process.
Terminate(c) == LET g == call[c].gen IN
    /\ call[c].pc = "timedout"
    /\ call' = [call EXCEPT ![c].pc = "closing"]
    /\ process' = [process EXCEPT ![g] = IF @ = "up" THEN "dying" ELSE @]
    /\ UNCHANGED <<repl, spawned, owner, stdin, stdout, log, tokens, lost>>

\* Mutant: the new process is spawned before the old one is reaped.
RespawnEarly(c) ==
    /\ call[c].pc = "closing"
    /\ spawned < MaxGen
    /\ repl' = spawned + 1
    /\ spawned' = spawned + 1
    /\ process' = [process EXCEPT ![spawned + 1] = "up"]
    /\ call' = [call EXCEPT ![c].pc = "done"]
    /\ UNCHANGED <<owner, stdin, stdout, log, tokens, lost>>

\* The process has ended and another one is spawned, or none if that fails.  A
\* closer that gives up the reaping after its SIGKILL leaves no more than a
\* handle: no process ignores that signal.  The tokens of an audited reply are
\* withdrawn.
Respawn(c) ==
    /\ call[c].pc = "closing"
    /\ process[call[c].gen] = "dead"
    /\ call' = [call EXCEPT ![c].pc = "done"]
    /\ \/ /\ spawned < MaxGen
          /\ repl' = spawned + 1
          /\ spawned' = spawned + 1
          /\ process' = [process EXCEPT ![spawned + 1] = "up"]
       \/ /\ repl' = 0
          /\ UNCHANGED <<spawned, process>>
    /\ UNCHANGED <<owner, stdin, stdout, log, tokens, lost>>

\* The client cancels: the call leaves whatever it waits for, the lock with it,
\* and nobody replaces the process.  Awaiting the heartbeat it cannot be
\* cancelled.
Abandon(c) == LET g == call[c].gen IN
    /\ call[c].pc \in {"queued", "reading", "closing"}
    /\ call' = [call EXCEPT ![c].pc = "done"]
    /\ IF call[c].pc = "reading"
       THEN owner' = [owner EXCEPT ![g] = Nil] /\ lost' = [lost EXCEPT ![g] = @ + 1]
       ELSE UNCHANGED <<owner, lost>>
    /\ UNCHANGED <<repl, spawned, process, stdin, stdout, log, tokens>>

-----------------------------------------------------------------------------
(* The subprocess *)

\* The REPL runs a command and records the environment it makes.
Reply(g) == LET cmd == Head(stdin[g]) IN
    /\ process[g] \in {"up", "dying"}
    /\ stdin[g] # << >>
    /\ stdin' = [stdin EXCEPT ![g] = Tail(@)]
    /\ log' = [log EXCEPT ![g] = Append(@, cmd.by)]
    /\ stdout' = [stdout EXCEPT ![g] =
         Append(@, [cmd EXCEPT !.env = Len(log[g]) + 1, !.of = cmd.by])]
    /\ UNCHANGED <<repl, spawned, process, owner, call, tokens, lost>>

\* It exits, killed or of itself; what it has written stays in the pipe.
Exit(g) ==
    /\ process[g] \in {"up", "dying"}
    /\ process' = [process EXCEPT ![g] = "dead"]
    /\ stdin' = [stdin EXCEPT ![g] = << >>]
    /\ UNCHANGED <<repl, spawned, owner, stdout, log, call, tokens, lost>>

LeanNext ==
    \/ \E c \in Calls :
         \/ Verify(c) \/ Turn(c) \/ Read(c) \/ Eof(c) \/ TimeOut(c)
         \/ Audit(c) \/ Terminate(c) \/ Respawn(c) \/ Abandon(c)
    \/ \E g \in Gens : Reply(g) \/ Exit(g)

LeanSpec == LeanInit /\ [][LeanNext]_leanVars

-----------------------------------------------------------------------------
(* Properties *)

\* Types.
LeanTypeOK ==
    /\ repl \in 0..MaxGen
    /\ spawned \in 0..MaxGen
    /\ process \in [Gens -> {"none", "up", "dying", "dead"}]
    /\ owner \in [Gens -> Calls \cup {Nil}]
    /\ stdin \in [Gens -> Seq(Commands)]
    /\ stdout \in [Gens -> Seq(Replies)]
    /\ log \in [Gens -> Seq(Calls)]
    /\ call \in [Calls -> CallRecords]
    /\ tokens \subseteq Tokens
    /\ lost \in [Gens -> Nat]

\* On a process that runs there is one command or reply for the call that holds
\* the lock and one for each call that left before its reply: the replies slip
\* by as many calls as were lost and never catch up.
WireAccounted == \A g \in Gens : process[g] \in {"up", "dying"} =>
    Len(stdin[g]) + Len(stdout[g]) = lost[g] + (IF owner[g] = Nil THEN 0 ELSE 1)

\* What a call has got answers its own commands, in order.
Own(c) == \A i \in DOMAIN call[c].got :
    call[c].got[i].by = c /\ call[c].got[i].stage = i

\* While no call has left a process early, concurrent calls cannot get each
\* other's verdicts from it.
OwnUntilLost == \A c \in Calls :
    call[c].gen \in Gens => (lost[call[c].gen] = 0 => Own(c))

\* A call never gets another call's reply, whichever call left early: one that
\* timed out and has yet to replace the process, or one that was cancelled
\* (the purpose of the respawn).
OwnReply == \A c \in Calls : Own(c)

\* A command that continues from an environment finds the one its sender means:
\* numbers that begin anew with each process never mislead, whether they came
\* back in a client's token or went from a verdict to its audit.
EnvBinds == \A g \in Gens : \A i \in DOMAIN stdin[g] : LET cmd == stdin[g][i] IN
    cmd.env # 0 => cmd.env \in DOMAIN log[g] /\ log[g][cmd.env] = cmd.of

\* No process is left behind: one that runs is the one calls are sent to.
LiveIsCurrent == \A g \in Gens : process[g] \in {"up", "dying"} => g = repl
=============================================================================
