----------------------------- MODULE RankedLock -----------------------------
(***************************************************************************)
(* The ranked lock of the queue library (rs/agent-queue/src/fsio.rs): an   *)
(* exclusive flock whose waiters are ranked by a companion lock file, the  *)
(* gate.  Lock files are numbered; 0 is the one that is never deleted.  A  *)
(* process keeps the file it opened even when the path is deleted or names *)
(* another file by now.                                                    *)
(***************************************************************************)
EXTENDS Naturals, FiniteSets

CONSTANTS
  Procs,        \* every process that takes one of the locks
  Priority,     \* the processes that wait as priority senders
  Nobody,
  MaxFiles      \* bound: how many lock files are ever created at one path

ASSUME RankedLockAssumption ==
  /\ Priority \subseteq Procs
  /\ Nobody \notin Procs
  /\ MaxFiles \in Nat

Files == 0 .. MaxFiles

VARIABLES
  flock,      \* lock file -> its exclusive holder
  gateX,      \* gate file -> its exclusive holder
  gateS,      \* gate file -> its shared holders, the registered waiters
  pc,         \* process -> where it is
  fd,         \* process -> the lock file and the gate it has open
  deferring   \* process -> "no", "yes", or "expired" after PRIORITY_DEFERENCE

lockVars == <<flock, gateX, gateS, pc, fd, deferring>>

\* Where a process is inside lock_exclusive_ranked.
Waiting == {"ask", "passed", "try", "pause"}

\* Mutant of GateFree: the gate is asked with a shared lock.
GateFreeShared(g) == gateX[g] = Nobody

\* Nothing else holds gate g (flock conflicts are between processes here).
GateFree(g) == gateX[g] = Nobody /\ gateS[g] = {}

Closed == [lock |-> 0, gate |-> 0]

\* The kernel drops every flock of a process that closes its files or dies.
DropAll(p) ==
  /\ fd' = [fd EXCEPT ![p] = Closed]
  /\ flock' = [f \in Files |-> IF flock[f] = p THEN Nobody ELSE flock[f]]
  /\ gateX' = [g \in Files |-> IF gateX[g] = p THEN Nobody ELSE gateX[g]]
  /\ gateS' = [g \in Files |-> gateS[g] \ {p}]

(***************************************************************************)
(* One turn of the loop: register or ask the gate, try the lock, pause.    *)
(***************************************************************************)

\* A priority waiter registers by a shared lock on the gate, unless an
\* ordinary waiter holds it this instant, and takes its turn either way.
Register(p) ==
  /\ pc[p] = "ask" /\ p \in Priority
  /\ gateS' = IF gateX[fd[p].gate] = Nobody
                THEN [gateS EXCEPT ![fd[p].gate] = @ \cup {p}] ELSE gateS
  /\ pc' = [pc EXCEPT ![p] = "try"]
  /\ UNCHANGED <<flock, gateX, fd, deferring>>

\* An ordinary waiter asks the gate by locking it exclusively ...
AskGate(p) ==
  /\ pc[p] = "ask" /\ p \notin Priority
  /\ GateFree(fd[p].gate)
  /\ gateX' = [gateX EXCEPT ![fd[p].gate] = p]
  /\ pc' = [pc EXCEPT ![p] = "passed"]
  /\ UNCHANGED <<flock, gateS, fd, deferring>>

\* ... and releases it at once: its turn.
PassGate(p) ==
  /\ pc[p] = "passed"
  /\ gateX' = [gateX EXCEPT ![fd[p].gate] = Nobody]
  /\ deferring' = [deferring EXCEPT ![p] = "no"]
  /\ pc' = [pc EXCEPT ![p] = "try"]
  /\ UNCHANGED <<flock, gateS, fd>>

\* Mutant of Defer: a stopped priority waiter is deferred to for ever.
DeferForEver(p) ==
  /\ pc[p] = "ask" /\ p \notin Priority
  /\ ~GateFree(fd[p].gate)
  /\ deferring' = [deferring EXCEPT ![p] = IF @ = "no" THEN "yes" ELSE @]
  /\ pc' = [pc EXCEPT ![p] = "pause"]
  /\ UNCHANGED <<flock, gateX, gateS, fd>>

\* The gate is taken: defer, except when it has deferred long enough.
Defer(p) ==
  /\ pc[p] = "ask" /\ p \notin Priority
  /\ ~GateFree(fd[p].gate)
  /\ deferring' = [deferring EXCEPT ![p] = IF @ = "no" THEN "yes" ELSE @]
  /\ pc' = [pc EXCEPT ![p] = IF deferring[p] = "expired" THEN "try" ELSE "pause"]
  /\ UNCHANGED <<flock, gateX, gateS, fd>>

\* PRIORITY_DEFERENCE has passed since the first of an unbroken run of defers.
DeferenceExpires(p) ==
  /\ deferring[p] = "yes"
  /\ deferring' = [deferring EXCEPT ![p] = "expired"]
  /\ UNCHANGED <<flock, gateX, gateS, pc, fd>>

\* Mutant of Take: the registration outlives the wait.
TakeStaysRegistered(p, next) ==
  /\ pc[p] = "try"
  /\ flock[fd[p].lock] = Nobody
  /\ flock' = [flock EXCEPT ![fd[p].lock] = p]
  /\ deferring' = [deferring EXCEPT ![p] = "no"]
  /\ pc' = [pc EXCEPT ![p] = next]
  /\ UNCHANGED <<gateX, gateS, fd>>

\* Mutant of Take: an expired deference is taken for the lock itself.
TakeOnExpiry(p, next) ==
  /\ pc[p] = "try"
  /\ flock[fd[p].lock] = Nobody \/ deferring[p] = "expired"
  /\ flock' = [flock EXCEPT ![fd[p].lock] = p]
  /\ gateS' = [gateS EXCEPT ![fd[p].gate] = @ \ {p}]
  /\ deferring' = [deferring EXCEPT ![p] = "no"]
  /\ pc' = [pc EXCEPT ![p] = next]
  /\ UNCHANGED <<gateX, fd>>

\* The lock was free: take it and drop the registration.
Take(p, next) ==
  /\ pc[p] = "try"
  /\ flock[fd[p].lock] = Nobody
  /\ flock' = [flock EXCEPT ![fd[p].lock] = p]
  /\ gateS' = [gateS EXCEPT ![fd[p].gate] = @ \ {p}]
  /\ deferring' = [deferring EXCEPT ![p] = "no"]
  /\ pc' = [pc EXCEPT ![p] = next]
  /\ UNCHANGED <<gateX, fd>>

\* The lock was taken.
Busy(p) ==
  /\ pc[p] = "try"
  /\ flock[fd[p].lock] # Nobody
  /\ pc' = [pc EXCEPT ![p] = "pause"]
  /\ UNCHANGED <<flock, gateX, gateS, fd, deferring>>

\* waiter.sleep
Sleep(p) ==
  /\ pc[p] = "pause"
  /\ pc' = [pc EXCEPT ![p] = "ask"]
  /\ UNCHANGED <<flock, gateX, gateS, fd, deferring>>

\* The waiter was cancelled (its deadline): it unregisters, and the caller
\* closes the files it has, which drops the locks it already holds.
Cancel(p) ==
  /\ pc[p] = "pause"
  /\ DropAll(p)
  /\ deferring' = [deferring EXCEPT ![p] = "no"]
  /\ pc' = [pc EXCEPT ![p] = "idle"]

\* One step of the loop that neither takes the lock nor gives up.
Loop(p) ==
  Register(p) \/ AskGate(p) \/ PassGate(p) \/ Defer(p) \/ Busy(p) \/ Sleep(p)
=============================================================================
