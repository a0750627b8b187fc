--------------------------- MODULE LifecycleLock ---------------------------
(***************************************************************************)
(* The lifecycle lock of one agent while its registry moves from layout 1  *)
(* to layout 2 (rs/agentctl/src/subagents.rs lock_with_runtime,            *)
(* rs/agentctl/src/registry_layout.rs, rs/agent-queue/src/registry.rs).    *)
(*                                                                         *)
(* New builds lock the agent where it lives (layout 1: both locks), look   *)
(* again, and start over when it moved.  A migration holds both locks,     *)
(* renames the directory and deletes the layout-1 lock files; it may stop  *)
(* at any step.  Builds older than layout 2 know only the layout-1 lock.   *)
(* File 0 is locks/<name>.lock (and its rank lock); files 1 and up are the *)
(* layout-1 lock files, in the order of their creation.                    *)
(***************************************************************************)
EXTENDS RankedLock

CONSTANTS
  Builds,        \* processes of this build that lock the agent
  Migrators,     \* processes that run the layout migration
  OldBuilds,     \* processes of a build that knows only layout 1
  NoFile,
  MaxRelocks,    \* how often the lock is taken again (8 in the code)
  MaxWork        \* bound: operations under the lock, migrations, crashes

ASSUME LifecycleAssumption ==
  /\ Procs = Builds \cup Migrators \cup OldBuilds
  /\ Builds \cap Migrators = {} /\ Builds \cap OldBuilds = {}
  /\ Migrators \cap OldBuilds = {}
  /\ Priority \subseteq Builds
  /\ NoFile \notin Files
  /\ MaxRelocks \in Nat \ {0} /\ MaxWork \in Nat

VARIABLES
  legacy,      \* REGISTRY/<name>: "absent", "agent", or "stray" (no record)
  current,     \* REGISTRY/agents/<name> exists
  tripwire,    \* layout 2 has been prepared
  named,       \* "lock", "rank" -> the layout-1 file at that path, or NoFile
  created,     \* "lock", "rank" -> how many files were created at that path
  at,          \* process -> the layout it locked the agent in, the first file
               \* it locked, and the attempts it has left
  swept,       \* process -> which layout-1 path the sweep is at
  work,        \* operations done so far
  overtaken    \* history: priority waiter -> process -> how often the process
               \* took the lock since the waiter registered, without expiry

regVars == <<legacy, current, tripwire, named, created>>
vars == <<lockVars, regVars, at, swept, work, overtaken>>

\* registry::locate
Locate ==
  CASE legacy = "agent" /\ current -> "both"
    [] legacy # "absent" /\ ~current -> "legacy"
    [] OTHER -> "current"

\* The file a path names once it has been opened with O_CREAT.
Opened(path) == IF named[path] = NoFile THEN created[path] + 1 ELSE named[path]

\* Open (creating it if missing) the layout-1 file at each of these paths.
OpenLegacy(paths) ==
  /\ \A x \in paths : Opened(x) <= MaxFiles
  /\ named' = [x \in DOMAIN named |-> IF x \in paths THEN Opened(x) ELSE named[x]]
  /\ created' = [x \in DOMAIN created |->
                   IF x \in paths /\ Opened(x) > created[x] THEN Opened(x) ELSE created[x]]

Both == {"lock", "rank"}

Goto(p, l) == pc' = [pc EXCEPT ![p] = l]
FilesUnchanged == UNCHANGED <<flock, gateX, gateS, fd>>

\* What a process that took the lock did to the waiters registered for it.
CountOvertaking(p) ==
  overtaken' = [w \in Priority |->
    IF p = w THEN [q \in Procs |-> 0]
    ELSE IF /\ w \in gateS[fd[p].gate] /\ p \notin Priority
            /\ deferring[p] # "expired" /\ overtaken[w][p] < 2
    THEN [overtaken[w] EXCEPT ![p] = @ + 1]
    ELSE overtaken[w]]

Forget(p) ==
  overtaken' = [w \in Priority |-> IF w = p THEN [q \in Procs |-> 0] ELSE overtaken[w]]

Nowhere == [loc |-> "none", first |-> 0, tries |-> MaxRelocks]

\* Close every file; the operation is over.
Leave(p) ==
  /\ DropAll(p)
  /\ Goto(p, "idle")
  /\ at' = [at EXCEPT ![p] = Nowhere]

(***************************************************************************)
(* This build: lock_with_runtime.                                          *)
(***************************************************************************)

\* Find the agent; a name in both layouts is refused.  An operation that found
\* its lock stale comes again.
Find(p) ==
  /\ p \in Builds
  /\ \/ pc[p] = "idle" /\ work < MaxWork /\ work' = work + 1
     \/ pc[p] = "again" /\ UNCHANGED work
  /\ Locate # "both"
  /\ at' = [at EXCEPT ![p].loc = Locate, ![p].tries = @ - 1]
  /\ Goto(p, "open")
  /\ UNCHANGED <<flock, gateX, gateS, fd, deferring, regVars, swept, overtaken>>

\* Mutant of OpenFirst: only the layout-2 lock is taken, in both layouts.
OpenFirstCurrent(p) ==
  /\ pc[p] = "open"
  /\ fd' = [fd EXCEPT ![p] = Closed]
  /\ at' = [at EXCEPT ![p].first = IF at[p].loc = "legacy" THEN named["lock"] ELSE 0]
  /\ Goto(p, "ask")
  /\ UNCHANGED <<flock, gateX, gateS, deferring, regVars, swept, work, overtaken>>

\* Open the lock of the layout it was found in and the lock's gate, wherever the
\* agent is by now.
OpenFirst(p) ==
  /\ pc[p] = "open"
  /\ IF at[p].loc = "legacy"
       THEN /\ OpenLegacy(Both)
            /\ fd' = [fd EXCEPT ![p] = [lock |-> Opened("lock"), gate |-> Opened("rank")]]
       ELSE fd' = [fd EXCEPT ![p] = Closed] /\ UNCHANGED <<named, created>>
  /\ at' = [at EXCEPT ![p].first = fd'[p].lock]
  /\ Goto(p, "ask")
  /\ UNCHANGED <<flock, gateX, gateS, deferring, legacy, current, tripwire, swept, work, overtaken>>

\* A lock file cannot be opened: the operation ends.
OpenFails(p) ==
  /\ pc[p] = "open"
  /\ Leave(p)
  /\ UNCHANGED <<deferring, regVars, swept, work, overtaken>>

\* Waiting for the lock file it has open.
Wait(p) ==
  /\ p \in Builds
  /\ Loop(p)
  /\ UNCHANGED <<regVars, at, swept, work, overtaken>>

\* A layout-1 agent is locked in layout 1 first and then in layout 2.
TakeLock(p) ==
  /\ p \in Builds
  /\ Take(p, IF fd[p].lock = 0 THEN "check" ELSE "second")
  /\ CountOvertaking(p)
  /\ UNCHANGED <<regVars, at, swept, work>>

OpenSecond(p) ==
  /\ pc[p] = "second"
  /\ fd' = [fd EXCEPT ![p] = [lock |-> 0, gate |-> 0]]
  /\ Goto(p, "ask")
  /\ UNCHANGED <<flock, gateX, gateS, deferring, regVars, at, swept, work, overtaken>>

\* Mutant of StillCurrent: only the lock file is compared, not the location.
StillCurrentByFile(p) == at[p].loc = "legacy" => named["lock"] = at[p].first

\* registry_layout::lock_still_current
StillCurrent(p) ==
  /\ Locate = at[p].loc
  /\ at[p].loc = "legacy" => named["lock"] = at[p].first

\* Look again: the agent is still there, or drop the locks and start over.
Check(p) ==
  /\ pc[p] = "check"
  /\ \/ /\ StillCurrent(p)
        /\ Goto(p, "held")
        /\ FilesUnchanged /\ UNCHANGED at
     \/ /\ ~StillCurrent(p) /\ at[p].tries > 0
        /\ Goto(p, "again")
        /\ DropAll(p) /\ UNCHANGED at
     \/ /\ ~StillCurrent(p) /\ at[p].tries = 0
        /\ Leave(p)
  /\ UNCHANGED <<deferring, regVars, swept, work, overtaken>>

\* While it holds the lock: create the agent, always in layout 2 and behind
\* the tripwires ...
CreateAgent(p) ==
  /\ pc[p] = "held"
  /\ at[p].loc = "current" /\ ~current
  /\ current' = TRUE /\ tripwire' = TRUE
  /\ Goto(p, "leaving")
  /\ FilesUnchanged
  /\ UNCHANGED <<deferring, legacy, named, created, at, swept, work, overtaken>>

\* ... or move it to the archive, wherever it lives.
ArchiveAgent(p) ==
  /\ pc[p] = "held"
  /\ \/ at[p].loc = "legacy" /\ legacy' = "absent" /\ UNCHANGED current
     \/ at[p].loc = "current" /\ current /\ current' = FALSE /\ UNCHANGED legacy
  /\ Goto(p, "leaving")
  /\ FilesUnchanged
  /\ UNCHANGED <<deferring, tripwire, named, created, at, swept, work, overtaken>>

\* Close the lock files.
Release(p) ==
  /\ pc[p] \in {"held", "leaving"}
  /\ Leave(p)
  /\ UNCHANGED <<deferring, regVars, swept, work, overtaken>>

\* The send's deadline ends the wait.
GiveUp(p) ==
  /\ p \in Builds
  /\ Cancel(p)
  /\ at' = [at EXCEPT ![p] = Nowhere]
  /\ Forget(p)
  /\ UNCHANGED <<regVars, swept, work>>

(***************************************************************************)
(* The migration: move_agent, then the sweep of unused lock files.         *)
(***************************************************************************)

\* List the agents in layout 1, and prepare layout 2 if there is any agent.
MigrateStart(m) ==
  /\ m \in Migrators /\ pc[m] = "idle" /\ work < MaxWork
  /\ tripwire' = (tripwire \/ legacy # "absent" \/ current)
  /\ Goto(m, IF legacy # "absent" /\ ~current THEN "candidate" ELSE "sweep")
  /\ swept' = [swept EXCEPT ![m] = "lock"]
  /\ work' = work + 1
  /\ FilesUnchanged
  /\ UNCHANGED <<deferring, legacy, current, named, created, at, overtaken>>

\* Every step may leave the agent where it is: a lock stayed busy, something
\* uses the directory, an error.  The files are closed, the sweep goes on.
LeaveAgent(m) ==
  /\ pc[m] \in {"candidate", "asked", "first", "both", "moved"}
  /\ DropAll(m)
  /\ Goto(m, "sweep")
  /\ UNCHANGED <<deferring, regVars, at, swept, work, overtaken>>

\* Open the layout-1 lock, the one older builds take ...
MigrateOpen(m) ==
  /\ pc[m] = "candidate"
  /\ OpenLegacy({"lock"})
  /\ fd' = [fd EXCEPT ![m].lock = Opened("lock")]
  /\ Goto(m, "asked")
  /\ UNCHANGED <<flock, gateX, gateS, deferring, legacy, current, tripwire, at, swept, work,
                 overtaken>>

\* ... wait for it, whatever its path names by now, and hold it and the
\* layout-2 lock.
MigrateLockFirst(m) ==
  /\ pc[m] = "asked"
  /\ flock[fd[m].lock] = Nobody
  /\ flock' = [flock EXCEPT ![fd[m].lock] = m]
  /\ Goto(m, "first")
  /\ UNCHANGED <<gateX, gateS, fd, deferring, regVars, at, swept, work, overtaken>>

MigrateLockSecond(m) ==
  /\ pc[m] = "first"
  /\ flock[0] = Nobody
  /\ flock' = [flock EXCEPT ![0] = m]
  /\ Goto(m, "both")
  /\ UNCHANGED <<gateX, gateS, fd, deferring, regVars, at, swept, work, overtaken>>

\* Look again, and rename the directory without replacing anything.
MigrateMove(m) ==
  /\ pc[m] = "both"
  /\ legacy # "absent" /\ ~current
  /\ legacy' = "absent" /\ current' = TRUE
  /\ Goto(m, "moved")
  /\ FilesUnchanged
  /\ UNCHANGED <<deferring, tripwire, named, created, at, swept, work, overtaken>>

\* The layout-1 locks guard nothing now: delete the rank lock if nobody holds
\* it, and the lock held here; then close the files.
MigrateRemoveLocks(m) ==
  /\ pc[m] = "moved"
  /\ named' = [x \in DOMAIN named |->
                 IF x = "lock" \/ named[x] = NoFile \/ GateFree(named[x]) THEN NoFile ELSE named[x]]
  /\ DropAll(m)
  /\ Goto(m, "sweep")
  /\ UNCHANGED <<deferring, legacy, current, tripwire, created, at, swept, work, overtaken>>

\* The sweep's next file: the lock, then the rank lock.
SweepOn(m) ==
  /\ Goto(m, IF swept[m] = "lock" THEN "sweep" ELSE "idle")
  /\ swept' = [swept EXCEPT ![m] = IF @ = "lock" THEN "rank" ELSE "lock"]

\* Open each layout-1 lock file of an agent that is not in layout 1 now ...
SweepOpen(m) ==
  /\ pc[m] = "sweep"
  /\ LET file == named[swept[m]] IN
     IF file # NoFile /\ Locate = "current"
       THEN /\ fd' = [fd EXCEPT ![m].lock = file, ![m].gate = file]
            /\ Goto(m, "opened")
            /\ UNCHANGED swept
       ELSE /\ SweepOn(m)
            /\ UNCHANGED fd
  /\ UNCHANGED <<flock, gateX, gateS, deferring, regVars, at, work, overtaken>>

\* ... lock the file without waiting, or keep it ...
SweepLock(m) ==
  /\ pc[m] = "opened"
  /\ \/ /\ swept[m] = "lock" /\ flock[fd[m].lock] = Nobody
        /\ flock' = [flock EXCEPT ![fd[m].lock] = m]
        /\ Goto(m, "remove") /\ UNCHANGED <<gateX, gateS, fd, swept>>
     \/ /\ swept[m] = "rank" /\ GateFree(fd[m].gate)
        /\ gateX' = [gateX EXCEPT ![fd[m].gate] = m]
        /\ Goto(m, "remove") /\ UNCHANGED <<flock, gateS, fd, swept>>
     \/ /\ IF swept[m] = "lock" THEN flock[fd[m].lock] # Nobody ELSE ~GateFree(fd[m].gate)
        /\ SweepOn(m) /\ DropAll(m)
  /\ UNCHANGED <<deferring, regVars, at, work, overtaken>>

\* ... and delete whatever the path names by now, holding the file opened.
SweepRemove(m) ==
  /\ pc[m] = "remove"
  /\ named' = [named EXCEPT ![swept[m]] = NoFile]
  /\ DropAll(m)
  /\ SweepOn(m)
  /\ UNCHANGED <<deferring, legacy, current, tripwire, created, at, work, overtaken>>

(***************************************************************************)
(* Older builds, and programs that write into a queue by path.             *)
(***************************************************************************)

\* An older build opens the layout-1 lock and waits for it ...
OldOpen(b) ==
  /\ b \in OldBuilds /\ pc[b] = "idle" /\ work < MaxWork
  /\ OpenLegacy({"lock"})
  /\ fd' = [fd EXCEPT ![b].lock = Opened("lock")]
  /\ Goto(b, "old_wait")
  /\ work' = work + 1
  /\ UNCHANGED <<flock, gateX, gateS, deferring, legacy, current, tripwire, at, swept, overtaken>>

OldLock(b) ==
  /\ pc[b] = "old_wait"
  /\ flock[fd[b].lock] = Nobody
  /\ flock' = [flock EXCEPT ![fd[b].lock] = b]
  /\ Goto(b, "old_locked")
  /\ UNCHANGED <<gateX, gateS, fd, deferring, regVars, at, swept, work, overtaken>>

\* ... loads the agent's record from layout 1, refused by the tripwire or when
\* there is none, and works on the agent until it closes the lock.
OldLoad(b) ==
  /\ pc[b] = "old_locked"
  /\ IF legacy = "agent" /\ ~tripwire
       THEN Goto(b, "old_work") /\ FilesUnchanged
       ELSE Goto(b, "idle") /\ DropAll(b)
  /\ UNCHANGED <<deferring, regVars, at, swept, work, overtaken>>

OldRelease(b) ==
  /\ pc[b] = "old_work"
  /\ DropAll(b)
  /\ Goto(b, "idle")
  /\ UNCHANGED <<deferring, regVars, at, swept, work, overtaken>>

\* A program built before layout 2 writes into the queue by its layout-1
\* path and so recreates the directory without a record.
StrayAppears ==
  /\ legacy = "absent" /\ current /\ work < MaxWork
  /\ legacy' = "stray"
  /\ work' = work + 1
  /\ UNCHANGED <<lockVars, current, tripwire, named, created, at, swept, overtaken>>

\* A process dies anywhere; the kernel closes its files.
Crash(p) ==
  /\ pc[p] # "idle" /\ work < MaxWork
  /\ Leave(p)
  /\ deferring' = [deferring EXCEPT ![p] = "no"]
  /\ swept' = [swept EXCEPT ![p] = "lock"]
  /\ Forget(p)
  /\ work' = work + 1
  /\ UNCHANGED regVars

\* The bound on the work is used up and every process has finished.
Finished ==
  /\ work = MaxWork
  /\ \A p \in Procs : pc[p] = "idle"
  /\ UNCHANGED vars

-----------------------------------------------------------------------------

Init ==
  /\ flock = [f \in Files |-> Nobody] /\ gateX = [f \in Files |-> Nobody]
  /\ gateS = [f \in Files |-> {}]
  /\ pc = [p \in Procs |-> "idle"]
  /\ fd = [p \in Procs |-> Closed]
  /\ deferring = [p \in Procs |-> "no"]
  /\ legacy \in {"absent", "agent"} /\ current = FALSE /\ tripwire = FALSE
  /\ named = [x \in Both |-> NoFile] /\ created = [x \in Both |-> 0]
  /\ at = [p \in Procs |-> Nowhere]
  /\ swept = [p \in Procs |-> "lock"]
  /\ work = 0
  /\ overtaken = [w \in Priority |-> [p \in Procs |-> 0]]

Build(p) ==
  \/ Find(p) \/ OpenFirst(p) \/ OpenFails(p) \/ Wait(p) \/ TakeLock(p) \/ OpenSecond(p)
  \/ Check(p) \/ CreateAgent(p) \/ ArchiveAgent(p) \/ Release(p) \/ GiveUp(p)

Migrate(m) ==
  \/ MigrateStart(m) \/ MigrateOpen(m) \/ MigrateLockFirst(m) \/ MigrateLockSecond(m)
  \/ MigrateMove(m) \/ MigrateRemoveLocks(m) \/ LeaveAgent(m)
  \/ SweepOpen(m) \/ SweepLock(m) \/ SweepRemove(m)

Old(b) == OldOpen(b) \/ OldLock(b) \/ OldLoad(b) \/ OldRelease(b)

TimePasses(p) ==
  DeferenceExpires(p) /\ UNCHANGED <<regVars, at, swept, work, overtaken>>

Next ==
  \/ \E p \in Builds : Build(p)
  \/ \E m \in Migrators : Migrate(m)
  \/ \E b \in OldBuilds : Old(b)
  \/ \E p \in Procs : TimePasses(p) \/ Crash(p)
  \/ StrayAppears
  \/ Finished

Spec == Init /\ [][Next]_vars

\* A process of this build that is not stopped keeps running and its clock
\* keeps going; a priority waiter may be stopped for ever, so nothing is
\* assumed of it.
FairSpec ==
  Spec /\ \A p \in Builds \ Priority :
            WF_vars(Wait(p)) /\ WF_vars(TakeLock(p)) /\ WF_vars(TimePasses(p))

-----------------------------------------------------------------------------
(***************************************************************************)
(* Properties.                                                             *)
(***************************************************************************)

\* The processes that may change the agent: those that hold its lifecycle
\* lock, and a migration that holds both locks.
Owner(p) == pc[p] \in {"held", "leaving", "both", "moved"}

\* At most one process of this build owns the agent, whatever migrations,
\* deletions of lock files and restarts happen while others wait.
OneOwner == \A p, q \in Procs : Owner(p) /\ Owner(q) => p = q

\* A build older than layout 2 never works on the agent while a process of
\* this build owns it.
OldAndNewExclude == \A b \in OldBuilds, p \in Procs : ~(pc[b] = "old_work" /\ Owner(p))

\* A process that holds the lifecycle lock finds the agent in the layout it
\* locked it in, until it moves the agent itself.
HolderFindsAgent == \A p \in Procs : pc[p] = "held" => Locate = at[p].loc

\* Only a process that is waiting for the gate's lock is registered on a
\* gate: a registration that outlives its wait would hold every ordinary
\* sender off for PRIORITY_DEFERENCE.
RegistrationEnds ==
  \A g \in Files : \A p \in gateS[g] : pc[p] \in Waiting /\ fd[p].gate = g

\* From a priority waiter's registration to its turn, each ordinary sender
\* takes the lock at most once before it, unless it had deferred for
\* PRIORITY_DEFERENCE.
OvertakenAtMostOnce == \A w \in Priority, p \in Procs \ Priority : overtaken[w][p] <= 1

\* A free lock does not stay free while an ordinary sender waits for it, even
\* when a priority waiter is stopped for ever with its gate held.
FreeLockIsTaken ==
  \A p \in Builds \ Priority :
    []<>~(pc[p] \in Waiting /\ flock[fd[p].lock] = Nobody)
=============================================================================
