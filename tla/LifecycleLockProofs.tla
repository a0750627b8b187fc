------------------------ MODULE LifecycleLockProofs ------------------------
(***************************************************************************)
(* Proofs about the lifecycle lock and its ranked waiters, for any number  *)
(* of processes of each kind, lock files and retries.                      *)
(***************************************************************************)
EXTENDS LifecycleLock, TLAPS

-----------------------------------------------------------------------------
(***************************************************************************)
(* The inductive invariant.                                                *)
(***************************************************************************)

\* Where each kind of process can be.
BuildPC ==
  Waiting \cup {"idle", "again", "open", "second", "check", "held", "leaving"}
MigratorPC ==
  {"idle", "candidate", "asked", "first", "both", "moved", "sweep", "opened", "remove"}
OldPC == {"idle", "old_wait", "old_locked", "old_work"}

\* Every process is at a place of its kind.
PcTypes ==
  /\ pc \in [Procs -> BuildPC \cup MigratorPC \cup OldPC]
  /\ \A p \in Builds : pc[p] \in BuildPC
  /\ \A m \in Migrators : pc[m] \in MigratorPC
  /\ \A b \in OldBuilds : pc[b] \in OldPC

\* Every variable has its type.
LockTypes ==
  /\ flock \in [Files -> Procs \cup {Nobody}]
  /\ gateX \in [Files -> Procs \cup {Nobody}]
  /\ gateS \in [Files -> SUBSET Procs]
  /\ fd \in [Procs -> [lock : Files, gate : Files]]
  /\ deferring \in [Procs -> {"no", "yes", "expired"}]

RegTypes ==
  /\ legacy \in {"absent", "agent", "stray"}
  /\ current \in BOOLEAN /\ tripwire \in BOOLEAN
  /\ named \in [Both -> (1 .. MaxFiles) \cup {NoFile}]
  /\ created \in [Both -> Files]

LocalTypes ==
  /\ at \in [Procs -> [loc : {"none", "legacy", "current"}, first : Files,
                       tries : 0 .. MaxRelocks]]
  /\ swept \in [Procs -> Both]
  /\ work \in 0 .. MaxWork
  /\ overtaken \in [Priority -> [Procs -> 0 .. 2]]
  /\ \A p \in Procs : /\ pc[p] = "idle" \/ p \notin Builds => at[p] = Nowhere
                      /\ pc[p] = "again" => at[p].tries > 0

TypeOK == PcTypes /\ LockTypes /\ RegTypes /\ LocalTypes

\* Whoever is past the last lock holds the layout-2 lock.
HoldsCurrent(p) ==
  pc[p] \in {"check", "held", "leaving", "both", "moved"} => flock[0] = p

\* A process of this build that found the agent in layout 1 has opened a
\* layout-1 lock file, and holds that file once it goes on to the other lock.
HoldsFirst(p) ==
  pc[p] \notin {"idle", "again", "open"} =>
    /\ pc[p] \in {"check", "held", "leaving"} => fd[p].lock = 0
    /\ at[p].loc = "legacy" =>
         /\ at[p].first \in 1 .. created["lock"]
         /\ fd[p].lock \in {0, at[p].first}
         /\ pc[p] = "second" \/ fd[p].lock = 0 => flock[at[p].first] = p

\* So does a migration ...
MigratorHolds(m) ==
  /\ pc[m] \in {"asked", "first", "both"} => fd[m].lock \in 1 .. created["lock"]
  /\ pc[m] \in {"first", "both"} => flock[fd[m].lock] = m

\* ... and an older build.
OldHolds(b) ==
  /\ pc[b] # "idle" => fd[b].lock \in 1 .. created["lock"]
  /\ pc[b] \in {"old_locked", "old_work"} => flock[fd[b].lock] = b

Holds(p) ==
  /\ HoldsCurrent(p)
  /\ p \in Builds => HoldsFirst(p)
  /\ p \in Migrators => MigratorHolds(p)
  /\ p \in OldBuilds => OldHolds(p)

LocksHeld == \A p \in Procs : Holds(p)

\* An older build works on the agent in layout 1 only.
OldWorksInLegacy == \A b \in OldBuilds : pc[b] = "old_work" => legacy = "agent"

\* The path of a layout-1 lock file names one that was created.
NamedExists == \A x \in Both : named[x] # NoFile => named[x] <= created[x]

\* While the agent is in layout 1 there has been at most one layout-1 lock
\* file, and nobody is about to delete it: every process there locks the same.
OneLegacyLock ==
  legacy = "agent" =>
    /\ ~current
    /\ created["lock"] <= 1
    /\ named["lock"] = NoFile => created["lock"] = 0
    /\ \A p \in Procs : pc[p] \notin {"opened", "remove", "moved", "leaving"}

\* A waiter that was overtaken is registered, and an ordinary sender that
\* overtook it gets past its gate only by having deferred long enough.
OvertakenIsRegistered ==
  \A w \in Priority, p \in Procs \ Priority :
    overtaken[w][p] > 0 =>
      /\ w \in gateS[fd[w].gate]
      /\ fd[p].gate = fd[w].gate =>
           pc[p] # "passed" /\ (pc[p] = "try" => deferring[p] = "expired")

Inv ==
  /\ TypeOK
  /\ LocksHeld /\ OldWorksInLegacy
  /\ NamedExists /\ OneLegacyLock /\ HolderFindsAgent
  /\ RegistrationEnds /\ OvertakenIsRegistered /\ OvertakenAtMostOnce

-----------------------------------------------------------------------------
(***************************************************************************)
(* The operators the actions are built from.                               *)
(***************************************************************************)

\* What the assumptions on the constants say of one process.
LEMMA Constants ==
  /\ Procs = Builds \cup Migrators \cup OldBuilds
  /\ Builds \cap Migrators = {} /\ Builds \cap OldBuilds = {}
  /\ Migrators \cap OldBuilds = {}
  /\ Priority \subseteq Builds /\ Nobody \notin Procs
  /\ MaxFiles \in Nat /\ MaxRelocks \in Nat /\ MaxRelocks > 0 /\ MaxWork \in Nat
  /\ 0 \in Files /\ NoFile \notin 1 .. MaxFiles
<1>1. MaxFiles \in Nat /\ MaxRelocks \in Nat /\ MaxRelocks > 0 /\ MaxWork \in Nat
  BY RankedLockAssumption, LifecycleAssumption DEF RankedLockAssumption, LifecycleAssumption
<1>2. 0 \in Files /\ NoFile \notin 1 .. MaxFiles
  <2>1. NoFile \notin 0 .. MaxFiles
    BY LifecycleAssumption DEF LifecycleAssumption, Files
  <2>2. 1 .. MaxFiles \subseteq 0 .. MaxFiles
    BY <1>1
  <2> QED
    BY <2>1, <2>2, <1>1 DEF Files
<1> QED
  BY <1>1, <1>2, RankedLockAssumption, LifecycleAssumption DEF RankedLockAssumption,
     LifecycleAssumption

\* A process that has closed its files has none open.
LEMMA ClosedFile == Closed \in [lock : Files, gate : Files] /\ Closed.lock = 0 /\ Closed.gate = 0
BY Constants DEF Closed

\* Closing every file of p frees what p held and touches nobody else.
LEMMA DropAllFacts ==
  ASSUME LockTypes, NEW p \in Procs, DropAll(p)
  PROVE  /\ flock' \in [Files -> Procs \cup {Nobody}]
         /\ gateX' \in [Files -> Procs \cup {Nobody}]
         /\ gateS' \in [Files -> SUBSET Procs]
         /\ fd' \in [Procs -> [lock : Files, gate : Files]]
         /\ fd'[p] = Closed
         /\ \A q \in Procs \ {p} : fd'[q] = fd[q]
         /\ \A f \in Files : /\ flock'[f] = IF flock[f] = p THEN Nobody ELSE flock[f]
                             /\ gateX'[f] = IF gateX[f] = p THEN Nobody ELSE gateX[f]
                             /\ gateS'[f] = gateS[f] \ {p}
<1>1. Closed \in [lock : Files, gate : Files]
  BY Constants DEF Closed
<1> QED
  BY <1>1 DEF DropAll, LockTypes

\* What the other processes have is untouched.
LEMMA DropAllFrame ==
  ASSUME LockTypes, NEW p \in Procs, DropAll(p)
  PROVE  \A q \in Procs \ {p} :
           /\ fd'[q] = fd[q]
           /\ \A f \in Files : flock'[f] = q <=> flock[f] = q
           /\ \A g \in Files : q \in gateS'[g] <=> q \in gateS[g]
BY DropAllFacts, Constants

\* A process that has left is nowhere.
LEMMA LeaveLocal ==
  ASSUME LocalTypes, NEW p \in Procs, at' = [at EXCEPT ![p] = Nowhere], pc'[p] = "idle",
         \A q \in Procs \ {p} : pc'[q] = pc[q], UNCHANGED <<swept, work, overtaken>>
  PROVE  LocalTypes'
<1>1. Nowhere \in [loc : {"none", "legacy", "current"}, first : Files, tries : 0 .. MaxRelocks]
  BY Constants DEF Nowhere
<1>2. at' \in [Procs -> [loc : {"none", "legacy", "current"}, first : Files,
                       tries : 0 .. MaxRelocks]]
  BY <1>1 DEF LocalTypes
<1>3. ASSUME NEW q \in Procs
      PROVE  /\ pc'[q] = "idle" \/ q \notin Builds => at'[q] = Nowhere
             /\ pc'[q] = "again" => at'[q].tries > 0
  BY DEF LocalTypes
<1> QED
  BY <1>2, <1>3 DEF LocalTypes

\* Opening layout-1 files with O_CREAT names existing files and never
\* replaces one that the path named.
LEMMA OpenLegacyFacts ==
  ASSUME RegTypes, NamedExists, NEW paths \in SUBSET Both, OpenLegacy(paths)
  PROVE  /\ named' \in [Both -> (1 .. MaxFiles) \cup {NoFile}]
         /\ created' \in [Both -> Files]
         /\ NamedExists'
         /\ \A x \in Both : created[x] <= created'[x]
         /\ \A x \in paths : Opened(x) \in Files /\ Opened(x) \in 1 .. created'[x]
         /\ \A x \in paths : named'[x] # NoFile
         /\ \A x \in Both :
              /\ named[x] # NoFile => named'[x] = named[x] /\ created'[x] = created[x]
              /\ x \in paths /\ named[x] = NoFile =>
                   named'[x] = created[x] + 1 /\ created'[x] = created[x] + 1
              /\ x \notin paths => named'[x] = named[x] /\ created'[x] = created[x]
<1>1. ASSUME NEW x \in Both PROVE created[x] \in Nat /\ created[x] <= MaxFiles
  BY Constants DEF RegTypes, Files
<1>2. ASSUME NEW x \in paths
      PROVE  Opened(x) \in 1 .. MaxFiles /\ Opened(x) # NoFile
  <2>1. Opened(x) <= MaxFiles
    BY DEF OpenLegacy
  <2> QED
    BY <1>1, <2>1, Constants DEF Opened, RegTypes
<1>3. ASSUME NEW x \in Both
      PROVE  /\ named'[x] = IF x \in paths THEN Opened(x) ELSE named[x]
             /\ created'[x] = IF x \in paths /\ Opened(x) > created[x] THEN Opened(x)
                             ELSE created[x]
  BY DEF OpenLegacy, RegTypes
<1>4. DOMAIN named = Both /\ DOMAIN created = Both
  BY DEF RegTypes
<1>5. ASSUME NEW x \in Both
      PROVE  /\ named[x] # NoFile => named'[x] = named[x] /\ created'[x] = created[x]
             /\ x \in paths /\ named[x] = NoFile =>
                   named'[x] = created[x] + 1 /\ created'[x] = created[x] + 1
             /\ x \notin paths => named'[x] = named[x] /\ created'[x] = created[x]
  <2>1. named[x] # NoFile => named[x] <= created[x] /\ named[x] \in 1 .. MaxFiles
    BY DEF NamedExists, RegTypes
  <2> QED
    BY <1>1, <1>3, <2>1 DEF Opened
<1>6. created' \in [Both -> Files]
  <2>1. ASSUME NEW x \in Both
        PROVE  (IF x \in paths /\ Opened(x) > created[x] THEN Opened(x) ELSE created[x]) \in Files
    BY <1>1, <1>2, Constants DEF Files
  <2> QED
    BY <2>1, <1>4 DEF OpenLegacy
<1>7. named' \in [Both -> (1 .. MaxFiles) \cup {NoFile}]
  BY <1>2, <1>4 DEF OpenLegacy, RegTypes
<1>8. \A x \in Both : created[x] <= created'[x]
  BY <1>1, <1>3, <1>2
<1>9. \A x \in paths : Opened(x) \in Files /\ Opened(x) \in 1 .. created'[x]
  BY <1>1, <1>2, <1>3 DEF Files
<1>10. NamedExists'
  BY <1>3, <1>9, <1>5 DEF NamedExists
<1>11. \A x \in paths : named'[x] # NoFile
  BY <1>2, <1>3
<1> QED
  BY <1>5, <1>6, <1>7, <1>8, <1>9, <1>10, <1>11

\* Going to a place of its kind.
LEMMA PcFacts ==
  ASSUME PcTypes, NEW p \in Procs, NEW l, Goto(p, l),
         \/ p \in Builds /\ l \in BuildPC
         \/ p \in Migrators /\ l \in MigratorPC
         \/ p \in OldBuilds /\ l \in OldPC
  PROVE  PcTypes' /\ pc'[p] = l /\ \A q \in Procs \ {p} : pc'[q] = pc[q]
BY Constants DEF PcTypes, Goto

-----------------------------------------------------------------------------
(***************************************************************************)
(* A step of one process.                                                  *)
(***************************************************************************)

Step(p) ==
  \/ p \in Builds /\ Build(p)
  \/ p \in Migrators /\ Migrate(p)
  \/ p \in OldBuilds /\ Old(p)
  \/ TimePasses(p)
  \/ Crash(p)

\* It moves no other process, takes only free locks, and gives up only its own.
Frame(p) ==
  /\ \A q \in Procs \ {p} :
       /\ pc'[q] = pc[q] /\ fd'[q] = fd[q] /\ at'[q] = at[q]
       /\ deferring'[q] = deferring[q]
       /\ \A f \in Files : flock'[f] = q <=> flock[f] = q
       /\ \A g \in Files : q \in gateS'[g] <=> q \in gateS[g]
  /\ created["lock"] <= created'["lock"]
  /\ legacy' = "agent" => legacy = "agent"

\* A step of this build keeps the types, moves nobody else, and keeps what
\* its process relies on.
LEMMA BuildStep ==
  ASSUME Inv, NEW p \in Builds, Build(p)
  PROVE  TypeOK' /\ NamedExists' /\ Frame(p) /\ Holds(p)'
<1> USE DEF Inv, TypeOK
<1>0. p \in Procs /\ "lock" \in Both /\ p \notin Migrators /\ p \notin OldBuilds /\ Holds(p)
  BY Constants DEF Both, LocksHeld
<1>1. CASE Find(p)
  <2> USE <1>1 DEF Find, regVars
  <2>1. PcTypes' /\ pc'[p] = "open" /\ \A q \in Procs \ {p} : pc'[q] = pc[q]
    BY <1>0, PcFacts DEF Goto, BuildPC, Waiting
  <2>2. LockTypes'
    BY <1>0, Constants DEF LockTypes
  <2>3. RegTypes' /\ NamedExists'
    BY DEF RegTypes, NamedExists
  <2>4. LocalTypes'
    BY <1>0, <2>1, <2>2, Constants DEF LocalTypes, Nowhere, Locate
  <2>5. Frame(p)
    BY <1>0, <2>1, Constants DEF Frame, LockTypes, RegTypes, LocalTypes, Files
  <2>6. Holds(p)'
    BY <1>0, <2>1, Constants DEF Holds, HoldsCurrent, HoldsFirst, LockTypes
  <2> QED
    BY <2>1, <2>2, <2>3, <2>4, <2>5, <2>6
<1>2. CASE OpenFirst(p)
  <2> USE <1>2 DEF OpenFirst
  <2>1. PcTypes' /\ pc'[p] = "ask" /\ \A q \in Procs \ {p} : pc'[q] = pc[q]
    BY <1>0, PcFacts DEF Goto, BuildPC, Waiting
  <2>2. /\ fd'[p] \in [lock : Files, gate : Files] /\ fd' = [fd EXCEPT ![p] = fd'[p]]
        /\ RegTypes' /\ NamedExists' /\ created["lock"] <= created'["lock"]
        /\ at[p].loc = "legacy" => fd'[p].lock \in 1 .. created'["lock"]
    <3>1. CASE at[p].loc = "legacy"
      <4>1. OpenLegacy(Both) /\ "rank" \in Both
        BY <3>1 DEF Both
      <4>2. Opened("lock") \in Files /\ Opened("rank") \in Files
            /\ Opened("lock") \in 1 .. created'["lock"] /\ created["lock"] <= created'["lock"]
        BY <4>1, <1>0, OpenLegacyFacts
      <4>3. fd'[p] = [lock |-> Opened("lock"), gate |-> Opened("rank")]
        BY <1>0, <3>1 DEF LockTypes
      <4>4. RegTypes' /\ NamedExists'
        BY <4>1, OpenLegacyFacts DEF RegTypes
      <4> QED
        BY <3>1, <4>2, <4>3, <4>4
    <3>2. CASE at[p].loc # "legacy"
      <4>1. fd'[p] = Closed /\ UNCHANGED <<named, created>>
        BY <1>0, <3>2 DEF LockTypes
      <4>2. RegTypes' /\ NamedExists'
        BY <4>1 DEF RegTypes, NamedExists
      <4>3. created["lock"] <= created'["lock"]
        BY <4>1, <1>0, Constants DEF RegTypes, Files
      <4> QED
        BY <3>2, <4>1, <4>2, <4>3, ClosedFile
    <3> QED
      BY <3>1, <3>2
  <2>3. LockTypes'
    BY <1>0, <2>2 DEF LockTypes
  <2>4. /\ \A q \in Procs \ {p} : at'[q] = at[q] /\ fd'[q] = fd[q]
        /\ at'[p].first = fd'[p].lock /\ at'[p].loc = at[p].loc
    BY <1>0, <2>2 DEF LocalTypes, LockTypes
  <2>5. at' \in [Procs -> [loc : {"none", "legacy", "current"}, first : Files,
                         tries : 0 .. MaxRelocks]]
    BY <1>0, <2>2 DEF LocalTypes
  <2>6. LocalTypes'
    BY <2>1, <2>4, <2>5 DEF LocalTypes
  <2>7. Frame(p)
    BY <2>1, <2>2, <2>4 DEF Frame
  <2>8. Holds(p)'
    BY <1>0, <2>1, <2>2, <2>4 DEF Holds, HoldsCurrent, HoldsFirst
  <2> QED
    BY <2>1, <2>2, <2>3, <2>6, <2>7, <2>8
<1>3. CASE OpenFails(p)
  <2> USE <1>3 DEF OpenFails, Leave, regVars
  <2>1. PcTypes' /\ pc'[p] = "idle" /\ \A q \in Procs \ {p} : pc'[q] = pc[q]
    BY <1>0, PcFacts DEF Goto, BuildPC, Waiting
  <2>2. LockTypes'
    BY <1>0, Constants, DropAllFacts DEF LockTypes
  <2>3. RegTypes' /\ NamedExists'
    BY DEF RegTypes, NamedExists
  <2>4. LocalTypes'
    BY <1>0, <2>1, LeaveLocal
  <2>5. Frame(p)
    BY <1>0, <2>1, Constants, DropAllFrame DEF Frame, RegTypes, LocalTypes, Files
  <2>6. Holds(p)'
    BY <1>0, <2>1 DEF Holds, HoldsCurrent, HoldsFirst
  <2> QED
    BY <2>1, <2>2, <2>3, <2>4, <2>5, <2>6
<1>4. CASE Wait(p)
  <2>1. CASE Register(p)
    <3> USE <1>4, <2>1 DEF Wait, Register, regVars
    <3>1. PcTypes' /\ pc'[p] = "try" /\ \A q \in Procs \ {p} : pc'[q] = pc[q]
      BY <1>0, PcFacts DEF Goto, BuildPC, Waiting
    <3>2. LockTypes'
      BY <1>0, Constants DEF LockTypes
    <3>3. RegTypes' /\ NamedExists'
      BY DEF RegTypes, NamedExists
    <3>4. LocalTypes'
      BY <1>0, <3>1, <3>2, Constants DEF LocalTypes, Nowhere
    <3>5. Frame(p)
      BY <1>0, <3>1, Constants DEF Frame, LockTypes, RegTypes, LocalTypes, Files
    <3>6. Holds(p)'
      BY <1>0, <3>1, Constants DEF Holds, HoldsCurrent, HoldsFirst, LockTypes, Waiting
    <3> QED
      BY <3>1, <3>2, <3>3, <3>4, <3>5, <3>6
  <2>2. CASE AskGate(p)
    <3> USE <1>4, <2>2 DEF Wait, AskGate, regVars
    <3>1. PcTypes' /\ pc'[p] = "passed" /\ \A q \in Procs \ {p} : pc'[q] = pc[q]
      BY <1>0, PcFacts DEF Goto, BuildPC, Waiting
    <3>2. LockTypes'
      BY <1>0, Constants DEF LockTypes
    <3>3. RegTypes' /\ NamedExists'
      BY DEF RegTypes, NamedExists
    <3>4. LocalTypes'
      BY <1>0, <3>1, <3>2, Constants DEF LocalTypes, Nowhere
    <3>5. Frame(p)
      BY <1>0, <3>1, Constants DEF Frame, LockTypes, RegTypes, LocalTypes, Files
    <3>6. Holds(p)'
      BY <1>0, <3>1, Constants DEF Holds, HoldsCurrent, HoldsFirst, LockTypes, Waiting
    <3> QED
      BY <3>1, <3>2, <3>3, <3>4, <3>5, <3>6
  <2>3. CASE PassGate(p)
    <3> USE <1>4, <2>3 DEF Wait, PassGate, regVars
    <3>1. PcTypes' /\ pc'[p] = "try" /\ \A q \in Procs \ {p} : pc'[q] = pc[q]
      BY <1>0, PcFacts DEF Goto, BuildPC, Waiting
    <3>2. LockTypes'
      BY <1>0, Constants DEF LockTypes
    <3>3. RegTypes' /\ NamedExists'
      BY DEF RegTypes, NamedExists
    <3>4. LocalTypes'
      BY <1>0, <3>1, <3>2, Constants DEF LocalTypes, Nowhere
    <3>5. Frame(p)
      BY <1>0, <3>1, Constants DEF Frame, LockTypes, RegTypes, LocalTypes, Files
    <3>6. Holds(p)'
      BY <1>0, <3>1, Constants DEF Holds, HoldsCurrent, HoldsFirst, LockTypes, Waiting
    <3> QED
      BY <3>1, <3>2, <3>3, <3>4, <3>5, <3>6
  <2>4. CASE Defer(p)
    <3> USE <1>4, <2>4 DEF Wait, Defer, regVars
    <3>1. PcTypes' /\ pc'[p] \in {"try", "pause"} /\ \A q \in Procs \ {p} : pc'[q] = pc[q]
      BY <1>0, PcFacts DEF Goto, BuildPC, Waiting
    <3>2. LockTypes'
      BY <1>0, Constants DEF LockTypes
    <3>3. RegTypes' /\ NamedExists'
      BY DEF RegTypes, NamedExists
    <3>4. LocalTypes'
      BY <1>0, <3>1, <3>2, Constants DEF LocalTypes, Nowhere
    <3>5. Frame(p)
      BY <1>0, <3>1, Constants DEF Frame, LockTypes, RegTypes, LocalTypes, Files
    <3>6. Holds(p)'
      BY <1>0, <3>1, Constants DEF Holds, HoldsCurrent, HoldsFirst, LockTypes, Waiting
    <3> QED
      BY <3>1, <3>2, <3>3, <3>4, <3>5, <3>6
  <2>5. CASE Busy(p)
    <3> USE <1>4, <2>5 DEF Wait, Busy, regVars
    <3>1. PcTypes' /\ pc'[p] = "pause" /\ \A q \in Procs \ {p} : pc'[q] = pc[q]
      BY <1>0, PcFacts DEF Goto, BuildPC, Waiting
    <3>2. LockTypes'
      BY <1>0, Constants DEF LockTypes
    <3>3. RegTypes' /\ NamedExists'
      BY DEF RegTypes, NamedExists
    <3>4. LocalTypes'
      BY <1>0, <3>1, <3>2, Constants DEF LocalTypes, Nowhere
    <3>5. Frame(p)
      BY <1>0, <3>1, Constants DEF Frame, LockTypes, RegTypes, LocalTypes, Files
    <3>6. Holds(p)'
      BY <1>0, <3>1, Constants DEF Holds, HoldsCurrent, HoldsFirst, LockTypes, Waiting
    <3> QED
      BY <3>1, <3>2, <3>3, <3>4, <3>5, <3>6
  <2>6. CASE Sleep(p)
    <3> USE <1>4, <2>6 DEF Wait, Sleep, regVars
    <3>1. PcTypes' /\ pc'[p] = "ask" /\ \A q \in Procs \ {p} : pc'[q] = pc[q]
      BY <1>0, PcFacts DEF Goto, BuildPC, Waiting
    <3>2. LockTypes'
      BY <1>0, Constants DEF LockTypes
    <3>3. RegTypes' /\ NamedExists'
      BY DEF RegTypes, NamedExists
    <3>4. LocalTypes'
      BY <1>0, <3>1, <3>2, Constants DEF LocalTypes, Nowhere
    <3>5. Frame(p)
      BY <1>0, <3>1, Constants DEF Frame, LockTypes, RegTypes, LocalTypes, Files
    <3>6. Holds(p)'
      BY <1>0, <3>1, Constants DEF Holds, HoldsCurrent, HoldsFirst, LockTypes, Waiting
    <3> QED
      BY <3>1, <3>2, <3>3, <3>4, <3>5, <3>6
  <2> QED
    BY <1>4, <2>1, <2>2, <2>3, <2>4, <2>5, <2>6 DEF Wait, Loop
<1>5. CASE TakeLock(p)
  <2> USE <1>5 DEF TakeLock, Take, regVars
  <2>1. PcTypes' /\ pc'[p] \in {"check", "second"} /\ \A q \in Procs \ {p} : pc'[q] = pc[q]
    BY <1>0, PcFacts DEF Goto, BuildPC, Waiting
  <2>2. LockTypes'
    BY <1>0, Constants DEF LockTypes
  <2>3. RegTypes' /\ NamedExists'
    BY DEF RegTypes, NamedExists
  <2>4. LocalTypes'
    BY <1>0, <2>1, <2>2, Constants DEF LocalTypes, Nowhere, CountOvertaking
  <2>5. Frame(p)
    BY <1>0, <2>1, Constants DEF Frame, LockTypes, RegTypes, LocalTypes, Files
  <2>6. Holds(p)'
    BY <1>0, <2>1, Constants DEF Holds, HoldsCurrent, HoldsFirst, LockTypes, LocalTypes,
       RegTypes, Files
  <2> QED
    BY <2>1, <2>2, <2>3, <2>4, <2>5, <2>6
<1>6. CASE OpenSecond(p)
  <2> USE <1>6 DEF OpenSecond, regVars
  <2>1. PcTypes' /\ pc'[p] = "ask" /\ \A q \in Procs \ {p} : pc'[q] = pc[q]
    BY <1>0, PcFacts DEF Goto, BuildPC, Waiting
  <2>2. LockTypes'
    BY <1>0, Constants DEF LockTypes
  <2>3. RegTypes' /\ NamedExists'
    BY DEF RegTypes, NamedExists
  <2>4. LocalTypes'
    BY <1>0, <2>1, <2>2, Constants DEF LocalTypes, Nowhere
  <2>5. Frame(p)
    BY <1>0, <2>1, Constants DEF Frame, LockTypes, RegTypes, LocalTypes, Files
  <2>6. Holds(p)'
    BY <1>0, <2>1, Constants DEF Holds, HoldsCurrent, HoldsFirst, LockTypes, LocalTypes
  <2> QED
    BY <2>1, <2>2, <2>3, <2>4, <2>5, <2>6
<1>7. CASE Check(p)
  <2> USE <1>7 DEF Check, regVars
  <2>1. RegTypes' /\ NamedExists' /\ created' = created /\ legacy' = legacy
    BY DEF RegTypes, NamedExists
  <2>2. CASE Goto(p, "held") /\ FilesUnchanged /\ UNCHANGED at
    <3>1. PcTypes' /\ pc'[p] = "held" /\ \A q \in Procs \ {p} : pc'[q] = pc[q]
      BY <1>0, <2>2, PcFacts DEF BuildPC
    <3>2. LockTypes' /\ LocalTypes'
      BY <2>2, <3>1 DEF FilesUnchanged, LockTypes, LocalTypes
    <3>3. Frame(p)
      BY <1>0, <2>1, <2>2, <3>1, Constants DEF Frame, FilesUnchanged, RegTypes, Files
    <3>4. Holds(p)'
      BY <1>0, <2>1, <2>2, <3>1 DEF Holds, HoldsCurrent, HoldsFirst, FilesUnchanged
    <3> QED
      BY <2>1, <3>1, <3>2, <3>3, <3>4
  <2>3. CASE at[p].tries > 0 /\ Goto(p, "again") /\ DropAll(p) /\ UNCHANGED at
    <3>1. PcTypes' /\ pc'[p] = "again" /\ \A q \in Procs \ {p} : pc'[q] = pc[q]
      BY <1>0, <2>3, PcFacts DEF BuildPC
    <3>2. LockTypes'
      BY <1>0, <2>3, DropAllFacts DEF LockTypes
    <3>3. LocalTypes'
      BY <2>3, <3>1 DEF LocalTypes
    <3>4. Frame(p)
      BY <1>0, <2>1, <2>3, <3>1, DropAllFrame, Constants DEF Frame, RegTypes, Files
    <3>5. Holds(p)'
      BY <1>0, <3>1 DEF Holds, HoldsCurrent, HoldsFirst
    <3> QED
      BY <2>1, <3>1, <3>2, <3>3, <3>4, <3>5
  <2>4. CASE Leave(p)
    <3>1. PcTypes' /\ pc'[p] = "idle" /\ \A q \in Procs \ {p} : pc'[q] = pc[q]
      BY <1>0, <2>4, PcFacts DEF Leave, BuildPC
    <3>2. LockTypes'
      BY <1>0, <2>4, DropAllFacts DEF Leave, LockTypes
    <3>3. LocalTypes'
      BY <1>0, <2>4, <3>1, LeaveLocal DEF Leave
    <3>4. Frame(p)
      BY <1>0, <2>1, <2>4, <3>1, DropAllFrame, Constants DEF Leave, Frame, RegTypes, LocalTypes,
         Files
    <3>5. Holds(p)'
      BY <1>0, <3>1 DEF Holds, HoldsCurrent, HoldsFirst
    <3> QED
      BY <2>1, <3>1, <3>2, <3>3, <3>4, <3>5
  <2> QED
    BY <2>2, <2>3, <2>4
<1>8. CASE CreateAgent(p)
  <2> USE <1>8 DEF CreateAgent, FilesUnchanged
  <2>1. PcTypes' /\ pc'[p] = "leaving" /\ \A q \in Procs \ {p} : pc'[q] = pc[q]
    BY <1>0, PcFacts DEF Goto, BuildPC, Waiting
  <2>2. LockTypes'
    BY <1>0, Constants DEF LockTypes
  <2>3. RegTypes' /\ NamedExists'
    BY DEF RegTypes, NamedExists
  <2>4. LocalTypes'
    BY <1>0, <2>1, <2>2, Constants DEF LocalTypes, Nowhere
  <2>5. Frame(p)
    BY <1>0, <2>1, Constants DEF Frame, LockTypes, RegTypes, LocalTypes, Files
  <2>6. Holds(p)'
    BY <1>0, <2>1, Constants DEF Holds, HoldsCurrent, HoldsFirst, LockTypes
  <2> QED
    BY <2>1, <2>2, <2>3, <2>4, <2>5, <2>6
<1>9. CASE ArchiveAgent(p)
  <2> USE <1>9 DEF ArchiveAgent, FilesUnchanged
  <2>1. PcTypes' /\ pc'[p] = "leaving" /\ \A q \in Procs \ {p} : pc'[q] = pc[q]
    BY <1>0, PcFacts DEF Goto, BuildPC, Waiting
  <2>2. LockTypes'
    BY <1>0, Constants DEF LockTypes
  <2>3. RegTypes' /\ NamedExists'
    BY DEF RegTypes, NamedExists
  <2>4. LocalTypes'
    BY <1>0, <2>1, <2>2, Constants DEF LocalTypes, Nowhere
  <2>5. Frame(p)
    BY <1>0, <2>1, Constants DEF Frame, LockTypes, RegTypes, LocalTypes, Files
  <2>6. Holds(p)'
    BY <1>0, <2>1, Constants DEF Holds, HoldsCurrent, HoldsFirst, LockTypes
  <2> QED
    BY <2>1, <2>2, <2>3, <2>4, <2>5, <2>6
<1>10. CASE Release(p)
  <2> USE <1>10 DEF Release, Leave, regVars
  <2>1. PcTypes' /\ pc'[p] = "idle" /\ \A q \in Procs \ {p} : pc'[q] = pc[q]
    BY <1>0, PcFacts DEF Goto, BuildPC, Waiting
  <2>2. LockTypes'
    BY <1>0, Constants, DropAllFacts DEF LockTypes
  <2>3. RegTypes' /\ NamedExists'
    BY DEF RegTypes, NamedExists
  <2>4. LocalTypes'
    BY <1>0, <2>1, LeaveLocal
  <2>5. Frame(p)
    BY <1>0, <2>1, Constants, DropAllFrame DEF Frame, RegTypes, LocalTypes, Files
  <2>6. Holds(p)'
    BY <1>0, <2>1 DEF Holds, HoldsCurrent, HoldsFirst
  <2> QED
    BY <2>1, <2>2, <2>3, <2>4, <2>5, <2>6
<1>11. CASE GiveUp(p)
  <2> USE <1>11 DEF GiveUp, Cancel, regVars
  <2>1. PcTypes' /\ pc'[p] = "idle" /\ \A q \in Procs \ {p} : pc'[q] = pc[q]
    BY <1>0, PcFacts DEF Goto, BuildPC, Waiting
  <2>2. LockTypes'
    BY <1>0, Constants, DropAllFacts DEF LockTypes
  <2>3. RegTypes' /\ NamedExists'
    BY DEF RegTypes, NamedExists
  <2>4. LocalTypes'
    BY <1>0, <2>1, <2>2, Constants DEF LocalTypes, Nowhere, Forget
  <2>5. Frame(p)
    BY <1>0, <2>1, Constants, DropAllFrame DEF Frame, LockTypes, RegTypes, LocalTypes, Files
  <2>6. Holds(p)'
    BY <1>0, <2>1 DEF Holds, HoldsCurrent, HoldsFirst
  <2> QED
    BY <2>1, <2>2, <2>3, <2>4, <2>5, <2>6
<1> QED
  BY <1>1, <1>2, <1>3, <1>4, <1>5, <1>6, <1>7, <1>8, <1>9, <1>10, <1>11 DEF Build

\* The same for a step of a migration.
LEMMA MigrateStep ==
  ASSUME Inv, NEW p \in Migrators, Migrate(p)
  PROVE  TypeOK' /\ NamedExists' /\ Frame(p) /\ Holds(p)'
<1> USE DEF Inv, TypeOK
<1>0. /\ p \in Procs /\ {"lock"} \in SUBSET Both /\ "lock" \in Both /\ "rank" \in Both
      /\ p \notin Builds /\ p \notin OldBuilds /\ Holds(p)
  BY Constants DEF Both, LocksHeld
<1>1. CASE MigrateStart(p)
  <2> USE <1>1 DEF MigrateStart, FilesUnchanged
  <2>1. PcTypes' /\ pc'[p] \in {"candidate", "sweep"} /\ \A q \in Procs \ {p} : pc'[q] = pc[q]
    BY <1>0, PcFacts DEF Goto, MigratorPC
  <2>2. LockTypes'
    BY <1>0 DEF LockTypes
  <2>3. RegTypes' /\ NamedExists'
    BY DEF RegTypes, NamedExists
  <2>4. LocalTypes'
    BY <1>0, <2>1, Constants DEF LocalTypes
  <2>5. Frame(p)
    BY <1>0, <2>1, Constants DEF Frame, RegTypes, Files, LockTypes
  <2>6. Holds(p)'
    BY <1>0, <2>1, Constants DEF Holds, HoldsCurrent, MigratorHolds, LockTypes
  <2> QED
    BY <2>1, <2>2, <2>3, <2>4, <2>5, <2>6
<1>2. CASE MigrateOpen(p)
  <2> USE <1>2 DEF MigrateOpen
  <2>1. PcTypes' /\ pc'[p] = "asked" /\ \A q \in Procs \ {p} : pc'[q] = pc[q]
    BY <1>0, PcFacts DEF Goto, MigratorPC
  <2>2. LockTypes'
    BY <1>0, OpenLegacyFacts DEF LockTypes
  <2>3. RegTypes' /\ NamedExists'
    BY <1>0, OpenLegacyFacts DEF RegTypes, NamedExists
  <2>4. LocalTypes'
    BY <1>0, <2>1, Constants DEF LocalTypes
  <2>5. Frame(p)
    BY <1>0, <2>1, Constants, OpenLegacyFacts DEF Frame, RegTypes, Files, LockTypes
  <2>6. Holds(p)'
    BY <1>0, <2>1, Constants, OpenLegacyFacts DEF Holds, HoldsCurrent, MigratorHolds,
       LockTypes, RegTypes
  <2> QED
    BY <2>1, <2>2, <2>3, <2>4, <2>5, <2>6
<1>3. CASE MigrateLockFirst(p)
  <2> USE <1>3 DEF MigrateLockFirst, regVars
  <2>1. PcTypes' /\ pc'[p] = "first" /\ \A q \in Procs \ {p} : pc'[q] = pc[q]
    BY <1>0, PcFacts DEF Goto, MigratorPC
  <2>2. LockTypes'
    BY <1>0 DEF LockTypes
  <2>3. RegTypes' /\ NamedExists'
    BY DEF RegTypes, NamedExists
  <2>4. LocalTypes'
    BY <1>0, <2>1, Constants DEF LocalTypes
  <2>5. Frame(p)
    BY <1>0, <2>1, Constants DEF Frame, RegTypes, Files, LockTypes
  <2>6. Holds(p)'
    BY <1>0, <2>1, Constants DEF Holds, HoldsCurrent, MigratorHolds, LockTypes, Files
  <2> QED
    BY <2>1, <2>2, <2>3, <2>4, <2>5, <2>6
<1>4. CASE MigrateLockSecond(p)
  <2> USE <1>4 DEF MigrateLockSecond, regVars
  <2>1. PcTypes' /\ pc'[p] = "both" /\ \A q \in Procs \ {p} : pc'[q] = pc[q]
    BY <1>0, PcFacts DEF Goto, MigratorPC
  <2>2. LockTypes'
    BY <1>0 DEF LockTypes
  <2>3. RegTypes' /\ NamedExists'
    BY DEF RegTypes, NamedExists
  <2>4. LocalTypes'
    BY <1>0, <2>1, Constants DEF LocalTypes
  <2>5. Frame(p)
    BY <1>0, <2>1, Constants DEF Frame, RegTypes, Files, LockTypes
  <2>6. Holds(p)'
    BY <1>0, <2>1, Constants DEF Holds, HoldsCurrent, MigratorHolds, LockTypes, Files,
       RegTypes
  <2> QED
    BY <2>1, <2>2, <2>3, <2>4, <2>5, <2>6
<1>5. CASE MigrateMove(p)
  <2> USE <1>5 DEF MigrateMove, FilesUnchanged
  <2>1. PcTypes' /\ pc'[p] = "moved" /\ \A q \in Procs \ {p} : pc'[q] = pc[q]
    BY <1>0, PcFacts DEF Goto, MigratorPC
  <2>2. LockTypes'
    BY <1>0 DEF LockTypes
  <2>3. RegTypes' /\ NamedExists'
    BY DEF RegTypes, NamedExists
  <2>4. LocalTypes'
    BY <1>0, <2>1, Constants DEF LocalTypes
  <2>5. Frame(p)
    BY <1>0, <2>1, Constants DEF Frame, RegTypes, Files, LockTypes
  <2>6. Holds(p)'
    BY <1>0, <2>1, Constants DEF Holds, HoldsCurrent, MigratorHolds, LockTypes
  <2> QED
    BY <2>1, <2>2, <2>3, <2>4, <2>5, <2>6
<1>6. CASE MigrateRemoveLocks(p)
  <2> USE <1>6 DEF MigrateRemoveLocks
  <2>1. PcTypes' /\ pc'[p] = "sweep" /\ \A q \in Procs \ {p} : pc'[q] = pc[q]
    BY <1>0, PcFacts DEF Goto, MigratorPC
  <2>2. LockTypes'
    BY <1>0, DropAllFacts DEF LockTypes
  <2>3. RegTypes' /\ NamedExists'
    BY DEF RegTypes, NamedExists
  <2>4. LocalTypes'
    BY <1>0, <2>1, Constants DEF LocalTypes
  <2>5. Frame(p)
    BY <1>0, <2>1, Constants, DropAllFrame DEF Frame, RegTypes, Files
  <2>6. Holds(p)'
    BY <1>0, <2>1, Constants DEF Holds, HoldsCurrent, MigratorHolds
  <2> QED
    BY <2>1, <2>2, <2>3, <2>4, <2>5, <2>6
<1>7. CASE LeaveAgent(p)
  <2> USE <1>7 DEF LeaveAgent, regVars
  <2>1. PcTypes' /\ pc'[p] = "sweep" /\ \A q \in Procs \ {p} : pc'[q] = pc[q]
    BY <1>0, PcFacts DEF Goto, MigratorPC
  <2>2. LockTypes'
    BY <1>0, DropAllFacts DEF LockTypes
  <2>3. RegTypes' /\ NamedExists'
    BY DEF RegTypes, NamedExists
  <2>4. LocalTypes'
    BY <1>0, <2>1, Constants DEF LocalTypes
  <2>5. Frame(p)
    BY <1>0, <2>1, Constants, DropAllFrame DEF Frame, RegTypes, Files
  <2>6. Holds(p)'
    BY <1>0, <2>1, Constants DEF Holds, HoldsCurrent, MigratorHolds
  <2> QED
    BY <2>1, <2>2, <2>3, <2>4, <2>5, <2>6
<1>8. CASE SweepOpen(p)
  <2> USE <1>8 DEF SweepOpen, SweepOn, regVars
  <2>1. PcTypes' /\ pc'[p] \in {"sweep", "idle", "opened"} /\ \A q \in Procs \ {p} : pc'[q] = pc[q]
    BY <1>0, PcFacts DEF Goto, MigratorPC
  <2>2. LockTypes'
    <3>1. swept[p] \in Both
      BY <1>0 DEF LocalTypes
    <3>2. named[swept[p]] # NoFile => named[swept[p]] \in Files
      BY <3>1, Constants DEF RegTypes, Files
    <3>3. fd' \in [Procs -> [lock : Files, gate : Files]]
      BY <1>0, <3>2 DEF LockTypes
    <3> QED
      BY <3>3 DEF LockTypes
  <2>3. RegTypes' /\ NamedExists'
    BY DEF RegTypes, NamedExists, Files
  <2>4. LocalTypes'
    <3>1. swept' \in [Procs -> Both]
      BY <1>0 DEF LocalTypes
    <3> QED
      BY <1>0, <2>1, <3>1 DEF LocalTypes
  <2>5. Frame(p)
    BY <1>0, <2>1, Constants DEF Frame, RegTypes, Files, LockTypes
  <2>6. Holds(p)'
    BY <1>0, <2>1, Constants DEF Holds, HoldsCurrent, MigratorHolds, LockTypes
  <2> QED
    BY <2>1, <2>2, <2>3, <2>4, <2>5, <2>6
<1>9. CASE SweepLock(p)
  <2> USE <1>9 DEF SweepLock, SweepOn, regVars
  <2>1. PcTypes' /\ pc'[p] \in {"remove", "sweep", "idle"} /\ \A q \in Procs \ {p} : pc'[q] = pc[q]
    BY <1>0, PcFacts DEF Goto, MigratorPC
  <2>2. LockTypes'
    BY <1>0, DropAllFacts DEF LockTypes
  <2>3. RegTypes' /\ NamedExists'
    BY DEF RegTypes, NamedExists
  <2>4. LocalTypes'
    <3>1. swept' \in [Procs -> Both]
      BY <1>0 DEF LocalTypes
    <3> QED
      BY <1>0, <2>1, <3>1 DEF LocalTypes
  <2>5. Frame(p)
    <3>1. \/ \E f \in Files : flock[f] = Nobody /\ flock' = [flock EXCEPT ![f] = p]
                             /\ UNCHANGED <<gateS, fd>>
          \/ UNCHANGED <<flock, gateS, fd>>
          \/ DropAll(p)
      BY <1>0 DEF LockTypes
    <3>2. \A q \in Procs \ {p} :
            /\ fd'[q] = fd[q]
            /\ \A f \in Files : flock'[f] = q <=> flock[f] = q
            /\ \A g \in Files : q \in gateS'[g] <=> q \in gateS[g]
      BY <1>0, <3>1, DropAllFrame, Constants DEF LockTypes
    <3> QED
      BY <1>0, <2>1, <3>2, Constants DEF Frame, RegTypes, Files
  <2>6. Holds(p)'
    BY <1>0, <2>1, Constants DEF Holds, HoldsCurrent, MigratorHolds
  <2> QED
    BY <2>1, <2>2, <2>3, <2>4, <2>5, <2>6
<1>10. CASE SweepRemove(p)
  <2> USE <1>10 DEF SweepRemove, SweepOn
  <2>1. PcTypes' /\ pc'[p] \in {"sweep", "idle"} /\ \A q \in Procs \ {p} : pc'[q] = pc[q]
    BY <1>0, PcFacts DEF Goto, MigratorPC
  <2>2. LockTypes'
    BY <1>0, DropAllFacts DEF LockTypes
  <2>3. RegTypes' /\ NamedExists'
    BY DEF RegTypes, NamedExists
  <2>4. LocalTypes'
    BY <1>0, <2>1, Constants DEF LocalTypes
  <2>5. Frame(p)
    BY <1>0, <2>1, Constants, DropAllFrame DEF Frame, RegTypes, Files
  <2>6. Holds(p)'
    BY <1>0, <2>1, Constants DEF Holds, HoldsCurrent, MigratorHolds
  <2> QED
    BY <2>1, <2>2, <2>3, <2>4, <2>5, <2>6
<1> QED
  BY <1>1, <1>2, <1>3, <1>4, <1>5, <1>6, <1>7, <1>8, <1>9, <1>10 DEF Migrate

\* The same for a step of an older build.
LEMMA OldStep ==
  ASSUME Inv, NEW p \in OldBuilds, Old(p)
  PROVE  TypeOK' /\ NamedExists' /\ Frame(p) /\ Holds(p)'
<1> USE DEF Inv, TypeOK
<1>0. /\ p \in Procs /\ {"lock"} \in SUBSET Both /\ "lock" \in Both
      /\ p \notin Builds /\ p \notin Migrators /\ Holds(p)
  BY Constants DEF Both, LocksHeld
<1>1. CASE OldOpen(p)
  <2> USE <1>1 DEF OldOpen
  <2>1. PcTypes' /\ pc'[p] = "old_wait" /\ \A q \in Procs \ {p} : pc'[q] = pc[q]
    BY <1>0, PcFacts DEF Goto, OldPC
  <2>2. LockTypes'
    BY <1>0, OpenLegacyFacts DEF LockTypes
  <2>3. RegTypes' /\ NamedExists'
    BY <1>0, OpenLegacyFacts DEF RegTypes, NamedExists
  <2>4. LocalTypes'
    BY <1>0, <2>1, Constants DEF LocalTypes
  <2>5. Frame(p)
    BY <1>0, <2>1, Constants, OpenLegacyFacts DEF Frame, RegTypes, Files, LockTypes
  <2>6. Holds(p)'
    BY <1>0, <2>1, Constants, OpenLegacyFacts DEF Holds, HoldsCurrent, OldHolds, LockTypes,
       RegTypes
  <2> QED
    BY <2>1, <2>2, <2>3, <2>4, <2>5, <2>6
<1>2. CASE OldLock(p)
  <2> USE <1>2 DEF OldLock, regVars
  <2>1. PcTypes' /\ pc'[p] = "old_locked" /\ \A q \in Procs \ {p} : pc'[q] = pc[q]
    BY <1>0, PcFacts DEF Goto, OldPC
  <2>2. LockTypes'
    BY <1>0 DEF LockTypes
  <2>3. RegTypes' /\ NamedExists'
    BY DEF RegTypes, NamedExists
  <2>4. LocalTypes'
    BY <1>0, <2>1, Constants DEF LocalTypes
  <2>5. Frame(p)
    BY <1>0, <2>1, Constants DEF Frame, RegTypes, Files, LockTypes
  <2>6. Holds(p)'
    BY <1>0, <2>1, Constants DEF Holds, HoldsCurrent, OldHolds, LockTypes, Files, RegTypes
  <2> QED
    BY <2>1, <2>2, <2>3, <2>4, <2>5, <2>6
<1>3. CASE OldLoad(p)
  <2> USE <1>3 DEF OldLoad, FilesUnchanged, regVars
  <2>1. PcTypes' /\ pc'[p] \in {"old_work", "idle"} /\ \A q \in Procs \ {p} : pc'[q] = pc[q]
    BY <1>0, PcFacts DEF Goto, OldPC
  <2>2. LockTypes'
    BY <1>0, DropAllFacts DEF LockTypes
  <2>3. RegTypes' /\ NamedExists'
    BY DEF RegTypes, NamedExists
  <2>4. LocalTypes'
    BY <1>0, <2>1, Constants DEF LocalTypes
  <2>5. Frame(p)
    BY <1>0, <2>1, Constants, DropAllFrame DEF Frame, RegTypes, Files
  <2>6. Holds(p)'
    <3>1. CASE pc'[p] = "idle"
      BY <1>0, <3>1 DEF Holds, HoldsCurrent, OldHolds
    <3>2. CASE pc'[p] = "old_work" /\ FilesUnchanged
      BY <1>0, <3>2 DEF Holds, HoldsCurrent, OldHolds
    <3> QED
      BY <1>0, <2>1, <3>1, <3>2 DEF Goto, PcTypes
  <2> QED
    BY <2>1, <2>2, <2>3, <2>4, <2>5, <2>6
<1>4. CASE OldRelease(p)
  <2> USE <1>4 DEF OldRelease, regVars
  <2>1. PcTypes' /\ pc'[p] = "idle" /\ \A q \in Procs \ {p} : pc'[q] = pc[q]
    BY <1>0, PcFacts DEF Goto, OldPC
  <2>2. LockTypes'
    BY <1>0, DropAllFacts DEF LockTypes
  <2>3. RegTypes' /\ NamedExists'
    BY DEF RegTypes, NamedExists
  <2>4. LocalTypes'
    BY <1>0, <2>1, Constants DEF LocalTypes
  <2>5. Frame(p)
    BY <1>0, <2>1, Constants, DropAllFrame DEF Frame, RegTypes, Files
  <2>6. Holds(p)'
    BY <1>0, <2>1, Constants DEF Holds, HoldsCurrent, OldHolds
  <2> QED
    BY <2>1, <2>2, <2>3, <2>4, <2>5, <2>6
<1> QED
  BY <1>1, <1>2, <1>3, <1>4 DEF Old

\* A crash closes the files of its process; the clock touches nothing else.
LEMMA CrashStep ==
  ASSUME Inv, NEW p \in Procs, Crash(p) \/ TimePasses(p)
  PROVE  TypeOK' /\ NamedExists' /\ Frame(p) /\ Holds(p)'
<1> USE DEF Inv, TypeOK
<1>0. "lock" \in Both /\ Holds(p)
  BY DEF Both, LocksHeld
<1>1. CASE Crash(p)
  <2> USE <1>1 DEF Crash, Leave, regVars
  <2>1. PcTypes' /\ pc'[p] = "idle" /\ \A q \in Procs \ {p} : pc'[q] = pc[q]
    BY PcFacts, Constants DEF BuildPC, MigratorPC, OldPC
  <2>2. LockTypes'
    BY DropAllFacts DEF LockTypes
  <2>3. RegTypes' /\ NamedExists'
    BY DEF RegTypes, NamedExists
  <2>4. LocalTypes'
    <3>1. Nowhere \in [loc : {"none", "legacy", "current"}, first : Files,
                       tries : 0 .. MaxRelocks]
      BY Constants DEF Nowhere
    <3>2. /\ at' \in [Procs -> [loc : {"none", "legacy", "current"}, first : Files,
                                tries : 0 .. MaxRelocks]]
          /\ swept' \in [Procs -> Both] /\ work' \in 0 .. MaxWork
      BY <1>0, <3>1, Constants DEF LocalTypes
    <3>3. overtaken' \in [Priority -> [Procs -> 0 .. 2]]
      BY DEF LocalTypes, Forget
    <3>4. \A q \in Procs : /\ pc'[q] = "idle" \/ q \notin Builds => at'[q] = Nowhere
                           /\ pc'[q] = "again" => at'[q].tries > 0
      BY <2>1 DEF LocalTypes
    <3> QED
      BY <3>2, <3>3, <3>4 DEF LocalTypes
  <2>5. Frame(p)
    BY <1>0, <2>1, Constants, DropAllFrame DEF Frame, LockTypes, RegTypes, LocalTypes, Files
  <2>6. Holds(p)'
    BY <1>0, <2>1 DEF Holds, HoldsCurrent, HoldsFirst, MigratorHolds, OldHolds
  <2> QED
    BY <2>1, <2>2, <2>3, <2>4, <2>5, <2>6
<1>2. CASE TimePasses(p)
  <2> USE <1>2 DEF TimePasses, DeferenceExpires, regVars
  <2>1. PcTypes' /\ LockTypes'
    BY DEF PcTypes, LockTypes
  <2>2. RegTypes' /\ NamedExists'
    BY DEF RegTypes, NamedExists
  <2>3. LocalTypes'
    BY DEF LocalTypes
  <2>4. Frame(p)
    BY <1>0, Constants DEF Frame, LockTypes, RegTypes, Files
  <2>5. Holds(p)'
    BY <1>0 DEF Holds, HoldsCurrent, HoldsFirst, MigratorHolds, OldHolds
  <2> QED
    BY <2>1, <2>2, <2>3, <2>4, <2>5
<1> QED
  BY <1>1, <1>2

\* What every process relies on survives a step of any process.
LEMMA StepHolds ==
  ASSUME Inv, NEW p \in Procs, Step(p)
  PROVE  TypeOK' /\ NamedExists' /\ Frame(p) /\ LocksHeld'
<1>1. TypeOK' /\ NamedExists' /\ Frame(p) /\ Holds(p)'
  BY BuildStep, MigrateStep, OldStep, CrashStep DEF Step
<1>2. ASSUME NEW q \in Procs, q # p PROVE Holds(q)'
  <2>1. Holds(q) /\ q \in Procs \ {p} /\ 0 \in Files
    BY <1>2, Constants DEF Inv, LocksHeld
  <2>2. /\ pc'[q] = pc[q] /\ fd'[q] = fd[q] /\ at'[q] = at[q]
        /\ \A f \in Files : flock[f] = q => flock'[f] = q
    BY <1>1, <2>1 DEF Frame
  <2>3. fd[q].lock \in Files /\ at[q].first \in Files
    BY DEF Inv, TypeOK, LockTypes, LocalTypes
  <2>4. ASSUME NEW f \in 1 .. created["lock"] PROVE f \in 1 .. created'["lock"]
    <3>1. created["lock"] \in Nat /\ created'["lock"] \in Nat
      BY <1>1, Constants DEF Inv, TypeOK, RegTypes, Both, Files
    <3> QED
      BY <1>1, <3>1 DEF Frame
  <2>5. HoldsCurrent(q)'
    BY <2>1, <2>2 DEF Holds, HoldsCurrent
  <2>6. q \in Builds => HoldsFirst(q)'
    BY <2>1, <2>2, <2>3, <2>4 DEF Holds, HoldsFirst
  <2>7. q \in Migrators => MigratorHolds(q)'
    BY <2>1, <2>2, <2>3, <2>4 DEF Holds, MigratorHolds
  <2>8. q \in OldBuilds => OldHolds(q)'
    BY <2>1, <2>2, <2>3, <2>4 DEF Holds, OldHolds
  <2> QED
    BY <2>5, <2>6, <2>7, <2>8 DEF Holds
<1> QED
  BY <1>1, <1>2 DEF LocksHeld

-----------------------------------------------------------------------------
(***************************************************************************)
(* The agent's directory.                                                  *)
(***************************************************************************)

\* Where locate finds the agent.
LEMMA LocateValue ==
  ASSUME RegTypes
  PROVE  /\ legacy = "agent" /\ current => Locate = "both"
         /\ legacy # "absent" /\ ~current => Locate = "legacy"
         /\ legacy # "agent" /\ current => Locate = "current"
         /\ legacy = "absent" => Locate = "current"
BY DEF Locate, RegTypes

\* Two owners would both hold the layout-2 lock.
LEMMA InvOneOwner ==
  ASSUME Inv
  PROVE  OneOwner
BY DEF Inv, LocksHeld, Holds, HoldsCurrent, OneOwner, Owner

\* An older build at work and an owner would both hold the only layout-1 lock.
LEMMA InvOldAndNewExclude ==
  ASSUME Inv
  PROVE  OldAndNewExclude
<1> SUFFICES ASSUME NEW b \in OldBuilds, NEW p \in Procs, pc[b] = "old_work", Owner(p)
             PROVE  FALSE
  BY DEF OldAndNewExclude
<1>1. b \in Procs /\ b # p /\ p \notin OldBuilds
  BY Constants DEF Owner, Inv, TypeOK, PcTypes, OldPC
<1>2. legacy = "agent" /\ ~current /\ created["lock"] \in Nat /\ created["lock"] <= 1
  BY Constants DEF Inv, OldWorksInLegacy, OneLegacyLock, TypeOK, RegTypes, Both, Files
<1>3. fd[b].lock \in 1 .. created["lock"] /\ flock[fd[b].lock] = b
  BY <1>1 DEF Inv, LocksHeld, Holds, OldHolds
<1>4. flock[1] = b
  <2>1. fd[b].lock = 1
    BY <1>2, <1>3
  <2> QED
    BY <1>3, <2>1
<1>5. pc[p] \in {"held", "both"}
  BY <1>2 DEF Owner, Inv, OneLegacyLock
<1>6. CASE pc[p] = "held"
  <2>1. p \in Builds
    BY <1>1, <1>6, Constants DEF Inv, TypeOK, PcTypes, MigratorPC
  <2>2. at[p].loc = "legacy"
    BY <1>2, <1>6, LocateValue DEF Inv, TypeOK, HolderFindsAgent
  <2>3. at[p].first \in 1 .. created["lock"] /\ flock[at[p].first] = p
    BY <1>6, <2>1, <2>2 DEF Inv, LocksHeld, Holds, HoldsFirst
  <2>4. at[p].first = 1
    BY <1>2, <2>3
  <2> QED
    BY <1>1, <1>4, <2>3, <2>4
<1>7. CASE pc[p] = "both"
  <2>1. p \in Migrators
    BY <1>1, <1>7, Constants DEF Inv, TypeOK, PcTypes, BuildPC, Waiting
  <2>2. fd[p].lock \in 1 .. created["lock"] /\ flock[fd[p].lock] = p
    BY <1>7, <2>1 DEF Inv, LocksHeld, Holds, MigratorHolds
  <2>3. fd[p].lock = 1
    BY <1>2, <2>2
  <2> QED
    BY <1>1, <1>4, <2>2, <2>3
<1> QED
  BY <1>5, <1>6, <1>7

\* Only an owner moves, creates or archives the agent.
LEMMA OwnerChanges ==
  ASSUME NEW p \in Procs, Step(p), ~(UNCHANGED <<legacy, current>>)
  PROVE  Owner(p)
<1>1. ASSUME Build(p) PROVE UNCHANGED <<legacy, current>> \/ Owner(p)
  BY <1>1 DEF Build, Find, OpenFirst, OpenFails, Wait, TakeLock, OpenSecond, Check, CreateAgent,
     ArchiveAgent, Release, GiveUp, Owner, regVars
<1>2. ASSUME Migrate(p) PROVE UNCHANGED <<legacy, current>> \/ Owner(p)
  BY <1>2 DEF Migrate, MigrateStart, MigrateOpen, MigrateLockFirst, MigrateLockSecond,
     MigrateMove, MigrateRemoveLocks, LeaveAgent, SweepOpen, SweepLock, SweepRemove, Owner, regVars
<1>3. ASSUME Old(p) PROVE UNCHANGED <<legacy, current>>
  BY <1>3 DEF Old, OldOpen, OldLock, OldLoad, OldRelease, regVars
<1>4. ASSUME TimePasses(p) \/ Crash(p) PROVE UNCHANGED <<legacy, current>>
  BY <1>4 DEF TimePasses, Crash, regVars
<1> QED
  BY <1>1, <1>2, <1>3, <1>4 DEF Step

\* The second look finds the agent where it was locked, and nothing is moved
\* in the step that takes the lock for held.
LEMMA HeldAfterCheck ==
  ASSUME Inv, NEW p \in Procs, Step(p), TypeOK', pc'[p] = "held"
  PROVE  Locate = at[p].loc /\ at'[p] = at[p] /\ UNCHANGED <<legacy, current>>
<1> USE DEF Inv, TypeOK
<1>1. p \in Builds
  BY Constants DEF PcTypes, MigratorPC, OldPC
<1>2. CASE Check(p)
  <2>1. StillCurrent(p) /\ UNCHANGED at
    BY <1>2 DEF Check, Goto, Leave, PcTypes
  <2> QED
    BY <1>2, <2>1 DEF StillCurrent, Check, regVars
<1>3. CASE TimePasses(p)
  BY <1>3 DEF TimePasses, DeferenceExpires, regVars, HolderFindsAgent
<1>4. Build(p) \/ TimePasses(p)
  BY <1>1, Constants DEF Step, Crash, Leave, Goto, PcTypes
<1>5. ASSUME Build(p), ~Check(p) PROVE FALSE
  <2>1. ~Wait(p)
    BY DEF Wait, Loop, Register, AskGate, PassGate, Defer, Busy, Sleep, PcTypes
  <2>2. ~(Find(p) \/ OpenFirst(p) \/ OpenFails(p) \/ OpenSecond(p) \/ Release(p))
    BY DEF Find, OpenFirst, OpenFails, OpenSecond, Release, Leave, Goto, PcTypes
  <2>3. ~(TakeLock(p) \/ CreateAgent(p) \/ ArchiveAgent(p) \/ GiveUp(p))
    BY DEF TakeLock, Take, CreateAgent, ArchiveAgent, GiveUp, Cancel, Goto, PcTypes
  <2> QED
    BY <1>5, <2>1, <2>2, <2>3 DEF Build
<1> QED
  BY <1>2, <1>3, <1>4, <1>5

\* A holder finds the agent where it locked it: the others would have to own
\* the agent to move it.
LEMMA StepHolderFindsAgent ==
  ASSUME Inv, NEW p \in Procs, Step(p), TypeOK', Frame(p)
  PROVE  HolderFindsAgent'
<1> SUFFICES ASSUME NEW q \in Procs, pc'[q] = "held" PROVE Locate' = at'[q].loc
  BY DEF HolderFindsAgent
<1>1. UNCHANGED <<legacy, current>> => Locate' = Locate
  BY DEF Locate
<1>2. CASE q = p
  BY <1>1, <1>2, HeldAfterCheck
<1>3. CASE q # p
  <2>1. pc[q] = "held" /\ at'[q] = at[q] /\ Locate = at[q].loc
    BY <1>3 DEF Frame, Inv, HolderFindsAgent
  <2>2. ~Owner(p)
    BY <1>3, <2>1, InvOneOwner DEF OneOwner, Owner
  <2> QED
    BY <1>1, <2>1, <2>2, OwnerChanges
<1> QED
  BY <1>2, <1>3

\* An older build at work keeps the agent in layout 1.
LEMMA StepOldWorks ==
  ASSUME Inv, NEW p \in Procs, Step(p), TypeOK', Frame(p)
  PROVE  OldWorksInLegacy'
<1> SUFFICES ASSUME NEW b \in OldBuilds, pc'[b] = "old_work" PROVE legacy' = "agent"
  BY DEF OldWorksInLegacy
<1>0. b \in Procs /\ b \notin Builds /\ b \notin Migrators
  BY Constants
<1>1. CASE pc[b] = "old_work"
  <2>1. legacy = "agent" /\ ~Owner(p)
    BY <1>1, InvOldAndNewExclude DEF Inv, OldWorksInLegacy, OldAndNewExclude
  <2> QED
    BY <2>1, OwnerChanges
<1>2. CASE pc[b] # "old_work"
  <2>1. b = p
    BY <1>0, <1>2 DEF Frame
  <2>2. Old(p)
    BY <1>0, <1>2, <2>1 DEF Step, TimePasses, DeferenceExpires, Crash, Leave, Goto, Inv, TypeOK,
       PcTypes
  <2>3. ~(OldOpen(p) \/ OldLock(p) \/ OldRelease(p))
    BY <2>1 DEF OldOpen, OldLock, OldRelease, Goto, Inv, TypeOK, PcTypes
  <2>4. OldLoad(p)
    BY <2>2, <2>3 DEF Old
  <2> QED
    BY <2>1, <2>4 DEF OldLoad, Goto, Inv, TypeOK, PcTypes, regVars
<1> QED
  BY <1>1, <1>2

\* While the agent is in layout 1, its lock file is created once at most and
\* never deleted, and nothing that deletes it starts.
LEMMA StepOneLegacyLock ==
  ASSUME Inv, NEW p \in Procs, Step(p), TypeOK', Frame(p)
  PROVE  OneLegacyLock'
<1> USE DEF Inv, TypeOK
<1> DEFINE Deleting == {"opened", "remove", "moved", "leaving"}
<1> SUFFICES ASSUME legacy' = "agent" PROVE OneLegacyLock'
  BY DEF OneLegacyLock
<1>0. "lock" \in Both /\ Both \in SUBSET Both /\ {"lock"} \in SUBSET Both
  BY DEF Both
<1>1. /\ legacy = "agent" /\ ~current /\ created["lock"] <= 1
      /\ named["lock"] = NoFile => created["lock"] = 0
      /\ pc[p] \notin Deleting
      /\ \A q \in Procs \ {p} : pc'[q] \notin Deleting
  BY DEF Frame, OneLegacyLock
<1>2. Locate = "legacy"
  BY <1>1, LocateValue
<1>3. pc[p] = "held" => at[p].loc = "legacy"
  BY <1>2 DEF HolderFindsAgent
<1>4. ASSUME UNCHANGED <<current, named, created>>, pc'[p] \notin Deleting
      PROVE  OneLegacyLock'
  BY <1>1, <1>4 DEF OneLegacyLock
<1>5. ASSUME NEW paths \in SUBSET Both, OpenLegacy(paths), UNCHANGED current,
             pc'[p] \notin Deleting
      PROVE  OneLegacyLock'
  <2>1. /\ named["lock"] # NoFile =>
             named'["lock"] = named["lock"] /\ created'["lock"] = created["lock"]
        /\ named["lock"] = NoFile /\ "lock" \in paths =>
             named'["lock"] = created["lock"] + 1 /\ created'["lock"] = created["lock"] + 1
        /\ "lock" \notin paths =>
             named'["lock"] = named["lock"] /\ created'["lock"] = created["lock"]
    BY <1>0, <1>5, OpenLegacyFacts
  <2>2. "lock" \in paths => named'["lock"] # NoFile
    BY <1>5, OpenLegacyFacts
  <2> QED
    BY <1>1, <1>5, <2>1, <2>2 DEF OneLegacyLock
<1>6. CASE p \in Builds /\ Build(p)
  <2>1. pc'[p] \in {"idle", "again", "open", "second", "check", "held"} \cup Waiting
        /\ UNCHANGED current
    <3>1. ~CreateAgent(p) /\ ~ArchiveAgent(p)
      BY <1>1, <1>3 DEF CreateAgent, ArchiveAgent
    <3>2. CASE Wait(p)
      BY <3>2 DEF Wait, Loop, Register, AskGate, PassGate, Defer, Busy, Sleep, PcTypes, Waiting,
         regVars
    <3>3. CASE Find(p) \/ OpenFirst(p) \/ OpenFails(p) \/ OpenSecond(p) \/ Release(p)
      BY <3>3 DEF Find, OpenFirst, OpenFails, OpenSecond, Release, Leave, Goto, PcTypes, Waiting,
         regVars
    <3>4. CASE TakeLock(p) \/ GiveUp(p)
      BY <3>4 DEF TakeLock, Take, GiveUp, Cancel, PcTypes, regVars
    <3>5. CASE Check(p)
      BY <3>5 DEF Check, Leave, Goto, PcTypes, regVars
    <3> QED
      BY <1>6, <3>1, <3>2, <3>3, <3>4, <3>5 DEF Build
  <2>2. UNCHANGED <<named, created>> \/ OpenLegacy(Both)
    BY <1>6 DEF Build, Find, OpenFirst, OpenFails, Wait, TakeLock, OpenSecond, Check, CreateAgent,
       ArchiveAgent, Release, GiveUp, regVars
  <2> QED
    BY <1>0, <1>4, <1>5, <2>1, <2>2 DEF Waiting
<1>7. CASE p \in Migrators /\ Migrate(p)
  <2>1. ~(MigrateMove(p) \/ MigrateRemoveLocks(p) \/ SweepLock(p) \/ SweepRemove(p))
    BY <1>1 DEF MigrateMove, MigrateRemoveLocks, SweepLock, SweepRemove
  <2>2. CASE MigrateStart(p) \/ LeaveAgent(p) \/ SweepOpen(p)
    <3>1. UNCHANGED <<current, named, created>>
      BY <2>2 DEF MigrateStart, LeaveAgent, SweepOpen, regVars
    <3>2. pc'[p] \notin Deleting
      BY <1>2, <2>2 DEF MigrateStart, LeaveAgent, SweepOpen, SweepOn, Goto, PcTypes
    <3> QED
      BY <1>4, <3>1, <3>2
  <2>3. CASE MigrateOpen(p)
    <3>1. pc'[p] = "asked"
      BY <2>3 DEF MigrateOpen, Goto, PcTypes
    <3> QED
      BY <1>0, <1>5, <2>3, <3>1 DEF MigrateOpen
  <2>4. CASE MigrateLockFirst(p) \/ MigrateLockSecond(p)
    BY <1>4, <2>4 DEF MigrateLockFirst, MigrateLockSecond, Goto, PcTypes, regVars
  <2> QED
    BY <1>7, <2>1, <2>2, <2>3, <2>4 DEF Migrate
<1>8. CASE p \in OldBuilds /\ Old(p)
  <2>1. pc'[p] \notin Deleting
    BY <1>8 DEF PcTypes, OldPC
  <2>2. CASE OldOpen(p)
    BY <1>0, <1>5, <2>1, <2>2 DEF OldOpen
  <2>3. CASE OldLock(p) \/ OldLoad(p) \/ OldRelease(p)
    BY <1>4, <2>1, <2>3 DEF OldLock, OldLoad, OldRelease, regVars
  <2> QED
    BY <1>8, <2>2, <2>3 DEF Old
<1>9. CASE TimePasses(p) \/ Crash(p)
  <2>1. UNCHANGED <<current, named, created>>
    BY <1>9 DEF TimePasses, Crash, regVars
  <2>2. pc'[p] \notin Deleting
    BY <1>1, <1>9 DEF TimePasses, DeferenceExpires, Crash, Leave, Goto, PcTypes
  <2> QED
    BY <1>4, <2>1, <2>2
<1> QED
  BY <1>6, <1>7, <1>8, <1>9 DEF Step

-----------------------------------------------------------------------------
(***************************************************************************)
(* The ranked waiters.                                                     *)
(***************************************************************************)

\* A step that is not part of a wait: it starts and ends outside the turns.
Elsewhere(p) ==
  /\ pc[p] \notin Waiting /\ pc'[p] \notin {"passed", "try"}
  /\ overtaken' = overtaken
  /\ \A g \in Files : p \in gateS'[g] => p \in gateS[g]

\* Giving up and dying: every file is closed and the history starts again.
Abandons(p) ==
  Forget(p) /\ pc'[p] = "idle" /\ \A g \in Files : p \notin gateS'[g]

\* What a step can be to the waiters.
LEMMA WaiterStep ==
  ASSUME Inv, NEW p \in Procs, Step(p), TypeOK'
  PROVE  \/ p \in Builds /\ (Wait(p) \/ TakeLock(p))
         \/ TimePasses(p) \/ Abandons(p) \/ Elsewhere(p)
<1> USE DEF Inv, TypeOK
<1>1. ASSUME DropAll(p) PROVE \A g \in Files : p \notin gateS'[g]
  BY <1>1, DropAllFacts
<1>2. CASE p \in Builds /\ Build(p)
  <2>1. CASE Find(p) \/ OpenFirst(p) \/ OpenSecond(p)
    BY <2>1 DEF Find, OpenFirst, OpenSecond, Goto, PcTypes, Waiting, Elsewhere
  <2>2. CASE OpenFails(p) \/ Release(p)
    BY <1>1, <2>2 DEF OpenFails, Release, Leave, Goto, PcTypes, Waiting, Elsewhere
  <2>3. CASE Check(p)
    BY <1>1, <2>3 DEF Check, FilesUnchanged, Leave, Goto, PcTypes, Waiting, Elsewhere
  <2>4. CASE CreateAgent(p) \/ ArchiveAgent(p)
    BY <2>4 DEF CreateAgent, ArchiveAgent, FilesUnchanged, Goto, PcTypes, Waiting, Elsewhere
  <2>5. CASE GiveUp(p)
    BY <1>1, <2>5 DEF GiveUp, Cancel, PcTypes, Abandons
  <2> QED
    BY <1>2, <2>1, <2>2, <2>3, <2>4, <2>5 DEF Build
<1>3. CASE p \in Migrators /\ Migrate(p)
  <2>1. pc[p] \notin Waiting /\ pc'[p] \notin {"passed", "try"}
    BY <1>3 DEF PcTypes, MigratorPC, Waiting
  <2>2. overtaken' = overtaken
    BY <1>3 DEF Migrate, MigrateStart, MigrateOpen, MigrateLockFirst, MigrateLockSecond,
       MigrateMove, MigrateRemoveLocks, LeaveAgent, SweepOpen, SweepLock, SweepRemove
  <2>3. DropAll(p) \/ UNCHANGED gateS
    BY <1>3 DEF Migrate, MigrateStart, MigrateOpen, MigrateLockFirst, MigrateLockSecond,
       MigrateMove, MigrateRemoveLocks, LeaveAgent, SweepOpen, SweepLock, SweepRemove,
       FilesUnchanged
  <2> QED
    BY <1>1, <2>1, <2>2, <2>3 DEF Elsewhere
<1>4. CASE p \in OldBuilds /\ Old(p)
  <2>1. pc[p] \notin Waiting /\ pc'[p] \notin {"passed", "try"}
    BY <1>4 DEF PcTypes, OldPC, Waiting
  <2>2. overtaken' = overtaken /\ (DropAll(p) \/ UNCHANGED gateS)
    BY <1>4 DEF Old, OldOpen, OldLock, OldLoad, OldRelease, FilesUnchanged
  <2> QED
    BY <1>1, <2>1, <2>2 DEF Elsewhere
<1>5. CASE Crash(p)
  BY <1>1, <1>5 DEF Crash, Leave, Goto, PcTypes, Abandons
<1> QED
  BY <1>2, <1>3, <1>4, <1>5 DEF Step

\* A turn of the loop keeps the waiter waiting at its gate, and keeps its
\* registration.
LEMMA WaitStays ==
  ASSUME Inv, NEW p \in Procs, Wait(p) \/ TimePasses(p)
  PROVE  /\ Wait(p) => pc'[p] \in Waiting
         /\ fd' = fd /\ overtaken' = overtaken
         /\ TimePasses(p) => pc' = pc /\ gateS' = gateS
         /\ \A g \in Files : /\ p \in gateS[g] => p \in gateS'[g]
                             /\ p \in gateS'[g] => p \in gateS[g] \/ g = fd[p].gate
<1> USE DEF Inv, TypeOK
<1>1. CASE TimePasses(p)
  BY <1>1, Constants
  DEF TimePasses, DeferenceExpires, Wait, Loop, Register, AskGate, PassGate, Defer, Busy,
     Sleep, PcTypes, Waiting
<1>2. CASE Wait(p)
  <2>1. pc'[p] \in Waiting /\ fd' = fd /\ overtaken' = overtaken
    BY <1>2 DEF Wait, Loop, Register, AskGate, PassGate, Defer, Busy, Sleep, PcTypes, Waiting
  <2>2. UNCHANGED gateS \/ gateS' = [gateS EXCEPT ![fd[p].gate] = @ \cup {p}]
    BY <1>2 DEF Wait, Loop, Register, AskGate, PassGate, Defer, Busy, Sleep
  <2>3. TimePasses(p) => pc' = pc /\ gateS' = gateS
    BY DEF TimePasses, DeferenceExpires
  <2> QED
    BY <2>1, <2>2, <2>3 DEF LockTypes
<1> QED
  BY <1>1, <1>2

\* No registration outlives its wait.
LEMMA StepRegistrationEnds ==
  ASSUME Inv, NEW p \in Procs, Step(p), TypeOK', Frame(p)
  PROVE  RegistrationEnds'
<1> USE DEF Inv, TypeOK
<1> SUFFICES ASSUME NEW g \in Files, NEW q \in gateS'[g]
             PROVE  pc'[q] \in Waiting /\ fd'[q].gate = g
  BY DEF RegistrationEnds
<1>0. q \in Procs
  BY DEF LockTypes
<1>1. CASE q # p
  BY <1>0, <1>1 DEF Frame, RegistrationEnds
<1>2. CASE q = p
  <2>1. CASE p \in Builds /\ Wait(p)
    BY <1>2, <2>1, WaitStays DEF RegistrationEnds
  <2>2. CASE TimePasses(p)
    BY <1>2, <2>2, WaitStays DEF RegistrationEnds
  <2>3. CASE p \in Builds /\ TakeLock(p)
    BY <1>2, <2>3 DEF TakeLock, Take, LockTypes, RegistrationEnds
  <2>4. CASE Abandons(p) \/ Elsewhere(p)
    BY <1>2, <2>4 DEF Abandons, Elsewhere, RegistrationEnds
  <2> QED
    BY <2>1, <2>2, <2>3, <2>4, WaiterStep
<1> QED
  BY <1>1, <1>2

\* A waiter's history counts only what happens while it is registered.
LEMMA OvertakenBefore ==
  ASSUME Inv, NEW p \in Procs, Step(p), TypeOK', Frame(p),
         NEW w \in Priority, NEW q \in Procs \ Priority, overtaken'[w][q] > 0
  PROVE  /\ w \in gateS[fd[w].gate] /\ w \in gateS'[fd'[w].gate] /\ fd'[w] = fd[w]
         /\ \/ overtaken'[w][q] = overtaken[w][q]
            \/ /\ p = q /\ TakeLock(p) /\ deferring[p] # "expired"
               /\ fd[p].gate = fd[w].gate /\ overtaken'[w][q] = overtaken[w][q] + 1
<1> USE DEF Inv, TypeOK
<1>0. w \in Procs /\ w # q /\ fd[w].gate \in Files /\ fd[p].gate \in Files
      /\ overtaken[w][q] \in 0 .. 2
  BY Constants DEF LockTypes, LocalTypes
<1>1. CASE p \in Builds /\ TakeLock(p)
  <2>1. p # w
    BY <1>1 DEF TakeLock, CountOvertaking
  <2>2. \/ overtaken'[w][q] = overtaken[w][q]
        \/ /\ p = q /\ w \in gateS[fd[p].gate] /\ deferring[p] # "expired"
           /\ overtaken'[w][q] = overtaken[w][q] + 1
    BY <1>0, <1>1, <2>1 DEF TakeLock, CountOvertaking, LocalTypes
  <2>3. w \in gateS[fd[p].gate] => fd[w].gate = fd[p].gate
    BY <1>0 DEF RegistrationEnds
  <2>4. w \in gateS[fd[w].gate]
    BY <1>0, <2>2, <2>3 DEF OvertakenIsRegistered
  <2>5. fd'[w] = fd[w] /\ w \in gateS'[fd[w].gate]
    BY <1>0, <2>1, <2>4 DEF Frame
  <2> QED
    BY <1>1, <2>2, <2>3, <2>4, <2>5
<1>2. CASE Abandons(p)
  <2>1. p # w /\ overtaken'[w][q] = overtaken[w][q]
    BY <1>2 DEF Abandons, Forget
  <2>2. w \in gateS[fd[w].gate]
    BY <2>1 DEF OvertakenIsRegistered
  <2> QED
    BY <1>0, <2>1, <2>2 DEF Frame
<1>3. CASE overtaken' = overtaken
  <2>1. w \in gateS[fd[w].gate] /\ pc[w] \in Waiting
    BY <1>0, <1>3 DEF OvertakenIsRegistered, RegistrationEnds
  <2>2. CASE p # w
    BY <1>0, <1>3, <2>1, <2>2 DEF Frame
  <2>3. CASE p = w /\ (Wait(p) \/ TimePasses(p))
    BY <1>0, <1>3, <2>1, <2>3, WaitStays
  <2>4. CASE p = w /\ (Elsewhere(p) \/ Abandons(p))
    BY <1>2, <2>1, <2>4 DEF Elsewhere
  <2> QED
    BY <1>1, <2>2, <2>3, <2>4, WaiterStep
<1> QED
  BY <1>1, <1>2, <1>3, WaiterStep, WaitStays DEF Elsewhere

\* An ordinary sender that has overtaken a waiter is held off by its gate.
LEMMA StepOvertaken ==
  ASSUME Inv, NEW p \in Procs, Step(p), TypeOK', Frame(p)
  PROVE  OvertakenIsRegistered' /\ OvertakenAtMostOnce'
<1> USE DEF Inv, TypeOK
<1>1. ASSUME NEW w \in Priority, NEW q \in Procs \ Priority, overtaken'[w][q] > 0,
             fd'[q].gate = fd'[w].gate
      PROVE  pc'[q] # "passed" /\ (pc'[q] = "try" => deferring'[q] = "expired")
  <2>1. /\ w \in gateS[fd[w].gate] /\ fd'[w] = fd[w]
        /\ \/ overtaken'[w][q] = overtaken[w][q]
           \/ p = q /\ TakeLock(p)
    BY <1>1, OvertakenBefore
  <2>2. CASE p # q
    BY <1>1, <2>1, <2>2 DEF Frame, OvertakenIsRegistered
  <2>3. CASE p = q /\ TakeLock(p)
    BY <2>3 DEF TakeLock, Take, PcTypes
  <2>4. CASE p = q /\ (Abandons(p) \/ Elsewhere(p))
    BY <2>4 DEF Abandons, Elsewhere
  <2>5. CASE p = q /\ (Wait(p) \/ TimePasses(p))
    <3>1. overtaken[w][q] > 0 /\ fd[q].gate = fd[w].gate
      BY <1>1, <2>1, <2>5, WaitStays
    <3>2. pc[q] # "passed" /\ (pc[q] = "try" => deferring[q] = "expired")
      BY <3>1 DEF OvertakenIsRegistered
    <3>3. ~GateFree(fd[q].gate)
      BY <2>1, <3>1 DEF GateFree
    <3>4. CASE TimePasses(p)
      BY <2>5, <3>2, <3>4 DEF TimePasses, DeferenceExpires
    <3>5. CASE Wait(p)
      BY <2>5, <3>2, <3>3, <3>5 DEF Wait, Loop, Register, AskGate, PassGate, Defer, Busy, Sleep,
         PcTypes, LockTypes
    <3> QED
      BY <2>5, <3>4, <3>5
  <2> QED
    BY <2>2, <2>3, <2>4, <2>5, WaiterStep
<1>2. OvertakenIsRegistered'
  BY <1>1, OvertakenBefore DEF OvertakenIsRegistered
<1>3. ASSUME NEW w \in Priority, NEW q \in Procs \ Priority PROVE overtaken'[w][q] <= 1
  <2>1. overtaken[w][q] \in 0 .. 2 /\ overtaken'[w][q] \in 0 .. 2 /\ overtaken[w][q] <= 1
    BY DEF LocalTypes, OvertakenAtMostOnce
  <2>2. CASE overtaken'[w][q] = 0 \/ overtaken'[w][q] = overtaken[w][q]
    BY <2>1, <2>2
  <2>3. CASE overtaken'[w][q] > 0 /\ overtaken'[w][q] # overtaken[w][q]
    <3>1. /\ p = q /\ TakeLock(p) /\ deferring[p] # "expired" /\ fd[p].gate = fd[w].gate
          /\ overtaken'[w][q] = overtaken[w][q] + 1
      BY <2>3, OvertakenBefore
    <3>2. pc[p] = "try"
      BY <3>1 DEF TakeLock, Take
    <3>3. ~(overtaken[w][q] > 0)
      BY <3>1, <3>2 DEF OvertakenIsRegistered
    <3> QED
      BY <2>1, <3>1, <3>3
  <2> QED
    BY <2>1, <2>2, <2>3
<1> QED
  BY <1>2, <1>3 DEF OvertakenAtMostOnce

-----------------------------------------------------------------------------
(***************************************************************************)
(* The theorems.                                                           *)
(***************************************************************************)

\* The invariant holds at first.
LEMMA InitInv == Init => Inv
<1> SUFFICES ASSUME Init PROVE Inv
  OBVIOUS
<1> USE DEF Init
<1>1. PcTypes
  BY Constants DEF PcTypes, BuildPC, MigratorPC, OldPC
<1>2. LockTypes
  BY ClosedFile DEF LockTypes
<1>3. RegTypes /\ NamedExists
  BY Constants DEF RegTypes, NamedExists
<1>4. LocalTypes
  BY Constants DEF LocalTypes, Nowhere, Both
<1>5. LocksHeld /\ OldWorksInLegacy /\ HolderFindsAgent
  BY Constants DEF LocksHeld, Holds, HoldsCurrent, HoldsFirst, MigratorHolds, OldHolds,
     OldWorksInLegacy, HolderFindsAgent
<1>6. OneLegacyLock
  BY DEF OneLegacyLock, Both
<1>7. RegistrationEnds /\ OvertakenIsRegistered /\ OvertakenAtMostOnce
  BY DEF RegistrationEnds, OvertakenIsRegistered, OvertakenAtMostOnce
<1> QED
  BY <1>1, <1>2, <1>3, <1>4, <1>5, <1>6, <1>7 DEF Inv, TypeOK

\* A directory without a record beside an agent in layout 2 misleads nobody.
LEMMA StrayStep ==
  ASSUME Inv, StrayAppears
  PROVE  Inv'
<1> USE DEF Inv, TypeOK, StrayAppears, lockVars
<1>1. PcTypes' /\ LockTypes'
  BY DEF PcTypes, LockTypes
<1>2. RegTypes' /\ NamedExists'
  BY DEF RegTypes, NamedExists
<1>3. LocalTypes'
  BY Constants DEF LocalTypes
<1>4. ASSUME NEW p \in Procs PROVE Holds(p)'
  BY DEF LocksHeld, Holds, HoldsCurrent, HoldsFirst, MigratorHolds, OldHolds
<1>5. OldWorksInLegacy' /\ OneLegacyLock'
  BY DEF OldWorksInLegacy, OneLegacyLock
<1>6. Locate = "current" /\ Locate' = "current"
  <2>1. Locate = "current"
    BY LocateValue
  <2>2. Locate' = "current"
    BY DEF Locate
  <2> QED
    BY <2>1, <2>2
<1>7. HolderFindsAgent'
  BY <1>6 DEF HolderFindsAgent
<1>8. RegistrationEnds' /\ OvertakenIsRegistered' /\ OvertakenAtMostOnce'
  BY DEF RegistrationEnds, OvertakenIsRegistered, OvertakenAtMostOnce
<1> QED
  BY <1>1, <1>2, <1>3, <1>4, <1>5, <1>7, <1>8 DEF LocksHeld

\* The invariant is kept by every step.
LEMMA NextInv == Inv /\ [Next]_vars => Inv'
<1> SUFFICES ASSUME Inv, [Next]_vars PROVE Inv'
  OBVIOUS
<1>1. ASSUME NEW p \in Procs, Step(p) PROVE Inv'
  <2>1. TypeOK' /\ NamedExists' /\ Frame(p) /\ LocksHeld'
    BY <1>1, StepHolds
  <2> QED
    BY <1>1, <2>1, StepHolderFindsAgent, StepOldWorks, StepOneLegacyLock, StepRegistrationEnds,
       StepOvertaken DEF Inv
<1>2. CASE StrayAppears
  BY <1>2, StrayStep
<1>3. CASE UNCHANGED vars
  <2> USE <1>3 DEF vars, lockVars, regVars
  <2>1. PcTypes' /\ LockTypes' /\ RegTypes' /\ LocalTypes'
    BY DEF Inv, TypeOK, PcTypes, LockTypes, RegTypes, LocalTypes
  <2>2. ASSUME NEW p \in Procs PROVE Holds(p)'
    BY DEF Inv, LocksHeld, Holds, HoldsCurrent, HoldsFirst, MigratorHolds, OldHolds
  <2>3. NamedExists' /\ OldWorksInLegacy' /\ OneLegacyLock'
    BY DEF Inv, NamedExists, OldWorksInLegacy, OneLegacyLock
  <2>4. HolderFindsAgent'
    BY DEF Inv, HolderFindsAgent, Locate
  <2>5. RegistrationEnds' /\ OvertakenIsRegistered' /\ OvertakenAtMostOnce'
    BY DEF Inv, RegistrationEnds, OvertakenIsRegistered, OvertakenAtMostOnce
  <2> QED
    BY <2>1, <2>2, <2>3, <2>4, <2>5 DEF Inv, TypeOK, LocksHeld
<1> QED
  BY <1>1, <1>2, <1>3, Constants DEF Next, Step, Finished

\* Every behaviour of senders, migrations, older builds and crashes keeps the
\* invariant.
THEOREM LockInvariant == Spec => []Inv
BY InitInv, NextInv, PTL DEF Spec

\* At most one process of this build owns the agent (lock_with_runtime and
\* move_agent), whatever lock files are deleted and recreated meanwhile.
THEOREM OneOwnerHolds == Spec => []OneOwner
<1>1. Inv => OneOwner
  BY InvOneOwner
<1> QED
  BY <1>1, LockInvariant, PTL

\* A build older than layout 2 never works on the agent beside an owner: while
\* the agent is in layout 1 every process locks the same layout-1 file.
THEOREM OldAndNewExcludeHolds == Spec => []OldAndNewExclude
<1>1. Inv => OldAndNewExclude
  BY InvOldAndNewExclude
<1> QED
  BY <1>1, LockInvariant, PTL

\* A lock that lock_with_runtime returned names the layout the agent is in for
\* as long as it is held.
THEOREM HolderFindsAgentHolds == Spec => []HolderFindsAgent
<1>1. Inv => HolderFindsAgent
  BY DEF Inv
<1> QED
  BY <1>1, LockInvariant, PTL

\* Only a process that waits for a gate's lock is registered on the gate
\* (lock_exclusive_ranked).
THEOREM RegistrationEndsHolds == Spec => []RegistrationEnds
<1>1. Inv => RegistrationEnds
  BY DEF Inv
<1> QED
  BY <1>1, LockInvariant, PTL

\* An ordinary sender that has not deferred for PRIORITY_DEFERENCE overtakes a
\* registered priority waiter at most once, however many senders there are.
THEOREM OvertakenAtMostOnceHolds == Spec => []OvertakenAtMostOnce
<1>1. Inv => OvertakenAtMostOnce
  BY DEF Inv
<1> QED
  BY <1>1, LockInvariant, PTL
=============================================================================
