------------------------ MODULE TeamReceiverProofs ------------------------
(***************************************************************************)
(* The receiving host of agent-teams by itself, for any number of          *)
(* messages, processes and crashes: its safety invariants, that a          *)
(* tombstone written in time holds for good, and that the ledger           *)
(* implements the promise of TeamPromise.                                  *)
(***************************************************************************)
EXTENDS TeamReceiver, TeamLedgerProofs

\* The invariant of the host, and the types of the environment.
ReceiverInv ==
  LedgerInv /\ scene \in Scenes /\ crashes \in 0 .. MaxCrashes

\* Every step is a step of the host, or leaves it alone.
LEMMA NextIsHost ==
  ASSUME scene \in Scenes, [Next]_vars
  PROVE  HostStep \/ UNCHANGED ledgerVars
<1>0. \A s \in Serves : scene.brings[s] \in Msgs
  BY ReceiverAssumption DEF ReceiverAssumption
<1>1. CASE Receiver({scene.brings[s] : s \in Serves}, scene.runs)
  BY <1>0, <1>1 DEF Receiver, HostStep, ServeStep, MsgStep
<1>2. CASE \E s \in Serves : Exit(s) \/ Arrive(s, scene.brings[s])
  BY <1>0, <1>2 DEF HostStep, ServeStep
<1>3. CASE Crash
  BY <1>3 DEF Crash, HostStep
<1>4. CASE UNCHANGED vars
  BY <1>4 DEF vars
<1> QED
  BY <1>1, <1>2, <1>3, <1>4 DEF Next

\* ReceiverInv is an inductive invariant.
THEOREM ReceiverInvariant == Spec => []ReceiverInv
<1>1. Init => ReceiverInv
  BY LedgerInitInv, ReceiverAssumption DEF Init, ReceiverInv, ReceiverAssumption
<1>2. ReceiverInv /\ [Next]_vars => ReceiverInv'
  <2> SUFFICES ASSUME ReceiverInv, [Next]_vars PROVE ReceiverInv'
    OBVIOUS
  <2>1. LedgerInv'
    BY NextIsHost, HostInv, StutterInv DEF ReceiverInv
  <2>2. scene' = scene /\ crashes' \in 0 .. MaxCrashes
    BY ReceiverAssumption DEF Next, Crash, vars, ReceiverInv, ReceiverAssumption
  <2> QED
    BY <2>1, <2>2 DEF ReceiverInv
<1> QED
  BY <1>1, <1>2, PTL DEF Spec

\* Every variable of the receiving host keeps its type.
THEOREM TypeCorrect == Spec => []TypeOK
<1>1. ReceiverInv => TypeOK
  BY DEF ReceiverInv, LedgerInv, DataTypes, ProcTypes, TypeOK
<1> QED
  BY <1>1, ReceiverInvariant, PTL

\* A message that `accept` refused or `fence` barred was never typed, as long as
\* its entry cannot have been pruned and no two recoveries overlapped.
THEOREM RefusedUntypedHolds == Spec => []RefusedUntyped
<1>1. ReceiverInv => RefusedUntyped
  BY DEF ReceiverInv, LedgerInv, RefusedNeverLeft, NeverLeft, RefusedUntyped
<1> QED
  BY <1>1, ReceiverInvariant, PTL

\* An entry says `delivered` only of a message that was printed or typed, that a
\* hook is about to print, or that a hook died on.
THEOREM DeliveredWasTypedHolds == Spec => []DeliveredWasTyped
<1>1. ReceiverInv => DeliveredWasTyped
  BY DEF ReceiverInv, LedgerInv, PresentedShown, Shown, Holds, Picked, DeliveredWasTyped
<1> QED
  BY <1>1, ReceiverInvariant, PTL

\* No accepted message is forgotten: the deliverer has it, or it was typed, or
\* the queue gave it up for a human, whatever crashes and errors came between.
THEOREM AcceptedIsHeldHolds == Spec => []AcceptedIsHeld
<1>1. ReceiverInv => AcceptedIsHeld
  <2> SUFFICES ASSUME ReceiverInv,
                      NEW m \in Msgs \ (late \cup withdrawn \cup dropped \cup raced),
                      ledger[m] = "accepted"
               PROVE  typed[m] > 0 \/ Picked(m) \/ place[m] \cap {"waiting", "failed"} # {}
    BY DEF AcceptedIsHeld
  <2>1. typed[m] > 0 \/ Kept(m)
    BY DEF ReceiverInv, LedgerInv, AcceptedKept, Excused
  <2> QED
    BY <2>1 DEF Kept, Holds, Picked
<1> QED
  BY <1>1, ReceiverInvariant, PTL


-----------------------------------------------------------------------------
(***************************************************************************)
(* A tombstone written in time holds.                                      *)
(***************************************************************************)

\* Message m is buried, and nobody has picked it up or shown it.
Buried(m) == m \in tomb /\ typed[m] = 0 /\ ~Picked(m)

\* A step of a serve process neither picks a buried message up nor types it: only
\* a command types at the hand-over, and a command has no tombstones.
LEMMA ServeBuries ==
  ASSUME LedgerInv, NEW s \in Serves, ServeStep(s), NEW m \in Msgs, Buried(m)
  PROVE  typed'[m] = 0 /\ ~Picked(m)'
<1> USE DEF Buried, hist, Answer
<1>0. ProcTypes /\ DataTypes /\ KindFits
  BY DEF LedgerInv
<1>1. ProcFrame(s) /\ s \notin Hooks
  BY <1>0, ServeTypes, Constants
<1>2. \A h \in Hooks : pc'[h] = pc[h] /\ job'[h] = job[h]
  BY <1>1, Constants DEF ProcFrame
<1>3. typed'[m] = 0
  <2>1. CASE HandOverCommand(s)
    BY <1>0, <2>1 DEF HandOverCommand, KindFits
  <2>2. CASE Serve(s) /\ ~HandOverCommand(s)
    BY <2>2 DEF Serve, RefuseRoute, AcceptKnown, AcceptUndeliverable, AcceptRefused,
             Claim, SupersedeRead, SupersedeWrite, HandOverHook,
       HandOverQueue, Enqueue, Finish, Recover, RecoverWrite, ExpireClaim
  <2>3. CASE AcceptFails(s) \/ Exit(s) \/ \E n \in Msgs : Arrive(s, n)
    BY <2>3 DEF AcceptFails, Exit, Arrive
  <2> QED
    BY <2>1, <2>2, <2>3 DEF ServeStep
<1>4. "inflight" \notin place'[m]
  <2>1. CASE SupersedeWrite(s)
    BY <1>0, <2>1 DEF SupersedeWrite, Bury, DataTypes, Picked
  <2>2. CASE HandOverHook(s) \/ Enqueue(s)
    BY <1>0, <2>2 DEF HandOverHook, Enqueue, DataTypes, Picked
  <2>3. CASE Serve(s) /\ ~SupersedeWrite(s) /\ ~HandOverHook(s) /\ ~Enqueue(s)
    BY <2>3 DEF Serve, Picked, RefuseRoute, AcceptKnown, AcceptUndeliverable, AcceptRefused,
       Claim, SupersedeRead, HandOverQueue, HandOverCommand, Finish, Recover, RecoverWrite,
       ExpireClaim
  <2>4. CASE AcceptFails(s) \/ Exit(s) \/ \E n \in Msgs : Arrive(s, n)
    BY <2>4 DEF AcceptFails, Exit, Arrive, Picked
  <2> QED
    BY <2>1, <2>2, <2>3, <2>4 DEF ServeStep
<1> QED
  BY <1>2, <1>3, <1>4 DEF Picked

\* The hook looks at the tombstone when it takes a file.
LEMMA HookBuries ==
  ASSUME LedgerInv, NEW h \in Hooks, Hook(h), NEW m \in Msgs, Buried(m)
  PROVE  typed'[m] = 0 /\ ~Picked(m)'
<1> USE DEF Buried, hist
<1>0. ProcTypes /\ DataTypes /\ h \in Procs
  BY Constants DEF LedgerInv
<1>1. ProcFrame(h)
  BY <1>0, HookTypes
<1>2. \A k \in Hooks \ {h} : pc'[k] = pc[k] /\ job'[k] = job[k]
  BY <1>1, Constants DEF ProcFrame
<1>3. CASE HookPrint(h)
  <2>1. job[h] # m
    BY <1>3 DEF HookPrint, Picked
  <2>2. typed'[m] = 0 /\ place' = place /\ pc'[h] = "hook"
    BY <1>0, <1>3, <2>1 DEF HookPrint, Type, DataTypes, ProcTypes, Goto
  <2> QED
    BY <1>2, <2>2 DEF Picked
<1>4. CASE HookClaim(h)
  <2>1. typed' = typed /\ "inflight" \notin place'[m]
    BY <1>0, <1>4 DEF HookClaim, DataTypes, Picked
  <2>2. pc'[h] \in {"present", "print"} => job'[h] # m
    BY <1>0, <1>4 DEF HookClaim, ProcTypes, Goto, Picked
  <2> QED
    BY <1>2, <2>1, <2>2 DEF Picked
<1>5. CASE HookList(h) \/ HookUpgrade(h) \/ HookPresent(h) \/ HookEnd(h)
  <2>1. typed' = typed /\ place' = place /\ job' = job
    BY <1>5 DEF HookList, HookUpgrade, HookPresent, HookEnd
  <2>2. pc'[h] \in {"present", "print"} => pc[h] \in {"present", "print"}
    BY <1>0, <1>5 DEF HookList, HookUpgrade, HookPresent, HookEnd, ProcTypes, Goto
  <2> QED
    BY <1>2, <2>1, <2>2 DEF Picked
<1> QED
  BY <1>3, <1>4, <1>5 DEF Hook

\* The drain re-checks the tombstone when it picks an item.
LEMMA MsgBuries ==
  ASSUME LedgerInv, NEW n \in Msgs, MsgStep(n), NEW m \in Msgs, Buried(m)
  PROVE  typed'[m] = 0 /\ ~Picked(m)'
<1> USE DEF Buried, hist, Picked
<1>0. DataTypes
  BY DEF LedgerInv
<1>1. CASE DrainPick(n)
  BY <1>0, <1>1 DEF DrainPick, DataTypes
<1>2. CASE DrainSettle(n)
  BY <1>0, <1>2 DEF DrainSettle, DataTypes, Type
<1>3. CASE Fence(n) \/ Reconcile(n) \/ Prune(n) \/ Expires(n)
  BY <1>3 DEF Fence, Reconcile, Prune, Expires
<1> QED
  BY <1>1, <1>2, <1>3 DEF MsgStep, QueueDrain

\* A retraction and a crash show nothing and pick nothing up.
LEMMA OthersBury ==
  ASSUME LedgerInv, NEW m \in Msgs, Buried(m),
         \/ \E r \in Retractors : Retract(r)
         \/ \E p \in Procs : LedgerCrash(p)
  PROVE  typed'[m] = 0 /\ ~Picked(m)'
<1> USE DEF Buried, hist, Picked
<1>0. ProcTypes /\ DataTypes
  BY DEF LedgerInv
<1>1. ASSUME NEW r \in Retractors, Retract(r) PROVE typed'[m] = 0 /\ ~Picked(m)'
  <2>1. ProcFrame(r) /\ r \notin Hooks
    BY <1>0, <1>1, RetractTypes, Constants
  <2>2. \A h \in Hooks : pc'[h] = pc[h] /\ job'[h] = job[h]
    BY <2>1, Constants DEF ProcFrame
  <2>3. typed' = typed
    BY <1>1 DEF Retract, RetractRead, RetractWrite, RetractBury
  <2>4. "inflight" \notin place'[m]
    BY <1>0, <1>1 DEF Retract, RetractRead, RetractWrite, RetractBury, Bury, DataTypes
  <2> QED
    BY <2>2, <2>3, <2>4
<1>2. ASSUME NEW p \in Procs, LedgerCrash(p) PROVE typed'[m] = 0 /\ ~Picked(m)'
  <2>1. typed' = typed /\ place' = place /\ pc'[p] = "idle"
    BY <1>0, <1>2 DEF LedgerCrash, Goto, ProcTypes
  <2>2. \A q \in Procs \ {p} : pc'[q] = pc[q] /\ job'[q] = job[q]
    BY <1>0, <1>2 DEF LedgerCrash, Goto, Forget, ProcTypes
  <2> QED
    BY <2>1, <2>2, Constants
<1> QED
  BY <1>1, <1>2

\* A tombstone that is there before the hook or the drain picks a message up
\* keeps the message from the coordinator for good.
THEOREM BuriedStaysBuriedHolds == Spec => BuriedStaysBuried
<1> DEFINE A == \A m \in Msgs : m \in tomb /\ typed[m] = 0 /\ ~Picked(m) =>
                                  typed'[m] = 0 /\ ~Picked(m)'
<1>1. ReceiverInv /\ [Next]_vars => [A]_vars
  <2> SUFFICES ASSUME ReceiverInv, [Next]_vars, NEW m \in Msgs, Buried(m)
               PROVE  typed'[m] = 0 /\ ~Picked(m)'
    BY DEF Buried
  <2>1. LedgerInv /\ (HostStep \/ UNCHANGED ledgerVars)
    BY NextIsHost DEF ReceiverInv
  <2>2. CASE UNCHANGED ledgerVars
    BY <2>2 DEF ledgerVars, Buried, Picked
  <2>3. CASE HostStep
    BY <2>1, <2>3, ServeBuries, HookBuries, MsgBuries, OthersBury DEF HostStep
  <2> QED
    BY <2>1, <2>2, <2>3
<1> QED
  BY <1>1, ReceiverInvariant, PTL DEF Spec, BuriedStaysBuried


-----------------------------------------------------------------------------
(***************************************************************************)
(* The ledger keeps the promise.                                           *)
(***************************************************************************)

\* What a step of the host is to the promise: one of its steps, or none.
Promised == Promise!Next \/ UNCHANGED Promise!promiseVars

\* A step that claims nothing, lets no time pass and gives no unclaimed message in
\* time an entry, or takes its entry away, decides nothing.
LEMMA SameFate ==
  ASSUME claimed' = claimed, late' = late,
         \A m \in Msgs \ (claimed \cup late) : ledger'[m] = "none" <=> ledger[m] = "none"
  PROVE  Fate' = Fate
BY DEF Fate

\* Such a step that shows nothing either is none of the promise's.
LEMMA SilentStep ==
  ASSUME claimed' = claimed, late' = late, typed' = typed, raced' = raced,
         \A m \in Msgs \ (claimed \cup late) : ledger'[m] = "none" <=> ledger[m] = "none"
  PROVE  Promised
<1>1. Fate' = Fate
  BY SameFate
<1> QED
  BY <1>1 DEF Promised, Promise!promiseVars

\* An ID that is barred without having been claimed: an entry is written, or its
\* time passes.
LEMMA BarringStep ==
  ASSUME NEW m \in Msgs, LedgerInv,
         claimed' = claimed, typed' = typed, raced' = raced,
         \/ late' = late /\ ledger[m] = "none" /\ ledger'[m] # "none"
         \/ late' = late \cup {m} /\ ledger' = ledger,
         \A n \in Msgs \ {m} : ledger'[n] = ledger[n]
  PROVE  Promised
<1>1. CASE Fate[m] = "open"
  <2>1. Fate' = [Fate EXCEPT ![m] = "barred"]
    BY <1>1 DEF Fate
  <2>2. Promise!Decide(m, "barred")
    BY <1>1, <2>1 DEF Promise!Decide
  <2> QED
    BY <2>2 DEF Promised, Promise!Next
<1>2. CASE Fate[m] # "open"
  <2>1. Fate' = Fate
    BY <1>2 DEF Fate
  <2> QED
    BY <2>1 DEF Promised, Promise!promiseVars
<1> QED
  BY <1>1, <1>2

\* Message m is shown: a claimed one, for the first time unless it was doubled.
LEMMA ShowingStep ==
  ASSUME NEW m \in Msgs, LedgerInv, m \in claimed, m \in raced \/ typed[m] = 0, Type(m),
         claimed' = claimed, late' = late, ledger' = ledger, raced' = raced
  PROVE  Promised
<1>0. typed \in [Msgs -> 0 .. 2]
  BY DEF LedgerInv, DataTypes
<1>1. Fate' = Fate /\ Fate[m] = "taken"
  BY DEF Fate
<1>2. CASE typed[m] = 2
  <2>1. typed' = typed
    BY <1>0, <1>2 DEF Type
  <2> QED
    BY <1>1, <2>1 DEF Promised, Promise!promiseVars
<1>3. CASE typed[m] # 2
  <2>1. typed' = [typed EXCEPT ![m] = @ + 1]
    BY <1>0, <1>3 DEF Type
  <2>2. typed[m] = 0 \/ (typed[m] = 1 /\ m \in raced)
    BY <1>0, <1>3
  <2>3. Promise!Show(m)
    BY <1>1, <2>1, <2>2 DEF Promise!Show
  <2> QED
    BY <2>3 DEF Promised, Promise!Next
<1> QED
  BY <1>2, <1>3


\* A step of a serve process: a claim takes the ID, a refusal bars it, a second
\* recovery doubles it, a command shows it; nothing else is decided.
LEMMA ServePromised ==
  ASSUME LedgerInv, NEW s \in Serves, ServeStep(s)
  PROVE  Promised
<1> USE DEF hist
<1>0. /\ s \in Procs /\ DataTypes
      /\ pc[s] # "idle" => job[s] \in Msgs
      /\ pc[s] \in Working => job[s] \in claimed
      /\ pc[s] = "superseding" => seen[s] \in claimed
  BY Constants DEF LedgerInv, ProcTypes, ClaimedFirst
<1>1. CASE Claim(s)
  <2>1. /\ job[s] \in Msgs /\ job[s] \notin late /\ job[s] \notin claimed
        /\ ledger[job[s]] = "none"
    BY <1>0, <1>1 DEF Claim, LedgerInv, ClaimedFirst
  <2>2. claimed' = claimed \cup {job[s]} /\ late' = late /\ typed' = typed /\ raced' = raced
    BY <1>1 DEF Claim
  <2>3. \A m \in Msgs \ {job[s]} : ledger'[m] = ledger[m]
    BY <1>0, <1>1 DEF Claim, SetState, DataTypes
  <2>4. Fate[job[s]] = "open" /\ Fate' = [Fate EXCEPT ![job[s]] = "taken"]
    BY <2>1, <2>2, <2>3 DEF Fate
  <2>5. Promise!Decide(job[s], "taken")
    BY <2>2, <2>4 DEF Promise!Decide
  <2> QED
    BY <2>1, <2>5 DEF Promised, Promise!Next
<1>2. CASE AcceptKnown(s)
  <2>1. job[s] \in Msgs /\ UNCHANGED <<claimed, late, ledger, typed>>
    BY <1>0, <1>2 DEF AcceptKnown
  <2>2. Fate' = Fate
    BY <2>1, SameFate
  <2>3. CASE raced' = raced
    BY <2>1, <2>2, <2>3 DEF Promised, Promise!promiseVars
  <2>4. CASE raced' = raced \cup {job[s]} /\ ledger[job[s]] = "claimed"
    <3>1. job[s] \in claimed
      BY <2>1, <2>4 DEF LedgerInv, ClaimedFirst
    <3>2. Promise!Double(job[s])
      BY <2>1, <2>2, <2>4, <3>1 DEF Promise!Double, Fate
    <3> QED
      BY <2>1, <3>2 DEF Promised, Promise!Next
  <2> QED
    BY <1>2, <2>3, <2>4 DEF AcceptKnown
<1>3. CASE AcceptRefused(s)
  <2>1. PICK v \in {"refused", "expired", "superseded"} : SetState(job[s], v)
    BY <1>3 DEF AcceptRefused
  <2>2. job[s] \in Msgs /\ ledger[job[s]] = "none" /\ ledger'[job[s]] # "none"
    BY <1>0, <1>3, <2>1 DEF AcceptRefused, SetState, DataTypes
  <2>3. \A n \in Msgs \ {job[s]} : ledger'[n] = ledger[n]
    BY <1>0, <2>1 DEF SetState, DataTypes
  <2>4. UNCHANGED <<claimed, late, typed, raced>>
    BY <1>3 DEF AcceptRefused
  <2> QED
    BY <2>2, <2>3, <2>4, BarringStep
<1>4. CASE HandOverCommand(s)
  <2>1. job[s] \in Msgs /\ job[s] \in claimed /\ UNCHANGED <<claimed, late, ledger, raced>>
    BY <1>0, <1>4 DEF HandOverCommand, Working, Handing
  <2>2. job[s] \in raced \/ typed[job[s]] = 0
    BY <1>4, <2>1 DEF HandOverCommand, LedgerInv, OneCopyEach, OneCopy, Handing
  <2>3. typed' = typed \/ Type(job[s])
    BY <1>4 DEF HandOverCommand
  <2> QED
    BY <2>1, <2>2, <2>3, SilentStep, ShowingStep
<1>5. CASE SupersedeWrite(s)
  <2>1. UNCHANGED <<claimed, late, typed, raced>>
    BY <1>5 DEF SupersedeWrite
  <2>2. \A m \in Msgs \ claimed : ledger'[m] = ledger[m]
    BY <1>0, <1>5 DEF SupersedeWrite, SetState, DataTypes, Working, Handing
  <2> QED
    BY <2>1, <2>2, SilentStep
<1>6. CASE Finish(s)
  <2>1. UNCHANGED <<claimed, late, typed, raced>>
    BY <1>6 DEF Finish
  <2>2. \A m \in Msgs \ claimed : ledger'[m] = ledger[m]
    BY <1>0, <1>6 DEF Finish, SetState, DataTypes, Working, Handing
  <2> QED
    BY <2>1, <2>2, SilentStep
<1>7. CASE RecoverWrite(s)
  <2>1. UNCHANGED <<claimed, late, typed, raced>>
    BY <1>7 DEF RecoverWrite
  <2>2. \A m \in Msgs \ claimed : ledger'[m] = ledger[m]
    BY <1>0, <1>7 DEF RecoverWrite, SetState, DataTypes, Working, Handing
  <2> QED
    BY <2>1, <2>2, SilentStep
<1>8. CASE ExpireClaim(s)
  <2>1. UNCHANGED <<claimed, late, typed, raced>>
    BY <1>8 DEF ExpireClaim
  <2>2. \A m \in Msgs \ claimed : ledger'[m] = ledger[m]
    BY <1>0, <1>8 DEF ExpireClaim, SetState, DataTypes, Working, Handing
  <2> QED
    BY <2>1, <2>2, SilentStep
<1>9. CASE \/ RefuseRoute(s) \/ AcceptUndeliverable(s) \/ SupersedeRead(s)
           \/ HandOverHook(s) \/ HandOverQueue(s) \/ Enqueue(s) \/ Recover(s)
           \/ AcceptFails(s) \/ Exit(s) \/ \E m \in Msgs : Arrive(s, m)
  <2>1. UNCHANGED <<claimed, late, ledger, typed, raced>>
    BY <1>9 DEF RefuseRoute, AcceptUndeliverable, SupersedeRead, HandOverHook, HandOverQueue,
       Enqueue, Recover, AcceptFails, Exit, Arrive
  <2> QED
    BY <2>1, SilentStep
<1> QED
  BY <1>1, <1>2, <1>3, <1>4, <1>5, <1>6, <1>7, <1>8, <1>9 DEF ServeStep, Serve

\* A step of a hook: printing shows the message, the rest is silent.
LEMMA HookPromised ==
  ASSUME LedgerInv, NEW h \in Hooks, Hook(h)
  PROVE  Promised
<1> USE DEF hist
<1>0. /\ DataTypes /\ todo[h] \subseteq claimed
      /\ pc[h] \in {"present", "print"} => job[h] \in Msgs /\ job[h] \in claimed
  BY DEF LedgerInv, ProcTypes, ClaimedFirst
<1>1. CASE HookPrint(h)
  <2>1. job[h] \in Msgs /\ job[h] \in claimed
    BY <1>0, <1>1 DEF HookPrint
  <2>2. job[h] \in raced \/ typed[job[h]] = 0
    BY <1>1, <2>1 DEF HookPrint, LedgerInv, OneCopyEach, OneCopy, Holds
  <2>3. Type(job[h]) /\ UNCHANGED <<claimed, late, ledger, raced>>
    BY <1>1 DEF HookPrint
  <2> QED
    BY <2>1, <2>2, <2>3, ShowingStep
<1>2. CASE HookUpgrade(h) \/ HookPresent(h)
  <2>1. UNCHANGED <<claimed, late, typed, raced>>
    BY <1>2 DEF HookUpgrade, HookPresent
  <2>2. \A m \in Msgs \ claimed : ledger'[m] = ledger[m]
    BY <1>0, <1>2 DEF HookUpgrade, HookPresent, SetState, DataTypes
  <2> QED
    BY <2>1, <2>2, SilentStep
<1>3. CASE HookList(h) \/ HookClaim(h) \/ HookEnd(h)
  <2>1. UNCHANGED <<claimed, late, ledger, typed, raced>>
    BY <1>3 DEF HookList, HookClaim, HookEnd
  <2> QED
    BY <2>1, SilentStep
<1> QED
  BY <1>1, <1>2, <1>3 DEF Hook

\* A step on a message: `fence` and the clock bar it, the drain shows it.
LEMMA MsgPromised ==
  ASSUME LedgerInv, NEW m \in Msgs, MsgStep(m)
  PROVE  Promised
<1> USE DEF hist
<1>0. DataTypes
  BY DEF LedgerInv
<1>1. CASE Fence(m)
  <2>1. UNCHANGED <<claimed, late, typed, raced>> /\ ledger[m] = "none"
    BY <1>1 DEF Fence
  <2>2. ledger'[m] # "none" /\ \A n \in Msgs \ {m} : ledger'[n] = ledger[n]
    BY <1>0, <1>1 DEF Fence, SetState, DataTypes
  <2> QED
    BY <2>1, <2>2, BarringStep
<1>2. CASE Expires(m)
  <2>1. UNCHANGED <<claimed, ledger, typed, raced>> /\ late' = late \cup {m}
    BY <1>2 DEF Expires
  <2> QED
    BY <2>1, BarringStep
<1>3. CASE Reconcile(m)
  <2>1. UNCHANGED <<claimed, late, typed, raced>>
    BY <1>3 DEF Reconcile
  <2>2. \A n \in Msgs : ledger'[n] = "none" <=> ledger[n] = "none"
    BY <1>0, <1>3, ReconciledFacts DEF Reconcile, SetState, DataTypes
  <2> QED
    BY <2>1, <2>2, SilentStep
<1>4. CASE Prune(m)
  <2>1. UNCHANGED <<claimed, late, typed, raced>>
    BY <1>4 DEF Prune
  <2>2. \A n \in Msgs \ late : ledger'[n] = ledger[n]
    BY <1>0, <1>4 DEF Prune, SetState, DataTypes
  <2> QED
    BY <2>1, <2>2, SilentStep
<1>5. CASE DrainPick(m)
  <2>1. UNCHANGED <<claimed, late, ledger, typed, raced>>
    BY <1>5 DEF DrainPick
  <2> QED
    BY <2>1, SilentStep
<1>6. CASE DrainSettle(m)
  <2>1. m \in claimed
    BY <1>6 DEF DrainSettle, LedgerInv, ClaimedFirst
  <2>2. m \in raced \/ typed[m] = 0
    BY <1>6 DEF DrainSettle, LedgerInv, OneCopyEach, OneCopy
  <2>3. UNCHANGED <<claimed, late, ledger, raced>> /\ (typed' = typed \/ Type(m))
    BY <1>6 DEF DrainSettle
  <2> QED
    BY <2>1, <2>2, <2>3, SilentStep, ShowingStep
<1> QED
  BY <1>1, <1>2, <1>3, <1>4, <1>5, <1>6 DEF MsgStep, QueueDrain

\* Retractions and crashes decide and show nothing.
LEMMA OthersPromised ==
  ASSUME LedgerInv,
         \/ \E r \in Retractors : Retract(r)
         \/ \E p \in Procs : LedgerCrash(p)
  PROVE  Promised
<1> USE DEF hist
<1>1. UNCHANGED <<claimed, late, typed, raced>>
  BY DEF Retract, RetractRead, RetractWrite, RetractBury, LedgerCrash
<1>2. \A m \in Msgs \ claimed : ledger'[m] = ledger[m]
  BY DEF Retract, RetractRead, RetractWrite, RetractBury, LedgerCrash, SetState,
     LedgerInv, DataTypes, ProcTypes, ClaimedFirst
<1> QED
  BY <1>1, <1>2, SilentStep

\* The ledger implements the promise: through all routes, retries, recoveries,
\* retractions, prunings and crashes, an ID is decided once, and only a claimed
\* message is shown, once unless two recoveries of its dead claim overlapped.
THEOREM KeepsPromiseHolds == Spec => KeepsPromise
<1>1. Init => Promise!Init
  BY DEF Init, LedgerInit, Promise!Init, Fate
<1>2. ReceiverInv /\ [Next]_vars => [Promise!Next]_(Promise!promiseVars)
  <2> SUFFICES ASSUME ReceiverInv, [Next]_vars
               PROVE  Promised
    BY DEF Promised
  <2>1. LedgerInv /\ (HostStep \/ UNCHANGED ledgerVars)
    BY NextIsHost DEF ReceiverInv
  <2>2. CASE UNCHANGED ledgerVars
    BY <2>2, SilentStep DEF ledgerVars, hist
  <2>3. CASE HostStep
    BY <2>1, <2>3, ServePromised, HookPromised, MsgPromised, OthersPromised DEF HostStep
  <2> QED
    BY <2>1, <2>2, <2>3
<1> QED
  BY <1>1, <1>2, ReceiverInvariant, PTL DEF Spec, KeepsPromise, Promise!Spec

=============================================================================
