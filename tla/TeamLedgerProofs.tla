------------------------- MODULE TeamLedgerProofs -------------------------
(***************************************************************************)
(* What the steps of the receiving host of agent-teams keep, for any       *)
(* number of messages, serve processes, hooks and retractors: the          *)
(* inductive invariant shared by the host by itself and by the system from *)
(* end to end.                                                             *)
(***************************************************************************)
EXTENDS TeamLedger, TLAPS

-----------------------------------------------------------------------------
(***************************************************************************)
(* The inductive invariant.                                                *)
(***************************************************************************)

\* Serve processes that will still hand the message over ...
Handing == {"supersede", "superseding", "handover", "enqueue"}

\* ... and all that work on a claim.
Working == Handing \cup {"expire", "recover", "recovered", "finish"}

ServePC == Working \cup {"idle", "arrived", "done"}
HookPC == {"idle", "hook", "present", "print"}
RetractPC == {"idle", "retract", "bury"}

Results == {"accepted", "refused", "possibly_submitted"}
Answers == States \cup {"route-refused", "error", "deferred"} \cup Msgs

\* Hook h has taken message m to print it.
Holds(h, m) == pc[h] \in {"present", "print"} /\ job[h] = m

\* Serve process s works on the claim of m.
WorksOn(s, m) == pc[s] \in Working /\ job[s] = m

ProcTypes ==
  /\ pc \in [Procs -> ServePC \cup HookPC \cup RetractPC]
  /\ \A s \in Serves : pc[s] \in ServePC /\ (pc[s] # "idle" => job[s] \in Msgs)
  /\ \A h \in Hooks : pc[h] \in HookPC /\ (pc[h] \in {"present", "print"} => job[h] \in Msgs)
  /\ \A r \in Retractors : pc[r] \in RetractPC /\ (pc[r] # "idle" => job[r] \in Msgs)
  /\ job \in [Procs -> Msgs \cup {Nobody}]
  /\ seen \in [Procs -> Answers] /\ todo \in [Procs -> SUBSET Msgs]
  /\ \A s \in Serves : /\ pc[s] = "finish" => seen[s] \in Results
                       /\ pc[s] = "recovered" => seen[s] \in Results \ {"refused"}
                       /\ pc[s] = "superseding" => seen[s] \in Msgs

DataTypes ==
  /\ kind \in Kinds /\ late \subseteq Msgs /\ tomb \subseteq Msgs
  /\ ledger \in [Msgs -> States] /\ claimer \in [Msgs -> Serves \cup {Nobody}]
  /\ place \in [Msgs -> SUBSET Places] /\ typed \in [Msgs -> 0 .. 2]
  /\ lock \in Retractors \cup {Nobody}
  /\ raced \subseteq Msgs /\ dropped \subseteq Msgs
  /\ withdrawn \subseteq Msgs /\ claimed \subseteq Msgs

\* Each deliverer is used through its own steps only.
KindFits ==
  /\ \A s \in Serves : pc[s] = "enqueue" => kind = "queue"
  /\ \A h \in Hooks : pc[h] # "idle" => kind = "hook"
  /\ \A m \in Msgs : place[m] # {} => kind # "command"
  /\ kind = "command" => tomb = {}

\* Nothing happens to a message that was never claimed, and a claimed one keeps
\* its entry while it is in time or somebody works on it.
ClaimedFirst ==
  /\ \A m \in Msgs \ claimed :
       /\ typed[m] = 0 /\ place[m] = {}
       /\ ledger[m] \in {"none", "refused", "expired", "superseded", "fenced"}
  /\ \A m \in claimed \ late : ledger[m] # "none"
  /\ \A s \in Serves :
       /\ pc[s] \in Working => job[s] \in claimed /\ ledger[job[s]] # "none"
       /\ pc[s] = "superseding" => seen[s] \in claimed
  /\ \A h \in Hooks : /\ todo[h] \subseteq claimed
                      /\ pc[h] \in {"present", "print"} => job[h] \in claimed
  /\ \A r \in Retractors : pc[r] # "idle" => job[r] \in claimed

\* One process at a time works on a claim, unless recoveries overlapped.
OneAtWork ==
  /\ \A s \in Serves : pc[s] \in {"supersede", "superseding"} => claimer[job[s]] = s
  /\ \A m \in Msgs \ raced : \A s, t \in Serves : WorksOn(s, m) /\ WorksOn(t, m) => s = t

\* What the deliverer has of a message that was not doubled: one copy, in one
\* place, and none before the hand-over; and what can still be shown has not
\* been shown.
OneCopy(m) ==
  /\ typed[m] <= 1
  /\ \A x, y \in place[m] : x = y
  /\ place[m] \cap {"waiting", "inflight"} # {} => typed[m] = 0
  /\ kind # "command" /\ place[m] = {} => typed[m] = 0
  /\ \A s \in Serves : pc[s] \in Handing /\ job[s] = m => place[m] = {} /\ typed[m] = 0
  /\ \A h \in Hooks : Holds(h, m) => place[m] = {"taken"} /\ typed[m] = 0
  /\ \A h, k \in Hooks : Holds(h, m) /\ Holds(k, m) => h = k

OneCopyEach == \A m \in Msgs \ raced : OneCopy(m)

\* A refused or fenced message, and one about to be refused, never left the host.
NeverLeft(m) ==
  typed[m] = 0 /\ place[m] = {} /\ \A h \in Hooks : ~Holds(h, m)

RefusedNeverLeft ==
  \A m \in Msgs \ (raced \cup late) :
    /\ \A s \in Serves : pc[s] = "finish" /\ job[s] = m /\ seen[s] = "refused" => NeverLeft(m)
    /\ ledger[m] \in {"refused", "fenced"} => NeverLeft(m) /\ \A s \in Serves : ~WorksOn(s, m)

\* A message recorded as presented or delivered was shown, or a hook that
\* recorded it is about to, or died on it.
Shown(m) == typed[m] > 0 \/ m \in dropped \/ \E h \in Hooks : Holds(h, m)

PresentedShown ==
  \A m \in Msgs :
    /\ ledger[m] \in {"presented", "delivered"} => Shown(m)
    /\ \A h \in Hooks : m \in todo[h] => Shown(m)
    /\ "processed" \in place[m] => typed[m] > 0

\* Why an entry ends without the message being shown.
Ended ==
  /\ tomb \subseteq withdrawn
  /\ \A r \in Retractors : pc[r] = "bury" => job[r] \in withdrawn
  /\ \A s \in Serves : pc[s] = "expire" => job[s] \in late
  /\ \A m \in Msgs :
       /\ "aside" \in place[m] => m \in withdrawn
       /\ "aside_expired" \in place[m] => m \in late
       /\ ledger[m] = "expired" => m \in late
       /\ ledger[m] \in {"retracted", "superseded"} /\ m \in claimed => m \in withdrawn
       /\ ledger[m] = "possibly_submitted" => kind # "hook"
  /\ \A s \in Serves : pc[s] \in {"recovered", "finish"} /\ seen[s] = "possibly_submitted" =>
                         kind # "hook"

\* What the deliverer has taken is not lost.
Kept(m) ==
  \/ typed[m] > 0 \/ place[m] \cap {"waiting", "inflight", "failed"} # {}
  \/ \E h \in Hooks : Holds(h, m)

Excused == late \cup withdrawn \cup dropped \cup raced

AcceptedKept ==
  /\ \A m \in Msgs \ Excused :
       /\ place[m] # {} => Kept(m)
       /\ ledger[m] = "accepted" => place[m] # {} \/ typed[m] > 0
  /\ \A s \in Serves : pc[s] \in {"recovered", "finish"} /\ seen[s] = "accepted" =>
                         place[job[s]] # {} \/ typed[job[s]] > 0

LedgerInv ==
  /\ ProcTypes /\ DataTypes /\ KindFits
  /\ ClaimedFirst /\ OneAtWork /\ OneCopyEach
  /\ RefusedNeverLeft /\ PresentedShown /\ Ended /\ AcceptedKept

-----------------------------------------------------------------------------
(***************************************************************************)
(* The steps of the host.                                                  *)
(***************************************************************************)

ServeStep(s) == Serve(s) \/ AcceptFails(s) \/ Exit(s) \/ \E m \in Msgs : Arrive(s, m)

MsgStep(m) == Fence(m) \/ Reconcile(m) \/ Prune(m) \/ QueueDrain(m) \/ Expires(m)

HostStep ==
  \/ \E s \in Serves : ServeStep(s)
  \/ \E h \in Hooks : Hook(h)
  \/ \E r \in Retractors : Retract(r)
  \/ \E m \in Msgs : MsgStep(m)
  \/ \E p \in Procs : LedgerCrash(p)

\* A step of process p leaves the other processes alone.
ProcFrame(p) ==
  \A q \in Procs \ {p} :
    pc'[q] = pc[q] /\ job'[q] = job[q] /\ seen'[q] = seen[q] /\ todo'[q] = todo[q]

\* What the assumptions on the constants say of one process.
LEMMA Constants ==
  /\ Serves \subseteq Procs /\ Hooks \subseteq Procs /\ Retractors \subseteq Procs
  /\ Serves \cap Hooks = {} /\ Serves \cap Retractors = {} /\ Hooks \cap Retractors = {}
  /\ Nobody \notin Procs /\ Kinds \subseteq {"hook", "queue", "command"}
BY LedgerAssumption DEF LedgerAssumption, Procs

\* What reconcile_queue_delivery makes of an entry is an entry.
LEMMA ReconciledFacts ==
  ASSUME DataTypes, NEW m \in Msgs
  PROVE  /\ Reconciled(m) \in States
         /\ Reconciled(m) = "none" <=> ledger[m] = "none"
         /\ Reconciled(m) # ledger[m] => kind = "queue" /\ ledger[m] = "accepted"
         /\ Reconciled(m) # ledger[m] =>
              \/ Reconciled(m) = "delivered" /\ "processed" \in place[m]
              \/ Reconciled(m) = "expired" /\ "aside_expired" \in place[m]
              \/ Reconciled(m) = "retracted" /\ "aside" \in place[m]
              \/ Reconciled(m) = "possibly_submitted" /\ "failed" \in place[m]
BY DEF Reconciled, DataTypes, States

\* A step of a serve process keeps the types.
LEMMA ServeTypes ==
  ASSUME ProcTypes, DataTypes, NEW s \in Serves, ServeStep(s)
  PROVE  ProcTypes' /\ DataTypes' /\ ProcFrame(s)
<1>0. s \in Procs /\ s \notin Hooks /\ s \notin Retractors /\ s # Nobody
  BY Constants
<1>100. pc[s] # "idle" => job[s] \in Msgs
  BY DEF ProcTypes
<1>1. CASE RefuseRoute(s)
  <2> USE <1>0, <1>100, <1>1 DEF RefuseRoute, hist, Answer
  <2>1. DataTypes'
    BY DEF DataTypes, Places, States, ProcTypes, Results
  <2>2. ProcTypes' /\ ProcFrame(s)
    BY Constants DEF ProcTypes, ProcFrame, Goto, ServePC, Working, Handing, Answers, Results,
       States, DataTypes
  <2> QED
    BY <2>1, <2>2
<1>2. CASE AcceptKnown(s)
  <2> USE <1>0, <1>100, <1>2 DEF AcceptKnown, hist, Answer
  <2>1. DataTypes'
    BY DEF DataTypes, Places, States, ProcTypes, Results
  <2>2. ProcTypes' /\ ProcFrame(s)
    BY Constants DEF ProcTypes, ProcFrame, Goto, ServePC, Working, Handing, Answers, Results,
       States, DataTypes
  <2> QED
    BY <2>1, <2>2
<1>3. CASE AcceptUndeliverable(s)
  <2> USE <1>0, <1>100, <1>3 DEF AcceptUndeliverable, hist, Answer
  <2>1. DataTypes'
    BY DEF DataTypes, Places, States, ProcTypes, Results
  <2>2. ProcTypes' /\ ProcFrame(s)
    BY Constants DEF ProcTypes, ProcFrame, Goto, ServePC, Working, Handing, Answers, Results,
       States, DataTypes
  <2> QED
    BY <2>1, <2>2
<1>4. CASE AcceptRefused(s)
  <2> USE <1>0, <1>100, <1>4 DEF AcceptRefused, hist, Answer, SetState
  <2>1. DataTypes'
    BY DEF DataTypes, Places, States, ProcTypes, Results
  <2>2. ProcTypes' /\ ProcFrame(s)
    BY Constants DEF ProcTypes, ProcFrame, Goto, ServePC, Working, Handing, Answers, Results,
       States, DataTypes
  <2> QED
    BY <2>1, <2>2
<1>5. CASE Claim(s)
  <2> USE <1>0, <1>100, <1>5 DEF Claim, hist, SetState
  <2>1. DataTypes'
    BY DEF DataTypes, Places, States, ProcTypes, Results
  <2>2. ProcTypes' /\ ProcFrame(s)
    BY Constants DEF ProcTypes, ProcFrame, Goto, ServePC, Working, Handing, Answers, Results,
       States, DataTypes
  <2> QED
    BY <2>1, <2>2
<1>6. CASE SupersedeRead(s)
  <2> USE <1>0, <1>100, <1>6 DEF SupersedeRead, hist
  <2>1. DataTypes'
    BY DEF DataTypes, Places, States, ProcTypes, Results
  <2>2. ProcTypes' /\ ProcFrame(s)
    BY Constants DEF ProcTypes, ProcFrame, Goto, ServePC, Working, Handing, Answers, Results,
       States, DataTypes
  <2> QED
    BY <2>1, <2>2
<1>7. CASE SupersedeWrite(s)
  <2> USE <1>0, <1>100, <1>7 DEF SupersedeWrite, hist, SetState, Bury
  <2>1. DataTypes'
    BY DEF DataTypes, Places, States, ProcTypes, Results
  <2>2. ProcTypes' /\ ProcFrame(s)
    BY Constants DEF ProcTypes, ProcFrame, Goto, ServePC, Working, Handing, Answers, Results,
       States, DataTypes
  <2> QED
    BY <2>1, <2>2
<1>8. CASE HandOverHook(s)
  <2> USE <1>0, <1>100, <1>8 DEF HandOverHook, hist
  <2>1. DataTypes'
    BY DEF DataTypes, Places, States, ProcTypes, Results
  <2>2. ProcTypes' /\ ProcFrame(s)
    BY Constants DEF ProcTypes, ProcFrame, Goto, ServePC, Working, Handing, Answers, Results,
       States, DataTypes
  <2> QED
    BY <2>1, <2>2
<1>9. CASE HandOverQueue(s)
  <2> USE <1>0, <1>100, <1>9 DEF HandOverQueue, hist
  <2>1. DataTypes'
    BY DEF DataTypes, Places, States, ProcTypes, Results
  <2>2. ProcTypes' /\ ProcFrame(s)
    BY Constants DEF ProcTypes, ProcFrame, Goto, ServePC, Working, Handing, Answers, Results,
       States, DataTypes
  <2> QED
    BY <2>1, <2>2
<1>10. CASE Enqueue(s)
  <2> USE <1>0, <1>100, <1>10 DEF Enqueue, hist
  <2>1. DataTypes'
    BY DEF DataTypes, Places, States, ProcTypes, Results
  <2>2. ProcTypes' /\ ProcFrame(s)
    BY Constants DEF ProcTypes, ProcFrame, Goto, ServePC, Working, Handing, Answers, Results,
       States, DataTypes
  <2> QED
    BY <2>1, <2>2
<1>11. CASE HandOverCommand(s)
  <2> USE <1>0, <1>100, <1>11 DEF HandOverCommand, hist, Type
  <2>1. DataTypes'
    BY DEF DataTypes, Places, States, ProcTypes, Results
  <2>2. ProcTypes' /\ ProcFrame(s)
    BY Constants DEF ProcTypes, ProcFrame, Goto, ServePC, Working, Handing, Answers, Results,
       States, DataTypes
  <2> QED
    BY <2>1, <2>2
<1>12. CASE Finish(s)
  <2> USE <1>0, <1>100, <1>12 DEF Finish, hist, SetState, Answer
  <2>1. DataTypes'
    BY DEF DataTypes, Places, States, ProcTypes, Results
  <2>2. ProcTypes' /\ ProcFrame(s)
    BY Constants DEF ProcTypes, ProcFrame, Goto, ServePC, Working, Handing, Answers, Results,
       States, DataTypes
  <2> QED
    BY <2>1, <2>2
<1>13. CASE Recover(s)
  <2> USE <1>0, <1>100, <1>13 DEF Recover, hist
  <2>1. DataTypes'
    BY DEF DataTypes, Places, States, ProcTypes, Results
  <2>2. ProcTypes' /\ ProcFrame(s)
    BY Constants DEF ProcTypes, ProcFrame, Goto, ServePC, Working, Handing, Answers, Results,
       States, DataTypes
  <2> QED
    BY <2>1, <2>2
<1>14. CASE RecoverWrite(s)
  <2> USE <1>0, <1>100, <1>14 DEF RecoverWrite, hist, SetState, Answer
  <2>1. DataTypes'
    BY DEF DataTypes, Places, States, ProcTypes, Results
  <2>2. ProcTypes' /\ ProcFrame(s)
    BY Constants DEF ProcTypes, ProcFrame, Goto, ServePC, Working, Handing, Answers, Results,
       States, DataTypes
  <2> QED
    BY <2>1, <2>2
<1>15. CASE ExpireClaim(s)
  <2> USE <1>0, <1>100, <1>15 DEF ExpireClaim, hist, SetState, Answer
  <2>1. DataTypes'
    BY DEF DataTypes, Places, States, ProcTypes, Results
  <2>2. ProcTypes' /\ ProcFrame(s)
    BY Constants DEF ProcTypes, ProcFrame, Goto, ServePC, Working, Handing, Answers, Results,
       States, DataTypes
  <2> QED
    BY <2>1, <2>2
<1>16. CASE AcceptFails(s)
  <2> USE <1>0, <1>100, <1>16 DEF AcceptFails, hist, Answer
  <2>1. DataTypes'
    BY DEF DataTypes, Places, States, ProcTypes, Results
  <2>2. ProcTypes' /\ ProcFrame(s)
    BY Constants DEF ProcTypes, ProcFrame, Goto, ServePC, Working, Handing, Answers, Results,
       States, DataTypes
  <2> QED
    BY <2>1, <2>2
<1>17. CASE Exit(s)
  <2> USE <1>0, <1>100, <1>17 DEF Exit, hist, Gone, Forget
  <2>1. DataTypes'
    BY DEF DataTypes, Places, States, ProcTypes, Results
  <2>2. ProcTypes' /\ ProcFrame(s)
    BY Constants DEF ProcTypes, ProcFrame, Goto, ServePC, Working, Handing, Answers, Results,
       States, DataTypes
  <2> QED
    BY <2>1, <2>2
<1>18. CASE \E m \in Msgs : Arrive(s, m)
  <2> USE <1>0, <1>18 DEF Arrive, hist
  <2>1. DataTypes'
    BY DEF DataTypes
  <2>2. ProcTypes' /\ ProcFrame(s)
    BY Constants DEF ProcTypes, ProcFrame, Goto, ServePC, Working, Handing, Answers, Results,
       States
  <2> QED
    BY <2>1, <2>2
<1> QED
  BY <1>1, <1>2, <1>3, <1>4, <1>5, <1>6, <1>7, <1>8, <1>9, <1>10, <1>11, <1>12, <1>13, <1>14,
     <1>15, <1>16, <1>17, <1>18 DEF ServeStep, Serve

\* So does a step of a hook ...
LEMMA HookTypes ==
  ASSUME ProcTypes, DataTypes, NEW h \in Hooks, Hook(h)
  PROVE  ProcTypes' /\ DataTypes' /\ ProcFrame(h)
<1>0. h \in Procs /\ h \notin Serves /\ h \notin Retractors /\ h # Nobody
  BY Constants
<1>1. CASE HookList(h)
  <2> USE <1>0, <1>1 DEF HookList, hist
  <2>1. DataTypes'
    BY DEF DataTypes, Places, States, ProcTypes
  <2>2. ProcTypes' /\ ProcFrame(h)
    BY Constants DEF ProcTypes, ProcFrame, Goto, HookPC, Answers, States, DataTypes
  <2> QED
    BY <2>1, <2>2
<1>2. CASE HookUpgrade(h)
  <2> USE <1>0, <1>2 DEF HookUpgrade, hist, SetState
  <2>1. DataTypes'
    BY DEF DataTypes, Places, States, ProcTypes
  <2>2. ProcTypes' /\ ProcFrame(h)
    BY Constants DEF ProcTypes, ProcFrame, Goto, HookPC, Answers, States, DataTypes
  <2> QED
    BY <2>1, <2>2
<1>3. CASE HookClaim(h)
  <2> USE <1>0, <1>3 DEF HookClaim, hist
  <2>1. DataTypes'
    BY DEF DataTypes, Places, States, ProcTypes
  <2>2. ProcTypes' /\ ProcFrame(h)
    BY Constants DEF ProcTypes, ProcFrame, Goto, HookPC, Answers, States, DataTypes
  <2> QED
    BY <2>1, <2>2
<1>4. CASE HookPresent(h)
  <2> USE <1>0, <1>4 DEF HookPresent, hist, SetState
  <2>1. DataTypes'
    BY DEF DataTypes, Places, States, ProcTypes
  <2>2. ProcTypes' /\ ProcFrame(h)
    BY Constants DEF ProcTypes, ProcFrame, Goto, HookPC, Answers, States, DataTypes
  <2> QED
    BY <2>1, <2>2
<1>5. CASE HookPrint(h)
  <2> USE <1>0, <1>5 DEF HookPrint, hist, Type, Forget
  <2>1. DataTypes'
    BY DEF DataTypes, Places, States, ProcTypes
  <2>2. ProcTypes' /\ ProcFrame(h)
    BY Constants DEF ProcTypes, ProcFrame, Goto, HookPC, Answers, States, DataTypes
  <2> QED
    BY <2>1, <2>2
<1>6. CASE HookEnd(h)
  <2> USE <1>0, <1>6 DEF HookEnd, hist
  <2>1. DataTypes'
    BY DEF DataTypes, Places, States, ProcTypes
  <2>2. ProcTypes' /\ ProcFrame(h)
    BY Constants DEF ProcTypes, ProcFrame, Goto, HookPC, Answers, States, DataTypes
  <2> QED
    BY <2>1, <2>2
<1> QED
  BY <1>1, <1>2, <1>3, <1>4, <1>5, <1>6 DEF Hook

\* ... of a retractor ...
LEMMA RetractTypes ==
  ASSUME ProcTypes, DataTypes, NEW r \in Retractors, Retract(r)
  PROVE  ProcTypes' /\ DataTypes' /\ ProcFrame(r)
<1>0. r \in Procs /\ r \notin Serves /\ r \notin Hooks /\ r # Nobody
  BY Constants
<1>1. CASE \E m \in Msgs : RetractRead(r, m)
  <2> USE <1>0, <1>1 DEF RetractRead, hist
  <2>1. DataTypes'
    BY DEF DataTypes, Places, States, ProcTypes
  <2>2. ProcTypes' /\ ProcFrame(r)
    BY Constants DEF ProcTypes, ProcFrame, Goto, RetractPC, Answers, States, DataTypes
  <2> QED
    BY <2>1, <2>2
<1>2. CASE RetractWrite(r)
  <2> USE <1>0, <1>2 DEF RetractWrite, hist, SetState
  <2>1. DataTypes'
    BY DEF DataTypes, Places, States, ProcTypes
  <2>2. ProcTypes' /\ ProcFrame(r)
    BY Constants DEF ProcTypes, ProcFrame, Goto, RetractPC, Answers, States, DataTypes
  <2> QED
    BY <2>1, <2>2
<1>3. CASE RetractBury(r)
  <2> USE <1>0, <1>3 DEF RetractBury, hist, Bury, Forget
  <2>1. DataTypes'
    BY DEF DataTypes, Places, States, ProcTypes
  <2>2. ProcTypes' /\ ProcFrame(r)
    BY Constants DEF ProcTypes, ProcFrame, Goto, RetractPC, Answers, States, DataTypes
  <2> QED
    BY <2>1, <2>2
<1> QED
  BY <1>1, <1>2, <1>3 DEF Retract

\* ... and a crash; the other writers touch no process.
LEMMA CrashTypes ==
  ASSUME ProcTypes, DataTypes, NEW p \in Procs, LedgerCrash(p)
  PROVE  ProcTypes' /\ DataTypes' /\ ProcFrame(p)
<1> USE DEF LedgerCrash, Forget, Gone
<1>1. DataTypes'
  BY Constants DEF DataTypes, ProcTypes, Procs
<1>2. ProcTypes' /\ ProcFrame(p)
  BY Constants DEF ProcTypes, ProcFrame, Goto, Procs, ServePC, Working, Handing, HookPC, RetractPC,
     Answers, States
<1> QED
  BY <1>1, <1>2

\* Types are kept by the writers that are no modelled process.
LEMMA MsgTypes ==
  ASSUME ProcTypes, DataTypes, NEW m \in Msgs, MsgStep(m)
  PROVE  ProcTypes' /\ DataTypes' /\ UNCHANGED <<pc, job, seen, todo>>
<1>1. UNCHANGED <<pc, job, seen, todo>>
  BY DEF MsgStep, Fence, Reconcile, Prune, QueueDrain, DrainPick, DrainSettle, Expires
<1>2. ProcTypes'
  BY <1>1 DEF ProcTypes
<1>3. CASE Fence(m) \/ Prune(m) \/ Expires(m)
  BY <1>1, <1>2, <1>3 DEF Fence, Prune, Expires, SetState, DataTypes, States, hist
<1>4. CASE Reconcile(m)
  BY <1>1, <1>2, <1>4, ReconciledFacts DEF Reconcile, SetState, DataTypes, hist
<1>5. CASE DrainPick(m)
  BY <1>1, <1>2, <1>5 DEF DrainPick, DataTypes, Places, hist
<1>6. CASE DrainSettle(m)
  BY <1>1, <1>2, <1>6 DEF DrainSettle, Type, DataTypes, Places, hist
<1> QED
  BY <1>3, <1>4, <1>5, <1>6 DEF MsgStep, QueueDrain

\* Every step of the host keeps the types.
LEMMA HostTypes ==
  ASSUME ProcTypes, DataTypes, HostStep
  PROVE  ProcTypes' /\ DataTypes'
BY ServeTypes, HookTypes, RetractTypes, CrashTypes, MsgTypes DEF HostStep

\* A step that decides nothing about any message keeps the invariant: a verb that
\* begins, is answered, fails or exits, and a hook or a retractor that looks.
Quiet(p) ==
  /\ UNCHANGED <<kind, late, ledger, place, tomb, typed, hist>>
  /\ pc[p] \notin {"present", "print"} /\ pc'[p] \in {"idle", "arrived", "done", "retract", "hook"}
  /\ pc'[p] = "hook" => kind = "hook"
  /\ p \in Hooks => \A m \in todo'[p] : m \in claimed /\ Shown(m)
  /\ p \in Retractors => job'[p] \in claimed
  /\ \A m \in Msgs : claimer'[m] = claimer[m] \/ claimer[m] = p

\* A process goes on without a change to ledger, queue or claims.
LEMMA QuietInv ==
  ASSUME LedgerInv, NEW p \in Procs, Quiet(p), ProcFrame(p), ProcTypes', DataTypes'
  PROVE  LedgerInv'
<1> USE DEF LedgerInv, Quiet, hist, ProcFrame, ProcTypes
<1>1. KindFits'
  BY Constants DEF DataTypes, HookPC, Handing, Working, Holds, WorksOn, KindFits
<1>2. ClaimedFirst'
  BY Constants DEF DataTypes, Handing, Working, Holds, WorksOn, ClaimedFirst
<1>3. OneAtWork'
  BY Constants DEF DataTypes, Handing, Working, Holds, WorksOn, OneAtWork, ClaimedFirst
<1>4. OneCopyEach'
  BY Constants DEF DataTypes, Handing, Working, Holds, WorksOn, OneCopyEach, OneCopy,
     OneAtWork, ClaimedFirst, KindFits
<1>5. RefusedNeverLeft'
  BY Constants DEF DataTypes, Handing, Working, Holds, WorksOn, RefusedNeverLeft, NeverLeft,
     ClaimedFirst, OneAtWork, OneCopyEach, OneCopy, KindFits
<1>6. PresentedShown'
  BY Constants DEF DataTypes, Handing, Working, Holds, WorksOn, PresentedShown, Shown,
     ClaimedFirst
<1>7. Ended'
  BY Constants DEF DataTypes, Handing, Working, Holds, WorksOn, Ended, ClaimedFirst
<1>8. AcceptedKept'
  BY Constants DEF DataTypes, Handing, Working, Holds, WorksOn, AcceptedKept, Kept, Excused,
     ClaimedFirst, Ended, KindFits
<1> QED
  BY <1>1, <1>2, <1>3, <1>4, <1>5, <1>6, <1>7, <1>8

\* A step of a serve process keeps the invariant.
LEMMA ServeInv ==
  ASSUME LedgerInv, NEW s \in Serves, ServeStep(s), ProcTypes', DataTypes'
  PROVE  LedgerInv'
<1> USE DEF LedgerInv
<1>0. s \in Procs /\ s \notin Hooks /\ s \notin Retractors /\ ProcFrame(s)
  BY ServeTypes, Constants
<1>100. ProcTypes /\ DataTypes
  OBVIOUS
<1>1. CASE AcceptKnown(s)
  <2> USE <1>0, <1>1 DEF AcceptKnown, hist, Answer
  <2>1. KindFits'
    BY Constants DEF Recovering, ProcTypes, DataTypes, ProcFrame, Goto, Handing, Working,
       Holds, WorksOn, KindFits
  <2>2. ClaimedFirst'
    BY Constants DEF Recovering, ProcTypes, DataTypes, ProcFrame, Goto, Handing, Working,
       Holds, WorksOn, ClaimedFirst
  <2>3. OneAtWork'
    <3>1. CASE pc'[s] = "done"
      BY <3>1, Constants DEF ProcTypes, ProcFrame, Working, Handing, WorksOn, OneAtWork
    <3>2. CASE pc'[s] \in {"expire", "recover"} /\ ~ClaimerAlive(s, job[s])
      <4>1. raced' = IF Recovering(job[s]) = {} THEN raced ELSE raced \cup {job[s]}
        BY <3>2 DEF Answer, Goto, ProcTypes
      <4>2. ASSUME job[s] \notin raced', NEW t \in Serves, t # s, WorksOn(t, job[s]) PROVE FALSE
        <5>1. t \notin Recovering(job[s]) /\ pc[t] \in {"supersede", "superseding"}
          BY <4>1, <4>2 DEF Recovering, WorksOn, Working, Handing
        <5>2. claimer[job[s]] = t
          BY <4>2, <5>1 DEF OneAtWork, WorksOn
        <5> QED
          BY <3>2, <4>2, <5>2, Constants DEF ClaimerAlive
      <4>3. raced \subseteq raced' /\ job' = job /\ claimer' = claimer
        BY <4>1
      <4> QED
        BY <3>2, <4>2, <4>3, Constants DEF ProcTypes, ProcFrame, WorksOn, OneAtWork
    <3> QED
      BY <3>1, <3>2 DEF Answer, Goto, ProcTypes
  <2>4. OneCopyEach'
    BY Constants DEF Recovering, ProcTypes, DataTypes, ProcFrame, Goto, Handing, Working,
       Holds, WorksOn, OneCopyEach, OneCopy, OneAtWork, ClaimedFirst, KindFits
  <2>5. RefusedNeverLeft'
    BY Constants DEF Recovering, ProcTypes, DataTypes, ProcFrame, Goto, Handing, Working,
       Holds, WorksOn, RefusedNeverLeft, NeverLeft, ClaimedFirst, OneAtWork, OneCopyEach,
       OneCopy, KindFits
  <2>6. PresentedShown'
    BY Constants DEF Recovering, ProcTypes, DataTypes, ProcFrame, Goto, Handing, Working,
       Holds, WorksOn, PresentedShown, Shown, ClaimedFirst
  <2>7. Ended'
    BY Constants DEF Recovering, ProcTypes, DataTypes, ProcFrame, Goto, Handing, Working,
       Holds, WorksOn, Ended, ClaimedFirst
  <2>8. AcceptedKept'
    BY Constants DEF Recovering, ProcTypes, DataTypes, ProcFrame, Goto, Handing, Working,
       Holds, WorksOn, AcceptedKept, Kept, Excused, ClaimedFirst, Ended, KindFits
  <2> QED
    BY <2>1, <2>2, <2>3, <2>4, <2>5, <2>6, <2>7, <2>8
<1>2. CASE AcceptRefused(s)
  <2> USE <1>0, <1>2 DEF AcceptRefused, hist, Answer, SetState
  <2>1. KindFits'
    BY Constants DEF ProcTypes, DataTypes, ProcFrame, Goto, Handing, Working, Holds, WorksOn,
       KindFits
  <2>2. ClaimedFirst'
    BY Constants DEF ProcTypes, DataTypes, ProcFrame, Goto, Handing, Working, Holds, WorksOn,
       ClaimedFirst
  <2>3. OneAtWork'
    BY Constants DEF ProcTypes, DataTypes, ProcFrame, Goto, Handing, Working, Holds, WorksOn,
       OneAtWork, ClaimedFirst
  <2>4. OneCopyEach'
    BY Constants DEF ProcTypes, DataTypes, ProcFrame, Goto, Handing, Working, Holds, WorksOn,
       OneCopyEach, OneCopy, OneAtWork, ClaimedFirst, KindFits
  <2>5. RefusedNeverLeft'
    BY Constants DEF ProcTypes, DataTypes, ProcFrame, Goto, Handing, Working, Holds, WorksOn,
       RefusedNeverLeft, NeverLeft, ClaimedFirst, OneAtWork, OneCopyEach, OneCopy, KindFits
  <2>6. PresentedShown'
    BY Constants DEF ProcTypes, DataTypes, ProcFrame, Goto, Handing, Working, Holds, WorksOn,
       PresentedShown, Shown, ClaimedFirst
  <2>7. Ended'
    BY Constants DEF ProcTypes, DataTypes, ProcFrame, Goto, Handing, Working, Holds, WorksOn,
       Ended, ClaimedFirst
  <2>8. AcceptedKept'
    BY Constants DEF ProcTypes, DataTypes, ProcFrame, Goto, Handing, Working, Holds, WorksOn,
       AcceptedKept, Kept, Excused, ClaimedFirst, Ended, KindFits
  <2> QED
    BY <2>1, <2>2, <2>3, <2>4, <2>5, <2>6, <2>7, <2>8
<1>3. CASE Claim(s)
  <2> USE <1>0, <1>3 DEF Claim, hist, SetState
  <2>1. KindFits'
    BY Constants DEF ProcTypes, DataTypes, ProcFrame, Goto, Handing, Working, Holds, WorksOn,
       KindFits
  <2>2. ClaimedFirst'
    BY Constants DEF ProcTypes, DataTypes, ProcFrame, Goto, Handing, Working, Holds, WorksOn,
       ClaimedFirst
  <2>3. OneAtWork'
    BY Constants DEF ProcTypes, DataTypes, ProcFrame, Goto, Handing, Working, Holds, WorksOn,
       OneAtWork, ClaimedFirst
  <2>4. OneCopyEach'
    BY Constants DEF ProcTypes, DataTypes, ProcFrame, Goto, Handing, Working, Holds, WorksOn,
       OneCopyEach, OneCopy, OneAtWork, ClaimedFirst, KindFits
  <2>5. RefusedNeverLeft'
    BY Constants DEF ProcTypes, DataTypes, ProcFrame, Goto, Handing, Working, Holds, WorksOn,
       RefusedNeverLeft, NeverLeft, ClaimedFirst, OneAtWork, OneCopyEach, OneCopy, KindFits
  <2>6. PresentedShown'
    BY Constants DEF ProcTypes, DataTypes, ProcFrame, Goto, Handing, Working, Holds, WorksOn,
       PresentedShown, Shown, ClaimedFirst
  <2>7. Ended'
    BY Constants DEF ProcTypes, DataTypes, ProcFrame, Goto, Handing, Working, Holds, WorksOn,
       Ended, ClaimedFirst
  <2>8. AcceptedKept'
    BY Constants DEF ProcTypes, DataTypes, ProcFrame, Goto, Handing, Working, Holds, WorksOn,
       AcceptedKept, Kept, Excused, ClaimedFirst, Ended, KindFits
  <2> QED
    BY <2>1, <2>2, <2>3, <2>4, <2>5, <2>6, <2>7, <2>8
<1>4. CASE SupersedeRead(s)
  <2> USE <1>0, <1>4 DEF SupersedeRead, hist
  <2>1. KindFits'
    BY Constants DEF ProcTypes, DataTypes, ProcFrame, Goto, Handing, Working, Holds, WorksOn,
       KindFits
  <2>2. ClaimedFirst'
    BY Constants DEF ProcTypes, DataTypes, ProcFrame, Goto, Handing, Working, Holds, WorksOn,
       ClaimedFirst
  <2>3. OneAtWork'
    BY Constants DEF ProcTypes, DataTypes, ProcFrame, Goto, Handing, Working, Holds, WorksOn,
       OneAtWork, ClaimedFirst
  <2>4. OneCopyEach'
    BY Constants DEF ProcTypes, DataTypes, ProcFrame, Goto, Handing, Working, Holds, WorksOn,
       OneCopyEach, OneCopy, OneAtWork, ClaimedFirst, KindFits
  <2>5. RefusedNeverLeft'
    BY Constants DEF ProcTypes, DataTypes, ProcFrame, Goto, Handing, Working, Holds, WorksOn,
       RefusedNeverLeft, NeverLeft, ClaimedFirst, OneAtWork, OneCopyEach, OneCopy, KindFits
  <2>6. PresentedShown'
    BY Constants DEF ProcTypes, DataTypes, ProcFrame, Goto, Handing, Working, Holds, WorksOn,
       PresentedShown, Shown, ClaimedFirst
  <2>7. Ended'
    BY Constants DEF ProcTypes, DataTypes, ProcFrame, Goto, Handing, Working, Holds, WorksOn,
       Ended, ClaimedFirst
  <2>8. AcceptedKept'
    BY Constants DEF ProcTypes, DataTypes, ProcFrame, Goto, Handing, Working, Holds, WorksOn,
       AcceptedKept, Kept, Excused, ClaimedFirst, Ended, KindFits
  <2> QED
    BY <2>1, <2>2, <2>3, <2>4, <2>5, <2>6, <2>7, <2>8
<1>5. CASE SupersedeWrite(s)
  <2> USE <1>0, <1>5 DEF SupersedeWrite, hist, SetState, Bury
  <2>1. KindFits'
    BY Constants DEF ProcTypes, DataTypes, ProcFrame, Goto, Handing, Working, Holds, WorksOn,
       KindFits
  <2>2. ClaimedFirst'
    BY Constants DEF ProcTypes, DataTypes, ProcFrame, Goto, Handing, Working, Holds, WorksOn,
       ClaimedFirst
  <2>3. OneAtWork'
    BY Constants DEF ProcTypes, DataTypes, ProcFrame, Goto, Handing, Working, Holds, WorksOn,
       OneAtWork, ClaimedFirst
  <2>4. OneCopyEach'
    BY Constants DEF ProcTypes, DataTypes, ProcFrame, Goto, Handing, Working, Holds, WorksOn,
       OneCopyEach, OneCopy, OneAtWork, ClaimedFirst, KindFits
  <2>5. RefusedNeverLeft'
    BY Constants DEF ProcTypes, DataTypes, ProcFrame, Goto, Handing, Working, Holds, WorksOn,
       RefusedNeverLeft, NeverLeft, ClaimedFirst, OneAtWork, OneCopyEach, OneCopy, KindFits
  <2>6. PresentedShown'
    BY Constants DEF ProcTypes, DataTypes, ProcFrame, Goto, Handing, Working, Holds, WorksOn,
       PresentedShown, Shown, ClaimedFirst
  <2>7. Ended'
    BY Constants DEF ProcTypes, DataTypes, ProcFrame, Goto, Handing, Working, Holds, WorksOn,
       Ended, ClaimedFirst
  <2>8. AcceptedKept'
    BY Constants DEF ProcTypes, DataTypes, ProcFrame, Goto, Handing, Working, Holds, WorksOn,
       AcceptedKept, Kept, Excused, ClaimedFirst, Ended, KindFits
  <2> QED
    BY <2>1, <2>2, <2>3, <2>4, <2>5, <2>6, <2>7, <2>8
<1>6. CASE HandOverHook(s)
  <2> USE <1>0, <1>6 DEF HandOverHook, hist
  <2>1. KindFits'
    BY Constants DEF ProcTypes, DataTypes, ProcFrame, Goto, Handing, Working, Holds, WorksOn,
       KindFits
  <2>2. ClaimedFirst'
    BY Constants DEF ProcTypes, DataTypes, ProcFrame, Goto, Handing, Working, Holds, WorksOn,
       ClaimedFirst
  <2>3. OneAtWork'
    BY Constants DEF ProcTypes, DataTypes, ProcFrame, Goto, Handing, Working, Holds, WorksOn,
       OneAtWork, ClaimedFirst
  <2>4. OneCopyEach'
    <3>1. pc'[s] = "finish" /\ job' = job /\ job[s] \in Msgs /\ pc[s] \in Handing
      BY DEF Goto, ProcTypes, Handing
    <3>2. \A n \in Msgs \ {job[s]} : place'[n] = place[n]
      BY DEF DataTypes
    <3>3. place'[job[s]] \in {place[job[s]], place[job[s]] \cup {"waiting"}}
      BY <3>1 DEF DataTypes
    <3>4. ASSUME NEW n \in Msgs \ raced PROVE OneCopy(n)'
      <4>1. OneCopy(n)
        BY DEF OneCopyEach
      <4>2. CASE n # job[s]
        BY <3>1, <3>2, <4>1, <4>2, Constants DEF OneCopy, ProcFrame, Handing, Holds
      <4>3. CASE n = job[s]
        <5>1. place[n] = {} /\ typed[n] = 0 /\ place'[n] \subseteq {"waiting"} /\ typed'[n] = 0
          BY <3>1, <3>3, <4>1, <4>3 DEF OneCopy
        <5>2. \A h \in Hooks : ~Holds(h, n)'
          BY <3>1, <4>1, <5>1, Constants DEF OneCopy, ProcFrame, Holds
        <5>3. \A t \in Serves : ~(pc'[t] \in Handing /\ job'[t] = n)
          BY <3>1, <4>3, Constants DEF OneAtWork, WorksOn, Working, Handing, ProcFrame
        <5> QED
          BY <5>1, <5>2, <5>3 DEF OneCopy
      <4> QED
        BY <4>2, <4>3
    <3> QED
      BY <3>4 DEF OneCopyEach
  <2>5. RefusedNeverLeft'
    <3>1. pc'[s] = "finish" /\ job' = job /\ job[s] \in Msgs /\ pc[s] \in Handing
      BY DEF Goto, ProcTypes, Handing
    <3>2. \A n \in Msgs \ {job[s]} : place'[n] = place[n]
      BY DEF DataTypes
    <3>3. place'[job[s]] \in {place[job[s]], place[job[s]] \cup {"waiting"}}
      BY <3>1 DEF DataTypes
    <3>4. ASSUME NEW n \in Msgs \ (raced \cup late)
          PROVE  /\ \A t \in Serves : pc'[t] = "finish" /\ job'[t] = n /\ seen'[t] = "refused" =>
                                     NeverLeft(n)'
                 /\ ledger'[n] \in {"refused", "fenced"} =>
                      NeverLeft(n)' /\ \A t \in Serves : ~WorksOn(t, n)'
      <4>1. CASE n # job[s]
        BY <3>1, <3>2, <4>1, Constants
        DEF RefusedNeverLeft, NeverLeft, ProcFrame, Working, Handing, Holds,
           WorksOn
      <4>2. CASE n = job[s]
        <5>1. place[n] = {} /\ typed[n] = 0 /\ \A h \in Hooks : ~Holds(h, n)
          BY <3>1, <4>2 DEF OneCopyEach, OneCopy
        <5>2. WorksOn(s, n) /\ \A t \in Serves : WorksOn(t, n) => t = s
          BY <3>1, <4>2 DEF OneAtWork, WorksOn, Working, Handing
        <5>3. ledger[n] \notin {"refused", "fenced"}
          BY <5>2 DEF RefusedNeverLeft
        <5>4. \A t \in Serves : pc'[t] = "finish" /\ job'[t] = n => t = s
          BY <5>2, Constants DEF ProcFrame, WorksOn, Working
        <5>5. seen'[s] = "refused" => place' = place
          BY DEF ProcTypes
        <5>6. \A h \in Hooks : ~Holds(h, n)'
          BY <5>1, Constants DEF ProcFrame, Holds
        <5> QED
          BY <5>1, <5>3, <5>4, <5>5, <5>6 DEF NeverLeft
      <4> QED
        BY <4>1, <4>2
    <3> QED
      BY <3>4 DEF RefusedNeverLeft
  <2>6. PresentedShown'
    BY Constants DEF ProcTypes, DataTypes, ProcFrame, Goto, Handing, Working, Holds, WorksOn,
       PresentedShown, Shown, ClaimedFirst
  <2>7. Ended'
    BY Constants DEF ProcTypes, DataTypes, ProcFrame, Goto, Handing, Working, Holds, WorksOn,
       Ended, ClaimedFirst
  <2>8. AcceptedKept'
    <3>1. pc'[s] = "finish" /\ job' = job /\ job[s] \in Msgs /\ pc[s] \in Handing
      BY DEF Goto, ProcTypes, Handing
    <3>2. \A n \in Msgs \ {job[s]} : place'[n] = place[n]
      BY DEF DataTypes
    <3>3. place'[job[s]] \in {place[job[s]], place[job[s]] \cup {"waiting"}}
      BY <3>1 DEF DataTypes
    <3>4. \A h \in Hooks, n \in Msgs : Holds(h, n)' <=> Holds(h, n)
      BY Constants DEF ProcFrame, Holds
    <3>5. \A n \in Msgs \ Excused : place'[n] # {} => Kept(n)'
      BY <3>2, <3>3, <3>4 DEF AcceptedKept, Kept
    <3>6. \A n \in Msgs \ Excused : ledger[n] = "accepted" => place'[n] # {} \/ typed[n] > 0
      BY <3>2, <3>3 DEF AcceptedKept
    <3>7. seen'[s] = "accepted" => place'[job[s]] # {}
      <4>1. seen'[s] = "accepted" => "waiting" \in place'[job[s]]
        BY <3>1 DEF ProcTypes, DataTypes
      <4> QED
        BY <4>1
    <3>8. ASSUME NEW t \in Serves, pc'[t] \in {"recovered", "finish"}, seen'[t] = "accepted"
          PROVE  place'[job'[t]] # {} \/ typed'[job'[t]] > 0
      <4>1. CASE t = s
        BY <3>1, <3>7, <3>8, <4>1
      <4>2. CASE t # s
        <5>1. job[t] \in Msgs /\ (place[job[t]] # {} \/ typed[job[t]] > 0)
          BY <3>8, <4>2, Constants DEF ProcFrame, ProcTypes, AcceptedKept
        <5> QED
          BY <3>1, <3>2, <3>3, <5>1
      <4> QED
        BY <4>1, <4>2
    <3> QED
      BY <3>5, <3>6, <3>8 DEF AcceptedKept, Excused
  <2> QED
    BY <2>1, <2>2, <2>3, <2>4, <2>5, <2>6, <2>7, <2>8
<1>7. CASE HandOverQueue(s)
  <2> USE <1>0, <1>7 DEF HandOverQueue, hist
  <2>1. KindFits'
    BY Constants DEF ProcTypes, DataTypes, ProcFrame, Goto, Handing, Working, Holds, WorksOn,
       KindFits
  <2>2. ClaimedFirst'
    BY Constants DEF ProcTypes, DataTypes, ProcFrame, Goto, Handing, Working, Holds, WorksOn,
       ClaimedFirst
  <2>3. OneAtWork'
    BY Constants DEF ProcTypes, DataTypes, ProcFrame, Goto, Handing, Working, Holds, WorksOn,
       OneAtWork, ClaimedFirst
  <2>4. OneCopyEach'
    BY Constants DEF ProcTypes, DataTypes, ProcFrame, Goto, Handing, Working, Holds, WorksOn,
       OneCopyEach, OneCopy, OneAtWork, ClaimedFirst, KindFits
  <2>5. RefusedNeverLeft'
    BY Constants DEF ProcTypes, DataTypes, ProcFrame, Goto, Handing, Working, Holds, WorksOn,
       RefusedNeverLeft, NeverLeft, ClaimedFirst, OneAtWork, OneCopyEach, OneCopy, KindFits
  <2>6. PresentedShown'
    BY Constants DEF ProcTypes, DataTypes, ProcFrame, Goto, Handing, Working, Holds, WorksOn,
       PresentedShown, Shown, ClaimedFirst
  <2>7. Ended'
    BY Constants DEF ProcTypes, DataTypes, ProcFrame, Goto, Handing, Working, Holds, WorksOn,
       Ended, ClaimedFirst
  <2>8. AcceptedKept'
    BY Constants DEF ProcTypes, DataTypes, ProcFrame, Goto, Handing, Working, Holds, WorksOn,
       AcceptedKept, Kept, Excused, ClaimedFirst, Ended, KindFits
  <2> QED
    BY <2>1, <2>2, <2>3, <2>4, <2>5, <2>6, <2>7, <2>8
<1>8. CASE Enqueue(s)
  <2> USE <1>0, <1>8 DEF Enqueue, hist
  <2>1. KindFits'
    BY Constants DEF Contains, ProcTypes, DataTypes, ProcFrame, Goto, Handing, Working, Holds,
       WorksOn, KindFits
  <2>2. ClaimedFirst'
    BY Constants DEF Contains, ProcTypes, DataTypes, ProcFrame, Goto, Handing, Working, Holds,
       WorksOn, ClaimedFirst
  <2>3. OneAtWork'
    BY Constants DEF Contains, ProcTypes, DataTypes, ProcFrame, Goto, Handing, Working, Holds,
       WorksOn, OneAtWork, ClaimedFirst
  <2>4. OneCopyEach'
    BY Constants DEF Contains, ProcTypes, DataTypes, ProcFrame, Goto, Handing, Working, Holds,
       WorksOn, OneCopyEach, OneCopy, OneAtWork, ClaimedFirst, KindFits
  <2>5. RefusedNeverLeft'
    BY Constants DEF Contains, ProcTypes, DataTypes, ProcFrame, Goto, Handing, Working, Holds,
       WorksOn, RefusedNeverLeft, NeverLeft, ClaimedFirst, OneAtWork, OneCopyEach, OneCopy,
       KindFits
  <2>6. PresentedShown'
    BY Constants DEF Contains, ProcTypes, DataTypes, ProcFrame, Goto, Handing, Working, Holds,
       WorksOn, PresentedShown, Shown, ClaimedFirst
  <2>7. Ended'
    BY Constants DEF Contains, ProcTypes, DataTypes, ProcFrame, Goto, Handing, Working, Holds,
       WorksOn, Ended, ClaimedFirst
  <2>8. AcceptedKept'
    <3>1. pc'[s] = "finish" /\ job' = job /\ job[s] \in Msgs /\ pc[s] \in Handing
      BY DEF Goto, ProcTypes, Handing
    <3>2. \A n \in Msgs \ {job[s]} : place'[n] = place[n]
      BY DEF DataTypes
    <3>3. place'[job[s]] \in {place[job[s]], place[job[s]] \cup {"waiting"}}
      BY <3>1 DEF DataTypes
    <3>4. \A h \in Hooks, n \in Msgs : Holds(h, n)' <=> Holds(h, n)
      BY Constants DEF ProcFrame, Holds
    <3>5. \A n \in Msgs \ Excused : place'[n] # {} => Kept(n)'
      BY <3>2, <3>3, <3>4 DEF AcceptedKept, Kept
    <3>6. \A n \in Msgs \ Excused : ledger[n] = "accepted" => place'[n] # {} \/ typed[n] > 0
      BY <3>2, <3>3 DEF AcceptedKept
    <3>7. seen'[s] = "accepted" => place'[job[s]] # {}
      <4>1. CASE place' = [place EXCEPT ![job[s]] = @ \cup {"waiting"}]
        <5>1. "waiting" \in place'[job[s]]
          BY <3>1, <4>1 DEF DataTypes
        <5> QED
          BY <5>1
      <4>2. CASE UNCHANGED place /\ seen' = [seen EXCEPT ![s] =
                   CASE Contains(job[s]) = "yes" -> "accepted"
                     [] Contains(job[s]) = "no" -> "refused"
                     [] OTHER -> "possibly_submitted"]
        <5>1. seen'[s] = "accepted" => Contains(job[s]) = "yes"
          BY <4>2 DEF ProcTypes
        <5> QED
          BY <4>2, <5>1 DEF Contains
      <4> QED
        BY <4>1, <4>2
    <3>8. ASSUME NEW t \in Serves, pc'[t] \in {"recovered", "finish"}, seen'[t] = "accepted"
          PROVE  place'[job'[t]] # {} \/ typed'[job'[t]] > 0
      <4>1. CASE t = s
        BY <3>1, <3>7, <3>8, <4>1
      <4>2. CASE t # s
        <5>1. job[t] \in Msgs /\ (place[job[t]] # {} \/ typed[job[t]] > 0)
          BY <3>8, <4>2, Constants DEF ProcFrame, ProcTypes, AcceptedKept
        <5> QED
          BY <3>1, <3>2, <3>3, <5>1
      <4> QED
        BY <4>1, <4>2
    <3> QED
      BY <3>5, <3>6, <3>8 DEF AcceptedKept, Excused
  <2> QED
    BY <2>1, <2>2, <2>3, <2>4, <2>5, <2>6, <2>7, <2>8
<1>9. CASE HandOverCommand(s)
  <2> USE <1>0, <1>9 DEF HandOverCommand, hist, Type
  <2>1. KindFits'
    BY Constants DEF ProcTypes, DataTypes, ProcFrame, Goto, Handing, Working, Holds, WorksOn,
       KindFits
  <2>2. ClaimedFirst'
    BY Constants DEF ProcTypes, DataTypes, ProcFrame, Goto, Handing, Working, Holds, WorksOn,
       ClaimedFirst
  <2>3. OneAtWork'
    BY Constants DEF ProcTypes, DataTypes, ProcFrame, Goto, Handing, Working, Holds, WorksOn,
       OneAtWork, ClaimedFirst
  <2>4. OneCopyEach'
    BY Constants DEF ProcTypes, DataTypes, ProcFrame, Goto, Handing, Working, Holds, WorksOn,
       OneCopyEach, OneCopy, OneAtWork, ClaimedFirst, KindFits
  <2>5. RefusedNeverLeft'
    BY Constants DEF ProcTypes, DataTypes, ProcFrame, Goto, Handing, Working, Holds, WorksOn,
       RefusedNeverLeft, NeverLeft, ClaimedFirst, OneAtWork, OneCopyEach, OneCopy, KindFits
  <2>6. PresentedShown'
    BY Constants DEF ProcTypes, DataTypes, ProcFrame, Goto, Handing, Working, Holds, WorksOn,
       PresentedShown, Shown, ClaimedFirst
  <2>7. Ended'
    BY Constants DEF ProcTypes, DataTypes, ProcFrame, Goto, Handing, Working, Holds, WorksOn,
       Ended, ClaimedFirst
  <2>8. AcceptedKept'
    BY Constants DEF ProcTypes, DataTypes, ProcFrame, Goto, Handing, Working, Holds, WorksOn,
       AcceptedKept, Kept, Excused, ClaimedFirst, Ended, KindFits
  <2> QED
    BY <2>1, <2>2, <2>3, <2>4, <2>5, <2>6, <2>7, <2>8
<1>10. CASE Finish(s)
  <2> USE <1>0, <1>10 DEF Finish, hist, SetState, Answer
  <2>1. KindFits'
    BY Constants DEF Results, ProcTypes, DataTypes, ProcFrame, Goto, Handing, Working, Holds,
       WorksOn, KindFits
  <2>2. ClaimedFirst'
    BY Constants DEF Results, ProcTypes, DataTypes, ProcFrame, Goto, Handing, Working, Holds,
       WorksOn, ClaimedFirst
  <2>3. OneAtWork'
    BY Constants DEF Results, ProcTypes, DataTypes, ProcFrame, Goto, Handing, Working, Holds,
       WorksOn, OneAtWork, ClaimedFirst
  <2>4. OneCopyEach'
    BY Constants DEF Results, ProcTypes, DataTypes, ProcFrame, Goto, Handing, Working, Holds,
       WorksOn, OneCopyEach, OneCopy, OneAtWork, ClaimedFirst, KindFits
  <2>5. RefusedNeverLeft'
    BY Constants DEF Results, ProcTypes, DataTypes, ProcFrame, Goto, Handing, Working, Holds,
       WorksOn, RefusedNeverLeft, NeverLeft, ClaimedFirst, OneAtWork, OneCopyEach, OneCopy,
       KindFits
  <2>6. PresentedShown'
    BY Constants DEF Results, ProcTypes, DataTypes, ProcFrame, Goto, Handing, Working, Holds,
       WorksOn, PresentedShown, Shown, ClaimedFirst
  <2>7. Ended'
    BY Constants DEF Results, ProcTypes, DataTypes, ProcFrame, Goto, Handing, Working, Holds,
       WorksOn, Ended, ClaimedFirst
  <2>8. AcceptedKept'
    BY Constants DEF Results, ProcTypes, DataTypes, ProcFrame, Goto, Handing, Working, Holds,
       WorksOn, AcceptedKept, Kept, Excused, ClaimedFirst, Ended, KindFits
  <2> QED
    BY <2>1, <2>2, <2>3, <2>4, <2>5, <2>6, <2>7, <2>8
<1>11. CASE Recover(s)
  <2> USE <1>0, <1>11 DEF Recover, hist
  <2>1. KindFits'
    BY Constants DEF Contains, ProcTypes, DataTypes, ProcFrame, Goto, Handing, Working, Holds,
       WorksOn, KindFits
  <2>2. ClaimedFirst'
    BY Constants DEF Contains, ProcTypes, DataTypes, ProcFrame, Goto, Handing, Working, Holds,
       WorksOn, ClaimedFirst
  <2>3. OneAtWork'
    BY Constants DEF Contains, ProcTypes, DataTypes, ProcFrame, Goto, Handing, Working, Holds,
       WorksOn, OneAtWork, ClaimedFirst
  <2>4. OneCopyEach'
    BY Constants DEF Contains, ProcTypes, DataTypes, ProcFrame, Goto, Handing, Working, Holds,
       WorksOn, OneCopyEach, OneCopy, OneAtWork, ClaimedFirst, KindFits
  <2>5. RefusedNeverLeft'
    BY Constants DEF Contains, ProcTypes, DataTypes, ProcFrame, Goto, Handing, Working, Holds,
       WorksOn, RefusedNeverLeft, NeverLeft, ClaimedFirst, OneAtWork, OneCopyEach, OneCopy,
       KindFits
  <2>6. PresentedShown'
    BY Constants DEF Contains, ProcTypes, DataTypes, ProcFrame, Goto, Handing, Working, Holds,
       WorksOn, PresentedShown, Shown, ClaimedFirst
  <2>7. Ended'
    BY Constants DEF Contains, ProcTypes, DataTypes, ProcFrame, Goto, Handing, Working, Holds,
       WorksOn, Ended, ClaimedFirst
  <2>8. AcceptedKept'
    BY Constants DEF Contains, ProcTypes, DataTypes, ProcFrame, Goto, Handing, Working, Holds,
       WorksOn, AcceptedKept, Kept, Excused, ClaimedFirst, Ended, KindFits
  <2> QED
    BY <2>1, <2>2, <2>3, <2>4, <2>5, <2>6, <2>7, <2>8
<1>12. CASE RecoverWrite(s)
  <2> USE <1>0, <1>12 DEF RecoverWrite, hist, SetState, Answer
  <2>1. KindFits'
    BY Constants DEF Results, ProcTypes, DataTypes, ProcFrame, Goto, Handing, Working, Holds,
       WorksOn, KindFits
  <2>2. ClaimedFirst'
    BY Constants DEF Results, ProcTypes, DataTypes, ProcFrame, Goto, Handing, Working, Holds,
       WorksOn, ClaimedFirst
  <2>3. OneAtWork'
    BY Constants DEF Results, ProcTypes, DataTypes, ProcFrame, Goto, Handing, Working, Holds,
       WorksOn, OneAtWork, ClaimedFirst
  <2>4. OneCopyEach'
    BY Constants DEF Results, ProcTypes, DataTypes, ProcFrame, Goto, Handing, Working, Holds,
       WorksOn, OneCopyEach, OneCopy, OneAtWork, ClaimedFirst, KindFits
  <2>5. RefusedNeverLeft'
    BY Constants DEF Results, ProcTypes, DataTypes, ProcFrame, Goto, Handing, Working, Holds,
       WorksOn, RefusedNeverLeft, NeverLeft, ClaimedFirst, OneAtWork, OneCopyEach, OneCopy,
       KindFits
  <2>6. PresentedShown'
    BY Constants DEF Results, ProcTypes, DataTypes, ProcFrame, Goto, Handing, Working, Holds,
       WorksOn, PresentedShown, Shown, ClaimedFirst
  <2>7. Ended'
    BY Constants DEF Results, ProcTypes, DataTypes, ProcFrame, Goto, Handing, Working, Holds,
       WorksOn, Ended, ClaimedFirst
  <2>8. AcceptedKept'
    BY Constants DEF Results, ProcTypes, DataTypes, ProcFrame, Goto, Handing, Working, Holds,
       WorksOn, AcceptedKept, Kept, Excused, ClaimedFirst, Ended, KindFits
  <2> QED
    BY <2>1, <2>2, <2>3, <2>4, <2>5, <2>6, <2>7, <2>8
<1>13. CASE ExpireClaim(s)
  <2> USE <1>0, <1>13 DEF ExpireClaim, hist, SetState, Answer
  <2>1. KindFits'
    BY Constants DEF ProcTypes, DataTypes, ProcFrame, Goto, Handing, Working, Holds, WorksOn,
       KindFits
  <2>2. ClaimedFirst'
    BY Constants DEF ProcTypes, DataTypes, ProcFrame, Goto, Handing, Working, Holds, WorksOn,
       ClaimedFirst
  <2>3. OneAtWork'
    BY Constants DEF ProcTypes, DataTypes, ProcFrame, Goto, Handing, Working, Holds, WorksOn,
       OneAtWork, ClaimedFirst
  <2>4. OneCopyEach'
    BY Constants DEF ProcTypes, DataTypes, ProcFrame, Goto, Handing, Working, Holds, WorksOn,
       OneCopyEach, OneCopy, OneAtWork, ClaimedFirst, KindFits
  <2>5. RefusedNeverLeft'
    BY Constants DEF ProcTypes, DataTypes, ProcFrame, Goto, Handing, Working, Holds, WorksOn,
       RefusedNeverLeft, NeverLeft, ClaimedFirst, OneAtWork, OneCopyEach, OneCopy, KindFits
  <2>6. PresentedShown'
    BY Constants DEF ProcTypes, DataTypes, ProcFrame, Goto, Handing, Working, Holds, WorksOn,
       PresentedShown, Shown, ClaimedFirst
  <2>7. Ended'
    BY Constants DEF ProcTypes, DataTypes, ProcFrame, Goto, Handing, Working, Holds, WorksOn,
       Ended, ClaimedFirst
  <2>8. AcceptedKept'
    BY Constants DEF ProcTypes, DataTypes, ProcFrame, Goto, Handing, Working, Holds, WorksOn,
       AcceptedKept, Kept, Excused, ClaimedFirst, Ended, KindFits
  <2> QED
    BY <2>1, <2>2, <2>3, <2>4, <2>5, <2>6, <2>7, <2>8
<1>14. CASE \/ RefuseRoute(s) \/ AcceptUndeliverable(s) \/ AcceptFails(s) \/ Exit(s)
          \/ \E m \in Msgs : Arrive(s, m)
  <2>1. UNCHANGED <<kind, late, ledger, place, tomb, typed, hist>>
    BY <1>14 DEF RefuseRoute, AcceptUndeliverable, AcceptFails, Exit, Arrive
  <2>2. pc'[s] \in {"idle", "arrived", "done"} /\ pc[s] \notin {"present", "print"}
    BY <1>0, <1>14, <1>100
    DEF RefuseRoute, AcceptUndeliverable, AcceptFails, Exit, Arrive, Answer, Goto,
       ProcTypes, ServePC, Working, Handing
  <2>3. \A m \in Msgs : claimer'[m] = claimer[m] \/ claimer[m] = s
    BY <1>14 DEF RefuseRoute, AcceptUndeliverable, AcceptFails, Exit, Arrive, Gone
  <2> QED
    BY <1>0, <2>1, <2>2, <2>3, QuietInv DEF Quiet
<1> QED
  BY <1>1, <1>2, <1>3, <1>4, <1>5, <1>6, <1>7, <1>8, <1>9, <1>10, <1>11, <1>12, <1>13, <1>14
     DEF ServeStep, Serve

\* A step of a hook keeps the invariant.
LEMMA HookInv ==
  ASSUME LedgerInv, NEW h \in Hooks, Hook(h), ProcTypes', DataTypes'
  PROVE  LedgerInv'
<1> USE DEF LedgerInv
<1>0. h \in Procs /\ h \notin Serves /\ h \notin Retractors /\ ProcFrame(h)
  BY HookTypes, Constants
<1>100. ProcTypes /\ DataTypes
  OBVIOUS
<1>1. CASE HookUpgrade(h)
  <2> USE <1>0, <1>1 DEF HookUpgrade, hist, SetState
  <2>1. KindFits'
    BY Constants DEF ProcTypes, DataTypes, ProcFrame, Goto, Handing, Working, Holds, WorksOn,
       KindFits
  <2>2. ClaimedFirst'
    BY Constants DEF ProcTypes, DataTypes, ProcFrame, Goto, Handing, Working, Holds, WorksOn,
       ClaimedFirst
  <2>3. OneAtWork'
    BY Constants DEF ProcTypes, DataTypes, ProcFrame, Goto, Handing, Working, Holds, WorksOn,
       OneAtWork, ClaimedFirst
  <2>4. OneCopyEach'
    BY Constants DEF ProcTypes, DataTypes, ProcFrame, Goto, Handing, Working, Holds, WorksOn,
       OneCopyEach, OneCopy, OneAtWork, ClaimedFirst, KindFits
  <2>5. RefusedNeverLeft'
    BY Constants DEF ProcTypes, DataTypes, ProcFrame, Goto, Handing, Working, Holds, WorksOn,
       RefusedNeverLeft, NeverLeft, ClaimedFirst, OneAtWork, OneCopyEach, OneCopy, KindFits
  <2>6. PresentedShown'
    BY Constants DEF ProcTypes, DataTypes, ProcFrame, Goto, Handing, Working, Holds, WorksOn,
       PresentedShown, Shown, ClaimedFirst
  <2>7. Ended'
    BY Constants DEF ProcTypes, DataTypes, ProcFrame, Goto, Handing, Working, Holds, WorksOn,
       Ended, ClaimedFirst
  <2>8. AcceptedKept'
    BY Constants DEF ProcTypes, DataTypes, ProcFrame, Goto, Handing, Working, Holds, WorksOn,
       AcceptedKept, Kept, Excused, ClaimedFirst, Ended, KindFits
  <2> QED
    BY <2>1, <2>2, <2>3, <2>4, <2>5, <2>6, <2>7, <2>8
<1>2. CASE HookClaim(h)
  <2> USE <1>0, <1>2 DEF HookClaim, hist
  <2>1. KindFits'
    BY Constants DEF ProcTypes, DataTypes, ProcFrame, Goto, Handing, Working, Holds, WorksOn,
       KindFits
  <2>2. ClaimedFirst'
    BY Constants DEF ProcTypes, DataTypes, ProcFrame, Goto, Handing, Working, Holds, WorksOn,
       ClaimedFirst
  <2>3. OneAtWork'
    BY Constants DEF ProcTypes, DataTypes, ProcFrame, Goto, Handing, Working, Holds, WorksOn,
       OneAtWork, ClaimedFirst
  <2>4. OneCopyEach'
    BY Constants DEF ProcTypes, DataTypes, ProcFrame, Goto, Handing, Working, Holds, WorksOn,
       OneCopyEach, OneCopy, OneAtWork, ClaimedFirst, KindFits
  <2>5. RefusedNeverLeft'
    BY Constants DEF ProcTypes, DataTypes, ProcFrame, Goto, Handing, Working, Holds, WorksOn,
       RefusedNeverLeft, NeverLeft, ClaimedFirst, OneAtWork, OneCopyEach, OneCopy, KindFits
  <2>6. PresentedShown'
    BY Constants DEF ProcTypes, DataTypes, ProcFrame, Goto, Handing, Working, Holds, WorksOn,
       PresentedShown, Shown, ClaimedFirst
  <2>7. Ended'
    BY Constants DEF ProcTypes, DataTypes, ProcFrame, Goto, Handing, Working, Holds, WorksOn,
       Ended, ClaimedFirst
  <2>8. AcceptedKept'
    <3>1. PICK m \in Msgs :
            /\ "waiting" \in place[m] /\ place' = [place EXCEPT ![m] = {"taken"}]
            /\ IF m \notin tomb \cup late /\ ledger[m] \in {"accepted", "claimed"}
                 THEN Goto(h, "present") /\ job' = [job EXCEPT ![h] = m]
                 ELSE UNCHANGED <<pc, job>>
      OBVIOUS
    <3>2. ASSUME m \notin Excused PROVE Holds(h, m)'
      <4>1. /\ m \in claimed /\ kind = "hook" /\ m \notin tomb /\ m \notin late /\ m \notin raced
            /\ m \notin withdrawn /\ m \notin dropped
        BY <3>1, <3>2 DEF ClaimedFirst, KindFits, Ended, Excused
      <4>2. typed[m] = 0 /\ \A k \in Hooks : ~Holds(k, m)
        BY <3>1, <4>1 DEF OneCopyEach, OneCopy
      <4>3. ledger[m] \notin {"presented", "delivered"}
        BY <4>1, <4>2 DEF PresentedShown, Shown
      <4>4. ledger[m] \notin {"refused", "fenced"}
        BY <3>1, <4>1 DEF RefusedNeverLeft, NeverLeft
      <4>5. ledger[m] \notin {"none", "expired", "retracted", "superseded", "possibly_submitted"}
        BY <4>1 DEF ClaimedFirst, Ended
      <4>6. ledger[m] \in {"accepted", "claimed"}
        BY <4>3, <4>4, <4>5 DEF DataTypes, States
      <4> QED
        BY <3>1, <4>1, <4>6 DEF Goto, ProcTypes, Holds
    <3>3. \A k \in Hooks, n \in Msgs : Holds(k, n) => Holds(k, n)'
      BY Constants DEF Holds, ProcFrame
    <3>4. ASSUME NEW n \in Msgs \ Excused, place'[n] # {} PROVE Kept(n)'
      <4>1. CASE n = m
        BY <3>2, <4>1 DEF Kept
      <4>2. CASE n # m
        BY <3>1, <3>3, <3>4, <4>2 DEF AcceptedKept, Kept, DataTypes
      <4> QED
        BY <4>1, <4>2
    <3>5. \A n \in Msgs : place[n] # {} => place'[n] # {}
      BY <3>1 DEF DataTypes
    <3>6. ASSUME NEW t \in Serves, pc'[t] \in {"recovered", "finish"}, seen'[t] = "accepted"
          PROVE  place'[job'[t]] # {} \/ typed'[job'[t]] > 0
      BY <3>5, <3>6, Constants DEF ProcFrame, ProcTypes, AcceptedKept
    <3> QED
      BY <3>4, <3>5, <3>6 DEF AcceptedKept, Excused
  <2> QED
    BY <2>1, <2>2, <2>3, <2>4, <2>5, <2>6, <2>7, <2>8
<1>3. CASE HookPresent(h)
  <2> USE <1>0, <1>3 DEF HookPresent, hist, SetState
  <2>1. KindFits'
    BY Constants DEF ProcTypes, DataTypes, ProcFrame, Goto, Handing, Working, Holds, WorksOn,
       KindFits
  <2>2. ClaimedFirst'
    BY Constants DEF ProcTypes, DataTypes, ProcFrame, Goto, Handing, Working, Holds, WorksOn,
       ClaimedFirst
  <2>3. OneAtWork'
    BY Constants DEF ProcTypes, DataTypes, ProcFrame, Goto, Handing, Working, Holds, WorksOn,
       OneAtWork, ClaimedFirst
  <2>4. OneCopyEach'
    BY Constants DEF ProcTypes, DataTypes, ProcFrame, Goto, Handing, Working, Holds, WorksOn,
       OneCopyEach, OneCopy, OneAtWork, ClaimedFirst, KindFits
  <2>5. RefusedNeverLeft'
    BY Constants DEF ProcTypes, DataTypes, ProcFrame, Goto, Handing, Working, Holds, WorksOn,
       RefusedNeverLeft, NeverLeft, ClaimedFirst, OneAtWork, OneCopyEach, OneCopy, KindFits
  <2>6. PresentedShown'
    BY Constants DEF ProcTypes, DataTypes, ProcFrame, Goto, Handing, Working, Holds, WorksOn,
       PresentedShown, Shown, ClaimedFirst
  <2>7. Ended'
    BY Constants DEF ProcTypes, DataTypes, ProcFrame, Goto, Handing, Working, Holds, WorksOn,
       Ended, ClaimedFirst
  <2>8. AcceptedKept'
    BY Constants DEF ProcTypes, DataTypes, ProcFrame, Goto, Handing, Working, Holds, WorksOn,
       AcceptedKept, Kept, Excused, ClaimedFirst, Ended, KindFits
  <2> QED
    BY <2>1, <2>2, <2>3, <2>4, <2>5, <2>6, <2>7, <2>8
<1>4. CASE HookPrint(h)
  <2> USE <1>0, <1>4 DEF HookPrint, hist, Type, Forget
  <2>1. KindFits'
    BY Constants DEF ProcTypes, DataTypes, ProcFrame, Goto, Handing, Working, Holds, WorksOn,
       KindFits
  <2>2. ClaimedFirst'
    BY Constants DEF ProcTypes, DataTypes, ProcFrame, Goto, Handing, Working, Holds, WorksOn,
       ClaimedFirst
  <2>3. OneAtWork'
    BY Constants DEF ProcTypes, DataTypes, ProcFrame, Goto, Handing, Working, Holds, WorksOn,
       OneAtWork, ClaimedFirst
  <2>4. OneCopyEach'
    <3>1. /\ pc'[h] = "hook" /\ Holds(h, job[h]) /\ job[h] \in Msgs
          /\ \A n \in Msgs \ {job[h]} : typed'[n] = typed[n]
      BY DEF Goto, ProcTypes, DataTypes, Holds
    <3>2. \A k \in Hooks, n \in Msgs : Holds(k, n)' => Holds(k, n) /\ k # h
      BY <3>1, Constants DEF Holds, ProcFrame
    <3>3. ASSUME NEW n \in Msgs \ raced PROVE OneCopy(n)'
      <4>1. OneCopy(n)
        BY DEF OneCopyEach
      <4>2. CASE n # job[h]
        BY <3>1, <3>2, <4>1, <4>2, Constants DEF OneCopy, ProcFrame, Handing
      <4>3. CASE n = job[h]
        <5>1. place[n] = {"taken"} /\ typed[n] = 0 /\ \A k \in Hooks : Holds(k, n) => k = h
          BY <3>1, <4>1, <4>3 DEF OneCopy
        <5>2. typed'[n] = 1
          BY <3>1, <4>3, <5>1 DEF DataTypes
        <5>3. \A s \in Serves : ~(pc'[s] \in Handing /\ job'[s] = n)
          BY <4>1, <5>1, Constants DEF OneCopy, ProcFrame
        <5> QED
          BY <3>2, <5>1, <5>2, <5>3 DEF OneCopy
      <4> QED
        BY <4>2, <4>3
    <3> QED
      BY <3>3 DEF OneCopyEach
  <2>5. RefusedNeverLeft'
    BY Constants DEF ProcTypes, DataTypes, ProcFrame, Goto, Handing, Working, Holds, WorksOn,
       RefusedNeverLeft, NeverLeft, ClaimedFirst, OneAtWork, OneCopyEach, OneCopy, KindFits
  <2>6. PresentedShown'
    BY Constants DEF ProcTypes, DataTypes, ProcFrame, Goto, Handing, Working, Holds, WorksOn,
       PresentedShown, Shown, ClaimedFirst
  <2>7. Ended'
    BY Constants DEF ProcTypes, DataTypes, ProcFrame, Goto, Handing, Working, Holds, WorksOn,
       Ended, ClaimedFirst
  <2>8. AcceptedKept'
    BY Constants DEF ProcTypes, DataTypes, ProcFrame, Goto, Handing, Working, Holds, WorksOn,
       AcceptedKept, Kept, Excused, ClaimedFirst, Ended, KindFits
  <2> QED
    BY <2>1, <2>2, <2>3, <2>4, <2>5, <2>6, <2>7, <2>8
<1>5. CASE HookList(h) \/ HookEnd(h)
  <2>1. Quiet(h)
    BY <1>0, <1>5, <1>100
    DEF HookList, HookEnd, Goto, hist, Quiet, ProcTypes, KindFits, ClaimedFirst,
       PresentedShown
  <2> QED
    BY <1>0, <2>1, QuietInv
<1> QED
  BY <1>1, <1>2, <1>3, <1>4, <1>5 DEF Hook

\* A step of a retractor keeps the invariant.
LEMMA RetractInv ==
  ASSUME LedgerInv, NEW r \in Retractors, Retract(r), ProcTypes', DataTypes'
  PROVE  LedgerInv'
<1> USE DEF LedgerInv
<1>0. r \in Procs /\ r \notin Serves /\ r \notin Hooks /\ ProcFrame(r)
  BY RetractTypes, Constants
<1>100. ProcTypes /\ DataTypes
  OBVIOUS
<1>1. CASE RetractWrite(r)
  <2> USE <1>0, <1>1 DEF RetractWrite, hist, SetState
  <2>1. KindFits'
    BY Constants DEF ProcTypes, DataTypes, ProcFrame, Goto, Handing, Working, Holds, WorksOn,
       KindFits
  <2>2. ClaimedFirst'
    BY Constants DEF ProcTypes, DataTypes, ProcFrame, Goto, Handing, Working, Holds, WorksOn,
       ClaimedFirst
  <2>3. OneAtWork'
    BY Constants DEF ProcTypes, DataTypes, ProcFrame, Goto, Handing, Working, Holds, WorksOn,
       OneAtWork, ClaimedFirst
  <2>4. OneCopyEach'
    BY Constants DEF ProcTypes, DataTypes, ProcFrame, Goto, Handing, Working, Holds, WorksOn,
       OneCopyEach, OneCopy, OneAtWork, ClaimedFirst, KindFits
  <2>5. RefusedNeverLeft'
    BY Constants DEF ProcTypes, DataTypes, ProcFrame, Goto, Handing, Working, Holds, WorksOn,
       RefusedNeverLeft, NeverLeft, ClaimedFirst, OneAtWork, OneCopyEach, OneCopy, KindFits
  <2>6. PresentedShown'
    BY Constants DEF ProcTypes, DataTypes, ProcFrame, Goto, Handing, Working, Holds, WorksOn,
       PresentedShown, Shown, ClaimedFirst
  <2>7. Ended'
    BY Constants DEF ProcTypes, DataTypes, ProcFrame, Goto, Handing, Working, Holds, WorksOn,
       Ended, ClaimedFirst
  <2>8. AcceptedKept'
    BY Constants DEF ProcTypes, DataTypes, ProcFrame, Goto, Handing, Working, Holds, WorksOn,
       AcceptedKept, Kept, Excused, ClaimedFirst, Ended, KindFits
  <2> QED
    BY <2>1, <2>2, <2>3, <2>4, <2>5, <2>6, <2>7, <2>8
<1>2. CASE RetractBury(r)
  <2> USE <1>0, <1>2 DEF RetractBury, hist, Bury, Forget
  <2>1. KindFits'
    BY Constants DEF ProcTypes, DataTypes, ProcFrame, Goto, Handing, Working, Holds, WorksOn,
       KindFits
  <2>2. ClaimedFirst'
    BY Constants DEF ProcTypes, DataTypes, ProcFrame, Goto, Handing, Working, Holds, WorksOn,
       ClaimedFirst
  <2>3. OneAtWork'
    BY Constants DEF ProcTypes, DataTypes, ProcFrame, Goto, Handing, Working, Holds, WorksOn,
       OneAtWork, ClaimedFirst
  <2>4. OneCopyEach'
    BY Constants DEF ProcTypes, DataTypes, ProcFrame, Goto, Handing, Working, Holds, WorksOn,
       OneCopyEach, OneCopy, OneAtWork, ClaimedFirst, KindFits
  <2>5. RefusedNeverLeft'
    BY Constants DEF ProcTypes, DataTypes, ProcFrame, Goto, Handing, Working, Holds, WorksOn,
       RefusedNeverLeft, NeverLeft, ClaimedFirst, OneAtWork, OneCopyEach, OneCopy, KindFits
  <2>6. PresentedShown'
    BY Constants DEF ProcTypes, DataTypes, ProcFrame, Goto, Handing, Working, Holds, WorksOn,
       PresentedShown, Shown, ClaimedFirst
  <2>7. Ended'
    BY Constants DEF ProcTypes, DataTypes, ProcFrame, Goto, Handing, Working, Holds, WorksOn,
       Ended, ClaimedFirst
  <2>8. AcceptedKept'
    BY Constants DEF ProcTypes, DataTypes, ProcFrame, Goto, Handing, Working, Holds, WorksOn,
       AcceptedKept, Kept, Excused, ClaimedFirst, Ended, KindFits
  <2> QED
    BY <2>1, <2>2, <2>3, <2>4, <2>5, <2>6, <2>7, <2>8
<1>3. CASE \E m \in Msgs : RetractRead(r, m)
  <2>1. Quiet(r)
    BY <1>0, <1>3, <1>100 DEF RetractRead, Goto, hist, Quiet, ProcTypes, ClaimedFirst
  <2> QED
    BY <1>0, <2>1, QuietInv
<1> QED
  BY <1>1, <1>2, <1>3 DEF Retract

\* A step about one message outside the processes keeps the invariant.
LEMMA MsgInv ==
  ASSUME LedgerInv, NEW m \in Msgs, MsgStep(m), ProcTypes', DataTypes'
  PROVE  LedgerInv'
<1> USE DEF LedgerInv
<1>0. UNCHANGED <<pc, job, seen, todo>>
  BY MsgTypes, Constants
<1>100. ProcTypes /\ DataTypes
  OBVIOUS
<1>1. CASE Fence(m)
  <2> USE <1>0, <1>1 DEF Fence, hist, SetState
  <2>1. KindFits'
    BY Constants DEF ProcTypes, DataTypes, Goto, Handing, Working, Holds, WorksOn, KindFits
  <2>2. ClaimedFirst'
    BY Constants DEF ProcTypes, DataTypes, Goto, Handing, Working, Holds, WorksOn, ClaimedFirst
  <2>3. OneAtWork'
    BY Constants DEF ProcTypes, DataTypes, Goto, Handing, Working, Holds, WorksOn, OneAtWork,
       ClaimedFirst
  <2>4. OneCopyEach'
    BY Constants DEF ProcTypes, DataTypes, Goto, Handing, Working, Holds, WorksOn, OneCopyEach,
       OneCopy, OneAtWork, ClaimedFirst, KindFits
  <2>5. RefusedNeverLeft'
    BY Constants DEF ProcTypes, DataTypes, Goto, Handing, Working, Holds, WorksOn,
       RefusedNeverLeft, NeverLeft, ClaimedFirst, OneAtWork, OneCopyEach, OneCopy, KindFits
  <2>6. PresentedShown'
    BY Constants DEF ProcTypes, DataTypes, Goto, Handing, Working, Holds, WorksOn,
       PresentedShown, Shown, ClaimedFirst
  <2>7. Ended'
    BY Constants DEF ProcTypes, DataTypes, Goto, Handing, Working, Holds, WorksOn, Ended,
       ClaimedFirst
  <2>8. AcceptedKept'
    BY Constants DEF ProcTypes, DataTypes, Goto, Handing, Working, Holds, WorksOn,
       AcceptedKept, Kept, Excused, ClaimedFirst, Ended, KindFits
  <2> QED
    BY <2>1, <2>2, <2>3, <2>4, <2>5, <2>6, <2>7, <2>8
<1>2. CASE Reconcile(m)
  <2> USE <1>0, <1>2, <1>100, ReconciledFacts DEF Reconcile, hist, SetState
  <2>1. KindFits'
    BY Constants DEF ProcTypes, DataTypes, Goto, Handing, Working, Holds, WorksOn, KindFits
  <2>2. ClaimedFirst'
    BY Constants DEF ProcTypes, DataTypes, Goto, Handing, Working, Holds, WorksOn, ClaimedFirst
  <2>3. OneAtWork'
    BY Constants DEF ProcTypes, DataTypes, Goto, Handing, Working, Holds, WorksOn, OneAtWork,
       ClaimedFirst
  <2>4. OneCopyEach'
    BY Constants DEF ProcTypes, DataTypes, Goto, Handing, Working, Holds, WorksOn, OneCopyEach,
       OneCopy, OneAtWork, ClaimedFirst, KindFits
  <2>5. RefusedNeverLeft'
    BY Constants DEF ProcTypes, DataTypes, Goto, Handing, Working, Holds, WorksOn,
       RefusedNeverLeft, NeverLeft, ClaimedFirst, OneAtWork, OneCopyEach, OneCopy, KindFits
  <2>6. PresentedShown'
    BY Constants DEF ProcTypes, DataTypes, Goto, Handing, Working, Holds, WorksOn,
       PresentedShown, Shown, ClaimedFirst
  <2>7. Ended'
    BY Constants DEF ProcTypes, DataTypes, Goto, Handing, Working, Holds, WorksOn, Ended,
       ClaimedFirst
  <2>8. AcceptedKept'
    BY Constants DEF ProcTypes, DataTypes, Goto, Handing, Working, Holds, WorksOn,
       AcceptedKept, Kept, Excused, ClaimedFirst, Ended, KindFits
  <2> QED
    BY <2>1, <2>2, <2>3, <2>4, <2>5, <2>6, <2>7, <2>8
<1>3. CASE Prune(m)
  <2> USE <1>0, <1>3 DEF Prune, hist, SetState, Prunable
  <2>1. KindFits'
    BY Constants DEF ProcTypes, DataTypes, Goto, Handing, Working, Holds, WorksOn, KindFits
  <2>2. ClaimedFirst'
    BY Constants DEF ProcTypes, DataTypes, Goto, Handing, Working, Holds, WorksOn, ClaimedFirst
  <2>3. OneAtWork'
    BY Constants DEF ProcTypes, DataTypes, Goto, Handing, Working, Holds, WorksOn, OneAtWork,
       ClaimedFirst
  <2>4. OneCopyEach'
    BY Constants DEF ProcTypes, DataTypes, Goto, Handing, Working, Holds, WorksOn, OneCopyEach,
       OneCopy, OneAtWork, ClaimedFirst, KindFits
  <2>5. RefusedNeverLeft'
    BY Constants DEF ProcTypes, DataTypes, Goto, Handing, Working, Holds, WorksOn,
       RefusedNeverLeft, NeverLeft, ClaimedFirst, OneAtWork, OneCopyEach, OneCopy, KindFits
  <2>6. PresentedShown'
    BY Constants DEF ProcTypes, DataTypes, Goto, Handing, Working, Holds, WorksOn,
       PresentedShown, Shown, ClaimedFirst
  <2>7. Ended'
    BY Constants DEF ProcTypes, DataTypes, Goto, Handing, Working, Holds, WorksOn, Ended,
       ClaimedFirst
  <2>8. AcceptedKept'
    BY Constants DEF ProcTypes, DataTypes, Goto, Handing, Working, Holds, WorksOn,
       AcceptedKept, Kept, Excused, ClaimedFirst, Ended, KindFits
  <2> QED
    BY <2>1, <2>2, <2>3, <2>4, <2>5, <2>6, <2>7, <2>8
<1>4. CASE DrainPick(m)
  <2> USE <1>0, <1>4 DEF DrainPick, hist
  <2>1. KindFits'
    BY Constants DEF ProcTypes, DataTypes, Goto, Handing, Working, Holds, WorksOn, KindFits
  <2>2. ClaimedFirst'
    BY Constants DEF ProcTypes, DataTypes, Goto, Handing, Working, Holds, WorksOn, ClaimedFirst
  <2>3. OneAtWork'
    BY Constants DEF ProcTypes, DataTypes, Goto, Handing, Working, Holds, WorksOn, OneAtWork,
       ClaimedFirst
  <2>4. OneCopyEach'
    BY Constants DEF ProcTypes, DataTypes, Goto, Handing, Working, Holds, WorksOn, OneCopyEach,
       OneCopy, OneAtWork, ClaimedFirst, KindFits
  <2>5. RefusedNeverLeft'
    BY Constants DEF ProcTypes, DataTypes, Goto, Handing, Working, Holds, WorksOn,
       RefusedNeverLeft, NeverLeft, ClaimedFirst, OneAtWork, OneCopyEach, OneCopy, KindFits
  <2>6. PresentedShown'
    BY Constants DEF ProcTypes, DataTypes, Goto, Handing, Working, Holds, WorksOn,
       PresentedShown, Shown, ClaimedFirst
  <2>7. Ended'
    BY Constants DEF ProcTypes, DataTypes, Goto, Handing, Working, Holds, WorksOn, Ended,
       ClaimedFirst
  <2>8. AcceptedKept'
    <3>1. \A n \in Msgs \ {m} : place'[n] = place[n]
      BY DEF DataTypes
    <3>2. place'[m] # {} /\ (m \notin Excused => "inflight" \in place'[m])
      <4>1. place'[m] = (place[m] \ {"waiting"}) \cup
              {IF m \in tomb THEN "aside" ELSE IF m \in late THEN "aside_expired" ELSE "inflight"}
        BY DEF DataTypes
      <4>2. m \notin Excused => m \notin tomb /\ m \notin late
        BY DEF Ended, Excused
      <4> QED
        BY <4>1, <4>2
    <3> QED
      BY <3>1, <3>2 DEF AcceptedKept, Kept, Excused, Holds, ProcTypes
  <2> QED
    BY <2>1, <2>2, <2>3, <2>4, <2>5, <2>6, <2>7, <2>8
<1>5. CASE DrainSettle(m)
  <2> USE <1>0, <1>5 DEF DrainSettle, hist, Type
  <2>1. KindFits'
    BY Constants DEF ProcTypes, DataTypes, Goto, Handing, Working, Holds, WorksOn, KindFits
  <2>2. ClaimedFirst'
    BY Constants DEF ProcTypes, DataTypes, Goto, Handing, Working, Holds, WorksOn, ClaimedFirst
  <2>3. OneAtWork'
    BY Constants DEF ProcTypes, DataTypes, Goto, Handing, Working, Holds, WorksOn, OneAtWork,
       ClaimedFirst
  <2>4. OneCopyEach'
    <3>1. \A n \in Msgs \ {m} : place'[n] = place[n]
      BY DEF DataTypes
    <3>2. \A n \in Msgs \ {m} : typed'[n] = typed[n]
      BY DEF DataTypes
    <3>3. ASSUME NEW n \in Msgs \ raced PROVE OneCopy(n)'
      <4>1. OneCopy(n)
        BY DEF OneCopyEach
      <4>2. CASE n # m
        BY <3>1, <3>2, <4>1, <4>2 DEF OneCopy, Holds
      <4>3. CASE n = m
        <5>1. place[m] = {"inflight"} /\ typed[m] = 0
          BY <4>1, <4>3 DEF OneCopy, DataTypes
        <5>2. \/ place'[m] = {"waiting"} /\ typed'[m] = 0
              \/ place'[m] \in {{"processed"}, {"failed"}} /\ typed'[m] \in {0, 1}
          BY <5>1 DEF DataTypes
        <5>3. /\ \A s \in Serves : ~(pc'[s] \in Handing /\ job'[s] = m)
              /\ \A k \in Hooks : ~Holds(k, m)'
          BY <4>1, <4>3, <5>1 DEF OneCopy, Holds
        <5> QED
          BY <4>3, <5>2, <5>3 DEF OneCopy
      <4> QED
        BY <4>2, <4>3
    <3> QED
      BY <3>3 DEF OneCopyEach
  <2>5. RefusedNeverLeft'
    BY Constants DEF ProcTypes, DataTypes, Goto, Handing, Working, Holds, WorksOn,
       RefusedNeverLeft, NeverLeft, ClaimedFirst, OneAtWork, OneCopyEach, OneCopy, KindFits
  <2>6. PresentedShown'
    BY Constants DEF ProcTypes, DataTypes, Goto, Handing, Working, Holds, WorksOn,
       PresentedShown, Shown, ClaimedFirst
  <2>7. Ended'
    BY Constants DEF ProcTypes, DataTypes, Goto, Handing, Working, Holds, WorksOn, Ended,
       ClaimedFirst
  <2>8. AcceptedKept'
    <3>1. \A n \in Msgs \ {m} : place'[n] = place[n]
      BY DEF DataTypes
    <3>2. \A n \in Msgs : typed[n] > 0 => typed'[n] > 0
      BY DEF DataTypes
    <3>3. \/ "processed" \in place'[m] /\ typed'[m] > 0
          \/ "failed" \in place'[m] \/ "waiting" \in place'[m]
      BY DEF DataTypes
    <3>4. place'[m] # {} /\ Kept(m)'
      BY <3>3 DEF Kept
    <3>5. \A n \in Msgs \ {m} : Kept(n) => Kept(n)'
      BY <3>1, <3>2 DEF Kept, Holds
    <3> QED
      BY <3>1, <3>2, <3>4, <3>5 DEF AcceptedKept, Excused, ProcTypes
  <2> QED
    BY <2>1, <2>2, <2>3, <2>4, <2>5, <2>6, <2>7, <2>8
<1>6. CASE Expires(m)
  <2> USE <1>0, <1>6 DEF Expires, hist
  <2>1. KindFits'
    BY Constants DEF ProcTypes, DataTypes, Goto, Handing, Working, Holds, WorksOn, KindFits
  <2>2. ClaimedFirst'
    BY Constants DEF ProcTypes, DataTypes, Goto, Handing, Working, Holds, WorksOn, ClaimedFirst
  <2>3. OneAtWork'
    BY Constants DEF ProcTypes, DataTypes, Goto, Handing, Working, Holds, WorksOn, OneAtWork,
       ClaimedFirst
  <2>4. OneCopyEach'
    BY Constants DEF ProcTypes, DataTypes, Goto, Handing, Working, Holds, WorksOn, OneCopyEach,
       OneCopy, OneAtWork, ClaimedFirst, KindFits
  <2>5. RefusedNeverLeft'
    BY Constants DEF ProcTypes, DataTypes, Goto, Handing, Working, Holds, WorksOn,
       RefusedNeverLeft, NeverLeft, ClaimedFirst, OneAtWork, OneCopyEach, OneCopy, KindFits
  <2>6. PresentedShown'
    BY Constants DEF ProcTypes, DataTypes, Goto, Handing, Working, Holds, WorksOn,
       PresentedShown, Shown, ClaimedFirst
  <2>7. Ended'
    BY Constants DEF ProcTypes, DataTypes, Goto, Handing, Working, Holds, WorksOn, Ended,
       ClaimedFirst
  <2>8. AcceptedKept'
    BY Constants DEF ProcTypes, DataTypes, Goto, Handing, Working, Holds, WorksOn,
       AcceptedKept, Kept, Excused, ClaimedFirst, Ended, KindFits
  <2> QED
    BY <2>1, <2>2, <2>3, <2>4, <2>5, <2>6, <2>7, <2>8
<1> QED
  BY <1>1, <1>2, <1>3, <1>4, <1>5, <1>6 DEF MsgStep, QueueDrain

\* A crash keeps the invariant.
LEMMA CrashInv ==
  ASSUME LedgerInv, NEW p \in Procs, LedgerCrash(p), ProcTypes', DataTypes'
  PROVE  LedgerInv'
<1> USE DEF LedgerInv
<1>0. ProcFrame(p)
  BY CrashTypes, Constants
<1>100. ProcTypes /\ DataTypes
  OBVIOUS
<1>1. CASE LedgerCrash(p)
  <2> USE <1>0, <1>1 DEF LedgerCrash, hist, Forget, Gone
  <2>1. KindFits'
    BY Constants DEF ProcTypes, DataTypes, ProcFrame, Goto, Handing, Working, Holds, WorksOn,
       KindFits
  <2>2. ClaimedFirst'
    BY Constants DEF ProcTypes, DataTypes, ProcFrame, Goto, Handing, Working, Holds, WorksOn,
       ClaimedFirst
  <2>3. OneAtWork'
    BY Constants DEF ProcTypes, DataTypes, ProcFrame, Goto, Handing, Working, Holds, WorksOn,
       OneAtWork, ClaimedFirst
  <2>4. OneCopyEach'
    BY Constants DEF ProcTypes, DataTypes, ProcFrame, Goto, Handing, Working, Holds, WorksOn,
       OneCopyEach, OneCopy, OneAtWork, ClaimedFirst, KindFits
  <2>5. RefusedNeverLeft'
    BY Constants DEF ProcTypes, DataTypes, ProcFrame, Goto, Handing, Working, Holds, WorksOn,
       RefusedNeverLeft, NeverLeft, ClaimedFirst, OneAtWork, OneCopyEach, OneCopy, KindFits
  <2>6. PresentedShown'
    BY Constants DEF ProcTypes, DataTypes, ProcFrame, Goto, Handing, Working, Holds, WorksOn,
       PresentedShown, Shown, ClaimedFirst
  <2>7. Ended'
    BY Constants DEF ProcTypes, DataTypes, ProcFrame, Goto, Handing, Working, Holds, WorksOn,
       Ended, ClaimedFirst
  <2>8. AcceptedKept'
    BY Constants DEF ProcTypes, DataTypes, ProcFrame, Goto, Handing, Working, Holds, WorksOn,
       AcceptedKept, Kept, Excused, ClaimedFirst, Ended, KindFits
  <2> QED
    BY <2>1, <2>2, <2>3, <2>4, <2>5, <2>6, <2>7, <2>8
<1> QED
  BY <1>1

\* The invariant holds at the start ...
LEMMA LedgerInitInv == LedgerInit => LedgerInv
<1> SUFFICES ASSUME LedgerInit PROVE LedgerInv
  OBVIOUS
<1> USE DEF LedgerInit
<1>1. ProcTypes /\ DataTypes
  BY Constants DEF ProcTypes, DataTypes, ServePC, HookPC, RetractPC, Answers, States
<1>2. KindFits /\ ClaimedFirst /\ OneAtWork
  BY Constants DEF KindFits, ClaimedFirst, OneAtWork, WorksOn, Working, Handing
<1>3. OneCopyEach /\ RefusedNeverLeft
  BY Constants DEF OneCopyEach, OneCopy, Handing, Holds, RefusedNeverLeft
<1>4. PresentedShown /\ Ended /\ AcceptedKept
  BY Constants DEF PresentedShown, Ended, AcceptedKept
<1> QED
  BY <1>1, <1>2, <1>3, <1>4 DEF LedgerInv

\* ... is kept by every step of the host ...
LEMMA HostInv ==
  ASSUME LedgerInv, HostStep
  PROVE  LedgerInv'
<1>1. ProcTypes' /\ DataTypes'
  BY HostTypes DEF LedgerInv
<1> QED
  BY <1>1, ServeInv, HookInv, RetractInv, MsgInv, CrashInv DEF HostStep

\* ... and by every step that leaves the host alone.
LEMMA StutterInv ==
  ASSUME LedgerInv, UNCHANGED ledgerVars
  PROVE  LedgerInv'
<1> USE DEF LedgerInv, ledgerVars, hist
<1>1. ProcTypes' /\ DataTypes' /\ KindFits' /\ ClaimedFirst'
  BY DEF ProcTypes, DataTypes, KindFits, ClaimedFirst
<1>2. OneAtWork'
  BY DEF OneAtWork, WorksOn
<1>3. OneCopyEach' /\ RefusedNeverLeft'
  BY DEF OneCopyEach, OneCopy, RefusedNeverLeft, NeverLeft, Holds, WorksOn
<1>4. PresentedShown' /\ Ended'
  BY DEF PresentedShown, Shown, Holds, Ended
<1>5. AcceptedKept'
  BY DEF AcceptedKept, Kept, Excused, Holds
<1> QED
  BY <1>1, <1>2, <1>3, <1>4, <1>5
=============================================================================
