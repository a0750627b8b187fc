---------------------------- MODULE QueueClients ----------------------------
(***************************************************************************)
(* The programs that write to a queue and never type: enqueue, withdraw    *)
(* and cancel of rs/agent-queue/src/queue.rs.  Each client runs one        *)
(* operation at a time.  Only cancel works without the delivery lock: it   *)
(* looks at the phase directories one after the other, writes its          *)
(* tombstone, and takes the lock only if it is free.                       *)
(***************************************************************************)
EXTENDS AgentPane, Sequences

CONSTANTS
  Clients,      \* client processes
  Generated,    \* items whose identifier is generated: never used twice
  Withdrawable, \* items a client may withdraw
  Cancellable,  \* items a client may cancel
  MaxScanRetries  \* how often settled_state repeats a torn look (5 in the code)

ASSUME ClientAssumption ==
  /\ Clients \subseteq Procs
  /\ Generated \subseteq Items
  /\ Withdrawable \subseteq Items
  /\ Cancellable \subseteq Items
  /\ MaxScanRetries \in Nat

VARIABLES
  cpc,      \* cpc[c]: the step client c is at
  citem,    \* citem[c]: the identifier it works on
  clook,    \* clook[c]: the next directory its look reads
  cseen,    \* cseen[c]: the phases its look has seen the identifier in
  ctries,   \* ctries[c]: torn looks repeated so far
  cresult,  \* cresult[c]: what its last operation returned
  used,     \* history: generated identifiers already handed out
  live      \* history: identifiers enqueued, or present at the start, and not withdrawn

clientVars == <<cpc, citem, clook, cseen, ctries, cresult, used, live>>
procVars == <<cpc, citem, clook, cseen, ctries, cresult>>

ClientPc == {"idle", "check", "create", "remove", "look", "tomb", "try",
             "aside", "aside_move", "aside_forget", "look_again"}
CancelOutcome == {"set_aside", "pending", "unknown", "inflight", "too_late",
                  "already_cancelled"}
ClientResult == CancelOutcome \cup {"none", "queued", "duplicate", "withdrawn",
                                    "not_found", "error"}

ClientTypeOK ==
  /\ cpc \in [Clients -> ClientPc]
  /\ citem \in [Clients -> Items]
  /\ clook \in [Clients -> 1..7]
  /\ cseen \in [Clients -> SUBSET Phases]
  /\ ctries \in [Clients -> 0..MaxScanRetries]
  /\ cresult \in [Clients -> ClientResult]
  /\ used \subseteq Generated
  /\ live \subseteq Items

\* QueueDirectories::states, the order in which a look reads the directories.
States == <<"inbox", "inbox.v2", "inflight", "processed", "failed", "cancelled">>

\* The operation of client c ends with result r.
Return(c, r) ==
  /\ cpc' = [cpc EXCEPT ![c] = "idle"]
  /\ cresult' = [cresult EXCEPT ![c] = r]
  /\ UNCHANGED <<citem, clook, cseen, ctries>>

Goto(c, pc) ==
  /\ cpc' = [cpc EXCEPT ![c] = pc]
  /\ UNCHANGED <<citem, clook, cseen, ctries, cresult>>

Start(c, pc, i) ==
  /\ cpc[c] = "idle"
  /\ cpc' = [cpc EXCEPT ![c] = pc]
  /\ citem' = [citem EXCEPT ![c] = i]
  /\ clook' = [clook EXCEPT ![c] = 1]
  /\ cseen' = [cseen EXCEPT ![c] = {}]
  /\ ctries' = [ctries EXCEPT ![c] = 0]
  /\ cresult' = [cresult EXCEPT ![c] = "none"]

Take(p) == lock = Nobody /\ lock' = p
Release(p) == lock' = IF lock = p THEN Nobody ELSE lock

-----------------------------------------------------------------------------
\* Mutant of EnqueueSerialized: an explicit identifier takes no lock either.
EnqueueUnlocked(c, i) ==
  /\ i \notin Generated
  /\ Start(c, "check", i)
  /\ UNCHANGED <<queueVars, paneVars, used, live>>

(***************************************************************************)
(* enqueue_into.  An explicit identifier is serialized by the delivery     *)
(* lock; a generated one is fresh and takes no lock.                       *)
(***************************************************************************)
EnqueueSerialized(c, i) ==
  /\ i \notin Generated
  /\ Start(c, "check", i)
  /\ Take(c)
  /\ UNCHANGED <<file, tomb, sidecar, expired, paneVars, used, live>>

EnqueueGenerated(c, i) ==
  /\ i \in Generated \ used
  /\ Start(c, "check", i)
  /\ used' = used \cup {i}
  /\ UNCHANGED <<queueVars, paneVars, live>>

\* Mutant of EnqueueCheck: only the pending lanes are searched for a duplicate.
EnqueueCheckPending(c) ==
  /\ cpc[c] = "check"
  /\ \A lane \in Lanes : ~Exists(<<lane, citem[c]>>)
  /\ Goto(c, "create")
  /\ UNCHANGED <<queueVars, paneVars, used, live>>

EnqueueCheck(c) ==
  /\ cpc[c] = "check"
  /\ \/ /\ Present(citem[c])
        /\ Return(c, "duplicate")
        /\ Release(c)
     \/ /\ ~Present(citem[c])
        /\ Goto(c, "create")
        /\ UNCHANGED lock
  /\ UNCHANGED <<file, tomb, sidecar, expired, paneVars, used, live>>

\* atomic_json_create links the document into place and never replaces one.
EnqueueCreate(c) ==
  LET i == citem[c]
      path == <<LaneOf(i), i>>
  IN  /\ cpc[c] = "create"
      /\ \/ /\ Exists(path)
            /\ Return(c, "duplicate")
            /\ UNCHANGED <<file, paneVars, live>>
         \/ /\ ~Exists(path)
            /\ Write(path, NewDoc)
            /\ PaneForgets(i)
            /\ live' = live \cup {i}
            /\ Return(c, "queued")
      /\ Release(c)
      /\ UNCHANGED <<tomb, sidecar, expired, used>>

-----------------------------------------------------------------------------
\* Mutant of WithdrawLock: withdraw does not wait for a drain to end.
WithdrawUnlocked(c, i) ==
  /\ Start(c, "remove", i)
  /\ UNCHANGED <<queueVars, paneVars, used, live>>

(***************************************************************************)
(* withdraw: under the delivery lock, delete the item from the lane it     *)
(* waits in.                                                               *)
(***************************************************************************)
WithdrawLock(c, i) ==
  /\ Start(c, "remove", i)
  /\ Take(c)
  /\ UNCHANGED <<file, tomb, sidecar, expired, paneVars, used, live>>

\* The lane in which a lock holder finds the item: inbox/ first.
WaitingIn(i) ==
  IF Exists(<<"inbox", i>>) THEN "inbox"
  ELSE IF Exists(<<"inbox.v2", i>>) THEN "inbox.v2" ELSE "none"

WithdrawRemove(c) ==
  LET i == citem[c]
      path == <<WaitingIn(i), i>>
  IN  /\ cpc[c] = "remove"
      /\ \/ /\ WaitingIn(i) = "none"
            /\ Return(c, "not_found")
            /\ UNCHANGED <<file, live>>
         \/ /\ WaitingIn(i) # "none"
            /\ ~file[path].valid
            /\ Return(c, "error")
            /\ UNCHANGED <<file, live>>
         \/ /\ WaitingIn(i) # "none"
            /\ file[path].valid
            /\ Remove(path)
            /\ live' = live \ {i}
            /\ Return(c, "withdrawn")
      /\ Release(c)
      /\ UNCHANGED <<tomb, sidecar, expired, paneVars, used>>

-----------------------------------------------------------------------------
(***************************************************************************)
(* message_state, one directory per step, without any lock.  A look that   *)
(* sees an identifier twice, or an unreadable document, is repeated up to  *)
(* MaxScanRetries times by settled_state.                                  *)
(***************************************************************************)
Looking(c) == cpc[c] \in {"look", "look_again"} /\ clook[c] <= Len(States)

LookMisses(c) ==
  /\ Looking(c)
  /\ ~Exists(<<States[clook[c]], citem[c]>>)
  /\ clook' = [clook EXCEPT ![c] = @ + 1]
  /\ UNCHANGED <<queueVars, paneVars, cpc, citem, cseen, ctries, cresult, used, live>>

LookFinds(c) ==
  LET path == <<States[clook[c]], citem[c]>>
  IN  /\ Looking(c)
      /\ Exists(path)
      /\ file[path].valid
      /\ cseen[c] = {}
      /\ clook' = [clook EXCEPT ![c] = @ + 1]
      /\ cseen' = [cseen EXCEPT ![c] = {States[clook[c]]}]
      /\ UNCHANGED <<queueVars, paneVars, cpc, citem, ctries, cresult, used, live>>

LookTorn(c) ==
  LET path == <<States[clook[c]], citem[c]>>
  IN  /\ Looking(c)
      /\ Exists(path)
      /\ cseen[c] # {} \/ ~file[path].valid
      /\ \/ /\ ctries[c] < MaxScanRetries
            /\ ctries' = [ctries EXCEPT ![c] = @ + 1]
            /\ clook' = [clook EXCEPT ![c] = 1]
            /\ cseen' = [cseen EXCEPT ![c] = {}]
            /\ UNCHANGED <<cpc, citem, cresult>>
         \/ /\ ctries[c] = MaxScanRetries
            /\ Return(c, "error")
      /\ UNCHANGED <<queueVars, paneVars, used, live>>

-----------------------------------------------------------------------------
(***************************************************************************)
(* cancel: look, write the tombstone, set a waiting item aside if the      *)
(* delivery lock is free, otherwise look again and report where it is.     *)
(***************************************************************************)
CancelStart(c, i) ==
  /\ Start(c, "look", i)
  /\ UNCHANGED <<queueVars, paneVars, used, live>>

Looked(c, pc) == cpc[c] = pc /\ clook[c] > Len(States)

CancelDecide(c) ==
  /\ Looked(c, "look")
  /\ \/ cseen[c] = {"cancelled"} /\ Return(c, "already_cancelled")
     \/ cseen[c] \in {{"processed"}, {"failed"}} /\ Return(c, "too_late")
     \/ /\ cseen[c] \notin {{"cancelled"}, {"processed"}, {"failed"}}
        /\ Goto(c, "tomb")
  /\ UNCHANGED <<queueVars, paneVars, used, live>>

CancelTombstone(c) ==
  /\ cpc[c] = "tomb"
  /\ tomb' = tomb \cup {citem[c]}
  /\ Goto(c, "try")
  /\ UNCHANGED <<file, sidecar, lock, expired, paneVars, used, live>>

LookAgain(c) ==
  /\ cpc' = [cpc EXCEPT ![c] = "look_again"]
  /\ clook' = [clook EXCEPT ![c] = 1]
  /\ cseen' = [cseen EXCEPT ![c] = {}]
  /\ ctries' = [ctries EXCEPT ![c] = 0]
  /\ UNCHANGED <<citem, cresult>>

\* With the lock, look in both lanes; it is dropped again when the item waits in neither.
CancelTryLock(c) ==
  LET lane == WaitingIn(citem[c])
  IN  /\ cpc[c] = "try"
      /\ \/ /\ lock # Nobody \/ lane = "none"
            /\ LookAgain(c)
            /\ UNCHANGED lock
         \/ /\ lock = Nobody
            /\ lane # "none"
            /\ ~file[<<lane, citem[c]>>].valid
            /\ Return(c, "error")
            /\ UNCHANGED lock
         \/ /\ lock = Nobody
            /\ lane # "none"
            /\ file[<<lane, citem[c]>>].valid
            /\ lock' = c
            /\ Goto(c, "aside")
      /\ UNCHANGED <<file, tomb, sidecar, expired, paneVars, used, live>>

CancelAsideWrite(c) ==
  LET path == <<WaitingIn(citem[c]), citem[c]>>
  IN  /\ cpc[c] = "aside"
      /\ Write(path, Stripped(file[path]))
      /\ Goto(c, "aside_move")
      /\ UNCHANGED <<tomb, sidecar, lock, expired, paneVars, used, live>>

CancelAsideMove(c) ==
  LET i == citem[c]
  IN  /\ cpc[c] = "aside_move"
      /\ Rename(<<WaitingIn(i), i>>, <<"cancelled", i>>)
      /\ Goto(c, "aside_forget")
      /\ UNCHANGED <<tomb, sidecar, lock, expired, paneVars, used, live>>

CancelAsideForget(c) ==
  /\ cpc[c] = "aside_forget"
  /\ ConsumeTombstone(citem[c], "cancelled")
  /\ Return(c, "set_aside")
  /\ Release(c)
  /\ UNCHANGED <<file, sidecar, expired, paneVars, used, live>>

\* What the second look reports.
Reported(seen) ==
  IF seen = {} THEN "unknown"
  ELSE IF seen \subseteq Lanes THEN "pending"
  ELSE IF seen = {"inflight"} THEN "inflight"
  ELSE IF seen = {"cancelled"} THEN "already_cancelled"
  ELSE "too_late"

CancelReport(c) ==
  /\ Looked(c, "look_again")
  /\ Return(c, Reported(cseen[c]))
  /\ UNCHANGED <<queueVars, paneVars, used, live>>

-----------------------------------------------------------------------------
ClientInit ==
  /\ cpc = [c \in Clients |-> "idle"]
  /\ citem = [c \in Clients |-> CHOOSE i \in Items : TRUE]
  /\ clook = [c \in Clients |-> 1]
  /\ cseen = [c \in Clients |-> {}]
  /\ ctries = [c \in Clients |-> 0]
  /\ cresult = [c \in Clients |-> "none"]
  /\ used = {}

ClientStep(c) ==
  \/ \E i \in Items : EnqueueSerialized(c, i) \/ EnqueueGenerated(c, i)
  \/ \E i \in Withdrawable : WithdrawLock(c, i)
  \/ \E i \in Cancellable : CancelStart(c, i)
  \/ EnqueueCheck(c) \/ EnqueueCreate(c) \/ WithdrawRemove(c)
  \/ LookMisses(c) \/ LookFinds(c) \/ LookTorn(c)
  \/ CancelDecide(c) \/ CancelTombstone(c) \/ CancelTryLock(c)
  \/ CancelAsideWrite(c) \/ CancelAsideMove(c) \/ CancelAsideForget(c)
  \/ CancelReport(c)

\* A client dies, or an I/O error ends its operation; its lock is released.
ClientCrash(c) ==
  /\ cpc[c] # "idle"
  /\ Return(c, "error")
  /\ Release(c)
  /\ UNCHANGED <<file, tomb, sidecar, expired, paneVars, used, live>>
=============================================================================
