----------------------------- MODULE TeamLedger -----------------------------
(***************************************************************************)
(* The receiving host of agent-teams (rs/agent-teams/src/ledger.rs,        *)
(* deliver.rs, serve.rs and the hook of cli.rs): `accept` claims a message *)
(* in the ledger, hands it to the team's deliverer and records the result. *)
(* The deliverer is the hook inbox, the agentctl queue, or a command.      *)
(*                                                                         *)
(* The ledger lock covers the steps the code takes it for; recover_claim,  *)
(* apply_supersede and the hook write entries without it, from a copy read *)
(* earlier, and such a read and its write are two steps here.              *)
(***************************************************************************)
EXTENDS Naturals, FiniteSets

CONSTANTS
  Msgs,         \* message IDs, all of one sender and one topic
  Older,        \* pairs <<a, b>>: a is older than b, which supersedes it
  Serves,       \* processes that run `accept`: serve, or the chat relay
  Hooks,        \* runs of the harness hook
  Retractors,   \* runs of `agent-teams retract`
  Nobody,
  Kinds         \* the deliverers to consider

ASSUME LedgerAssumption ==
  /\ Older \subseteq Msgs \X Msgs
  /\ Kinds \subseteq {"hook", "queue", "command"}
  /\ Nobody \notin Serves \cup Hooks \cup Retractors
  /\ Serves \cap Hooks = {} /\ Serves \cap Retractors = {} /\ Hooks \cap Retractors = {}

VARIABLES
  kind,      \* the deliverer of the team
  late,      \* messages whose not_after has passed
  ledger,    \* message -> the state of its entry, "none" without one
  claimer,   \* message -> the process that claimed it while that runs
  place,     \* message -> where the deliverer has it
  tomb,      \* messages with a tombstone
  typed,     \* message -> how often it reached the coordinator (capped at 2)
  lock,      \* who holds the ledger lock across steps
  pc,        \* process -> its next step
  job,       \* process -> the message it works on, or Nobody
  seen,      \* process -> what it read, decided or answers
  todo,      \* process -> entries it has listed and not rewritten yet
  raced,     \* history: messages with two recoveries of a dead claim at once
  dropped,   \* history: messages a hook claimed and died before printing
  withdrawn, \* history: messages recorded as retracted or superseded
  claimed    \* history: messages claimed at some time

hist == <<raced, dropped, withdrawn, claimed>>

ledgerVars == <<kind, late, ledger, claimer, place, tomb, typed, lock, pc, job,
                seen, todo, hist>>

Procs == Serves \cup Hooks \cup Retractors

States == {"none", "claimed", "accepted", "presented", "delivered", "expired",
           "superseded", "retracted", "fenced", "refused", "possibly_submitted"}

\* Where a deliverer keeps a message: inbox/ and claimed/ of the hook, the
\* phases of the queue.
Places == {"waiting", "taken", "inflight", "processed", "aside", "aside_expired", "failed"}

Goto(p, l) == pc' = [pc EXCEPT ![p] = l]

\* The verb is done; its answer waits for whoever asked.
Answer(s, a) ==
  /\ Goto(s, "done")
  /\ seen' = [seen EXCEPT ![s] = a]

SetState(m, v) == ledger' = [ledger EXCEPT ![m] = v]

\* Deliverer::contains: "yes", "no", or "unknown" when it cannot tell, which
\* the queue cannot of a quarantined message or of one in two phases.
Contains(m) ==
  IF \/ kind = "command"
     \/ kind = "queue" /\ ("failed" \in place[m] \/ Cardinality(place[m]) > 1) THEN "unknown"
  ELSE IF place[m] = {} THEN "no" ELSE "yes"

\* Paste message m into the coordinator's session.
Type(m) == typed' = [typed EXCEPT ![m] = IF @ = 2 THEN 2 ELSE @ + 1]

(***************************************************************************)
(* accept                                                                  *)
(***************************************************************************)

\* A verb reaches the host: a serve process starts on message m.
Arrive(s, m) ==
  /\ pc[s] = "idle"
  /\ Goto(s, "arrived")
  /\ job' = [job EXCEPT ![s] = m]
  /\ UNCHANGED <<kind, late, ledger, claimer, place, tomb, typed, lock, seen, todo, hist>>

\* The route is refused: no entry is read or written.
RefuseRoute(s) ==
  /\ pc[s] = "arrived"
  /\ Answer(s, "route-refused")
  /\ UNCHANGED <<kind, late, ledger, claimer, place, tomb, typed, lock, job, todo, hist>>

\* The newest message taken for delivery on the topic is newer than m.
TopicPassed(m) ==
  \E n \in Msgs : /\ <<m, n>> \in Older
                  /\ ledger[n] \in {"claimed", "accepted", "presented", "delivered"}

\* The claimer recorded in the entry still runs, and is another process.
ClaimerAlive(s, m) == claimer[m] # Nobody /\ claimer[m] # s

\* Processes that recover the claim of m (nobody else is past these steps when
\* its claimer is gone).
Recovering(m) ==
  {s \in Serves : /\ job[s] = m
                  /\ pc[s] \in {"expire", "recover", "recovered", "handover", "enqueue", "finish"}}

\* The ID has an entry: its state is the answer, unless it is a claim whose
\* claimer is gone.
AcceptKnown(s) ==
  LET m == job[s] IN
  /\ pc[s] = "arrived" /\ lock = Nobody
  /\ ledger[m] # "none"
  /\ IF ledger[m] # "claimed" \/ ClaimerAlive(s, m)
       THEN Answer(s, ledger[m]) /\ UNCHANGED raced
       ELSE /\ Goto(s, IF m \in late THEN "expire" ELSE "recover") /\ UNCHANGED seen
            /\ raced' = IF Recovering(m) = {} THEN raced ELSE raced \cup {m}
  /\ UNCHANGED <<kind, late, ledger, claimer, place, tomb, typed, lock, job, todo, dropped,
                 withdrawn, claimed>>

\* The target agent is missing or archived: nothing is recorded.
AcceptUndeliverable(s) ==
  /\ pc[s] = "arrived" /\ lock = Nobody
  /\ ledger[job[s]] = "none" /\ kind = "queue"
  /\ Answer(s, "deferred")
  /\ UNCHANGED <<kind, late, ledger, claimer, place, tomb, typed, lock, job, todo, hist>>

\* The message is refused for good: policy, size, rate; its time; its topic.
AcceptRefused(s) ==
  LET m == job[s] IN
  /\ pc[s] = "arrived" /\ lock = Nobody
  /\ ledger[m] = "none"
  /\ \E v \in {"refused", "expired", "superseded"} :
       /\ v = "expired" => m \in late
       /\ v = "superseded" => m \notin late /\ TopicPassed(m)
       /\ SetState(m, v)
       /\ Answer(s, v)
  /\ UNCHANGED <<kind, late, claimer, place, tomb, typed, lock, job, todo, hist>>

\* Mutant of Claim: pruning and a late copy reopen the ID.
ClaimLate(s) ==
  LET m == job[s] IN
  /\ pc[s] = "arrived" /\ lock = Nobody
  /\ ledger[m] = "none" /\ ~TopicPassed(m)
  /\ SetState(m, "claimed")
  /\ claimer' = [claimer EXCEPT ![m] = s]
  /\ todo' = [todo EXCEPT ![s] = {o \in Msgs : <<o, m>> \in Older}]
  /\ Goto(s, IF todo'[s] = {} THEN "handover" ELSE "supersede")
  /\ claimed' = claimed \cup {m}
  /\ UNCHANGED <<kind, late, place, tomb, typed, lock, job, seen, raced, dropped, withdrawn>>

\* Claim the ID by exclusive create, before anything is handed over.
Claim(s) ==
  LET m == job[s] IN
  /\ pc[s] = "arrived" /\ lock = Nobody
  /\ ledger[m] = "none" /\ m \notin late /\ ~TopicPassed(m)
  /\ SetState(m, "claimed")
  /\ claimer' = [claimer EXCEPT ![m] = s]
  /\ todo' = [todo EXCEPT ![s] = {o \in Msgs : <<o, m>> \in Older}]
  /\ Goto(s, IF todo'[s] = {} THEN "handover" ELSE "supersede")
  /\ claimed' = claimed \cup {m}
  /\ UNCHANGED <<kind, late, place, tomb, typed, lock, job, seen, raced, dropped, withdrawn>>

\* write_tombstone; a queue with no drain on the message sets it aside at once.
Bury(m) ==
  /\ tomb' = IF kind = "command" THEN tomb ELSE tomb \cup {m}
  /\ place' = IF kind = "queue" /\ "waiting" \in place[m]
                THEN [place EXCEPT ![m] = {"aside"}] ELSE place

\* apply_supersede reads the older entries one by one ...
SupersedeRead(s) ==
  /\ pc[s] = "supersede"
  /\ IF todo[s] = {} THEN Goto(s, "handover") /\ UNCHANGED <<seen, todo>>
     ELSE \E o \in todo[s] :
            /\ todo' = [todo EXCEPT ![s] = @ \ {o}]
            /\ IF ledger[o] = "accepted"
                 THEN Goto(s, "superseding") /\ seen' = [seen EXCEPT ![s] = o]
                 ELSE UNCHANGED <<pc, seen>>
  /\ UNCHANGED <<kind, late, ledger, claimer, place, tomb, typed, lock, job, hist>>

\* ... and rewrites each one it found accepted, with a tombstone.
SupersedeWrite(s) ==
  LET o == seen[s] IN
  /\ pc[s] = "superseding"
  /\ SetState(o, "superseded") /\ Bury(o)
  /\ withdrawn' = withdrawn \cup {o}
  /\ seen' = [seen EXCEPT ![s] = "none"]
  /\ Goto(s, "supersede")
  /\ UNCHANGED <<kind, late, claimer, typed, lock, job, todo, raced, dropped, claimed>>

(***************************************************************************)
(* Hand-over and its record.                                               *)
(***************************************************************************)

\* link() into the hook inbox, where a file already there is the same; or an
\* error.
HandOverHook(s) ==
  LET m == job[s] IN
  /\ pc[s] = "handover" /\ kind = "hook"
  /\ \/ /\ place' = [place EXCEPT ![m] = @ \cup {"waiting"}]
        /\ seen' = [seen EXCEPT ![s] = "accepted"]
     \/ /\ UNCHANGED place
        /\ seen' = [seen EXCEPT ![s] = "refused"]
  /\ Goto(s, "finish")
  /\ UNCHANGED <<kind, late, ledger, claimer, tomb, typed, lock, job, todo, hist>>

\* The queue library looks for the ID in every phase; the item it finds is
\* ours, or cannot be read where it was found ...
HandOverQueue(s) ==
  /\ pc[s] = "handover" /\ kind = "queue"
  /\ IF place[job[s]] # {}
       THEN /\ Goto(s, "finish")
            /\ \E v \in {"accepted", "possibly_submitted"} : seen' = [seen EXCEPT ![s] = v]
       ELSE Goto(s, "enqueue") /\ UNCHANGED seen
  /\ UNCHANGED <<kind, late, ledger, claimer, place, tomb, typed, lock, job, todo, hist>>

\* Mutant of Enqueue: a failed enqueue counts as done.
EnqueueAssumed(s) ==
  LET m == job[s] IN
  /\ pc[s] = "enqueue"
  /\ \/ place' = [place EXCEPT ![m] = @ \cup {"waiting"}]
     \/ UNCHANGED place
  /\ seen' = [seen EXCEPT ![s] = "accepted"]
  /\ Goto(s, "finish")
  /\ UNCHANGED <<kind, late, ledger, claimer, tomb, typed, lock, job, todo, hist>>

\* ... and creates the item if inbox.v2/ has none; an error is settled by
\* looking for the ID again.
Enqueue(s) ==
  LET m == job[s] IN
  /\ pc[s] = "enqueue"
  /\ \/ /\ place' = [place EXCEPT ![m] = @ \cup {"waiting"}]
        /\ seen' = [seen EXCEPT ![s] = "accepted"]
     \/ /\ UNCHANGED place
        /\ seen' = [seen EXCEPT ![s] =
             CASE Contains(m) = "yes" -> "accepted"
               [] Contains(m) = "no" -> "refused"
               [] OTHER -> "possibly_submitted"]
  /\ Goto(s, "finish")
  /\ UNCHANGED <<kind, late, ledger, claimer, tomb, typed, lock, job, todo, hist>>

\* The owner's command runs on the message: it succeeds, it fails after it
\* may have delivered, or it does not start.
HandOverCommand(s) ==
  LET m == job[s] IN
  /\ pc[s] = "handover" /\ kind = "command"
  /\ \E v \in {"accepted", "possibly_submitted", "refused"} :
       /\ seen' = [seen EXCEPT ![s] = v]
       /\ IF v = "accepted" THEN Type(m)
          ELSE \/ v = "possibly_submitted" /\ Type(m)
               \/ UNCHANGED typed
  /\ Goto(s, "finish")
  /\ UNCHANGED <<kind, late, ledger, claimer, place, tomb, lock, job, todo, hist>>

\* finish_handover: a retraction wins, anything else is overwritten.
Finish(s) ==
  LET m == job[s] IN
  /\ pc[s] = "finish" /\ lock = Nobody
  /\ CASE ledger[m] = "none" -> UNCHANGED ledger /\ Answer(s, "route-refused")
       [] ledger[m] = "retracted" -> UNCHANGED ledger /\ Answer(s, "retracted")
       [] OTHER -> SetState(m, seen[s]) /\ Answer(s, seen[s])
  /\ UNCHANGED <<kind, late, claimer, place, tomb, typed, lock, job, todo, hist>>

(***************************************************************************)
(* recover_claim, for a claim whose claimer died.                          *)
(***************************************************************************)

\* Mutant of Recover: a message that cannot be proved absent is handed over.
RecoverUnproved(s) ==
  LET m == job[s] IN
  /\ pc[s] = "recover"
  /\ IF Contains(m) = "yes"
       THEN Goto(s, "recovered") /\ seen' = [seen EXCEPT ![s] = "accepted"]
       ELSE Goto(s, "handover") /\ UNCHANGED seen
  /\ UNCHANGED <<kind, late, ledger, claimer, place, tomb, typed, lock, job, todo, hist>>

\* Ask the deliverer; hand over again only what it proves absent.
Recover(s) ==
  LET m == job[s] IN
  /\ pc[s] = "recover"
  /\ IF Contains(m) = "no"
       THEN Goto(s, "handover") /\ UNCHANGED seen
       ELSE /\ Goto(s, "recovered")
            /\ seen' = [seen EXCEPT ![s] =
                 IF Contains(m) = "yes" THEN "accepted" ELSE "possibly_submitted"]
  /\ UNCHANGED <<kind, late, ledger, claimer, place, tomb, typed, lock, job, todo, hist>>

\* Mutant of RecoverWrite: the entry gets a state no reader of the ledger knows.
RecoverWriteNew(s) ==
  /\ pc[s] = "recovered"
  /\ SetState(job[s], "recovered")
  /\ Answer(s, seen[s])
  /\ UNCHANGED <<kind, late, claimer, place, tomb, typed, lock, job, todo, hist>>

\* The entry is rewritten from the copy that was read, without the lock.
RecoverWrite(s) ==
  /\ pc[s] = "recovered"
  /\ SetState(job[s], seen[s])
  /\ Answer(s, seen[s])
  /\ UNCHANGED <<kind, late, claimer, place, tomb, typed, lock, job, todo, hist>>

\* A claim past its time is closed, whatever its entry says by now.
ExpireClaim(s) ==
  LET m == job[s] IN
  /\ pc[s] = "expire" /\ lock = Nobody
  /\ IF ledger[m] = "none" THEN UNCHANGED ledger ELSE SetState(m, "expired")
  /\ Answer(s, "expired")
  /\ UNCHANGED <<kind, late, claimer, place, tomb, typed, lock, job, todo, hist>>

\* What is left when a serve process is gone: its claim has a dead claimer.
Gone(s) == claimer' = [m \in Msgs |-> IF claimer[m] = s THEN Nobody ELSE claimer[m]]

\* Nothing of what a process read outlives it.
Forget(p) ==
  /\ job' = [job EXCEPT ![p] = Nobody]
  /\ seen' = [seen EXCEPT ![p] = "none"]
  /\ todo' = [todo EXCEPT ![p] = {}]

\* An I/O error ends the verb with the answer "error".
AcceptFails(s) ==
  /\ s \in Serves /\ pc[s] \notin {"idle", "done"}
  /\ Answer(s, "error")
  /\ UNCHANGED <<kind, late, ledger, claimer, place, tomb, typed, lock, job, todo, hist>>

\* The answer has been read, or nobody waits for it: the process exits.
Exit(s) ==
  /\ s \in Serves /\ pc[s] = "done"
  /\ Goto(s, "idle")
  /\ Gone(s)
  /\ Forget(s)
  /\ UNCHANGED <<kind, late, ledger, place, tomb, typed, lock, hist>>

(***************************************************************************)
(* The other writers of the ledger.                                        *)
(***************************************************************************)

\* `fence` bars an ID that has not arrived.
Fence(m) ==
  /\ lock = Nobody /\ ledger[m] = "none"
  /\ SetState(m, "fenced")
  /\ UNCHANGED <<kind, late, claimer, place, tomb, typed, lock, pc, job, seen, todo, hist>>

\* retract reads the entry under the lock ...
RetractRead(r, m) ==
  /\ r \in Retractors /\ pc[r] = "idle"
  /\ lock = Nobody
  /\ ledger[m] \in {"accepted", "claimed"}
  /\ lock' = r
  /\ job' = [job EXCEPT ![r] = m]
  /\ Goto(r, "retract")
  /\ UNCHANGED <<kind, late, ledger, claimer, place, tomb, typed, seen, todo, hist>>

\* ... and rewrites it ...
RetractWrite(r) ==
  /\ pc[r] = "retract"
  /\ SetState(job[r], "retracted")
  /\ withdrawn' = withdrawn \cup {job[r]}
  /\ lock' = Nobody
  /\ Goto(r, "bury")
  /\ UNCHANGED <<kind, late, claimer, place, tomb, typed, job, seen, todo, raced, dropped, claimed>>

\* ... and then writes the tombstone.
RetractBury(r) ==
  /\ pc[r] = "bury"
  /\ Bury(job[r])
  /\ Goto(r, "idle") /\ Forget(r)
  /\ UNCHANGED <<kind, late, ledger, claimer, typed, lock, hist>>

\* Mutant of Reconciled: an item that has left the inbox counts as delivered.
ReconciledEarly(m) ==
  IF kind # "queue" \/ ledger[m] # "accepted" THEN ledger[m]
  ELSE CASE place[m] \cap {"processed", "inflight"} # {} -> "delivered"
         [] "aside_expired" \in place[m] -> "expired"
         [] "aside" \in place[m] -> "retracted"
         [] "failed" \in place[m] -> "possibly_submitted"
         [] OTHER -> "accepted"

\* What reconcile_queue_delivery makes of message m.
Reconciled(m) ==
  IF kind # "queue" \/ ledger[m] # "accepted" THEN ledger[m]
  ELSE CASE "processed" \in place[m] -> "delivered"
         [] "aside_expired" \in place[m] -> "expired"
         [] "aside" \in place[m] -> "retracted"
         [] "failed" \in place[m] -> "possibly_submitted"
         [] OTHER -> "accepted"

\* `drain-one`, `seen` and every receipt fold the queue's result in.
Reconcile(m) ==
  /\ lock = Nobody
  /\ Reconciled(m) # ledger[m]
  /\ SetState(m, Reconciled(m))
  /\ UNCHANGED <<kind, late, claimer, place, tomb, typed, lock, pc, job, seen, todo, hist>>

\* prune_team: entries that ended, 30 days past not_after, when every verb of
\* that time is over.
Prunable == {"delivered", "expired", "superseded", "retracted", "fenced", "refused"}

Prune(m) ==
  /\ lock = Nobody
  /\ m \in late /\ ledger[m] \in Prunable
  /\ \A p \in Procs : pc[p] = "idle"
  /\ SetState(m, "none")
  /\ UNCHANGED <<kind, late, claimer, place, tomb, typed, lock, pc, job, seen, todo, hist>>

(***************************************************************************)
(* The hook: cmd_hook.                                                     *)
(***************************************************************************)

\* List the entries an earlier run presented ...
HookList(h) ==
  /\ h \in Hooks /\ pc[h] = "idle" /\ kind = "hook"
  /\ todo' = [todo EXCEPT ![h] = {m \in Msgs : ledger[m] = "presented"}]
  /\ Goto(h, "hook")
  /\ UNCHANGED <<kind, late, ledger, claimer, place, tomb, typed, lock, job, seen, hist>>

\* ... and rewrite each as delivered: this run proves the harness took it.
HookUpgrade(h) ==
  /\ pc[h] = "hook"
  /\ \E m \in todo[h] :
       /\ SetState(m, "delivered")
       /\ todo' = [todo EXCEPT ![h] = @ \ {m}]
  /\ UNCHANGED <<kind, late, claimer, place, tomb, typed, lock, pc, job, seen, hist>>

\* Mutant of HookClaim: a tombstone beside the inbox is not looked for.
HookClaimBuried(h) ==
  /\ pc[h] = "hook" /\ todo[h] = {}
  /\ \E m \in Msgs :
       /\ "waiting" \in place[m]
       /\ place' = [place EXCEPT ![m] = {"taken"}]
       /\ IF m \notin late /\ ledger[m] \in {"accepted", "claimed"}
            THEN Goto(h, "present") /\ job' = [job EXCEPT ![h] = m]
            ELSE UNCHANGED <<pc, job>>
  /\ UNCHANGED <<kind, late, ledger, claimer, tomb, typed, lock, seen, todo, hist>>

\* Take a file by renaming it into claimed/, and read its entry: only an
\* accepted or claimed message in time and without a tombstone is printed.
HookClaim(h) ==
  /\ pc[h] = "hook" /\ todo[h] = {}
  /\ \E m \in Msgs :
       /\ "waiting" \in place[m]
       /\ place' = [place EXCEPT ![m] = {"taken"}]
       /\ IF m \notin tomb \cup late /\ ledger[m] \in {"accepted", "claimed"}
            THEN Goto(h, "present") /\ job' = [job EXCEPT ![h] = m]
            ELSE UNCHANGED <<pc, job>>
  /\ UNCHANGED <<kind, late, ledger, claimer, tomb, typed, lock, seen, todo, hist>>

\* Record `presented` in the entry that was read ...
HookPresent(h) ==
  /\ pc[h] = "present"
  /\ SetState(job[h], "presented")
  /\ Goto(h, "print")
  /\ UNCHANGED <<kind, late, claimer, place, tomb, typed, lock, job, seen, todo, hist>>

\* ... and print the message.
HookPrint(h) ==
  /\ pc[h] = "print"
  /\ Type(job[h])
  /\ Goto(h, "hook") /\ Forget(h)
  /\ UNCHANGED <<kind, late, ledger, claimer, place, tomb, lock, hist>>

HookEnd(h) ==
  /\ pc[h] = "hook" /\ todo[h] = {}
  /\ Goto(h, "idle")
  /\ UNCHANGED <<kind, late, ledger, claimer, place, tomb, typed, lock, job, seen, todo, hist>>

(***************************************************************************)
(* The queue's drain, whose steps the module Drain models: it re-checks    *)
(* the tombstone and not_after, moves the item to inflight/, types it and  *)
(* settles it.                                                             *)
(***************************************************************************)

DrainPick(m) ==
  /\ kind = "queue" /\ "waiting" \in place[m]
  /\ place' = [place EXCEPT ![m] = (@ \ {"waiting"}) \cup
       {IF m \in tomb THEN "aside" ELSE IF m \in late THEN "aside_expired" ELSE "inflight"}]
  /\ UNCHANGED <<kind, late, ledger, claimer, tomb, typed, lock, pc, job, seen, todo, hist>>

DrainSettle(m) ==
  /\ "inflight" \in place[m]
  /\ \E to \in {"processed", "failed", "waiting"} :
       /\ place' = [place EXCEPT ![m] = (@ \ {"inflight"}) \cup {to}]
       /\ \/ to # "waiting" /\ Type(m)
          \/ to # "processed" /\ UNCHANGED typed
  /\ UNCHANGED <<kind, late, ledger, claimer, tomb, lock, pc, job, seen, todo, hist>>

-----------------------------------------------------------------------------

\* not_after passes.
Expires(m) ==
  /\ m \notin late
  /\ late' = late \cup {m}
  /\ UNCHANGED <<kind, ledger, claimer, place, tomb, typed, lock, pc, job, seen, todo, hist>>

\* A process of the receiving host dies.
LedgerCrash(p) ==
  /\ pc[p] # "idle"
  /\ Goto(p, "idle")
  /\ Gone(p)
  /\ Forget(p)
  /\ lock' = IF lock = p THEN Nobody ELSE lock
  /\ dropped' = IF pc[p] \in {"present", "print"} THEN dropped \cup {job[p]} ELSE dropped
  /\ UNCHANGED <<kind, late, ledger, place, tomb, typed, raced, withdrawn, claimed>>

LedgerInit ==
  /\ kind \in Kinds
  /\ late = {} /\ tomb = {} /\ raced = {} /\ dropped = {} /\ withdrawn = {} /\ claimed = {}
  /\ ledger = [m \in Msgs |-> "none"] /\ claimer = [m \in Msgs |-> Nobody]
  /\ place = [m \in Msgs |-> {}] /\ typed = [m \in Msgs |-> 0]
  /\ lock = Nobody
  /\ pc = [p \in Procs |-> "idle"] /\ seen = [p \in Procs |-> "none"]
  /\ job = [p \in Procs |-> Nobody]
  /\ todo = [p \in Procs |-> {}]

\* One step of a serve process on the verb it was given.
Serve(s) ==
  \/ RefuseRoute(s) \/ AcceptKnown(s) \/ AcceptUndeliverable(s) \/ AcceptRefused(s)
  \/ Claim(s) \/ SupersedeRead(s) \/ SupersedeWrite(s)
  \/ HandOverHook(s) \/ HandOverQueue(s) \/ Enqueue(s) \/ HandOverCommand(s)
  \/ Finish(s) \/ Recover(s) \/ RecoverWrite(s) \/ ExpireClaim(s)

Hook(h) ==
  HookList(h) \/ HookUpgrade(h) \/ HookClaim(h) \/ HookPresent(h) \/ HookPrint(h) \/ HookEnd(h)

Retract(r) == (\E m \in Msgs : RetractRead(r, m)) \/ RetractWrite(r) \/ RetractBury(r)

QueueDrain(m) == DrainPick(m) \/ DrainSettle(m)

\* A step of the receiving host about the messages M, where the hooks and
\* retractors P run.
Receiver(M, P) ==
  \/ \E s \in Serves : Serve(s) \/ AcceptFails(s)
  \/ \E h \in Hooks \cap P : Hook(h)
  \/ \E r \in Retractors \cap P : Retract(r)
  \/ \E m \in M : Fence(m) \/ Reconcile(m) \/ Prune(m) \/ QueueDrain(m) \/ Expires(m)
=============================================================================
