----------------------------- MODULE PromptQueue -----------------------------
(***************************************************************************)
(* One durable prompt queue, everything that works on it and the agent     *)
(* pane it is bound to: the clients of QueueClients and the drainers of    *)
(* Drain share the files and the delivery lock of QueueFiles, and the pane *)
(* of AgentPane changes on its own.  Any process may die at any step.      *)
(***************************************************************************)
EXTENDS QueueClients, Drain

CONSTANTS
  Waiting,      \* items already queued when the run starts
  Exhausted,    \* queued items whose delivery_attempts reached the maximum
  Malformed,    \* unreadable files that something else wrote to inbox/
  MaxCrashes    \* bound on the crashes of a run

ASSUME SystemAssumption ==
  /\ Waiting \subseteq Items
  /\ Exhausted \subseteq Waiting
  /\ Malformed \subseteq Waiting
  /\ Waiting \cap Generated = {}
  /\ Drainers \cap Clients = {}
  /\ NoFile \notin Doc
  /\ MaxCrashes \in Nat

VARIABLE crashes    \* history: the crashes so far

vars == <<queueVars, paneVars, clientVars, drainVars, crashes>>

TypeOK ==
  /\ file \in [Path -> Doc \cup {NoFile}]
  /\ tomb \subseteq Items
  /\ sidecar \subseteq Items
  /\ lock \in Drainers \cup Clients \cup {Nobody}
  /\ expired \subseteq Expiring
  /\ PaneTypeOK
  /\ ClientTypeOK
  /\ DrainTypeOK
  /\ crashes \in 0..MaxCrashes

-----------------------------------------------------------------------------
\* Where an item that waits at the start is, and what its file holds.
StartsAt(i) == IF i \in Malformed THEN "inbox" ELSE LaneOf(i)
StartDoc(i) == [NewDoc EXCEPT !.valid = i \notin Malformed,
                              !.attempts = IF i \in Exhausted THEN MaxAttempts ELSE 0]

Init ==
  /\ file = [p \in Path |-> IF p[2] \in Waiting /\ p[1] = StartsAt(p[2])
                            THEN StartDoc(p[2]) ELSE NoFile]
  /\ tomb = {}
  /\ sidecar = {}
  /\ lock = Nobody
  /\ expired = {}
  /\ PaneInit
  /\ ClientInit
  /\ live = Waiting
  /\ DrainInit
  /\ crashes = 0

ClientActs(c) == ClientStep(c) /\ UNCHANGED <<drainVars, crashes>>
DrainStarts(d) == DrainLock(d) /\ UNCHANGED <<clientVars, crashes>>
DrainActs(d) == DrainStep(d) /\ UNCHANGED <<clientVars, crashes>>
PaneActs == PaneNext /\ UNCHANGED <<queueVars, clientVars, drainVars, crashes>>
TimePasses == (\E i \in Items : Expire(i)) /\ UNCHANGED <<paneVars, clientVars, drainVars, crashes>>

Crash ==
  /\ crashes < MaxCrashes
  /\ crashes' = crashes + 1
  /\ \/ \E d \in Drainers : DrainCrash(d) /\ UNCHANGED clientVars
     \/ \E c \in Clients : ClientCrash(c) /\ UNCHANGED drainVars

Next ==
  \/ \E c \in Clients : ClientActs(c)
  \/ \E d \in Drainers : DrainStarts(d) \/ DrainActs(d)
  \/ PaneActs
  \/ TimePasses
  \/ Crash

Spec == Init /\ [][Next]_vars

(***************************************************************************)
(* A started drain, and a started client operation, goes on (both poll     *)
(* with bounded waits); drains are started again and again (send, the      *)
(* watch loop and the tick all run one), so a free lock is taken in the    *)
(* end.  Nothing is assumed of the pane, of new client operations or of    *)
(* the clock.                                                              *)
(***************************************************************************)
ClientGoesOn(c) == cpc[c] # "idle" /\ ClientActs(c)

FairSpec ==
  /\ Spec
  /\ \A d \in Drainers : WF_vars(DrainActs(d))
  /\ \A c \in Clients : WF_vars(ClientGoesOn(c))
  /\ SF_vars(\E d \in Drainers : DrainStarts(d))

-----------------------------------------------------------------------------
(***************************************************************************)
(* Safety.                                                                 *)
(***************************************************************************)

\* One identifier, one phase (agent-queue lib.rs): an identifier that was queued and not withdrawn
\* is in exactly one phase directory, whatever interleaving of enqueue, withdraw, cancel,
\* recovery and drain moved it there, and any other identifier is in none.
OnePhase ==
  \A i \in Items :
    /\ i \in live <=> Present(i)
    /\ \A p, q \in Phases : Exists(<<p, i>>) /\ Exists(<<q, i>>) => p = q

\* At most once (drain, repend_stranded_inflight, recover_inflight): across refusals, retries,
\* misroutes, crashes and recoveries the text of a queued item is in the pane, or was taken by
\* the agent, at most once.
AtMostOnce == \A i \in Items : typed[i] <= 1 /\ accepted[i] <= 1

\* Where the barrier is weaker, behind a composer agentctl cannot read (Native) or when the paste
\* stamp is lost (StampMayFail), an item is typed again only after a crash, and once for each.
EachReplayNeedsACrash == \A i \in Items : typed[i] <= 1 + crashes

\* The stamps on disk are evidence: an item that recovery or the next drain would type again
\* (pending and not stranded, or inflight and provably never typed) has no text in the pane.
EvidenceSound ==
  \A i \in Items :
    /\ \A lane \in Lanes :
         LET doc == file[<<lane, i>>]
         IN  Exists(<<lane, i>>) /\ ~doc.stranded => typed[i] = 0
    /\ LET doc == file[Inflight(i)]
       IN  Exists(Inflight(i)) /\ ~MaybeTyped(doc) /\ NeverTyped(doc) /\ ~doc.stranded
             => typed[i] = 0

\* A confirmed delivery (processed/) is one the agent really took.
ProcessedWasAccepted == \A i \in Items : Exists(<<"processed", i>>) => accepted[i] > 0

\* set_aside keeps the mark of a stranded item: a set-aside item whose text is in the pane says so.
SetAsideKnowsTyped ==
  \A i \in Items \ Digest :
    Exists(<<"cancelled", i>>) => typed[i] = 0 \/ file[<<"cancelled", i>>].stranded

\* The queue order of lib.rs between two items, with the owner's prompts first.
Earlier(i, j) ==
  \/ i \in Owner /\ j \notin Owner
  \/ /\ i \in Owner <=> j \in Owner
     /\ \/ QueuedAt[i] < QueuedAt[j]
        \/ QueuedAt[i] = QueuedAt[j] /\ i < j

\* A drain types in queue order: when it types an item, every item of the drain that comes first
\* has left the pending lanes or is stranded (a lost paste lets the others pass).
TypedInQueueOrder ==
  \A d \in Drainers :
    dpc[d] \in {"submit", "paste"} =>
      \A q \in snapshot[d] :
        Exists(q) /\ Earlier(q[2], Item(d)) => file[q].stranded

\* An item is past the barrier only while a drain is at work, unless a drain died.
NoStrayInflight ==
  \A i \in Items :
    Exists(Inflight(i)) => crashes > 0 \/ \E d \in Drainers : lock = d /\ Item(d) = i

-----------------------------------------------------------------------------
(***************************************************************************)
(* What a step may never do.                                               *)
(***************************************************************************)

\* cancel's promise (CancelOutcome): once it has answered that the item waits, was set aside or is
\* not there yet, no drain types the item or presses Enter on it.
Promised(i) ==
  \E c \in Clients :
    /\ cpc[c] = "idle"
    /\ citem[c] = i
    /\ cresult[c] \in {"pending", "set_aside", "already_cancelled", "unknown"}

CancelKeepsItsPromise ==
  [][\A i \in Items : Promised(i) =>
       /\ typed'[i] <= typed[i]
       /\ \A d \in Drainers : dpc'[d] = "flushed" /\ dpc[d] # "flushed" => Item(d) # i]_vars

\* A settled item is final: no step changes, moves or types it (a recovered digest is set aside).
Final(i) == {p \in {"processed", "failed", "cancelled"} : Exists(<<p, i>>)}

SettledIsFinal ==
  [][\A i \in Items : \A p \in Final(i) :
       /\ typed'[i] <= typed[i]
       /\ \/ file'[<<p, i>>] = file[<<p, i>>]
          \/ p = "failed" /\ i \in Digest /\ file'[<<"cancelled", i>>] = file[<<p, i>>]]_vars

-----------------------------------------------------------------------------
(***************************************************************************)
(* Liveness.                                                               *)
(***************************************************************************)

\* The retries of a drain are bounded: a drain that started ends, and frees the queue.
DrainEndsInTime == \A d \in Drainers : dpc[d] # "idle" ~> dpc[d] = "idle"

\* Nothing is stuck behind the barrier: an inflight item is settled or made pending again, by the
\* drain that moved it or by the recovery of a later one.
InflightIsResolved ==
  \A i \in Items : Exists(Inflight(i)) ~> ~Exists(Inflight(i))

=============================================================================
