---------------------------- MODULE PromptQueueInv ----------------------------
(***************************************************************************)
(* The inductive invariants of the prompt queue.  QueueInv is behind       *)
(* OnePhase: who holds the delivery lock, which document each process      *)
(* relies on while it holds it, and why an enqueue without the lock cannot *)
(* collide.  The other parts add to it what one further property each      *)
(* rests on.                                                               *)
(***************************************************************************)
EXTENDS PromptQueue

\* Client steps that need the delivery lock.
ClientLocked(c) ==
  \/ cpc[c] \in {"remove", "aside", "aside_move", "aside_forget"}
  \/ cpc[c] \in {"check", "create"} /\ citem[c] \notin Generated

\* Every drainer at work, and every client past a step that takes the delivery lock, holds it.
LockInv ==
  /\ \A d \in Drainers : dpc[d] # "idle" => lock = d
  /\ \A c \in Clients : ClientLocked(c) => lock = c

Enqueuing(c) == cpc[c] \in {"check", "create"}

\* An enqueue past its check has its identifier to itself: the lock keeps every other writer of an
\* explicit identifier away, and a generated identifier is handed out once.
EnqueueInv ==
  /\ \A c \in Clients :
       /\ cpc[c] = "create" => ~Present(citem[c])
       /\ Enqueuing(c) /\ citem[c] \in Generated => citem[c] \in used /\ ~Present(citem[c])
  /\ \A c, e \in Clients :
       Enqueuing(c) /\ Enqueuing(e) /\ citem[c] = citem[e] /\ citem[c] \in Generated => c = e
  /\ \A i \in Generated \ used : ~Present(i)

\* The document a drainer works on is where the drainer believes it is, and none of the paths it
\* has yet to take has gone.
InHandAtPath == {"load", "barrier"}
InHandInflight == {"repend_move", "recover_move", "recheck", "stamp", "submit", "paste",
                   "flushed", "await", "settle", "move"}
InHandAside == {"aside", "aside_move"}

Recovering == {"repend", "repend_move", "recover", "recover_move", "recover_sidecar",
               "digest", "digest_sidecar"}

DrainHand(d) ==
  /\ dpc[d] \in InHandAtPath => Exists(dpath[d])
  /\ dpc[d] \in InHandInflight => Exists(Inflight(Item(d)))
  /\ dpc[d] \in InHandAside => Exists(dat[d]) /\ dat[d] \in {dpath[d], Inflight(Item(d))}
  /\ dpc[d] = "recover_sidecar" => Exists(<<"failed", Item(d)>>)
  /\ \A q \in todo[d] : Exists(q)
  /\ dpc[d] # "next" => dpath[d] \notin todo[d]
  /\ dpc[d] \in Recovering \cup {"idle"} => todo[d] = {}
  /\ dpc[d] = "idle" => recovered[d] = {}
  /\ dpc[d] \in Recovering =>
       \A i \in recovered[d] :
         (dpc[d] = "digest_sidecar" /\ i = Item(d)) \/ Exists(<<"failed", i>>)

DrainHandInv == \A d \in Drainers : DrainHand(d)

\* cancel holds the lock while it sets an item aside, so the item still waits where it found it.
ClientHandInv ==
  \A c \in Clients :
    cpc[c] \in {"aside", "aside_move"} => WaitingIn(citem[c]) # "none"

\* One identifier, one phase, together with what makes it inductive: no step of enqueue, withdraw,
\* cancel, recovery or drain ever finds its document gone or its identifier taken.
QueueInv ==
  /\ TypeOK
  /\ OnePhase
  /\ LockInv
  /\ EnqueueInv
  /\ DrainHandInv
  /\ ClientHandInv

\* No rename of a lock holder is refused by transition: the document it moves is there, and nothing
\* is in its way.
MovesSucceed ==
  /\ \A d \in Drainers :
       /\ dpc[d] = "barrier" => Exists(dpath[d]) /\ ~Exists(Inflight(Item(d)))
       /\ dpc[d] \in {"repend_move", "recover_move"} =>
            Exists(Inflight(Item(d))) /\ ~Exists(dpath[d])
       /\ dpc[d] = "aside_move" => Exists(dat[d]) /\ ~Exists(<<"cancelled", Item(d)>>)
       /\ dpc[d] = "move" =>
            /\ Exists(Inflight(Item(d)))
            /\ \A p \in {dpath[d][1], "processed", "failed"} : ~Exists(<<p, Item(d)>>)
  /\ \A c \in Clients :
       cpc[c] = "aside_move" =>
         WaitingIn(citem[c]) # "none" /\ ~Exists(<<"cancelled", citem[c]>>)

-----------------------------------------------------------------------------
(***************************************************************************)
(* What the other safety properties rest on.  Each part is inductive       *)
(* together with QueueInv.                                                 *)
(***************************************************************************)

\* Every text the agent took, or that is drawn or under way in the pane, was typed there.
Tokens(i) ==
  accepted[i] + (IF i \in undrawn THEN 1 ELSE 0) + (IF draft = i THEN 1 ELSE 0)

PaneInv == \A i \in Items : Tokens(i) <= typed[i]

\* What the drainer's copy of the document says of the one on disk, and which stamps it has.
HandDoc(d) ==
  LET disk == file[Inflight(Item(d))]
      doc == ddoc[d]
  IN  /\ dpc[d] = "barrier" => file[dpath[d]] = doc
      /\ dpc[d] \in {"recheck", "stamp", "submit", "flushed", "move"} => disk = doc
      /\ dpc[d] \in {"barrier", "recheck", "stamp", "submit", "paste", "flushed", "await"} =>
           doc.valid
      /\ dpc[d] \in {"submit", "paste", "flushed", "await"} => doc.tracked /\ doc.from \in Lanes
      /\ dpc[d] \in {"paste", "await"} =>
           /\ Verified(d) => ~doc.stranded
           /\ disk = [doc EXCEPT !.pasted = TRUE] \/ StampMayFail
      /\ dpc[d] = "move" =>
           /\ doc.from = "none"
           /\ dout[d] \in {"stranded", "lost"} => doc.stranded

HandDocInv == \A d \in Drainers : HandDoc(d)

\* The outcomes that say nothing of where the text is now, or mark the document stranded.
Open == {"confirmed", "unknown"}
Marking == {"stranded", "lost"}

-----------------------------------------------------------------------------
(***************************************************************************)
(* Evidence.  A document that is not marked stranded, outside the time     *)
(* between the paste stamp and the settling, belongs to an item with no    *)
(* text in the pane.                                                       *)
(***************************************************************************)
Clean(i, doc) == typed[i] = 0 \/ doc.stranded

ItemClean(i) ==
  /\ \A lane \in Lanes : Exists(<<lane, i>>) => Clean(i, file[<<lane, i>>])
  /\ LET doc == file[Inflight(i)]
     IN  Exists(Inflight(i)) /\ ~MaybeTyped(doc) /\ NeverTyped(doc) => Clean(i, doc)
  /\ i \notin Digest /\ Exists(<<"cancelled", i>>) => Clean(i, file[<<"cancelled", i>>])
  /\ i \notin Native => typed[i] <= 1

\* Nothing behind the barrier may have been typed: what repend_stranded_inflight leaves.
NoneMaybeTyped == \A i \in Items : Exists(Inflight(i)) => ~MaybeTyped(file[Inflight(i)])

HandClean(d) ==
  /\ dpc[d] \in {"recheck", "stamp", "submit", "paste"} => Clean(Item(d), ddoc[d])
  /\ dpc[d] = "settle" /\ dout[d] \notin Open \cup Marking => Clean(Item(d), ddoc[d])
  /\ dpc[d] = "move" /\ dout[d] \notin Open => Clean(Item(d), ddoc[d])
  /\ dpc[d] \in {"repend_move", "recover_move"} => Clean(Item(d), file[Inflight(Item(d))])
  /\ dpc[d] \in InHandAside => Clean(Item(d), file[dat[d]])
  /\ dpc[d] \in {"recover", "recover_move", "recover_sidecar"} => NoneMaybeTyped

EvidenceInv ==
  /\ \A i \in Items : ItemClean(i)
  /\ \A d \in Drainers : HandClean(d)

(***************************************************************************)
(* Replays.  An item that some drain may type has been typed at most once  *)
(* per crash.                                                              *)
(***************************************************************************)
Spare(i, doc) == typed[i] <= crashes \/ (doc.stranded /\ i \notin Native)

AtWork(d, i) == Item(d) = i /\ dpc[d] \in {"await", "settle", "move"}

ItemSpare(i) ==
  /\ typed[i] <= 1 + crashes
  /\ \A lane \in Lanes : Exists(<<lane, i>>) => Spare(i, file[<<lane, i>>])
  /\ Exists(Inflight(i)) =>
       \/ Spare(i, file[Inflight(i)])
       \/ \E d \in Drainers : AtWork(d, i)

HandSpare(d) ==
  /\ dpc[d] \in {"submit", "paste"} => Spare(Item(d), ddoc[d])
  /\ dpc[d] = "flushed" => Item(d) \notin Native
  /\ dpc[d] = "settle" =>
       /\ dout[d] \notin Open \cup Marking => Spare(Item(d), ddoc[d])
       /\ dout[d] \in Marking => Item(d) \notin Native
  /\ dpc[d] = "move" /\ dout[d] \notin Open => Spare(Item(d), ddoc[d])

ReplayInv ==
  /\ \A i \in Items : ItemSpare(i)
  /\ \A d \in Drainers : HandSpare(d)

(***************************************************************************)
(* Confirmation: what is filed, or about to be filed, as delivered was     *)
(* taken by the agent.                                                     *)
(***************************************************************************)
HandTaken(d) ==
  /\ dpc[d] = "flushed" => draft = Item(d) \/ accepted[Item(d)] > 0
  /\ dpc[d] \in {"settle", "move"} /\ dout[d] = "confirmed" => accepted[Item(d)] > 0

ConfirmInv ==
  /\ \A i \in Items : Exists(<<"processed", i>>) => accepted[i] > 0
  /\ \A d \in Drainers : HandTaken(d)

\* Without a crash, whatever is behind the barrier is in the hands of the drain that put it there.
Attends(d, i) ==
  /\ Item(d) = i
  /\ \/ dpc[d] \in {"recheck", "stamp", "submit", "paste", "flushed", "await", "settle", "move"}
     \/ dpc[d] \in InHandAside /\ dat[d] = Inflight(i)

AttendedInv ==
  \A i \in Items :
    Exists(Inflight(i)) => crashes > 0 \/ \E d \in Drainers : Attends(d, i)

(***************************************************************************)
(* Order.  What a drain has taken is in its hands, gone or stranded; what  *)
(* it has yet to take is not earlier than what is in its hands.            *)
(***************************************************************************)
Holding == {"load", "barrier", "recheck", "stamp", "submit", "paste", "flushed", "await",
            "settle", "move", "aside", "aside_move"}

HandOrder(d) ==
  /\ todo[d] \subseteq snapshot[d]
  /\ \A q \in snapshot[d] : Present(q[2])
  /\ dpc[d] \in Recovering \cup {"idle"} => snapshot[d] = {}
  /\ dpc[d] \in Holding =>
       /\ dpath[d] \in snapshot[d] \ todo[d]
       /\ \A q \in todo[d] : ~Earlier(q[2], Item(d))
  /\ \A q \in snapshot[d] \ todo[d] :
       (dpc[d] \in Holding /\ q = dpath[d]) \/ ~Exists(q) \/ file[q].stranded

OrderInv == \A d \in Drainers : HandOrder(d)

(***************************************************************************)
(* Cancellation.  Item i is out of reach: its tombstone is in place, or    *)
(* the item is set aside, and no drain has already passed the recheck      *)
(* behind the barrier with it.                                             *)
(***************************************************************************)
Buried(i) == i \in tomb \/ Exists(<<"cancelled", i>>)

OutOfReach(i) ==
  /\ Buried(i)
  /\ \A d \in Drainers : Item(d) = i => dpc[d] \notin {"stamp", "submit", "paste"}

Promising == {"pending", "set_aside", "already_cancelled", "unknown"}

CancelHand(c) ==
  LET i == citem[c]
  IN  /\ cpc[c] \in {"try", "look_again"} => Buried(i)
      /\ cpc[c] = "aside_forget" \/ (cpc[c] = "look" /\ cseen[c] = {"cancelled"}) =>
           Exists(<<"cancelled", i>>)
      /\ cpc[c] = "look_again" /\ cseen[c] # {"inflight"} /\ (cseen[c] # {} \/ clook[c] > 3) =>
           OutOfReach(i)
      /\ cpc[c] = "idle" /\ cresult[c] \in Promising => OutOfReach(i)

CancelInv ==
  /\ \A c \in Clients : CancelHand(c)
  /\ \A d \in Drainers : dpc[d] = "aside_forget" => Exists(<<"cancelled", Item(d)>>)
=============================================================================
