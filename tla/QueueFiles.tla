----------------------------- MODULE QueueFiles -----------------------------
(***************************************************************************)
(* The durable prompt queue of rs/agent-queue: one directory per phase,    *)
(* one JSON document per message identifier, a directory of tombstones,    *)
(* the quarantine sidecars and the delivery lock.                          *)
(*                                                                         *)
(* A path is a pair <<phase, identifier>>.  A write replaces (or creates)  *)
(* one document atomically and a rename moves one, as fsio.rs does; every  *)
(* crash point is the gap between two of those steps.  A document keeps    *)
(* only the fields some decision reads.                                    *)
(***************************************************************************)
EXTENDS Naturals

CONSTANTS
  Items,        \* message identifiers, numbered in file-name order
  QueuedAt,     \* QueuedAt[i]: the numeric queued_at of i; 0 is "no numeric queued_at"
  Owner,        \* items that owner_first puts ahead of the backlog
  Expiring,     \* items with a not_after: they are queued in inbox.v2/
  Procs,        \* processes that take the delivery lock
  Nobody,       \* the delivery lock is free
  NoFile,       \* no document at a path
  MaxLostPastePasses, \* MAX_LOST_PASTE_PASSES
  MaxMisroutes  \* MAX_MISROUTES

ASSUME QueueAssumption ==
  /\ Items \subseteq Nat /\ Items # {}
  /\ QueuedAt \in [Items -> Nat]
  /\ Owner \subseteq Items
  /\ Expiring \subseteq Items
  /\ Nobody \notin Procs
  /\ MaxLostPastePasses \in Nat \ {0}
  /\ MaxMisroutes \in Nat \ {0}

VARIABLES
  file,     \* file[path]: the document at a path, or NoFile
  tomb,     \* identifiers with a tombstone cancel/<id>.json
  sidecar,  \* identifiers with a quarantine sidecar failed/<id>.json.error
  lock,     \* the holder of .delivery.lock
  expired   \* items whose not_after has passed

queueVars == <<file, tomb, sidecar, lock, expired>>

Lanes == {"inbox", "inbox.v2"}
Phases == Lanes \cup {"inflight", "processed", "failed", "cancelled"}
Path == Phases \X Items

(***************************************************************************)
(* The fields of an item that the queue and its drainers decide by:        *)
(*   valid     the document parses and has its text (load_message)         *)
(*   tracked   paste_tracking        from   inflight_from                  *)
(*   pasted    paste_started_at      stranded  stranded_at                 *)
(*   passes    stranded_passes, counted up to the bound it is compared to  *)
(*   misroutes the length of misroutes                                     *)
(*   attempts  delivery_attempts                                           *)
(*   refused   delivery_error names a refusal that preceded typing         *)
(***************************************************************************)
Doc == [valid: BOOLEAN, tracked: BOOLEAN, from: Lanes \cup {"none"},
        pasted: BOOLEAN, stranded: BOOLEAN, passes: 0..MaxLostPastePasses,
        misroutes: 0..MaxMisroutes, attempts: Nat, refused: BOOLEAN]

\* The document enqueue writes.
NewDoc == [valid |-> TRUE, tracked |-> FALSE, from |-> "none", pasted |-> FALSE,
           stranded |-> FALSE, passes |-> 0, misroutes |-> 0, attempts |-> 0,
           refused |-> FALSE]

\* The lane enqueue puts an item in: only an inbox.v2 item may carry not_after.
LaneOf(i) == IF i \in Expiring THEN "inbox.v2" ELSE "inbox"

Exists(path) == file[path] # NoFile
Present(i) == \E p \in Phases : Exists(<<p, i>>)

\* atomic_json: replace or create the document at a path.
Write(path, doc) == file' = [file EXCEPT ![path] = doc]

\* Delete the document at a path.
Remove(path) == file' = [file EXCEPT ![path] = NoFile]

\* transition: refuse to replace a document, then rename.
Rename(src, dst) ==
  /\ Exists(src)
  /\ ~Exists(dst)
  /\ file' = [file EXCEPT ![dst] = file[src], ![src] = NoFile]

\* The stamps of the at-most-once barrier, which every way out of inflight/ strips.
Stripped(doc) == [doc EXCEPT !.tracked = FALSE, !.from = "none", !.pasted = FALSE]

\* Why an item must not be typed now: its tombstone, or its passed not_after.
SetAsideReason(i) ==
  IF i \in tomb THEN "cancelled" ELSE IF i \in expired THEN "expired" ELSE "none"

\* set_aside consumes the tombstone only of an item set aside for it.
ConsumeTombstone(i, reason) ==
  tomb' = IF reason = "cancelled" THEN tomb \ {i} ELSE tomb

(***************************************************************************)
(* Recovery evidence of an inflight document.  A tracked item whose paste  *)
(* started may sit in the composer; one that is tracked with no paste, or  *)
(* that has no attempt and a refusal that preceded typing, was never       *)
(* typed.  Both need the lane the item came from.                          *)
(***************************************************************************)
MaybeTyped(doc) == doc.valid /\ doc.tracked /\ doc.pasted /\ doc.from \in Lanes

NeverTyped(doc) ==
  /\ doc.valid
  /\ \/ doc.attempts = 0 /\ doc.refused
     \/ doc.tracked /\ ~doc.pasted
  /\ doc.from \in Lanes

\* Mutant of Before: the owner's prompts wait their turn.
BeforeByTime(p, q) ==
  IF QueuedAt[p[2]] # QueuedAt[q[2]] THEN QueuedAt[p[2]] < QueuedAt[q[2]] ELSE p[2] < q[2]

(***************************************************************************)
(* The order in which a drain takes pending paths: the owner's prompts     *)
(* first, then by queued_at (none first), then by file name, then inbox/   *)
(* before inbox.v2/.                                                       *)
(***************************************************************************)
Before(p, q) ==
  LET i == p[2]
      j == q[2]
  IN  IF (i \in Owner) # (j \in Owner) THEN i \in Owner
      ELSE IF QueuedAt[i] # QueuedAt[j] THEN QueuedAt[i] < QueuedAt[j]
      ELSE IF i # j THEN i < j
      ELSE p[1] = "inbox" /\ q[1] = "inbox.v2"

\* The wall clock passes the not_after of an item.
Expire(i) ==
  /\ i \in Expiring \ expired
  /\ expired' = expired \cup {i}
  /\ UNCHANGED <<file, tomb, sidecar, lock>>
=============================================================================
