---------------------------- MODULE MCPromptQueue ----------------------------
(***************************************************************************)
(* Small queues for TLC.  A configuration chooses the items, who works on  *)
(* them and which of them are special.                                     *)
(***************************************************************************)
EXTENDS PromptQueueInv, TLC

CONSTANTS d1, d2, c1, c2    \* processes

\* No item has a numeric queued_at.
NoQueuedAt == [i \in Items |-> 0]

\* Queued in the order 2, 1; any other item has no numeric queued_at.
MixedQueuedAt == [i \in Items |-> CASE i = 1 -> 5 [] i = 2 -> 3 [] OTHER -> 0]

\* Drainers are interchangeable, and so are clients.
Interchangeable == Permutations(Drainers) \cup Permutations(Clients)
=============================================================================
