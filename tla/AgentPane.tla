------------------------------ MODULE AgentPane ------------------------------
(***************************************************************************)
(* The terminal pane of the agent, as agentctl's submission code relies on *)
(* it.  Its texts are the queue's items.  Text pasted into a pane is first *)
(* undrawn, is then drawn in the composer, and leaves it when the agent    *)
(* takes it.  A paste may be taken straight from the terminal by a busy    *)
(* agent, or be lost.  A person may type a draft of their own.             *)
(*                                                                         *)
(* Assumed of the environment: nobody edits a draft that agentctl typed,   *)
(* and the agent takes one paste once.                                     *)
(***************************************************************************)
EXTENDS QueueFiles, Integers

CONSTANTS
  NoDraft,      \* the composer is empty
  Foreign,      \* the composer holds text that is no live item's
  PersonMayType \* whether a person types drafts of their own into the pane

ASSUME PaneAssumption ==
  /\ NoDraft \notin Items
  /\ Foreign \notin Items
  /\ PersonMayType \in BOOLEAN

VARIABLES
  draft,        \* what the composer shows: an item, NoDraft or Foreign
  undrawn,      \* items pasted into the terminal and not drawn yet
  typed,        \* history: pastes of an item into this pane, less those taken back
  accepted      \* history: times the agent took an item

paneVars == <<draft, undrawn, typed, accepted>>

PaneTypeOK ==
  /\ draft \in Items \cup {NoDraft, Foreign}
  /\ undrawn \subseteq Items
  /\ typed \in [Items -> Int]
  /\ accepted \in [Items -> Nat]

PaneInit ==
  /\ draft = NoDraft
  /\ undrawn = {}
  /\ typed = [i \in Items |-> 0]
  /\ accepted = [i \in Items |-> 0]

PaneDraws(i) ==
  /\ i \in undrawn
  /\ draft = NoDraft
  /\ draft' = i
  /\ undrawn' = undrawn \ {i}
  /\ UNCHANGED <<typed, accepted>>

PaneDrops(i) ==
  /\ i \in undrawn
  /\ undrawn' = undrawn \ {i}
  /\ UNCHANGED <<draft, typed, accepted>>

\* The agent takes the draft: a submission key pressed on it, by whoever pressed it.
PaneTakes(i) ==
  /\ draft = i
  /\ draft' = NoDraft
  /\ accepted' = [accepted EXCEPT ![i] = @ + 1]
  /\ UNCHANGED <<undrawn, typed>>

\* A busy agent takes a paste straight into its queued messages.
PaneTakesUndrawn(i) ==
  /\ i \in undrawn
  /\ undrawn' = undrawn \ {i}
  /\ accepted' = [accepted EXCEPT ![i] = @ + 1]
  /\ UNCHANGED <<draft, typed>>

PersonTypes ==
  /\ PersonMayType
  /\ draft = NoDraft
  /\ draft' = Foreign
  /\ UNCHANGED <<undrawn, typed, accepted>>

PersonClears ==
  /\ draft = Foreign
  /\ draft' = NoDraft
  /\ UNCHANGED <<undrawn, typed, accepted>>

PaneNext ==
  \/ \E i \in Items :
       PaneDraws(i) \/ PaneDrops(i) \/ PaneTakes(i) \/ PaneTakesUndrawn(i)
  \/ PersonTypes
  \/ PersonClears

-----------------------------------------------------------------------------
(***************************************************************************)
(* What agentctl does to the pane.                                         *)
(***************************************************************************)
PanePaste(i) ==
  /\ typed' = [typed EXCEPT ![i] = @ + 1]
  /\ undrawn' = undrawn \cup {i}
  /\ UNCHANGED <<draft, accepted>>

\* The native primitive types and submits in one call; the agent takes it or drops it.
PanePrompt(i) ==
  /\ typed' = [typed EXCEPT ![i] = @ + 1]
  /\ accepted' \in {accepted, [accepted EXCEPT ![i] = @ + 1]}
  /\ UNCHANGED <<draft, undrawn>>

\* clear_composer takes the staged prompt back out, proved empty by the screen.
PaneTakeBack(i) ==
  /\ draft = i
  /\ draft' = NoDraft
  /\ typed' = [typed EXCEPT ![i] = @ - 1]
  /\ UNCHANGED <<undrawn, accepted>>

\* An identifier is queued anew: text left over from its earlier life is no longer its own.
PaneForgets(i) ==
  /\ draft' = IF draft = i THEN Foreign ELSE draft
  /\ undrawn' = undrawn \ {i}
  /\ typed' = [typed EXCEPT ![i] = 0]
  /\ accepted' = [accepted EXCEPT ![i] = 0]
=============================================================================
