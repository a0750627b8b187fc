-------------------------------- MODULE Drain --------------------------------
(***************************************************************************)
(* The interactive drain of rs/agentctl/src/agent.rs                       *)
(* (drain_with_runtime_binding) with the recovery of rs/agent-queue it     *)
(* runs first and the submission outcomes it settles.  A drainer holds the *)
(* delivery lock from its first step to its last.  Every durable write and *)
(* every rename is a step of its own, so DrainCrash between any two of     *)
(* them leaves what a killed drainer, or one that returned an I/O error,   *)
(* leaves.                                                                 *)
(***************************************************************************)
EXTENDS AgentPane

CONSTANTS
  Drainers,       \* drainer processes
  Native,         \* items submitted by the native primitive: slash commands, or
                  \* a harness whose composer agentctl cannot read
  Placeholders,   \* items a composer draws as one collapsed paste placeholder
  Digest,         \* failed-message digests (DIGEST_ID_PREFIX)
  MaxAttempts,    \* options.max_attempts
  MaxComposerRetries,  \* COMPOSER_RETRY_DELAYS.len()
  StampMayFail    \* whether the write of paste_started_at can fail

ASSUME DrainAssumption ==
  /\ Drainers \subseteq Procs
  /\ Native \subseteq Items
  /\ Placeholders \subseteq Items
  /\ Digest \subseteq Items
  /\ MaxAttempts \in Nat
  /\ MaxComposerRetries \in Nat
  /\ StampMayFail \in BOOLEAN

VARIABLES
  dpc,        \* dpc[d]: the step drainer d is at
  dpath,      \* dpath[d]: the pending path in hand
  dat,        \* dat[d]: the path set_aside moves the document from
  ddoc,       \* ddoc[d]: the drainer's copy of that document
  dout,       \* dout[d]: the outcome of the submission, or why the item is set aside
  todo,       \* todo[d]: pending paths of this drain not taken yet
  snapshot,   \* history: the pending paths this drain started with
  dtries,     \* dtries[d]: unreadable-composer retries of the item in hand
  recovered   \* recovered[d]: items this drain's recovery quarantined

drainVars == <<dpc, dpath, dat, ddoc, dout, todo, snapshot, dtries, recovered>>

DrainPc == {"idle", "repend", "repend_move", "recover", "recover_move",
            "recover_sidecar", "digest", "digest_sidecar", "next", "load", "barrier",
            "recheck", "aside", "aside_move", "aside_forget", "stamp", "submit",
            "paste", "flushed", "await", "settle", "move", "sidecar"}

\* Delivered and Undelivered of deliver_one, NotStaged split by the details the drain tells apart.
Outcome == {"none", "confirmed", "refused", "unreadable", "not_begun", "taken_back",
            "stranded", "lost", "misrouted", "unknown", "cancelled", "expired"}

NoPath == <<"inbox", CHOOSE i \in Items : TRUE>>

DrainTypeOK ==
  /\ dpc \in [Drainers -> DrainPc]
  /\ dpath \in [Drainers -> Lanes \X Items]
  /\ dat \in [Drainers -> Path]
  /\ ddoc \in [Drainers -> Doc]
  /\ dout \in [Drainers -> Outcome]
  /\ todo \in [Drainers -> SUBSET (Lanes \X Items)]
  /\ snapshot \in [Drainers -> SUBSET (Lanes \X Items)]
  /\ dtries \in [Drainers -> 0..MaxComposerRetries]
  /\ recovered \in [Drainers -> SUBSET Items]

DrainInit ==
  /\ dpc = [d \in Drainers |-> "idle"]
  /\ dpath = [d \in Drainers |-> NoPath]
  /\ dat = [d \in Drainers |-> NoPath]
  /\ ddoc = [d \in Drainers |-> NewDoc]
  /\ dout = [d \in Drainers |-> "none"]
  /\ todo = [d \in Drainers |-> {}]
  /\ snapshot = [d \in Drainers |-> {}]
  /\ dtries = [d \in Drainers |-> 0]
  /\ recovered = [d \in Drainers |-> {}]

Item(d) == dpath[d][2]
Inflight(i) == <<"inflight", i>>

Step(d, from, to) ==
  /\ dpc[d] = from
  /\ dpc' = [dpc EXCEPT ![d] = to]

\* The drain returns, or dies: every local is gone and the lock is free.
DrainEnds(d) ==
  /\ dpc' = [dpc EXCEPT ![d] = "idle"]
  /\ dpath' = [dpath EXCEPT ![d] = NoPath]
  /\ dat' = [dat EXCEPT ![d] = NoPath]
  /\ ddoc' = [ddoc EXCEPT ![d] = NewDoc]
  /\ dout' = [dout EXCEPT ![d] = "none"]
  /\ todo' = [todo EXCEPT ![d] = {}]
  /\ snapshot' = [snapshot EXCEPT ![d] = {}]
  /\ dtries' = [dtries EXCEPT ![d] = 0]
  /\ recovered' = [recovered EXCEPT ![d] = {}]
  /\ lock' = Nobody

-----------------------------------------------------------------------------
\* Mutant of DrainLock: a drain starts without recovering inflight/.
DrainLockUnrecovered(d) ==
  /\ Step(d, "idle", "digest")
  /\ lock = Nobody
  /\ lock' = d
  /\ UNCHANGED <<file, tomb, sidecar, expired, paneVars, dpath, dat, ddoc, dout,
                 todo, snapshot, dtries, recovered>>

(***************************************************************************)
(* Recovery of inflight/, left by a drainer that died.                     *)
(***************************************************************************)
DrainLock(d) ==
  /\ Step(d, "idle", "repend")
  /\ lock = Nobody
  /\ lock' = d
  /\ UNCHANGED <<file, tomb, sidecar, expired, paneVars, dpath, dat, ddoc, dout,
                 todo, snapshot, dtries, recovered>>

\* Mutant of RependStranded: an item that may have been typed goes back unmarked.
RependUnmarked(d, i) ==
  /\ Step(d, "repend", "repend_move")
  /\ Exists(Inflight(i))
  /\ MaybeTyped(file[Inflight(i)])
  /\ dpath' = [dpath EXCEPT ![d] = <<file[Inflight(i)].from, i>>]
  /\ Write(Inflight(i), Stripped(file[Inflight(i)]))
  /\ UNCHANGED <<tomb, sidecar, lock, expired, paneVars, dat, ddoc, dout, todo,
                 snapshot, dtries, recovered>>

\* repend_stranded_inflight: an item that may have been typed becomes a stranded pending one.
RependStranded(d, i) ==
  /\ Step(d, "repend", "repend_move")
  /\ Exists(Inflight(i))
  /\ MaybeTyped(file[Inflight(i)])
  /\ dpath' = [dpath EXCEPT ![d] = <<file[Inflight(i)].from, i>>]
  /\ Write(Inflight(i), [Stripped(file[Inflight(i)]) EXCEPT !.stranded = TRUE])
  /\ UNCHANGED <<tomb, sidecar, lock, expired, paneVars, dat, ddoc, dout, todo,
                 snapshot, dtries, recovered>>

RependMove(d) ==
  /\ Step(d, "repend_move", "repend")
  /\ Rename(Inflight(Item(d)), dpath[d])
  /\ UNCHANGED <<tomb, sidecar, lock, expired, paneVars, dpath, dat, ddoc, dout,
                 todo, snapshot, dtries, recovered>>

RependDone(d) ==
  /\ Step(d, "repend", "recover")
  /\ \A i \in Items : Exists(Inflight(i)) => ~MaybeTyped(file[Inflight(i)])
  /\ UNCHANGED <<queueVars, paneVars, dpath, dat, ddoc, dout, todo, snapshot,
                 dtries, recovered>>

\* repend_never_typed: a provably untyped item goes back to its lane.
RecoverNeverTyped(d, i) ==
  /\ Step(d, "recover", "recover_move")
  /\ Exists(Inflight(i))
  /\ NeverTyped(file[Inflight(i)])
  /\ dpath' = [dpath EXCEPT ![d] = <<file[Inflight(i)].from, i>>]
  /\ Write(Inflight(i), Stripped(file[Inflight(i)]))
  /\ UNCHANGED <<tomb, sidecar, lock, expired, paneVars, dat, ddoc, dout, todo,
                 snapshot, dtries, recovered>>

RecoverMove(d) ==
  /\ Step(d, "recover_move", "recover")
  /\ Rename(Inflight(Item(d)), dpath[d])
  /\ UNCHANGED <<tomb, sidecar, lock, expired, paneVars, dpath, dat, ddoc, dout,
                 todo, snapshot, dtries, recovered>>

\* recover_inflight: anything else is quarantined as possibly submitted.
RecoverQuarantine(d, i) ==
  /\ Step(d, "recover", "recover_sidecar")
  /\ Exists(Inflight(i))
  /\ ~NeverTyped(file[Inflight(i)])
  /\ dpath' = [dpath EXCEPT ![d] = <<"inbox", i>>]
  /\ Rename(Inflight(i), <<"failed", i>>)
  /\ UNCHANGED <<tomb, sidecar, lock, expired, paneVars, dat, ddoc, dout, todo,
                 snapshot, dtries, recovered>>

RecoverSidecar(d) ==
  /\ Step(d, "recover_sidecar", "recover")
  /\ sidecar' = sidecar \cup {Item(d)}
  /\ recovered' = [recovered EXCEPT ![d] = @ \cup {Item(d)}]
  /\ UNCHANGED <<file, tomb, lock, expired, paneVars, dpath, dat, ddoc, dout, todo,
                 snapshot, dtries>>

RecoverDone(d) ==
  /\ Step(d, "recover", "digest")
  /\ \A i \in Items : ~Exists(Inflight(i))
  /\ UNCHANGED <<queueVars, paneVars, dpath, dat, ddoc, dout, todo, snapshot,
                 dtries, recovered>>

\* Mutant of DigestAside: everything that was recovered is set aside, not only digests.
DigestAsideAll(d, i) ==
  /\ Step(d, "digest", "digest_sidecar")
  /\ i \in recovered[d]
  /\ dpath' = [dpath EXCEPT ![d] = <<"inbox", i>>]
  /\ Rename(<<"failed", i>>, <<"cancelled", i>>)
  /\ UNCHANGED <<tomb, sidecar, lock, expired, paneVars, dat, ddoc, dout, todo,
                 snapshot, dtries, recovered>>

\* A digest recovered in flight is set aside, never left in failed/: its document first, then
\* its sidecar.
DigestAside(d, i) ==
  /\ Step(d, "digest", "digest_sidecar")
  /\ i \in recovered[d] \cap Digest
  /\ dpath' = [dpath EXCEPT ![d] = <<"inbox", i>>]
  /\ Rename(<<"failed", i>>, <<"cancelled", i>>)
  /\ UNCHANGED <<tomb, sidecar, lock, expired, paneVars, dat, ddoc, dout, todo,
                 snapshot, dtries, recovered>>

DigestSidecar(d) ==
  /\ Step(d, "digest_sidecar", "digest")
  /\ sidecar' = sidecar \ {Item(d)}
  /\ recovered' = [recovered EXCEPT ![d] = @ \ {Item(d)}]
  /\ UNCHANGED <<file, tomb, lock, expired, paneVars, dpath, dat, ddoc, dout, todo,
                 snapshot, dtries>>

\* The pending paths of this drain: all of them, or the one prompt of an urgent send.
DrainSnapshot(d) ==
  LET pending == {p \in Lanes \X Items : Exists(p)}
  IN  /\ Step(d, "digest", "next")
      /\ recovered[d] \cap Digest = {}
      /\ \E chosen \in {pending} \cup {{p \in pending : p[2] = i} : i \in Items} :
           /\ todo' = [todo EXCEPT ![d] = chosen]
           /\ snapshot' = [snapshot EXCEPT ![d] = chosen]
      /\ UNCHANGED <<queueVars, paneVars, dpath, dat, ddoc, dout, dtries, recovered>>

-----------------------------------------------------------------------------
(***************************************************************************)
(* One pending item, up to the at-most-once barrier.                       *)
(***************************************************************************)
DrainPick(d) ==
  /\ Step(d, "next", "load")
  /\ \E p \in todo[d] :
       /\ \A q \in todo[d] \ {p} : Before(p, q)
       /\ dpath' = [dpath EXCEPT ![d] = p]
       /\ todo' = [todo EXCEPT ![d] = @ \ {p}]
  /\ dtries' = [dtries EXCEPT ![d] = 0]
  /\ UNCHANGED <<queueVars, paneVars, dat, ddoc, dout, snapshot, recovered>>

DrainFinish(d) ==
  /\ dpc[d] = "next"
  /\ todo[d] = {}
  /\ DrainEnds(d)
  /\ UNCHANGED <<file, tomb, sidecar, expired, paneVars>>

\* --max-items, the deadline or burst pacing stops the drain with items left.
DrainStops(d) ==
  /\ dpc[d] = "next"
  /\ todo[d] # {}
  /\ DrainEnds(d)
  /\ UNCHANGED <<file, tomb, sidecar, expired, paneVars>>

\* An unreadable item is quarantined as it is.
DrainInvalid(d) ==
  /\ Step(d, "load", "sidecar")
  /\ ~file[dpath[d]].valid
  /\ Rename(dpath[d], <<"failed", Item(d)>>)
  /\ UNCHANGED <<tomb, sidecar, lock, expired, paneVars, dpath, dat, ddoc, dout,
                 todo, snapshot, dtries, recovered>>

\* set_aside_reason, before any wait and once more behind the barrier.
DrainAside(d) ==
  /\ dpc[d] \in {"load", "recheck"}
  /\ dpc[d] = "load" => file[dpath[d]].valid
  /\ SetAsideReason(Item(d)) # "none"
  /\ dpc' = [dpc EXCEPT ![d] = "aside"]
  /\ dat' = [dat EXCEPT ![d] = IF dpc[d] = "load" THEN dpath[d] ELSE Inflight(Item(d))]
  /\ dout' = [dout EXCEPT ![d] = SetAsideReason(Item(d))]
  /\ UNCHANGED <<queueVars, paneVars, dpath, ddoc, todo, snapshot, dtries, recovered>>

\* An item out of attempts, or a pane that is not ready, ends the drain; the item stays pending.
\* Some readiness errors say that nothing was typed.
DrainBlocked(d) ==
  LET doc == file[dpath[d]]
  IN  /\ dpc[d] = "load"
      /\ doc.valid
      /\ SetAsideReason(Item(d)) = "none"
      /\ \E untyped \in BOOLEAN :
           /\ untyped => doc.attempts < MaxAttempts
           /\ Write(dpath[d], [doc EXCEPT !.refused = untyped])
      /\ DrainEnds(d)
      /\ UNCHANGED <<tomb, sidecar, expired, paneVars>>

DrainReady(d) ==
  LET doc == file[dpath[d]]
  IN  /\ Step(d, "load", "barrier")
      /\ doc.valid
      /\ SetAsideReason(Item(d)) = "none"
      /\ doc.attempts < MaxAttempts
      /\ ddoc' = [ddoc EXCEPT ![d] = doc]
      /\ UNCHANGED <<queueVars, paneVars, dpath, dat, dout, todo, snapshot, dtries,
                     recovered>>

DrainBarrier(d) ==
  /\ Step(d, "barrier", "recheck")
  /\ Rename(dpath[d], Inflight(Item(d)))
  /\ UNCHANGED <<tomb, sidecar, lock, expired, paneVars, dpath, dat, ddoc, dout,
                 todo, snapshot, dtries, recovered>>

\* Mutant of DrainRecheck: the tombstone is not read again behind the barrier.
DrainRecheckSkipped(d) ==
  /\ Step(d, "recheck", "stamp")
  /\ UNCHANGED <<queueVars, paneVars, dpath, dat, ddoc, dout, todo, snapshot, dtries,
                 recovered>>

DrainRecheck(d) ==
  /\ Step(d, "recheck", "stamp")
  /\ SetAsideReason(Item(d)) = "none"
  /\ UNCHANGED <<queueVars, paneVars, dpath, dat, ddoc, dout, todo, snapshot, dtries,
                 recovered>>

DrainStamp(d) ==
  LET doc == [ddoc[d] EXCEPT !.tracked = TRUE, !.from = dpath[d][1], !.pasted = FALSE]
  IN  /\ Step(d, "stamp", "submit")
      /\ Write(Inflight(Item(d)), doc)
      /\ ddoc' = [ddoc EXCEPT ![d] = doc]
      /\ UNCHANGED <<tomb, sidecar, lock, expired, paneVars, dpath, dat, dout, todo,
                     snapshot, dtries, recovered>>

-----------------------------------------------------------------------------
\* Mutant of AsideWrite: setting aside strips stranded_at with the other stamps.
AsideWriteUnmarked(d) ==
  /\ Step(d, "aside", "aside_move")
  /\ Write(dat[d], [Stripped(file[dat[d]]) EXCEPT !.stranded = FALSE])
  /\ UNCHANGED <<tomb, sidecar, lock, expired, paneVars, dpath, dat, ddoc, dout, todo,
                 snapshot, dtries, recovered>>

(***************************************************************************)
(* set_aside: write the document, rename it, consume the tombstone.        *)
(***************************************************************************)
AsideWrite(d) ==
  /\ Step(d, "aside", "aside_move")
  /\ Write(dat[d], Stripped(file[dat[d]]))
  /\ UNCHANGED <<tomb, sidecar, lock, expired, paneVars, dpath, dat, ddoc, dout, todo,
                 snapshot, dtries, recovered>>

AsideMove(d) ==
  /\ Step(d, "aside_move", "aside_forget")
  /\ Rename(dat[d], <<"cancelled", Item(d)>>)
  /\ UNCHANGED <<tomb, sidecar, lock, expired, paneVars, dpath, dat, ddoc, dout,
                 todo, snapshot, dtries, recovered>>

\* The drain is done with the item in hand for now.
PutDown(d) ==
  /\ dat' = [dat EXCEPT ![d] = NoPath]
  /\ ddoc' = [ddoc EXCEPT ![d] = NewDoc]
  /\ dout' = [dout EXCEPT ![d] = "none"]

AsideForget(d) ==
  /\ Step(d, "aside_forget", "next")
  /\ ConsumeTombstone(Item(d), dout[d])
  /\ PutDown(d)
  /\ UNCHANGED <<file, sidecar, lock, expired, paneVars, dpath, todo, snapshot,
                 dtries, recovered>>

-----------------------------------------------------------------------------
(***************************************************************************)
(* The submission of the item in hand: submit_verified for a composer      *)
(* agentctl can read, the native primitive otherwise.                      *)
(***************************************************************************)
Verified(d) == Item(d) \notin Native

Concludes(d, from, out) ==
  /\ Step(d, from, "settle")
  /\ dout' = [dout EXCEPT ![d] = out]
  /\ UNCHANGED <<queueVars, dpath, dat, ddoc, todo, snapshot, dtries, recovered>>

\* Nothing was typed: a dialog or a foreign draft, no readable composer, or a failed read, whose
\* report does not use the words recovery looks for.
SubmitRefuse(d) ==
  /\ \E out \in {"refused", "unreadable", "not_begun"} : Concludes(d, "submit", out)
  /\ UNCHANGED paneVars

\* The composer holds this prompt, or on a stranded retry one placeholder: press Enter only.
SubmitFlush(d) ==
  /\ Verified(d)
  /\ \/ draft = Item(d)
     \/ ddoc[d].stranded /\ draft \in Placeholders
  /\ Step(d, "submit", "flushed")
  /\ UNCHANGED <<queueVars, paneVars, dpath, dat, ddoc, dout, todo, snapshot, dtries,
                 recovered>>

\* Mutant of FlushEnds: pressing Enter is taken for delivery, whatever the composer shows.
FlushEndsBlindly(d) ==
  /\ Concludes(d, "flushed", "confirmed")
  /\ UNCHANGED paneVars

\* Flushed when the composer is empty, still stranded when it is not, unknown on an error.
FlushEnds(d) ==
  /\ \/ draft = NoDraft /\ Concludes(d, "flushed", "confirmed")
     \/ draft # NoDraft /\ Concludes(d, "flushed", "stranded")
     \/ Concludes(d, "flushed", "unknown")
  /\ UNCHANGED paneVars

\* recover_typed_draft: a draft that a settled record vouches for is submitted first.
SubmitRecoverDraft(d, j) ==
  /\ dpc[d] = "submit"
  /\ Verified(d)
  /\ j # Item(d)
  /\ Exists(<<"processed", j>>) \/ Exists(<<"failed", j>>)
  /\ PaneTakes(j)
  /\ UNCHANGED <<queueVars, drainVars>>

\* A stranded prompt and an empty composer: taken meanwhile, still late, or lost.
SubmitLook(d) ==
  /\ Verified(d)
  /\ ddoc[d].stranded
  /\ draft = NoDraft
  /\ \/ accepted[Item(d)] > 0 /\ Concludes(d, "submit", "confirmed")
     \/ accepted[Item(d)] = 0 /\ \E out \in {"stranded", "lost"} : Concludes(d, "submit", out)
  /\ UNCHANGED paneVars

\* Mutant of SubmitType: paste_started_at is not written before the first input.
SubmitTypeUnstamped(d) ==
  /\ Verified(d) => ~ddoc[d].stranded /\ draft = NoDraft
  /\ Step(d, "submit", "paste")
  /\ UNCHANGED <<queueVars, paneVars, dpath, dat, ddoc, dout, todo, snapshot, dtries,
                 recovered>>

\* input_started stamps the item on disk; its error is dropped.  The native path looks neither
\* at the composer nor at stranded_retry.
SubmitType(d) ==
  /\ Verified(d) => ~ddoc[d].stranded /\ draft = NoDraft
  /\ Step(d, "submit", "paste")
  /\ \/ Write(Inflight(Item(d)), [ddoc[d] EXCEPT !.pasted = TRUE])
     \/ StampMayFail /\ UNCHANGED file
  /\ UNCHANGED <<tomb, sidecar, lock, expired, paneVars, dpath, dat, ddoc, dout, todo,
                 snapshot, dtries, recovered>>

\* The text reaches the pane.
SubmitPaste(d) ==
  /\ Step(d, "paste", "await")
  /\ IF Verified(d) THEN PanePaste(Item(d)) ELSE PanePrompt(Item(d))
  /\ UNCHANGED <<queueVars, dpath, dat, ddoc, dout, todo, snapshot, dtries, recovered>>

\* The text reaches another program, which is told to ignore it, or the send fails.
SubmitMisses(d) ==
  /\ \E out \in {"misrouted", "unknown"} : Concludes(d, "paste", out)
  /\ UNCHANGED paneVars

\* Mutant of SubmitEnds: the native path, too, returns an unconfirmed prompt as stranded.
SubmitEndsStranded(d) ==
  /\ \/ accepted[Item(d)] > 0 /\ Concludes(d, "await", "confirmed")
     \/ Concludes(d, "await", "stranded")
     \/ Concludes(d, "await", "unknown")
  /\ UNCHANGED paneVars

\* What the screen, or the native working status, then shows.
SubmitEnds(d) ==
  \/ /\ accepted[Item(d)] > 0
     /\ Concludes(d, "await", "confirmed")
     /\ UNCHANGED paneVars
  \/ /\ Verified(d)
     /\ Concludes(d, "await", "stranded")
     /\ UNCHANGED paneVars
  \/ /\ Verified(d)
     /\ Concludes(d, "await", "taken_back")
     /\ PaneTakeBack(Item(d))
  \/ /\ Concludes(d, "await", "unknown")
     /\ UNCHANGED paneVars

-----------------------------------------------------------------------------
(***************************************************************************)
(* Settling: write the outcome into the inflight document, then rename it  *)
(* out of inflight/.                                                       *)
(***************************************************************************)
UpTo(bound, n) == IF n < bound THEN n ELSE bound

\* The document an outcome leaves.
Settled(doc, out) ==
  LET left == Stripped(doc)
  IN  CASE out = "confirmed" -> left
        [] out \in {"refused", "unreadable"} -> [left EXCEPT !.refused = TRUE]
        [] out \in {"taken_back", "not_begun"} -> [left EXCEPT !.refused = FALSE]
        [] out \in {"stranded", "lost"} ->
             [left EXCEPT !.refused = FALSE, !.stranded = TRUE,
                          !.passes = UpTo(MaxLostPastePasses, @ + 1)]
        [] out = "misrouted" ->
             [left EXCEPT !.refused = FALSE, !.misroutes = UpTo(MaxMisroutes, @ + 1),
                          !.attempts = IF doc.misroutes + 1 >= MaxMisroutes THEN @ + 1 ELSE @]
        [] OTHER -> [left EXCEPT !.refused = FALSE, !.attempts = @ + 1]

\* Whether a settled document is quarantined: the outcome is unknown, or a bound is reached.
GivesUp(doc, out) ==
  \/ out = "unknown"
  \/ out = "lost" /\ doc.passes >= MaxLostPastePasses
  \/ out = "misrouted" /\ doc.misroutes >= MaxMisroutes

Settle(d) ==
  LET doc == Settled(ddoc[d], dout[d])
  IN  /\ Step(d, "settle", "move")
      /\ Write(Inflight(Item(d)), doc)
      /\ ddoc' = [ddoc EXCEPT ![d] = doc]
      /\ UNCHANGED <<tomb, sidecar, lock, expired, paneVars, dpath, dat, dout, todo,
                     snapshot, dtries, recovered>>

MoveProcessed(d) ==
  /\ Step(d, "move", "next")
  /\ dout[d] = "confirmed"
  /\ Rename(Inflight(Item(d)), <<"processed", Item(d)>>)
  /\ PutDown(d)
  /\ UNCHANGED <<tomb, sidecar, lock, expired, paneVars, dpath, todo, snapshot, dtries,
                 recovered>>

MoveFailed(d) ==
  /\ Step(d, "move", "sidecar")
  /\ GivesUp(ddoc[d], dout[d])
  /\ Rename(Inflight(Item(d)), <<"failed", Item(d)>>)
  /\ PutDown(d)
  /\ UNCHANGED <<tomb, sidecar, lock, expired, paneVars, dpath, todo, snapshot, dtries,
                 recovered>>

\* The outcome undoes the barrier.
MoveBack(d) ==
  /\ dpc[d] = "move"
  /\ dout[d] # "confirmed"
  /\ ~GivesUp(ddoc[d], dout[d])
  /\ Rename(Inflight(Item(d)), dpath[d])

\* A lost paste lets the items behind it pass.
MoveBackAndGoOn(d) ==
  /\ MoveBack(d)
  /\ dout[d] = "lost"
  /\ dpc' = [dpc EXCEPT ![d] = "next"]
  /\ PutDown(d)
  /\ UNCHANGED <<tomb, sidecar, lock, expired, paneVars, dpath, todo, snapshot, dtries,
                 recovered>>

\* Mutant of MoveBackAndRetry: the retries of an unreadable composer are not counted.
MoveBackAndRetryUncounted(d) ==
  /\ MoveBack(d)
  /\ dout[d] \in {"misrouted", "unreadable"}
  /\ dpc' = [dpc EXCEPT ![d] = "load"]
  /\ PutDown(d)
  /\ UNCHANGED <<tomb, sidecar, lock, expired, paneVars, dpath, todo, snapshot, dtries,
                 recovered>>

\* Mutant of MoveBackAndRetry: the retries of an unreadable composer are not bounded.
MoveBackAndRetryUnbounded(d) ==
  /\ MoveBack(d)
  /\ \/ dout[d] = "misrouted" /\ UNCHANGED dtries
     \/ dout[d] = "unreadable" /\ dtries' = [dtries EXCEPT ![d] = @ + 1]
  /\ dpc' = [dpc EXCEPT ![d] = "load"]
  /\ PutDown(d)
  /\ UNCHANGED <<tomb, sidecar, lock, expired, paneVars, dpath, todo, snapshot, recovered>>

\* A misrouted prompt, or one whose composer was unreadable, is tried again at once.
MoveBackAndRetry(d) ==
  /\ MoveBack(d)
  /\ \/ dout[d] = "misrouted" /\ UNCHANGED dtries
     \/ /\ dout[d] = "unreadable"
        /\ dtries[d] < MaxComposerRetries
        /\ dtries[d] + 1 < MaxAttempts
        /\ dtries' = [dtries EXCEPT ![d] = @ + 1]
  /\ dpc' = [dpc EXCEPT ![d] = "load"]
  /\ PutDown(d)
  /\ UNCHANGED <<tomb, sidecar, lock, expired, paneVars, dpath, todo, snapshot, recovered>>

\* Mutant of MoveBackAndStop: the drain returns its error before it undoes the barrier.
StopWithoutMoveBack(d) ==
  /\ dpc[d] = "move"
  /\ dout[d] # "confirmed"
  /\ ~GivesUp(ddoc[d], dout[d])
  /\ DrainEnds(d)
  /\ UNCHANGED <<file, tomb, sidecar, expired, paneVars>>

\* Any other refusal, and a retry past the deadline, end the drain with the item pending.
MoveBackAndStop(d) ==
  /\ MoveBack(d)
  /\ dout[d] # "lost"
  /\ DrainEnds(d)
  /\ UNCHANGED <<tomb, sidecar, expired, paneVars>>

DrainSidecar(d) ==
  /\ Step(d, "sidecar", "next")
  /\ sidecar' = sidecar \cup {Item(d)}
  /\ UNCHANGED <<file, tomb, lock, expired, paneVars, dpath, dat, ddoc, dout, todo,
                 snapshot, dtries, recovered>>

-----------------------------------------------------------------------------
\* The lock holder's steps: everything after DrainLock.
DrainStep(d) ==
  \/ \E i \in Items :
       \/ RependStranded(d, i) \/ RecoverNeverTyped(d, i) \/ RecoverQuarantine(d, i)
       \/ DigestAside(d, i) \/ SubmitRecoverDraft(d, i)
  \/ RependMove(d) \/ RependDone(d) \/ RecoverMove(d) \/ RecoverSidecar(d)
  \/ RecoverDone(d) \/ DigestSidecar(d) \/ DrainSnapshot(d)
  \/ DrainPick(d) \/ DrainFinish(d) \/ DrainStops(d) \/ DrainInvalid(d)
  \/ DrainAside(d) \/ DrainBlocked(d) \/ DrainReady(d) \/ DrainBarrier(d)
  \/ DrainRecheck(d) \/ DrainStamp(d)
  \/ AsideWrite(d) \/ AsideMove(d) \/ AsideForget(d)
  \/ SubmitRefuse(d) \/ SubmitFlush(d) \/ FlushEnds(d) \/ SubmitLook(d)
  \/ SubmitType(d) \/ SubmitPaste(d) \/ SubmitMisses(d) \/ SubmitEnds(d)
  \/ Settle(d) \/ MoveProcessed(d) \/ MoveFailed(d) \/ MoveBackAndGoOn(d)
  \/ MoveBackAndRetry(d) \/ MoveBackAndStop(d) \/ DrainSidecar(d)

\* The drainer is killed, or an I/O error ends the drain; the kernel releases its lock.
DrainCrash(d) ==
  /\ dpc[d] # "idle"
  /\ DrainEnds(d)
  /\ UNCHANGED <<file, tomb, sidecar, expired, paneVars>>
=============================================================================
