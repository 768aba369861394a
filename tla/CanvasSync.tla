------------------------------ MODULE CanvasSync ------------------------------
(***************************************************************************)
(* What the canvas page shows of one layer, and how it is kept in step with *)
(* the layer's row: the lock controller, the optimistic deletion, the poll  *)
(* that follows the agent, the resync that repairs after a failed write,    *)
(* and the order that decides which of their answers may still be applied.  *)
(*                                                                          *)
(*   components/canvas/canvas-layer-lock.ts                                 *)
(*   components/canvas/use-canvas-authoritative-sync.ts                     *)
(*   components/canvas/canvas-authoritative-reconcile.ts                    *)
(*   components/canvas/use-canvas-session-refresh.ts                        *)
(*                                                                          *)
(* Saving the geometry is one step here; module CanvasWrites opens it.      *)
(***************************************************************************)
EXTENDS Integers, FiniteSets

CONSTANTS
  MaxMoves,    \* bound on edits by the user and moves by the agent
  MaxToggles,  \* bound on the user's lock toggles
  MaxOthers,   \* bound on the agent's other changes to the layer
  MaxFaults,   \* bound on requests that fail or time out
  Unset        \* no value

ASSUME SyncBounds == {MaxMoves, MaxToggles, MaxOthers, MaxFaults} \subseteq Nat

Intents == {TRUE, FALSE, Unset}
Geometry == 0 .. MaxMoves
\* A layer as the server answers it and as React holds it.
Layers == [there : BOOLEAN, geo : Geometry, locked : BOOLEAN]
Absent == [there |-> FALSE, geo |-> 0, locked |-> FALSE]

VARIABLES
  row,      \* the layer's row in the database
  view,     \* the layer in the page's state, which the stage renders from
  node,     \* the geometry of the stage's node: a drag moves it, not the state
  dirty,    \* the user's geometry: "no" (saved), "saving", "failed" (given up)
  lock,     \* the lock controller: transition, next toggle, presented intent
  strays,   \* timed-out lock requests the server may still handle
  gone,     \* pendingDeletedIds has the layer
  del,      \* the user's deletion: where it is, and what it may put back
  poll,     \* the poll: where it is, whether its answer may count, what it read
  unseen,   \* the row has been written since the revision the poll remembers
  sig,      \* the signature of the layer the poll emitted last
  resync,   \* the newest resync
  count,    \* moves, toggles, others, faults so far
  kept      \* history: the row's lock, or its absence, that the user was told of

page == <<view, node>>
vars == <<row, view, node, dirty, lock, strays, gone, del, poll, unseen, sig,
          resync, count, kept>>

NoLock == [pc |-> "idle", target |-> FALSE, want |-> Unset, intent |-> Unset, wire |-> "none"]
NoPoll == [pc |-> "no", current |-> TRUE, since |-> FALSE, got |-> Absent]
NoResync == [pc |-> "no", got |-> Absent]
NoDelete == [pc |-> "no", local |-> Absent, drained |-> Unset]

Init ==
  /\ row = [there |-> TRUE, geo |-> 0, locked |-> FALSE] /\ view = row /\ node = 0
  /\ dirty = "no" /\ lock = NoLock /\ strays = {}
  /\ gone = FALSE /\ del = NoDelete
  /\ poll = NoPoll /\ unseen = TRUE /\ sig = Absent /\ resync = NoResync
  /\ count = [moves |-> 0, toggles |-> 0, others |-> 0, faults |-> 0]
  /\ kept = [lock |-> FALSE, absence |-> FALSE]

Within(what, max) == count[what] < max /\ count' = [count EXCEPT ![what] = @ + 1]
Fault == Within("faults", MaxFaults)

\* Every write moves the revision: session time, layer count or layer time.
Written(r) ==
  /\ row' = r
  /\ unseen' = TRUE
  /\ poll' = [poll EXCEPT !.since = @ \/ poll.pc \in {"full", "answer"}]
  /\ kept' = [lock |-> kept.lock /\ r.there /\ r.locked,
              absence |-> kept.absence /\ ~ r.there]

\* The newest resync takes the lease and outdates every answer before it.
RecoveryBegins ==
  /\ resync' = [NoResync EXCEPT !.pc = "sent"]
  /\ poll' = [poll EXCEPT !.current = FALSE]

\* The stage: a node is moved when its property changes, or when it is mounted.
Node(v) == IF ~ v.there THEN 0 ELSE IF ~ view.there \/ v.geo # view.geo THEN v.geo ELSE node
Show(v) == view' = v /\ node' = Node(v)
\* Faulty: the lock of a layer that is not there is set.
ShowLockAnyway(b) == [view EXCEPT !.locked = b]
\* setLayerLockedLocally.
ShowLock(b) == IF view.there THEN [view EXCEPT !.locked = b] ELSE view

-----------------------------------------------------------------------------
(* The user's geometry and the agent.                                       *)

Interactive == view.there /\ ~ view.locked /\ lock.pc = "idle" /\ del.pc = "no"

Edit ==
  /\ Interactive
  /\ Within("moves", MaxMoves)
  /\ node' = count.moves + 1
  /\ dirty' = "saving"
  /\ UNCHANGED <<row, view, lock, strays, gone, del, poll, unseen, sig, resync, kept>>

Saved ==
  /\ dirty = "saving" /\ row.there /\ ~ row.locked
  /\ Written([row EXCEPT !.geo = node])
  /\ dirty' = "no"
  /\ UNCHANGED <<page, lock, strays, gone, del, sig, resync, count>>

\* The retries are used up: on a missing layer, or for failing requests.
SaveGivenUp ==
  /\ dirty = "saving"
  /\ IF row.there THEN Fault ELSE UNCHANGED count
  /\ dirty' = "failed"
  /\ UNCHANGED <<row, page, lock, strays, gone, del, poll, unseen, sig, resync, kept>>

\* A write by somebody else: the agent's tools, an undo or a restore.
Other(r) ==
  /\ Within("others", MaxOthers)
  /\ Written(r)
  /\ UNCHANGED <<page, dirty, lock, strays, gone, del, sig, resync>>

AgentLocks == \E b \in BOOLEAN : row.there /\ row.locked # b /\ Other([row EXCEPT !.locked = b])
AgentDeletes == row.there /\ Other(Absent)
Restored == ~ row.there /\ Other([Absent EXCEPT !.there = TRUE])
AgentMoves ==
  /\ row.there /\ ~ row.locked /\ Within("moves", MaxMoves)
  /\ Written([row EXCEPT !.geo = count.moves + 1])
  /\ UNCHANGED <<page, dirty, lock, strays, gone, del, sig, resync>>

-----------------------------------------------------------------------------
(* The lock controller.                                                     *)

\* runLayer's loop takes up the toggle to b; shown is the lock the page shows.
Toward(l, shown, b) ==
  IF shown = b THEN [l EXCEPT !.pc = "idle", !.want = Unset, !.wire = "none"]
  ELSE [pc |-> IF b THEN "flush" ELSE "persist", target |-> b, want |-> Unset,
        intent |-> TRUE, wire |-> IF b THEN "none" ELSE "sent"]

\* Faulty: the toggle that was queued during the transition is dropped.
SettledWithoutNext(l, shown) == [l EXCEPT !.pc = "idle", !.want = Unset, !.wire = "none"]
\* A transition has ended: the loop goes on with the newest toggle, if any.
Settled(l, shown) ==
  IF l.want = Unset THEN [l EXCEPT !.pc = "idle", !.wire = "none"] ELSE Toward(l, shown, l.want)

\* A flush resumes a write that had been given up.
Flushing(l) == IF l.pc = "flush" /\ dirty = "failed" THEN "saving" ELSE dirty

\* The button is disabled during a deletion. The controller itself takes
\* toggles at any time: the newest is queued while a transition is under way.
Toggle(b) ==
  /\ view.there /\ del.pc = "no" /\ Within("toggles", MaxToggles)
  /\ IF lock.pc = "idle"
     THEN /\ lock' = Toward(lock, view.locked, b)
          /\ Show(ShowLock(view.locked \/ b))
          /\ dirty' = Flushing(lock')
     ELSE lock' = [lock EXCEPT !.want = b] /\ UNCHANGED <<page, dirty>>
  /\ UNCHANGED <<row, strays, gone, del, poll, unseen, sig, resync, kept>>

\* failTransition, and onFailure's resync. A failed lock is rolled back.
Fail ==
  LET shown == view.locked /\ ~ lock.target
      next == Settled([lock EXCEPT !.intent = Unset], view.there /\ shown)
  IN
  /\ lock' = next
  /\ Show(ShowLock(shown \/ next.pc # "idle"))
  /\ dirty' = Flushing(next)
  /\ RecoveryBegins

\* Faulty: the lock is sent whatever became of the geometry.
FlushedAnyway == lock.pc = "flush"
FlushedOk == lock.pc = "flush" /\ dirty = "no"

SendLock ==
  /\ FlushedOk
  /\ lock' = [lock EXCEPT !.pc = "persist", !.wire = "sent"]
  /\ UNCHANGED <<row, page, dirty, strays, gone, del, poll, unseen, sig, resync, count, kept>>

FlushFails ==
  /\ lock.pc = "flush" /\ dirty = "failed"
  /\ Fail
  /\ UNCHANGED <<row, strays, gone, del, unseen, sig, count, kept>>

\* The server's PATCH: only an unlock may cross the lock.
Lockable(b) == row.there /\ (b => ~ row.locked)

LockLands ==
  /\ lock.pc = "persist" /\ lock.wire = "sent"
  /\ IF Lockable(lock.target)
     THEN Written([row EXCEPT !.locked = lock.target]) /\ lock' = [lock EXCEPT !.wire = "done"]
     ELSE lock' = [lock EXCEPT !.wire = "refused"] /\ UNCHANGED <<row, poll, unseen, kept>>
  /\ UNCHANGED <<page, dirty, strays, gone, del, sig, resync, count>>

\* The intent outlives the barrier, until a snapshot agrees with it.
Confirmed == [lock EXCEPT !.intent = lock.target]

LockAnswered ==
  /\ lock.wire = "done"
  /\ lock' = Settled(Confirmed, view.there /\ lock.target)
  /\ Show(ShowLock(lock.target \/ lock'.pc # "idle"))
  /\ dirty' = Flushing(lock')
  /\ kept' = [kept EXCEPT !.lock = lock.target /\ row.there /\ row.locked]
  /\ UNCHANGED <<row, strays, gone, del, poll, unseen, sig, resync, count>>

LockRefused ==
  /\ lock.wire = "refused"
  /\ Fail
  /\ UNCHANGED <<row, strays, gone, del, unseen, sig, count, kept>>

\* The time-out, or a lost answer; the request may still be on its way.
LockTimesOut ==
  /\ lock.wire \in {"sent", "done"} /\ Fault
  /\ strays' = IF lock.wire = "sent" THEN strays \cup {lock.target} ELSE strays
  /\ Fail
  /\ UNCHANGED <<row, gone, del, unseen, sig, kept>>

StrayLands(b) ==
  /\ b \in strays
  /\ strays' = strays \ {b}
  /\ IF Lockable(b) THEN Written([row EXCEPT !.locked = b])
                    ELSE UNCHANGED <<row, poll, unseen, kept>>
  /\ UNCHANGED <<page, dirty, lock, gone, del, sig, resync, count>>

-----------------------------------------------------------------------------
(* The user deletes the layer.                                              *)

\* prepareLayerDeletion: a barrier, and the geometry is flushed.
Delete ==
  /\ Interactive
  /\ del' = [NoDelete EXCEPT !.pc = "drain", !.drained = IF dirty = "no" THEN Unset ELSE node]
  /\ dirty' = IF dirty = "failed" THEN "saving" ELSE dirty
  /\ UNCHANGED <<row, page, lock, strays, gone, poll, unseen, sig, resync, count, kept>>

\* Faulty: the early return forgets the barrier.
ReleasedNever == del
Released == NoDelete

DrainFails ==
  /\ del.pc = "drain" /\ dirty = "failed"
  /\ del' = Released
  /\ UNCHANGED <<row, page, dirty, lock, strays, gone, poll, unseen, sig, resync, count, kept>>

\* The layer leaves the page before the server has deleted it.
Drained ==
  /\ del.pc = "drain" /\ dirty = "no"
  /\ IF view.there
     THEN /\ del' = [del EXCEPT !.pc = "sent", !.local = view]
          /\ gone' = TRUE
          /\ Show(Absent)
     ELSE del' = Released /\ UNCHANGED <<gone, page>>
  /\ UNCHANGED <<row, dirty, lock, strays, poll, unseen, sig, resync, count, kept>>

DeleteLands ==
  /\ del.pc = "sent"
  /\ IF row.there /\ ~ row.locked
     THEN Written(Absent) /\ del' = [del EXCEPT !.pc = "done"]
     ELSE del' = [del EXCEPT !.pc = "refused"] /\ UNCHANGED <<row, poll, unseen, kept>>
  /\ UNCHANGED <<page, dirty, lock, strays, gone, sig, resync, count>>

DeleteAnswered ==
  /\ del.pc = "done"
  /\ del' = NoDelete
  /\ dirty' = "no"
  /\ kept' = [kept EXCEPT !.absence = ~ row.there]
  /\ UNCHANGED <<row, page, lock, strays, gone, poll, unseen, sig, resync, count>>

\* 404, 409 or no answer: the deletion is taken back, and the server asked.
DeleteFails ==
  /\ \/ del.pc = "refused" /\ UNCHANGED count
     \/ del.pc \in {"sent", "done"} /\ Fault
  /\ del' = [del EXCEPT !.pc = "recover"]
  /\ gone' = FALSE
  /\ RecoveryBegins
  /\ UNCHANGED <<row, page, dirty, lock, strays, unseen, sig, kept>>

-----------------------------------------------------------------------------
(* Authoritative answers.                                                   *)

\* pendingDeletedIds: cleared by the first snapshot without the layer.
StillGone(snap) == gone /\ snap.there
\* Dirty geometry of a layer the server has lost is retired.
StillDirty(snap) == IF snap.there THEN dirty ELSE "no"
\* Faulty: an intent is acknowledged while its own transition is under way.
AcknowledgedEarly(snap) ==
  IF snap.there /\ snap.locked = lock.intent THEN Unset ELSE lock.intent
\* acknowledgeAuthoritativeLocks.
Acknowledged(snap) ==
  IF lock.pc = "idle" /\ snap.there /\ snap.locked = lock.intent THEN Unset ELSE lock.intent

\* Faulty: the snapshot's geometry replaces geometry that is not saved yet.
MergedOver(snap) == snap
\* mergePolledLayers: dirty geometry stays, everything else is the server's.
Merged(snap) == IF dirty # "no" /\ view.there THEN [snap EXCEPT !.geo = view.geo] ELSE snap

\* Faulty: a snapshot shows the layer although its deletion is pending.
ReconciledUnfiltered(snap) ==
  IF ~ snap.there THEN Absent
  ELSE [Merged(snap) EXCEPT !.locked = IF Acknowledged(snap) = Unset THEN @ ELSE Acknowledged(snap)]
\* reconcileAuthoritativeCanvasLayers and applyLockIntents.
Reconciled(snap) ==
  IF ~ snap.there \/ StillGone(snap) THEN Absent
  ELSE [Merged(snap) EXCEPT !.locked = IF Acknowledged(snap) = Unset THEN @ ELSE Acknowledged(snap)]

\* applyAuthoritativeLayers.
Apply(snap) ==
  /\ Show(Reconciled(snap))
  /\ gone' = StillGone(snap)
  /\ dirty' = StillDirty(snap)
  /\ lock' = [lock EXCEPT !.intent = Acknowledged(snap)]

ResyncRead ==
  /\ resync.pc = "sent"
  /\ resync' = [pc |-> "read", got |-> row]
  /\ UNCHANGED <<row, page, dirty, lock, strays, gone, del, poll, unseen, sig, count, kept>>

\* What a deletion puts back when no resync can tell what became of the layer.
PutBack == [del.local EXCEPT !.geo = IF del.drained = Unset THEN @ ELSE del.drained]
\* The drained geometry is handed back to the writers, if they may take it.
Requeued(v) ==
  IF del.drained # Unset /\ ~ v.locked THEN "saving" ELSE dirty

\* A resync nobody waits for, or the one of a failed deletion: then the layer
\* gets its drained geometry back, if the server still has the layer.
ResyncLands ==
  LET snap == resync.got
      back == del.pc = "recover" /\ snap.there /\ del.drained # Unset
      v == [Reconciled(snap) EXCEPT !.geo = del.drained]
  IN
  /\ resync.pc = "read"
  /\ resync' = NoResync
  /\ IF back
     THEN /\ Show(v)
          /\ gone' = FALSE
          /\ lock' = [lock EXCEPT !.intent = Acknowledged(snap)]
          /\ dirty' = Requeued(v)
     ELSE Apply(snap)
  /\ del' = IF del.pc = "recover" THEN NoDelete ELSE del
  /\ UNCHANGED <<row, strays, poll, unseen, sig, count, kept>>

\* The server cannot be asked: a failed deletion puts back what it had taken.
ResyncFails ==
  /\ resync.pc # "no" /\ Fault
  /\ resync' = NoResync
  /\ IF del.pc = "recover"
     THEN /\ Show(PutBack)
          /\ dirty' = Requeued(PutBack)
          /\ del' = NoDelete
     ELSE UNCHANGED <<page, dirty, del>>
  /\ UNCHANGED <<row, lock, strays, gone, poll, unseen, sig, kept>>

\* 409 for a locked layer: the geometry is discarded, the queue forgotten and
\* the server asked; a lock or a deletion that waits for the flush is refused.
SaveRefused ==
  /\ dirty = "saving" /\ row.there /\ row.locked
  /\ dirty' = "no"
  /\ RecoveryBegins
  /\ IF lock.pc = "flush"
     THEN /\ lock' = Settled([lock EXCEPT !.intent = Unset], FALSE)
          /\ Show(ShowLock(lock'.pc # "idle"))
     ELSE UNCHANGED <<lock, page>>
  /\ del' = IF del.pc = "drain" THEN NoDelete ELSE del
  /\ UNCHANGED <<row, strays, gone, unseen, sig, count, kept>>

\* claimPoll: not while a resync holds the lease.
PollBegins ==
  /\ poll.pc = "no" /\ resync.pc = "no"
  /\ poll' = [NoPoll EXCEPT !.pc = "revision"]
  /\ UNCHANGED <<row, page, dirty, lock, strays, gone, del, unseen, sig, resync, count, kept>>

\* An unchanged revision ends the poll.
PollRevision ==
  /\ poll.pc = "revision"
  /\ poll' = IF unseen THEN [poll EXCEPT !.pc = "full"] ELSE NoPoll
  /\ UNCHANGED <<row, page, dirty, lock, strays, gone, del, unseen, sig, resync, count, kept>>

PollRead ==
  /\ poll.pc = "full"
  /\ poll' = [poll EXCEPT !.pc = "answer", !.got = row]
  /\ UNCHANGED <<row, page, dirty, lock, strays, gone, del, unseen, sig, resync, count, kept>>

\* Faulty: the answer counts although something newer was asked since.
CountsAlways == TRUE
Counts == poll.current

PollLands ==
  /\ poll.pc = "answer"
  /\ poll' = NoPoll
  /\ IF ~ Counts THEN UNCHANGED <<page, dirty, lock, gone, unseen, sig>>
     ELSE /\ unseen' = poll.since
          /\ IF poll.got = sig THEN UNCHANGED <<page, dirty, lock, gone, sig>>
             ELSE sig' = poll.got /\ Apply(poll.got)
  /\ UNCHANGED <<row, strays, del, resync, count, kept>>

PollFails ==
  /\ poll.pc # "no"
  /\ poll' = NoPoll
  /\ UNCHANGED <<row, page, dirty, lock, strays, gone, del, unseen, sig, resync, count, kept>>

-----------------------------------------------------------------------------
Saving == Saved \/ SaveGivenUp \/ SaveRefused
LockAnswer == LockAnswered \/ LockRefused \/ LockTimesOut
Deleting == Drained \/ DrainFails \/ DeleteLands \/ DeleteAnswered \/ DeleteFails
Resyncing == ResyncRead \/ ResyncLands \/ ResyncFails
Polling == PollBegins \/ PollRevision \/ PollRead \/ PollLands \/ PollFails

Next ==
  \/ Edit \/ Saving
  \/ AgentLocks \/ AgentDeletes \/ Restored \/ AgentMoves
  \/ \E b \in BOOLEAN : Toggle(b) \/ StrayLands(b)
  \/ SendLock \/ FlushFails \/ LockLands \/ LockAnswer
  \/ Delete \/ Deleting
  \/ Resyncing \/ Polling

Spec == Init /\ [][Next]_vars

\* Every request is answered or given up in the end. Polls may stop: the tab
\* may be hidden and the chat panel closed.
FairSpec ==
  /\ Spec
  /\ WF_vars(Saving)
  /\ WF_vars(SendLock) /\ WF_vars(FlushFails) /\ WF_vars(LockLands) /\ WF_vars(LockAnswer)
  /\ WF_vars(Deleting) /\ WF_vars(Resyncing)

-----------------------------------------------------------------------------
(* Properties.                                                              *)

\* Every variable has its type, and a layer that is not shown has no lock.
TypeOK ==
  /\ {row, view, sig, poll.got, resync.got, del.local} \subseteq Layers
  /\ view.there \/ view = Absent
  /\ node \in Geometry
  /\ dirty \in {"no", "saving", "failed"}
  /\ lock.pc \in {"idle", "flush", "persist"} /\ lock.target \in BOOLEAN
  /\ {lock.want, lock.intent} \subseteq Intents
  /\ lock.wire \in {"none", "sent", "done", "refused"}
  /\ strays \subseteq BOOLEAN /\ {gone, unseen, poll.current, poll.since} \subseteq BOOLEAN
  /\ del.pc \in {"no", "drain", "sent", "done", "refused", "recover"}
  /\ del.drained \in Geometry \cup {Unset}
  /\ poll.pc \in {"no", "revision", "full", "answer"}
  /\ resync.pc \in {"no", "sent", "read"}

\* A lock is sent only when the layer's geometry is saved: the server would
\* refuse the geometry afterwards, and the user's last move would be lost.
LockSentClean == lock.pc = "persist" /\ lock.target => dirty = "no"

\* From the toggle to its end the layer is shown locked, whatever snapshot
\* arrives in between: a layer in transition cannot be dragged.
TransitionsShowLocked == lock.pc # "idle" /\ view.there => view.locked

\* A lock the server has confirmed to the user stays shown as long as the row
\* is locked: no answer that was read before the lock can hide it.
ConfirmedLockShows == kept.lock /\ view.there => view.locked

\* A layer the server has told the user is deleted does not come back to the
\* page by an answer that was read before, unless somebody restores it.
DeletedStaysDeleted == kept.absence => ~ view.there

\* Geometry the user has not saved stays on the stage: no poll and no resync
\* moves it, unless the layer is gone or its write was refused.
UnsavedStays == [][dirty # "no" /\ dirty' # "no" /\ node' # node => count' # count]_vars

\* What the server told the user of stays on the page, and so does the lock that
\* he is waiting for.
WhatWasToldStays == TypeOK /\ TransitionsShowLocked /\ ConfirmedLockShows /\ DeletedStaysDeleted

\* The user's moves are neither refused by his own lock nor overwritten.
MovesAreKept == []LockSentClean /\ UnsavedStays

\* The newest toggle decides: when the controller comes to rest without a
\* failure, the page shows what the user asked for last.
LatestToggleWins ==
  [][lock.wire = "done" /\ count' = count /\ lock'.pc = "idle" /\ view'.there =>
     view'.locked = IF lock.want = Unset THEN lock.target ELSE lock.want]_vars

\* Every toggle and every deletion settles: neither leaves its barrier behind.
BarriersLift == []<>(lock.pc = "idle" /\ lock.want = Unset) /\ []<>(del.pc = "no")

\* What the user asks of a layer is done: toggles and deletions settle, and the
\* newest toggle decides.
IntentsSettle == LatestToggleWins /\ BarriersLift

\* Stated in use-canvas-authoritative-sync.ts of the resync: the UI never
\* drifts from storage. When a resync has landed and nothing is unsaved, the
\* stage draws the layer where the server has it.
ResyncRepairs ==
  [][resync.pc = "read" /\ resync'.pc = "no" /\ count' = count /\ dirty' = "no" /\ view'.there =>
     node' = resync.got.geo]_vars

=============================================================================
