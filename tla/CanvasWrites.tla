----------------------------- MODULE CanvasWrites -----------------------------
(***************************************************************************)
(* Saving the geometry of one canvas layer: edits, the debounce in front of *)
(* the layer's write queue, the queue (module LatestWriteQueue), the PATCH  *)
(* requests on their way to the private server, the ledger that says what   *)
(* is unsaved, and the exit that waits for all of it.                       *)
(*                                                                          *)
(*   components/canvas/use-canvas-persistence-coordinator.ts                *)
(*   components/canvas/canvas-write-ledger.ts                               *)
(*   app/api/canvas/sessions/[id]/layers/[layerId]/route.ts   (the server)  *)
(***************************************************************************)
EXTENDS LatestWriteQueue

CONSTANTS
  MaxFaults,    \* bound on failing requests
  MaxLocks,     \* bound on the times another client locks or unlocks the layer
  StraysAreQuick \* TRUE: a request given up is handled before the next, or never

ASSUME CanvasBounds == MaxFaults \in Nat /\ MaxLocks \in Nat /\ StraysAreQuick \in BOOLEAN

VARIABLES
  local,      \* the user's geometry: every edit that was not discarded
  edits,      \* edits so far
  debounced,  \* pendingPatchesRef: edits the debounce timer has not released
  dirty,      \* the ledger's mark that the layer is unsaved
  queue,      \* the layer's write queue
  wire,       \* the active request: "none", "sent", or "landed" on the server
  strays,     \* timed-out requests the server may still handle
  server,     \* the geometry in the layer's row
  locked,     \* the row's lock
  page,       \* "open", "gone" (unmounted), or the layer is "retired"
  exit,       \* leaving by the exit button: "no", "waiting" or "left"
  faults, locks

env == <<server, locked, locks>>
vars == <<local, edits, debounced, dirty, queue, wire, strays, server, locked,
          page, exit, faults, locks>>

Init ==
  /\ local = Nothing /\ server = Nothing
  /\ edits = 0
  /\ debounced = Nothing
  /\ dirty = FALSE
  /\ queue = NewQueue
  /\ wire = "none"
  /\ strays = {}
  /\ locked = FALSE
  /\ page = "open"
  /\ exit = "no"
  /\ faults = 0 /\ locks = 0

\* A request leaves with every attempt the queue starts.
Sends(q, given) ==
  /\ queue' = q
  /\ wire' = "sent"
  /\ strays' = IF StraysAreQuick THEN {} ELSE given

\* The queue is touched while its active write, if there is one, goes on ...
Queue(q) ==
  IF q.active = "writing" /\ queue.active # "writing"
  THEN Sends(q, strays)
  ELSE queue' = q /\ UNCHANGED <<wire, strays>>

\* ... or its active write has ended, and left requests behind.
NextAttempt(q, given) ==
  IF q.active = "writing"
  THEN Sends(q, given)
  ELSE queue' = q /\ wire' = "none" /\ strays' = given

Fault == faults < MaxFaults /\ faults' = faults + 1

-----------------------------------------------------------------------------
(* The user.                                                                *)

\* patchLayerGeometry.
Edit(f) ==
  /\ page = "open" /\ exit # "left" /\ edits < MaxEdits
  /\ edits' = edits + 1
  /\ local' = [local EXCEPT ![f] = edits + 1]
  /\ debounced' = [debounced EXCEPT ![f] = edits + 1]
  /\ dirty' = TRUE
  /\ UNCHANGED <<queue, wire, strays, env, page, exit, faults>>

\* What flushLayerPatch hands to the queue.
Released == IF debounced = Nothing THEN queue ELSE Enqueued(queue, debounced)

DebounceFires ==
  /\ page = "open" /\ debounced # Nothing
  /\ Queue(Released)
  /\ debounced' = Nothing
  /\ UNCHANGED <<local, edits, dirty, env, page, exit, faults>>

\* flushForExit: the debounce is skipped, and the queue is waited for.
ExitBegin ==
  /\ page = "open" /\ exit = "no"
  /\ Queue(Flushed(Released))
  /\ debounced' = Nothing
  /\ exit' = "waiting"
  /\ UNCHANGED <<local, edits, dirty, env, page, faults>>

\* Faulty: the ledger is not asked again when the flush is over.
SafeByFlush == queue.answer = "saved"
\* Navigation is safe when the flush succeeded and nothing is dirty by then.
Safe == queue.answer = "saved" /\ ~ dirty

ExitEnd ==
  /\ page = "open" /\ exit = "waiting" /\ queue.answer # "none"
  /\ exit' = IF Safe THEN "left" ELSE "no"
  /\ queue' = [queue EXCEPT !.answer = "none"]
  /\ UNCHANGED <<local, edits, debounced, dirty, wire, strays, env, page, faults>>

\* The page is unmounted, with or without an exit that waited.
Unmount ==
  /\ page = "open"
  /\ Queue(Closed(Released))
  /\ debounced' = Nothing
  /\ page' = "gone"
  /\ UNCHANGED <<local, edits, dirty, env, exit, faults>>

\* The server has proved the layer gone: retireLayers.
RetireLayer ==
  /\ page = "open"
  /\ debounced' = Nothing
  /\ dirty' = FALSE
  /\ Queue(Retired(queue))
  /\ page' = "retired"
  /\ UNCHANGED <<local, edits, env, exit, faults>>

-----------------------------------------------------------------------------
(* The queue's timers, its requests and their answers.                      *)

RetryFires ==
  /\ queue.timers > 0
  /\ Queue(TimerFired(queue))
  /\ UNCHANGED <<local, edits, debounced, dirty, env, page, exit, faults>>

LoopLeaves ==
  /\ queue.active = "leaving"
  /\ Queue(Left(queue))
  /\ UNCHANGED <<local, edits, debounced, dirty, env, page, exit, faults>>

\* The update, which requires that the layer is not locked.
WriteLands ==
  /\ wire = "sent" /\ ~ locked
  /\ server' = Merge(server, queue.current)
  /\ wire' = "landed"
  /\ UNCHANGED <<local, edits, debounced, dirty, queue, strays, locked, page, exit, faults, locks>>

\* Faulty: the layer is clean although the debounce holds a newer edit.
LatestSavedRegardless == queue.pending = Nothing /\ ~ queue.closed
\* onLatestSaved is called and finds no newer edit in the debounce.
LatestSaved == queue.pending = Nothing /\ ~ queue.closed /\ debounced = Nothing

ReplyOk ==
  /\ wire = "landed"
  /\ NextAttempt(Succeeded(queue), strays)
  /\ dirty' = (dirty /\ ~ LatestSaved)
  /\ UNCHANGED <<local, edits, debounced, env, page, exit, faults>>

\* An error status, or a connection lost before or after the row was updated.
ReplyError ==
  /\ wire \in {"sent", "landed"} /\ Fault
  /\ NextAttempt(Failed(queue), strays)
  /\ UNCHANGED <<local, edits, debounced, dirty, env, page, exit>>

\* writeTimeoutMs: the fetch is aborted; the server may not learn of it.
WriteTimesOut ==
  /\ wire \in {"sent", "landed"} /\ Fault
  /\ NextAttempt(Failed(queue), IF wire = "landed" THEN strays ELSE strays \cup {queue.current})
  /\ UNCHANGED <<local, edits, debounced, dirty, env, page, exit>>

StrayLands(v) ==
  /\ v \in strays
  /\ strays' = strays \ {v}
  /\ server' = IF locked THEN server ELSE Merge(server, v)
  /\ UNCHANGED <<local, edits, debounced, dirty, queue, wire, locked, page, exit, faults, locks>>

\* 409 for a locked layer. onExhausted discards the layer's unsaved geometry,
\* forgets the queue and takes the server's; CanvasSync has the resync itself.
ReplyLocked ==
  LET over == Left(Rejected(queue))
  IN
  /\ wire = "sent" /\ locked
  /\ wire' = "none"
  /\ IF queue.closed
     THEN queue' = over /\ UNCHANGED <<local, debounced, dirty>>
     ELSE /\ queue' = [NewQueue EXCEPT !.answer = over.answer]
          /\ debounced' = Nothing
          /\ dirty' = FALSE
          /\ local' = server
  /\ UNCHANGED <<edits, strays, env, page, exit, faults>>

\* Another client, or the agent, locks or unlocks the layer.
ToggleLock ==
  /\ locks < MaxLocks
  /\ locks' = locks + 1
  /\ locked' = ~ locked
  /\ UNCHANGED <<local, edits, debounced, dirty, queue, wire, strays, server, page, exit, faults>>

Answer == ReplyOk \/ ReplyError \/ WriteTimesOut \/ ReplyLocked

Next ==
  \/ \E f \in Fields : Edit(f)
  \/ DebounceFires \/ ExitBegin \/ ExitEnd \/ Unmount \/ RetireLayer
  \/ RetryFires \/ LoopLeaves \/ WriteLands \/ Answer
  \/ \E v \in strays : StrayLands(v)
  \/ ToggleLock

Spec == Init /\ [][Next]_vars

\* Timers fire, promises settle, and every request is answered or times out.
FairSpec ==
  /\ Spec
  /\ WF_vars(DebounceFires) /\ WF_vars(ExitEnd)
  /\ WF_vars(RetryFires) /\ WF_vars(LoopLeaves)
  /\ WF_vars(WriteLands) /\ WF_vars(Answer)

-----------------------------------------------------------------------------
(* Properties.                                                              *)

\* Every variable has its type; failed attempts stay within the retry budget.
TypeOK ==
  /\ local \in Values /\ server \in Values /\ debounced \in Values
  /\ edits \in 0 .. MaxEdits
  /\ dirty \in BOOLEAN /\ locked \in BOOLEAN
  /\ QueueTypeOK(queue)
  /\ wire \in {"none", "sent", "landed"}
  /\ strays \subseteq Values
  /\ page \in {"open", "gone", "retired"}
  /\ exit \in {"no", "waiting", "left"}
  /\ faults \in 0 .. MaxFaults /\ locks \in 0 .. MaxLocks

\* A layer the ledger calls clean is saved: the user's geometry is in the row.
\* The "Saved" badge, the poll that may overwrite local geometry and the
\* window-close guard all rely on it.
CleanMeansSaved == page = "open" /\ ~ dirty => server = local

\* The ledger's count of requests in flight is the number there are: one while
\* an announced write is active, none otherwise, retirement included.
InFlightIsBalanced ==
  page # "gone" =>
    queue.inFlight = IF queue.active = "writing" /\ queue.notified THEN 1 ELSE 0

\* An owner that goes away without waiting leaves nothing behind: when its
\* queue is idle the last edit is in the row, or its last attempt has failed.
CloseDeliversTheLast ==
  page = "gone" /\ queue.active = "no" /\ ~ queue.terminal => server = local

\* The queue keeps its books through retirement, rejection and closing: what is
\* in flight is counted once, and an owner that goes away leaves the last edit
\* in the row or a last attempt that failed.
QueueKeepsItsBooks == TypeOK /\ InFlightIsBalanced /\ CloseDeliversTheLast

\* An exit that says navigation is safe is right, if nobody edits meanwhile.
ExitMeansSaved == [][exit = "waiting" /\ exit' = "left" => server = local]_vars

\* Whatever the user is told is saved, by the badge or by an exit, is saved.
SavedMeansSaved == []CleanMeansSaved /\ ExitMeansSaved

\* A slower, older request never lands after a newer state.
NoLateOverwrite == [][\A f \in Fields : server'[f] >= server[f]]_vars

\* Every edit of an open page is saved, discarded by a lock, or given up with
\* an error that the user sees.
EditsSettle == dirty /\ page = "open" ~> ~ dirty \/ queue.paused \/ page # "open"

\* Stated in latest-write-queue.ts: a flush resolves once pending writes and
\* bounded retries settle.
FlushResolves == exit = "waiting" ~> exit # "waiting" \/ page # "open"

=============================================================================
