--------------------------- MODULE LatestWriteQueue ---------------------------
(***************************************************************************)
(* createLatestWriteQueue (components/canvas/latest-write-queue.ts): one    *)
(* write at a time, later values coalesced, bounded retries, a flush to     *)
(* wait for, and two ways to end. Every operator is one synchronous piece   *)
(* of the queue's code: it takes the closure's variables as a record and    *)
(* returns them as the code leaves them.                                    *)
(***************************************************************************)
EXTENDS Integers

CONSTANTS
  Fields,      \* the fields of a value: x, y, width, ...
  MaxEdits,    \* bound on edits; an edit is known by its number
  MaxRetries   \* maxRetries

ASSUME QueueBounds == MaxEdits \in Nat /\ MaxRetries \in Nat

\* A value says which edit each field comes from; 0 where it has no such field.
Values == [Fields -> 0 .. MaxEdits]
Nothing == [f \in Fields |-> 0]

\* mergePending of a layer's geometry: newer fields win, older ones stay.
Merge(older, newer) == [f \in Fields |-> IF newer[f] # 0 THEN newer[f] ELSE older[f]]

NewQueue ==
  [pending |-> Nothing,
   active |-> "no",         \* "writing", then "leaving" until .finally has run
   current |-> Nothing,     \* what is being written
   notified |-> FALSE,      \* onStart was called for it
   retry |-> FALSE,         \* retryTimer is set
   timers |-> 0,            \* retry timers that will still fire
   attempts |-> 0,          \* failedAttempts
   paused |-> FALSE, closed |-> FALSE, retired |-> FALSE, terminal |-> FALSE,
   waiting |-> FALSE,       \* somebody awaits a flush
   answer |-> "none",       \* what the last flush resolved to
   inFlight |-> 0]          \* calls of onStart that onSettled has not matched

QueueTypeOK(q) ==
  /\ q.pending \in Values /\ q.current \in Values
  /\ q.active \in {"no", "writing", "leaving"}
  /\ q.timers \in 0 .. MaxRetries + 2
  /\ q.attempts \in 0 .. (IF q.closed THEN MaxRetries + 3 ELSE MaxRetries + 1)
  /\ \A b \in {"notified", "retry", "paused", "closed", "retired", "terminal", "waiting"} :
       q[b] \in BOOLEAN
  /\ q.answer \in {"none", "saved", "failed"}
  /\ q.inFlight \in 0 .. 1

\* The body of the loop up to its first await.
Started(q) ==
  [q EXCEPT !.active = "writing", !.current = q.pending, !.pending = Nothing,
            !.notified = ~ q.closed,
            !.inFlight = IF q.closed THEN @ ELSE @ + 1]

Drained(q) ==
  IF q.active = "no" /\ q.pending # Nothing /\ ~ q.paused THEN Started(q) ELSE q

IdleAnswer(q) == IF q.terminal THEN "failed" ELSE "saved"

\* resolveIdleWaiters.
Resolved(q) ==
  IF q.waiting /\ q.active = "no" /\ ~ q.retry /\ (q.pending = Nothing \/ q.paused)
  THEN [q EXCEPT !.waiting = FALSE, !.answer = IdleAnswer(q)]
  ELSE q

\* clearTimeout, when there is a timer to clear.
TimerCleared(q) ==
  [q EXCEPT !.retry = FALSE, !.timers = IF q.retry THEN @ - 1 ELSE @]

Enqueued(q, value) ==
  IF q.closed THEN q
  ELSE Drained(TimerCleared([q EXCEPT !.terminal = FALSE, !.pending = Merge(@, value)]))

\* A flush gives a paused queue new attempts. It does not clear the timer.
Flushed(q) ==
  LET revived == IF q.paused /\ q.pending # Nothing
                 THEN [q EXCEPT !.paused = FALSE, !.attempts = 0, !.terminal = FALSE]
                 ELSE q
      r == Drained(revived)
  IN IF r.active = "no" /\ (r.pending = Nothing \/ r.paused) /\ ~ r.retry
     THEN [r EXCEPT !.answer = IdleAnswer(r)]
     ELSE [r EXCEPT !.waiting = TRUE]

TimerFired(q) == Drained([q EXCEPT !.retry = FALSE, !.timers = @ - 1])

\* Faulty: the count of a retired write is never given back.
SettledUnlessClosed(q) ==
  IF q.notified /\ ~ q.closed THEN [q EXCEPT !.inFlight = @ - 1] ELSE q
\* onSettled is called for a write that was announced, unless the owner is gone.
Settled(q) ==
  IF q.notified /\ (~ q.closed \/ q.retired) THEN [q EXCEPT !.inFlight = @ - 1] ELSE q

\* After the try block: the next value of the loop, or out of it.
Looped(q) == IF q.pending # Nothing THEN Started(q) ELSE [q EXCEPT !.active = "leaving"]

Succeeded(q) == Looped(Settled([q EXCEPT !.attempts = 0, !.terminal = FALSE]))

\* Faulty: the value whose write has failed is not kept.
FailedDropping(q) ==
  [Settled([q EXCEPT !.attempts = @ + 1]) EXCEPT !.active = "leaving"]
\* Faulty: there is no end to the retries.
FailedEndlessly(q) ==
  [Settled([q EXCEPT !.pending = Merge(q.current, q.pending), !.attempts = @ + 1])
   EXCEPT !.active = "leaving", !.retry = TRUE, !.timers = @ + 1]
\* An error that may be retried: the failed value and a newer one are merged.
Failed(q) ==
  LET kept == [q EXCEPT !.pending = Merge(q.current, q.pending), !.attempts = @ + 1]
      left(r) == [Settled(r) EXCEPT !.active = "leaving"]
  IN CASE q.closed /\ q.pending # Nothing -> Looped(Settled([kept EXCEPT !.paused = FALSE]))
       [] ~ q.closed /\ kept.attempts <= MaxRetries ->
            left([kept EXCEPT !.retry = TRUE, !.timers = @ + 1])
       [] OTHER ->
            left([kept EXCEPT !.paused = TRUE, !.terminal = TRUE,
                              !.pending = IF q.closed THEN Nothing ELSE @])

\* An error that may not: what is pending is dropped with it.
Rejected(q) ==
  [Settled([q EXCEPT !.pending = Nothing, !.attempts = MaxRetries + 1,
                     !.paused = TRUE, !.terminal = TRUE])
   EXCEPT !.active = "leaving"]

\* The .finally of the loop.
Left(q) ==
  LET idle == [q EXCEPT !.active = "no", !.current = Nothing, !.notified = FALSE]
  IN Resolved(IF idle.retry THEN idle ELSE Drained(idle))

Retired(q) ==
  IF q.closed THEN q
  ELSE Resolved(TimerCleared([q EXCEPT !.closed = TRUE, !.retired = TRUE,
                                       !.pending = Nothing, !.paused = TRUE]))

\* Faulty: what is pending is not written when the owner closes the queue.
ClosedUndrained(q) ==
  IF q.closed THEN q
  ELSE Resolved(TimerCleared([q EXCEPT !.closed = TRUE, !.attempts = MaxRetries + 1]))
\* The one latest value gets a last attempt, at once or after the active write.
Closed(q) ==
  IF q.closed THEN q
  ELSE Resolved(Drained(TimerCleared([q EXCEPT !.closed = TRUE,
                                               !.attempts = MaxRetries + 1,
                                               !.paused = FALSE])))

=============================================================================
