------------------------------- MODULE SdEngine -------------------------------
(***************************************************************************)
(* Local image generation by one sd-cli process at a time (engine_sd.rs),  *)
(* with the requests of the private server that drive it: generate, cancel *)
(* (lib/server/local-sd.ts), report (lib/server/sd-progress.ts), stop, and *)
(* the deletion of a model file (the models/[modelId] route).              *)
(*                                                                         *)
(* Every request is a thread of the bridge.  What happens under the spawn  *)
(* gate is one action; the poll loop of a run works outside the gate.      *)
(***************************************************************************)
EXTENDS Integers, Sequences, FiniteSets, SequencesExt

CONSTANTS Runs, Models, NoRun, NoModel,
          ModelOf,       \* the model each run asks for
          Images,        \* images of a batch
          MaxPending,    \* MAX_PENDING_CANCELS, 64 in the code
          MaxStops       \* bound on the stop requests of one execution

ASSUME ModelOfRuns == ModelOf \in [Runs -> Models]
ASSUME SdBounds == Images \in Nat /\ MaxPending \in Nat \ {0} /\ MaxStops \in Nat
ASSUME NullsAreNoValues == NoRun \notin Runs /\ NoModel \notin Models

VARIABLES
  epoch, cancelFlag, pending,         \* SD_RUNTIME_EPOCH, SD_CANCEL, SD_PENDING_CANCELS
  progress,                           \* SD_PROGRESS: a run and its phase
  child, exit, procs,                 \* the slot, how its process ended, live processes
  lock,                               \* the run that holds SD_GENERATE_LOCK
  active, deleting,                   \* SdModelState: active path, delete leases by step
  pc, captured, left, success, canceled, answer,   \* of each generate request
  client,         \* what its route does: "told" when its report has ended the progress
  named,          \* history: runs that a cancel named or a stop found on their way
  late,           \* history: runs a cancel named after their own route had ended them
  stops           \* bound: stop requests so far

engineVars == <<epoch, cancelFlag, pending, progress, child, exit, procs>>
modelVars == <<active, deleting>>
runVars == <<lock, pc, captured, left, success, canceled, answer>>
boundVars == <<named, late, stops>>
vars == <<engineVars, modelVars, runVars, client, boundVars>>

Terminal == {"completed", "canceled", "failed"}
Phases == Terminal \cup {"working", "finalizing"}   \* "working": Preparing, Sampling

TypeOK ==
  /\ epoch \in Nat /\ cancelFlag \in BOOLEAN
  /\ pending \in Seq(Runs) /\ Len(pending) <= MaxPending
  /\ progress \in [run : Runs \cup {NoRun}, phase : Phases]
  /\ child \in Runs \cup {NoRun} /\ procs \subseteq Runs
  /\ exit \in {"none", "ok", "bad"}
  /\ lock \in Runs \cup {NoRun}
  /\ active \in Models \cup {NoModel}
  /\ deleting \in [Models -> {"no", "leased", "stop", "waiting", "clear"}]
  /\ pc \in [Runs -> {"idle", "queued", "begin", "register", "image", "poll", "end", "answered"}]
  /\ captured \in [Runs -> Nat] /\ left \in [Runs -> 0 .. Images]
  /\ success \in [Runs -> BOOLEAN] /\ canceled \in [Runs -> BOOLEAN]
  /\ answer \in [Runs -> {"none", "images", "failed", "canceled", "refused"}]
  /\ client \in [Runs -> {"none", "waiting", "told", "silent"}]
  /\ named \subseteq Runs /\ late \subseteq Runs /\ stops \in 0 .. MaxStops

Init ==
  /\ epoch = 0 /\ cancelFlag = FALSE /\ pending = <<>>
  /\ progress = [run |-> NoRun, phase |-> "completed"]
  /\ child = NoRun /\ exit = "none" /\ procs = {}
  /\ lock = NoRun /\ active = NoModel
  /\ deleting = [m \in Models |-> "no"]
  /\ pc = [r \in Runs |-> "idle"]
  /\ captured = [r \in Runs |-> 0] /\ left = [r \in Runs |-> Images]
  /\ success = [r \in Runs |-> FALSE] /\ canceled = [r \in Runs |-> FALSE]
  /\ answer = [r \in Runs |-> "none"] /\ client = [r \in Runs |-> "none"]
  /\ named = {} /\ late = {} /\ stops = 0

-----------------------------------------------------------------------------
(* Helpers.                                                                *)

Goto(r, from, to) == pc[r] = from /\ pc' = [pc EXCEPT ![r] = to]

\* Faulty variant: any phase may be overwritten.
Overwritten(r, phase) == IF progress.run = r THEN [progress EXCEPT !.phase = phase] ELSE progress

\* set_sd_phase and set_sd_image_phase: only of this run, and never out of a
\* terminal phase.
WithPhase(r, phase) ==
  IF progress.run = r /\ progress.phase \notin Terminal
  THEN [progress EXCEPT !.phase = phase] ELSE progress

\* sd_may_spawn.
MaySpawn(r) == captured[r] = epoch /\ ~ cancelFlag

\* stop_sd_child: killed and reaped, the slot emptied.
StopChild == procs' = procs \ {child} /\ child' = NoRun /\ exit' = "none"

KeepChild == UNCHANGED <<child, exit, procs>>

\* Faulty variant: the generate lock is kept.
AnswerLocked(r, result) ==
  /\ pc' = [pc EXCEPT ![r] = "answered"]
  /\ answer' = [answer EXCEPT ![r] = result]
  /\ active' = NoModel /\ UNCHANGED lock

\* The generate guard and the active-model guard are dropped with the answer.
Answer(r, result) ==
  /\ pc' = [pc EXCEPT ![r] = "answered"]
  /\ answer' = [answer EXCEPT ![r] = result]
  /\ lock' = NoRun /\ active' = NoModel

-----------------------------------------------------------------------------
(* bridge_sd_generate.                                                     *)

\* The epoch is captured before the run waits for the lock.
Request(r) ==
  /\ Goto(r, "idle", "queued")
  /\ captured' = [captured EXCEPT ![r] = epoch]
  /\ client' = [client EXCEPT ![r] = "waiting"]
  /\ UNCHANGED <<engineVars, modelVars, lock, left, success, canceled, answer, boundVars>>

\* Faulty variant: the delete leases are not asked.
UsableAlways(m) == TRUE

Usable(m) == deleting[m] = "no"

\* Faulty variant: batches are not serialised.
LockIgnored == TRUE

LockFree == lock = NoRun

\* The generate lock, then ActiveSdModelGuard::set.
Admit(r) ==
  /\ LockFree
  /\ \/ /\ Usable(ModelOf[r])
        /\ Goto(r, "queued", "begin")
        /\ lock' = r /\ active' = ModelOf[r] /\ UNCHANGED answer
     \/ /\ ~ Usable(ModelOf[r])
        /\ Goto(r, "queued", "answered")
        /\ answer' = [answer EXCEPT ![r] = "refused"] /\ UNCHANGED <<lock, active>>
  /\ UNCHANGED <<engineVars, deleting, captured, left, success, canceled, client, boundVars>>

\* Faulty variant: a cancel that came first is not looked up.
NeverPending(r) == FALSE

WasCanceled(r) == r \in Range(pending)

\* take_pending_cancel removes the run at its position.
Position(r) == CHOOSE i \in 1 .. Len(pending) : pending[i] = r
Remembered(r) == IF WasCanceled(r) THEN RemoveAt(pending, Position(r)) ELSE pending

\* begin_sd_run: a stop since the capture wins over everything; otherwise the
\* flag and the progress are those of this run, and a pending cancel is taken.
Begin(r) ==
  /\ pc[r] = "begin"
  /\ IF captured[r] # epoch
     THEN Answer(r, "canceled") /\ UNCHANGED <<cancelFlag, pending, progress>>
     ELSE /\ pending' = Remembered(r)
          /\ cancelFlag' = WasCanceled(r)
          /\ progress' = [run |-> r, phase |-> IF WasCanceled(r) THEN "canceled" ELSE "working"]
          /\ IF WasCanceled(r) THEN Answer(r, "canceled")
             ELSE pc' = [pc EXCEPT ![r] = "register"] /\ UNCHANGED <<answer, lock, active>>
  /\ KeepChild
  /\ UNCHANGED <<epoch, deleting, captured, left, success, canceled, client, boundVars>>

\* The epoch once more, and room for the model in the VRAM budget.
Register(r) ==
  /\ pc[r] = "register"
  /\ IF captured[r] # epoch
     THEN Answer(r, "canceled") /\ progress' = WithPhase(r, "canceled")
     ELSE /\ \/ Answer(r, "refused")
             \/ pc' = [pc EXCEPT ![r] = "image"] /\ UNCHANGED <<answer, lock, active>>
          /\ UNCHANGED progress
  /\ KeepChild
  /\ UNCHANGED <<epoch, cancelFlag, pending, deleting, captured, left, success, canceled, client, boundVars>>

\* Faulty variant: one image too many.
MoreToDoOffByOne(r) == left[r] >= 0

MoreToDo(r) == left[r] > 0

\* One image: the decision and the spawn under the gate.  The output may be
\* refused and the spawn may fail; both cost one image.
Image(r) ==
  /\ pc[r] = "image"
  /\ IF ~ MoreToDo(r) \/ ~ MaySpawn(r)
     THEN /\ pc' = [pc EXCEPT ![r] = "end"]
          /\ canceled' = [canceled EXCEPT ![r] = MoreToDo(r)]
          /\ KeepChild /\ UNCHANGED <<left, progress>>
     ELSE /\ progress' = WithPhase(r, "working")
          /\ left' = [left EXCEPT ![r] = @ - 1]
          /\ \/ KeepChild /\ UNCHANGED pc
             \/ /\ child' = r /\ procs' = procs \cup {r} /\ exit' = "none"
                /\ pc' = [pc EXCEPT ![r] = "poll"]
          /\ UNCHANGED canceled
  /\ UNCHANGED <<epoch, cancelFlag, pending, modelVars, lock, captured, success, answer, client, boundVars>>

\* After the loop the flag is looked at again: a canceled run stops here.
Settle(r, made) ==
  /\ canceled' = [canceled EXCEPT ![r] = cancelFlag]
  /\ pc' = [pc EXCEPT ![r] = IF cancelFlag THEN "end" ELSE "image"]
  /\ success' = [success EXCEPT ![r] = @ \/ made]
  /\ progress' = IF made THEN WithPhase(r, "finalizing") ELSE progress

\* The poll loop: cancellation first, then the end of the process, then time.  The
\* exits on an error of try_wait or on a poisoned lock are left out.
Poll(r) ==
  /\ pc[r] = "poll"
  /\ \/ cancelFlag /\ StopChild /\ Settle(r, FALSE)
     \/ ~ cancelFlag /\ child = NoRun /\ KeepChild /\ Settle(r, FALSE)
     \/ /\ ~ cancelFlag /\ child # NoRun /\ exit # "none" /\ StopChild
        /\ \E verified \in BOOLEAN : Settle(r, exit = "ok" /\ verified)
     \/ ~ cancelFlag /\ child # NoRun /\ StopChild /\ Settle(r, FALSE)
  /\ UNCHANGED <<epoch, cancelFlag, pending, modelVars, lock, captured, left, answer, client, boundVars>>

\* The process ends by itself.
ProcessEnds(r) ==
  /\ r \in procs /\ procs' = procs \ {r}
  /\ exit' \in {"ok", "bad"}
  /\ UNCHANGED <<epoch, cancelFlag, pending, progress, child, modelVars, runVars, client, boundVars>>

End(r) ==
  /\ pc[r] = "end"
  /\ progress' = WithPhase(r, IF canceled[r] THEN "canceled"
                              ELSE IF success[r] THEN "finalizing" ELSE "failed")
  /\ Answer(r, IF canceled[r] THEN "canceled" ELSE IF success[r] THEN "images" ELSE "failed")
  /\ KeepChild
  /\ UNCHANGED <<epoch, cancelFlag, pending, deleting, captured, left, success, canceled, client, boundVars>>

\* The images route reports how the request ended (finishSdProgress).  It fails
\* a run whose answer it has lost, or that the user aborted, while the run goes
\* on; one that got images may still fail to store them.
Outcomes(r) ==
  {"failed", "canceled"} \cup {p \in {"completed"} : pc[r] = "answered" /\ answer[r] = "images"}

\* A report ends the progress of its run, unless that has ended before.
Ends(r) == progress.run = r /\ progress.phase \notin Terminal

\* The report is one attempt of two seconds, and may be lost.
Report(r) ==
  /\ client[r] = "waiting"
  /\ \/ UNCHANGED progress /\ client' = [client EXCEPT ![r] = "silent"]
     \/ /\ \E phase \in Outcomes(r) : progress' = WithPhase(r, phase)
        /\ client' = [client EXCEPT ![r] = IF Ends(r) THEN "told" ELSE "silent"]
  /\ KeepChild
  /\ UNCHANGED <<epoch, cancelFlag, pending, modelVars, runVars, boundVars>>

-----------------------------------------------------------------------------
(* Cancel and stop, each one critical section of the spawn gate.           *)

Revoke == epoch' = epoch + 1 /\ cancelFlag' = TRUE

\* A cancel that finds its run ended by the report of the run's own route.
TooLate(r) == progress.run = r /\ progress.phase \in Terminal /\ client[r] = "told"

\* bridge_cancel_sd: a run on its way is stopped, a run nobody knows yet is
\* remembered, and the oldest of too many is forgotten; a run whose phase is
\* final is left alone.
Cancel(r) ==
  /\ r \notin named \cup late
  /\ named' = IF TooLate(r) THEN named ELSE named \cup {r}
  /\ late' = IF TooLate(r) THEN late \cup {r} ELSE late
  /\ IF progress.run = r
     THEN IF progress.phase \in Terminal
          THEN UNCHANGED engineVars
          ELSE Revoke /\ progress' = WithPhase(r, "canceled") /\ StopChild /\ UNCHANGED pending
     ELSE /\ pending' = IF r \in Range(pending) THEN pending
                        ELSE Append(IF Len(pending) = MaxPending THEN Tail(pending) ELSE pending, r)
          /\ UNCHANGED <<epoch, cancelFlag, progress>> /\ KeepChild
  /\ UNCHANGED <<modelVars, runVars, client, stops>>

\* bridge_stop_sd.
StopSd ==
  /\ Revoke /\ progress' = WithPhase(progress.run, "canceled") /\ StopChild
  /\ UNCHANGED pending

\* What a stop finds on its way is meant by it.
NamesAll == named' = named \cup {r \in Runs : pc[r] # "idle"} /\ UNCHANGED late

\* Reset of the profile or end of the application.
Stop ==
  /\ stops < MaxStops /\ stops' = stops + 1
  /\ StopSd /\ NamesAll
  /\ UNCHANGED <<modelVars, runVars, client>>

-----------------------------------------------------------------------------
(* Deletion of a model: lease, status, stop if it is the active one, wait. *)

Deletion(m, from, to) == deleting[m] = from /\ deleting' = [deleting EXCEPT ![m] = to]

\* /sd-delete-lease-acquire, and /sd-status.
Lease(m) ==
  /\ \/ Deletion(m, "no", "leased")
     \/ Deletion(m, "leased", "stop") /\ active = m
     \/ Deletion(m, "leased", "clear") /\ active # m
  /\ UNCHANGED <<engineVars, active, runVars, client, boundVars>>

\* bridge_stop_sd_if_model_path: "stopped: false" fails the deletion.
StopModel(m) ==
  /\ \/ /\ Deletion(m, "stop", "waiting") /\ active = m /\ StopSd /\ NamesAll
        /\ stops < MaxStops /\ stops' = stops + 1
     \/ Deletion(m, "stop", "no") /\ active # m /\ UNCHANGED <<engineVars, boundVars>>
     \/ Deletion(m, "waiting", "clear") /\ active # m /\ UNCHANGED <<engineVars, boundVars>>
     \/ Deletion(m, "waiting", "no") /\ UNCHANGED <<engineVars, boundVars>>
  /\ UNCHANGED <<active, runVars, client>>

\* The files are gone and the lease is released.  Its time-out of 60 s is not
\* modelled: the models/[modelId] route renews it as long as it works.
Release(m) ==
  /\ Deletion(m, "clear", "no")
  /\ UNCHANGED <<engineVars, active, runVars, client, boundVars>>

RunStep(r) ==
  \/ Admit(r) \/ Begin(r) \/ Register(r) \/ Image(r) \/ Poll(r) \/ End(r)

Next ==
  \/ \E r \in Runs : Request(r) \/ RunStep(r) \/ ProcessEnds(r) \/ Report(r) \/ Cancel(r)
  \/ Stop
  \/ \E m \in Models : Lease(m) \/ StopModel(m) \/ Release(m)

Spec == Init /\ [][Next]_vars

\* Threads are scheduled, the poll loop has a deadline, and a route that waits for
\* an answer gets it or gives up, and reports.
FairSpec == Spec /\ \A r \in Runs : WF_vars(RunStep(r)) /\ WF_vars(Report(r))

-----------------------------------------------------------------------------
(* Properties.                                                             *)

\* No sd-cli process is lost: a live one is in the slot, where cancel, stop and
\* the deadline can reach it (generate lock, spawn gate, stop_sd_child).
NoProcessIsLost == procs \subseteq {child}

\* A run that a cancel named or a stop found on its way starts no process
\* afterwards, in whichever order the request, the lock, the cancel, the report
\* and the spawn meet (bridge_cancel_sd and queue_pending_cancel against
\* begin_sd_run and the gated spawn).  Only a cancel that comes after the run's
\* own route has reported its end does nothing.
CanceledNeverSpawns ==
  [][\A r \in Runs : r \in procs' \ procs => r \notin named]_vars

\* A final phase of a run is final, whoever reports late (set_sd_phase).
FinalPhaseSticks ==
  [][progress.run = progress'.run /\ progress.phase \in Terminal => progress' = progress]_vars

\* While its files are being deleted no process reads the model: the lease keeps
\* new runs out and the stop has waited for the old one (SdModelState).
DeletedModelIsUnused ==
  \A m \in Models : deleting[m] = "clear" => \A r \in procs : ModelOf[r] # m

\* The one process is in the slot, and it does not read files that are deleted.
ProcessIsInHand == TypeOK /\ NoProcessIsLost /\ DeletedModelIsUnused

\* A canceled run stays canceled: it starts nothing, and no late report changes
\* the phase in which it ended.
CancelIsFinal == CanceledNeverSpawns /\ FinalPhaseSticks

\* Every request is answered and its route has tried to report it, so the
\* generate lock is never kept.
EveryRunFinishes ==
  \A r \in Runs : pc[r] = "queued" ~> pc[r] = "answered" /\ client[r] # "waiting"

\* Only runs that a cancel named or a stop found on their way are canceled: a
\* cancel is isolated to the matching run (bridge_cancel_sd).
CancelIsIsolated == \A r \in Runs : answer[r] = "canceled" => r \in named

\* Stated at bridge_cancel_sd: a cancel stops the matching run.  Does it also
\* stop a run whose route has lost the answer and reported a failure?
EveryCancelStops == [][\A r \in Runs : r \in procs' \ procs => r \notin late]_vars

=============================================================================
