--------------------------- MODULE ResidentEngines ---------------------------
(***************************************************************************)
(* One resident native engine process of the desktop shell: the shared     *)
(* EngineLifecycle (engine_lifecycle.rs) with either of its two users,     *)
(* llama.cpp (engine_llama.rs: a start waits for readiness) and MLX        *)
(* (engine_mlx.rs: a start answers at once and a worker waits), and the    *)
(* registrations both keep in the VRAM manager (model_residency.rs).       *)
(*                                                                         *)
(* A start or a stop is a request on a bridge thread of its own; threads   *)
(* interleave wherever no lock is held.  A start, its process, its         *)
(* registration and its workers are all named by the epoch it was given.   *)
(***************************************************************************)
EXTENDS Integers, FiniteSets

CONSTANTS Models, Starters, Stoppers, NoModel, NoThread,
          MaxEpoch     \* bound on the generations of one execution

ASSUME EpochBound == MaxEpoch \in Nat
ASSUME RequestsAreApart == Starters \cap Stoppers = {} /\ NoThread \notin Starters

VARIABLES
  engine,        \* "llama" or "mlx": whose EngineLifecycle this is
  epoch, child, registration, listed, pid, startLock,   \* EngineLifecycle
  registered,    \* generations in the slots of the ResidencyManager
  modelOf,       \* the model each generation was started for
  procs,         \* engine processes that are alive
  info,          \* LLAMA_ENGINE_INFO or MLX_ENGINE_INFO: the announced model
  job,           \* MLX_JOB: the model of the activation that is reported
  deleting,      \* models under a delete lease (llama only)
  pc, mine, taken, joins,     \* of each thread
  worker         \* of each generation: its exit and readiness workers

lifecycleVars == <<epoch, child, registration, listed, pid, startLock>>
worldVars == <<engine, registered, modelOf, procs, info, job, deleting>>
threadVars == <<pc, mine, taken, joins, worker>>
vars == <<lifecycleVars, worldVars, threadVars>>

Threads == Starters \cup Stoppers
Epochs == 1 .. 2 * MaxEpoch       \* requests, and exits that claim a generation
None == 0                          \* no generation: an empty Option
Workers == Epochs \X {"exit", "ready"}

TypeOK ==
  /\ engine \in {"llama", "mlx"}
  /\ epoch \in Epochs \cup {None}
  /\ {child, registration, pid} \subseteq Epochs \cup {None}
  /\ listed \subseteq Workers
  /\ startLock \in Starters \cup {NoThread}
  /\ registered \subseteq Epochs /\ procs \subseteq Epochs
  /\ modelOf \in [Epochs -> Models \cup {NoModel}]
  /\ {info, job} \subseteq Models \cup {NoModel}
  /\ deleting \subseteq Models
  /\ pc \in [Threads -> {"idle", "take", "kill", "drop", "vec", "join", "forget", "register",
                         "spawn", "install", "ready", "publish", "commit", "readiness",
                         "monitor", "timedOut", "clear", "undoKill", "undoSlot", "undoPid"}]
  /\ mine \in [Threads -> Epochs \cup {None}]
  /\ taken \in [Threads -> Epochs \cup {None}]
  /\ joins \in [Threads -> SUBSET Workers]
  /\ worker \in [Workers -> {"none", "wait", "look", "publish", "bump", "undoKill", "undoSlot",
                             "undoPid", "callback", "done"}]

Init ==
  /\ engine \in {"llama", "mlx"}
  /\ epoch = 0 /\ child = None /\ registration = None /\ listed = {} /\ pid = None
  /\ startLock = NoThread
  /\ registered = {} /\ procs = {} /\ modelOf = [e \in Epochs |-> NoModel]
  /\ info = NoModel /\ job = NoModel /\ deleting = {}
  /\ pc = [t \in Threads |-> "idle"]
  /\ mine = [t \in Threads |-> None] /\ taken = [t \in Threads |-> None]
  /\ joins = [t \in Threads |-> {}]
  /\ worker = [w \in Workers |-> "none"]

-----------------------------------------------------------------------------
(* Helpers.                                                                *)

At(t, here) == pc[t] = here
Goto(t, there) == pc' = [pc EXCEPT ![t] = there]
Step(w, from, to) == worker[w] = from /\ worker' = [worker EXCEPT ![w] = to]

\* The generation of a thread or worker is still the one that owns the engine.
Current(e) == epoch = e

\* Faulty variant: nobody asks whether the generation was superseded.
AlwaysCurrent(e) == TRUE

\* install_child asks it under the lock of the child slot.
CurrentAtInstall(e) == Current(e)

\* The model a start was asked for is kept with its generation.
ModelOfThread(t) == modelOf[mine[t]]

\* The slot holds a registration of this model id (not: of this generation).
SlotHas(m) == registration # None /\ modelOf[registration] = m

\* Faulty variant: the drop registers the generation again.
RegisterAgain(e) == registered' = registered \cup {e}

\* PersistentRegistration::drop, for a generation or for None.
Unregister(e) == registered' = registered \ {e}

\* A start returns: its local registration, the model start guard and the
\* start guard are dropped.
StartReturns(t) ==
  /\ Goto(t, "idle")
  /\ startLock' = NoThread

\* kill and wait; the slot is emptied under the same lock.
ReapChild == procs' = procs \ {child} /\ child' = None

-----------------------------------------------------------------------------
(* EngineLifecycle::stop and prepare_start: the same steps after the new   *)
(* epoch, for a stop request and for a start that replaces an engine.      *)

\* Bounded by MaxEpoch: that many requests in one execution.
NewEpoch(t) ==
  /\ epoch < MaxEpoch
  /\ epoch' = epoch + 1
  /\ mine' = [mine EXCEPT ![t] = epoch + 1]
  /\ Goto(t, "take")

Stop(t) ==
  /\ t \in Stoppers /\ At(t, "idle")
  /\ NewEpoch(t)
  /\ UNCHANGED <<child, registration, listed, pid, startLock, worldVars, taken, joins, worker>>

TakeRegistration(t) ==
  /\ At(t, "take") /\ Goto(t, "kill")
  /\ taken' = [taken EXCEPT ![t] = registration]
  /\ registration' = None
  /\ UNCHANGED <<epoch, child, listed, pid, startLock, worldVars, mine, joins, worker>>

KillChild(t) ==
  /\ At(t, "kill") /\ Goto(t, "drop")
  /\ ReapChild
  /\ pid' = None
  /\ UNCHANGED <<epoch, registration, listed, startLock, engine, registered, modelOf, info, job,
                 deleting, mine, taken, joins, worker>>

DropRegistration(t) ==
  /\ At(t, "drop") /\ Goto(t, "vec")
  /\ Unregister(taken[t])
  /\ taken' = [taken EXCEPT ![t] = None]
  /\ UNCHANGED <<lifecycleVars, engine, modelOf, procs, info, job, deleting, mine, joins, worker>>

TakeWorkers(t) ==
  /\ At(t, "vec") /\ Goto(t, "join")
  /\ joins' = [joins EXCEPT ![t] = listed]
  /\ listed' = {}
  /\ UNCHANGED <<epoch, child, registration, pid, startLock, worldVars, mine, taken, worker>>

\* The last worker is joined; only then is the announced engine cleared, so a
\* newer start may announce itself in between.
Joined(t) ==
  \/ /\ At(t, "join") /\ Goto(t, "forget")
     /\ \A w \in joins[t] : worker[w] = "done"
     /\ joins' = [joins EXCEPT ![t] = {}]
     /\ UNCHANGED <<lifecycleVars, worldVars, mine, taken, worker>>
  \/ /\ At(t, "forget") /\ Goto(t, IF t \in Stoppers THEN "idle" ELSE "register")
     /\ info' = NoModel /\ job' = NoModel
     /\ UNCHANGED <<lifecycleVars, engine, registered, modelOf, procs, deleting, mine, taken, joins, worker>>

-----------------------------------------------------------------------------
(* bridge_start_llama and bridge_start_mlx.                                *)

\* Faulty variant: a start does not look for a delete lease.
StartableAlways(m) == TRUE

\* LlamaModelStartGuard::acquire; MLX has no delete leases.
Startable(m) == m \notin deleting

\* The model a start waits with; it is held until the start returns.
StartingModel == IF startLock = NoThread \/ engine = "mlx" THEN NoModel
                 ELSE modelOf[mine[startLock]]

\* The same model already runs: the start answers with what there is.
AlreadyRuns(m) == child \in procs /\ m = (IF info = NoModel THEN job ELSE info)

\* The start guard and the model start guard, then the check whether the same
\* model already runs, then the new epoch.  (The start guard serialises starts,
\* so only the delete leases are looked at from outside in between.)
Start(t, m) ==
  /\ t \in Starters /\ At(t, "idle") /\ startLock = NoThread
  /\ Startable(m)
  /\ ~ AlreadyRuns(m)
  /\ NewEpoch(t)
  /\ startLock' = t
  /\ modelOf' = [modelOf EXCEPT ![epoch + 1] = m]
  /\ UNCHANGED <<child, registration, listed, pid, engine, registered, procs, info, job, deleting,
                 taken, joins, worker>>

\* register_persistent: an identity that is already registered is refused.
Register(t) ==
  /\ At(t, "register") /\ Goto(t, "spawn")
  /\ \A e \in registered : modelOf[e] # ModelOfThread(t)
  /\ registered' = registered \cup {mine[t]}
  /\ UNCHANGED <<lifecycleVars, engine, modelOf, procs, info, job, deleting, mine, taken, joins, worker>>

\* No engine binary, no room in the budget, a duplicate, no port, no process.
StartFails(t) ==
  /\ pc[t] \in {"register", "spawn"}
  /\ StartReturns(t)
  /\ Unregister(mine[t])
  /\ UNCHANGED <<epoch, child, registration, listed, pid, engine, modelOf, procs, info, job, deleting,
                 mine, taken, joins, worker>>

SpawnProcess(t) ==
  /\ At(t, "spawn") /\ Goto(t, "install")
  /\ procs' = procs \cup {mine[t]}
  /\ job' = IF engine = "mlx" THEN ModelOfThread(t) ELSE job
  /\ UNCHANGED <<lifecycleVars, engine, registered, modelOf, info, deleting, mine, taken, joins, worker>>

\* Faulty variant: the process of a superseded start is only forgotten.
ForgetSpawned(t) == UNCHANGED procs

ReapSpawned(t) == procs' = procs \ {mine[t]}

\* install_child: a superseded start reaps the process it has just spawned.
Install(t) ==
  /\ At(t, "install")
  /\ IF CurrentAtInstall(mine[t])
     THEN /\ child' = mine[t] /\ pid' = mine[t]
          /\ Goto(t, IF engine = "llama" THEN "ready" ELSE "commit")
          /\ UNCHANGED <<procs, registered, startLock>>
     ELSE /\ ReapSpawned(t)
          /\ Unregister(mine[t])
          /\ StartReturns(t)
          /\ UNCHANGED <<child, pid>>
  /\ UNCHANGED <<epoch, registration, listed, engine, modelOf, info, job, deleting, mine, taken, joins, worker>>

\* wait_for_port_while: the port is bound, or another generation took over, or
\* the time is up and the start is rolled back.
Ready(t) ==
  /\ At(t, "ready")
  /\ IF ~ Current(mine[t])
     THEN StartReturns(t) /\ Unregister(mine[t])
     ELSE /\ \/ mine[t] \in procs /\ Goto(t, "publish")
             \/ Goto(t, "timedOut")
          /\ UNCHANGED <<startLock, registered>>
  /\ UNCHANGED <<epoch, child, registration, listed, pid, engine, modelOf, procs, info, job, deleting,
                 mine, taken, joins, worker>>

\* The announcement is made under the lock of the engine slot.
Publish(t) ==
  /\ At(t, "publish")
  /\ IF Current(mine[t])
     THEN Goto(t, "commit") /\ info' = ModelOfThread(t) /\ UNCHANGED <<startLock, registered>>
     ELSE StartReturns(t) /\ Unregister(mine[t]) /\ UNCHANGED info
  /\ UNCHANGED <<epoch, child, registration, listed, pid, engine, modelOf, procs, job, deleting,
                 mine, taken, joins, worker>>

\* commit_registration, before readiness for MLX and after it for llama.
Commit(t) ==
  /\ At(t, "commit")
  /\ IF Current(mine[t])
     THEN /\ registration' = mine[t]
          /\ Goto(t, IF engine = "llama" THEN "monitor" ELSE "readiness")
          /\ UNCHANGED <<startLock, registered>>
     ELSE StartReturns(t) /\ Unregister(mine[t]) /\ UNCHANGED registration
  /\ UNCHANGED <<epoch, child, listed, pid, engine, modelOf, procs, info, job, deleting, mine, taken, joins, worker>>

\* spawn_worker: only the current generation gets a worker.
SpawnWorker(t, role) ==
  /\ Current(mine[t])
  /\ worker' = [worker EXCEPT ![<<mine[t], role>>] = "wait"]
  /\ listed' = {w \in listed : worker[w] # "done"} \cup {<<mine[t], role>>}
  /\ UNCHANGED <<info, job>>

\* The announcement a start takes back (llama: if it is of this model).
ClearInfo(t) ==
  /\ info' = IF engine = "mlx" \/ info = ModelOfThread(t) THEN NoModel ELSE info
  /\ job' = NoModel

\* A worker is refused or cannot be had: the start is rolled back.
NoWorker(t) ==
  /\ Goto(t, "undoKill")
  /\ UNCHANGED <<startLock, info, job, worker, listed>>

SpawnReadiness(t) ==
  /\ At(t, "readiness")
  /\ \/ SpawnWorker(t, "ready") /\ Goto(t, "monitor") /\ UNCHANGED startLock
     \/ NoWorker(t)
  /\ UNCHANGED <<epoch, child, registration, pid, engine, registered, modelOf, procs, deleting,
                 mine, taken, joins>>

SpawnMonitor(t) ==
  /\ At(t, "monitor")
  /\ \/ SpawnWorker(t, "exit") /\ StartReturns(t)
     \/ NoWorker(t)
  /\ UNCHANGED <<epoch, child, registration, pid, engine, registered, modelOf, procs, deleting,
                 mine, taken, joins>>

-----------------------------------------------------------------------------
(* rollback_if_current: the child under its lock, then the registration by *)
(* model id, then the PID file.  A stale generation touches nothing.       *)

\* Faulty variant: the epoch is not asked again under the lock of the child.
UndoKillUnchecked(e) == ReapChild

UndoKill(e) == IF Current(e) THEN ReapChild ELSE UNCHANGED <<child, procs>>

UndoSlot(m) ==
  IF SlotHas(m) THEN registration' = None /\ Unregister(registration)
                ELSE UNCHANGED <<registration, registered>>

\* The time of a llama start is up: its registration is still its own.
TimedOut(t) ==
  \/ /\ At(t, "timedOut")
     /\ UndoKill(mine[t])
     /\ IF Current(mine[t]) THEN Goto(t, "clear") /\ UNCHANGED <<startLock, registered>>
                            ELSE StartReturns(t) /\ Unregister(mine[t])
     /\ UNCHANGED <<epoch, registration, listed, pid, engine, modelOf, info, job, deleting,
                    mine, taken, joins, worker>>
  \/ /\ At(t, "clear")
     /\ pid' = None /\ info' = NoModel
     /\ StartReturns(t) /\ Unregister(mine[t])
     /\ UNCHANGED <<epoch, child, registration, listed, engine, modelOf, procs, job, deleting,
                    mine, taken, joins, worker>>

\* A start that had committed its registration and could not get a worker.
RollBackStart(t) ==
  \/ /\ At(t, "undoKill")
     /\ UndoKill(mine[t])
     /\ IF Current(mine[t]) THEN Goto(t, "undoSlot") /\ UNCHANGED <<startLock, info, job>>
                            ELSE StartReturns(t) /\ ClearInfo(t)
     /\ UNCHANGED <<epoch, registration, listed, pid, engine, registered, modelOf, deleting,
                    mine, taken, joins, worker>>
  \/ /\ At(t, "undoSlot") /\ Goto(t, "undoPid")
     /\ UndoSlot(ModelOfThread(t))
     /\ UNCHANGED <<epoch, child, listed, pid, startLock, engine, modelOf, procs, info, job,
                    deleting, mine, taken, joins, worker>>
  \/ /\ At(t, "undoPid") /\ StartReturns(t)
     /\ pid' = None /\ ClearInfo(t)
     /\ UNCHANGED <<epoch, child, registration, listed, engine, registered, modelOf, procs,
                    deleting, mine, taken, joins, worker>>

-----------------------------------------------------------------------------
(* Workers.                                                                *)

\* What a look of the exit monitor leads to: the slot was emptied, the process
\* is gone, or it lives.
Found == IF child = None THEN "done" ELSE IF child \notin procs THEN "bump" ELSE "wait"

\* monitor_exit: after a nap it asks for the epoch and then, under the lock of the
\* slot, looks at whatever process is there; one that ended is reaped.  With no
\* lock held cleanup_exit_if_current then claims the generation.
Monitor(w) ==
  LET e == w[1]
  IN  /\ w[2] = "exit"
      /\ \/ /\ Step(w, "wait", IF Current(e) THEN "look" ELSE "done")
            /\ UNCHANGED <<epoch, child, procs>>
         \/ /\ Step(w, "look", Found)
            /\ child' = IF Found = "bump" THEN None ELSE child
            /\ UNCHANGED <<epoch, procs>>
         \/ Step(w, "bump", "done") /\ ~ Current(e) /\ UNCHANGED <<epoch, child, procs>>
         \/ /\ Step(w, "bump", "undoSlot") /\ Current(e)
            /\ epoch' = epoch + 1 /\ UNCHANGED <<child, procs>>
      /\ UNCHANGED <<registration, listed, pid, startLock, engine, registered, modelOf, info, job,
                     deleting, pc, mine, taken, joins>>

\* Faulty variant: the wait for the port does not ask who owns the engine.
WaitsRegardless(e) == FALSE

WaitSuperseded(e) == ~ Current(e)

\* wait_for_port_long, mlx_commit_ready and mlx_finalize_timeout.
Readiness(w) ==
  LET e == w[1]
  IN  /\ w[2] = "ready"
      /\ \/ Step(w, "wait", "done") /\ WaitSuperseded(e) /\ UNCHANGED <<child, procs, info>>
         \/ Step(w, "wait", "publish") /\ Current(e) /\ e \in procs /\ UNCHANGED <<child, procs, info>>
         \/ Step(w, "wait", "undoKill") /\ Current(e) /\ UNCHANGED <<child, procs, info>>
         \/ /\ Step(w, "publish", "done") /\ UNCHANGED <<child, procs>>
            /\ info' = IF Current(e) THEN modelOf[e] ELSE info
         \/ /\ Step(w, "undoKill", IF Current(e) THEN "undoSlot" ELSE "done")
            /\ UndoKill(e) /\ UNCHANGED info
      /\ UNCHANGED <<epoch, registration, listed, pid, startLock, engine, registered, modelOf, job,
                     deleting, pc, mine, taken, joins>>

\* Both workers finish a rollback the same way; the exit monitor also clears
\* the announcement if it is of its own model.
Cleanup(w) ==
  /\ \/ Step(w, "undoSlot", "undoPid") /\ UndoSlot(modelOf[w[1]]) /\ UNCHANGED <<pid, info>>
     \/ /\ Step(w, "undoPid", IF w[2] = "exit" THEN "callback" ELSE "done")
        /\ pid' = None /\ UNCHANGED <<registration, registered, info>>
     \/ /\ Step(w, "callback", "done")
        /\ info' = IF info = modelOf[w[1]] THEN NoModel ELSE info
        /\ UNCHANGED <<registration, registered, pid>>
  /\ UNCHANGED <<epoch, child, listed, startLock, engine, modelOf, procs, job, deleting,
                 pc, mine, taken, joins>>

-----------------------------------------------------------------------------
(* The world.                                                              *)

\* An engine process ends by itself.
ProcessDies(e) ==
  /\ e \in procs /\ procs' = procs \ {e}
  /\ UNCHANGED <<lifecycleVars, engine, registered, modelOf, info, job, deleting, threadVars>>

\* acquire_llama_model_delete_lease refuses a model that is being started.
AcquireDeleteLease(m) ==
  /\ engine = "llama" /\ m \notin deleting /\ StartingModel # m
  /\ deleting' = deleting \cup {m}
  /\ UNCHANGED <<lifecycleVars, engine, registered, modelOf, procs, info, job, threadVars>>

\* The lease is released, or not renewed for its sixty seconds.
EndDeleteLease(m) ==
  /\ m \in deleting
  /\ deleting' = deleting \ {m}
  /\ UNCHANGED <<lifecycleVars, engine, registered, modelOf, procs, info, job, threadVars>>

ThreadStep(t) ==
  \/ TakeRegistration(t) \/ KillChild(t) \/ DropRegistration(t) \/ TakeWorkers(t) \/ Joined(t)
  \/ Register(t) \/ StartFails(t) \/ SpawnProcess(t) \/ Install(t)
  \/ Ready(t) \/ Publish(t) \/ Commit(t) \/ SpawnReadiness(t) \/ SpawnMonitor(t)
  \/ TimedOut(t) \/ RollBackStart(t)

WorkerStep(w) == Monitor(w) \/ Readiness(w) \/ Cleanup(w)

Next ==
  \/ \E t \in Stoppers : Stop(t)
  \/ \E t \in Starters, m \in Models : Start(t, m)
  \/ \E t \in Threads : ThreadStep(t)
  \/ \E w \in Workers : WorkerStep(w)
  \/ \E e \in Epochs : ProcessDies(e)
  \/ \E m \in Models : AcquireDeleteLease(m) \/ EndDeleteLease(m)

Spec == Init /\ [][Next]_vars

\* The system schedules every thread; waiting for a port has a deadline.
Fairness ==
  /\ \A t \in Threads : WF_vars(ThreadStep(t))
  /\ \A w \in Workers : WF_vars(WorkerStep(w))

FairSpec == Spec /\ Fairness

-----------------------------------------------------------------------------
(* Properties.                                                             *)

\* No engine process is lost: one that is alive is in the child slot or in the
\* hands of the start that has just spawned it, through every order of starts,
\* stops, exits, time-outs and rollbacks (install_child, rollback_if_current).
ProcessesAreOwned ==
  procs \subseteq {child} \cup {mine[t] : t \in {u \in Starters : At(u, "install")}}

\* When a stop has returned and no start began after it, the engine is down and
\* stays down, although older starts are still on their way: they find
\* themselves superseded at each of their commits (EngineLifecycle::stop).
StoppedStaysStopped ==
  \A t \in Stoppers :
    At(t, "idle") /\ mine[t] # None /\ Current(mine[t])
      => child = None /\ registration = None /\ info = NoModel

\* The engine is always in somebody's hands: every process has an owner who can
\* stop it, and a stop that returned leaves none.
EngineIsOwned == TypeOK /\ ProcessesAreOwned /\ StoppedStaysStopped

\* A stale time-out never kills a replacement process: what a readiness worker
\* or a start rolls back is its own generation (rollback_if_current).
RollbackIsOwn ==
  [][/\ \A t \in Starters : pc[t] \in {"undoKill", "timedOut"} /\ pc'[t] # pc[t] /\ child' # child
                              => child = mine[t]
     /\ \A w \in Workers : worker[w] = "undoKill" /\ worker'[w] # "undoKill" /\ child' # child
                              => child = w[1]]_vars

\* While a delete lease of a model is held nobody brings up a process that reads
\* the file (LlamaModelStartGuard against acquire_llama_model_delete_lease).
NoStartUnderDeleteLease ==
  [][\A e \in Epochs : e \in procs' \ procs => modelOf[e] \notin deleting]_vars

\* Every start returns and gives the start guard back: joining the old workers
\* never waits for a worker that goes on watching (join_workers, monitor_exit).
StartsReturn == \A t \in Starters : pc[t] # "idle" ~> pc[t] = "idle"

\* When every request has returned and no worker is left to act, the announced
\* engine and the engine are the same: "running" with an endpoint means a process
\* that lives, and a process that lives is announced, so that whoever deletes the
\* model knows of it (bridge_start_llama against bridge_stop_llama).
StatusIsTrue ==
  /\ engine = "llama"
  /\ \A t \in Threads : pc[t] = "idle"
  /\ \A w \in Workers : \/ worker[w] \in {"none", "done"}
                       \/ (worker[w] \in {"wait", "look"} /\ Current(w[1]) /\ child # None)
  => (info # NoModel) = (child # None)
=============================================================================
