------------------------- MODULE ResidentEnginesProofs -------------------------
(***************************************************************************)
(* What holds of a resident engine for every set of concurrent requests,   *)
(* every set of models and any number of generations: a process has an     *)
(* owner, a stop that returned stays effective, a rollback touches its own *)
(* generation only, and a delete lease keeps starts away.                  *)
(***************************************************************************)
EXTENDS ResidentEngines, TLAPS

\* A request and a generation name each other: a number is given once, never
\* ahead of the epoch, and a stop has no workers.
Numbered ==
  /\ epoch <= MaxEpoch + 1
  /\ \A t \in Threads : /\ mine[t] <= epoch /\ mine[t] <= MaxEpoch
                        /\ pc[t] # "idle" => mine[t] # None
  /\ \A t, u \in Threads : mine[t] = mine[u] /\ mine[t] # None => t = u
  /\ \A w \in Workers : worker[w] # "none" =>
       /\ w[1] <= epoch /\ w[1] <= MaxEpoch
       /\ \A t \in Stoppers : mine[t] # w[1]

\* The steps a stop and the beginning of a start share.
Stopping == {"take", "kill", "drop", "vec", "join", "forget"}

\* The start guard is held by the one start that has not returned.
Guarded ==
  /\ \A t \in Starters : startLock = t <=> pc[t] # "idle"
  /\ \A t \in Stoppers : pc[t] \in Stopping \cup {"idle"}

\* A start has emptied the child slot, or has put its process there.
Before == {"drop", "vec", "join", "forget", "register", "spawn", "install"}
After == {"ready", "publish", "commit", "readiness", "monitor", "timedOut", "clear",
          "undoKill", "undoSlot", "undoPid"}

\* From its kill on a start finds the child slot as it has left it.
Emptied ==
  \A t \in Starters : /\ pc[t] \in Before => child = None
                      /\ pc[t] \in After => child \in {None, mine[t]}

\* The worker of the current generation finds its own process or none.
WorkersOwn == \A w \in Workers : worker[w] # "none" /\ Current(w[1]) => child \in {None, w[1]}

\* What a stop that nobody has superseded has already done stays done.
Stopped ==
  \A t \in Stoppers : mine[t] # None /\ Current(mine[t]) =>
    /\ pc[t] # "take" => registration = None
    /\ pc[t] \notin {"take", "kill"} => child = None
    /\ pc[t] = "idle" => info = NoModel

\* While a start is on its way nobody holds a delete lease of its model.
Unleased ==
  /\ engine = "mlx" => deleting = {}
  /\ \A t \in Starters : pc[t] # "idle" => ModelOfThread(t) \notin deleting

IInv ==
  /\ TypeOK /\ Numbered /\ Guarded /\ Emptied /\ WorkersOwn /\ Stopped /\ Unleased
  /\ ProcessesAreOwned

-----------------------------------------------------------------------------
(* Every case of a step.                                                   *)

\* A step is a request, a step of a thread or of a worker, or the world's.
LEMMA StepCases ==
  ASSUME [Next]_vars
  PROVE  \/ UNCHANGED vars
         \/ \E t \in Stoppers : Stop(t)
         \/ \E t \in Starters, m \in Models : Start(t, m)
         \/ \E t \in Threads : ThreadStep(t)
         \/ \E w \in Workers : WorkerStep(w)
         \/ \E e \in Epochs : ProcessDies(e)
         \/ \E m \in Models : AcquireDeleteLease(m) \/ EndDeleteLease(m)
BY DEF Next

\* No generation is not a generation, and one more than the bound still is.
LEMMA EpochRange ==
  ASSUME TypeOK
  PROVE  /\ epoch \in Nat /\ MaxEpoch \in Nat /\ None \notin Epochs
         /\ \A t \in Threads : mine[t] \in Nat
         /\ \A e \in Epochs : e \in Nat /\ (e <= MaxEpoch => e + 1 \in Epochs)
         /\ epoch < MaxEpoch => epoch + 1 \in Epochs
BY EpochBound DEF TypeOK, Epochs, None

\* Only a start goes beyond the steps it shares with a stop.
LEMMA OnlyStartsGoOn ==
  ASSUME TypeOK, Guarded, NEW t \in Threads, pc[t] \notin Stopping \cup {"idle"}
  PROVE  t \in Starters /\ t \notin Stoppers
BY RequestsAreApart DEF Guarded, Threads

-----------------------------------------------------------------------------
(* The types.                                                              *)

LEMMA TypeStep == IInv /\ [Next]_vars => TypeOK'
<1> SUFFICES ASSUME IInv, [Next]_vars
             PROVE  TypeOK'
  OBVIOUS
<1> USE DEF IInv
<1>0. /\ epoch \in Nat /\ MaxEpoch \in Nat
      /\ epoch < MaxEpoch => epoch + 1 \in Epochs
      /\ \A t \in Threads : pc[t] # "idle" => mine[t] \in Epochs
      /\ None \notin Epochs
  BY EpochRange DEF TypeOK, Numbered
<1>m. \A t \in Threads : mine[t] \in Epochs => ModelOfThread(t) \in Models \cup {NoModel}
  BY DEF TypeOK, ModelOfThread
<1>w. \A w \in Workers : /\ w[1] \in Epochs /\ modelOf[w[1]] \in Models \cup {NoModel}
                         /\ worker[w] # "none" => w[1] + 1 \in Epochs
  BY EpochRange DEF TypeOK, Numbered, Workers
<1>1. CASE UNCHANGED vars
  BY <1>1 DEF vars, lifecycleVars, worldVars, threadVars, TypeOK
<1>2. ASSUME NEW t \in Stoppers, Stop(t)
      PROVE  TypeOK'
  BY <1>0, <1>2 DEF TypeOK, Stop, NewEpoch, Goto, worldVars, Threads
<1>3. ASSUME NEW t \in Starters, NEW m \in Models, Start(t, m)
      PROVE  TypeOK'
  BY <1>0, <1>3 DEF TypeOK, Start, NewEpoch, Goto, Threads
<1>4. ASSUME NEW t \in Threads, TakeRegistration(t)
      PROVE  TypeOK'
  BY <1>0, <1>4 DEF TypeOK, TakeRegistration, At, Goto, worldVars
<1>5. ASSUME NEW t \in Threads, KillChild(t)
      PROVE  TypeOK'
  BY <1>0, <1>5 DEF TypeOK, KillChild, At, Goto, ReapChild
<1>6. ASSUME NEW t \in Threads, DropRegistration(t)
      PROVE  TypeOK'
  BY <1>0, <1>6 DEF TypeOK, DropRegistration, At, Goto, Unregister, lifecycleVars
<1>7. ASSUME NEW t \in Threads, TakeWorkers(t)
      PROVE  TypeOK'
  BY <1>0, <1>7 DEF TypeOK, TakeWorkers, At, Goto, worldVars
<1>8. ASSUME NEW t \in Threads, Joined(t)
      PROVE  TypeOK'
  <2>1. CASE At(t, "join")
    BY <1>8, <2>1 DEF TypeOK, Joined, At, Goto, lifecycleVars, worldVars
  <2>2. CASE At(t, "forget")
    <3>1. pc' = [pc EXCEPT ![t] = "idle"] \/ pc' = [pc EXCEPT ![t] = "register"]
      BY <1>8, <2>2 DEF Joined, At, Goto
    <3>2. info' = NoModel /\ job' = NoModel
          /\ UNCHANGED <<lifecycleVars, engine, registered, modelOf, procs, deleting, mine, taken,
                         joins, worker>>
      BY <1>8, <2>2 DEF Joined, At
    <3> QED
      BY <3>1, <3>2 DEF TypeOK, lifecycleVars
  <2> QED
    BY <1>8, <2>1, <2>2 DEF Joined
<1>9. ASSUME NEW t \in Threads, Register(t)
      PROVE  TypeOK'
  BY <1>0, <1>9 DEF TypeOK, Register, At, Goto, lifecycleVars
<1>10. ASSUME NEW t \in Threads, StartFails(t)
      PROVE  TypeOK'
  BY <1>0, <1>10 DEF TypeOK, StartFails, Goto, StartReturns, Unregister
<1>11. ASSUME NEW t \in Threads, SpawnProcess(t)
      PROVE  TypeOK'
  BY <1>0, <1>11, <1>m DEF TypeOK, SpawnProcess, At, Goto, lifecycleVars
<1>12. ASSUME NEW t \in Threads, Install(t)
      PROVE  TypeOK'
  <2>1. mine[t] \in Epochs
    BY <1>0, <1>12 DEF Install, At
  <2>2. /\ child' \in Epochs \cup {None} /\ pid' \in Epochs \cup {None}
        /\ procs' \subseteq Epochs /\ registered' \subseteq Epochs
        /\ startLock' \in Starters \cup {NoThread}
    BY <1>12, <2>1 DEF TypeOK, Install, StartReturns, Unregister, ReapSpawned
  <2>3. \/ pc' = [pc EXCEPT ![t] = "ready"] \/ pc' = [pc EXCEPT ![t] = "commit"]
        \/ pc' = [pc EXCEPT ![t] = "idle"]
    BY <1>12 DEF Install, Goto, StartReturns
  <2> QED
    BY <1>12, <2>2, <2>3 DEF TypeOK, Install
<1>13. ASSUME NEW t \in Threads, Ready(t)
      PROVE  TypeOK'
  BY <1>0, <1>13 DEF TypeOK, Ready, At, Goto, StartReturns, Unregister
<1>14. ASSUME NEW t \in Threads, Publish(t)
      PROVE  TypeOK'
  <2>1. info' \in Models \cup {NoModel}
    BY <1>0, <1>m, <1>14 DEF TypeOK, Publish, At
  <2>2. registered' \subseteq Epochs /\ startLock' \in Starters \cup {NoThread}
    BY <1>14 DEF TypeOK, Publish, StartReturns, Unregister
  <2>3. pc' = [pc EXCEPT ![t] = "commit"] \/ pc' = [pc EXCEPT ![t] = "idle"]
    BY <1>14 DEF Publish, Goto, StartReturns
  <2> QED
    BY <1>14, <2>1, <2>2, <2>3 DEF TypeOK, Publish
<1>15. ASSUME NEW t \in Threads, Commit(t)
      PROVE  TypeOK'
  <2>1. registration' \in Epochs \cup {None}
    BY <1>0, <1>15 DEF TypeOK, Commit, At
  <2>2. registered' \subseteq Epochs /\ startLock' \in Starters \cup {NoThread}
    BY <1>15 DEF TypeOK, Commit, StartReturns, Unregister
  <2>3. \/ pc' = [pc EXCEPT ![t] = "monitor"] \/ pc' = [pc EXCEPT ![t] = "readiness"]
        \/ pc' = [pc EXCEPT ![t] = "idle"]
    BY <1>15 DEF Commit, Goto, StartReturns
  <2> QED
    BY <1>15, <2>1, <2>2, <2>3 DEF TypeOK, Commit
<1>16. ASSUME NEW t \in Threads, SpawnReadiness(t)
      PROVE  TypeOK'
  <2>1. mine[t] \in Epochs
    BY <1>0, <1>16 DEF SpawnReadiness, At
  <2>2. CASE SpawnWorker(t, "ready") /\ Goto(t, "monitor") /\ UNCHANGED startLock
    <3>1. <<mine[t], "ready">> \in Workers
      BY <2>1 DEF Workers
    <3>2. worker' = [worker EXCEPT ![<<mine[t], "ready">>] = "wait"] /\ listed' \subseteq Workers
      BY <2>2, <3>1 DEF TypeOK, SpawnWorker
    <3> QED
      BY <1>16, <2>2, <3>1, <3>2 DEF TypeOK, SpawnReadiness, Goto, SpawnWorker
  <2>3. CASE NoWorker(t)
    BY <1>16, <2>3 DEF TypeOK, SpawnReadiness, Goto, NoWorker
  <2> QED
    BY <1>16, <2>2, <2>3 DEF SpawnReadiness
<1>17. ASSUME NEW t \in Threads, SpawnMonitor(t)
      PROVE  TypeOK'
  <2>1. mine[t] \in Epochs
    BY <1>0, <1>17 DEF SpawnMonitor, At
  <2>2. CASE SpawnWorker(t, "exit") /\ StartReturns(t)
    <3>1. <<mine[t], "exit">> \in Workers
      BY <2>1 DEF Workers
    <3>2. worker' = [worker EXCEPT ![<<mine[t], "exit">>] = "wait"] /\ listed' \subseteq Workers
      BY <2>2, <3>1 DEF TypeOK, SpawnWorker
    <3> QED
      BY <1>17, <2>2, <3>1, <3>2 DEF TypeOK, SpawnMonitor, Goto, StartReturns, SpawnWorker
  <2>3. CASE NoWorker(t)
    BY <1>17, <2>3 DEF TypeOK, SpawnMonitor, Goto, NoWorker
  <2> QED
    BY <1>17, <2>2, <2>3 DEF SpawnMonitor
<1>18. ASSUME NEW t \in Threads, TimedOut(t)
      PROVE  TypeOK'
  <2>1. CASE At(t, "timedOut")
    <3>1. child' \in Epochs \cup {None} /\ procs' \subseteq Epochs
      BY <1>18, <2>1 DEF TypeOK, TimedOut, At, ReapChild, UndoKill
    <3>2. /\ pc' = [pc EXCEPT ![t] = "clear"] \/ pc' = [pc EXCEPT ![t] = "idle"]
          /\ startLock' \in {startLock, NoThread} /\ registered' \subseteq registered
      BY <1>18, <2>1 DEF TimedOut, At, Goto, StartReturns, Unregister
    <3>3. UNCHANGED <<epoch, registration, listed, pid, engine, modelOf, info, job, deleting,
                      mine, taken, joins, worker>>
      BY <1>18, <2>1 DEF TimedOut, At
    <3> QED
      BY <3>1, <3>2, <3>3 DEF TypeOK
  <2>2. CASE At(t, "clear")
    BY <1>18, <2>2 DEF TypeOK, TimedOut, At, Goto, StartReturns, Unregister
  <2> QED
    BY <1>18, <2>1, <2>2 DEF TimedOut
<1>19. ASSUME NEW t \in Threads, RollBackStart(t)
      PROVE  TypeOK'
  <2>1. CASE At(t, "undoKill")
    <3>1. mine[t] \in Epochs
      BY <1>0, <2>1 DEF At
    <3>2. /\ info' \in Models \cup {NoModel} /\ job' \in Models \cup {NoModel}
          /\ startLock' \in Starters \cup {NoThread}
          /\ child' \in Epochs \cup {None} /\ procs' \subseteq Epochs
      BY <1>m, <1>19, <2>1, <3>1 DEF TypeOK, RollBackStart, At, UndoKill, ReapChild, ClearInfo, StartReturns
    <3>3. pc' = [pc EXCEPT ![t] = "undoSlot"] \/ pc' = [pc EXCEPT ![t] = "idle"]
      BY <1>19, <2>1 DEF RollBackStart, At, Goto, StartReturns
    <3>4. UNCHANGED <<epoch, registration, listed, pid, engine, registered, modelOf, deleting,
                      mine, taken, joins, worker>>
      BY <1>19, <2>1 DEF RollBackStart, At
    <3> QED
      BY <3>2, <3>3, <3>4 DEF TypeOK
  <2>2. CASE At(t, "undoSlot")
    BY <1>19, <2>2 DEF TypeOK, RollBackStart, At, Goto, UndoSlot, Unregister
  <2>3. CASE At(t, "undoPid")
    <3>1. mine[t] \in Epochs
      BY <1>0, <2>3 DEF At
    <3>2. info' \in Models \cup {NoModel} /\ job' = NoModel
      BY <1>m, <1>19, <2>3, <3>1 DEF TypeOK, RollBackStart, At, ClearInfo
    <3>3. pc' = [pc EXCEPT ![t] = "idle"] /\ startLock' = NoThread /\ pid' = None
      BY <1>19, <2>3 DEF RollBackStart, At, Goto, StartReturns
    <3>4. UNCHANGED <<epoch, child, registration, listed, engine, registered, modelOf, procs,
                      deleting, mine, taken, joins, worker>>
      BY <1>19, <2>3 DEF RollBackStart, At
    <3> QED
      BY <3>2, <3>3, <3>4 DEF TypeOK
  <2> QED
    BY <1>19, <2>1, <2>2, <2>3 DEF RollBackStart
<1>20. ASSUME NEW w \in Workers, Monitor(w)
      PROVE  TypeOK'
  <2>1. worker' \in [Workers -> {"none", "wait", "look", "publish", "bump", "undoKill", "undoSlot",
                                "undoPid", "callback", "done"}]
    BY <1>20 DEF TypeOK, Monitor, Step, Found
  <2>2. epoch' \in Epochs \cup {None} /\ child' \in Epochs \cup {None}
    BY <1>w, <1>20 DEF TypeOK, Monitor, Step, Current
  <2>3. procs' \subseteq Epochs
    BY <1>20 DEF TypeOK, Monitor
  <2> QED
    BY <1>20, <2>1, <2>2, <2>3 DEF TypeOK, Monitor
<1>23. ASSUME NEW w \in Workers, Readiness(w)
      PROVE  TypeOK'
  <2>1. worker' \in [Workers -> {"none", "wait", "look", "publish", "bump", "undoKill", "undoSlot",
                                "undoPid", "callback", "done"}]
    BY <1>23 DEF TypeOK, Readiness, Step
  <2>2. /\ child' \in Epochs \cup {None} /\ procs' \subseteq Epochs
        /\ info' \in Models \cup {NoModel}
    BY <1>w, <1>23 DEF TypeOK, Readiness, UndoKill, ReapChild
  <2> QED
    BY <1>23, <2>1, <2>2 DEF TypeOK, Readiness
<1>24. ASSUME NEW w \in Workers, Cleanup(w)
      PROVE  TypeOK'
  <2>1. worker' \in [Workers -> {"none", "wait", "look", "publish", "bump", "undoKill", "undoSlot",
                                "undoPid", "callback", "done"}]
    BY <1>24 DEF TypeOK, Cleanup, Step
  <2>2. /\ registration' \in Epochs \cup {None} /\ registered' \subseteq Epochs
        /\ pid' \in Epochs \cup {None} /\ info' \in Models \cup {NoModel}
    BY <1>w, <1>24 DEF TypeOK, Cleanup, UndoSlot, Unregister
  <2> QED
    BY <1>24, <2>1, <2>2 DEF TypeOK, Cleanup
<1>21. ASSUME NEW e \in Epochs, ProcessDies(e)
      PROVE  TypeOK'
  BY <1>21 DEF TypeOK, ProcessDies, lifecycleVars, threadVars
<1>22. ASSUME NEW m \in Models, AcquireDeleteLease(m) \/ EndDeleteLease(m)
      PROVE  TypeOK'
  BY <1>22 DEF TypeOK, AcquireDeleteLease, EndDeleteLease, lifecycleVars, threadVars
<1> QED
  BY StepCases, <1>1, <1>2, <1>3, <1>4, <1>5, <1>6, <1>7, <1>8, <1>9, <1>10, <1>11, <1>12, <1>13,
     <1>14, <1>15, <1>16, <1>17, <1>18, <1>19, <1>20, <1>21, <1>22, <1>23, <1>24 DEF ThreadStep, WorkerStep

-----------------------------------------------------------------------------
(* What a step may do, variable by variable.                               *)

\* A thread that takes a step moves itself only.  It keeps its number, and what
\* it hands out or gives back is its own: the start guard and its workers.
Moves(t) ==
  /\ pc[t] # "idle" /\ pc' = [pc EXCEPT ![t] = pc'[t]]
  /\ t \in Stoppers => pc'[t] \in Stopping \cup {"idle"}
  /\ UNCHANGED <<epoch, mine, engine, modelOf, deleting>>
  /\ \/ startLock' = startLock /\ (pc'[t] = "idle" => pc[t] = "forget" /\ t \in Stoppers)
     \/ startLock' = NoThread /\ pc'[t] = "idle" /\ pc[t] \notin Stopping
  /\ \/ worker' = worker
     \/ /\ pc[t] \in {"readiness", "monitor"} /\ Current(mine[t])
        /\ \E role \in {"exit", "ready"} : worker' = [worker EXCEPT ![<<mine[t], role>>] = "wait"]

LEMMA ThreadsMove ==
  ASSUME TypeOK, Guarded, NEW t \in Threads, ThreadStep(t)
  PROVE  Moves(t)
<1>1. pc = [u \in Threads |-> pc[u]]
  BY DEF TypeOK
<1> USE <1>1 DEF At, Goto, Moves, Stopping, lifecycleVars, worldVars, threadVars, StartReturns
<1>2. CASE TakeRegistration(t) \/ KillChild(t) \/ DropRegistration(t) \/ TakeWorkers(t)
  BY <1>2 DEF TakeRegistration, KillChild, DropRegistration, TakeWorkers
<1>3. CASE Joined(t)
  BY <1>3 DEF Joined
<1>4. pc[t] \notin Stopping => t \notin Stoppers \/ pc[t] = "idle"
  BY OnlyStartsGoOn
<1>5. CASE Register(t) \/ StartFails(t) \/ SpawnProcess(t)
  BY <1>4, <1>5 DEF Register, StartFails, SpawnProcess
<1>6. CASE Install(t) \/ Ready(t) \/ Publish(t) \/ Commit(t)
  BY <1>4, <1>6 DEF Install, Ready, Publish, Commit
<1>7. CASE SpawnReadiness(t) \/ SpawnMonitor(t)
  BY <1>4, <1>7 DEF SpawnReadiness, SpawnMonitor, SpawnWorker, NoWorker
<1>8. CASE TimedOut(t)
  BY <1>4, <1>8 DEF TimedOut
<1>9. CASE RollBackStart(t)
  BY <1>4, <1>9 DEF RollBackStart
<1> QED
  BY <1>2, <1>3, <1>5, <1>6, <1>7, <1>8, <1>9 DEF ThreadStep

\* A worker moves itself only, and takes a new number only for a generation that
\* is still current.
WorkerMoves(w) ==
  /\ worker[w] # "none" /\ worker' = [worker EXCEPT ![w] = worker'[w]]
  /\ worker'[w] # "none"
  /\ UNCHANGED <<engine, modelOf, deleting, pc, mine, startLock>>
  /\ epoch' = epoch \/ (Current(w[1]) /\ epoch' = epoch + 1 /\ child' = child)

LEMMA WorkersMove ==
  ASSUME TypeOK, NEW w \in Workers, WorkerStep(w)
  PROVE  WorkerMoves(w)
<1>1. worker = [u \in Workers |-> worker[u]]
  BY DEF TypeOK
<1> USE <1>1 DEF WorkerMoves, Step
<1>2. CASE Monitor(w)
  BY <1>2 DEF Monitor, Found
<1>3. CASE Readiness(w)
  BY <1>3 DEF Readiness
<1>4. CASE Cleanup(w)
  BY <1>4 DEF Cleanup
<1> QED
  BY <1>2, <1>3, <1>4 DEF WorkerStep

\* The child slot is emptied, or a start that is current puts its process there.
ChildMoves(t) ==
  /\ child' \in {child, None} \/ (pc[t] = "install" /\ Current(mine[t]) /\ child' = mine[t])
  /\ pc'[t] \in Before => child' = None \/ (pc[t] \in Before /\ child' = child)
  /\ pc'[t] \in After => child' = mine[t] \/ (pc[t] \in After /\ child' \in {child, None})

LEMMA ThreadsMoveTheChild ==
  ASSUME TypeOK, NEW t \in Threads, ThreadStep(t)
  PROVE  ChildMoves(t)
<1>1. pc = [u \in Threads |-> pc[u]]
  BY DEF TypeOK
<1> USE <1>1 DEF At, Goto, ChildMoves, Before, After, lifecycleVars, StartReturns, ReapChild, UndoKill
<1>2. CASE TakeRegistration(t) \/ KillChild(t) \/ DropRegistration(t) \/ TakeWorkers(t)
  BY <1>2 DEF TakeRegistration, KillChild, DropRegistration, TakeWorkers
<1>3. CASE Joined(t) \/ Register(t) \/ StartFails(t) \/ SpawnProcess(t)
  BY <1>3 DEF Joined, Register, StartFails, SpawnProcess
<1>4. CASE Install(t) \/ Ready(t) \/ Publish(t) \/ Commit(t)
  BY <1>4 DEF Install, CurrentAtInstall, Ready, Publish, Commit
<1>5. CASE SpawnReadiness(t) \/ SpawnMonitor(t)
  BY <1>5 DEF SpawnReadiness, SpawnMonitor, NoWorker
<1>6. CASE TimedOut(t) \/ RollBackStart(t)
  BY <1>6 DEF TimedOut, RollBackStart
<1> QED
  BY <1>2, <1>3, <1>4, <1>5, <1>6 DEF ThreadStep

\* The registration and the announcement are taken back, or a start that is
\* current sets them; a stop has taken back what its step says.
SlotMoves(t) ==
  /\ registration' \in {registration, None} \/ (t \notin Stoppers /\ Current(mine[t]))
  /\ info' \in {info, NoModel} \/ (t \notin Stoppers /\ Current(mine[t]))
  /\ t \in Stoppers =>
       /\ pc'[t] # "take" => registration' = None \/ (pc[t] # "take" /\ registration' = registration)
       /\ pc'[t] \notin {"take", "kill"} =>
            child' = None \/ (pc[t] \notin {"take", "kill"} /\ child' = child)
       /\ pc'[t] = "idle" => info' = NoModel

LEMMA ThreadsMoveTheSlots ==
  ASSUME TypeOK, Guarded, NEW t \in Threads, ThreadStep(t)
  PROVE  SlotMoves(t)
<1>1. pc = [u \in Threads |-> pc[u]]
  BY DEF TypeOK
<1>2. pc[t] \notin Stopping => t \notin Stoppers \/ pc[t] = "idle"
  BY OnlyStartsGoOn
<1> USE <1>1 DEF At, Goto, SlotMoves, Stopping, lifecycleVars, worldVars, StartReturns, ReapChild
<1>3. CASE TakeRegistration(t) \/ KillChild(t) \/ DropRegistration(t) \/ TakeWorkers(t)
  BY <1>3 DEF TakeRegistration, KillChild, DropRegistration, TakeWorkers
<1>4. CASE Joined(t)
  BY <1>4 DEF Joined
<1>5. CASE Register(t) \/ StartFails(t) \/ SpawnProcess(t) \/ Install(t) \/ Ready(t)
  BY <1>2, <1>5 DEF Register, StartFails, SpawnProcess, Install, Ready
<1>6. CASE Publish(t) \/ Commit(t)
  BY <1>2, <1>6 DEF Publish, Commit
<1>7. CASE SpawnReadiness(t) \/ SpawnMonitor(t)
  BY <1>2, <1>7 DEF SpawnReadiness, SpawnMonitor, SpawnWorker, NoWorker
<1>8. CASE TimedOut(t) \/ RollBackStart(t)
  BY <1>2, <1>8 DEF TimedOut, RollBackStart, UndoSlot, ClearInfo
<1> QED
  BY <1>3, <1>4, <1>5, <1>6, <1>7, <1>8 DEF ThreadStep

\* A worker empties slots; it announces only the generation that is current.
LEMMA WorkersMoveTheSlots ==
  ASSUME TypeOK, NEW w \in Workers, WorkerStep(w)
  PROVE  /\ child' \in {child, None}
         /\ registration' \in {registration, None}
         /\ info' \in {info, NoModel} \/ Current(w[1])
<1>1. CASE Monitor(w)
  BY <1>1 DEF Monitor
<1>2. CASE Readiness(w)
  BY <1>2 DEF Readiness, UndoKill, ReapChild
<1>3. CASE Cleanup(w)
  BY <1>3 DEF Cleanup, UndoSlot
<1> QED
  BY <1>1, <1>2, <1>3 DEF WorkerStep

-----------------------------------------------------------------------------
(* The invariant is inductive, part by part.                               *)

\* A new request gets a number that nobody has.
LEMMA NewNumber ==
  ASSUME TypeOK, Numbered, NEW t \in Threads, NewEpoch(t), UNCHANGED worker,
         pc[t] = "idle"
  PROVE  Numbered'
<1>1. /\ epoch \in Nat /\ MaxEpoch \in Nat /\ epoch' = epoch + 1 /\ epoch < MaxEpoch
      /\ \A u \in Threads : mine[u] \in Nat
  BY EpochRange DEF NewEpoch
<1>2. /\ mine' = [mine EXCEPT ![t] = epoch + 1] /\ mine \in [Threads -> Epochs \cup {None}]
      /\ pc' = [pc EXCEPT ![t] = "take"] /\ pc = [u \in Threads |-> pc[u]]
  BY DEF TypeOK, NewEpoch, Goto
<1>3. \A u \in Threads : /\ mine'[u] <= epoch' /\ mine'[u] <= MaxEpoch
                         /\ pc'[u] # "idle" => mine'[u] # None
  BY <1>1, <1>2 DEF Numbered, None
<1>4. \A u, v \in Threads : mine'[u] = mine'[v] /\ mine'[u] # None => u = v
  BY <1>1, <1>2 DEF Numbered
<1>5. \A w \in Workers : w[1] \in Nat
  BY EpochRange DEF Workers
<1>6. \A w \in Workers : worker'[w] # "none" =>
        w[1] <= epoch' /\ w[1] <= MaxEpoch /\ \A u \in Stoppers : mine'[u] # w[1]
  BY <1>1, <1>2, <1>5 DEF Numbered, Threads
<1> QED
  BY <1>1, <1>3, <1>4, <1>6 DEF Numbered

LEMMA NumberedStep == IInv /\ [Next]_vars => Numbered'
<1> SUFFICES ASSUME IInv, [Next]_vars
             PROVE  Numbered'
  OBVIOUS
<1> USE DEF IInv
<1>0. /\ epoch \in Nat /\ MaxEpoch \in Nat
      /\ \A u \in Threads : mine[u] \in Nat
      /\ \A w \in Workers : w[1] \in Nat
      /\ pc = [u \in Threads |-> pc[u]] /\ worker = [w \in Workers |-> worker[w]]
  BY EpochRange DEF TypeOK, Workers
<1>1. CASE UNCHANGED <<epoch, mine, pc, worker>>
  BY <1>1 DEF Numbered
<1>2. ASSUME NEW t \in Stoppers, Stop(t)
      PROVE  Numbered'
  BY <1>2, NewNumber DEF Stop, At, Threads
<1>3. ASSUME NEW t \in Starters, NEW m \in Models, Start(t, m)
      PROVE  Numbered'
  BY <1>3, NewNumber DEF Start, At, Threads
<1>4. ASSUME NEW t \in Threads, ThreadStep(t)
      PROVE  Numbered'
  <2>1. Moves(t)
    BY <1>4, ThreadsMove
  <2>2. CASE worker' = worker
    BY <1>0, <2>1, <2>2 DEF Moves, Numbered
  <2>3. ASSUME NEW role \in {"exit", "ready"}, pc[t] \in {"readiness", "monitor"},
               Current(mine[t]), worker' = [worker EXCEPT ![<<mine[t], role>>] = "wait"]
        PROVE  Numbered'
    <3>1. t \in Starters /\ t \notin Stoppers
      BY <2>3, OnlyStartsGoOn DEF Stopping
    <3>2. \A w \in Workers : worker'[w] # "none" => worker[w] # "none" \/ w[1] = mine[t]
      BY <1>0, <2>3
    <3>3. \A u \in Stoppers : mine[u] # mine[t]
      BY <2>1, <3>1 DEF Moves, Numbered, Threads
    <3> QED
      BY <1>0, <2>1, <3>2, <3>3 DEF Moves, Numbered
  <2> QED
    BY <2>1, <2>2, <2>3 DEF Moves
<1>5. ASSUME NEW w \in Workers, WorkerStep(w)
      PROVE  Numbered'
  <2>1. WorkerMoves(w)
    BY <1>5, WorkersMove
  <2>2. epoch <= epoch' /\ epoch' <= MaxEpoch + 1 /\ epoch' \in Nat
    BY <1>0, <2>1 DEF WorkerMoves, Numbered, Current
  <2>3. \A v \in Workers : worker'[v] # "none" => worker[v] # "none"
    BY <1>0, <2>1 DEF WorkerMoves
  <2> QED
    BY <1>0, <2>1, <2>2, <2>3 DEF WorkerMoves, Numbered
<1>6. ASSUME NEW e \in Epochs, ProcessDies(e)
      PROVE  UNCHANGED <<epoch, mine, pc, worker>>
  BY <1>6 DEF ProcessDies, lifecycleVars, threadVars
<1>7. ASSUME NEW m \in Models, AcquireDeleteLease(m) \/ EndDeleteLease(m)
      PROVE  UNCHANGED <<epoch, mine, pc, worker>>
  BY <1>7 DEF AcquireDeleteLease, EndDeleteLease, lifecycleVars, threadVars
<1>8. UNCHANGED vars => UNCHANGED <<epoch, mine, pc, worker>>
  BY DEF vars, lifecycleVars, threadVars
<1> QED
  BY StepCases, <1>1, <1>2, <1>3, <1>4, <1>5, <1>6, <1>7, <1>8

LEMMA GuardedStep == IInv /\ [Next]_vars => Guarded'
<1> SUFFICES ASSUME IInv, [Next]_vars
             PROVE  Guarded'
  OBVIOUS
<1> USE DEF IInv
<1>0. pc = [u \in Threads |-> pc[u]]
  BY DEF TypeOK
<1> USE RequestsAreApart DEF Threads
<1>1. CASE UNCHANGED <<startLock, pc>>
  BY <1>1 DEF Guarded
<1>2. ASSUME NEW t \in Stoppers, Stop(t)
      PROVE  Guarded'
  BY <1>0, <1>2 DEF Stop, NewEpoch, Goto, Guarded, Stopping
<1>3. ASSUME NEW t \in Starters, NEW m \in Models, Start(t, m)
      PROVE  Guarded'
  BY <1>0, <1>3 DEF Start, NewEpoch, Goto, At, Guarded
<1>4. ASSUME NEW t \in Threads, ThreadStep(t)
      PROVE  Guarded'
  <2>1. Moves(t)
    BY <1>4, ThreadsMove
  <2>2. pc[t] \notin Stopping => t \in Starters
    BY <2>1 DEF Moves, Guarded
  <2> QED
    BY <1>0, <2>1, <2>2 DEF Moves, Guarded
<1>5. ASSUME NEW w \in Workers, WorkerStep(w)
      PROVE  UNCHANGED <<startLock, pc>>
  BY <1>5, WorkersMove DEF WorkerMoves
<1>6. ASSUME NEW e \in Epochs, ProcessDies(e)
      PROVE  UNCHANGED <<startLock, pc>>
  BY <1>6 DEF ProcessDies, lifecycleVars, threadVars
<1>7. ASSUME NEW m \in Models, AcquireDeleteLease(m) \/ EndDeleteLease(m)
      PROVE  UNCHANGED <<startLock, pc>>
  BY <1>7 DEF AcquireDeleteLease, EndDeleteLease, lifecycleVars, threadVars
<1>8. UNCHANGED vars => UNCHANGED <<startLock, pc>>
  BY DEF vars, lifecycleVars, threadVars
<1> QED
  BY StepCases, <1>1, <1>2, <1>3, <1>4, <1>5, <1>6, <1>7, <1>8

LEMMA EmptiedStep == IInv /\ [Next]_vars => Emptied'
<1> SUFFICES ASSUME IInv, [Next]_vars
             PROVE  Emptied'
  OBVIOUS
<1> USE DEF IInv
<1>0. pc = [u \in Threads |-> pc[u]] /\ mine = [u \in Threads |-> mine[u]]
  BY DEF TypeOK
<1> USE RequestsAreApart DEF Threads
<1>1. ASSUME child' \in {child, None}, UNCHANGED <<pc, mine>>
      PROVE  Emptied'
  BY <1>1 DEF Emptied
<1>2. ASSUME NEW t \in Stoppers, Stop(t)
      PROVE  Emptied'
  BY <1>0, <1>2 DEF Stop, NewEpoch, Goto, Emptied
<1>3. ASSUME NEW t \in Starters, NEW m \in Models, Start(t, m)
      PROVE  Emptied'
  BY <1>0, <1>3 DEF Start, NewEpoch, Goto, Emptied, Before, After
<1>4. ASSUME NEW t \in Threads, ThreadStep(t)
      PROVE  Emptied'
  <2>1. Moves(t) /\ ChildMoves(t)
    BY <1>4, ThreadsMove, ThreadsMoveTheChild
  <2>2. CASE t \in Starters
    <3>1. \A u \in Starters : u # t => pc'[u] = "idle"
      BY <1>0, <2>1, <2>2 DEF Moves, Guarded
    <3>2. mine' = mine
      BY <2>1 DEF Moves
    <3> QED
      BY <2>1, <2>2, <3>1, <3>2 DEF ChildMoves, Emptied, Before, After
  <2>3. CASE t \in Stoppers
    BY <1>0, <2>1, <2>3 DEF Moves, ChildMoves, Emptied, Guarded, Stopping
  <2> QED
    BY <2>2, <2>3
<1>5. ASSUME NEW w \in Workers, WorkerStep(w)
      PROVE  Emptied'
  BY <1>1, <1>5, WorkersMove, WorkersMoveTheSlots DEF WorkerMoves
<1>6. ASSUME NEW e \in Epochs, ProcessDies(e)
      PROVE  Emptied'
  BY <1>1, <1>6 DEF ProcessDies, lifecycleVars, threadVars
<1>7. ASSUME NEW m \in Models, AcquireDeleteLease(m) \/ EndDeleteLease(m)
      PROVE  Emptied'
  BY <1>1, <1>7 DEF AcquireDeleteLease, EndDeleteLease, lifecycleVars, threadVars
<1>8. UNCHANGED vars => Emptied'
  BY <1>1 DEF vars, lifecycleVars, threadVars
<1> QED
  BY StepCases, <1>2, <1>3, <1>4, <1>5, <1>6, <1>7, <1>8

LEMMA WorkersOwnStep == IInv /\ [Next]_vars => WorkersOwn'
<1> SUFFICES ASSUME IInv, [Next]_vars
             PROVE  WorkersOwn'
  OBVIOUS
<1> USE DEF IInv
<1>0. /\ epoch \in Nat /\ worker = [w \in Workers |-> worker[w]]
      /\ \A w \in Workers : w[1] \in Nat
  BY EpochRange DEF TypeOK, Workers
<1>1. CASE UNCHANGED <<epoch, child, worker>>
  BY <1>1 DEF WorkersOwn, Current
<1>9. ASSUME epoch' = epoch + 1, \A w \in Workers : worker'[w] # "none" => worker[w] # "none"
      PROVE  WorkersOwn'
  BY <1>0, <1>9 DEF WorkersOwn, Current, Numbered
<1>2. ASSUME NEW t \in Stoppers, Stop(t)
      PROVE  WorkersOwn'
  BY <1>2, <1>9 DEF Stop, NewEpoch
<1>3. ASSUME NEW t \in Starters, NEW m \in Models, Start(t, m)
      PROVE  WorkersOwn'
  BY <1>3, <1>9 DEF Start, NewEpoch
<1>4. ASSUME NEW t \in Threads, ThreadStep(t)
      PROVE  WorkersOwn'
  <2>1. Moves(t) /\ ChildMoves(t)
    BY <1>4, ThreadsMove, ThreadsMoveTheChild
  <2>2. SUFFICES ASSUME NEW w \in Workers, worker'[w] # "none", Current(w[1])'
                 PROVE  child' \in {None, w[1]}
    BY DEF WorkersOwn
  <2>3. Current(w[1])
    BY <2>1, <2>2 DEF Moves, Current
  <2>4. CASE worker[w] # "none"
    BY <2>1, <2>3, <2>4 DEF ChildMoves, WorkersOwn, Current
  <2>5. CASE worker[w] = "none"
    <3>1. pc[t] \in {"readiness", "monitor"} /\ w[1] = mine[t]
      BY <1>0, <2>1, <2>2, <2>5 DEF Moves
    <3>2. t \in Starters /\ pc[t] \in After /\ pc[t] # "install"
      BY <3>1, OnlyStartsGoOn DEF After, Stopping
    <3> QED
      BY <2>1, <3>1, <3>2 DEF ChildMoves, Emptied
  <2> QED
    BY <2>4, <2>5
<1>5. ASSUME NEW w \in Workers, WorkerStep(w)
      PROVE  WorkersOwn'
  <2>1. WorkerMoves(w) /\ child' \in {child, None}
    BY <1>5, WorkersMove, WorkersMoveTheSlots
  <2>2. \A v \in Workers : worker'[v] # "none" => worker[v] # "none"
    BY <1>0, <2>1 DEF WorkerMoves
  <2>3. CASE epoch' = epoch
    BY <2>1, <2>2, <2>3 DEF WorkersOwn, Current
  <2> QED
    BY <1>9, <2>1, <2>2, <2>3 DEF WorkerMoves
<1>6. ASSUME NEW e \in Epochs, ProcessDies(e)
      PROVE  UNCHANGED <<epoch, child, worker>>
  BY <1>6 DEF ProcessDies, lifecycleVars, threadVars
<1>7. ASSUME NEW m \in Models, AcquireDeleteLease(m) \/ EndDeleteLease(m)
      PROVE  UNCHANGED <<epoch, child, worker>>
  BY <1>7 DEF AcquireDeleteLease, EndDeleteLease, lifecycleVars, threadVars
<1>8. UNCHANGED vars => UNCHANGED <<epoch, child, worker>>
  BY DEF vars, lifecycleVars, worldVars, threadVars
<1> QED
  BY StepCases, <1>1, <1>2, <1>3, <1>4, <1>5, <1>6, <1>7, <1>8

LEMMA StoppedStep == IInv /\ [Next]_vars => Stopped'
<1> SUFFICES ASSUME IInv, [Next]_vars
             PROVE  Stopped'
  OBVIOUS
<1> USE DEF IInv
<1>0. /\ epoch \in Nat /\ pc = [u \in Threads |-> pc[u]] /\ mine = [u \in Threads |-> mine[u]]
      /\ \A t \in Threads : mine[t] \in Nat
  BY EpochRange DEF TypeOK
<1> USE RequestsAreApart DEF Threads
<1>1. CASE UNCHANGED <<epoch, mine, pc, child, registration, info>>
  BY <1>1 DEF Stopped, Current
<1>2. ASSUME NEW t \in Stoppers, Stop(t)
      PROVE  Stopped'
  <2>1. \A u \in Stoppers : mine'[u] = epoch' => pc'[u] = "take"
    BY <1>0, <1>2 DEF Stop, NewEpoch, Goto, Numbered
  <2> QED
    BY <2>1 DEF Stopped, Current
<1>3. ASSUME NEW t \in Starters, NEW m \in Models, Start(t, m)
      PROVE  Stopped'
  <2>1. \A u \in Stoppers : mine'[u] = mine[u] /\ mine[u] <= epoch
    BY <1>0, <1>3 DEF Start, NewEpoch, Numbered
  <2>2. epoch' = epoch + 1
    BY <1>3 DEF Start, NewEpoch
  <2> QED
    BY <1>0, <2>1, <2>2 DEF Stopped, Current
<1>4. ASSUME NEW t \in Threads, ThreadStep(t)
      PROVE  Stopped'
  <2>1. Moves(t) /\ ChildMoves(t) /\ SlotMoves(t)
    BY <1>4, ThreadsMove, ThreadsMoveTheChild, ThreadsMoveTheSlots
  <2>2. SUFFICES ASSUME NEW u \in Stoppers, mine[u] # None, Current(mine[u])
                 PROVE  /\ pc'[u] # "take" => registration' = None
                        /\ pc'[u] \notin {"take", "kill"} => child' = None
                        /\ pc'[u] = "idle" => info' = NoModel
    BY <2>1 DEF Moves, Stopped, Current
  <2>3. t \notin Stoppers => ~ Current(mine[t])
    BY <2>2 DEF Numbered, Current
  <2>4. t \in Stoppers => pc[t] # "install"
    BY DEF Guarded, Stopping
  <2>5. /\ registration' \in {registration, None} /\ child' \in {child, None}
        /\ info' \in {info, NoModel}
    BY <2>1, <2>3, <2>4 DEF SlotMoves, ChildMoves
  <2>6. CASE u = t
    BY <2>1, <2>2, <2>6 DEF SlotMoves, Stopped
  <2>7. CASE u # t
    BY <1>0, <2>1, <2>2, <2>5, <2>7 DEF Moves, Stopped
  <2> QED
    BY <2>6, <2>7
<1>5. ASSUME NEW w \in Workers, WorkerStep(w)
      PROVE  Stopped'
  <2>1. /\ WorkerMoves(w) /\ child' \in {child, None} /\ registration' \in {registration, None}
        /\ info' \in {info, NoModel} \/ Current(w[1])
    BY <1>5, WorkersMove, WorkersMoveTheSlots
  <2>2. CASE epoch' = epoch
    <3>1. \A u \in Stoppers : Current(mine[u]) => ~ Current(w[1])
      BY <2>1 DEF WorkerMoves, Numbered, Current
    <3> QED
      BY <2>1, <2>2, <3>1 DEF WorkerMoves, Stopped, Current
  <2>3. CASE epoch' = epoch + 1
    <3>1. \A u \in Stoppers : mine'[u] = mine[u] /\ mine[u] <= epoch
      BY <2>1 DEF WorkerMoves, Numbered
    <3> QED
      BY <1>0, <2>3, <3>1 DEF Stopped, Current
  <2> QED
    BY <2>1, <2>2, <2>3 DEF WorkerMoves
<1>6. ASSUME NEW e \in Epochs, ProcessDies(e)
      PROVE  UNCHANGED <<epoch, mine, pc, child, registration, info>>
  BY <1>6 DEF ProcessDies, lifecycleVars, threadVars
<1>7. ASSUME NEW m \in Models, AcquireDeleteLease(m) \/ EndDeleteLease(m)
      PROVE  UNCHANGED <<epoch, mine, pc, child, registration, info>>
  BY <1>7 DEF AcquireDeleteLease, EndDeleteLease, lifecycleVars, threadVars
<1>8. UNCHANGED vars => UNCHANGED <<epoch, mine, pc, child, registration, info>>
  BY DEF vars, lifecycleVars, worldVars, threadVars
<1> QED
  BY StepCases, <1>1, <1>2, <1>3, <1>4, <1>5, <1>6, <1>7, <1>8

LEMMA UnleasedStep == IInv /\ [Next]_vars => Unleased'
<1> SUFFICES ASSUME IInv, [Next]_vars
             PROVE  Unleased'
  OBVIOUS
<1> USE DEF IInv
<1>0. /\ epoch \in Nat /\ pc = [u \in Threads |-> pc[u]] /\ mine = [u \in Threads |-> mine[u]]
      /\ modelOf = [e \in Epochs |-> modelOf[e]]
      /\ epoch < MaxEpoch => epoch + 1 \in Epochs
      /\ \A t \in Threads : mine[t] \in Nat
  BY EpochRange DEF TypeOK
<1> USE RequestsAreApart DEF Threads, ModelOfThread
<1>1. CASE UNCHANGED <<engine, deleting, pc, mine, modelOf>>
  BY <1>1 DEF Unleased
<1>2. ASSUME NEW t \in Stoppers, Stop(t)
      PROVE  Unleased'
  BY <1>0, <1>2 DEF Stop, NewEpoch, Goto, worldVars, Unleased
<1>3. ASSUME NEW t \in Starters, NEW m \in Models, Start(t, m)
      PROVE  Unleased'
  <2>1. \A u \in Starters : u # t => pc'[u] = "idle"
    BY <1>0, <1>3 DEF Start, NewEpoch, Goto, Guarded
  <2>2. mine'[t] = epoch + 1 /\ modelOf'[epoch + 1] = m /\ m \notin deleting'
    BY <1>0, <1>3 DEF Start, NewEpoch, Startable
  <2>3. UNCHANGED <<engine, deleting>>
    BY <1>3 DEF Start
  <2> QED
    BY <2>1, <2>2, <2>3 DEF Unleased
<1>4. ASSUME NEW t \in Threads, ThreadStep(t)
      PROVE  Unleased'
  BY <1>0, <1>4, ThreadsMove DEF Moves, Unleased
<1>5. ASSUME NEW w \in Workers, WorkerStep(w)
      PROVE  Unleased'
  BY <1>5, WorkersMove DEF WorkerMoves, Unleased
<1>6. ASSUME NEW e \in Epochs, ProcessDies(e)
      PROVE  UNCHANGED <<engine, deleting, pc, mine, modelOf>>
  BY <1>6 DEF ProcessDies, threadVars
<1>7. ASSUME NEW m \in Models, AcquireDeleteLease(m) \/ EndDeleteLease(m)
      PROVE  Unleased'
  <2>1. UNCHANGED <<engine, pc, mine, modelOf>>
    BY <1>7 DEF AcquireDeleteLease, EndDeleteLease, threadVars
  <2>2. CASE AcquireDeleteLease(m)
    <3>1. engine = "llama" /\ deleting' = deleting \cup {m}
      BY <2>2 DEF AcquireDeleteLease
    <3>2. \A t \in Starters : pc[t] # "idle" => modelOf[mine[t]] # m
      BY <2>2, <3>1 DEF AcquireDeleteLease, StartingModel, Guarded
    <3> QED
      BY <2>1, <3>1, <3>2 DEF Unleased
  <2>3. CASE EndDeleteLease(m)
    BY <2>1, <2>3 DEF EndDeleteLease, Unleased
  <2> QED
    BY <1>7, <2>2, <2>3
<1>8. UNCHANGED vars => UNCHANGED <<engine, deleting, pc, mine, modelOf>>
  BY DEF vars, worldVars, threadVars
<1> QED
  BY StepCases, <1>1, <1>2, <1>3, <1>4, <1>5, <1>6, <1>7, <1>8

\* Where a process comes from and where it goes: a start has it in hand from its
\* spawn until it puts it into the slot or reaps it, and a slot that is emptied
\* has lost its process before.
LEMMA ThreadsMoveProcesses ==
  ASSUME TypeOK, Emptied, Guarded, NEW t \in Threads, ThreadStep(t)
  PROVE  \/ /\ pc[t] # "install" /\ procs' \subseteq procs
            /\ child' = child \/ child \notin procs'
         \/ /\ pc[t] # "install" /\ pc'[t] = "install" /\ t \in Starters
            /\ procs' = procs \cup {mine[t]} /\ child' = child
         \/ /\ pc[t] = "install" /\ child \notin procs
            /\ (child' = mine[t] /\ procs' = procs) \/ procs' = procs \ {mine[t]}
<1>1. pc = [u \in Threads |-> pc[u]]
  BY DEF TypeOK
<1> USE <1>1 DEF At, Goto, lifecycleVars, worldVars, ReapChild, UndoKill
<1>2. CASE TakeRegistration(t) \/ KillChild(t) \/ DropRegistration(t) \/ TakeWorkers(t)
  BY <1>2 DEF TakeRegistration, KillChild, DropRegistration, TakeWorkers
<1>3. CASE Joined(t) \/ Register(t) \/ StartFails(t)
  BY <1>3 DEF Joined, Register, StartFails
<1>4. CASE SpawnProcess(t)
  BY <1>4, OnlyStartsGoOn DEF SpawnProcess, Stopping
<1>5. CASE Install(t)
  <2>1. child = None /\ None \notin procs
    BY <1>5, OnlyStartsGoOn, EpochRange DEF Install, Emptied, Before, Stopping, TypeOK
  <2> QED
    BY <1>5, <2>1 DEF Install, ReapSpawned
<1>6. CASE Ready(t) \/ Publish(t) \/ Commit(t) \/ SpawnReadiness(t) \/ SpawnMonitor(t)
  BY <1>6 DEF Ready, Publish, Commit, SpawnReadiness, SpawnMonitor, NoWorker
<1>7. CASE TimedOut(t) \/ RollBackStart(t)
  BY <1>7 DEF TimedOut, RollBackStart
<1> QED
  BY <1>2, <1>3, <1>4, <1>5, <1>6, <1>7 DEF ThreadStep

LEMMA OwnedStep == IInv /\ [Next]_vars => ProcessesAreOwned'
<1> SUFFICES ASSUME IInv, [Next]_vars
             PROVE  ProcessesAreOwned'
  OBVIOUS
<1> USE DEF IInv
<1>0. pc = [u \in Threads |-> pc[u]] /\ mine = [u \in Threads |-> mine[u]]
  BY DEF TypeOK
<1> USE RequestsAreApart DEF Threads, At
<1>1. ASSUME procs' \subseteq procs, child' = child \/ child \notin procs', UNCHANGED <<pc, mine>>
      PROVE  ProcessesAreOwned'
  BY <1>1 DEF ProcessesAreOwned
<1>2. ASSUME NEW t \in Stoppers, Stop(t)
      PROVE  ProcessesAreOwned'
  BY <1>0, <1>2 DEF Stop, NewEpoch, Goto, worldVars, ProcessesAreOwned
<1>3. ASSUME NEW t \in Starters, NEW m \in Models, Start(t, m)
      PROVE  ProcessesAreOwned'
  BY <1>0, <1>3 DEF Start, NewEpoch, Goto, ProcessesAreOwned
<1>4. ASSUME NEW t \in Threads, ThreadStep(t)
      PROVE  ProcessesAreOwned'
  <2>1. Moves(t)
    BY <1>4, ThreadsMove
  <2>2. \A u \in Starters : u # t /\ pc[u] = "install" => pc'[u] = "install" /\ mine'[u] = mine[u]
    BY <1>0, <2>1 DEF Moves
  <2>3. CASE /\ pc[t] # "install" /\ procs' \subseteq procs
             /\ child' = child \/ child \notin procs'
    BY <2>2, <2>3 DEF ProcessesAreOwned
  <2>4. CASE /\ pc[t] # "install" /\ pc'[t] = "install" /\ t \in Starters
             /\ procs' = procs \cup {mine[t]} /\ child' = child
    BY <2>1, <2>2, <2>4 DEF Moves, ProcessesAreOwned
  <2>5. CASE /\ pc[t] = "install" /\ child \notin procs
             /\ (child' = mine[t] /\ procs' = procs) \/ procs' = procs \ {mine[t]}
    BY <2>2, <2>5 DEF ProcessesAreOwned
  <2> QED
    BY <1>4, <2>3, <2>4, <2>5, ThreadsMoveProcesses
<1>5. ASSUME NEW w \in Workers, WorkerStep(w)
      PROVE  ProcessesAreOwned'
  <2>1. UNCHANGED <<pc, mine>>
    BY <1>5, WorkersMove DEF WorkerMoves
  <2>2. procs' \subseteq procs /\ (child' = child \/ child \notin procs')
    BY <1>5 DEF WorkerStep, Monitor, Found, Readiness, Cleanup, UndoKill, ReapChild
  <2> QED
    BY <1>1, <2>1, <2>2
<1>6. ASSUME NEW e \in Epochs, ProcessDies(e)
      PROVE  ProcessesAreOwned'
  BY <1>1, <1>6 DEF ProcessDies, lifecycleVars, threadVars
<1>7. ASSUME NEW m \in Models, AcquireDeleteLease(m) \/ EndDeleteLease(m)
      PROVE  ProcessesAreOwned'
  BY <1>1, <1>7 DEF AcquireDeleteLease, EndDeleteLease, lifecycleVars, threadVars
<1>8. UNCHANGED vars => ProcessesAreOwned'
  BY <1>1 DEF vars, lifecycleVars, worldVars, threadVars
<1> QED
  BY StepCases, <1>2, <1>3, <1>4, <1>5, <1>6, <1>7, <1>8

LEMMA InitIInv == Init => IInv
<1> SUFFICES ASSUME Init
             PROVE  IInv
  OBVIOUS
<1> USE DEF Init
<1>1. TypeOK
  <2>1. modelOf \in [Epochs -> Models \cup {NoModel}] /\ info \in Models \cup {NoModel}
    OBVIOUS
  <2>2. /\ mine \in [Threads -> Epochs \cup {None}] /\ taken \in [Threads -> Epochs \cup {None}]
        /\ joins \in [Threads -> SUBSET Workers]
    OBVIOUS
  <2> QED
    BY <2>1, <2>2 DEF TypeOK, None
<1>2. Numbered
  BY EpochBound DEF Numbered, None
<1>3. Guarded
  BY RequestsAreApart DEF Guarded, Threads
<1>4. Emptied
  BY DEF Emptied, Threads, Before, After
<1>5. WorkersOwn /\ Stopped
  BY DEF WorkersOwn, Stopped, Threads
<1>6. Unleased /\ ProcessesAreOwned
  BY DEF Unleased, ProcessesAreOwned, Threads
<1> QED
  BY <1>1, <1>2, <1>3, <1>4, <1>5, <1>6 DEF IInv

LEMMA IInvStep == IInv /\ [Next]_vars => IInv'
BY TypeStep, NumberedStep, GuardedStep, EmptiedStep, WorkersOwnStep, StoppedStep, UnleasedStep,
   OwnedStep DEF IInv

-----------------------------------------------------------------------------
(* The theorems.                                                           *)

\* Numbers, guard, slots, workers, stops and leases fit together in every
\* reachable state.
THEOREM InductiveInvariant == Spec => []IInv
BY InitIInv, IInvStep, PTL DEF Spec

\* Every process has an owner who can stop it, and a stop that returned, with no
\* start after it, leaves the engine down for good (engine_lifecycle.rs).
THEOREM EngineStaysOwned == Spec => []EngineIsOwned
<1>1. IInv => EngineIsOwned
  <2> SUFFICES ASSUME IInv
               PROVE  StoppedStaysStopped
    BY DEF IInv, EngineIsOwned
  <2> QED
    BY DEF IInv, Stopped, StoppedStaysStopped, At, Threads
<1> QED
  BY InductiveInvariant, <1>1, PTL

\* A start or a worker that rolls back kills its own process, however late it
\* comes and whoever has taken over meanwhile (rollback_if_current).
THEOREM RollbackStaysOwn == Spec => RollbackIsOwn
<1> DEFINE Own ==
      /\ \A t \in Starters : pc[t] \in {"undoKill", "timedOut"} /\ pc'[t] # pc[t] /\ child' # child
                               => child = mine[t]
      /\ \A w \in Workers : worker[w] = "undoKill" /\ worker'[w] # "undoKill" /\ child' # child
                               => child = w[1]
<1>1. ASSUME IInv, Next, NEW t \in Starters, pc[t] \in {"undoKill", "timedOut"},
             pc'[t] # pc[t], child' # child
      PROVE  child = mine[t]
  <2>1. \A u \in Threads : ThreadStep(u) => Moves(u) /\ ChildMoves(u)
    BY <1>1, ThreadsMove, ThreadsMoveTheChild DEF IInv
  <2>2. child \in {None, mine[t]}
    BY <1>1 DEF IInv, Emptied, After
  <2>3. ThreadStep(t)
    <3>1. pc = [u \in Threads |-> pc[u]]
      BY <1>1 DEF IInv, TypeOK
    <3>2. ASSUME NEW u \in Stoppers, Stop(u) PROVE pc'[t] = pc[t]
      BY <1>1, <3>1, <3>2, RequestsAreApart DEF Stop, NewEpoch, Goto, Threads
    <3>3. ASSUME NEW u \in Starters, NEW m \in Models, Start(u, m) PROVE pc'[t] = pc[t]
      BY <1>1, <3>1, <3>3 DEF Start, NewEpoch, Goto, At, Threads
    <3>4. ASSUME NEW u \in Threads, ThreadStep(u), u # t PROVE pc'[t] = pc[t]
      BY <2>1, <3>1, <3>4 DEF Moves, Threads
    <3>5. ASSUME NEW w \in Workers, WorkerStep(w) PROVE pc' = pc
      BY <1>1, <3>5, WorkersMove DEF WorkerMoves, IInv
    <3>6. ASSUME NEW e \in Epochs, ProcessDies(e) PROVE pc' = pc
      BY <3>6 DEF ProcessDies, threadVars
    <3>7. ASSUME NEW m \in Models, AcquireDeleteLease(m) \/ EndDeleteLease(m) PROVE pc' = pc
      BY <3>7 DEF AcquireDeleteLease, EndDeleteLease, threadVars
    <3> QED
      BY <1>1, <3>2, <3>3, <3>4, <3>5, <3>6, <3>7 DEF Next
  <2>4. child' \in {child, None}
    BY <1>1, <2>1, <2>3 DEF ChildMoves, Threads
  <2> QED
    BY <1>1, <2>2, <2>4
<1>2. ASSUME IInv, Next, NEW w \in Workers, worker[w] = "undoKill", worker'[w] # "undoKill",
             child' # child
      PROVE  child = w[1]
  <2>1. worker = [v \in Workers |-> worker[v]]
    BY <1>2 DEF IInv, TypeOK
  <2>2. WorkerStep(w)
    <3>1. ASSUME NEW u \in Stoppers, Stop(u) PROVE worker' = worker
      BY <3>1 DEF Stop
    <3>2. ASSUME NEW u \in Starters, NEW m \in Models, Start(u, m) PROVE worker' = worker
      BY <3>2 DEF Start
    <3>3. ASSUME NEW u \in Threads, ThreadStep(u) PROVE worker' = worker \/ child' = child
      BY <3>3 DEF ThreadStep, TakeRegistration, KillChild, DropRegistration, TakeWorkers, Joined,
                  Register, StartFails, SpawnProcess, Install, Ready, Publish, Commit,
                  SpawnReadiness, SpawnMonitor, TimedOut, RollBackStart
    <3>4. ASSUME NEW v \in Workers, WorkerStep(v), v # w PROVE worker'[w] = worker[w]
      BY <1>2, <2>1, <3>4, WorkersMove DEF WorkerMoves, IInv
    <3>5. ASSUME NEW e \in Epochs, ProcessDies(e) PROVE worker' = worker
      BY <3>5 DEF ProcessDies, threadVars
    <3>6. ASSUME NEW m \in Models, AcquireDeleteLease(m) \/ EndDeleteLease(m) PROVE worker' = worker
      BY <3>6 DEF AcquireDeleteLease, EndDeleteLease, threadVars
    <3> QED
      BY <1>2, <3>1, <3>2, <3>3, <3>4, <3>5, <3>6 DEF Next
  <2>3. Readiness(w) /\ Current(w[1])
    BY <1>2, <2>2 DEF WorkerStep, Monitor, Readiness, Cleanup, Step, UndoKill
  <2>4. child' = None
    BY <1>2, <2>3 DEF Readiness, UndoKill, ReapChild, Step
  <2> QED
    BY <1>2, <2>3, <2>4 DEF IInv, WorkersOwn
<1>3. IInv /\ [Next]_vars => [Own]_vars
  BY <1>1, <1>2
<1> QED
  BY InductiveInvariant, <1>3, PTL DEF Spec, RollbackIsOwn

\* No process that reads a model's file comes up while a delete lease of the
\* model is held (LlamaModelStartGuard).
THEOREM NoStartUnderLease == Spec => NoStartUnderDeleteLease
<1> DEFINE Apart == \A e \in Epochs : e \in procs' \ procs => modelOf[e] \notin deleting
<1>1. ASSUME IInv, Next
      PROVE  Apart
  <2>1. ASSUME NEW t \in Threads, ThreadStep(t)
        PROVE  Apart
    <3>1. procs' \subseteq procs \/ (t \in Starters /\ procs' = procs \cup {mine[t]})
      BY <1>1, <2>1, ThreadsMoveProcesses DEF IInv
    <3>2. t \in Starters => modelOf[mine[t]] \notin deleting
      BY <1>1, <2>1, ThreadsMove DEF IInv, Moves, Unleased, ModelOfThread
    <3> QED
      BY <3>1, <3>2
  <2>2. (\E w \in Workers : WorkerStep(w)) \/ (\E e \in Epochs : ProcessDies(e)) => procs' \subseteq procs
    BY DEF WorkerStep, Monitor, Readiness, Cleanup, UndoKill, ReapChild, ProcessDies
  <2>3. \/ \E t \in Stoppers : Stop(t)
        \/ \E t \in Starters, m \in Models : Start(t, m)
        \/ \E m \in Models : AcquireDeleteLease(m) \/ EndDeleteLease(m)
        => procs' = procs
    BY DEF Stop, Start, AcquireDeleteLease, EndDeleteLease, worldVars
  <2> QED
    BY <1>1, <2>1, <2>2, <2>3 DEF Next
<1>2. IInv /\ [Next]_vars => [Apart]_vars
  BY <1>1
<1> QED
  BY InductiveInvariant, <1>2, PTL DEF Spec, NoStartUnderDeleteLease

=============================================================================
