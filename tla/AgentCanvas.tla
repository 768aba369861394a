------------------------------- MODULE AgentCanvas -------------------------------
(***************************************************************************)
(* One canvas session with its layers and snapshots, the tasks of the      *)
(* canvas agent that work on it (api/chat, task-store.ts, executor.ts and  *)
(* the agent's tools), and the user who edits it at the same time: layer   *)
(* routes, snapshot routes, undo of a task.                                *)
(*                                                                         *)
(* Each action is one query or transaction.  A layer is its place and its  *)
(* two flags; a snapshot is the layers that were read for it.  The drawing *)
(* that a snapshot also keeps is left out.                                 *)
(***************************************************************************)
EXTENDS Integers, Sequences, SequencesExt, FiniteSets

CONSTANTS Layers, FirstLayers,   \* all layers there may be, and those at first
          Places,                \* geometries
          Tasks, Users,          \* agent tasks, and user requests of many steps
          Cap,                   \* MAX_SNAPSHOTS_PER_SESSION
          MaxEdits,              \* bound: changes the user makes to layers
          MaxTools,              \* bound: canvas tools a task calls
          MaxSaves,              \* bound: snapshots that are written
          MaxCrashes             \* bound: how often the server dies

ASSUME FirstLayersAreLayers == FirstLayers \subseteq Layers
ASSUME CapPositive == Cap \in Nat \ {0}

VARIABLES
  layers,    \* CanvasLayer: the rows there are, by id
  snaps,     \* CanvasSnapshot, oldest first: id, isAutomatic, data
  saves,     \* the last snapshot id
  discarded, \* the snapshots the user deleted
  task,      \* AgentTask and its messages: status, beforeSnapshotId, answers
  step, tools, tool, held,   \* a task's run: where it is, calls left, the call
                             \* in flight, the layers read for a snapshot
  offered,   \* the client has been sent the undo button of the task
  user,      \* requests of several steps: restore, undo, save
  edits, wiped, crashes      \* wiped: someone chose to hide or delete a layer

runVars == <<task, step, tools, tool, held, offered>>
vars == <<layers, snaps, saves, discarded, runVars, user, edits, wiped, crashes>>

Layer == [at : Places, locked : BOOLEAN, hidden : BOOLEAN]
Canvas == UNION {[ids -> Layer] : ids \in SUBSET Layers}
NoCanvas == [l \in {} |-> 0]

NoTool == [kind |-> "none"]
Waiting == [kind |-> "none", step |-> "idle", task |-> "none", data |-> NoCanvas,
            held |-> NoCanvas, saved |-> 0]

TypeOK ==
  /\ layers \in Canvas
  /\ saves \in 0 .. MaxSaves
  /\ \A s \in Range(snaps) : s.id \in 1 .. saves /\ s.auto \in BOOLEAN /\ s.data \in Canvas
  /\ \A t \in Tasks :
       /\ task[t].status \in {"none", "RUNNING", "COMPLETED", "FAILED", "INTERRUPTED", "UNDONE"}
       /\ task[t].before \in 0 .. saves
       /\ held[t] \in Canvas
  /\ step \in [Tasks -> {"idle", "capture", "save", "attach", "tools", "call", "recapture",
                         "resave", "offer", "finish", "fail", "done", "dead"}]
  /\ tools \in [Tasks -> 0 .. MaxTools]
  /\ offered \in [Tasks -> BOOLEAN]
  /\ \A u \in Users : user[u].step \in {"idle", "capture", "save", "apply"}

Init ==
  /\ layers \in [FirstLayers -> {r \in Layer : ~ r.locked /\ ~ r.hidden}]
  /\ snaps = <<>>
  /\ saves = 0
  /\ discarded = {}
  /\ task = [t \in Tasks |-> [status |-> "none", before |-> 0, answers |-> 0]]
  /\ step = [t \in Tasks |-> "idle"]
  /\ tools = [t \in Tasks |-> MaxTools]
  /\ tool = [t \in Tasks |-> NoTool]
  /\ held = [t \in Tasks |-> NoCanvas]
  /\ offered = [t \in Tasks |-> FALSE]
  /\ user = [u \in Users |-> Waiting]
  /\ edits = 0
  /\ wiped = FALSE
  /\ crashes = 0

-----------------------------------------------------------------------------
(* Snapshots: canvas-snapshot.ts and the snapshot routes.                  *)

\* Faulty variant: the oldest snapshot goes, whoever made it.
PrunableAny(s) == TRUE

\* Only automatic snapshots are ever pruned.
Prunable(s) == s.auto

\* How many must go so that one more fits.
OverCap(n) == n - Cap + 1

\* The automatic snapshots that make room, oldest first.
Pruned(all) ==
  LET over == OverCap(Len(all))
      old == SelectSeq(all, Prunable)
  IN  {old[i] : i \in 1 .. (IF over < Len(old) THEN over ELSE Len(old))}

Kept(all) == SelectSeq(all, LAMBDA s : s \notin Pruned(all))

\* Faulty variant: whoever pruned believes to have made room.
NeverFull == FALSE

\* All of them are the user's own: nothing is pruned, and nothing is saved.
Full == Len(Kept(snaps)) >= Cap

\* The transaction that prunes and then creates.  Tasks that refer to a pruned
\* snapshot lose it (onDelete: SetNull).
Save(data, auto) ==
  /\ saves < MaxSaves
  /\ saves' = saves + 1
  /\ snaps' = Append(Kept(snaps), [id |-> saves + 1, auto |-> auto, data |-> data])

Exists(id) == \E s \in Range(snaps) : s.id = id

\* The reference of a task to a snapshot that is no longer there is null.
Before(t) == IF Exists(task[t].before) THEN task[t].before ELSE 0

DataOf(id) == (CHOOSE s \in Range(snaps) : s.id = id).data

\* The layers of data take its values, the others are hidden, none is created.
Applied(data) ==
  [l \in DOMAIN layers |-> IF l \in DOMAIN data THEN data[l]
                           ELSE [layers[l] EXCEPT !.hidden = TRUE]]

-----------------------------------------------------------------------------
(* A task: POST /api/chat, runAgent and the canvas tools.                  *)

Goes(t, s) == step' = [step EXCEPT ![t] = s]
runUnchanged == UNCHANGED <<user, edits, wiped, crashes, discarded>>

\* createAgentTask
Chat(t) ==
  /\ step[t] = "idle"
  /\ task' = [task EXCEPT ![t].status = "RUNNING"]
  /\ Goes(t, "capture")
  /\ UNCHANGED <<layers, snaps, saves, tools, tool, held, offered>> /\ runUnchanged

\* saveCanvasSnapshot reads the layers before its transaction.
Capture(t) ==
  /\ step[t] \in {"capture", "recapture"}
  /\ held' = [held EXCEPT ![t] = layers]
  /\ Goes(t, IF step[t] = "capture" THEN "save" ELSE "resave")
  /\ UNCHANGED <<layers, snaps, saves, task, tools, tool, offered>> /\ runUnchanged

\* "Before Luna task": without room for it the task goes on, without undo.
SaveBefore(t) ==
  /\ step[t] = "save"
  /\ \/ Goes(t, "fail") /\ UNCHANGED <<snaps, saves, task>>
     \/ Full /\ Goes(t, "tools") /\ UNCHANGED <<snaps, saves, task>>
     \/ /\ ~ Full /\ Save(held[t], TRUE)
        /\ task' = [task EXCEPT ![t].before = saves + 1]
        /\ Goes(t, "attach")
  /\ held' = [held EXCEPT ![t] = NoCanvas]
  /\ UNCHANGED <<layers, tools, tool, offered>> /\ runUnchanged

\* The reference fails when the snapshot has been pruned or deleted since.
Attach(t) ==
  /\ step[t] = "attach"
  /\ Goes(t, IF Before(t) # 0 THEN "tools" ELSE "fail")
  /\ UNCHANGED <<layers, snaps, saves, task, tools, tool, held, offered>> /\ runUnchanged

\* loadAgentLayer: the tool looks at the layer, and at its lock.
Call(t, l) ==
  /\ step[t] = "tools" /\ tools[t] > 0 /\ l \in DOMAIN layers
  /\ \/ ~ layers[l].locked
          /\ \E p \in Places : tool' = [tool EXCEPT ![t] = [kind |-> "move", layer |-> l, to |-> p]]
     \/ ~ layers[l].locked
          /\ tool' = [tool EXCEPT ![t] = [kind |-> "edit", layer |-> l]]
     \/ \E kind \in {"lock", "hide"}, b \in BOOLEAN :
          /\ layers[l].locked => kind = "lock" /\ ~ b
          /\ tool' = [tool EXCEPT ![t] = [kind |-> kind, layer |-> l, to |-> b]]
  /\ tools' = [tools EXCEPT ![t] = @ - 1]
  /\ Goes(t, "call")
  /\ UNCHANGED <<layers, snaps, saves, task, held, offered>> /\ runUnchanged

\* Faulty variant: hiding the source commits although its replacement fails.
HideOnly(l) == [layers EXCEPT ![l].hidden = TRUE]

\* saveResultAsReplacementLayer: hide the source and create its replacement.
Replace(l) ==
  LET fresh == CHOOSE n \in Layers \ DOMAIN layers : TRUE
  IN  [n \in DOMAIN layers \cup {fresh} |->
        IF n = fresh THEN [at |-> layers[l].at, locked |-> FALSE, hidden |-> FALSE]
        ELSE IF n = l THEN [layers[l] EXCEPT !.hidden = TRUE] ELSE layers[n]]

\* The write is by id alone: it asks for the row, not for its lock.
Write(t) ==
  /\ step[t] = "call"
  /\ LET c == tool[t]
     IN  \/ UNCHANGED layers          \* the tool fails, or its layer is gone
         \/ /\ c.layer \in DOMAIN layers
            /\ \/ c.kind = "move" /\ layers' = [layers EXCEPT ![c.layer].at = c.to]
               \/ c.kind = "lock" /\ layers' = [layers EXCEPT ![c.layer].locked = c.to]
               \/ c.kind = "hide" /\ layers' = [layers EXCEPT ![c.layer].hidden = c.to]
               \/ /\ c.kind = "edit" /\ Layers # DOMAIN layers
                  /\ layers' = Replace(c.layer)
  /\ tool' = [tool EXCEPT ![t] = NoTool]
  /\ Goes(t, "tools")
  /\ wiped' = (wiped \/ tool[t].kind = "hide")
  /\ UNCHANGED <<snaps, saves, task, tools, held, offered, user, edits, crashes, discarded>>

\* The model has answered, failed or was aborted; a run that touched the canvas
\* saves an automatic snapshot.  Writing the provenance of its assets can fail.
EndTools(t) ==
  /\ step[t] = "tools"
  /\ \/ Goes(t, IF tools[t] < MaxTools THEN "recapture" ELSE "offer")
     \/ Goes(t, "fail")
  /\ UNCHANGED <<layers, snaps, saves, task, tools, tool, held, offered>> /\ runUnchanged

SaveAfter(t) ==
  /\ step[t] = "resave"
  /\ \/ UNCHANGED <<snaps, saves>>      \* no room, or the save fails
     \/ ~ Full /\ Save(held[t], TRUE)
  /\ held' = [held EXCEPT ![t] = NoCanvas]
  /\ Goes(t, "offer")
  /\ UNCHANGED <<layers, task, tools, tool, offered>> /\ runUnchanged

\* writeResultParts: the button is on the client's screen before the task ends.
Offer(t) ==
  /\ step[t] = "offer"
  /\ offered' = [offered EXCEPT ![t] = task[t].before # 0 /\ tools[t] < MaxTools]
  /\ Goes(t, "finish")
  /\ UNCHANGED <<layers, snaps, saves, task, tools, tool, held>> /\ runUnchanged

\* Faulty variant: the answer is stored although the transaction fails.
AnswerStays(t) == [task EXCEPT ![t].answers = @ + 1]

\* finishAgentTask when its transaction is rolled back.
RolledBack(t) == task

\* finishAgentTask: the answer and the status, whatever the status was.
Finish(t) ==
  /\ step[t] = "finish"
  /\ \/ /\ task' = [task EXCEPT ![t].answers = @ + 1, ![t].status = "COMPLETED"]
        /\ Goes(t, "done")
     \/ /\ task' = RolledBack(t)
        /\ Goes(t, "fail")
  /\ UNCHANGED <<layers, snaps, saves, tools, tool, held, offered>> /\ runUnchanged

\* failAgentTask: an answer, and FAILED if the task is still running; its own
\* failure is swallowed.
Fail(t) ==
  /\ step[t] = "fail"
  /\ \/ UNCHANGED task
     \/ task' = [task EXCEPT ![t].answers = @ + 1,
                             ![t].status = IF @ = "RUNNING" THEN "FAILED" ELSE @]
  /\ Goes(t, "done")
  /\ UNCHANGED <<layers, snaps, saves, tools, tool, held, offered>> /\ runUnchanged

Run(t) == \/ Capture(t) \/ SaveBefore(t) \/ Attach(t) \/ (\E l \in Layers : Call(t, l))
          \/ Write(t) \/ EndTools(t) \/ SaveAfter(t) \/ Offer(t) \/ Finish(t) \/ Fail(t)

\* Faulty variant: opening the thread leaves its tasks as they are.
LeftRunning(status) == status

\* Faulty variant: a status the schema does not know.
Stopped(status) == "STOPPED"

\* listAgentThreadMessages: what seems to run was interrupted.
Interrupted(status) == IF status = "RUNNING" THEN "INTERRUPTED" ELSE status

OpenThread ==
  /\ task' = [t \in Tasks |-> [task[t] EXCEPT !.status = Interrupted(@)]]
  /\ UNCHANGED <<layers, snaps, saves, step, tools, tool, held, offered>> /\ runUnchanged

-----------------------------------------------------------------------------
(* The user: layer routes, snapshot routes and undo.                       *)

userUnchanged == UNCHANGED <<runVars, crashes>>

\* PATCH of a layer: the row must be unlocked, unless the change unlocks it.
Patch(l) ==
  /\ edits < MaxEdits /\ l \in DOMAIN layers
  /\ \/ ~ layers[l].locked /\ \E p \in Places : layers' = [layers EXCEPT ![l].at = p]
     \/ \E b \in BOOLEAN : layers[l].locked # b /\ layers' = [layers EXCEPT ![l].locked = b]
  /\ edits' = edits + 1
  /\ UNCHANGED <<snaps, saves, discarded, user, wiped>> /\ userUnchanged

\* DELETE of a layer, or a PATCH of its visibility.
Wipe(l) ==
  /\ edits < MaxEdits /\ l \in DOMAIN layers /\ ~ layers[l].locked
  /\ \/ layers' = [n \in DOMAIN layers \ {l} |-> layers[n]]
     \/ layers' = [layers EXCEPT ![l].hidden = ~ @]
  /\ edits' = edits + 1
  /\ wiped' = TRUE
  /\ UNCHANGED <<snaps, saves, discarded, user>> /\ userUnchanged

DeleteSnapshot ==
  /\ edits < MaxEdits
  /\ \E s \in Range(snaps) :
       /\ snaps' = SelectSeq(snaps, LAMBDA x : x # s)
       /\ discarded' = discarded \cup {s.id}
  /\ edits' = edits + 1
  /\ UNCHANGED <<layers, saves, user, wiped>> /\ userUnchanged

\* A request begins: it has found the snapshot it is about (restore, undo).
Ask(u) ==
  /\ user[u].step = "idle" /\ saves < MaxSaves
  /\ \/ user' = [user EXCEPT ![u] = [Waiting EXCEPT !.kind = "save", !.step = "capture"]]
     \/ \E s \in Range(snaps) :
          user' = [user EXCEPT ![u] = [Waiting EXCEPT !.kind = "restore", !.step = "capture",
                                                      !.data = s.data]]
     \/ \E t \in Tasks :
          /\ offered[t] /\ Before(t) # 0 /\ task[t].status # "UNDONE"
          /\ user' = [user EXCEPT ![u] = [Waiting EXCEPT !.kind = "undo", !.step = "capture",
                                                !.task = t, !.data = DataOf(task[t].before)]]
  /\ UNCHANGED <<layers, snaps, saves, discarded, edits, wiped>> /\ userUnchanged

Look(u) ==
  /\ user[u].step = "capture"
  /\ user' = [user EXCEPT ![u].held = layers, ![u].step = "save"]
  /\ UNCHANGED <<layers, snaps, saves, discarded, edits, wiped>> /\ userUnchanged

\* A restore or an undo ends when its save fails, but goes on without a snapshot
\* where there is no room for one and a save of the user answers 409.
Store(u) ==
  /\ user[u].step = "save"
  /\ LET manual == user[u].kind = "save"
         After(id) == IF manual THEN Waiting
                      ELSE [user[u] EXCEPT !.step = "apply", !.saved = id, !.held = NoCanvas]
     IN  \/ user' = [user EXCEPT ![u] = Waiting] /\ UNCHANGED <<snaps, saves>>
         \/ Full /\ user' = [user EXCEPT ![u] = After(0)] /\ UNCHANGED <<snaps, saves>>
         \/ /\ ~ Full /\ Save(user[u].held, ~ manual)
            /\ user' = [user EXCEPT ![u] = After(saves + 1)]
  /\ UNCHANGED <<layers, discarded, edits, wiped>> /\ userUnchanged

\* The transaction of a restore, and the one of undoAgentTask.
Apply(u) ==
  /\ user[u].step = "apply"
  /\ layers' = Applied(user[u].data)
  /\ task' = IF user[u].kind = "undo" THEN [task EXCEPT ![user[u].task].status = "UNDONE"] ELSE task
  /\ user' = [user EXCEPT ![u] = Waiting]
  /\ UNCHANGED <<snaps, saves, discarded, step, tools, tool, held, offered, edits, wiped, crashes>>

Crash ==
  /\ crashes < MaxCrashes
  /\ crashes' = crashes + 1
  /\ step' = [t \in Tasks |-> IF step[t] \in {"idle", "done"} THEN step[t] ELSE "dead"]
  /\ user' = [u \in Users |-> Waiting]
  /\ UNCHANGED <<layers, snaps, saves, discarded, task, tools, tool, held, offered, edits, wiped>>

Next ==
  \/ \E t \in Tasks : Chat(t) \/ Run(t)
  \/ OpenThread
  \/ \E l \in Layers : Patch(l) \/ Wipe(l)
  \/ DeleteSnapshot
  \/ \E u \in Users : Ask(u) \/ Look(u) \/ Store(u) \/ Apply(u)
  \/ Crash

Spec == Init /\ [][Next]_vars

\* A run goes on, and the thread is opened when the canvas is.
FairSpec == Spec /\ (\A t \in Tasks : WF_vars(Run(t))) /\ WF_vars(OpenThread)

-----------------------------------------------------------------------------
(* Properties.                                                             *)

\* Saves of the user, of tasks, of restores and of undos together never keep
\* more snapshots than the session may have.
SnapshotsWithinCap == Len(snaps) <= Cap

\* A snapshot the user saved is never destroyed by one that is saved by itself:
\* it goes only when the user deletes it.
ManualSnapshotsSurvive ==
  [][\A s \in Range(snaps) : ~ s.auto /\ s \notin Range(snaps') => s.id \in discarded']_vars

\* The canvas never goes blank by itself.  Edits hide their source, undo and
\* restore hide what they do not know: as long as nobody chose to hide or delete
\* a layer, each order of these leaves a layer visible.
CanvasNeverGoesBlank == ~ wiped => \E l \in DOMAIN layers : ~ layers[l].hidden

\* A task that has ended has one answer in its thread, not two.
AnsweredOnce == \A t \in Tasks : task[t].answers <= 1

\* No task seems to run forever: its own run ends it, or the thread does after
\* the server died.
TasksSettle == \A t \in Tasks : task[t].status = "RUNNING" ~> task[t].status # "RUNNING"

\* The cap holds, and costs only snapshots that were saved by themselves.
CapSparesTheUser == [](TypeOK /\ SnapshotsWithinCap) /\ ManualSnapshotsSurvive

\* A task ends, and is answered once.
TasksEndOnce == []AnsweredOnce /\ TasksSettle

\* What the restore route says of itself: it "Captures a fresh "Before restore"
\* auto-snapshot so the restore itself is undoable."
RestoreIsUndoable ==
  \A u \in Users : user[u].kind = "restore" /\ user[u].step = "apply" => user[u].saved # 0
=============================================================================
