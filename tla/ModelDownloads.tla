--------------------------- MODULE ModelDownloads ---------------------------
(***************************************************************************)
(* Downloads of models: the jobs, tasks, pending cancels and delete leases *)
(* of download.rs, the deletions of models that take those leases (the     *)
(* models/[modelId] route), and the bridge that is revoked and drained     *)
(* when the runtime stops (http_bridge.rs).                                *)
(*                                                                         *)
(* A job is named by the id the client made for it and always asks for the *)
(* same file.  Deletions are serial: they hold the exclusive gate.  What   *)
(* they do to registry and settings is in ModelDeletion; here they matter  *)
(* for the files they take away and the leases they hold meanwhile.        *)
(***************************************************************************)
EXTENDS Integers, FiniteSets, Sequences

CONSTANTS Jobs, Dests, Deletions,
          DestOf,       \* the destination a job downloads to
          FilesOf,      \* the destinations a deletion removes
          None,         \* no deletion
          MaxHistory,   \* MAX_TERMINAL_HISTORY
          MaxPending,   \* MAX_PENDING_CANCELS
          Budgets       \* of each case: starts of each job, deletions, faults
                        \* (panics, failing writes, lost calls) and restarts

ASSUME DestinationsAreKnown == DestOf \in [Jobs -> Dests] /\ FilesOf \in [Deletions -> SUBSET Dests]
ASSUME JobsFinite == IsFiniteSet(Jobs)
ASSUME NoneIsNoDeletion == None \notin Deletions
ASSUME BoundsAreNat == MaxHistory \in Nat /\ MaxPending \in Nat \ {0}
ASSUME BudgetsAreNat ==
  Budgets \subseteq [starts : [Jobs -> Nat], deletions : SUBSET Deletions, faults : Nat, restarts : Nat]

VARIABLES
  job,       \* the table of jobs: status, owner of its destination, cancel flag
  finished,  \* the ended jobs of the table, oldest first
  pending,   \* ids canceled before they were reserved, oldest first
  told,      \* history: jobs whose user was told that the cancel is requested
  asked,     \* start requests admitted and not yet reserved
  task,      \* where a job's task stands
  active,    \* the count of background tasks
  file,      \* what is at a destination
  part,      \* what is at its .part name
  lease,     \* the deletion a destination is leased to
  del,       \* the deletions
  bridge,
  budget     \* bound: what is left of the case's budget

table == <<job, finished, pending, told>>
disk == <<file, part>>
vars == <<table, asked, task, active, disk, lease, del, bridge, budget>>

Terminal == {"ready", "error", "canceled"}
Active == {"queued", "downloading"}
NoJob == [status |-> "none", owns |-> FALSE, cancel |-> FALSE, why |-> "none"]

\* Where a task may still read or write its destination.
Working == {"spawned", "trust", "doubt", "distrust", "connect", "stream", "hash",
            "rename", "publish", "discard", "failed"}
Held(x) == {d \in Dests : lease[d] = x}
ActiveOn(ds) == {j \in Jobs : job[j].status \in Active /\ DestOf[j] \in ds}

Fault == budget.faults > 0 /\ budget' = [budget EXCEPT !.faults = @ - 1]
In(s) == {s[i] : i \in 1 .. Len(s)}
\* A sequence without an element that is there once at most.
Without(s, e) ==
  IF e \notin In(s) THEN s
  ELSE LET n == CHOOSE i \in 1 .. Len(s) : s[i] = e
       IN  [i \in 1 .. Len(s) - 1 |-> s[IF i < n THEN i ELSE i + 1]]
Append1(s, e) == Append(Without(s, e), e)

NoDeletion == [at |-> "idle", left |-> {}, taken |-> {}, beats |-> TRUE]

\* A destination may hold a good file, one whose digest is wrong, or none.
Init ==
  /\ job = [j \in Jobs |-> NoJob] /\ finished = <<>> /\ pending = <<>> /\ told = {}
  /\ asked = {} /\ task = [j \in Jobs |-> "none"] /\ active = 0
  /\ file \in [Dests -> {"none", "good", "wrong"}] /\ part = [d \in Dests |-> "none"]
  /\ lease = [d \in Dests |-> None] /\ del = [x \in Deletions |-> NoDeletion]
  /\ bridge = "open" /\ budget \in Budgets

-----------------------------------------------------------------------------
(* The table of jobs, each operation under its lock.                        *)

With(j, status, why) ==
  [job EXCEPT ![j].status = status, ![j].owns = status \notin Terminal,
              ![j].why = IF status = "error" THEN why ELSE "none"]

\* Faulty: the status is committed as it comes.
CommittedBlindly(j, status, why) == With(j, status, why)

\* What update_job_status makes of the table: an end is final, though the same
\* end may be written again, progress after a cancel is ignored, and a cancel
\* turns any other end into canceled.
Committed(j, status, why) ==
  LET now == job[j].status
      ended == now \in Terminal \cup {"none"}
  IN  CASE ended /\ now # status -> job
        [] ended /\ now = status -> With(j, status, why)
        [] ~ ended /\ job[j].cancel /\ status \notin Terminal -> job
        [] ~ ended /\ job[j].cancel /\ status \in Terminal -> With(j, "canceled", why)
        [] OTHER -> With(j, status, why)

Commit(j, status, why) ==
  /\ job' = Committed(j, status, why)
  /\ finished' = IF job[j].status \in Active /\ job'[j].status \in Terminal
                 THEN Append(finished, j) ELSE finished
  /\ UNCHANGED <<pending, told>>

\* Faulty: a cancel gives the destination up at once.
CanceledReleasing(js) == [j \in Jobs |-> IF j \in js /\ job[j].status \in Active
                                         THEN [job[j] EXCEPT !.cancel = TRUE, !.owns = FALSE] ELSE job[j]]

\* The flag of every active job among js; the task will notice.
Canceled(js) == [j \in Jobs |-> IF j \in js /\ job[j].status \in Active
                                THEN [job[j] EXCEPT !.cancel = TRUE] ELSE job[j]]

\* request_cancel_job: an unknown id is remembered, the oldest one is forgotten
\* when there are too many.  The caller hears 202 unless the job has ended.
RequestCancel(j) ==
  IF job[j].status = "none"
  THEN LET grown == Append1(pending, j)
       IN  /\ pending' = IF Len(grown) > MaxPending THEN Tail(grown) ELSE grown
           /\ told' = (told \cup {j}) \ (IF Len(grown) > MaxPending THEN {Head(grown)} ELSE {})
           /\ UNCHANGED <<job, finished>>
  ELSE /\ job' = Canceled({j})
       /\ told' = IF job[j].status \in Active THEN told \cup {j} ELSE told
       /\ UNCHANGED <<finished, pending>>

-----------------------------------------------------------------------------
(* Starting and canceling a download.                                       *)

AskStart(j) ==
  /\ bridge = "open" /\ j \notin asked
  /\ budget.starts[j] > 0 /\ budget' = [budget EXCEPT !.starts[j] = @ - 1]
  /\ asked' = asked \cup {j}
  /\ UNCHANGED <<table, task, active, disk, lease, del, bridge>>

\* Faulty: a delete lease does not matter.
ReservableBesideDeletion(j) == \A k \in Jobs : job[k].owns => DestOf[k] # DestOf[j]
\* Nobody owns the destination and no deletion has leased it.
Reservable(j) ==
  /\ lease[DestOf[j]] = None
  /\ \A k \in Jobs : job[k].owns => DestOf[k] # DestOf[j]

\* prune_download_history: what ended more than ten minutes ago goes, and the
\* oldest above the cap; by then their tasks are over.
Histories ==
  {SubSeq(finished, n + 1, Len(finished)) : n \in {m \in 0 .. Len(finished) :
     /\ Len(finished) - m <= MaxHistory
     /\ \A i \in 1 .. m : task[finished[i]] = "none"}}

\* A known id is answered at once.  Otherwise a remembered cancel makes a job
\* that has ended, a busy destination refuses, or the job is queued.
Reserve(j) ==
  /\ j \in asked /\ asked' = asked \ {j}
  /\ pending' = Without(pending, j)
  /\ \E kept \in Histories :
       LET gone == In(finished) \ In(kept)
           rest == [k \in Jobs |-> IF k \in gone THEN NoJob ELSE job[k]]
           Put(status) == [rest EXCEPT ![j] = [status |-> status, owns |-> status = "queued",
                                               cancel |-> status = "canceled", why |-> "none"]]
           known == rest[j].status # "none"
           early == ~ known /\ j \in In(pending)
       IN  /\ told' = told \ gone
           /\ finished' = IF early THEN Append(kept, j) ELSE kept
           /\ \/ early /\ job' = Put("canceled") /\ UNCHANGED task
              \/ /\ ~ known /\ ~ early /\ Reservable(j)
                 /\ job' = Put("queued") /\ task' = [task EXCEPT ![j] = "reserved"]
              \/ (known \/ ~ early) /\ (known \/ ~ Reservable(j)) /\ job' = rest /\ UNCHANGED task
  /\ UNCHANGED <<active, disk, lease, del, bridge, budget>>

\* A symlink, a full disk, an odd address: refused before the reservation.
StartRefused(j) ==
  /\ j \in asked /\ job[j].status = "none" /\ asked' = asked \ {j}
  /\ UNCHANGED <<table, task, active, disk, lease, del, bridge, budget>>

\* The handler counts the task, spawns it and answers.
Spawn(j) ==
  /\ task[j] = "reserved"
  /\ task' = [task EXCEPT ![j] = "spawned"] /\ active' = active + 1
  /\ UNCHANGED <<table, asked, disk, lease, del, bridge, budget>>

CancelByUser(j) ==
  /\ bridge = "open" /\ RequestCancel(j)
  /\ UNCHANGED <<asked, task, active, disk, lease, del, bridge, budget>>

\* A remembered cancel lapses after two minutes, longer than a start is on its way.
PendingLapses ==
  /\ pending # <<>> /\ Head(pending) \notin asked
  /\ pending' = Tail(pending) /\ told' = told \ {Head(pending)}
  /\ UNCHANGED <<job, finished, asked, task, active, disk, lease, del, bridge, budget>>

-----------------------------------------------------------------------------
(* The task of a job: run_download_task.                                    *)

At(j, step) == task[j] = step
Goto(j, step) == task' = [task EXCEPT ![j] = step] /\ UNCHANGED table
End(j, status) == Commit(j, status, "step") /\ task' = [task EXCEPT ![j] = "over"]
Abandon(j) == job[j].cancel /\ End(j, "canceled")   \* what is on disk stays for a resume
D(j) == DestOf[j]
At1(d, f, v) == [f EXCEPT ![d] = v]
KeepDisk == UNCHANGED disk
NoFault == UNCHANGED budget

\* A file already there is hashed, through the handle opened here.
Begin(j) ==
  /\ At(j, "spawned") /\ KeepDisk /\ NoFault
  /\ \/ Abandon(j)
     \/ ~ job[j].cancel /\ Goto(j, CASE file[D(j)] = "none" -> "connect"
                                     [] file[D(j)] = "good" -> "trust"
                                     [] OTHER -> "doubt")
     \/ ~ job[j].cancel /\ Goto(j, "failed")

Trust(j) ==
  /\ task[j] \in {"trust", "doubt"} /\ KeepDisk /\ NoFault
  /\ \/ Abandon(j)
     \/ ~ job[j].cancel /\ At(j, "trust") /\ End(j, "ready")
     \/ ~ job[j].cancel /\ At(j, "doubt") /\ Goto(j, "distrust")
     \/ ~ job[j].cancel /\ Goto(j, "failed")    \* no digest, or it cannot be read

\* unlink_destination, through a quarantine name.
Distrust(j) ==
  /\ At(j, "distrust") /\ Goto(j, "failed") /\ UNCHANGED part
  /\ \/ file' = At1(D(j), file, "none") /\ NoFault
     \/ UNCHANGED file /\ Fault

\* The answer to the request, with a range when there is a part: it fails, it
\* says that the part is complete or too long, or the transfer begins.
Connect(j) ==
  /\ At(j, "connect") /\ NoFault
  /\ \/ Abandon(j) /\ KeepDisk
     \/ ~ job[j].cancel /\ Goto(j, "failed") /\ KeepDisk
     \/ part[D(j)] \in {"whole", "wrong"} /\ Goto(j, "hash") /\ KeepDisk
     \/ part[D(j)] = "wrong" /\ Goto(j, "discard") /\ KeepDisk
     \/ /\ part' = At1(D(j), part, "partial") /\ UNCHANGED file
        /\ Commit(j, "downloading", "none") /\ task' = [task EXCEPT ![j] = "stream"]

\* The body: all of it, an error that keeps the part, or one that cannot.  A
\* deletion that lost its lease may have taken the part's name meanwhile.
Stream(j) ==
  /\ At(j, "stream") /\ UNCHANGED file
  /\ \/ Abandon(j) /\ UNCHANGED part /\ NoFault
     \/ ~ job[j].cancel /\ Goto(j, "failed") /\ UNCHANGED part /\ NoFault
     \/ /\ ~ job[j].cancel /\ Goto(j, "hash") /\ NoFault
        /\ \E whole \in {"whole", "wrong"} :
             part' = IF part[D(j)] = "none" THEN part ELSE At1(D(j), part, whole)
     \/ Goto(j, "discard") /\ UNCHANGED part /\ Fault

Hash(j) ==
  /\ At(j, "hash") /\ KeepDisk
  /\ \/ Abandon(j) /\ NoFault
     \/ ~ job[j].cancel /\ part[D(j)] \in {"whole", "none"} /\ Goto(j, "rename") /\ NoFault
     \/ ~ job[j].cancel /\ part[D(j)] # "whole" /\ Goto(j, "discard") /\ NoFault
     \/ ~ job[j].cancel /\ Goto(j, "discard") /\ Fault

\* rename_part_to_destination: the part that was hashed, to a name that is free.
Publishable(d) == part[d] = "whole" /\ file[d] = "none"

Rename(j) ==
  /\ At(j, "rename")
  /\ \/ Abandon(j) /\ KeepDisk /\ NoFault
     \/ /\ ~ job[j].cancel /\ Publishable(D(j))
        /\ file' = At1(D(j), file, "good") /\ part' = At1(D(j), part, "none")
        /\ \/ Goto(j, "publish") /\ NoFault
           \/ Goto(j, "failed") /\ Fault     \* the new name cannot be opened
     \/ ~ job[j].cancel /\ ~ Publishable(D(j)) /\ Goto(j, "failed") /\ KeepDisk /\ NoFault

\* After the rename a cancel still wins, and the file stays.
Publish(j) == At(j, "publish") /\ End(j, "ready") /\ KeepDisk /\ NoFault

\* A part that cannot be resumed goes before the job ends.
Discard(j) ==
  /\ At(j, "discard") /\ Goto(j, "failed") /\ UNCHANGED file
  /\ \/ part' = At1(D(j), part, "none") /\ NoFault
     \/ UNCHANGED part /\ Fault

Failed(j) == At(j, "failed") /\ End(j, "error") /\ KeepDisk /\ NoFault

Panic(j) == task[j] \in Working /\ Goto(j, "over") /\ KeepDisk /\ Fault

\* Faulty: a task that stopped unexpectedly leaves its job as it is.
DropSilently(j) ==
  /\ At(j, "over") /\ Goto(j, "none") /\ active' = active - 1
  /\ KeepDisk /\ NoFault
\* DownloadTaskCompletionGuard: a job that has not ended ends here, and one that
\* ended with an error is given another reason.
Drop(j) ==
  /\ At(j, "over") /\ Commit(j, "error", "stopped") /\ task' = [task EXCEPT ![j] = "none"]
  /\ active' = active - 1
  /\ KeepDisk /\ NoFault

TaskStep(j) ==
  /\ \/ UNCHANGED active
        /\ \/ Begin(j) \/ Trust(j) \/ Distrust(j) \/ Connect(j) \/ Stream(j) \/ Hash(j)
           \/ Rename(j) \/ Publish(j) \/ Discard(j) \/ Failed(j) \/ Panic(j)
     \/ Drop(j)
  /\ UNCHANGED <<asked, lease, del, bridge>>

-----------------------------------------------------------------------------
(* Deleting a model: DELETE models/[modelId], as far as downloads matter.   *)

Running(x) == del[x].at \notin {"idle", "done", "gone"}
Moved(x, step, left) == del' = [del EXCEPT ![x].at = step, ![x].left = left]
Frame == UNCHANGED <<asked, task, active, bridge>>

\* The exclusive gate: one deletion at a time, each under a lease id of its own.
BeginDeletion(x) ==
  /\ del[x].at = "idle" /\ x \in budget.deletions /\ \A y \in Deletions : ~ Running(y)
  /\ bridge = "open"
  /\ del' = [del EXCEPT ![x] = [NoDeletion EXCEPT !.at = "acquire", !.left = FilesOf[x]]]
  /\ UNCHANGED <<table, disk, lease, budget>> /\ Frame

\* A call of the handler is not answered: the bridge is revoked, or by a fault.
Lost ==
  \/ bridge # "open" /\ UNCHANGED budget
  \/ Fault

Unleased(ds) == [d \in Dests |-> IF d \in ds THEN None ELSE lease[d]]

\* The bridge leases the destinations in turn and takes all back when one is
\* another's.  When the answer is lost the handler has nothing to release.
Acquire(x) ==
  /\ del[x].at = "acquire" /\ UNCHANGED <<table, disk>> /\ Frame
  /\ \/ \E d \in del[x].left : /\ bridge = "open" /\ (lease[d] = None \/ lease[d] = x)
                               /\ lease' = [lease EXCEPT ![d] = x]
                               /\ Moved(x, "acquire", del[x].left \ {d}) /\ UNCHANGED budget
     \/ \E d \in del[x].left : /\ bridge = "open" /\ lease[d] # None /\ lease[d] # x
                               /\ lease' = Unleased(Held(x))
                               /\ Moved(x, "done", {}) /\ UNCHANGED budget
     \/ del[x].left = {} /\ Moved(x, "settle", {}) /\ UNCHANGED <<lease, budget>>
     \/ Lost /\ Moved(x, "done", {}) /\ UNCHANGED lease

Settle(x) ==
  /\ del[x].at = "settle" /\ UNCHANGED <<table, disk, lease>> /\ Frame
  /\ LET seen == ActiveOn(FilesOf[x])
     IN  \/ bridge = "open" /\ seen = {} /\ Moved(x, "renew", FilesOf[x]) /\ UNCHANGED budget
         \/ bridge = "open" /\ seen # {} /\ Moved(x, "cancel", seen) /\ UNCHANGED budget
         \/ Lost /\ Moved(x, "release", {})

\* The cancels are sent together: one that fails ends the deletion, and the
\* others still arrive.  A job that ended meanwhile is refused, with 409.
CancelDownload(x) ==
  /\ del[x].at \in {"cancel", "release", "done"} /\ UNCHANGED <<disk, lease>> /\ Frame
  /\ \E j \in del[x].left :
       LET left == del[x].left \ {j}
           failed == IF del[x].at = "cancel" THEN "release" ELSE del[x].at
           sent == IF del[x].at = "cancel" /\ left = {} THEN "poll" ELSE del[x].at
       IN  \/ /\ bridge = "open" /\ job[j].status \notin Terminal /\ RequestCancel(j)
              /\ Moved(x, sent, left) /\ UNCHANGED budget
           \/ /\ bridge = "open" /\ job[j].status \in Terminal /\ Moved(x, failed, left)
              /\ UNCHANGED <<table, budget>>
           \/ bridge = "open" /\ RequestCancel(j) /\ Moved(x, failed, left) /\ Fault
           \/ /\ Lost /\ Moved(x, failed, left)
              /\ UNCHANGED table

\* Thirty looks at the list: the jobs have ended, or it took too long.
Poll(x) ==
  /\ del[x].at = "poll" /\ UNCHANGED <<table, disk, lease, budget>> /\ Frame
  /\ \/ bridge = "open" /\ ActiveOn(FilesOf[x]) = {} /\ Moved(x, "renew", FilesOf[x])
     \/ Moved(x, "release", {})

\* renew_destination_delete_lease: still leased, and nobody's download.
Renewable(x, d) ==
  /\ lease[d] = x
  /\ \A j \in Jobs : DestOf[j] = d /\ job[j].owns => job[j].status \notin Active

Renew(x) ==
  /\ del[x].at = "renew" /\ UNCHANGED <<table, disk>> /\ Frame
  /\ \/ \E d \in del[x].left : /\ bridge = "open" /\ Renewable(x, d)
                               /\ Moved(x, "renew", del[x].left \ {d}) /\ UNCHANGED <<lease, budget>>
     \/ \E d \in del[x].left : /\ bridge = "open" /\ ~ Renewable(x, d)
                               /\ lease' = Unleased(Held(x) \cap (FilesOf[x] \ del[x].left))
                               /\ Moved(x, "release", {}) /\ UNCHANGED budget
     \/ /\ del[x].left = {} /\ Moved(x, "stage", FilesOf[x] \X {"file", "part"})
        /\ UNCHANGED <<lease, budget>>
     \/ Lost /\ Moved(x, "release", {}) /\ UNCHANGED lease

\* The heartbeat renews every ten seconds until a renewal fails.
BeatFails(x) ==
  /\ del[x].at \in {"stage", "commit"} /\ del[x].beats
  /\ Lost
  /\ del' = [del EXCEPT ![x].beats = FALSE]
  /\ UNCHANGED <<table, disk, lease>> /\ Frame

\* A lease lasts a minute: it outlives a renewal and every heartbeat.
Fresh(d) ==
  \E x \in Deletions : /\ lease[d] = x
                       /\ \/ del[x].at = "renew" /\ d \notin del[x].left
                          \/ del[x].at \in {"stage", "commit"} /\ del[x].beats
Expire(d) ==
  /\ lease[d] # None /\ ~ Fresh(d) /\ lease' = [lease EXCEPT ![d] = None]
  /\ UNCHANGED <<table, disk, del, budget>> /\ Frame

\* stageManagedModelFiles moves what has the name, file and part, aside.
Stage(x) ==
  /\ del[x].at = "stage" /\ UNCHANGED <<table, lease, budget>> /\ Frame
  /\ \/ \E s \in del[x].left :
          LET d == s[1]
              is == IF s[2] = "file" THEN file[d] ELSE part[d]
          IN  /\ del' = [del EXCEPT ![x].left = @ \ {s},
                                    ![x].taken = IF is = "none" THEN @ ELSE @ \cup {<<d, s[2], is>>}]
              /\ IF s[2] = "file" THEN file' = At1(d, file, "none") /\ UNCHANGED part
                                  ELSE part' = At1(d, part, "none") /\ UNCHANGED file
     \/ del[x].left = {} /\ Moved(x, "commit", {}) /\ UNCHANGED disk

\* What was taken goes back to the names that are free.
Back(taken, d, kind, is, contents) ==
  IF is # "none" \/ {v \in contents : <<d, kind, v>> \in taken} = {} THEN {is}
  ELSE {v \in contents : <<d, kind, v>> \in taken}
PutBack(taken) ==
  /\ file' \in [Dests -> {"none", "good", "wrong"}]
  /\ part' \in [Dests -> {"none", "partial", "whole", "wrong"}]
  /\ \A d \in Dests : /\ file'[d] \in Back(taken, d, "file", file[d], {"good", "wrong"})
                      /\ part'[d] \in Back(taken, d, "part", part[d], {"partial", "whole", "wrong"})

\* The handler asks whether the heartbeat is healthy: then the model is gone,
\* else it is put back, as after any other failure of the commit.
Decide(x) ==
  /\ del[x].at = "commit" /\ UNCHANGED <<table, lease>> /\ Frame
  /\ del' = [del EXCEPT ![x].at = "release", ![x].taken = {}]
  /\ \/ del[x].beats /\ UNCHANGED <<disk, budget>>
     \/ ~ del[x].beats /\ PutBack(del[x].taken) /\ UNCHANGED budget
     \/ PutBack(del[x].taken) /\ Fault

Release(x) ==
  /\ del[x].at = "release" /\ Moved(x, "done", del[x].left) /\ UNCHANGED <<table, disk>> /\ Frame
  /\ \/ bridge = "open" /\ lease' = Unleased(Held(x)) /\ UNCHANGED budget
     \/ Lost /\ UNCHANGED lease

DeletionStep(x) ==
  \/ Acquire(x) \/ Settle(x) \/ CancelDownload(x) \/ Poll(x) \/ Renew(x) \/ Stage(x)
  \/ Decide(x) \/ Release(x)

-----------------------------------------------------------------------------
(* The bridge stops with its runtime, and starts again with the next one.   *)

\* Nothing more is admitted, and every active job is told to stop.
Revoke ==
  /\ bridge = "open" /\ bridge' = "revoked" /\ job' = Canceled(Jobs)
  /\ UNCHANGED <<finished, pending, told, asked, task, active, disk, lease, del, budget>>

Handling == asked # {} \/ \E j \in Jobs : task[j] = "reserved"

\* Faulty: the second sweep does not wait for the handlers.
JoinAtOnce ==
  /\ bridge = "revoked" /\ bridge' = "draining" /\ job' = Canceled(Jobs)
  /\ UNCHANGED <<finished, pending, told, asked, task, active, disk, lease, del, budget>>
\* Once the accepted handlers have returned, what they started is told as well.
Join ==
  /\ bridge = "revoked" /\ ~ Handling /\ bridge' = "draining" /\ job' = Canceled(Jobs)
  /\ UNCHANGED <<finished, pending, told, asked, task, active, disk, lease, del, budget>>

Drained ==
  /\ bridge = "draining" /\ active = 0 /\ bridge' = "drained"
  /\ UNCHANGED <<table, asked, task, active, disk, lease, del, budget>>

\* The next runtime: a deletion the old one was in is put back, or finished
\* when its commit was recorded.
Restart ==
  /\ bridge = "drained" /\ bridge' = "open"
  /\ budget.restarts > 0 /\ budget' = [budget EXCEPT !.restarts = @ - 1]
  /\ del' = [x \in Deletions |-> IF Running(x) THEN [NoDeletion EXCEPT !.at = "gone"]
                                 ELSE [del[x] EXCEPT !.left = {}]]
  /\ \/ PutBack(UNION {del[x].taken : x \in Deletions})
     \/ (\E x \in Deletions : del[x].at = "commit") /\ UNCHANGED disk
  /\ UNCHANGED <<table, asked, task, active, lease>>

Next ==
  \/ \E j \in Jobs : \/ AskStart(j) \/ Reserve(j) \/ StartRefused(j) \/ Spawn(j)
                     \/ CancelByUser(j) \/ TaskStep(j)
  \/ PendingLapses
  \/ \E x \in Deletions : BeginDeletion(x) \/ DeletionStep(x) \/ BeatFails(x)
  \/ \E d \in Dests : Expire(d)
  \/ Revoke \/ Join \/ Drained \/ Restart

\* Handlers return, tasks are polled and every wait of theirs has a time-out,
\* leases run out, and a stop that has begun goes on.
Fairness ==
  /\ \A j \in Jobs : WF_vars(Reserve(j) \/ StartRefused(j)) /\ WF_vars(Spawn(j)) /\ WF_vars(TaskStep(j))
  /\ \A x \in Deletions : WF_vars(DeletionStep(x))
  /\ \A d \in Dests : WF_vars(Expire(d))
  /\ WF_vars(Join) /\ WF_vars(Drained)

Spec == Init /\ [][Next]_vars /\ Fairness

-----------------------------------------------------------------------------
(* Properties.                                                              *)

TypeOK ==
  /\ job \in [Jobs -> [status : Terminal \cup Active \cup {"none"}, owns : BOOLEAN, cancel : BOOLEAN,
                   why : {"none", "step", "stopped"}]]
  /\ asked \subseteq Jobs /\ told \subseteq Jobs /\ active \in Nat
  /\ In(finished) = {j \in Jobs : job[j].status \in Terminal}
  /\ file \in [Dests -> {"none", "good", "wrong"}]
  /\ part \in [Dests -> {"none", "partial", "whole", "wrong"}]
  /\ lease \in [Dests -> Deletions \cup {None}]

\* A destination has one writer: two tasks never work on it, even when a cancel
\* released a job early, and none works on it while a deletion whose leases are
\* renewed takes its files, whichever of the two came first.
OneWriter ==
  /\ \A j, k \in Jobs : task[j] \in Working /\ task[k] \in Working /\ D(j) = D(k) => j = k
  /\ \A x \in Deletions : del[x].at \in {"stage", "commit"} /\ del[x].beats =>
       \A j \in Jobs : task[j] \in Working => D(j) \notin FilesOf[x]

\* Every task that was started is counted until it is gone, so a bridge that
\* says it is drained leaves no task and no handler behind.
StopIsComplete ==
  /\ active = Cardinality({j \in Jobs : task[j] \notin {"none", "reserved"}})
  /\ bridge = "drained" => ~ Handling /\ \A j \in Jobs : task[j] = "none"

\* Downloads, deletions and the stop of the runtime keep apart (download.rs,
\* models/[modelId]/route.ts, http_bridge.rs): one writer per destination, and
\* a stop that leaves nobody behind.
DownloadsAreApart == TypeOK /\ OneWriter /\ StopIsComplete

\* What a job says is what happened, from its first status until it is
\* forgotten: an end never changes, a user who was told that the cancel is
\* accepted never sees "ready" or "error", and "ready" means that the file the
\* job downloaded is there, unless a deletion that lost its leases took it.
Forgotten(j) == job'[j].status = "none" \/ task'[j] = "reserved"   \* and asked for anew
BecomesTrue(j) ==
  /\ job[j].status \in Terminal => job'[j].status = job[j].status \/ Forgotten(j)
  /\ job'[j].status \in {"ready", "error"} /\ job[j].status # job'[j].status => j \notin told
  /\ job'[j].status = "ready" /\ job[j].status # "ready" =>
       \/ file'[D(j)] = "good"
       \/ \E x \in Deletions : ~ del[x].beats /\ del[x].at \in {"stage", "commit"} /\ D(j) \in FilesOf[x]
StatusIsTrue == [][\A j \in Jobs : BecomesTrue(j)]_vars

Blocked(d) == \E x \in Deletions : lease[d] = x /\ ~ Running(x)

\* Nothing hangs: a canceled download ends, also when its task panics or the
\* cancel comes before the task; a stop that has begun is completed; a
\* deletion gives its answer; and no lost answer blocks a destination for good.
DownloadsEnd ==
  /\ \A j \in Jobs : (job[j].cancel /\ job[j].status \in Active) ~> job[j].status \notin Active
  /\ (bridge = "revoked") ~> (bridge = "drained")
  /\ (\E x \in Deletions : Running(x)) ~> (\A x \in Deletions : ~ Running(x))
  /\ \A d \in Dests : Blocked(d) ~> ~ Blocked(d)

\* Stated at the guard of a task: "Normal paths already committed a terminal
\* state", it is for tasks that panic.  So it leaves the reason of an error alone.
ReasonStays ==
  [][\A j \in Jobs : job[j].why = "step" => job'[j].why = "step" \/ Forgotten(j)]_vars

=============================================================================
