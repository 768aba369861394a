----------------------------- MODULE GenerationJobs -----------------------------
(***************************************************************************)
(* The rows of GenerationJob, from the request that creates one to the     *)
(* status a client is told: idempotency.ts, generation-job.ts, the image   *)
(* and video routes, the detached video runner, the agent's generation     *)
(* tools and the route that answers polls for a video.                     *)
(*                                                                         *)
(* A run is one request (or one tool call) and names the job row it may    *)
(* create.  Each action is one statement that is awaited: a query, a       *)
(* transaction, a provider call.  How a run holds the workspace gate       *)
(* depends on its kind:                                                    *)
(*   "image"  a shared lease over the handler, but not over its catch      *)
(*   "video"  a detached admission, until the runner has settled           *)
(*   "tool"   a shared lease over the whole tool, catch included           *)
(*   "edit"   a lease for each write, one for the replacement layer        *)
(* WorkspaceGate models the gate itself; here it only opens and closes.    *)
(***************************************************************************)
EXTENDS Integers, FiniteSets

CONSTANTS Runs, NoRun,
          Fingerprints,  \* what a client asks for
          Mixes,         \* the requests that are made: a run, what it asks
          Count,         \* requestedCount of an image job
          MaxPollErrors, \* maxPollErrors: a client gives up after that many in a row
          MaxCrashes     \* bound: how often the server dies

ASSUME RunsFinite == IsFiniteSet(Runs) /\ NoRun \notin Runs
ASSUME CountPositive == Count \in Nat \ {0}
ASSUME PollErrorsPositive == MaxPollErrors \in Nat \ {0}
ASSUME BoundIsNat == MaxCrashes \in Nat

VARIABLES
  gate,       \* "open", "draining" (an exclusive operation waits) or "owned"
  crashes,
  \* per run: the request, its progress, its hold on the gate
  req,        \* [kind, keyed, print]; keyed requests share one idempotency key
  pc, holds,
  images,     \* what the provider returned
  seen,       \* the existing job this request is about to replay, and its status
  reply,      \* what a replay was answered: a status and a number of assets
  \* per run: the row it created, its Asset rows, its media files on the disk,
  \* and which of its clean-ups failed without anybody being told
  row, assets, files, swallowed,
  \* per video job: whether it is too old, the client that shows it, the errors
  \* the client has met in a row, and its poll: what it read, what it is told
  old, client, misses, poll

rows == <<row, assets, files, swallowed>>
polls == <<client, misses, poll>>
vars == <<gate, crashes, req, pc, holds, images, seen, reply, rows, old, polls>>

Statuses == {"RUNNING", "SUCCEEDED", "PARTIAL", "FAILED"}
Terminal == Statuses \ {"RUNNING"}
Nothing == [job |-> NoRun, status |-> "none"]

Polls == [status : Statuses \cup {"none", "lost"}, told : Statuses \cup {"none"}]

\* Only the routes take an idempotency key.
Requests == [kind : {"image", "video"}, keyed : BOOLEAN, print : Fingerprints]
              \cup [kind : {"tool", "edit"}, keyed : {FALSE}, print : Fingerprints]

ASSUME MixesAreRequests == Mixes \subseteq [Runs -> Requests]

TypeOK ==
  /\ gate \in {"open", "draining", "owned"}
  /\ crashes \in 0 .. MaxCrashes
  /\ req \in [Runs -> Requests]
  /\ pc \in [Runs -> {"idle", "lookup", "replay", "create", "generate", "write",
                      "commit", "layer", "complete", "cleanup", "fail", "done", "dead"}]
  /\ holds \in [Runs -> BOOLEAN]
  /\ images \in [Runs -> 0 .. Count]
  /\ seen \in [Runs -> [job : Runs \cup {NoRun}, status : Statuses \cup {"none"}]]
  /\ reply \in [Runs -> [status : Statuses \cup {"none", "conflict"}, assets : 0 .. Count]]
  /\ row \in [Runs -> Statuses \cup {"none"}]
  /\ assets \in [Runs -> 0 .. Count]
  /\ files \in [Runs -> 0 .. Count]
  /\ swallowed \in [Runs -> SUBSET {"file", "row", "status"}]
  /\ old \in [Runs -> BOOLEAN]
  /\ client \in [Runs -> {"asks", "told", "stopped"}]
  /\ misses \in [Runs -> 0 .. MaxPollErrors]
  /\ poll \in [Runs -> Polls]

NoAnswer == [status |-> "none", assets |-> 0]
NoPoll == [status |-> "none", told |-> "none"]
LostPoll == [status |-> "lost", told |-> "none"]

Init ==
  /\ gate = "open"
  /\ crashes = 0
  /\ req \in Mixes
  /\ pc = [w \in Runs |-> "idle"]
  /\ holds = [w \in Runs |-> FALSE]
  /\ images = [w \in Runs |-> 0]
  /\ seen = [w \in Runs |-> Nothing]
  /\ reply = [w \in Runs |-> NoAnswer]
  /\ row = [w \in Runs |-> "none"]
  /\ assets = [w \in Runs |-> 0]
  /\ files = [w \in Runs |-> 0]
  /\ swallowed = [w \in Runs |-> {}]
  /\ old = [w \in Runs |-> FALSE]
  /\ client = [w \in Runs |-> "asks"]
  /\ misses = [w \in Runs |-> 0]
  /\ poll = [w \in Runs |-> NoPoll]

Kind(w) == req[w].kind

\* Faulty variant: one image more is asked for than the row says.
RequestedAndOne(w) == Count + 1

\* requestedCount
Requested(w) == IF Kind(w) \in {"image", "tool"} THEN Count ELSE 1

-----------------------------------------------------------------------------
(* generation-job.ts.                                                      *)

\* Faulty variant: a job with some of its images counts as a whole one.
FinalWithoutPartial(w, n) == IF n = 0 THEN "FAILED" ELSE "SUCCEEDED"

\* finalGenerationStatus
Final(w, n) == CASE n = 0 -> "FAILED"
                 [] n > 0 /\ n < Requested(w) -> "PARTIAL"
                 [] OTHER -> "SUCCEEDED"

\* Faulty variant: the update of a late completion matches the row by id alone.
CompletesAnyRow(w) == row[w] # "none"

\* completeGenerationJob: updateMany where RUNNING; no row matched is a 409.
Completes(w) == row[w] = "RUNNING"

\* failRunningGenerationJob
FailedRow(w) == IF row[w] = "RUNNING" THEN [row EXCEPT ![w] = "FAILED"] ELSE row

\* Faulty variant: the tools leave their lease before they record a failure.
CoversOnlyVideo(w) == Kind(w) = "video"

\* The authority of these kinds still stands where their failure is recorded.
CoversItsFailure(w) == Kind(w) \in {"video", "tool"}

\* Faulty variant: the replacement layer is saved without a lease of its own.
LeasesNothing(w) == holds

\* saveResultAsReplacementLayer runs in a lease from its file to its layer.
SaveLease(w) == IF Kind(w) = "edit" THEN [holds EXCEPT ![w] = TRUE] ELSE holds

\* Every write asks the gate, unless the run's own authority covers it.
Admitted(w) == holds[w] \/ gate = "open"

Become(w, step) == pc' = [pc EXCEPT ![w] = step]
LetGo(w) == holds' = [holds EXCEPT ![w] = FALSE]
Swallows(w, what) == swallowed' = [swallowed EXCEPT ![w] = @ \cup {what}]

-----------------------------------------------------------------------------
(* idempotency.ts: one job for each key.                                   *)

\* The row that carries the idempotency key of run w.
WithKeyOf(w) == {v \in Runs : row[v] # "none" /\ req[w].keyed /\ req[v].keyed}

Request(w) ==
  /\ pc[w] = "idle" /\ gate = "open"
  /\ Become(w, IF req[w].keyed THEN "lookup" ELSE "create")
  /\ holds' = [holds EXCEPT ![w] = Kind(w) # "edit"]
  /\ UNCHANGED <<gate, crashes, req, images, seen, reply, rows, old, polls>>

\* The client is answered, and the handler's lease or admission ends.
Answer(w, r) ==
  /\ reply' = [reply EXCEPT ![w] = r]
  /\ Become(w, "done")
  /\ LetGo(w)

\* The fingerprint of a request includes its type.
Matches(v, w) == Kind(v) = Kind(w) /\ req[v].print = req[w].print

\* lookupIdempotentJob: first the job row (any query may fail) ...
LookUp(w) ==
  /\ pc[w] = "lookup"
  /\ \/ Answer(w, NoAnswer) /\ UNCHANGED seen
     \/ IF WithKeyOf(w) = {}
        THEN Become(w, "create") /\ UNCHANGED <<holds, seen, reply>>
        ELSE LET v == CHOOSE v \in WithKeyOf(w) : TRUE
             IN  IF Matches(v, w)
                 THEN /\ seen' = [seen EXCEPT ![w] = [job |-> v, status |-> row[v]]]
                      /\ Become(w, "replay")
                      /\ UNCHANGED <<holds, reply>>
                 ELSE Answer(w, [status |-> "conflict", assets |-> 0]) /\ UNCHANGED seen
  /\ UNCHANGED <<gate, crashes, req, images, rows, old, polls>>

\* Faulty variant: the assets are read first, and then the job.
StatusLast(w) == row[seen[w].job]

\* The status a replay answers with is the one of the row that was read first.
StatusFirst(w) == seen[w].status

\* ... then its assets: a job that was running is answered with none.
Replay(w) ==
  /\ pc[w] = "replay"
  /\ \/ Answer(w, NoAnswer)
     \/ LET v == seen[w].job
            ready == Kind(w) = "image" /\ seen[w].status # "RUNNING"
        IN  Answer(w, [status |-> StatusFirst(w), assets |-> IF ready THEN assets[v] ELSE 0])
  /\ UNCHANGED <<gate, crashes, req, images, seen, rows, old, polls>>

\* Faulty variant: nothing makes idempotency keys unique.
NeverTaken(w) == FALSE

\* P2002: another request with the key has inserted its row since the look-up.
KeyTaken(w) == WithKeyOf(w) # {}

\* createIdempotentGenerationJob, or createGenerationJob for a tool: the gate or
\* the database may refuse.
Create(w) ==
  /\ pc[w] = "create"
  /\ \/ Become(w, "done") /\ LetGo(w) /\ UNCHANGED row
     \/ Admitted(w) /\ KeyTaken(w) /\ Become(w, "lookup") /\ UNCHANGED <<holds, row>>
     \/ /\ Admitted(w) /\ ~ KeyTaken(w)
        /\ row' = [row EXCEPT ![w] = "RUNNING"]
        /\ Become(w, "generate") /\ UNCHANGED holds
  /\ UNCHANGED <<gate, crashes, req, images, seen, reply, assets, files, swallowed, old, polls>>

-----------------------------------------------------------------------------
(* A run from the provider to its terminal row.  A step fails on an error  *)
(* of the provider, the disk or the database, or on an abort it checks for.*)

\* A failing handler of the image route is out of its lease.
Fails(w) ==
  /\ Become(w, "fail")
  /\ IF CoversItsFailure(w) THEN UNCHANGED holds ELSE LetGo(w)

\* The providers return what they have: an edit takes the first image or fails.
Generate(w) ==
  /\ pc[w] = "generate"
  /\ \/ Fails(w) /\ UNCHANGED images
     \/ \E n \in 0 .. Requested(w) :
          /\ Kind(w) \in {"edit", "video"} => n = 1
          /\ images' = [images EXCEPT ![w] = n]
          /\ Become(w, "write") /\ UNCHANGED holds
  /\ UNCHANGED <<gate, crashes, req, seen, reply, rows, old, polls>>

\* writeFilesOrCleanup: all the files or, unless their deletion fails, none.
WriteFiles(w) ==
  /\ pc[w] = "write"
  /\ \/ Fails(w) /\ UNCHANGED <<files, swallowed>>
     \/ /\ \E n \in 1 .. images[w] - 1 : files' = [files EXCEPT ![w] = n]
        /\ Swallows(w, "file")
        /\ Fails(w)
     \/ /\ Admitted(w)
        /\ files' = [files EXCEPT ![w] = images[w]]
        /\ holds' = SaveLease(w)
        /\ Become(w, "commit") /\ UNCHANGED swallowed
  /\ UNCHANGED <<gate, crashes, req, images, seen, reply, row, assets, old, polls>>

\* Asset rows and terminal status in one transaction, for all but the edits.
Commit(w) ==
  /\ pc[w] = "commit" /\ Kind(w) # "edit"
  /\ \/ Become(w, "cleanup") /\ UNCHANGED <<row, assets, holds>>
     \/ /\ Completes(w)
        /\ row' = [row EXCEPT ![w] = Final(w, images[w])]
        /\ assets' = [assets EXCEPT ![w] = images[w]]
        /\ Become(w, "done") /\ LetGo(w)
  /\ UNCHANGED <<gate, crashes, req, images, seen, reply, files, swallowed, old, polls>>

\* saveResultAsReplacementLayer: the asset has its own transaction ...
CommitAsset(w) ==
  /\ pc[w] = "commit" /\ Kind(w) = "edit"
  /\ \/ Become(w, "cleanup") /\ UNCHANGED assets
     \/ assets' = [assets EXCEPT ![w] = images[w]] /\ Become(w, "layer")
  /\ UNCHANGED <<gate, crashes, req, holds, images, seen, reply, row, files, swallowed, old, polls>>

\* ... then the layer has another: when that fails, the asset row is deleted,
\* or its deletion fails and is swallowed, and the file is next either way.
SaveLayer(w) ==
  /\ pc[w] = "layer"
  /\ \/ Become(w, "complete") /\ LetGo(w) /\ UNCHANGED <<assets, swallowed>>
     \/ /\ Become(w, "cleanup") /\ UNCHANGED holds
        /\ \/ assets' = [assets EXCEPT ![w] = 0] /\ UNCHANGED swallowed
           \/ Swallows(w, "row") /\ UNCHANGED assets
  /\ UNCHANGED <<gate, crashes, req, images, seen, reply, row, files, old, polls>>

\* The edit tools complete their job after all that, under another lease.
Complete(w) ==
  /\ pc[w] = "complete"
  /\ \/ Fails(w) /\ UNCHANGED row
     \/ /\ Admitted(w) /\ Completes(w)
        /\ row' = [row EXCEPT ![w] = Final(w, images[w])]
        /\ Become(w, "done") /\ UNCHANGED holds
  /\ UNCHANGED <<gate, crashes, req, images, seen, reply, assets, files, swallowed, old, polls>>

\* Faulty variant: the files of a failed transaction stay.
KeepFiles(w) == files

\* deleteStoredFiles, when it can
DeletedFiles(w) == [files EXCEPT ![w] = 0]

\* A deletion that fails is not told of: the error that led here is thrown.
CleanUp(w) ==
  /\ pc[w] = "cleanup"
  /\ \/ files' = DeletedFiles(w) /\ UNCHANGED swallowed
     \/ /\ \E n \in 1 .. files[w] : files' = [files EXCEPT ![w] = n]
        /\ Swallows(w, "file")
  /\ Fails(w)
  /\ UNCHANGED <<gate, crashes, req, images, seen, reply, row, assets, old, polls>>

\* The failure is recorded if the gate admits the write and the database takes
\* it; the catch of failRunningGenerationJob swallows any other outcome.
Fail(w) ==
  /\ pc[w] = "fail"
  /\ \/ Admitted(w) /\ row' = FailedRow(w) /\ UNCHANGED swallowed
     \/ ~ Admitted(w) /\ UNCHANGED <<row, swallowed>>
     \/ Swallows(w, "status") /\ UNCHANGED row
  /\ Become(w, "done") /\ LetGo(w)
  /\ UNCHANGED <<gate, crashes, req, images, seen, reply, assets, files, old, polls>>

Work(w) == \/ LookUp(w) \/ Replay(w) \/ Create(w) \/ Generate(w) \/ WriteFiles(w)
           \/ Commit(w) \/ CommitAsset(w) \/ SaveLayer(w) \/ Complete(w)
           \/ CleanUp(w) \/ Fail(w)

-----------------------------------------------------------------------------
(* The poll of a video job, and what happens around the runs.              *)

\* VIDEO_JOB_TIMEOUT_MS has passed since the row was created.
Age(w) ==
  /\ row[w] # "none" /\ Kind(w) = "video" /\ ~ old[w]
  /\ old' = [old EXCEPT ![w] = TRUE]
  /\ UNCHANGED <<gate, crashes, req, pc, holds, images, seen, reply, rows, polls>>

\* The client asks.  A closed gate refuses, and any request may get lost.
PollRead(w) ==
  /\ client[w] = "asks" /\ poll[w] = NoPoll
  /\ row[w] # "none" /\ Kind(w) = "video"
  /\ \/ gate = "open" /\ poll' = [poll EXCEPT ![w].status = row[w]]
     \/ poll' = [poll EXCEPT ![w] = LostPoll]
  /\ UNCHANGED <<gate, crashes, req, pc, holds, images, seen, reply, rows, old, client, misses>>

\* Faulty variant: a job that is too old is reported, but its row is left alone.
StaleRowKept(w) == row

\* The row of a job that never finished in time is closed.
StaleRow(w) == FailedRow(w)

\* A poll that read RUNNING from a row that is too old tells the client that
\* the job failed, whether or not its update matched; the update may be refused.
PollAnswer(w) ==
  /\ poll[w].status \in Statuses /\ poll[w].told = "none"
  /\ \/ /\ poll[w].status = "RUNNING" /\ old[w] /\ gate = "open"
        /\ row' = StaleRow(w)
        /\ poll' = [poll EXCEPT ![w].told = "FAILED"]
     \/ /\ poll[w].status # "RUNNING" \/ ~ old[w]
        /\ poll' = [poll EXCEPT ![w].told = poll[w].status] /\ UNCHANGED row
     \/ poll' = [poll EXCEPT ![w] = LostPoll] /\ UNCHANGED row
  /\ UNCHANGED <<gate, crashes, req, pc, holds, images, seen, reply, assets, files, swallowed,
                 old, client, misses>>

\* The loop of the client goes on after an answer RUNNING, and after an error
\* that is not the last of MaxPollErrors in a row.
PollEnd(w) ==
  /\ poll[w].told # "none" \/ poll[w].status = "lost"
  /\ poll' = [poll EXCEPT ![w] = NoPoll]
  /\ IF client[w] # "asks" THEN UNCHANGED <<client, misses>>
     ELSE IF poll[w].status = "lost"
          THEN /\ misses' = [misses EXCEPT ![w] = @ + 1]
               /\ client' = IF misses'[w] = MaxPollErrors
                            THEN [client EXCEPT ![w] = "stopped"] ELSE client
          ELSE /\ misses' = [misses EXCEPT ![w] = 0]
               /\ client' = IF poll[w].told = "RUNNING"
                            THEN client ELSE [client EXCEPT ![w] = "told"]
  /\ UNCHANGED <<gate, crashes, req, pc, holds, images, seen, reply, rows, old>>

Poll(w) == PollRead(w) \/ PollAnswer(w) \/ PollEnd(w)

\* The user cancels, or closes the page.
Leave(w) ==
  /\ row[w] # "none" /\ Kind(w) = "video" /\ client[w] = "asks"
  /\ client' = [client EXCEPT ![w] = "stopped"]
  /\ UNCHANGED <<gate, crashes, req, pc, holds, images, seen, reply, rows, old, misses, poll>>

\* The user retries a run whose client stopped: it polls the same job again.
Rejoin(w) ==
  /\ client[w] = "stopped"
  /\ client' = [client EXCEPT ![w] = "asks"]
  /\ misses' = [misses EXCEPT ![w] = 0]
  /\ UNCHANGED <<gate, crashes, req, pc, holds, images, seen, reply, rows, old, poll>>

\* A backup, restore, purge or model deletion takes the gate and gives it back.
GateCloses ==
  /\ gate = "open" /\ gate' = "draining"
  /\ UNCHANGED <<crashes, req, pc, holds, images, seen, reply, rows, old, polls>>

GateMoves ==
  /\ \/ gate = "draining" /\ (\A w \in Runs : ~ holds[w]) /\ gate' = "owned"
     \/ gate = "owned" /\ gate' = "open"
  /\ UNCHANGED <<crashes, req, pc, holds, images, seen, reply, rows, old, polls>>

\* The process dies: rows and files stay, no run resumes, polls get lost.
Crash ==
  /\ crashes < MaxCrashes
  /\ crashes' = crashes + 1
  /\ pc' = [w \in Runs |-> IF pc[w] \in {"idle", "done"} THEN pc[w] ELSE "dead"]
  /\ holds' = [w \in Runs |-> FALSE]
  /\ gate' = "open"
  /\ poll' = [w \in Runs |-> IF poll[w].status # "none" /\ poll[w].told = "none"
                             THEN LostPoll ELSE poll[w]]
  /\ UNCHANGED <<req, images, seen, reply, rows, old, client, misses>>

Next ==
  \/ \E w \in Runs : Request(w) \/ Work(w) \/ Age(w) \/ Poll(w) \/ Leave(w) \/ Rejoin(w)
  \/ GateCloses \/ GateMoves \/ Crash

Spec == Init /\ [][Next]_vars

\* A run goes on, time passes, and a client that has not stopped polls on.
FairSpec ==
  /\ Spec
  /\ \A w \in Runs : WF_vars(Work(w)) /\ WF_vars(Age(w)) /\ WF_vars(Poll(w))

-----------------------------------------------------------------------------
(* Properties.                                                             *)

\* The terminal status of a job and its asset rows agree, however the run, a
\* sweep of a stale job and a failure interleave: a failed or running job has no
\* asset, a partial one some, a successful one all.  (The edit tools write the
\* two in separate transactions, and promise less.)
JobsMatchTheirAssets ==
  \A w \in Runs :
    Kind(w) # "edit" =>
      IF row[w] \in Terminal THEN row[w] = (CASE assets[w] = 0 -> "FAILED"
                                              [] assets[w] = Requested(w) -> "SUCCEEDED"
                                              [] OTHER -> "PARTIAL")
                             ELSE assets[w] = 0

\* A job is settled once: neither a late completion nor a late failure nor a
\* poll changes a terminal status.
SettledOnce == [][\A w \in Runs : row[w] \in Terminal => row'[w] = row[w]]_vars

\* Two requests with one idempotency key never both reach the provider, even
\* when they look the key up at the same time.
OneRunPerKey ==
  \A v, w \in Runs : req[v].keyed /\ req[w].keyed /\ row[v] # "none" /\ row[w] # "none" => v = w

\* A replayed image request is answered with all the assets its status promises,
\* although the job and its assets are two reads and the run may end in between.
RepliesAreWhole ==
  \A w \in Runs :
    Kind(w) = "image" /\ reply[w].status \in Statuses =>
      CASE reply[w].status = "SUCCEEDED" -> reply[w].assets = Count
        [] reply[w].status = "PARTIAL" -> reply[w].assets \in 1 .. Count - 1
        [] OTHER -> reply[w].assets = 0

\* A media file without a row belongs to a run that is still going to insert or
\* delete it, to one that died with the server, or to one whose deletion failed.
\* A row without its file is left only where the deletion of the row failed.
FilesAreExplained ==
  \A w \in Runs :
    /\ files[w] > assets[w] => pc[w] \in {"commit", "cleanup", "dead"} \/ "file" \in swallowed[w]
    /\ files[w] < assets[w] => "row" \in swallowed[w]

\* The owner of the gate, which may sweep files without a row, never meets a run
\* between its files and its rows: what it finds was left for good.
OwnerSeesNoHalfWrites ==
  gate = "owned" =>
    \A w \in Runs : files[w] > assets[w] => pc[w] = "dead" \/ "file" \in swallowed[w]

\* A job tells the truth and goes on telling it.
StatusIsTrueAndFinal == []JobsMatchTheirAssets /\ SettledOnce

\* A key stands for one job, and asking again tells all of it.
KeysAreFaithful == OneRunPerKey /\ RepliesAreWhole

\* No media file is lost to a run or to a sweep.
FilesAreKept == TypeOK /\ FilesAreExplained /\ OwnerSeesNoHalfWrites

\* The job of a tool is settled unless the server dies first or the write of its
\* failure fails: an exclusive operation that waits cannot keep it from that.
ToolJobsSettle ==
  \A w \in Runs : (Kind(w) = "tool" /\ row[w] = "RUNNING")
                     ~> (row[w] \in Terminal \/ pc[w] = "dead" \/ "status" \in swallowed[w])

\* A video job is settled in the end, also when the server died under it or its
\* failure was never written, or else its client has stopped asking.
VideoJobsSettle ==
  \A w \in Runs : (Kind(w) = "video" /\ row[w] = "RUNNING")
                     ~> (row[w] \in Terminal \/ client[w] = "stopped")

\* Every job that somebody can settle is settled.
JobsSettle == ToolJobsSettle /\ VideoJobsSettle

\* What the status route says of itself: "This endpoint just reflects the latest
\* persisted state to the client."
StatusIsPersisted ==
  \A w \in Runs : poll[w].told = "FAILED" => row[w] = "FAILED"

\* What saveResultAsReplacementLayer says of a layer that cannot be saved: "the
\* new asset/file (created outside this tx) are cleaned up in the catch".  A row
\* without its file is not what is meant by that.
RowsHaveTheirFiles == \A w \in Runs : assets[w] <= files[w]
=============================================================================
