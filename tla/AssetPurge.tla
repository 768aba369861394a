------------------------------ MODULE AssetPurge ------------------------------
(***************************************************************************)
(* Asset rows and the media files behind them: uploads, Trash, permanent    *)
(* deletion through quarantined files, the destructive storage reconcile,   *)
(* sample files written again on read, and the repair at start-up.          *)
(*                                                                          *)
(*   lib/server/asset-purge.ts, storage-reconcile.ts                        *)
(*   lib/server/storage.ts               staged deletions                   *)
(*   lib/server/local-workspace-owner.ts start-up                           *)
(*   app/api/assets/...                  upload, Trash, restore, read       *)
(*                                                                          *)
(* A database call, an lstat and a native profile operation are one step    *)
(* each. A purge, an upload and a read hold a shared lease from their first *)
(* step to their last, so they interleave with one another but never with   *)
(* the reconcile, which is exclusive (module WorkspaceGate).                *)
(***************************************************************************)
EXTENDS Integers, FiniteSets

CONSTANTS
  Assets,       \* identities of asset rows
  Paths,        \* storage paths
  PathOf,       \* the path a row of each asset names
  Seeded,       \* assets there at the beginning
  Clones,       \* assets made by cloning a template: they share its path
  Samples,      \* paths whose bytes are bundled with the application
  Purges,       \* requests that delete permanently
  None,         \* no asset
  MaxFaults,    \* bound on failing calls
  MaxCrashes,   \* bound on crashes
  SweepsWhenWhole  \* TRUE: nobody sweeps while a row's file is quarantined

ASSUME AssetsAssumption ==
  /\ PathOf \in [Assets -> Paths]
  /\ Seeded \subseteq Assets /\ Clones \subseteq Assets /\ Samples \subseteq Paths
  /\ None \notin Assets
  /\ MaxFaults \in Nat /\ MaxCrashes \in Nat
  /\ SweepsWhenWhole \in BOOLEAN

\* The name of an uploaded or generated file holds a fresh UUID.
ASSUME UploadPathsAreFresh ==
  \A a \in Assets \ (Clones \cup Seeded) : \A b \in Assets \ {a} : PathOf[a] # PathOf[b]

\* Templates hold the bundled samples they are seeded with: they are read-only.
ASSUME TemplatesAreBundled == \A c \in Clones : PathOf[c] \in Samples

VARIABLES
  rows,     \* asset rows in the database
  trash,    \* the rows among them with deletedAt set
  used,     \* assets that have ever had a row: ids and upload paths are fresh
  disk,     \* files: <<p, "file">> is p, <<p, "staged">> is p.lunery-purge
  purge,    \* what each purge request is doing
  upload,   \* the upload whose file is written and whose row is not
  clone,    \* the clone whose template has been read
  view,     \* sample paths a read has found missing and will write again
  phase,    \* the server: "down", "boot", "ready" or "sweep"
  list,     \* files the start-up repair or the sweep has listed
  faults, crashes

vars == <<rows, trash, used, disk, purge, upload, clone, view, phase, list, faults, crashes>>

File(p) == <<p, "file">>
Staged(p) == <<p, "staged">>
Files == Paths \X {"file", "staged"}
Of(S) == {PathOf[a] : a \in S}
UsedPaths == Of(rows)

\* A request that is not running. While one is undone, "error" is what it will
\* answer and "failed" whether some part of the rollback failed.
Idle == [at |-> "idle", target |-> "trash", ids |-> {}, paths |-> {},
         path |-> None, looked |-> {}, saw |-> {}, stages |-> {},
         failed |-> FALSE, error |-> "none"]

Fault == faults < MaxFaults /\ faults' = faults + 1
NoFault == UNCHANGED faults

\* rename and unlink: done, refused, or done with the reply lost.
Native(newDisk, onSuccess, onError) ==
  \/ disk' = newDisk /\ onSuccess /\ NoFault
  \/ disk' \in {disk, newDisk} /\ onError /\ Fault

Set(x, rec) == purge' = [purge EXCEPT ![x] = rec]
At(x, at) == phase = "ready" /\ purge[x].at = at

Init ==
  /\ rows = Seeded
  /\ trash = {}
  /\ used = Seeded
  /\ disk = {File(PathOf[a]) : a \in Seeded}
  /\ purge = [x \in Purges |-> Idle]
  /\ upload = None
  /\ clone = None
  /\ view = {}
  /\ phase = "down"
  /\ list = {}
  /\ faults = 0
  /\ crashes = 0

-----------------------------------------------------------------------------
(* Single-call requests: Trash, restore from Trash, the end of a clone.     *)

SoftDelete(a) ==
  /\ phase = "ready" /\ a \in rows \ trash
  /\ trash' = trash \cup {a}
  /\ UNCHANGED <<rows, used, disk, purge, upload, clone, view, phase, list, faults, crashes>>

RestoreAsset(a) ==
  /\ phase = "ready" /\ a \in trash
  /\ trash' = trash \ {a}
  /\ UNCHANGED <<rows, used, disk, purge, upload, clone, view, phase, list, faults, crashes>>

\* cloneProjectTemplate reads the template's assets, without a lease ...
CloneRead(c) ==
  /\ phase = "ready" /\ clone = None
  /\ c \in Clones \ used /\ PathOf[c] \in Of(rows \ Clones)
  /\ clone' = c
  /\ UNCHANGED <<rows, trash, used, disk, purge, upload, view, phase, list, faults, crashes>>

\* ... and later creates rows that name the same storage paths.
CloneCommit ==
  /\ phase = "ready" /\ clone # None
  /\ rows' = rows \cup {clone}
  /\ used' = used \cup {clone}
  /\ clone' = None
  /\ UNCHANGED <<trash, disk, purge, upload, view, phase, list, faults, crashes>>

-----------------------------------------------------------------------------
(* Uploads: the file first, then its row, under one shared lease.           *)

UploadWrite(a) ==
  /\ phase = "ready" /\ upload = None
  /\ a \in Assets \ (Clones \cup used)
  /\ Native(disk \cup {File(PathOf[a])}, upload' = a, upload' = None)
  /\ used' = used \cup {a}
  /\ UNCHANGED <<rows, trash, purge, clone, view, phase, list, crashes>>

\* The transaction; when it fails the file is deleted, if it can be.
UploadRow ==
  /\ phase = "ready" /\ upload # None
  /\ upload' = None
  /\ \/ rows' = rows \cup {upload} /\ NoFault /\ UNCHANGED disk
     \/ disk' \in {disk, disk \ {File(PathOf[upload])}} /\ Fault /\ UNCHANGED rows
  /\ UNCHANGED <<trash, used, purge, clone, view, phase, list, crashes>>

-----------------------------------------------------------------------------
(* Reading an asset: a missing bundled file is written again.               *)

ViewMissing(p) ==
  /\ phase = "ready"
  /\ p \in (Samples \cap UsedPaths) \ view /\ File(p) \notin disk
  /\ view' = view \cup {p}
  /\ UNCHANGED <<rows, trash, used, disk, purge, upload, clone, phase, list, faults, crashes>>

ViewRestore(p) ==
  /\ phase = "ready" /\ p \in view
  /\ view' = view \ {p}
  /\ Native(disk \cup {File(p)}, TRUE, TRUE)
  /\ UNCHANGED <<rows, trash, used, purge, upload, clone, phase, list, crashes>>

-----------------------------------------------------------------------------
(* purgeAssets.                                                             *)

Requested(target) == IF target = "trash" THEN trash ELSE {target} \cap rows

PurgeTargets(x, target) ==
  /\ At(x, "idle") /\ Requested(target) # {}
  /\ Set(x, [Idle EXCEPT !.at = "survivors", !.target = target,
                                 !.ids = Requested(target)])
  /\ UNCHANGED <<rows, trash, used, disk, upload, clone, view, phase, list, faults, crashes>>

\* Paths no surviving row names.
PathsToDelete(ids) == Of(ids) \ Of(rows \ ids)

PurgeSurvivors(x) ==
  /\ At(x, "survivors")
  /\ Set(x, [purge[x] EXCEPT !.at = "stage", !.paths = PathsToDelete(purge[x].ids)])
  /\ UNCHANGED <<rows, trash, used, disk, upload, clone, view, phase, list, faults, crashes>>

\* stageStoredFileDeletion: the next path ...
StageBegin(x) ==
  /\ At(x, "stage")
  /\ \/ \E p \in purge[x].paths :
          Set(x, [purge[x] EXCEPT !.at = "look", !.path = p, !.paths = @ \ {p}])
     \/ purge[x].paths = {} /\ Set(x, [purge[x] EXCEPT !.at = "delete"])
  /\ UNCHANGED <<rows, trash, used, disk, upload, clone, view, phase, list, faults, crashes>>

\* ... two lstat calls that run concurrently ...
StageLook(x) ==
  /\ At(x, "look")
  /\ \E n \in {"file", "staged"} \ purge[x].looked :
       Set(x, [purge[x] EXCEPT
                 !.looked = @ \cup {n},
                 !.saw = IF <<purge[x].path, n>> \in disk THEN @ \cup {n} ELSE @,
                 !.at = IF purge[x].looked = {} THEN "look" ELSE "decide"])
  /\ UNCHANGED <<rows, trash, used, disk, upload, clone, view, phase, list, faults, crashes>>

\* ... and the decision. A file already quarantined counts as staged.
StageClosed(x) == [purge[x] EXCEPT !.path = None, !.looked = {}, !.saw = {}]
\* Faulty: what has been staged before the failure is forgotten.
StageAbandoned(x) == [StageClosed(x) EXCEPT !.at = "undo", !.error = "staging"]
StageFailed(x) == [StageClosed(x) EXCEPT !.at = "undo", !.paths = purge[x].stages,
                                         !.error = "staging"]
StageDone(x, S) == [StageClosed(x) EXCEPT !.at = "stage", !.stages = @ \cup S]

StageRename(x) ==
  LET p == purge[x].path
      saw == purge[x].saw
      moved == (disk \ {File(p)}) \cup {Staged(p)}
  IN
  /\ At(x, "decide")
  /\ \/ saw = {"file", "staged"} /\ Set(x, StageFailed(x)) /\ UNCHANGED <<disk, faults>>
     \/ saw = {"staged"} /\ Set(x, StageDone(x, {p})) /\ UNCHANGED <<disk, faults>>
     \/ saw = {} /\ Set(x, StageDone(x, {})) /\ UNCHANGED <<disk, faults>>
     \/ /\ saw = {"file"} /\ File(p) \in disk /\ Staged(p) \notin disk
        /\ Native(moved, Set(x, StageDone(x, {p})), Set(x, StageFailed(x)))
     \/ /\ saw = {"file"} /\ ~ (File(p) \in disk /\ Staged(p) \notin disk)
        /\ Set(x, StageFailed(x)) /\ UNCHANGED <<disk, faults>>
  /\ UNCHANGED <<rows, trash, used, upload, clone, view, phase, list, crashes>>

\* Faulty: quarantined files are forgotten when the rows cannot be deleted.
DeleteWithoutUndo(x) ==
  /\ At(x, "delete")
  /\ \/ rows' = rows \ purge[x].ids /\ trash' = trash \ purge[x].ids /\ NoFault
        /\ Set(x, [purge[x] EXCEPT !.at = "commit", !.paths = purge[x].stages])
     \/ Fault /\ UNCHANGED <<rows, trash>>
        /\ Set(x, [purge[x] EXCEPT !.at = "undo", !.paths = {}, !.error = "rows"])
  /\ UNCHANGED <<used, disk, upload, clone, view, phase, list, crashes>>

\* Faulty: an entry of the Trash outlives its row.
DeleteKeepingTrash(x) ==
  /\ At(x, "delete")
  /\ rows' = rows \ purge[x].ids
  /\ Set(x, [purge[x] EXCEPT !.at = "commit", !.paths = purge[x].stages])
  /\ UNCHANGED <<trash, used, disk, upload, clone, view, phase, list, faults, crashes>>

\* deleteMany by id: it does not look at deletedAt again.
PurgeDelete(x) ==
  /\ At(x, "delete")
  /\ \/ rows' = rows \ purge[x].ids /\ trash' = trash \ purge[x].ids /\ NoFault
        /\ Set(x, [purge[x] EXCEPT !.at = "commit", !.paths = purge[x].stages])
     \/ Fault /\ UNCHANGED <<rows, trash>>
        /\ Set(x, [purge[x] EXCEPT !.at = "undo", !.paths = purge[x].stages,
                                   !.error = "rows"])
  /\ UNCHANGED <<used, disk, upload, clone, view, phase, list, crashes>>

\* Faulty: the check of the original's name is inverted.
RollBackOverOriginal(p, onSuccess, onError) ==
  \/ /\ Staged(p) \in disk /\ File(p) \in disk
     /\ Native((disk \ {Staged(p)}) \cup {File(p)}, onSuccess, onError)
  \/ /\ ~ (Staged(p) \in disk /\ File(p) \in disk)
     /\ onError /\ UNCHANGED <<disk, faults>>

\* rollbackStoredFileDeletion refuses a quarantined file that is gone and a
\* name that is taken; its rename does not replace, so the check is the step.
RollBack(p, onSuccess, onError) ==
  \/ /\ Staged(p) \in disk /\ File(p) \notin disk
     /\ Native((disk \ {Staged(p)}) \cup {File(p)}, onSuccess, onError)
  \/ /\ ~ (Staged(p) \in disk /\ File(p) \notin disk)
     /\ onError /\ UNCHANGED <<disk, faults>>

\* Every stage is rolled back, whatever becomes of the others.
PurgeUndo(x) ==
  /\ At(x, "undo")
  /\ \E p \in purge[x].paths :
       LET left == [purge[x] EXCEPT !.paths = @ \ {p}]
       IN RollBack(p, Set(x, left), Set(x, [left EXCEPT !.failed = TRUE]))
  /\ UNCHANGED <<rows, trash, used, upload, clone, view, phase, list, crashes>>

PurgeUndone(x) ==
  /\ At(x, "undo") /\ purge[x].paths = {}
  /\ Set(x, Idle)
  /\ UNCHANGED <<rows, trash, used, disk, upload, clone, view, phase, list, faults, crashes>>

\* Faulty: the file under its own name goes, not the quarantined one.
Unlinked(p) == disk \ {File(p)}
Removed(p) == disk \ {Staged(p)}

\* commitStoredFileDeletion, one stage after the other, up to the first error.
PurgeCommit(x) ==
  /\ At(x, "commit")
  /\ \E p \in purge[x].paths :
       \/ /\ Staged(p) \in disk
          /\ Native(Removed(p), Set(x, [purge[x] EXCEPT !.paths = @ \ {p}]),
                    Set(x, Idle))
       \/ /\ Staged(p) \notin disk
          /\ Set(x, Idle) /\ UNCHANGED <<disk, faults>>
  /\ UNCHANGED <<rows, trash, used, upload, clone, view, phase, list, crashes>>

PurgeDone(x) ==
  /\ At(x, "commit") /\ purge[x].paths = {}
  /\ Set(x, Idle)
  /\ UNCHANGED <<rows, trash, used, disk, upload, clone, view, phase, list, faults, crashes>>

PurgeStep(x) ==
  \/ PurgeSurvivors(x) \/ StageBegin(x) \/ StageLook(x) \/ StageRename(x)
  \/ PurgeDelete(x) \/ PurgeUndo(x) \/ PurgeUndone(x) \/ PurgeCommit(x) \/ PurgeDone(x)

-----------------------------------------------------------------------------
(* reconcileStorage with deleteOrphans, the only exclusive operation here.  *)

Quarantined(a) == Staged(PathOf[a]) \in disk

\* Faulty: only assets outside the Trash own their files.
OwnedByActive == {File(p) : p \in Of(rows \ trash)}
\* The files asset rows name, in the Trash or not.
Owned == {File(p) : p \in UsedPaths}

\* Faulty: the sweep starts beside a request that holds a shared lease.
DrainedOfPurges == \A x \in Purges : purge[x].at = "idle"
SharedDrained ==
  /\ \A x \in Purges : purge[x].at = "idle"
  /\ upload = None /\ view = {}

SweepBegin ==
  /\ phase = "ready" /\ SharedDrained
  /\ SweepsWhenWhole => \A a \in rows : ~ Quarantined(a)
  /\ list' = disk \ Owned
  /\ phase' = "sweep"
  /\ UNCHANGED <<rows, trash, used, disk, purge, upload, clone, view, faults, crashes>>

\* Ownership is asked again; a file that cannot be deleted is left for later.
SweepFile(f) ==
  /\ phase = "sweep" /\ f \in list
  /\ list' = list \ {f}
  /\ \/ f \in Owned /\ UNCHANGED <<disk, faults>>
     \/ f \notin Owned /\ Native(disk \ {f}, TRUE, TRUE)
  /\ UNCHANGED <<rows, trash, used, purge, upload, clone, view, phase, crashes>>

SweepEnd ==
  /\ phase = "sweep" /\ list = {}
  /\ phase' = "ready"
  /\ UNCHANGED <<rows, trash, used, disk, purge, upload, clone, view, list, faults, crashes>>

-----------------------------------------------------------------------------
(* Crashes, and the repair before the first request of a server.            *)

Crash ==
  /\ phase # "down" /\ crashes < MaxCrashes
  /\ crashes' = crashes + 1
  /\ phase' = "down"
  /\ list' = {}
  /\ purge' = [x \in Purges |-> Idle]
  /\ upload' = None /\ clone' = None /\ view' = {}
  /\ UNCHANGED <<rows, trash, used, disk, faults>>

\* reconcileStagedStoredFileDeletions lists the quarantined files.
BootBegin ==
  /\ phase = "down"
  /\ phase' = "boot"
  /\ list' = disk \cap {Staged(p) : p \in Paths}
  /\ UNCHANGED <<rows, trash, used, disk, purge, upload, clone, view, faults, crashes>>

\* Faulty: only rows outside the Trash get their files back.
ReferencedActive(p) == p \in Of(rows \ trash)
Referenced(p) == p \in UsedPaths

\* A referenced file goes back, another is removed; an error ends the attempt,
\* and the next request begins another.
BootFile(p) ==
  /\ phase = "boot" /\ Staged(p) \in list
  /\ LET done == phase' = "boot" /\ list' = list \ {Staged(p)}
         threw == phase' = "down" /\ list' = {}
     IN IF Referenced(p) THEN RollBack(p, done, threw)
                         ELSE Native(Removed(p), done, threw)
  /\ UNCHANGED <<rows, trash, used, purge, upload, clone, view, crashes>>

BootEnd ==
  /\ phase = "boot" /\ list = {}
  /\ phase' = "ready"
  /\ UNCHANGED <<rows, trash, used, disk, purge, upload, clone, view, list, faults, crashes>>

Boot == BootBegin \/ (\E p \in Paths : BootFile(p)) \/ BootEnd

Next ==
  \/ \E a \in Assets : \/ SoftDelete(a) \/ RestoreAsset(a)
                       \/ CloneRead(a) \/ UploadWrite(a)
  \/ CloneCommit \/ UploadRow
  \/ \E p \in Paths : ViewMissing(p) \/ ViewRestore(p)
  \/ \E x \in Purges : \/ \E t \in {"trash"} \cup Assets : PurgeTargets(x, t)
                       \/ PurgeStep(x)
  \/ SweepBegin \/ (\E f \in Files : SweepFile(f)) \/ SweepEnd
  \/ Crash \/ Boot

Spec == Init /\ [][Next]_vars

\* A request that has begun goes on, and users keep asking until the server
\* is up: the shell polls it and retries.
FairSpec ==
  /\ Spec
  /\ WF_vars(Boot)
  /\ \A x \in Purges : WF_vars(PurgeStep(x))

-----------------------------------------------------------------------------
(* Properties.                                                              *)

Phases == {"down", "boot", "ready", "sweep"}
Requests == [at : {"idle", "survivors", "stage", "look", "decide", "delete", "undo", "commit"},
             target : Assets \cup {"trash"}, ids : SUBSET Assets, paths : SUBSET Paths,
             path : Paths \cup {None}, looked : SUBSET {"file", "staged"},
             saw : SUBSET {"file", "staged"}, stages : SUBSET Paths,
             failed : BOOLEAN, error : {"none", "staging", "rows"}]

\* Every variable has its type.
TypeOK ==
  /\ rows \subseteq Assets /\ trash \subseteq rows /\ used \subseteq Assets
  /\ disk \subseteq Files
  /\ purge \in [Purges -> Requests]
  /\ upload \in Assets \cup {None} /\ clone \in Assets \cup {None}
  /\ view \subseteq Paths
  /\ phase \in Phases /\ list \subseteq Files
  /\ faults \in 0 .. MaxFaults /\ crashes \in 0 .. MaxCrashes

\* No row ever loses its bytes: they are under the row's path, or quarantined
\* beside it, or bundled with the application. asset-purge.ts deletes files
\* last, and only when no other row names them; the reconcile is exclusive so
\* that it cannot take a file whose row is still to be written.
RowsKeepTheirBytes ==
  \A a \in rows : \/ File(PathOf[a]) \in disk \/ Quarantined(a)
                  \/ PathOf[a] \in Samples

\* A file leaves its row's path only while a purge is working on it, or after
\* one that had to say so: whatever requests do to one another, a row whose
\* file is quarantined is the target of a running purge, or of one whose call
\* failed, or the server has not been repaired since a crash.
QuarantineIsExplained ==
  \A a \in rows : Quarantined(a) =>
    \/ PathOf[a] \in Samples
    \/ phase \in {"down", "boot"}
    \/ \E x \in Purges : purge[x].at # "idle" /\ PathOf[a] \in Of(purge[x].ids)
    \/ faults > 0

\* A start, after whatever crash, brings every row's file back to its path and
\* leaves no quarantined file: the purge is undone or finished.
StartRepairs ==
  [][phase = "boot" /\ phase' = "ready" =>
       /\ \A p \in Paths : Staged(p) \notin disk'
       /\ \A a \in rows' : File(PathOf[a]) \in disk' \/ PathOf[a] \in Samples]_vars

\* The step with which a purge answers: with success, or with an error after
\* an undo. Only a failed row deletion tells when its rollback failed too.
Answers(x) == purge[x].at # "idle" /\ purge'[x].at = "idle" /\ phase' = "ready"
AnswersPurged(x) == Answers(x) /\ purge[x].at = "commit" /\ purge[x].paths = {}
AnswersRestored(x) == Answers(x) /\ purge[x].error = "rows" /\ ~ purge[x].failed

\* "Local files were restored; please try again" is true: the rows that the
\* purge was to delete have the files again that it had staged.
RestoredMeansRestored ==
  [][\A x \in Purges : AnswersRestored(x) =>
       \A a \in purge[x].ids \cap rows :
         PathOf[a] \in purge[x].stages => File(PathOf[a]) \in disk]_vars

\* A purge that answers with success has freed the disk: no target is left,
\* and no file of one, unless a row that shares it is.
SuccessFreesDisk ==
  [][\A x \in Purges : AnswersPurged(x) =>
       /\ purge[x].ids \cap rows' = {}
       /\ \A p \in Of(purge[x].ids) \ (Of(rows') \cup Samples) :
            File(p) \notin disk' /\ Staged(p) \notin disk']_vars

\* What a purge answers is true: after a success nothing of its targets is left,
\* after an error that says so their files are back.
AnswersHold == RestoredMeansRestored /\ SuccessFreesDisk

\* Whoever takes over after a purge, its caller or the next start of the server,
\* finds what the purge promised.
PromisesHold == StartRepairs /\ AnswersHold

\* Only a bundled file can be there twice, under its name and quarantined: the
\* start-up repair, which refuses such a pair, never meets another one.
Single == \A p \in Paths \ Samples : File(p) \in disk => Staged(p) \notin disk

\* Every file of a row is under its name, or set aside by somebody who will put
\* it back, also where two purges meet.
FilesAreAccountedFor == TypeOK /\ RowsKeepTheirBytes /\ QuarantineIsExplained /\ Single

\* A bundled file that a read has written again beside its quarantined original:
\* the start-up repair refuses to roll that one back, now and at every start.
WrittenAgain(p) == p \in Samples \cap UsedPaths /\ {File(p), Staged(p)} \subseteq disk

\* A server that starts becomes ready, whatever crash or error it starts from;
\* only a bundled file written again beside its original can stop it.
StartsSucceed == phase \in {"down", "boot"} ~> phase = "ready" \/ \E p \in Paths : WrittenAgain(p)

\* Without the exception: does the start repair what a purge and a read left?
EveryStartSucceeds == phase \in {"down", "boot"} ~> phase = "ready"

\* Stated in app/api/assets/trash/route.ts: emptying the Trash deletes what is
\* soft-deleted. Does it delete a row that has been restored meanwhile?
TrashHoldsWhatIsPurged ==
  [][\A x \in Purges : purge[x].target = "trash" /\ rows' = rows \ purge[x].ids
       /\ rows' # rows => rows \ rows' \subseteq trash]_vars

\* Stated in storage-reconcile.ts: the file of an asset, active or in the
\* Trash, is never mistaken for an orphan. Is the quarantined one?
OwnedFilesAreSwept ==
  [][\A a \in rows : phase = "sweep" /\ Quarantined(a) => (Quarantined(a))']_vars

=============================================================================
