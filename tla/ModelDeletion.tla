---------------------------- MODULE ModelDeletion ----------------------------
(***************************************************************************)
(* Deletion of a local model: the DELETE handler of the models/[modelId]   *)
(* route, the managed files it stages (local-model-files.ts), the user's   *)
(* own file of an imported model (imported-model-registry.ts), and the     *)
(* recovery of a new server (local-workspace-owner.ts).                    *)
(*                                                                         *)
(* The handler holds the exclusive workspace gate and the desktop's delete *)
(* leases, so nothing else writes this state; what interleaves with it is  *)
(* failure: any step may fail, with its effect or without, any two steps   *)
(* may have a restart between them, and a request may follow one that left *)
(* its journal behind.  One model, one request at a time.                  *)
(***************************************************************************)
EXTENDS Integers, FiniteSets

CONSTANTS Managed,     \* files of a downloaded model in the managed cache
          External,    \* the user's own file of a model imported by its path
          MaxFaults,   \* bound on failed steps
          MaxCrashes   \* bound on restarts of the server

ASSUME ExternalIsNotManaged == External \notin Managed
ASSUME BoundsAreNat == MaxFaults \in Nat /\ MaxCrashes \in Nat

VARIABLES
  kind,      \* catalog or url: managed files; local: the user's file goes too; kept: it stays
  disk,      \* everything durable: files, registry, settings, the journal at hand
  old,       \* the journals that earlier requests left, each with its staged files
  before,    \* the disk when the request arrived: imported, cleared.previous
  pc, left,  \* the next step, and the files its loop has yet to visit
  told,      \* what the request knows it did: stagedExternal.hadFile, registryRemoved
  answer,
  hit,                 \* history: the windows in which a failure, a restart or a request fell
  faults, crashes      \* bounds

vars == <<kind, disk, old, before, pc, left, told, answer, hit, faults, crashes>>

Kinds == {"catalog", "url", "local", "kept"}
FilesOf(k) == CASE k \in {"catalog", "url"} -> Managed
                [] k = "local" -> {External}
                [] k = "kept" -> {}
Disks == [place : SUBSET (Managed \cup {External}),   \* files under their own name
          staged : SUBSET (Managed \cup {External}),  \* renamed to *.lunery-delete
          record : BOOLEAN,                           \* in the imported-model registry
          default : BOOLEAN,                          \* chosen in the settings
          journal : {"none", "plan", "recovery"},
          marker : BOOLEAN,                           \* <journal>.committed
          saved : BOOLEAN,                            \* the snapshot: the default was chosen
          xjournal : BOOLEAN]                         \* journal of the external file
Journals == [journal : {"plan", "recovery"}, marker : BOOLEAN, saved : BOOLEAN, staged : SUBSET Managed]

RollbackSteps == {"rollback", "backmark", "backplan", "xback", "relist", "xforget", "undefault"}
RequestSteps == RollbackSteps \cup
  {"xplan", "xstage", "xabandon", "plan", "stage", "unstage", "unplan", "inspect", "attach", "clear",
   "checkcleared", "remove", "mark", "checkmarked", "clean", "unmark", "unjournal", "xclean", "xdone"}
BootSteps == {"boot", "reclean", "reunmark", "reunjournal", "rerecord", "redefault", "putback",
              "dropmark", "dropplan", "bootx", "xwrite", "xend"}

TypeOK ==
  /\ kind \in Kinds /\ disk \in Disks /\ before \in Disks /\ old \subseteq Journals
  /\ pc \in {"idle"} \cup RequestSteps \cup BootSteps
  /\ left \subseteq Managed /\ told \subseteq {"file", "registry"}
  /\ answer \in {"none", "deleted", "failed", "stuck"}
  /\ hit \subseteq {"cleanup", "unwind", "uncommit", "unlisted", "retry", "reinstall"}
  /\ faults \in 0 .. MaxFaults /\ crashes \in 0 .. MaxCrashes

\* A model may be half downloaded; an imported one has its record.
Init ==
  /\ kind \in Kinds
  /\ \E there \in SUBSET FilesOf(kind), chosen \in BOOLEAN :
       disk = [place |-> there, staged |-> {}, record |-> kind # "catalog", default |-> chosen,
               journal |-> "none", marker |-> FALSE, saved |-> FALSE, xjournal |-> FALSE]
  /\ before = disk /\ old = {}
  /\ pc = "idle" /\ left = {} /\ told = {} /\ answer = "none"
  /\ hit = {} /\ faults = 0 /\ crashes = 0

-----------------------------------------------------------------------------
(* What one step does to the disk *)

Staged(d, f) == [d EXCEPT !.place = @ \ {f}, !.staged = @ \cup {f}]
PutBack(d, f) == [d EXCEPT !.place = @ \cup {f}, !.staged = @ \ {f}]
Unlinked(d, f) == [d EXCEPT !.staged = @ \ {f}]
PlannedLater(d) == d     \* Faulty: files are renamed before the plan is durable.
Planned(d) == [d EXCEPT !.journal = "plan"]
WithRecovery(d) == [d EXCEPT !.journal = "recovery", !.saved = d.default]
Unplanned(d) == [d EXCEPT !.journal = "none", !.saved = FALSE]
Marked(d) == [d EXCEPT !.marker = TRUE]
Unmarked(d) == [d EXCEPT !.marker = FALSE]
Cleared(d) == [d EXCEPT !.default = FALSE]
Removed(d) == [d EXCEPT !.record = FALSE]
XPlanned(d) == [d EXCEPT !.xjournal = TRUE]
XForgotten(d) == [d EXCEPT !.xjournal = FALSE]
DefaultForgotten(d, chosen) == d     \* Faulty: the settings stay cleared.
DefaultRestored(d, chosen) == [d EXCEPT !.default = @ \/ chosen]
RecordForgotten(d) == d      \* Faulty: the registry stays without the model.
RecordRestored(d) == [d EXCEPT !.record = @ \/ kind # "catalog"]

\* Every deletion writes a journal of its own.  The disk shows the one that the
\* request or the recovery works on; equal ones in old count once, for working
\* one off again changes nothing.
NoJournal == [journal |-> "none", marker |-> FALSE, saved |-> FALSE, staged |-> {}]
AtHand(d) == [journal |-> d.journal, marker |-> d.marker, saved |-> d.saved, staged |-> d.staged \cap Managed]
Journal(d) == IF d.journal = "none" THEN {} ELSE {AtHand(d)}
With(d, j) ==
  [d EXCEPT !.journal = j.journal, !.marker = j.marker, !.saved = j.saved,
            !.staged = (@ \ Managed) \cup j.staged]

StagedManaged == disk.staged \cap Managed
CollidesWithPlan(f) == f \in before.place   \* Faulty: the name was taken when the plan was made.
Collides(f) == f \in disk.place            \* the native rename replaces nothing

\* The places where the protocol's files do not say what was meant: the marker
\* is gone and the journal is not, so that recovery rolls back what was
\* committed; the journal is gone and the registry or the settings are not yet
\* restored; files are put back under a marker.
Windows(d) ==
  (IF /\ pc \in {"unmark", "unjournal", "reunmark", "reunjournal"}
      /\ d.journal # "none" /\ ~d.marker
   THEN {"cleanup"} ELSE {})
  \cup (IF /\ pc \in {"backplan", "xback", "relist", "xforget", "undefault"} /\ d.journal = "none"
           /\ d.record # before.record \/ d.default # before.default
        THEN {"unwind"} ELSE {})
  \cup (IF pc \in RollbackSteps /\ d.marker THEN {"uncommit"} ELSE {})

-----------------------------------------------------------------------------
(* A step: it is done and the handler goes on, or it fails, without effect  *)
(* or, when the native service did it and the reply was lost, with it       *)

Told ==
  (IF pc = "xstage" THEN {"file"} ELSE {}) \cup (IF pc = "remove" THEN {"registry"} ELSE {})

Goes(next) == pc' = next /\ UNCHANGED <<kind, old, before, crashes>>

Done(d, next) ==
  /\ disk' = d /\ Goes(next) /\ told' = told \cup Told
  /\ UNCHANGED <<hit, faults, answer>>

Fault(d) ==
  /\ faults < MaxFaults /\ faults' = faults + 1
  /\ disk' = d /\ hit' = hit \cup Windows(d)

Fails(d, next) == Fault(d) /\ Goes(next) /\ UNCHANGED <<told, answer>>

Try(step, d, next, handler) ==
  /\ pc = step /\ UNCHANGED left
  /\ Done(d, next) \/ \E e \in {disk, d} : Fails(e, handler)

Answers(a) ==
  /\ pc' = "idle" /\ answer' = a
  /\ UNCHANGED <<kind, old, before, left, told, crashes>>

\* A step whose failure is the end of the request.
TryOr(step, d, next, a) ==
  /\ pc = step
  /\ \/ Done(d, next) /\ UNCHANGED left
     \/ \E e \in {disk, d} : Fault(e) /\ Answers(a)

\* A rollback that fails answers 503, "Restart Studio and try again".
TryBack(step, d, next) == TryOr(step, d, next, "stuck")

\* The last step of a path: answered either way.
Last(step, d, a, onFailure) ==
  /\ pc = step
  /\ \/ disk' = d /\ Answers(a) /\ UNCHANGED <<hit, faults>>
     \/ \E e \in {disk, d} : Fault(e) /\ Answers(onFailure)

Skip(step, next) == pc = step /\ Done(disk, next) /\ UNCHANGED left

-----------------------------------------------------------------------------
(* The request *)

\* Leases, downloads and engines are settled first (ResidentEngines, SdEngine).
\* Nothing keeps a request from following one that left its journal behind; the
\* window is one that was not committed, which a new server will roll back.
Begin ==
  /\ pc = "idle"
  /\ kind # "catalog" => disk.record                       \* else 404
  /\ disk' = With(disk, NoJournal) /\ old' = old \cup Journal(disk)
  /\ before' = disk' /\ answer' = "none" /\ told' = {}
  /\ hit' = hit \cup IF ~disk.marker /\ (disk.staged # {} \/ disk.journal # "none")
                     THEN {"retry"} ELSE {}
  /\ pc' = IF kind = "local" /\ External \in disk.place THEN "xplan" ELSE "plan"
  /\ UNCHANGED <<kind, left, faults, crashes>>

\* stageImportedExternalModelFile: the journal, then the rename, which the route
\* does itself.
StageExternal ==
  \/ ~disk.xjournal /\ TryOr("xplan", XPlanned(disk), "xstage", "failed")
  \/ disk.xjournal /\ pc = "xplan" /\ Answers("failed") /\ UNCHANGED <<disk, hit, faults>>   \* 409
  \/ /\ pc = "xstage" /\ UNCHANGED left
     /\ Done(Staged(disk, External), "plan") \/ Fails(disk, "xabandon")
  \/ Last("xabandon", XForgotten(disk), "failed", "failed")

\* stageManagedModelFiles: the plan of every file that exists, then the renames.
Plan ==
  LET there == disk.place \cap Managed IN
  IF there = {} THEN Skip("plan", "inspect")
  ELSE /\ pc = "plan"
       /\ \/ Done(Planned(disk), "stage") /\ left' = there
          \/ \E e \in {disk, Planned(disk)} : Fault(e) /\ Answers("failed")

StageManaged ==
  \/ left = {} /\ Skip("stage", "inspect")
  \/ \E f \in left :
       /\ pc = "stage"
       /\ \/ Done(Staged(disk, f), "stage") /\ left' = left \ {f}
          \/ \E e \in {disk, Staged(disk, f)} : Fails(e, "unstage") /\ left' = {}

\* Its own rollback.  The caller never received the staged files: when this
\* fails too, the plan and what it names are left for the next start.
Unstage ==
  \/ \E f \in StagedManaged : TryOr("unstage", PutBack(disk, f), "unstage", "failed")
  \/ StagedManaged = {} /\ Skip("unstage", "unplan")
  \/ Last("unplan", Unplanned(disk), "failed", "failed")

\* The recovery snapshot, the settings, the registry, the marker; the lease
\* heartbeat must be healthy in between.  Without managed files the snapshot is
\* the first journal: when its reply is lost, the rollback does not know of it.
Commit ==
  LET undo == IF disk.journal = "none" THEN "xback" ELSE "rollback" IN
  \/ Try("inspect", disk, "attach", undo)
  \/ Try("attach", WithRecovery(disk), "clear", undo)
  \/ Try("clear", Cleared(disk), "checkcleared", "rollback")
  \/ Try("checkcleared", disk, "remove", "rollback")
  \/ IF kind = "catalog" THEN Skip("remove", "mark")
     ELSE Try("remove", Removed(disk), "mark", "rollback")
  \/ Try("mark", Marked(disk), "checkmarked", "rollback")
  \/ Try("checkmarked", disk, "clean", "rollback")

\* The catch: files, the marker, the journal; then the owners.  The record comes
\* back only when registryRemoved was set, after the reply to the removal: a
\* window when the removal was done and its reply lost.
Rollback ==
  \/ \E f \in StagedManaged : TryBack("rollback", PutBack(disk, f), "rollback")
  \/ StagedManaged = {} /\ Skip("rollback", "backmark")
  \/ TryBack("backmark", Unmarked(disk), "backplan")
  \/ TryBack("backplan", Unplanned(disk), "xback")
  \/ IF "file" \in told
     THEN TryBack("xback", PutBack(disk, External), "relist")
     ELSE Skip("xback", "relist")
  \/ IF kind = "local" \/ "registry" \in told
     THEN TryBack("relist", RecordRestored(disk), "xforget")
     ELSE /\ pc = "relist" /\ disk' = disk /\ Goes("xforget")
          /\ hit' = hit \cup IF disk.record # before.record THEN {"unlisted"} ELSE {}
          /\ UNCHANGED <<left, told, faults, answer>>
  \/ IF "file" \in told
     THEN Try("xforget", XForgotten(disk), "undefault", "undefault")
     ELSE Skip("xforget", "undefault")
  \/ Last("undefault", DefaultRestored(disk, before.default), "failed", "stuck")

\* One pass over the staged files; those it could not unlink are left.
Sweep(step, done, pending) ==
  \/ \E f \in StagedManaged \ left :
       /\ pc = step
       /\ \/ Done(Unlinked(disk, f), step) /\ UNCHANGED left
          \/ \E e \in {disk, Unlinked(disk, f)} : Fails(e, step) /\ left' = left \cup {f}
  \/ /\ pc = step /\ StagedManaged \subseteq left /\ left' = {}
     /\ Done(disk, IF left = {} THEN done ELSE pending)

\* finalizeManagedModelFiles, commitImportedExternalModelFile: the model is
\* deleted, whatever fails from here on is only pending.
CleanUp ==
  \/ Sweep("clean", "unmark", "xclean")
  \/ Try("unmark", Unmarked(disk), "unjournal", "xclean")
  \/ Try("unjournal", Unplanned(disk), "xclean", "xclean")
  \/ IF "file" \in told
     THEN TryOr("xclean", Unlinked(disk, External), "xdone", "deleted")
     ELSE Last("xclean", disk, "deleted", "deleted")
  \/ Last("xdone", XForgotten(disk), "deleted", "deleted")

-----------------------------------------------------------------------------
(* A new server, before its first answer; a failure lets the next request   *)
(* try again from the start *)

Restart ==
  /\ crashes < MaxCrashes /\ crashes' = crashes + 1
  /\ pc' = "boot" /\ left' = {} /\ told' = {}
  /\ hit' = hit \cup Windows(disk)
  /\ UNCHANGED <<kind, disk, old, before, answer, faults>>

\* The journals, in the order of the directory.
Open ==
  LET all == old \cup Journal(disk) IN
  \/ all = {} /\ Skip("boot", "bootx")
  \/ \E j \in all :
       /\ pc = "boot" /\ disk' = With(disk, j) /\ old' = all \ {j}
       /\ pc' = IF j.marker THEN "reclean"
                ELSE IF j.journal = "recovery" THEN "rerecord" ELSE "putback"
       /\ UNCHANGED <<kind, before, left, told, answer, hit, faults, crashes>>

\* reconcileStagedManagedModelFiles: committed work is finished, prepared work
\* is rolled back, its owners before its files.
ReconcileManaged ==
  \/ Open
  \/ Sweep("reclean", "reunmark", "boot")
  \/ Try("reunmark", Unmarked(disk), "reunjournal", "boot")
  \/ Try("reunjournal", Unplanned(disk), "boot", "boot")
  \/ Try("rerecord", RecordRestored(disk), "redefault", "boot")
  \/ Try("redefault", DefaultRestored(disk, disk.saved), "putback", "boot")
  \/ \E f \in StagedManaged :
       IF Collides(f) THEN Skip("putback", "boot") ELSE Try("putback", PutBack(disk, f), "putback", "boot")
  \/ StagedManaged = {} /\ Skip("putback", "dropmark")
  \/ Try("dropmark", Unmarked(disk), "dropplan", "boot")
  \/ Try("dropplan", Unplanned(disk), "boot", "boot")

\* reconcileExternalModelDeleteJournals: the registry says which way to go.
ReconcileExternal ==
  \/ ~disk.xjournal /\ Skip("bootx", "idle")
  \/ /\ disk.xjournal
     /\ IF External \in disk.staged
        THEN IF disk.record
             THEN Try("bootx", PutBack(disk, External), "xwrite", "boot")
             ELSE Try("bootx", Unlinked(disk, External), "xend", "idle")
        ELSE IF disk.record /\ External \notin disk.place
             THEN Skip("bootx", "idle")      \* the journal stays
             ELSE Skip("bootx", IF disk.record THEN "xwrite" ELSE "xend")
  \/ Try("xwrite", disk, "xend", "boot")
  \/ Try("xend", XForgotten(disk), "idle", "idle")

\* The user downloads a file again that a deletion left staged.
Reinstall(f) ==
  /\ pc = "idle"
  /\ f \in UNION {j.staged : j \in old \cup Journal(disk)} \ disk.place
  /\ disk' = [disk EXCEPT !.place = @ \cup {f}]
  /\ hit' = hit \cup {"reinstall"}
  /\ UNCHANGED <<kind, old, before, pc, left, told, answer, faults, crashes>>

Server ==
  \/ StageExternal \/ Plan \/ StageManaged \/ Unstage \/ Commit \/ Rollback \/ CleanUp
  \/ ReconcileManaged \/ ReconcileExternal

Next ==
  \/ Begin \/ Server \/ Restart
  \/ \E f \in Managed : Reinstall(f)

Spec == Init /\ [][Next]_vars

\* The handler and the recovery run to their end; nobody has to ask again.
FairSpec == Spec /\ WF_vars(Server)

-----------------------------------------------------------------------------
(* Properties *)

\* Whatever is out of its place is named by a journal that outlives the server,
\* and a commit marker never outlives the journal it is about.
ResidueIsJournaled ==
  /\ StagedManaged # {} => disk.journal # "none"
  /\ External \in disk.staged => disk.xjournal
  /\ disk.marker => disk.journal # "none"

Untouched == disk.place = before.place /\ disk.record = before.record /\ disk.default = before.default
Deleted == disk.place = {} /\ ~disk.record /\ ~disk.default
Settled == pc = "idle" /\ disk.journal = "none" /\ old = {} /\ ~disk.xjournal

\* Between requests, with no journal left, the files, the registry and the
\* settings are all as they were or all without the model, whatever failed and
\* whenever the server stopped, the named windows apart.
DeletionIsAtomic == Settled /\ hit = {} => Untouched \/ Deleted

\* What the answer said stays true across restarts: a model that was reported
\* deleted never comes back, one that was not is whole again.
AnswersAreTrue ==
  Settled /\ hit = {} =>
    /\ answer = "deleted" => Deleted
    /\ answer = "failed" => Untouched

\* A new server gets through its recovery, however often it is stopped, unless
\* a file it has to put back was downloaded again.
RecoveryEnds == pc = "boot" ~> pc = "idle" \/ "reinstall" \in hit

\* What the comments promise: recovery rolls prepared work back and finishes
\* committed work, after any crash.
AtomicAfterAnyCrash == Settled /\ "reinstall" \notin hit => Untouched \/ Deleted

\* What a request answers after one whose rollback failed ("try again"): the
\* model that it reported deleted does not come back at the next start.
DeletedStaysDeleted == Settled /\ hit \subseteq {"retry"} => (answer = "deleted" => Deleted)

\* What a failed deletion leaves although the reply of the registry was lost.
FailedIsWhole == Settled /\ hit \subseteq {"unlisted"} => (answer = "failed" => Untouched)

=============================================================================
