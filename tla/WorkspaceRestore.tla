--------------------------- MODULE WorkspaceRestore ---------------------------
(***************************************************************************)
(* Restoring a workspace backup: the durable journal, the native directory *)
(* swap, the database transaction with its commit marker, and the          *)
(* reconciliation that finishes or undoes all of it after an error, a      *)
(* server crash or a crash of the whole application.                       *)
(*                                                                         *)
(*   lib/server/workspace-backup.ts           the restore itself           *)
(*   lib/server/workspace-restore-journal.ts  journal and reconciliation   *)
(*   src-tauri/src/profile_fs.rs              prepare, promote, rollback,  *)
(*                                            cleanup, one rename at a time *)
(*                                                                         *)
(* One action is one durable effect: a crash can fall between any two. The *)
(* restore holds the workspace gate (module WorkspaceGate), so nothing but *)
(* the restore runs unless phase is "idle".                                *)
(***************************************************************************)
EXTENDS Integers, FiniteSets

CONSTANTS
  Assets,          \* assets a user may add: one row and one media file each
  MaxRestores,     \* bound on restore attempts
  MaxCrashes,      \* bound on crashes
  MaxFaults,       \* bound on failing steps
  SplitIsLeftAlone \* TRUE: nobody adds an asset to a workspace whose parts disagree

ASSUME BoundsAreNaturals ==
  /\ MaxRestores \in Nat /\ MaxCrashes \in Nat /\ MaxFaults \in Nat
  /\ SplitIsLeftAlone \in BOOLEAN

Roots == {"media", "config"}
Names == {"live", "staged", "previous", "discarded"}
Ids == 1 .. 20                     \* directory identities (device and inode)
NoId == [r \in Roots |-> 0]
Empty == -1                        \* contents of a directory nothing was put in
Partial == -2                      \* contents that are no complete tree

\* A directory: its identity, which workspace its tree belongs to, its files.
NoDir == [id |-> 0, ver |-> Empty, files |-> {}]
EmptyDir(i) == [id |-> i, ver |-> Empty, files |-> {}]

NoJournal == [token |-> 0, orig |-> NoId, staged |-> NoId]

VARIABLES
  dirs,       \* the four names of each root under the profile
  journal,    \* the restore journal file
  db,         \* the workspace the rows belong to, and the asset rows
  marker,     \* the commit marker row: token of the restore it belongs to
  authority,  \* native process: staging authority (token and identities)
  pinned,     \* native process: identities of the live roots
  phase,      \* where the server is
  aim,        \* what a reconciliation or cleanup in progress is part of
  ensured,    \* server process: startup reconciliation has succeeded
  attempts,   \* restores started so far; the newest one's token
  exported,   \* the last exported backup: versions of rows, media and config
  crashes, faults

durable == <<dirs, journal, db, marker>>
memory == <<authority, pinned, ensured>>
bounds == <<attempts, exported, crashes, faults>>
vars == <<durable, memory, phase, aim, bounds>>

Exists(r, n) == dirs[r][n].id # 0
LiveIds == [r \in Roots |-> dirs[r]["live"].id]
Attested == journal.staged # NoId

\* Faulty: the database is never asked for the marker.
NeverCommitted == FALSE
CommittedByJournal == journal.token # 0

\* A marker counts for the restore it names, and for no other.
Committed == journal.token # 0 /\ marker = journal.token

\* Identities that something on disk or in memory refers to.
UsedIds ==
  {dirs[r][n].id : r \in Roots, n \in Names} \cup
  UNION {{pinned[r], journal.orig[r], journal.staged[r],
          authority.orig[r], authority.staged[r]} : r \in Roots}
\* The identities of the next directory made under each root.
FreshIds == CHOOSE f \in [Roots -> Ids \ UsedIds] : f["media"] # f["config"]

\* Faulty: the source name stays.
MoveKeepingSource(r, from, to) == [dirs EXCEPT ![r][to] = dirs[r][from]]

\* renameat without replacement of a directory inside its parent.
Move(r, from, to) == [dirs EXCEPT ![r][to] = dirs[r][from], ![r][from] = NoDir]

\* A step that fails uses up the budget; every other step leaves it alone.
Fault == faults < MaxFaults /\ faults' = faults + 1
NoFault == UNCHANGED faults

Goto(p, a) == phase' = p /\ aim' = a

Init ==
  /\ dirs = [r \in Roots |-> [n \in Names |->
               IF n # "live" THEN NoDir
               ELSE [id |-> IF r = "media" THEN 1 ELSE 2, ver |-> 0, files |-> {}]]]
  /\ journal = NoJournal
  /\ db = [ver |-> 0, rows |-> {}]
  /\ marker = 0
  /\ authority = NoJournal
  /\ pinned = NoId
  /\ phase = "down"
  /\ aim = "boot"
  /\ ensured = FALSE
  /\ attempts = 0
  /\ exported = <<0, 0, 0>>
  /\ crashes = 0
  /\ faults = 0

-----------------------------------------------------------------------------
(* Crashes and starts.                                                     *)

\* ensure_profile_dirs: a missing live root is created as an empty directory.
WithPlaceholders ==
  [r \in Roots |-> IF Exists(r, "live") THEN dirs[r]
                   ELSE [dirs[r] EXCEPT !["live"] = EmptyDir(FreshIds[r])]]

\* The application dies: the native process forgets its authority and pins.
Crash ==
  /\ phase # "down" /\ crashes < MaxCrashes
  /\ crashes' = crashes + 1
  /\ authority' = NoJournal
  /\ pinned' = NoId
  /\ ensured' = FALSE
  /\ Goto("down", "boot")
  /\ UNCHANGED <<durable, attempts, exported, faults>>

\* The application starts: placeholders, then initialize_roots pins what is live.
Start ==
  /\ phase = "down"
  /\ dirs' = WithPlaceholders
  /\ pinned' = [r \in Roots |-> dirs'[r]["live"].id]
  /\ Goto("boot", "boot")
  /\ UNCHANGED <<journal, db, marker, authority, ensured, bounds>>

\* Phases in which the native process is in the middle of an operation, which
\* it finishes even when the server that asked for it is gone.
NativeBusy == phase \in {"prepare2", "swap", "undo", "sweep"}

\* Only the private server dies and is booted again: native memory survives.
ServerCrash ==
  /\ phase # "down" /\ ~ NativeBusy /\ crashes < MaxCrashes
  /\ crashes' = crashes + 1
  /\ dirs' = WithPlaceholders
  /\ ensured' = FALSE
  /\ Goto("boot", "boot")
  /\ UNCHANGED <<journal, db, marker, authority, pinned, attempts, exported, faults>>

-----------------------------------------------------------------------------
(* Reconciliation: reconcileWorkspaceRestoreStateWithAuthority.            *)

\* Where its caller goes on: startup, the beginning of a restore, the error
\* path of a restore, the tail of a committed restore, or an export.
Continues == [boot |-> "idle", begin |-> "journal", abort |-> "idle", done |-> "idle",
              export |-> "export"]
GivesUp == IF aim = "boot" THEN "boot" ELSE "idle"

Finish(ok) ==
  /\ aim' = aim
  /\ phase' = IF ok THEN Continues[aim] ELSE GivesUp
  /\ ensured' = (ensured \/ (aim = "boot" /\ ok))

\* ensureWorkspaceRestoreReconciled, asked for by the first request.
Reconcile ==
  /\ phase = "boot"
  /\ Goto("reconcile", "boot")
  /\ UNCHANGED <<durable, memory, bounds>>

\* Read the journal and the marker and choose the direction.
Decide ==
  /\ phase = "reconcile"
  /\ Goto(IF journal.token = 0 THEN "unmark" ELSE IF Committed THEN "refresh" ELSE "rollback", aim)
  /\ UNCHANGED <<durable, memory, bounds>>

Promoted == \A r \in Roots : dirs[r]["live"].id = journal.staged[r]

\* Both promoted roots must be the attested ones before they are published.
Refresh ==
  /\ phase = "refresh"
  /\ IF Promoted
     THEN pinned' = LiveIds /\ Goto("cleanup", aim) /\ UNCHANGED ensured
     ELSE UNCHANGED pinned /\ Finish(FALSE)
  /\ UNCHANGED <<durable, authority, bounds>>

CleanupAllowed ==
  /\ Attested /\ Promoted
  /\ \A r \in Roots :
       /\ dirs[r]["staged"].id \in {0, journal.staged[r]}
       /\ dirs[r]["discarded"].ver = Empty
       /\ dirs[r]["previous"].id \in {0, journal.orig[r]}

\* Faulty: the trees stay when the journal goes.
CleanupSkippingTrees ==
  /\ phase = "cleanup"
  /\ IF CleanupAllowed THEN Goto("unjournal", aim) /\ UNCHANGED ensured ELSE Finish(FALSE)
  /\ UNCHANGED <<durable, authority, pinned, bounds>>

\* cleanup_workspace_restore validates everything before it deletes anything.
Cleanup ==
  /\ phase = "cleanup"
  /\ IF CleanupAllowed THEN Goto("sweep", aim) /\ UNCHANGED ensured ELSE Finish(FALSE)
  /\ UNCHANGED <<durable, authority, pinned, bounds>>

\* Faulty: an empty directory made by a restart counts as a replaced root.
SwappedByUs(r) ==
  \/ ~ Exists(r, "live")
  \/ dirs[r]["live"].id = journal.staged[r] /\ ~ Exists(r, "staged")

\* With a previous tree aside, what is live is nothing, the promoted stage, or
\* the empty directory that a restart has made in its place.
Swapped(r) ==
  \/ ~ Exists(r, "live")
  \/ dirs[r]["live"].id = journal.staged[r] /\ ~ Exists(r, "staged")
  \/ /\ dirs[r]["live"].ver = Empty /\ dirs[r]["live"].id # journal.staged[r]
     /\ dirs[r]["staged"].id = journal.staged[r]

\* The preflight of rollback_workspace_restore_roots_with for one root.
RollbackAllowed(r) ==
  LET live == dirs[r]["live"]
      staged == dirs[r]["staged"]
      previous == dirs[r]["previous"]
      discarded == dirs[r]["discarded"]
  IN  IF Attested
      THEN /\ staged.id \in {0, journal.staged[r]}
           /\ discarded.ver = Empty
           /\ IF previous.id # 0 THEN previous.id = journal.orig[r] /\ Swapped(r)
                                 ELSE live.id = journal.orig[r]
      ELSE /\ previous.id = 0 /\ discarded.id = 0
           /\ live.id = journal.orig[r]
           /\ staged.ver = Empty

AuthorityAgrees ==
  authority.token = journal.token =>
    /\ authority.orig = journal.orig
    /\ Attested => authority.staged = journal.staged

Rollback ==
  /\ phase = "rollback"
  /\ IF AuthorityAgrees /\ \A r \in Roots : RollbackAllowed(r)
     THEN Goto("undo", aim) /\ UNCHANGED ensured
     ELSE Finish(FALSE)
  /\ UNCHANGED <<durable, authority, pinned, bounds>>

\* The order in which rollback puts the roots back: config, then media.
NextToUndo == IF Exists("config", "previous") THEN "config" ELSE "media"

\* One rename of the rollback: move what is live aside, then the previous tree
\* back.  A second placeholder, after a crash inside a rollback, is removed.
Undo ==
  LET r == NextToUndo
      live == dirs[r]["live"]
  IN  /\ phase = "undo"
      /\ IF Exists(r, "previous")
         THEN /\ dirs' = IF live.id = 0 THEN Move(r, "previous", "live")
                         ELSE IF live.id = journal.staged[r] THEN Move(r, "live", "staged")
                         ELSE IF Exists(r, "discarded")
                              THEN [dirs EXCEPT ![r]["live"] = NoDir]
                              ELSE Move(r, "live", "discarded")
              /\ Goto("undo", aim)
         ELSE UNCHANGED dirs /\ Goto("sweep", aim)
      /\ UNCHANGED <<journal, db, marker, memory, bounds>>

\* The order of cleanup_restore_residue.
Residue == <<"staged", "discarded", "previous">>
SweepRoot == IF \E n \in Names \ {"live"} : Exists("media", n) THEN "media" ELSE "config"
SweepName(r) == Residue[CHOOSE i \in 1 .. 3 : /\ Exists(r, Residue[i])
                                              /\ \A j \in 1 .. i - 1 : ~ Exists(r, Residue[j])]

\* A tree goes file by file before its directory does.
Dismantled(d) == IF d.ver \in Nat THEN [d EXCEPT !.ver = Partial] ELSE NoDir

\* Faulty: the authority outlives its restore.
StillHeld == authority

\* clear_restore_authority: only the restore it was made for gives it back.
Released == IF authority.token = journal.token THEN NoJournal ELSE authority

\* One step of the removal; at the end a rollback publishes the live identities,
\* and either operation gives the staging authority back.
Sweep ==
  /\ phase = "sweep"
  /\ IF \E r \in Roots, n \in Names \ {"live"} : Exists(r, n)
     THEN /\ dirs' = [dirs EXCEPT ![SweepRoot][SweepName(SweepRoot)] = Dismantled(@)]
          /\ Goto("sweep", aim)
          /\ UNCHANGED <<authority, pinned>>
     ELSE /\ pinned' = IF Committed THEN pinned ELSE LiveIds
          /\ authority' = Released
          /\ Goto("unjournal", aim)
          /\ UNCHANGED dirs
  /\ UNCHANGED <<journal, db, marker, ensured, bounds>>

\* removeRestoreJournal, and only then the marker.
Unjournal ==
  /\ phase = "unjournal"
  /\ journal' = NoJournal
  /\ Goto("unmark", aim)
  /\ UNCHANGED <<dirs, db, marker, memory, bounds>>

Unmark ==
  /\ phase = "unmark"
  /\ marker' = 0
  /\ Finish(TRUE)
  /\ UNCHANGED <<dirs, journal, db, authority, pinned, bounds>>

\* A step of a reconciliation fails: a native error, a failing unlink, fsync or
\* query.  One that fails after its effect is the next one failing before its own.
ReconcileFails ==
  /\ phase \in {"reconcile", "refresh", "cleanup", "rollback", "undo", "sweep",
                "unjournal", "unmark"}
  /\ Fault
  /\ Finish(FALSE)
  /\ marker' \in {marker, IF phase = "unmark" THEN 0 ELSE marker}
  /\ UNCHANGED <<dirs, journal, db, authority, pinned, attempts, exported, crashes>>

-----------------------------------------------------------------------------
(* The restore: restoreWorkspaceBackup.                                    *)

\* Exclusive ownership is taken and an earlier restore is settled first.
StartRestore ==
  /\ phase = "idle" /\ ensured /\ attempts < MaxRestores
  /\ attempts' = attempts + 1
  /\ Goto("reconcile", "begin")
  /\ UNCHANGED <<durable, memory, exported, crashes, faults>>

\* The error path: reconcile, then report the error.
Abort == Goto("reconcile", "abort")

\* The durable plan, with the identities of the live roots and no stage yet.
Plan == [token |-> attempts, orig |-> LiveIds, staged |-> NoId]

WriteJournal ==
  /\ phase = "journal"
  /\ IF \A r \in Roots : Exists(r, "live")
     THEN journal' = Plan /\ Goto("prepare", aim)
     ELSE UNCHANGED journal /\ Goto("idle", aim)
  /\ UNCHANGED <<dirs, db, marker, memory, bounds>>

\* No journal is known to be written, so nothing is reconciled; the rename may
\* have happened before the failing fsync.
WriteJournalFails ==
  /\ phase = "journal"
  /\ Fault
  /\ journal' \in {journal, IF \A r \in Roots : Exists(r, "live") THEN Plan ELSE journal}
  /\ Goto("idle", aim)
  /\ UNCHANGED <<dirs, db, marker, memory, attempts, exported, crashes>>

PrepareAllowed ==
  /\ authority.token = 0
  /\ pinned = journal.orig
  /\ \A r \in Roots : /\ dirs[r]["live"].id = pinned[r]
                      /\ \A n \in Names \ {"live"} : ~ Exists(r, n)

\* prepare_workspace_restore makes the media stage, then the config stage, and
\* becomes the authority for both.
Prepare ==
  /\ phase = "prepare"
  /\ IF PrepareAllowed
     THEN /\ dirs' = [dirs EXCEPT !["media"]["staged"] = EmptyDir(FreshIds["media"])]
          /\ Goto("prepare2", aim)
     ELSE UNCHANGED dirs /\ Abort
  /\ UNCHANGED <<journal, db, marker, memory, bounds>>

PrepareConfig ==
  /\ phase = "prepare2"
  /\ dirs' = [dirs EXCEPT !["config"]["staged"] = EmptyDir(FreshIds["config"])]
  /\ authority' = [journal EXCEPT !.staged = [r \in Roots |-> dirs'[r]["staged"].id]]
  /\ Goto("attest", aim)
  /\ UNCHANGED <<journal, db, marker, pinned, ensured, bounds>>

\* A failing mkdir takes the first stage away again.
PrepareFails ==
  /\ phase \in {"prepare", "prepare2"}
  /\ Fault
  /\ dirs' = [dirs EXCEPT !["media"]["staged"] = NoDir]
  /\ Abort
  /\ UNCHANGED <<journal, db, marker, memory, attempts, exported, crashes>>

StagedIds == [r \in Roots |-> dirs[r]["staged"].id]

\* Faulty: attested, but not written down.
AttestUnjournaled ==
  /\ phase = "attest"
  /\ Goto("fill", aim)
  /\ UNCHANGED <<durable, memory, bounds>>

\* The stage identities are attested and made durable before any payload.
Attest ==
  /\ phase = "attest"
  /\ journal' = [journal EXCEPT !.staged = StagedIds]
  /\ Goto("fill", aim)
  /\ UNCHANGED <<dirs, db, marker, memory, bounds>>

\* Payload files arrive one by one, then each stage is sealed.
Fill ==
  /\ phase \in {"fill", "seal"}
  /\ dirs' = [r \in Roots |-> [dirs[r] EXCEPT !["staged"].ver =
                IF phase = "fill" THEN Partial ELSE attempts]]
  /\ Goto(IF phase = "fill" THEN "seal" ELSE "promote", aim)
  /\ UNCHANGED <<journal, db, marker, memory, bounds>>

PromoteAllowed ==
  \A r \in Roots : /\ dirs[r]["live"].id = pinned[r]
                   /\ dirs[r]["staged"].id = authority.staged[r]
                   /\ ~ Exists(r, "previous") /\ ~ Exists(r, "discarded")

Promote ==
  /\ phase = "promote"
  /\ IF PromoteAllowed THEN Goto("swap", aim) ELSE Abort
  /\ UNCHANGED <<durable, memory, bounds>>

\* Faulty: promotion never gets to the second root.
MediaAgain == "media"

\* The order in which promotion swaps the roots: media, then config.
NextToSwap == IF dirs["media"]["live"].id # authority.staged["media"] THEN "media" ELSE "config"

\* One rename of the promotion; at the end the new identities are published.
Swap ==
  LET r == NextToSwap
  IN  /\ phase = "swap"
      /\ IF LiveIds # authority.staged
         THEN /\ dirs' = IF Exists(r, "live") THEN Move(r, "live", "previous")
                                              ELSE Move(r, "staged", "live")
              /\ Goto("swap", aim)
              /\ UNCHANGED pinned
         ELSE /\ pinned' = LiveIds
              /\ Goto("commit", aim)
              /\ UNCHANGED dirs
      /\ UNCHANGED <<journal, db, marker, authority, ensured, bounds>>

\* A failing rename or fsync ends the promotion where it is; the identities are
\* published again when both live roots can still be opened.
SwapFails ==
  /\ phase = "swap"
  /\ Fault
  /\ pinned' = IF \A r \in Roots : Exists(r, "live") THEN LiveIds ELSE pinned
  /\ Abort
  /\ UNCHANGED <<durable, authority, ensured, attempts, exported, crashes>>

\* Faulty: the marker is not part of the transaction.
CommitRowsUnmarked ==
  /\ db' = [ver |-> attempts, rows |-> {}]
  /\ UNCHANGED marker

\* The database transaction replaces every row and writes the marker.
CommitRows ==
  /\ db' = [ver |-> attempts, rows |-> {}]
  /\ marker' = attempts

Commit ==
  /\ phase = "commit"
  /\ CommitRows
  /\ Goto("cleanup", "done")
  /\ UNCHANGED <<dirs, journal, memory, bounds>>

\* The transaction fails, or commits and its result is lost.
CommitFails ==
  /\ phase = "commit"
  /\ Fault
  /\ CommitRows \/ UNCHANGED <<db, marker>>
  /\ Abort
  /\ UNCHANGED <<dirs, journal, memory, attempts, exported, crashes>>

\* Any other step of the restore before the commit fails, or its reply is lost.
StepFails ==
  /\ phase \in {"attest", "fill", "seal", "promote"}
  /\ Fault
  /\ journal' \in {journal, IF phase = "attest" THEN [journal EXCEPT !.staged = StagedIds]
                                                ELSE journal}
  /\ Abort
  /\ UNCHANGED <<dirs, db, marker, memory, attempts, exported, crashes>>

-----------------------------------------------------------------------------
(* The rest of the workspace.                                              *)

\* Faulty: export reads what it finds.
StartExportUnreconciled ==
  /\ phase = "idle" /\ ensured
  /\ Goto("export", "export")
  /\ UNCHANGED <<durable, memory, bounds>>

\* exportWorkspaceBackup reconciles, then reads rows, media and config.
StartExport ==
  /\ phase = "idle" /\ ensured
  /\ Goto("reconcile", "export")
  /\ UNCHANGED <<durable, memory, bounds>>

Export ==
  /\ phase = "export"
  /\ exported' = <<db.ver, dirs["media"]["live"].ver, dirs["config"]["live"].ver>>
  /\ Goto("idle", aim)
  /\ UNCHANGED <<durable, memory, attempts, crashes, faults>>

\* Rows, media and config belong to one workspace.
Whole == \A r \in Roots : dirs[r]["live"].ver = db.ver

\* Requests pass the startup gate once it has succeeded; the memoized promise
\* does not learn of a reconciliation that fails later.
Usable == phase = "idle" /\ ensured

\* A request adds an asset under a shared lease: the native process refuses a
\* live root it has not pinned, then the row follows the file.
AddAsset(a) ==
  /\ Usable /\ a \notin db.rows /\ (SplitIsLeftAlone => Whole)
  /\ Exists("media", "live") /\ dirs["media"]["live"].id = pinned["media"]
  /\ dirs' = [dirs EXCEPT !["media"]["live"].files = @ \cup {a}]
  /\ db' = [db EXCEPT !.rows = @ \cup {a}]
  /\ UNCHANGED <<journal, marker, memory, phase, aim, bounds>>

\* The same request when the live root is missing: the storage layer creates
\* root and bucket before the native write refuses the unpinned root.
AddAssetRefused ==
  /\ Usable
  /\ ~ Exists("media", "live")
  /\ dirs' = [dirs EXCEPT !["media"]["live"] = [EmptyDir(FreshIds["media"]) EXCEPT !.ver = Partial]]
  /\ UNCHANGED <<journal, db, marker, memory, phase, aim, bounds>>

-----------------------------------------------------------------------------
Recovery == \/ Reconcile \/ Decide \/ Refresh \/ Cleanup \/ Rollback
            \/ Undo \/ Sweep \/ Unjournal \/ Unmark

Restoring == \/ WriteJournal \/ Prepare \/ PrepareConfig \/ Attest \/ Fill
             \/ Promote \/ Swap \/ Commit \/ Export

Failing == \/ Crash \/ ServerCrash \/ ReconcileFails \/ WriteJournalFails
           \/ PrepareFails \/ StepFails \/ SwapFails \/ CommitFails

Next ==
  \/ Start
  \/ Recovery
  \/ Restoring
  \/ Failing
  \/ StartRestore
  \/ StartExport
  \/ \E a \in Assets : AddAsset(a)
  \/ AddAssetRefused

Spec == Init /\ [][Next]_vars

\* The server and the native process go on with what they have begun, and a
\* booted server gets a request.  Nothing obliges the user to start the
\* application again.
FairSpec == Spec /\ WF_vars(Recovery) /\ WF_vars(Restoring)

-----------------------------------------------------------------------------
(* Properties.                                                             *)

Dir == [id : Ids \cup {0}, ver : {Empty, Partial} \cup 0 .. MaxRestores, files : SUBSET Assets]
JournalType == [token : 0 .. MaxRestores, orig : [Roots -> Ids \cup {0}], staged : [Roots -> Ids \cup {0}]]
Phases == {"down", "boot", "reconcile", "refresh", "cleanup", "rollback", "undo", "sweep",
           "unjournal", "unmark", "idle", "journal", "prepare", "prepare2", "attest",
           "fill", "seal", "promote", "swap", "commit", "export"}

\* Every variable has its type, and no directory has two names: every rename
\* of profile_fs.rs moves a tree, none copies or replaces one.
TypeOK ==
  /\ dirs \in [Roots -> [Names -> Dir]]
  /\ \A r, q \in Roots, n, m \in Names :
       Exists(r, n) /\ dirs[r][n].id = dirs[q][m].id => r = q /\ n = m
  /\ journal \in JournalType /\ authority \in JournalType
  /\ db \in [ver : 0 .. MaxRestores, rows : SUBSET Assets]
  /\ marker \in 0 .. MaxRestores /\ attempts \in 0 .. MaxRestores
  /\ pinned \in [Roots -> Ids \cup {0}]
  /\ phase \in Phases /\ aim \in {"boot", "begin", "abort", "done", "export"}
  /\ ensured \in BOOLEAN
  /\ crashes \in 0 .. MaxCrashes /\ faults \in 0 .. MaxFaults

\* A settled workspace (requests run and no restore is journaled) is all old or
\* all new: rows, media and config belong together, the native process has
\* pinned what is live, and no tree of any restore is left behind.  Every crash,
\* fault and retry on the way has been undone or finished.
SettledIsWhole ==
  phase = "idle" /\ ensured /\ journal.token = 0 =>
    /\ Whole
    /\ pinned = LiveIds
    /\ marker \in {0, db.ver}
    /\ \A r \in Roots, n \in Names \ {"live"} : ~ Exists(r, n)

\* At every instant, each root still has a complete tree of the workspace the
\* rows belong to, in place or set aside under the previous name: no crash can
\* fall where the only copy has been deleted.
OneTreeAlwaysSurvives ==
  \A r \in Roots : \E n \in {"live", "previous"} : dirs[r][n].ver = db.ver

\* A request has made a media root, with a bucket inside, where the restore had
\* moved the live one away.
Recreated == dirs["media"]["live"].ver = Partial

\* Recovery is never stuck: whenever reconciliation asks the native process to
\* roll back, to refresh or to clean up, its preflight accepts what it finds,
\* whatever crashes and faults led there, unless a request has recreated the
\* media root meanwhile.  A refusal would repeat on every start, since nothing
\* else changes the directories.
RecoveryNeverStuck ==
  /\ phase = "rollback" /\ ~ Recreated => AuthorityAgrees /\ \A r \in Roots : RollbackAllowed(r)
  /\ phase = "refresh" => Promoted
  /\ phase = "cleanup" => CleanupAllowed

\* A restore is never refused because of an earlier one: once its journal is
\* written, no staging authority, stale pin or leftover tree stops prepare, and
\* nothing stops the promotion.
RestoreNeverRefused ==
  /\ phase = "prepare" => PrepareAllowed
  /\ phase = "promote" => PromoteAllowed

\* A tree other than a live one exists only while the journal on disk names the
\* restore it belongs to; without a journal nothing would ever remove it.
ResidueIsJournaled ==
  (\E r \in Roots, n \in Names \ {"live"} : Exists(r, n)) => journal.token # 0

\* An exported backup never mixes two workspaces, even when an earlier rollback
\* failed and left a split one: export reconciles first or does not happen.
ExportsAreWhole == exported[1] = exported[2] /\ exported[1] = exported[3]

\* The user's workspace is never torn: settled it is all old or all new, on the
\* way one complete tree of it survives, and what is exported is one workspace.
WorkspaceIsWhole == TypeOK /\ SettledIsWhole /\ OneTreeAlwaysSurvives /\ ExportsAreWhole

\* No preflight of the native process ever refuses, in recovery or in the next
\* restore, and nothing is left that no journal would have removed.
PreflightsPass == RecoveryNeverStuck /\ RestoreNeverRefused /\ ResidueIsJournaled

\* The tree of the workspace the rows belong to, wherever it is.
Current(r) == IF dirs[r]["live"].ver = db.ver THEN dirs[r]["live"] ELSE dirs[r]["previous"]

\* A restore happens at once, at the database commit, or not at all, and files
\* that requests have added stay with their rows until a restore replaces both.
Abstract == INSTANCE AtomicWorkspace WITH
  version <- db.ver,
  trees <- [media |-> Current("media").ver, config |-> Current("config").ver],
  rows <- db.rows,
  files <- Current("media").files
ImplementsAtomicWorkspace == Abstract!Spec

\* A booted server gets through recovery and serves requests, unless it keeps
\* crashing or failing (the bounds end that), the application stays closed or a
\* request has recreated the media root.
Recovered == phase = "boot" ~> (phase = "idle" /\ ensured) \/ phase = "down" \/ Recreated

\* A restore or a reconciliation ends, so the workspace gate it holds opens.
ExclusiveWorkEnds == phase \notin {"down", "boot", "idle"} ~> phase \in {"down", "boot", "idle"}

\* Whatever a restore or a recovery has begun ends, and a server that booted
\* serves requests.
RestoresEnd == Recovered /\ ExclusiveWorkEnds

\* workspace-restore-journal.ts:366 says that reconciliation ends in a
\* deterministic old+old or new+new state: a server that boots on a journal
\* without its marker must be able to roll it back.
BootCanRollBack ==
  phase = "rollback" /\ aim = "boot" => \A r \in Roots : RollbackAllowed(r)
=============================================================================
